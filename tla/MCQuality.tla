----------------------------- MODULE MCQuality -----------------------------
(* Values for the constants of Quality. *)
EXTENDS Quality

Word(name, size, closes, phrase) ==
    [name |-> name, size |-> size, closes |-> closes, phrase |-> phrase]

(* Nine long words and their blanks make more than 100 characters.         *)
Vocabulary == {Word("on", 3, FALSE, FALSE), Word("conjunctions", 12, FALSE, FALSE),
               Word("conjunctive.", 12, TRUE, FALSE), Word("cannot", 6, FALSE, TRUE)}
=============================================================================
