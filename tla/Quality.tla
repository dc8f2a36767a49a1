------------------------------ MODULE Quality ------------------------------
(***************************************************************************)
(* CheckDegraded: what the quality check of Chat finds wrong with a text.  *)
(*                                                                         *)
(* A text is the sequence of its words, one blank between two of them and  *)
(* none at the ends; of a word counts which one it is, its size, whether   *)
(* its last character is one of the closers, and whether it completes a    *)
(* known error phrase (in any case of letters, and inside longer words     *)
(* too).  The state is the text a gateway answers with, one word at a time.*)
(***************************************************************************)
EXTENDS Integers, FiniteSets, SequencesExt

CONSTANTS
    Words,          \* records [name, size, closes, phrase]
    MaxWords,       \* bound of the model: words of a text
    MaxVocabulary   \* bound of the model: different words of a text

ASSUME QualityAssumption ==
    /\ \A w \in Words :
         w.size \in Nat \ {0} /\ w.closes \in BOOLEAN /\ w.phrase \in BOOLEAN
    /\ MaxWords \in Nat
    /\ MaxVocabulary \in Nat

VARIABLE words

-----------------------------------------------------------------------------
(* The four checks, in the order of the code. *)

Empty(text) == text = <<>>

NamesPhrase(text) == \E i \in DOMAIN text : text[i].phrase

Trigram(text, i) == <<text[i], text[i + 1], text[i + 2]>>

(* counts[trigram] when the loop has come to position i. *)
CountAt(text, i) == Cardinality({j \in 1 .. i : Trigram(text, j) = Trigram(text, i)})

RepeatsPastFifteen(text) ==
    /\ Len(text) > 15
    /\ \E i \in 1 .. Len(text) - 2 : CountAt(text, i) >= 5

RepeatsLast(text) ==
    /\ Len(text) >= 15
    /\ CountAt(text, Len(text) - 2) >= 5

Repeats(text) ==
    /\ Len(text) >= 15
    /\ \E i \in 1 .. Len(text) - 2 : CountAt(text, i) >= 5

Length(text) == FoldLeft(LAMBDA n, w : n + w.size + 1, -1, text)

Truncated(text) ==
    /\ Length(text) > 100
    /\ ~ Last(text).closes
    /\ Last(text).size >= 4

CheckDegraded(text) ==
    IF Empty(text) THEN "empty_content"
    ELSE IF NamesPhrase(text) THEN "known_error_phrase"
    ELSE IF Repeats(text) THEN "repetitive_loop"
    ELSE IF Truncated(text) THEN "truncated_mid_word"
    ELSE ""

-----------------------------------------------------------------------------

Init == words = <<>>

Grow(w) ==
    /\ Len(words) < MaxWords
    /\ Cardinality(ToSet(words) \cup {w}) <= MaxVocabulary
    /\ words' = Append(words, w)

Next == \E w \in Words : Grow(w)

Spec == Init /\ [][Next]_words

-----------------------------------------------------------------------------

(* A text is made of words. *)
TypeOK == words \in Seq(Words)

(* A text that says the same three words five times over, no two of them   *)
(* overlapping, is found out: the least number of words the check asks for *)
(* is not too many (trigrams in CheckDegraded).                            *)
SaysFiveTimes(text) ==
    LET n == Len(text)
        Same(i, j) == Trigram(text, i) = Trigram(text, j)
    IN  \E a \in 1 .. n - 14 : \E b \in a + 3 .. n - 11 :
          /\ Same(a, b)
          /\ \E c \in b + 3 .. n - 8 :
               /\ Same(a, c)
               /\ \E d \in c + 3 .. n - 5 :
                    /\ Same(a, d)
                    /\ \E e \in d + 3 .. n - 2 : Same(a, e)

LoopsAreCaught ==
    SaysFiveTimes(words) =>
        CheckDegraded(words) \in {"known_error_phrase", "repetitive_loop"}

(* No further words clear a text of a loop or of an error phrase; only a   *)
(* truncated text is mended by going on.                                   *)
FaultsPersist ==
    [][ /\ CheckDegraded(words) = "known_error_phrase" =>
              CheckDegraded(words') = "known_error_phrase"
        /\ CheckDegraded(words) = "repetitive_loop" =>
              CheckDegraded(words') \in {"known_error_phrase", "repetitive_loop"}
      ]_words
=============================================================================
