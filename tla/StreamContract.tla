--------------------------- MODULE StreamContract ---------------------------
(***************************************************************************)
(* What ChatStream promises the reader of the channel it returns: however  *)
(* many goroutines and channels lie between, it is one channel with room   *)
(* for Ahead items.  Items come out in the order they went in, none is     *)
(* skipped, the body is not read further ahead of the reader than that and *)
(* not at all after a cancellation, and only then may the channel close    *)
(* with items inside.                                                      *)
(***************************************************************************)
EXTENDS Integers, Sequences

CONSTANTS
    Items,
    Ahead         \* items read of the body and not yet taken

VARIABLES
    put,          \* what went in
    taken,        \* what came out
    cancelled,    \* the caller gave up
    closed        \* the reader has seen the end

contractVars == <<put, taken, cancelled, closed>>

Init ==
    /\ put = <<>>
    /\ taken = <<>>
    /\ cancelled = FALSE
    /\ closed = FALSE

(* An answer that came in full goes in at once. *)
Fill ==
    /\ put = <<>>
    /\ ~ closed
    /\ put' \in Seq(Items)
    /\ UNCHANGED <<taken, cancelled, closed>>

Put ==
    /\ ~ cancelled
    /\ ~ closed
    /\ Len(put) - Len(taken) < Ahead
    /\ \E item \in Items : put' = Append(put, item)
    /\ UNCHANGED <<taken, cancelled, closed>>

Take ==
    /\ ~ closed
    /\ Len(taken) < Len(put)
    /\ taken' = Append(taken, put[Len(taken) + 1])
    /\ UNCHANGED <<put, cancelled, closed>>

Close ==
    /\ ~ closed
    /\ taken = put \/ cancelled
    /\ closed' = TRUE
    /\ UNCHANGED <<put, taken, cancelled>>

Cancel ==
    /\ ~ cancelled
    /\ cancelled' = TRUE
    /\ UNCHANGED <<put, taken, closed>>

Next == Fill \/ Put \/ Take \/ Close \/ Cancel

Spec == Init /\ [][Next]_contractVars
=============================================================================
