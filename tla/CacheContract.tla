---------------------------- MODULE CacheContract ----------------------------
(***************************************************************************)
(* What ResponseCache promises a caller, with no order list, no capacity   *)
(* and no eviction policy: a Get that hits returns the response of the     *)
(* last Put that was accepted for that very key, and only while it is at   *)
(* most TTL old; a Put is dropped only while an accepted one is younger    *)
(* than the dedup window.  A cache may forget any key at any moment, which *)
(* is how eviction looks from outside.                                     *)
(***************************************************************************)
EXTENDS Integers

CONSTANTS Keys, Responses, TTL, DedupWindow, AgeBound, Nothing

VARIABLES
    known,        \* the last accepted Put of each key, or Nothing
    reply         \* what the last operation told its caller

contractVars == <<known, reply>>

Hit(k, r) == [op |-> "hit", key |-> k, response |-> r]
Told(op, k) == [op |-> op, key |-> k]
NoReply == [op |-> "none"]

Init ==
    /\ known = [k \in Keys |-> Nothing]
    /\ reply = NoReply

Known(k) == known[k] # Nothing

(* Every key of the result is as it was or forgotten. *)
Forgets(K) == [k \in Keys |-> IF k \in K THEN Nothing ELSE known[k]]

GetHit(k) ==
    /\ Known(k)
    /\ known[k].age <= TTL
    /\ reply' = Hit(k, known[k].response)
    /\ UNCHANGED known

GetMiss(k) ==
    /\ Known(k) => known[k].age > TTL
    /\ known' = Forgets({k})
    /\ reply' = Told("miss", k)

PutIgnored(k) ==
    /\ Known(k)
    /\ known[k].age < DedupWindow
    /\ reply' = Told("ignored", k)
    /\ UNCHANGED known

PutStored(k, r) ==
    /\ Known(k) => known[k].age >= DedupWindow
    /\ \E K \in SUBSET Keys :
          known' = [Forgets(K) EXCEPT ![k] = [response |-> r, age |-> 0]]
    /\ reply' = Told("stored", k)

Tick ==
    /\ known' = [k \in Keys |->
                   IF ~ Known(k) THEN Nothing
                   ELSE [known[k] EXCEPT !.age =
                           IF @ < AgeBound THEN @ + 1 ELSE AgeBound]]
    /\ UNCHANGED reply

Next ==
    \/ \E k \in Keys : GetHit(k) \/ GetMiss(k) \/ PutIgnored(k)
    \/ \E k \in Keys, r \in Responses : PutStored(k, r)
    \/ Tick

Spec == Init /\ [][Next]_contractVars
=============================================================================
