--------------------------- MODULE SessionContract ---------------------------
(***************************************************************************)
(* What SessionStore promises its caller: a session is a lease on a model. *)
(* While the lease runs, GetOrCreate reports the model of the call that    *)
(* opened it, and Escalated exactly when some request hash was recorded    *)
(* three times since.  When it has run out, the next caller opens a new    *)
(* one with its own model and no strikes.  There is no list and no flag    *)
(* here, only counters, and nothing says when an expired lease is freed.   *)
(***************************************************************************)
EXTENDS Integers

CONSTANTS SessionIDs, Models, Hashes, SessionTTL, SessionAgeBound, NoLease

VARIABLES
    lease,        \* [model, age] of each ID, or NoLease
    strikes,      \* how often each hash was recorded in the current lease
    reply         \* what the last operation told its caller

contractVars == <<lease, strikes, reply>>

NoStrikes == [h \in Hashes |-> 0]

Init ==
    /\ lease = [id \in SessionIDs |-> NoLease]
    /\ strikes = [id \in SessionIDs |-> NoStrikes]
    /\ reply = [op |-> "none"]

Running(id) == lease[id] # NoLease /\ lease[id].age <= SessionTTL

Answer(id, m, e) ==
    reply' = [op |-> "session", id |-> id, Model |-> m, Escalated |-> e]

Report(id) ==
    /\ Running(id)
    /\ Answer(id, lease[id].model, \E h \in Hashes : strikes[id][h] >= 3)
    /\ UNCHANGED <<lease, strikes>>

Open(id, m) ==
    /\ ~ Running(id)
    /\ lease' = [lease EXCEPT ![id] = [model |-> m, age |-> 0]]
    /\ strikes' = [strikes EXCEPT ![id] = NoStrikes]
    /\ Answer(id, m, FALSE)

Strike(id, h) ==
    /\ lease[id] # NoLease
    /\ strikes' = [strikes EXCEPT ![id][h] = @ + 1]
    /\ UNCHANGED lease
    /\ reply' = [op |-> "none"]

StrikeNothing(id) ==
    /\ lease[id] = NoLease
    /\ UNCHANGED <<lease, strikes>>
    /\ reply' = [op |-> "none"]

Free ==
    /\ \E F \in SUBSET {id \in SessionIDs : ~ Running(id)} :
          /\ lease' = [id \in SessionIDs |-> IF id \in F THEN NoLease ELSE lease[id]]
          /\ strikes' = [id \in SessionIDs |->
                           IF id \in F THEN NoStrikes ELSE strikes[id]]
    /\ reply' = [op |-> "none"]

Tick ==
    /\ lease' = [id \in SessionIDs |->
                   IF lease[id] = NoLease THEN NoLease
                   ELSE [lease[id] EXCEPT !.age =
                           IF @ < SessionAgeBound THEN @ + 1 ELSE SessionAgeBound]]
    /\ UNCHANGED <<strikes, reply>>

Next ==
    \/ \E id \in SessionIDs : Report(id) \/ StrikeNothing(id)
    \/ \E id \in SessionIDs, m \in Models : Open(id, m)
    \/ \E id \in SessionIDs, h \in Hashes : Strike(id, h)
    \/ Free
    \/ Tick

Spec == Init /\ [][Next]_contractVars
=============================================================================
