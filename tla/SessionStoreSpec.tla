-------------------------- MODULE SessionStoreSpec --------------------------
(***************************************************************************)
(* The session store driven by arbitrary callers: any GetOrCreate, any     *)
(* RecordRequest and CleanupExpired at any moment, the clock running.      *)
(* The history variable reply holds the answer of the last operation and   *)
(* influences nothing.                                                     *)
(***************************************************************************)
EXTENDS SessionStore

CONSTANT RecordBound  \* bound of the model: hashes recorded in one session

ASSUME RecordBoundAssumption == RecordBound \in Nat

VARIABLE reply

vars == <<sessions, reply>>

NoReply == [op |-> "none"]
Told(id, info) ==
    [op |-> "session", id |-> id, Model |-> info.Model, Escalated |-> info.Escalated]

Init ==
    /\ SessionInit
    /\ reply = NoReply

Lookup(id, m) ==
    \E info \in Info : GetOrCreate(id, m, info) /\ reply' = Told(id, info)

Record(id, h) ==
    /\ Stored(id) => Len(sessions[id].recentHashes) < RecordBound
    /\ RecordRequest(id, h)
    /\ reply' = NoReply

Cleanup == CleanupExpired /\ reply' = NoReply

Tick == SessionTick /\ UNCHANGED reply

Next ==
    \/ \E id \in SessionIDs, m \in Models : Lookup(id, m)
    \/ \E id \in SessionIDs, h \in Hashes : Record(id, h)
    \/ Cleanup
    \/ Tick

Spec == Init /\ [][Next]_vars

-----------------------------------------------------------------------------

(* The map holds well formed sessions.                                     *)
TypeOK == sessions \in [SessionIDs -> Session \cup {NoSession}]

(* The three-strike rule of RecordRequest: a session is escalated exactly  *)
(* when three of its recorded requests are the same, however the requests  *)
(* of different conversations interleave and however often it was looked   *)
(* up in between.                                                          *)
ThreeAlike(s) ==
    \E i, j, k \in DOMAIN s : i < j /\ j < k /\ s[i] = s[j] /\ s[j] = s[k]

EscalatedByThreeStrikes ==
    \A id \in SessionIDs :
        Stored(id) => (sessions[id].escalated <=> ThreeAlike(sessions[id].recentHashes))

(* A live session is never dropped, moved to another model, made younger,  *)
(* de-escalated or robbed of a recorded request: not by CleanupExpired,    *)
(* not by a caller that names another model, not by a recording.           *)
Extends(t, s) == Len(s) <= Len(t) /\ \A i \in DOMAIN s : t[i] = s[i]

KeepsLive ==
    \A id \in SessionIDs :
        Stored(id) /\ ~ Expired(id) =>
            /\ sessions'[id] # NoSession
            /\ sessions'[id].model = sessions[id].model
            /\ sessions'[id].age >= sessions[id].age
            /\ sessions[id].escalated => sessions'[id].escalated
            /\ Extends(sessions'[id].recentHashes, sessions[id].recentHashes)

LiveSessionsKept == [][KeepsLive]_vars

(* The store is a table of model leases with strike counters.              *)
ASSUME LeaseAssumption == NoSession \notin [model : Models, age : 0 .. SessionAgeBound]

Lease(id) ==
    IF Stored(id) THEN [model |-> sessions[id].model, age |-> sessions[id].age]
    ELSE NoSession

Strikes(id) ==
    [h \in Hashes |-> IF Stored(id) THEN Occurrences(sessions[id].recentHashes, h) ELSE 0]

Contract == INSTANCE SessionContract WITH
    lease <- [id \in SessionIDs |-> Lease(id)],
    strikes <- [id \in SessionIDs |-> Strikes(id)],
    NoLease <- NoSession

ImplementsContract == Contract!Spec
=============================================================================
