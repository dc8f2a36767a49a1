---------------------------- MODULE SessionStore ----------------------------
(***************************************************************************)
(* The conversation sessions of session.go: SessionStore with GetOrCreate, *)
(* RecordRequest and CleanupExpired.                                       *)
(*                                                                         *)
(* Each operation holds s.mu throughout, so each is one atomic action.     *)
(* The component is open, as ResponseCache is: SessionStoreSpec closes it  *)
(* with arbitrary callers, Chat drives it from concurrent Chat calls.      *)
(* The instant a session was created is kept as an age that saturates      *)
(* beyond the time to live, the only thing the code compares it with.      *)
(***************************************************************************)
EXTENDS Integers, Sequences, FiniteSets

CONSTANTS
    SessionIDs,       \* the strings DeriveSessionIDWithSalt returns
    Models,           \* model names
    Hashes,           \* request hashes: the uint64 values CacheKey returns
    SessionTTL,       \* ttl, in clock ticks
    SessionAgeBound,  \* ages saturate here
    NoSession         \* the value of sessions at an ID that is not in the map

Session == [model : Models, age : 0 .. SessionAgeBound,
            recentHashes : Seq(Hashes), escalated : BOOLEAN]

Info == [Model : Models, Escalated : BOOLEAN]

ASSUME SessionAssumption ==
    /\ SessionTTL \in Int
    /\ SessionAgeBound \in Nat
    /\ SessionAgeBound > SessionTTL
    /\ NoSession \notin Session

VARIABLE sessions     \* s.sessions, NoSession outside the map

SessionInit == sessions = [id \in SessionIDs |-> NoSession]

Stored(id) == sessions[id] # NoSession

(* time.Since(entry.created) > s.ttl *)
Expired(id) == sessions[id].age > SessionTTL

(* The entry is built without its model; the empty name is written         *)
(* NoSession.                                                              *)
FreshSessionUnpinned(m) ==
    [model |-> NoSession, age |-> 0, recentHashes |-> <<>>, escalated |-> FALSE]

FreshSession(m) ==
    [model |-> m, age |-> 0, recentHashes |-> <<>>, escalated |-> FALSE]

(* GetOrCreate(id, m), returning info: an absent or expired session is     *)
(* replaced by a fresh one pinned to the caller's model, a live one is     *)
(* reported and left alone.                                                *)
GetOrCreateRevivingExpired(id, m, info) ==
    \/ /\ Stored(id)
       /\ info = [Model |-> sessions[id].model, Escalated |-> sessions[id].escalated]
       /\ UNCHANGED sessions
    \/ /\ ~ Stored(id)
       /\ info = [Model |-> m, Escalated |-> FALSE]
       /\ sessions' = [sessions EXCEPT ![id] = FreshSession(m)]

GetOrCreateRepinning(id, m, info) ==
    \/ /\ Stored(id)
       /\ ~ Expired(id)
       /\ info = [Model |-> m, Escalated |-> sessions[id].escalated]
       /\ sessions' = [sessions EXCEPT ![id].model = m]
    \/ /\ Stored(id) => Expired(id)
       /\ info = [Model |-> m, Escalated |-> FALSE]
       /\ sessions' = [sessions EXCEPT ![id] = FreshSession(m)]

GetOrCreate(id, m, info) ==
    \/ /\ Stored(id)
       /\ ~ Expired(id)
       /\ info = [Model |-> sessions[id].model, Escalated |-> sessions[id].escalated]
       /\ UNCHANGED sessions
    \/ /\ Stored(id) => Expired(id)
       /\ info = [Model |-> m, Escalated |-> FALSE]
       /\ sessions' = [sessions EXCEPT ![id] = FreshSession(m)]

(* How often h occurs in the list s. *)
Occurrences(s, h) == Cardinality({i \in DOMAIN s : s[i] = h})

(* RecordRequest(id, h): a session that is gone is not recreated, an       *)
(* expired one that is still stored takes the hash; the third equal hash   *)
(* escalates the session.                                                  *)
RecordRequestByLength(id, h) ==
    \/ /\ Stored(id)
       /\ LET recorded == Append(sessions[id].recentHashes, h)
          IN  sessions' = [sessions EXCEPT
                ![id].recentHashes = recorded,
                ![id].escalated = @ \/ Len(recorded) >= 3]
    \/ /\ ~ Stored(id)
       /\ UNCHANGED sessions

RecordRequest(id, h) ==
    \/ /\ Stored(id)
       /\ LET recorded == Append(sessions[id].recentHashes, h)
          IN  sessions' = [sessions EXCEPT
                ![id].recentHashes = recorded,
                ![id].escalated = @ \/ Occurrences(recorded, h) >= 3]
    \/ /\ ~ Stored(id)
       /\ UNCHANGED sessions

(* CleanupExpired drops every expired session. *)
CleanupExpired ==
    sessions' = [id \in SessionIDs |->
                   IF Stored(id) /\ Expired(id) THEN NoSession ELSE sessions[id]]

(* The clock advances one tick. *)
OlderSession(age) == IF age < SessionAgeBound THEN age + 1 ELSE SessionAgeBound

SessionTick ==
    sessions' = [id \in SessionIDs |->
                   IF Stored(id)
                   THEN [sessions[id] EXCEPT !.age = OlderSession(@)]
                   ELSE NoSession]
=============================================================================
