-------------------------- MODULE ResponseCacheSpec --------------------------
(***************************************************************************)
(* The response cache driven by arbitrary callers: any Get and any Put at  *)
(* any moment, the clock running.  The exported API of cache.go can be     *)
(* used this way, and the calls of a client are one such use.              *)
(*                                                                         *)
(* Two history variables watch the cache and influence nothing: reply, the *)
(* answer the last operation gave, and usedAfter, the recency the LRU      *)
(* policy is about.                                                        *)
(***************************************************************************)
EXTENDS ResponseCache

VARIABLES
    reply,        \* what the last operation told its caller
    usedAfter     \* <<a, b>> is here when a was used later than b was

vars == <<entries, order, reply, usedAfter>>

Hit(k, r) == [op |-> "hit", key |-> k, response |-> r]
Told(op, k) == [op |-> op, key |-> k]
NoReply == [op |-> "none"]

(* A hit and an accepted Put use their key; nothing else does. *)
Use(k) ==
    usedAfter' = {p \in usedAfter : p[2] # k} \cup {<<k, x>> : x \in Keys \ {k}}

Init ==
    /\ CacheInit
    /\ reply = NoReply
    /\ usedAfter = {}

Get(k) ==
    \/ \E r \in Responses : GetHit(k, r) /\ reply' = Hit(k, r) /\ Use(k)
    \/ GetMiss(k) /\ reply' = Told("miss", k) /\ UNCHANGED usedAfter

Put(k, r) ==
    \/ PutIgnored(k) /\ reply' = Told("ignored", k) /\ UNCHANGED usedAfter
    \/ PutStored(k, r) /\ reply' = Told("stored", k) /\ Use(k)

Tick == CacheTick /\ UNCHANGED <<reply, usedAfter>>

Next ==
    \/ \E k \in Keys : Get(k)
    \/ \E k \in Keys, r \in Responses : Put(k, r)
    \/ Tick

Spec == Init /\ [][Next]_vars

-----------------------------------------------------------------------------

(* The map and the order slice are what the code allocates for them.       *)
TypeOK ==
    /\ entries \in [Keys -> Entry \cup {NoEntry}]
    /\ order \in Seq(Keys)
    /\ usedAfter \in SUBSET (Keys \X Keys)

(* The order slice lists exactly the keys of the map, each of them once:   *)
(* Get and Put keep two structures in step on every path (hit, expiry,     *)
(* eviction, refresh), and eviction is right only if they do.              *)
OrderIsResidents ==
    /\ Range(order) = ResidentKeys
    /\ IsInjective(order)

(* The map never holds more than maxEntries responses.  A cache built with *)
(* maxEntries of 0 or less still keeps the one entry just put.             *)
WithinCapacity ==
    Cardinality(ResidentKeys) <= (IF MaxEntries > 0 THEN MaxEntries ELSE 1)

(* The order slice is sorted by recency of use.                            *)
SortedByRecency ==
    \A i, j \in DOMAIN order : i < j => <<order[j], order[i]>> \in usedAfter

(* Eviction drops the least recently used keys: when a Put pushes a key    *)
(* out, every other key it lets stay was used after the evicted one.       *)
EvictsOldestUse ==
    \A k \in Keys, r \in Responses :
       Put(k, r) =>
         \A gone, stays \in ResidentKeys \ {k} :
            entries'[gone] = NoEntry /\ entries'[stays] # NoEntry
               => <<stays, gone>> \in usedAfter

EvictsLeastRecentlyUsed == [][EvictsOldestUse]_vars

(* The cache keeps the promise of CacheContract: what it forgets, whom it  *)
(* evicts and how it orders its keys never shows in a wrong reply.         *)
Contract == INSTANCE CacheContract WITH known <- entries, Nothing <- NoEntry

ImplementsContract == Contract!Spec
=============================================================================
