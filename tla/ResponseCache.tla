---------------------------- MODULE ResponseCache ----------------------------
(***************************************************************************)
(* The LRU response cache of cache.go: ResponseCache with Get and Put.     *)
(*                                                                         *)
(* Both operations hold c.mu from their first line to their return, so     *)
(* each is one atomic action here.  The component is open: this module     *)
(* declares its state and its actions, ResponseCacheSpec closes it with    *)
(* arbitrary callers and Chat drives it from concurrent Chat calls.        *)
(*                                                                         *)
(* Time is kept as ages.  The code stores the instant of insertion and     *)
(* only ever compares time.Since of it with ttl and dedupWindow, so an age *)
(* that saturates at AgeBound, beyond both, tells the code everything the  *)
(* instant does and keeps the state finite without bounding the run.       *)
(***************************************************************************)
EXTENDS Integers, SequencesExt

CONSTANTS
    Keys,         \* cache keys: the uint64 values CacheKey returns
    Responses,    \* the responses the gateway may have sent
    MaxEntries,   \* maxEntries, any int: the constructor does not check it
    TTL,          \* ttl, in clock ticks
    DedupWindow,  \* dedupWindow, in clock ticks
    AgeBound,     \* ages saturate here
    NoEntry       \* the value of entries at a key that is not in the map

Entry == [response : Responses, age : 0 .. AgeBound]

ASSUME CacheAssumption ==
    /\ MaxEntries \in Int
    /\ TTL \in Int
    /\ DedupWindow \in Int
    /\ AgeBound \in Nat
    /\ AgeBound > TTL
    /\ AgeBound >= DedupWindow
    /\ NoEntry \notin Entry

VARIABLES
    entries,      \* c.entries, NoEntry outside the map
    order         \* c.order, least recently used key first

cacheVars == <<entries, order>>

CacheInit ==
    /\ entries = [k \in Keys |-> NoEntry]
    /\ order = <<>>

Resident(k) == entries[k] # NoEntry

(* time.Since(entry.inserted) <= c.ttl, as Get tests it. *)
FreshUnlessOneTickOver(k) == entries[k].age <= TTL + 1

Fresh(k) == entries[k].age <= TTL

(* time.Since(existing.inserted) < c.dedupWindow: Put then returns early. *)
InDedupWindow(k) == Resident(k) /\ entries[k].age < DedupWindow

(* The key is taken out of order and appended, most recently used last. *)
MovedToEndIfAbsent(s, k) == IF Contains(s, k) THEN s ELSE Append(s, k)

MovedToEnd(s, k) == Append(RemoveFirst(s, k), k)

ResidentKeys == {k \in Keys : Resident(k)}

FirstInOrder(n) == {order[i] : i \in 1 .. n}

(* Put's eviction loop stops after n turns: each turn drops the front of   *)
(* order and its entry, while the map is full and order is not empty.      *)
LoopStopsOverfull(n) ==
    \/ Cardinality(ResidentKeys \ FirstInOrder(n)) <= MaxEntries
    \/ n = Len(order)

LoopStops(n) ==
    \/ Cardinality(ResidentKeys \ FirstInOrder(n)) < MaxEntries
    \/ n = Len(order)

EvictionTurns ==
    CHOOSE n \in 0 .. Len(order) :
        /\ LoopStops(n)
        /\ \A m \in 0 .. n - 1 : ~ LoopStops(m)

Evicted == FirstInOrder(EvictionTurns)

Kept == SubSeq(order, EvictionTurns + 1, Len(order))

-----------------------------------------------------------------------------

(* Get(key) that returns the cached response r. *)
GetHitWithoutTouch(k, r) ==
    /\ Resident(k)
    /\ Fresh(k)
    /\ r = entries[k].response
    /\ UNCHANGED cacheVars

GetHit(k, r) ==
    /\ Resident(k)
    /\ Fresh(k)
    /\ r = entries[k].response
    /\ order' = MovedToEnd(order, k)
    /\ UNCHANGED entries

(* Get(key) that returns false: the key is absent, or it has expired and   *)
(* is removed from the map and from order.                                 *)
GetMissKeepingOrder(k) ==
    \/ /\ ~ Resident(k)
       /\ UNCHANGED cacheVars
    \/ /\ Resident(k)
       /\ ~ Fresh(k)
       /\ entries' = [entries EXCEPT ![k] = NoEntry]
       /\ UNCHANGED order

GetMiss(k) ==
    \/ /\ ~ Resident(k)
       /\ UNCHANGED cacheVars
    \/ /\ Resident(k)
       /\ ~ Fresh(k)
       /\ entries' = [entries EXCEPT ![k] = NoEntry]
       /\ order' = RemoveFirst(order, k)

(* Put(key, response) inside the dedup window of the resident entry. *)
PutIgnored(k) ==
    /\ InDedupWindow(k)
    /\ UNCHANGED cacheVars

(* The entry is built without its response.  The zero ChatResponse, which  *)
(* is no answer of the gateway, is written NoEntry.                        *)
PutStoredWithoutResponse(k, r) ==
    /\ ~ InDedupWindow(k)
    /\ entries' = [x \in Keys |->
                     IF x = k THEN [response |-> NoEntry, age |-> 0]
                     ELSE IF x \in Evicted THEN NoEntry
                     ELSE entries[x]]
    /\ order' = MovedToEnd(Kept, k)

(* Put(key, response) otherwise: evict, insert with a fresh timestamp, and *)
(* make the key the most recently used one.  The loop tests the capacity   *)
(* before it looks whether the key is already resident, so refreshing a    *)
(* resident key of a full cache evicts the least recently used key too.    *)
PutStored(k, r) ==
    /\ ~ InDedupWindow(k)
    /\ entries' = [x \in Keys |->
                     IF x = k THEN [response |-> r, age |-> 0]
                     ELSE IF x \in Evicted THEN NoEntry
                     ELSE entries[x]]
    /\ order' = MovedToEnd(Kept, k)

(* The clock advances one tick. *)
Older(age) == IF age < AgeBound THEN age + 1 ELSE AgeBound

CacheTick ==
    /\ entries' = [k \in Keys |->
                     IF Resident(k)
                     THEN [entries[k] EXCEPT !.age = Older(@)]
                     ELSE NoEntry]
    /\ UNCHANGED order
=============================================================================
