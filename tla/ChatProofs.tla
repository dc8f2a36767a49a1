----------------------------- MODULE ChatProofs -----------------------------
(***************************************************************************)
(* Theorems about concurrent calls of Chat and ChatStream.                 *)
(*                                                                         *)
(* The calls rely on what they share: an answer is right because the cache *)
(* holds under each key an answer to that key, which holds because what a  *)
(* call stores is right.  So the inductive invariant IInv is CallOK of     *)
(* every goroutine (ChatCallProofs), CacheOK and SessionsOK together.  The *)
(* safety properties of ChatSpec follow from it, as does every step of     *)
(* PaymentContract.  OneModelPerSession needs an invariant of its own, on  *)
(* top, about which goroutine may still send which model.                  *)
(***************************************************************************)
EXTENDS ChatCallProofs, FiniteSetTheorems

-----------------------------------------------------------------------------
(* The cache, as the calls drive it. *)

LEMMA EntriesKept ==
    ASSUME UNCHANGED entries, CacheOK
    PROVE  CacheOK'
  BY DEF CacheOK, Cache!Resident

LEMMA MissKeepsCache ==
    ASSUME CallsOK, CacheOK, NEW p \in Callers, CacheMiss(p)
    PROVE  CacheOK'
<1>1. ~ At(p, "idle")
  BY DEF CacheMiss, At
<1>2. KeyOf(p) \in CacheKeys
  BY <1>1, KeysOfCalls
<1>3. CASE entries' = [entries EXCEPT ![KeyOf(p)] = NoEntry]
  BY <1>2, <1>3 DEF CacheOK, Cache!Resident
<1> QED
  BY <1>3, EntriesKept DEF CacheMiss, Cache!GetMiss, Cache!cacheVars

LEMMA StoreKeepsCache ==
    ASSUME CallsOK, CacheOK, NEW p \in Callers, CacheStore(p)
    PROVE  CacheOK'
<1> DEFINE k == KeyOf(p)
           r == calls[p].response
<1>1. CallOK(calls[p]) /\ calls[p].pc = "store" /\ ~ At(p, "idle")
  BY DEF CallsOK, CacheStore, At
<1>2. k \in CacheKeys /\ ResponseKey(r) = k /\ (IsGated => ~ r.degraded)
  BY <1>1, KeysOfCalls DEF CallOK, KeyFits, GateFits, HasAnswer, KeyOf, Messages
<1>3. r \in Response
  BY <1>1 DEF CallOK, UnderWay
<1>4. CASE Cache!PutStored(k, r)
  <2>1. entries' = [x \in CacheKeys |->
                     IF x = k THEN [response |-> r, age |-> 0]
                     ELSE IF x \in Cache!Evicted THEN NoEntry
                     ELSE entries[x]]
    BY <1>4 DEF Cache!PutStored
  <2>2. [response |-> r, age |-> 0] \in Cache!Entry
    BY <1>3, ChatAssumption DEF Cache!Entry
  <2>3. entries' \in [CacheKeys -> Cache!Entry \cup {NoEntry}]
    BY <2>1, <2>2 DEF CacheOK
  <2>4. ASSUME NEW x \in CacheKeys, entries'[x] # NoEntry
        PROVE  /\ ResponseKey(entries'[x].response) = x
               /\ IsGated => ~ entries'[x].response.degraded
    <3>1. CASE x = k
      BY <1>2, <2>1, <3>1
    <3>2. CASE x # k
      BY <2>1, <2>4, <3>2 DEF CacheOK, Cache!Resident
    <3> QED
      BY <3>1, <3>2
  <2> QED
    BY <2>3, <2>4 DEF CacheOK, Cache!Resident
<1> QED
  BY <1>4, EntriesKept DEF CacheStore, Cache!PutIgnored, Cache!cacheVars

LEMMA TickKeepsCache ==
    ASSUME CacheOK, Tick
    PROVE  CacheOK'
<1>1. entries' = [k \in CacheKeys |->
                   IF Cache!Resident(k)
                   THEN [entries[k] EXCEPT !.age = Cache!Older(@)]
                   ELSE NoEntry]
  BY DEF Tick, Cache!CacheTick
<1>2. ASSUME NEW k \in CacheKeys, Cache!Resident(k)
      PROVE  /\ entries'[k] \in Cache!Entry
             /\ entries'[k].response = entries[k].response
  <2>1. entries[k] \in Cache!Entry
    BY <1>2 DEF CacheOK, Cache!Resident
  <2>2. Cache!Older(entries[k].age) \in 0 .. CacheAgeBound
    BY <2>1, ChatAssumption DEF Cache!Older, Cache!Entry
  <2> QED
    BY <1>1, <1>2, <2>1, <2>2 DEF Cache!Entry
<1>3. entries' \in [CacheKeys -> Cache!Entry \cup {NoEntry}]
  BY <1>1, <1>2
<1>4. \A k \in CacheKeys : entries'[k] # NoEntry => Cache!Resident(k)
  BY <1>1
<1>5. \A k \in CacheKeys : entries'[k] # NoEntry =>
          /\ ResponseKey(entries'[k].response) = k
          /\ IsGated => ~ entries'[k].response.degraded
  BY <1>2, <1>4 DEF CacheOK
<1> QED
  BY <1>3, <1>5 DEF CacheOK, Cache!Resident

-----------------------------------------------------------------------------
(* The list of the cache. *)

(* What leaves a list of keys behind. *)
LEMMA MovedToEndKeys ==
    ASSUME NEW S, NEW s \in Seq(S), NEW k \in S
    PROVE  Cache!RemoveFirst(s, k) \in Seq(S) /\ Cache!MovedToEnd(s, k) \in Seq(S)
<1>1. Cache!RemoveFirst(s, k) = RemoveFirst(s, k)
  BY DEF Cache!RemoveFirst, RemoveFirst, RemoveAt, SelectInSeq,
         Cache!RemoveAt, Cache!SelectInSeq, Cache!Min, Min
<1>2. RemoveFirst(s, k) \in Seq(S)
  <2>1. CASE ~ \E i \in 1 .. Len(s) : s[i] = k
    BY <2>1 DEF RemoveFirst
  <2>2. CASE \E i \in 1 .. Len(s) : s[i] = k
    <3> DEFINE I == {i \in 1 .. Len(s) : s[i] = k}
               i == Min(I)
    <3>1. i \in 1 .. Len(s)
      <4>1. I # {} /\ I \in SUBSET (1 .. Len(s)) /\ Len(s) \in Nat
        BY <2>2
      <4> HIDE DEF I
      <4> QED
        BY <4>1, LeastIndex, Zenon
    <3>2. RemoveFirst(s, k) = SubSeq(s, 1, i - 1) \o SubSeq(s, i + 1, Len(s))
      BY <2>2 DEF RemoveFirst, RemoveAt, SelectInSeq
    <3> HIDE DEF i
    <3>3. SubSeq(s, 1, i - 1) \in Seq(S)
      BY <3>1, SubSeqProperties
    <3>4. SubSeq(s, i + 1, Len(s)) \in Seq(S)
      <4>1. i + 1 \in Int /\ Len(s) \in Int /\ \A x \in i + 1 .. Len(s) : s[x] \in S
        BY <3>1
      <4> QED
        BY <4>1, SubSeqProperties
    <3> QED
      BY <3>2, <3>3, <3>4, ConcatProperties
  <2> QED
    BY <2>1, <2>2
<1>3. Append(RemoveFirst(s, k), k) \in Seq(S)
  BY <1>2, AppendProperties
<1> QED
  BY <1>1, <1>2, <1>3 DEF Cache!MovedToEnd

(* The eviction loop stops, and keeps a slice of the list. *)
LEMMA KeptKeys ==
    ASSUME order \in Seq(CacheKeys)
    PROVE  Cache!Kept \in Seq(CacheKeys)
<1> DEFINE T == {n \in 0 .. Len(order) : Cache!LoopStops(n)}
<1>1. Len(order) \in T
  BY DEF Cache!LoopStops
<1>2. PICK n \in T : \A m \in T : ~ (<<m, n>> \in OpToRel(<, Nat))
  <2>1. T \subseteq Nat /\ T # {}
    BY <1>1
  <2> HIDE DEF T
  <2> QED
    BY <2>1, NatLessThanWellFounded, WFMin, Zenon
<1>3. \A m \in 0 .. n - 1 : m \in 0 .. Len(order) /\ m \in Nat /\ n \in Nat /\ m < n
  OBVIOUS
<1>4. \A m \in 0 .. n - 1 : ~ Cache!LoopStops(m)
  BY <1>2, <1>3 DEF OpToRel
<1>5. \E x \in 0 .. Len(order) :
         Cache!LoopStops(x) /\ \A m \in 0 .. x - 1 : ~ Cache!LoopStops(m)
  BY <1>4
<1>6. PICK turns : turns = Cache!EvictionTurns
  OBVIOUS
<1>7. turns \in 0 .. Len(order)
  BY <1>5, <1>6, Zenon DEF Cache!EvictionTurns
<1>8. SubSeq(order, turns + 1, Len(order)) \in Seq(CacheKeys)
  <2>1. turns + 1 \in Int /\ Len(order) \in Int
        /\ \A x \in turns + 1 .. Len(order) : order[x] \in CacheKeys
    BY <1>7
  <2> QED
    BY <2>1, SubSeqProperties
<1> QED
  BY <1>6, <1>8 DEF Cache!Kept

LEMMA HitKeepsOrder ==
    ASSUME CallsOK, order \in Seq(CacheKeys), NEW p \in Callers, CacheHit(p)
    PROVE  order' \in Seq(CacheKeys)
<1>1. order' = Cache!MovedToEnd(order, KeyOf(p)) /\ ~ At(p, "idle")
  BY DEF CacheHit, Cache!GetHit, At
<1> QED
  BY <1>1, KeysOfCalls, MovedToEndKeys

LEMMA MissKeepsOrder ==
    ASSUME CallsOK, order \in Seq(CacheKeys), NEW p \in Callers, CacheMiss(p)
    PROVE  order' \in Seq(CacheKeys)
<1>1. ~ At(p, "idle") /\ (order' = order \/ order' = Cache!RemoveFirst(order, KeyOf(p)))
  BY DEF CacheMiss, Cache!GetMiss, Cache!cacheVars, At
<1> QED
  BY <1>1, KeysOfCalls, MovedToEndKeys

LEMMA StoreKeepsOrder ==
    ASSUME CallsOK, order \in Seq(CacheKeys), NEW p \in Callers, CacheStore(p)
    PROVE  order' \in Seq(CacheKeys)
<1>1. ~ At(p, "idle") /\ (order' = order \/ order' = Cache!MovedToEnd(Cache!Kept, KeyOf(p)))
  BY DEF CacheStore, Cache!PutStored, Cache!PutIgnored, Cache!cacheVars, At
<1> QED
  BY <1>1, KeysOfCalls, KeptKeys, MovedToEndKeys

-----------------------------------------------------------------------------
(* The sessions, as the calls drive them. *)

LEMMA FreshIsSession ==
    ASSUME NEW m \in Models
    PROVE  Store!FreshSession(m) \in Store!Session
<1>1. <<>> \in Seq(CacheKeys) /\ 0 \in 0 .. SessionAgeBound
  BY ChatAssumption
<1> QED
  BY <1>1 DEF Store!FreshSession, Store!Session

LEMMA LookupKeepsSessions ==
    ASSUME CallsOK, SessionsOK, NEW p \in Callers, SessionLookup(p)
    PROVE  SessionsOK'
<1>1. ~ At(p, "idle")
  BY DEF SessionLookup, At
<1>2. IDOf(p) \in SessionIDs /\ Store!FreshSession(calls[p].model) \in Store!Session
  BY <1>1, KeysOfCalls, FreshIsSession
<1>3. \/ sessions' = sessions
      \/ sessions' = [sessions EXCEPT ![IDOf(p)] = Store!FreshSession(calls[p].model)]
  BY DEF SessionLookup, Store!GetOrCreate
<1>4. sessions' \in [SessionIDs -> Store!Session \cup {NoSession}]
  BY <1>2, <1>3 DEF SessionsOK
<1>5. opened' \in [SessionIDs -> Nat]
  BY LookupKeeps DEF SessionsOK
<1> QED
  BY <1>4, <1>5 DEF SessionsOK

(* Every session keeps its model. *)
ModelsKept == \A id \in SessionIDs : sessions'[id].model = sessions[id].model

(* Recording a request changes what a session has seen, and no model. *)
LEMMA RecordKeepsSessions ==
    ASSUME CallsOK, SessionsOK, NEW p \in Callers, SessionRecord(p)
    PROVE  SessionsOK' /\ ModelsKept
<1> DEFINE id == IDOf(p)
           s == sessions[id]
           recorded == Append(s.recentHashes, KeyOf(p))
<1>1. ~ At(p, "idle") /\ Store!RecordRequest(id, KeyOf(p)) /\ UNCHANGED opened
  BY DEF SessionRecord, At
<1>2. id \in SessionIDs /\ KeyOf(p) \in CacheKeys
  BY <1>1, KeysOfCalls
<1>3. CASE UNCHANGED sessions
  BY <1>1, <1>3 DEF SessionsOK, ModelsKept
<1>4. CASE sessions[id] # NoSession
  <2>1. s \in Store!Session
    BY <1>2, <1>4 DEF SessionsOK
  <2>2. recorded \in Seq(CacheKeys)
    BY <1>2, <2>1, AppendProperties DEF Store!Session
  <2>3. PICK known \in BOOLEAN : known = (s.escalated \/ Store!Occurrences(recorded, KeyOf(p)) >= 3)
    OBVIOUS
  <2>4. sessions' = [sessions EXCEPT ![id].recentHashes = recorded, ![id].escalated = known]
    <3>1. sessions' = [sessions EXCEPT ![id].recentHashes = recorded,
                        ![id].escalated = @ \/ Store!Occurrences(recorded, KeyOf(p)) >= 3]
      BY <1>1, <1>4 DEF Store!RecordRequest, Store!Stored
    <3> QED
      BY <3>1, <2>3, <2>1, <1>2 DEF SessionsOK, Store!Session
  <2> HIDE DEF recorded
  <2>5. /\ sessions'[id] \in Store!Session /\ sessions'[id].model = s.model
        /\ \A x \in SessionIDs : x # id => sessions'[x] = sessions[x]
        /\ sessions' \in [SessionIDs -> Store!Session \cup {NoSession}]
    BY <1>2, <2>1, <2>2, <2>4 DEF SessionsOK, Store!Session
  <2> QED
    BY <1>1, <1>4, <2>5 DEF SessionsOK, ModelsKept
<1> QED
  BY <1>1, <1>3, <1>4 DEF Store!RecordRequest, Store!Stored

(* The clock ages the sessions, and changes no model. *)
LEMMA TickKeepsSessions ==
    ASSUME SessionsOK, Tick
    PROVE  SessionsOK' /\ ModelsKept
<1>1. /\ UNCHANGED opened
      /\ sessions' = [id \in SessionIDs |->
                        IF sessions[id] # NoSession
                        THEN [sessions[id] EXCEPT !.age = Store!OlderSession(@)]
                        ELSE NoSession]
  BY DEF Tick, Store!SessionTick, Store!Stored
<1>2. ASSUME NEW id \in SessionIDs, sessions[id] # NoSession
      PROVE  sessions'[id] \in Store!Session /\ sessions'[id].model = sessions[id].model
  <2>1. sessions[id] \in Store!Session
    BY <1>2 DEF SessionsOK
  <2>2. Store!OlderSession(sessions[id].age) \in 0 .. SessionAgeBound
    BY <2>1, ChatAssumption DEF Store!OlderSession, Store!Session
  <2> QED
    BY <1>1, <1>2, <2>1, <2>2 DEF Store!Session
<1>3. sessions' \in [SessionIDs -> Store!Session \cup {NoSession}]
  BY <1>1, <1>2
<1> QED
  BY <1>1, <1>2, <1>3 DEF SessionsOK, ModelsKept

-----------------------------------------------------------------------------
(* The invariant. *)

SharedTyped ==
    /\ callsLeft \in 0 .. CallBudget
    /\ lastBalance \in {"unset", "zero", "positive"}
    /\ order \in Seq(CacheKeys)

IInv == CallsOK /\ CacheOK /\ SessionsOK /\ SharedTyped

LEMMA InvInit == Init => IInv
<1> SUFFICES ASSUME Init
             PROVE  IInv
  OBVIOUS
<1>1. CallsOK
  BY NotCalledTyped, NotCalledOK DEF Init, CallsOK
<1>2. CacheOK /\ SessionsOK
  BY DEF Init, CacheOK, SessionsOK, Cache!CacheInit, Cache!Resident, Store!SessionInit
<1>3. SharedTyped
  <2>1. <<>> \in Seq(CacheKeys)
    OBVIOUS
  <2> QED
    BY <2>1, ChatAssumption DEF Init, SharedTyped, Cache!CacheInit
<1> QED
  BY <1>1, <1>2, <1>3 DEF IInv

(* The steps of a call that touch neither the cache nor a session. *)
Quiet(p) ==
    \/ \E degraded \in BOOLEAN : ProbeAnswered(p, degraded) \/ SubmitAnswered(p, degraded)
    \/ \E pr \in Offers : ProbePriced(p, pr) \/ SubmitRejected(p, pr)
    \/ StreamReplayed(p) \/ StreamOpened(p) \/ StreamEnds(p) \/ StreamCut(p)
    \/ SignFails(p) \/ Sign(p) \/ SendFails(p)
    \/ QualityPasses(p) \/ QualityExhausted(p) \/ QualityRetry(p)

LEMMA ContinueCases ==
    ASSUME NEW p \in Callers, Continue(p)
    PROVE  \/ SessionLookup(p) \/ CacheHit(p) \/ CacheMiss(p) \/ CacheStore(p)
           \/ SessionRecord(p) \/ Quiet(p)
  BY DEF Continue, Quiet

LEMMA QuietLeavesShared ==
    ASSUME NEW p \in Callers, Quiet(p)
    PROVE  UNCHANGED <<callsLeft, lastBalance, entries, order, sessions, opened>>
  BY DEF Quiet, OnlyMoves, clientState, ProbeAnswered, SubmitAnswered, ProbePriced,
         SubmitRejected, StreamReplayed, StreamOpened, StreamEnds, StreamCut, SignFails,
         Sign, SendFails, QualityPasses, QualityExhausted, QualityRetry

LEMMA QuietKeeps ==
    ASSUME CallsOK, NEW p \in Callers, Quiet(p)
    PROVE  CallsOK'
  BY AnsweredKeeps, PricedKeeps, StreamKeeps, ErrorsKeep, SignKeeps, QualityKeeps DEF Quiet

LEMMA CallsStep ==
    ASSUME IInv, [Next]_chatVars
    PROVE  CallsOK'
<1> USE DEF IInv
<1>1. CASE \E p \in Callers, r \in Requests : Begin(p, r)
  BY <1>1, BeginKeeps
<1>2. ASSUME NEW p \in Callers, Continue(p)
      PROVE  CallsOK'
  <2>1. CASE SessionLookup(p)
    BY <2>1, LookupKeeps DEF SessionsOK
  <2>2. CASE CacheHit(p) \/ CacheMiss(p) \/ CacheStore(p) \/ SessionRecord(p) \/ Quiet(p)
    BY <2>2, HitKeeps, MissKeeps, StoreKeeps, RecordKeeps, QuietKeeps
  <2> QED
    BY <1>2, <2>1, <2>2, ContinueCases
<1>3. CASE (\E b \in {"zero", "positive"} : BalancePoll(b)) \/ Tick \/ UNCHANGED chatVars
  BY <1>3 DEF BalancePoll, Tick, chatVars, CallsOK
<1> QED
  BY <1>1, <1>2, <1>3 DEF Next

LEMMA CacheStep ==
    ASSUME IInv, [Next]_chatVars
    PROVE  CacheOK' /\ order' \in Seq(CacheKeys)
<1> USE DEF IInv, SharedTyped
<1>1. ASSUME UNCHANGED <<entries, order>>
      PROVE  CacheOK' /\ order' \in Seq(CacheKeys)
  BY <1>1, EntriesKept
<1>2. ASSUME NEW p \in Callers, Continue(p)
      PROVE  CacheOK' /\ order' \in Seq(CacheKeys)
  <2>1. CASE CacheHit(p)
    BY <2>1, EntriesKept, HitKeepsOrder DEF CacheHit, Cache!GetHit
  <2>2. CASE CacheMiss(p)
    BY <2>2, MissKeepsCache, MissKeepsOrder
  <2>3. CASE CacheStore(p)
    BY <2>3, StoreKeepsCache, StoreKeepsOrder
  <2>4. CASE SessionLookup(p) \/ SessionRecord(p) \/ Quiet(p)
    BY <2>4, <1>1, QuietLeavesShared DEF SessionLookup, SessionRecord
  <2> QED
    BY <1>2, <2>1, <2>2, <2>3, <2>4, ContinueCases
<1>3. CASE Tick
  BY <1>3, TickKeepsCache DEF Tick, Cache!CacheTick
<1>4. CASE \/ \E p \in Callers, r \in Requests : Begin(p, r)
           \/ \E b \in {"zero", "positive"} : BalancePoll(b)
           \/ UNCHANGED chatVars
  BY <1>1, <1>4 DEF Begin, BalancePoll, chatVars
<1> QED
  BY <1>2, <1>3, <1>4 DEF Next

LEMMA SessionsStep ==
    ASSUME IInv, [Next]_chatVars
    PROVE  SessionsOK'
<1> USE DEF IInv
<1>1. ASSUME UNCHANGED <<sessions, opened>>
      PROVE  SessionsOK'
  BY <1>1 DEF SessionsOK
<1>2. ASSUME NEW p \in Callers, Continue(p)
      PROVE  SessionsOK'
  <2>1. CASE SessionLookup(p)
    BY <2>1, LookupKeepsSessions
  <2>2. CASE SessionRecord(p)
    BY <2>2, RecordKeepsSessions
  <2>3. CASE CacheHit(p) \/ CacheMiss(p) \/ CacheStore(p) \/ Quiet(p)
    BY <2>3, <1>1, QuietLeavesShared DEF CacheHit, CacheMiss, CacheStore
  <2> QED
    BY <1>2, <2>1, <2>2, <2>3, ContinueCases
<1>3. CASE Tick
  BY <1>3, TickKeepsSessions
<1>4. CASE \/ \E p \in Callers, r \in Requests : Begin(p, r)
           \/ \E b \in {"zero", "positive"} : BalancePoll(b)
           \/ UNCHANGED chatVars
  BY <1>1, <1>4 DEF Begin, BalancePoll, chatVars
<1> QED
  BY <1>2, <1>3, <1>4 DEF Next

LEMMA CountersStep ==
    ASSUME IInv, [Next]_chatVars
    PROVE  callsLeft' \in 0 .. CallBudget /\ lastBalance' \in {"unset", "zero", "positive"}
<1> USE DEF IInv, SharedTyped
<1>1. CASE \E p \in Callers, r \in Requests : Begin(p, r)
  BY <1>1, ChatAssumption DEF Begin
<1>2. ASSUME NEW p \in Callers, Continue(p)
      PROVE  UNCHANGED <<callsLeft, lastBalance>>
  BY <1>2, ContinueCases, QuietLeavesShared
  DEF SessionLookup, CacheHit, CacheMiss, CacheStore, SessionRecord
<1>3. CASE (\E b \in {"zero", "positive"} : BalancePoll(b)) \/ Tick \/ UNCHANGED chatVars
  BY <1>3 DEF BalancePoll, Tick, chatVars
<1> QED
  BY <1>1, <1>2, <1>3 DEF Next

LEMMA InvStep == IInv /\ [Next]_chatVars => IInv'
  BY CallsStep, CacheStep, SessionsStep, CountersStep DEF IInv, SharedTyped

(* Each call keeps to CallOK, and the cache, the sessions and the counters *)
(* to what the calls rely on, whatever the other calls do meanwhile.       *)
THEOREM InductiveInvariant == Spec => []IInv
  BY InvInit, InvStep, PTL DEF Spec

-----------------------------------------------------------------------------
(* What follows from it. *)

LEMMA InvTyped == IInv => TypeOK
<1> SUFFICES ASSUME IInv
             PROVE  TypeOK
  OBVIOUS
<1>1. ASSUME NEW p \in Callers
      PROVE  /\ calls[p].pc \in Stages
             /\ calls[p].result \in Results
             /\ ~ At(p, "idle") => calls[p].request \in Requests /\ calls[p].model \in Models
             /\ calls[p].attempt \in Nat
             /\ calls[p].offer \in Offers \cup {NoOffer}
             /\ calls[p].response \in Response \cup {NoAnswer}
  BY DEF IInv, CallsOK, CallOK, CallRecord, UnderWay, At
<1>2. Range(order) \subseteq CacheKeys
  BY DEF IInv, SharedTyped, Range
<1> QED
  BY <1>1, <1>2 DEF IInv, SharedTyped, CacheOK, SessionsOK, TypeOK, Results

(* The local variables of every goroutine and the state the goroutines     *)
(* share stay typed, through all interleavings, evictions and expiries.    *)
THEOREM ChatTyped == Spec => []TypeOK
  BY InductiveInvariant, InvTyped, PTL

(* With the quality check on and any number of retries, no answer found    *)
(* degraded is handed out as a success or resides in the cache: the loop   *)
(* judges every retry before it is stored.                                 *)
THEOREM ChatQualityGate == Spec => []QualityGate
<1>1. IInv => QualityGate
  BY DEF IInv, CallsOK, CallOK, GateFits, CacheOK, IsGated, HasDelivered, QualityGate,
         Delivered, At
<1> QED
  BY <1>1, InductiveInvariant, PTL

(* Concurrent calls share the cache, of any size and any time to live,     *)
(* and each is answered what the gateway said to a request with its key.   *)
THEOREM ChatCacheAnswersItsKey == Spec => []CacheAnswersItsKey
<1>1. IInv => CacheAnswersItsKey
  BY DEF IInv, CallsOK, CallOK, KeyFits, HasAnswer, HasDelivered, CacheOK,
         CacheAnswersItsKey, Delivered, At, KeyOf, Messages
<1> QED
  BY <1>1, InductiveInvariant, PTL

(* A call loses at most one payment: it submits none while one is owed an  *)
(* answer, and ends with an error as soon as an exchange fails.            *)
THEOREM ChatUnansweredPayments == Spec => []UnansweredPayments
<1>1. IInv => UnansweredPayments
  BY DEF IInv, CallsOK, CallOK, OwedFits, UnderWay, UnansweredPayments, At
<1> QED
  BY <1>1, InductiveInvariant, PTL

LEMMA InvSpendBound == IInv => SpendBound
<1> DEFINE payments == IF EnableQualityCheck /\ MaxQualityRetries > 0
                       THEN 1 + MaxQualityRetries ELSE 1
<1> SUFFICES ASSUME IInv, NEW p \in Callers, calls[p].spent > 0
             PROVE  MaxPaymentAmount # NoCap /\ calls[p].spent <= payments * MaxPaymentAmount
  BY DEF SpendBound
<1> DEFINE c == calls[p]
<1>1. c \in CallRecord /\ SpentFits(c)
  BY DEF IInv, CallsOK, CallOK
<1>2. c.spent \in Nat /\ c.attempt \in Nat
  BY <1>1 DEF CallRecord
<1>3. /\ MaxPaymentAmount # NoCap /\ MaxPaymentAmount \in Nat
      /\ c.spent <= Rounds(c) * MaxPaymentAmount
  BY <1>1, <1>2, PaymentAssumption DEF SpentFits
<1>4. Rounds(c) \in Nat /\ payments \in Nat /\ Rounds(c) <= payments
  <2>1. MaxQualityRetries \in Int /\ EnableQualityCheck \in BOOLEAN
    BY ChatAssumption
  <2>2. c.attempt = 0 \/ (EnableQualityCheck /\ c.attempt <= MaxQualityRetries)
    BY <1>1 DEF SpentFits
  <2>3. Rounds(c) \in {c.attempt, c.attempt + 1}
    BY <1>2 DEF Rounds
  <2>4. Rounds(c) \in Nat /\ Rounds(c) <= c.attempt + 1
    <3> HIDE DEF c
    <3> QED
      BY <1>2, <2>3
  <2>5. payments \in Nat /\ c.attempt + 1 <= payments
    <3> HIDE DEF c
    <3> QED
      BY <1>2, <2>1, <2>2
  <2> HIDE DEF c, payments
  <2> QED
    BY <1>2, <2>4, <2>5
<1>5. /\ Rounds(c) * MaxPaymentAmount <= payments * MaxPaymentAmount
      /\ Rounds(c) * MaxPaymentAmount \in Nat /\ payments * MaxPaymentAmount \in Nat
  <2> HIDE DEF payments
  <2> QED
    BY <1>3, <1>4, Multiples
<1> HIDE DEF payments
<1> QED
  BY <1>2, <1>3, <1>5

(* A call spends at most the cap, once for its first answer and once for   *)
(* each quality retry, and nothing when no cap is set.                     *)
THEOREM ChatSpendBound == Spec => []SpendBound
  BY InductiveInvariant, InvSpendBound, PTL

-----------------------------------------------------------------------------
(* The refinement of PaymentContract, by every call. *)

Closed == Stages \ {"probe", "sign", "submit"}

(* A step moves one goroutine. *)
LEMMA OthersStay ==
    ASSUME CallsOK, NEW p \in Callers, NEW q \in Callers, p # q,
           Continue(q) \/ \E r \in Requests : Begin(q, r)
    PROVE  calls'[p] = calls[p]
<1>1. CASE \E r \in Requests : Begin(q, r)
  BY <1>1 DEF Begin, CallsOK
<1>2. CASE SessionLookup(q) \/ CacheHit(q) \/ CacheMiss(q) \/ CacheStore(q) \/ SessionRecord(q)
  BY <1>2 DEF SessionLookup, CacheHit, CacheMiss, CacheStore, SessionRecord, Goes, CallsOK
<1>3. CASE Quiet(q)
  BY <1>3 DEF Quiet, ProbeAnswered, SubmitAnswered, Answered, ProbePriced, SubmitRejected,
       StreamReplayed, StreamOpened, StreamEnds, StreamCut, SignFails, Sign, SendFails,
       QualityPasses, QualityExhausted, QualityRetry, Goes, Fails, CallsOK
<1> QED
  BY <1>1, <1>2, <1>3, ContinueCases

(* The stages a goroutine passes. *)
LEMMA StageMoves ==
    ASSUME CallsOK, NEW p \in Callers, Continue(p) \/ \E r \in Requests : Begin(p, r)
    PROVE  \/ calls[p].pc \in Closed /\ calls'[p].pc \in Closed \cup {"probe"}
           \/ calls[p].pc \in {"probe", "sign", "submit"} /\ calls'[p].pc \in Closed
           \/ Sign(p) \/ \E pr \in Offers : ProbePriced(p, pr)
<1> USE DEF At
<1>1. calls \in [Callers -> CallRecord] /\ calls[p] \in CallRecord /\ NotCalled.pc = "idle"
  BY DEF CallsOK, NotCalled
<1>2. CASE \E r \in Requests : Begin(p, r)
  <2>1. PICK r \in Requests : Begin(p, r)
    BY <1>2
  <2>2. calls'[p].pc = FirstStage(r.kind) /\ calls[p].pc = "idle"
    BY <1>1, <2>1 DEF Begin, NotCalled
  <2> QED
    BY <2>2 DEF FirstStage, AfterSession, Closed, Stages
<1>3. ASSUME NEW result, NEW c PROVE Success(c, result).pc = "idle"
  BY DEF Success, NotCalled
<1>4. CASE SessionLookup(p)
  <2>1. calls'[p].pc = AfterSession(calls[p].request.kind) /\ calls[p].pc = "session"
    BY <1>1, <1>4 DEF SessionLookup, CallRecord
  <2> QED
    BY <2>1 DEF AfterSession, Closed, Stages
<1>5. CASE CacheHit(p) \/ SessionRecord(p)
  <2>1. calls[p].pc \in {"cache", "record"} /\ \E c, result : calls'[p] = Success(c, result)
    BY <1>1, <1>5 DEF CacheHit, SessionRecord, Goes
  <2> QED
    BY <1>3, <2>1 DEF Closed, Stages
<1>6. ASSUME NEW stage, Goes(p, stage) PROVE calls'[p].pc = stage
  BY <1>1, <1>3, <1>6, GoesIs DEF CallRecord
<1>7. CASE CacheMiss(p) \/ CacheStore(p) \/ QualityPasses(p) \/ StreamReplayed(p) \/ StreamEnds(p)
  BY <1>6, <1>7 DEF CacheMiss, CacheStore, QualityPasses, StreamReplayed, StreamEnds,
                     AfterQuality, AfterStore, Closed, Stages
<1>8. ASSUME NEW result, Fails(p, result) PROVE calls'[p].pc = "idle"
  BY <1>1, <1>8 DEF Fails, NotCalled
<1>9. CASE \/ SignFails(p) \/ SendFails(p) \/ StreamCut(p) \/ QualityExhausted(p)
           \/ \E pr \in Offers : SubmitRejected(p, pr)
  BY <1>8, <1>9 DEF SignFails, SendFails, StreamCut, QualityExhausted, SubmitRejected, Closed, Stages
<1>10. CASE \E degraded \in BOOLEAN : ProbeAnswered(p, degraded) \/ SubmitAnswered(p, degraded)
  BY <1>1, <1>10 DEF ProbeAnswered, SubmitAnswered, Answered, Closed, Stages, CallRecord
<1>11. CASE StreamOpened(p) \/ QualityRetry(p)
  BY <1>1, <1>11 DEF StreamOpened, QualityRetry, Closed, Stages, CallRecord
<1> QED
  BY <1>2, <1>4, <1>5, <1>7, <1>9, <1>10, <1>11, ContinueCases DEF Quiet

(* The stage of the contract a goroutine is in. *)
LEMMA StageOfCall ==
    ASSUME NEW p \in Callers
    PROVE  /\ calls[p].pc \in Closed => StageOf(p) = "closed"
           /\ calls[p].pc = "probe" => StageOf(p) = "open"
           /\ calls[p].pc = "sign" => StageOf(p) = "quoted"
           /\ calls[p].pc = "submit" => StageOf(p) = "signed"
  BY DEF StageOf, Closed, Stages

LEMMA StageOfCallNext ==
    ASSUME NEW p \in Callers
    PROVE  /\ calls'[p].pc \in Closed => StageOf(p)' = "closed"
           /\ calls'[p].pc = "probe" => StageOf(p)' = "open"
           /\ calls'[p].pc = "sign" => StageOf(p)' = "quoted"
           /\ calls'[p].pc = "submit" => StageOf(p)' = "signed"
  BY DEF StageOf, Closed, Stages

(* What is signed is what the contract accepts. *)
LEMMA SignIsAccepted ==
    ASSUME NEW p \in Callers, NEW pr \in Offers, ReachesSigner(pr)
    PROVE  Order(pr) \in Wallet(p)!Orders(pr) /\ Wallet(p)!Acceptable(pr, Order(pr))
<1>1. pr.accepts \in Seq(Range(pr.accepts))
  BY ChatAssumption
<1>2. /\ HasSigner
      /\ pr.url \in {"", "gateway"}
      /\ MaxPaymentAmount # NoCap
      /\ Order(pr).amount \in 1 .. MaxPaymentAmount
      /\ Order(pr).amount <= MaxUint64
      /\ ExpectedRecipient \in {AnyRecipient, Order(pr).payTo}
  BY <1>1, SignedOrder
<1>3. PICK i \in DOMAIN pr.accepts :
         /\ pr.accepts[i].network = "solana" /\ pr.accepts[i].asset = "usdc"
         /\ \/ pr.accepts[i].scheme = "exact"
            \/ pr.accepts[i].scheme = "escrow" /\ Compatible(pr, "exact") = {}
         /\ Order(pr) = [amount |-> pr.accepts[i].amount, payTo |-> pr.accepts[i].payTo]
  BY <1>1, SignedOrder
<1>4. Wallet(p)!IsUSDC(pr.accepts[i]) /\ Wallet(p)!Preferred(pr, pr.accepts[i])
  BY <1>3 DEF Wallet!IsUSDC, Wallet!Preferred, Compatible, IsCompatibleAccept
<1>5. Wallet(p)!WithinCap(Order(pr).amount)
  BY <1>2 DEF Wallet!WithinCap
<1>6. Wallet(p)!Acceptable(pr, Order(pr))
  BY <1>2, <1>3, <1>4, <1>5 DEF Wallet!Acceptable
<1> QED
  BY <1>3, <1>6 DEF Wallet!Orders

(* What the goroutine p does is a step of the contract or none. *)
LEMMA ContractStep ==
    ASSUME IInv, IInv', NEW p \in Callers, Continue(p) \/ \E r \in Requests : Begin(p, r)
    PROVE  Wallet(p)!Next \/ UNCHANGED <<StageOf(p), calls[p].offer, calls[p].sig>>
<1>1. /\ CallsOK
      /\ QuoteFits(calls[p]) /\ QuoteFits(calls'[p])
      /\ calls[p] \in CallRecord /\ calls[p].pc \in Stages
  BY DEF IInv, CallsOK, CallOK, CallRecord
<1>2. ASSUME calls[p].pc \in Closed, calls'[p].pc \in Closed \cup {"probe"}
      PROVE  Wallet(p)!Next \/ UNCHANGED <<StageOf(p), calls[p].offer, calls[p].sig>>
  <2>1. /\ calls[p].offer = NoOffer /\ calls'[p].offer = NoOffer
        /\ calls[p].sig = NoOrder /\ calls'[p].sig = NoOrder
    BY <1>1, <1>2 DEF QuoteFits, Closed
  <2>2. StageOf(p) = "closed" /\ StageOf(p)' \in {"closed", "open"}
    BY <1>2, StageOfCall, StageOfCallNext
  <2> QED
    BY <2>1, <2>2 DEF Wallet!Next, Wallet!Open
<1>3. ASSUME calls[p].pc \in {"probe", "sign", "submit"}, calls'[p].pc \in Closed
      PROVE  Wallet(p)!Next
  <2>1. calls'[p].offer = NoOffer /\ calls'[p].sig = NoOrder
    BY <1>1, <1>3 DEF QuoteFits, Closed
  <2>2. StageOf(p) # "closed" /\ StageOf(p)' = "closed"
    BY <1>3, StageOfCall, StageOfCallNext
  <2> QED
    BY <2>1, <2>2 DEF Wallet!Next, Wallet!Close
<1>4. ASSUME NEW pr \in Offers, ProbePriced(p, pr)
      PROVE  Wallet(p)!Next
  <2>1. /\ calls[p].pc = "probe" /\ calls'[p].pc = "sign" /\ calls'[p].offer = pr
        /\ calls'[p].sig = calls[p].sig
    BY <1>1, <1>4 DEF ProbePriced, At, CallsOK, CallRecord
  <2>2. StageOf(p) = "open" /\ StageOf(p)' = "quoted"
    BY <2>1, StageOfCall, StageOfCallNext
  <2> QED
    BY <2>1, <2>2 DEF Wallet!Next, Wallet!Quote
<1>5. CASE Sign(p)
  <2>1. calls[p].offer \in Offers /\ calls[p].pc = "sign" /\ ReachesSigner(calls[p].offer)
    BY <1>1, <1>5 DEF Sign, At, QuoteFits
  <2>2. /\ Order(calls[p].offer) \in Wallet(p)!Orders(calls[p].offer)
        /\ Wallet(p)!Acceptable(calls[p].offer, Order(calls[p].offer))
    BY <2>1, SignIsAccepted
  <2>3. /\ calls'[p].pc = "submit" /\ calls'[p].sig = Order(calls[p].offer)
        /\ calls'[p].offer = calls[p].offer
    BY <1>1, <1>5 DEF Sign, CallsOK, CallRecord
  <2>4. StageOf(p) = "quoted" /\ StageOf(p)' = "signed"
    BY <2>1, <2>3, StageOfCall, StageOfCallNext
  <2>5. Wallet(p)!SignOrder
    BY <2>2, <2>3, <2>4 DEF Wallet!SignOrder
  <2> QED
    BY <2>5 DEF Wallet!Next
<1> QED
  BY <1>1, <1>2, <1>3, <1>4, <1>5, StageMoves

LEMMA AllContractsStep ==
    IInv /\ IInv' /\ [Next]_chatVars =>
       [\A p \in Callers : [Wallet(p)!Next]_(Wallet(p)!contractVars)]_chatVars
<1> SUFFICES ASSUME IInv, IInv', [Next]_chatVars, NEW p \in Callers
             PROVE  Wallet(p)!Next \/ UNCHANGED <<StageOf(p), calls[p].offer, calls[p].sig>>
  BY DEF Wallet!contractVars
<1>1. ASSUME calls'[p] = calls[p]
      PROVE  UNCHANGED <<StageOf(p), calls[p].offer, calls[p].sig>>
  BY <1>1 DEF StageOf
<1>2. ASSUME NEW q \in Callers, Continue(q) \/ \E r \in Requests : Begin(q, r)
      PROVE  Wallet(p)!Next \/ UNCHANGED <<StageOf(p), calls[p].offer, calls[p].sig>>
  <2>1. CASE p = q
    BY <1>2, <2>1, ContractStep
  <2>2. CASE p # q
    BY <1>1, <1>2, <2>2, OthersStay DEF IInv
  <2> QED
    BY <2>1, <2>2
<1>3. CASE (\E b \in {"zero", "positive"} : BalancePoll(b)) \/ Tick \/ UNCHANGED chatVars
  BY <1>1, <1>3 DEF BalancePoll, Tick, chatVars
<1> QED
  BY <1>2, <1>3 DEF Next

LEMMA ContractsInit == Init => \A p \in Callers : Wallet(p)!Init
  BY DEF Init, Wallet!Init, StageOf, NotCalled

(* Whatever the other goroutines do and whatever the gateway quotes, every *)
(* call signs only in answer to the quote it just received, what one of    *)
(* its acceptable entries asks for, and once per quote.                    *)
THEOREM ChatHonoursContract == Spec => PaymentsHonourContract
  BY InductiveInvariant, AllContractsStep, ContractsInit, PTL
  DEF Spec, PaymentsHonourContract

-----------------------------------------------------------------------------
(* The length of a call. *)

(* Each step goes to a later stage, or back to the probe of a retry. *)
LEMMA GoesForward ==
    ASSUME CallsOK, NEW p \in Callers, Continue(p)
    PROVE  /\ calls[p].pc # "idle"
           /\ \/ calls'[p].pc = "idle"
              \/ /\ calls'[p].attempt = calls[p].attempt
                 /\ StagesLeft(calls'[p].pc) < StagesLeft(calls[p].pc)
              \/ /\ calls[p].pc = "quality" /\ calls'[p].pc = "probe"
                 /\ calls'[p].attempt = calls[p].attempt + 1
<1> USE DEF At
<1>1. calls \in [Callers -> CallRecord] /\ calls[p] \in CallRecord /\ NotCalled.pc = "idle"
  BY DEF CallsOK, NotCalled
<1>2. \A result, c : Success(c, result).pc = "idle"
  BY DEF Success, NotCalled
<1>3. CASE SessionLookup(p)
  <2>1. /\ calls'[p].pc = AfterSession(calls[p].request.kind) /\ calls[p].pc = "session"
        /\ calls'[p].attempt = calls[p].attempt
    BY <1>1, <1>3 DEF SessionLookup, CallRecord
  <2>2. AfterSession(calls[p].request.kind) \in {"cache", "probe"}
    BY DEF AfterSession
  <2> QED
    BY <2>1, <2>2 DEF StagesLeft
<1>4. CASE CacheHit(p) \/ SessionRecord(p)
  <2>1. calls[p].pc \in {"cache", "record"} /\ \E c, result : calls'[p] = Success(c, result)
    BY <1>1, <1>4 DEF CacheHit, SessionRecord, Goes
  <2> QED
    BY <1>2, <2>1
<1>5. ASSUME NEW stage, Goes(p, stage)
      PROVE  stage = calls'[p].pc /\ (stage # "idle" => calls'[p].attempt = calls[p].attempt)
  BY <1>1, <1>2, <1>5, GoesIs DEF CallRecord
<1>6. CASE CacheMiss(p)
  BY <1>5, <1>6 DEF CacheMiss, StagesLeft
<1>7. CASE CacheStore(p) \/ StreamReplayed(p) \/ StreamEnds(p)
  <2>1. Goes(p, AfterStore) /\ calls[p].pc \in {"store", "probe", "streaming"}
    BY <1>7 DEF CacheStore, StreamReplayed, StreamEnds
  <2>2. AfterStore \in {"record", "idle"}
    BY DEF AfterStore
  <2> QED
    BY <1>5, <2>1, <2>2 DEF StagesLeft
<1>8. CASE QualityPasses(p)
  <2>1. Goes(p, AfterQuality) /\ calls[p].pc = "quality"
    BY <1>8 DEF QualityPasses
  <2>2. AfterQuality \in {"store", "record", "idle"}
    BY DEF AfterQuality, AfterStore
  <2> QED
    BY <1>5, <2>1, <2>2 DEF StagesLeft
<1>9. ASSUME NEW result, Fails(p, result) PROVE calls'[p].pc = "idle"
  BY <1>1, <1>9 DEF Fails, NotCalled
<1>10. CASE \/ SignFails(p) \/ SendFails(p) \/ StreamCut(p) \/ QualityExhausted(p)
            \/ \E pr \in Offers : SubmitRejected(p, pr)
  BY <1>9, <1>10 DEF SignFails, SendFails, StreamCut, QualityExhausted, SubmitRejected
<1>11. CASE \E degraded \in BOOLEAN : ProbeAnswered(p, degraded) \/ SubmitAnswered(p, degraded)
  <2>1. /\ calls[p].pc \in {"probe", "submit"} /\ calls'[p].pc = "quality"
        /\ calls'[p].attempt = calls[p].attempt
    BY <1>1, <1>11 DEF ProbeAnswered, SubmitAnswered, Answered, CallRecord
  <2> QED
    BY <2>1 DEF StagesLeft
<1>12. CASE StreamOpened(p) \/ Sign(p) \/ \E pr \in Offers : ProbePriced(p, pr)
  <2>1. /\ calls'[p].attempt = calls[p].attempt
        /\ <<calls[p].pc, calls'[p].pc>> \in
              {<<"submit", "streaming">>, <<"sign", "submit">>, <<"probe", "sign">>}
    BY <1>1, <1>12 DEF StreamOpened, Sign, ProbePriced, CallRecord
  <2> QED
    BY <2>1 DEF StagesLeft
<1>13. CASE QualityRetry(p)
  BY <1>1, <1>13 DEF QualityRetry, CallRecord
<1> QED
  BY <1>3, <1>4, <1>6, <1>7, <1>8, <1>10, <1>11, <1>12, <1>13, ContinueCases DEF Quiet

LEMMA AttemptsBounded ==
    ASSUME CallsOK, NEW p \in Callers
    PROVE  calls[p].attempt \in Nat /\ Retries \in Nat /\ calls[p].attempt <= Retries
<1>1. calls[p].attempt \in Nat /\ SpentFits(calls[p])
  BY DEF CallsOK, CallOK, CallRecord
<1>2. Retries \in Nat
  BY ChatAssumption DEF Retries
<1>3. CASE calls[p].attempt = 0
  BY <1>2, <1>3
<1>4. CASE EnableQualityCheck /\ calls[p].attempt <= MaxQualityRetries
  BY <1>1, <1>4, ChatAssumption DEF Retries
<1> QED
  BY <1>1, <1>2, <1>3, <1>4 DEF SpentFits

LEMMA StagesBounded ==
    ASSUME NEW pc \in Stages
    PROVE  StagesLeft(pc) \in 0 .. 8 /\ (pc # "idle" => StagesLeft(pc) >= 1)
  BY DEF Stages, StagesLeft

LEMMA LengthBounded ==
    ASSUME CallsOK, NEW p \in Callers
    PROVE  /\ StepsLeft(p) \in 0 .. 8 + 4 * Retries
           /\ ~ At(p, "idle") => StepsLeft(p) > 0
<1>1. StagesLeft(calls[p].pc) \in 0 .. 8 /\ (~ At(p, "idle") => StagesLeft(calls[p].pc) >= 1)
  BY StagesBounded DEF CallsOK, CallRecord, At
<1>2. calls[p].attempt \in Nat /\ Retries \in Nat /\ calls[p].attempt <= Retries
  BY AttemptsBounded
<1> QED
  BY <1>1, <1>2 DEF StepsLeft

LEMMA StepAdvances ==
    ASSUME IInv, IInv', [Next]_chatVars, NEW p \in Callers,
           ~ At(p, "idle"), calls'[p] # calls[p]
    PROVE  StepsLeft(p)' < StepsLeft(p)
<1>1. CallsOK /\ CallsOK'
  BY DEF IInv
<1>2. Continue(p)
  <2>1. PICK q \in Callers : Continue(q) \/ \E r \in Requests : Begin(q, r)
    BY DEF Next, BalancePoll, Tick, chatVars
  <2>2. p = q
    BY <1>1, <2>1, OthersStay
  <2> QED
    BY <2>1, <2>2 DEF Begin
<1>3. /\ StagesLeft(calls[p].pc) \in 0 .. 8
      /\ calls[p].pc \in Stages /\ calls'[p].pc \in Stages
  BY <1>1, StagesBounded DEF CallsOK, CallRecord
<1>4. StagesLeft(calls'[p].pc) \in 0 .. 8
  BY <1>3, StagesBounded
<1>5. /\ calls[p].attempt \in Nat /\ Retries \in Nat /\ calls[p].attempt <= Retries
      /\ calls'[p].attempt \in Nat
  BY <1>1, AttemptsBounded DEF CallsOK, CallRecord
<1>6. StepsLeft(p) = StagesLeft(calls[p].pc) + 4 * (Retries - calls[p].attempt)
  BY DEF StepsLeft
<1>7. CASE calls'[p].pc = "idle"
  <2>1. StepsLeft(p)' = 0
    BY <1>7 DEF StepsLeft, At
  <2> QED
    BY <1>1, <2>1, LengthBounded
<1>8. ASSUME calls'[p].pc # "idle"
      PROVE  StepsLeft(p)' = StagesLeft(calls'[p].pc) + 4 * (Retries - calls'[p].attempt)
  BY <1>8 DEF StepsLeft, At, StagesLeft, Retries
<1>9. CASE /\ calls'[p].pc # "idle" /\ calls'[p].attempt = calls[p].attempt
           /\ StagesLeft(calls'[p].pc) < StagesLeft(calls[p].pc)
  BY <1>3, <1>4, <1>5, <1>6, <1>8, <1>9
<1>10. CASE /\ calls[p].pc = "quality" /\ calls'[p].pc = "probe"
            /\ calls'[p].attempt = calls[p].attempt + 1
  <2>1. StagesLeft(calls[p].pc) = 3 /\ StagesLeft(calls'[p].pc) = 6
    BY <1>10 DEF StagesLeft
  <2> QED
    BY <1>5, <1>6, <1>8, <1>10, <2>1
<1> QED
  BY <1>1, <1>2, <1>7, <1>9, <1>10, GoesForward

(* A call is at most eight steps long, and four for each quality retry it  *)
(* may make, whatever the gateway answers and the other calls do: every    *)
(* step of it brings it nearer its return.                                 *)
THEOREM ChatCallsAdvance == Spec => CallsAdvance
<1>1. IInv => \A p \in Callers : StepsLeft(p) \in 0 .. 8 + 4 * Retries
  BY LengthBounded DEF IInv
<1>2. IInv /\ IInv' /\ [Next]_chatVars =>
        [\A p \in Callers :
            ~ At(p, "idle") /\ calls'[p] # calls[p] => StepsLeft(p)' < StepsLeft(p)]_chatVars
  BY StepAdvances
<1> QED
  BY <1>1, <1>2, InductiveInvariant, PTL DEF Spec, CallsAdvance

-----------------------------------------------------------------------------
(* One model per session. *)

(* Who may still send: an unguarded call that has looked its session up.   *)
(* It claims to be that incarnation of the session, with its model, and    *)
(* what has been sent was claimed.                                         *)
Holders == {p \in Callers : /\ EnableSessions
                            /\ ~ calls[p].guarded
                            /\ calls[p].pc \notin {"idle", "session"}}

Claim(p) == [id |-> IDOf(p), session |-> calls[p].session, model |-> calls[p].model]

Claims == sent \cup {Claim(p) : p \in Holders}

(* A claim is not ahead of the store, and one that is up to date names the *)
(* model the session is pinned to; so whoever looks the session up next    *)
(* claims the model that all who share its incarnation do.                 *)
UpToDate(k) ==
    /\ k.session <= opened[k.id]
    /\ k.session = opened[k.id] => k.model = sessions[k.id].model

ClaimsAgree ==
    /\ Claims \subseteq [id : SessionIDs, session : Nat, model : Models]
    /\ \A k \in Claims : UpToDate(k)
    /\ \A a, b \in Claims : a.id = b.id /\ a.session = b.session => a.model = b.model

LEMMA ClaimsInit == Init => ClaimsAgree
<1> SUFFICES ASSUME Init
             PROVE  Claims = {}
  BY DEF ClaimsAgree
<1> QED
  BY DEF Init, Claims, Holders, NotCalled

(* A goroutine past its session keeps its claim until it returns. *)
LEMMA ClaimKept ==
    ASSUME CallsOK, NEW p \in Callers, Continue(p), ~ SessionLookup(p)
    PROVE  /\ calls[p].pc \notin {"idle", "session"}
           /\ \/ calls'[p].pc = "idle"
              \/ /\ calls'[p].request = calls[p].request
                 /\ calls'[p].guarded = calls[p].guarded
                 /\ calls'[p].session = calls[p].session
                 /\ calls'[p].model = calls[p].model
<1> USE DEF At
<1>1. calls \in [Callers -> CallRecord] /\ calls[p] \in CallRecord /\ NotCalled.pc = "idle"
  BY DEF CallsOK, NotCalled
<1>2. \A result, c : Success(c, result).pc = "idle"
  BY DEF Success, NotCalled
<1>3. CASE CacheHit(p) \/ SessionRecord(p)
  <2>1. calls[p].pc \in {"cache", "record"} /\ \E c, result : calls'[p] = Success(c, result)
    BY <1>1, <1>3 DEF CacheHit, SessionRecord, Goes
  <2> QED
    BY <1>2, <2>1
<1>4. ASSUME NEW stage, Goes(p, stage)
      PROVE  \/ calls'[p].pc = "idle"
             \/ /\ calls'[p].request = calls[p].request
                /\ calls'[p].guarded = calls[p].guarded
                /\ calls'[p].session = calls[p].session
                /\ calls'[p].model = calls[p].model
  BY <1>1, <1>2, <1>4, GoesIs DEF CallRecord
<1>5. CASE CacheMiss(p) \/ CacheStore(p) \/ QualityPasses(p) \/ StreamReplayed(p) \/ StreamEnds(p)
  BY <1>4, <1>5 DEF CacheMiss, CacheStore, QualityPasses, StreamReplayed, StreamEnds
<1>6. ASSUME NEW result, Fails(p, result) PROVE calls'[p].pc = "idle"
  BY <1>1, <1>6 DEF Fails, NotCalled
<1>7. CASE \/ SignFails(p) \/ SendFails(p) \/ StreamCut(p) \/ QualityExhausted(p)
           \/ \E pr \in Offers : SubmitRejected(p, pr)
  BY <1>6, <1>7 DEF SignFails, SendFails, StreamCut, QualityExhausted, SubmitRejected
<1>8. CASE \E degraded \in BOOLEAN : ProbeAnswered(p, degraded) \/ SubmitAnswered(p, degraded)
  BY <1>1, <1>8 DEF ProbeAnswered, SubmitAnswered, Answered, CallRecord
<1>9. CASE StreamOpened(p) \/ QualityRetry(p) \/ Sign(p) \/ \E pr \in Offers : ProbePriced(p, pr)
  BY <1>1, <1>9 DEF StreamOpened, QualityRetry, Sign, ProbePriced, CallRecord
<1> QED
  BY <1>3, <1>5, <1>7, <1>8, <1>9, ContinueCases DEF Quiet

(* What is sent is claimed. *)
LEMMA SentIsClaimed ==
    ASSUME NEW p \in Callers, Continue(p)
    PROVE  sent' \subseteq Claims
<1>1. CASE \/ SessionLookup(p) \/ CacheHit(p) \/ CacheMiss(p) \/ CacheStore(p)
           \/ SessionRecord(p)
  BY <1>1 DEF SessionLookup, CacheHit, CacheMiss, CacheStore, SessionRecord, Claims
<1>2. ASSUME Sends(p), At(p, "probe")
      PROVE  sent' \subseteq Claims
  BY <1>2 DEF Sends, At, Claims, Claim, Holders
<1>3. CASE Quiet(p)
  BY <1>2, <1>3 DEF Quiet, OnlyMoves, ProbeAnswered, SubmitAnswered, ProbePriced,
         SubmitRejected, StreamReplayed, StreamOpened, StreamEnds, StreamCut, SignFails,
         Sign, SendFails, QualityPasses, QualityExhausted, QualityRetry, Claims
<1> QED
  BY <1>1, <1>3, ContinueCases

(* Fewer claims on the same sessions agree if more did. *)
LEMMA FewerClaims ==
    ASSUME ClaimsAgree, Claims' \subseteq Claims, UNCHANGED opened, ModelsKept
    PROVE  ClaimsAgree'
<1>1. \A k \in Claims : k.id \in SessionIDs
  BY DEF ClaimsAgree
<1>2. \A k \in Claims' : UpToDate(k)'
  BY <1>1 DEF ClaimsAgree, UpToDate, ModelsKept
<1> QED
  BY <1>2 DEF ClaimsAgree

(* The other claims stay when one goroutine moves. *)
LEMMA ClaimsAfter ==
    ASSUME CallsOK, NEW p \in Callers, Continue(p) \/ \E r \in Requests : Begin(p, r)
    PROVE  \A q \in Holders' : q # p => q \in Holders /\ Claim(q)' = Claim(q)
<1> TAKE q \in Holders'
<1> HAVE q # p
<1>1. q \in Callers
  BY DEF Holders
<1>2. calls'[q] = calls[q]
  BY <1>1, OthersStay
<1> QED
  BY <1>1, <1>2 DEF Holders, Claim, IDOf, Messages

LEMMA LookupClaims ==
    ASSUME IInv, ClaimsAgree, NEW p \in Callers, SessionLookup(p)
    PROVE  ClaimsAgree'
<1> DEFINE id == IDOf(p)
<1>1. /\ CallsOK /\ SessionsOK /\ Continue(p)
      /\ calls[p].pc = "session" /\ ~ At(p, "idle")
      /\ calls[p] \in CallRecord /\ GuardFits(calls[p])
  BY DEF IInv, CallsOK, CallOK, SessionLookup, At, Continue
<1>2. id \in SessionIDs /\ calls[p].model \in Models
  BY <1>1, KeysOfCalls
<1>3. PICK info \in Store!Info :
        /\ Store!GetOrCreate(id, calls[p].model, info)
        /\ opened' = IF sessions' = sessions THEN opened
                     ELSE [opened EXCEPT ![id] = @ + 1]
        /\ calls' = [calls EXCEPT
                       ![p].pc = AfterSession(calls[p].request.kind),
                       ![p].info = info,
                       ![p].session = opened'[id],
                       ![p].model = IF NotOverridden(p) THEN info.Model ELSE @]
  BY DEF SessionLookup
<1>4. sessions'[id].model = info.Model
  BY <1>1, <1>2, <1>3 DEF Store!GetOrCreate, Store!FreshSession, SessionsOK
<1>5. /\ opened' \in [SessionIDs -> Nat]
      /\ \A x \in SessionIDs : \/ opened'[x] = opened[x] /\ sessions'[x] = sessions[x]
                               \/ opened'[x] = opened[x] + 1
  BY <1>1, <1>2, <1>3 DEF Store!GetOrCreate, SessionsOK
<1>6. /\ calls'[p].session = opened'[id] /\ calls'[p].request = calls[p].request
      /\ calls'[p].guarded = calls[p].guarded
      /\ calls'[p].model = IF NotOverridden(p) THEN info.Model ELSE calls[p].model
  BY <1>1, <1>3 DEF CallsOK, CallRecord
<1>7. ASSUME p \in Holders'
      PROVE  /\ Claim(p)' \in [id : SessionIDs, session : Nat, model : Models]
             /\ Claim(p)'.id = id /\ Claim(p)'.session = opened'[id]
             /\ Claim(p)'.model = sessions'[id].model
  <2>1. NotOverridden(p) /\ IDOf(p)' = id
    BY <1>1, <1>6, <1>7 DEF Holders, GuardFits, NotOverridden, IDOf, Messages
  <2>2. info.Model \in Models
    BY DEF Store!Info
  <2>3. Claim(p)' = [id |-> id, session |-> opened'[id], model |-> info.Model]
    BY <1>6, <2>1 DEF Claim
  <2> QED
    BY <1>2, <1>4, <1>5, <2>2, <2>3
<1>8. Claims' \subseteq Claims \cup {Claim(x)' : x \in {p} \cap Holders'}
  BY <1>1, ClaimsAfter, SentIsClaimed DEF Claims
<1>9. ASSUME NEW k \in Claims
      PROVE  /\ k \in [id : SessionIDs, session : Nat, model : Models]
             /\ k.session <= opened'[k.id]
             /\ k.session = opened'[k.id] => k.model = sessions'[k.id].model
  <2>1. /\ k \in [id : SessionIDs, session : Nat, model : Models]
        /\ k.session <= opened[k.id]
        /\ k.session = opened[k.id] => k.model = sessions[k.id].model
    BY <1>9 DEF ClaimsAgree, UpToDate
  <2>2. opened[k.id] \in Nat /\ k.session \in Nat /\ k.id \in SessionIDs
    BY <1>1, <2>1 DEF SessionsOK
  <2> QED
    BY <1>5, <2>1, <2>2
<1>10. ASSUME NEW k \in Claims'
       PROVE  /\ k \in [id : SessionIDs, session : Nat, model : Models]
              /\ UpToDate(k)'
              /\ k \in Claims \/ k.session = opened'[k.id]
  <2>1. CASE k \in Claims
    BY <1>9, <2>1 DEF UpToDate
  <2>2. CASE p \in Holders' /\ k = Claim(p)'
    BY <1>2, <1>5, <1>7, <2>2 DEF UpToDate
  <2> QED
    BY <1>8, <2>1, <2>2
<1>11. ASSUME NEW a \in Claims', NEW b \in Claims', a.id = b.id, a.session = b.session
       PROVE  a.model = b.model
  <2>1. CASE a \in Claims /\ b \in Claims
    BY <1>11, <2>1 DEF ClaimsAgree
  <2>2. CASE a.session = opened'[a.id]
    BY <1>10, <1>11, <2>2 DEF UpToDate
  <2> QED
    BY <1>10, <1>11, <2>1, <2>2
<1> QED
  BY <1>10, <1>11 DEF ClaimsAgree

LEMMA ClaimsStep == IInv /\ ClaimsAgree /\ [Next]_chatVars => ClaimsAgree'
<1> SUFFICES ASSUME IInv, ClaimsAgree, [Next]_chatVars
             PROVE  ClaimsAgree'
  OBVIOUS
<1>1. CallsOK /\ SessionsOK
  BY DEF IInv
<1>2. ASSUME UNCHANGED sessions
      PROVE  ModelsKept
  BY <1>2 DEF ModelsKept
<1>3. ASSUME NEW p \in Callers, NEW r \in Requests, Begin(p, r)
      PROVE  ClaimsAgree'
  <2>1. p \notin Holders'
    <3>1. calls'[p].pc = FirstStage(r.kind)
      BY <1>1, <1>3 DEF Begin, NotCalled, CallsOK
    <3> QED
      BY <3>1 DEF FirstStage, Holders
  <2>2. Claims' \subseteq Claims /\ UNCHANGED <<sessions, opened>>
    BY <1>1, <1>3, <2>1, ClaimsAfter DEF Claims, Begin
  <2> QED
    BY <1>2, <2>2, FewerClaims
<1>4. ASSUME NEW p \in Callers, Continue(p), ~ SessionLookup(p)
      PROVE  ClaimsAgree'
  <2>1. p \in Holders' => p \in Holders /\ Claim(p)' = Claim(p)
    BY <1>1, <1>4, ClaimKept DEF Holders, Claim, IDOf, Messages
  <2>2. Claims' \subseteq Claims
    BY <1>1, <1>4, <2>1, ClaimsAfter, SentIsClaimed DEF Claims
  <2>3. ModelsKept /\ UNCHANGED opened
    BY <1>1, <1>2, <1>4, ContinueCases, QuietLeavesShared, RecordKeepsSessions
    DEF CacheHit, CacheMiss, CacheStore, SessionRecord
  <2> QED
    BY <2>2, <2>3, FewerClaims
<1>5. ASSUME UNCHANGED <<calls, sent>>
      PROVE  Claims' = Claims
  BY <1>5 DEF Claims, Holders, Claim, IDOf, Messages
<1>6. CASE Tick
  <2>1. ModelsKept /\ UNCHANGED <<calls, sent, opened>>
    BY <1>1, <1>6, TickKeepsSessions DEF Tick
  <2> QED
    BY <1>5, <2>1, FewerClaims
<1>7. CASE (\E b \in {"zero", "positive"} : BalancePoll(b)) \/ UNCHANGED chatVars
  BY <1>2, <1>5, <1>7, FewerClaims DEF BalancePoll, chatVars
<1> QED
  BY <1>3, <1>4, <1>6, <1>7, LookupClaims DEF Next

(* However many calls open, join and outlive the incarnations of a session *)
(* and whatever model each asked for, all they send on behalf of one       *)
(* incarnation names one model.                                            *)
THEOREM ChatOneModelPerSession == Spec => []OneModelPerSession
<1>1. ClaimsAgree => OneModelPerSession
  BY DEF ClaimsAgree, Claims, OneModelPerSession
<1> QED
  BY <1>1, ClaimsInit, ClaimsStep, InductiveInvariant, PTL DEF Spec

-----------------------------------------------------------------------------
(* What a call that gives up has spent. *)

LEMMA GivesUpWhere ==
    ASSUME CallsOK, NEW p \in Callers, GivesUp(p), [Next]_chatVars
    PROVE  \/ calls[p].pc \in {"probe", "sign"}
           \/ calls[p].pc = "submit"
<1> USE DEF At
<1>1. calls[p] \in CallRecord /\ calls \in [Callers -> CallRecord]
  BY DEF CallsOK
<1>2. Continue(p)
  <2>1. calls'[p] # calls[p]
    BY DEF GivesUp
  <2>2. PICK q \in Callers : Continue(q) \/ \E r \in Requests : Begin(q, r)
    BY <2>1 DEF Next, BalancePoll, Tick, chatVars
  <2>3. p = q
    BY <2>1, <2>2, OthersStay
  <2> QED
    BY <2>2, <2>3 DEF Begin, GivesUp
<1>3. ASSUME NEW c, NEW result PROVE Success(c, result).result = result
  BY DEF Success, NotCalled
<1>4. ASSUME NEW result, Fails(p, result) PROVE calls'[p].result = result
  BY <1>1, <1>4 DEF Fails, NotCalled
<1>5. ASSUME NEW stage, Goes(p, stage) PROVE ~ GivesUp(p)
  <2>1. CASE stage = "idle"
    <3>1. calls'[p] = Success(calls[p], Outcome(p))
      BY <1>1, <1>5, <2>1, GoesIs
    <3> QED
      BY <1>3, <3>1 DEF GivesUp, Outcome
  <2>2. CASE stage # "idle"
    <3>1. calls'[p].pc = stage
      BY <1>1, <1>5, <2>2, GoesIs DEF CallRecord
    <3> QED
      BY <2>2, <3>1 DEF GivesUp
  <2> QED
    BY <2>1, <2>2
<1>6. CASE SessionLookup(p)
  <2>1. calls'[p].pc = AfterSession(calls[p].request.kind)
    BY <1>1, <1>6 DEF SessionLookup, CallRecord
  <2> QED
    BY <2>1 DEF AfterSession, GivesUp
<1>7. CASE CacheHit(p) \/ SessionRecord(p)
  <2>1. \E c : calls'[p] = Success(c, "cached") \/ calls'[p] = Success(c, Outcome(p))
    BY <1>1, <1>7 DEF CacheHit, SessionRecord, Goes
  <2> QED
    BY <1>3, <2>1 DEF GivesUp, Outcome
<1>8. CASE CacheMiss(p) \/ CacheStore(p) \/ QualityPasses(p) \/ StreamReplayed(p) \/ StreamEnds(p)
  BY <1>5, <1>8 DEF CacheMiss, CacheStore, QualityPasses, StreamReplayed, StreamEnds
<1>9. CASE StreamCut(p) \/ QualityExhausted(p)
  BY <1>4, <1>9 DEF StreamCut, QualityExhausted, GivesUp
<1>10. CASE \/ \E degraded \in BOOLEAN : ProbeAnswered(p, degraded) \/ SubmitAnswered(p, degraded)
            \/ StreamOpened(p) \/ QualityRetry(p) \/ Sign(p)
            \/ \E pr \in Offers : ProbePriced(p, pr)
  BY <1>1, <1>10 DEF ProbeAnswered, SubmitAnswered, Answered, StreamOpened, QualityRetry, Sign,
                     ProbePriced, CallRecord, GivesUp
<1>11. CASE SignFails(p) \/ SendFails(p) \/ \E pr \in Offers : SubmitRejected(p, pr)
  BY <1>11 DEF SignFails, SendFails, SubmitRejected
<1> QED
  BY <1>2, <1>6, <1>7, <1>8, <1>9, <1>10, <1>11, ContinueCases DEF Quiet

LEMMA GivesUpSpent ==
    ASSUME IInv, NEW p \in Callers, GivesUp(p), calls[p].spent > 0, [Next]_chatVars
    PROVE  calls[p].spent <= (calls[p].attempt + calls[p].owed) * MaxPaymentAmount
<1> DEFINE c == calls[p]
<1>1. c \in CallRecord /\ SpentFits(c) /\ OwedFits(c)
  BY DEF IInv, CallsOK, CallOK
<1>2. c.spent <= Rounds(c) * MaxPaymentAmount
  BY <1>1 DEF SpentFits, CallRecord
<1>3. c.pc \in {"probe", "sign"} \/ c.pc = "submit"
  BY GivesUpWhere DEF IInv
<1>4. Rounds(c) = c.attempt + c.owed
  BY <1>1, <1>3 DEF Rounds, OwedFits, CallRecord
<1> QED
  BY <1>2, <1>4

(* A call that ends with an error alone has thrown away no paid answer but *)
(* those it asked again about.                                             *)
THEOREM ChatOnlyRetriesDrop == Spec => OnlyRetriesDropAnswers
<1>1. IInv /\ [Next]_chatVars =>
        \A p \in Callers :
           GivesUp(p) /\ calls[p].spent > 0 =>
              calls[p].spent <= (calls[p].attempt + calls[p].owed) * MaxPaymentAmount
  BY GivesUpSpent
<1> QED
  BY <1>1, InductiveInvariant, PTL DEF Spec, OnlyRetriesDropAnswers

-----------------------------------------------------------------------------
(* Strikes and calls. *)

LEMMA SomeCallers ==
    ASSUME NEW S \in SUBSET Callers
    PROVE  IsFiniteSet(S) /\ Cardinality(S) \in Nat
  BY CallersAssumption, FS_Subset, FS_CardinalityType

LEMMA FinishedIs ==
    /\ Finished = CallBudget - callsLeft - Cardinality(Calling)
    /\ Finished' = CallBudget - callsLeft' - Cardinality(Calling')
    /\ Calling \in SUBSET Callers /\ Calling' \in SUBSET Callers
  BY DEF Finished, Calling

LEMMA BeginFinished ==
    ASSUME IInv, NEW p \in Callers, NEW r \in Requests, Begin(p, r)
    PROVE  Finished' = Finished
<1>1. callsLeft \in Int /\ callsLeft' = callsLeft - 1 /\ CallBudget \in Int
  BY ChatAssumption DEF IInv, SharedTyped, Begin
<1>2. p \notin Calling
  BY DEF Calling, Begin
<1>3. Calling' = Calling \cup {p}
  <2>1. calls'[p].pc # "idle"
    <3>1. calls'[p].pc = FirstStage(r.kind)
      BY DEF Begin, IInv, CallsOK, NotCalled
    <3> QED
      BY <3>1 DEF FirstStage, AfterSession
  <2>2. \A q \in Callers : q # p => calls'[q] = calls[q]
    BY OthersStay DEF IInv
  <2> QED
    BY <2>1, <2>2 DEF Calling, At
<1>4. Cardinality(Calling') = Cardinality(Calling) + 1 /\ Cardinality(Calling) \in Nat
  BY <1>2, <1>3, FinishedIs, SomeCallers, FS_AddElement
<1> QED
  BY <1>1, <1>4, FinishedIs

(* The callers that are under way when p has moved. *)
LEMMA CallingAfter ==
    ASSUME IInv, NEW p \in Callers, Continue(p)
    PROVE  /\ p \in Calling /\ UNCHANGED callsLeft
           /\ Calling' = IF calls'[p].pc = "idle" THEN Calling \ {p} ELSE Calling
<1>1. calls[p].pc # "idle"
  BY GoesForward DEF IInv
<1>2. \A q \in Callers : q # p => calls'[q] = calls[q]
  BY OthersStay DEF IInv
<1>3. UNCHANGED callsLeft
  BY ContinueCases, QuietLeavesShared
  DEF SessionLookup, CacheHit, CacheMiss, CacheStore, SessionRecord
<1> QED
  BY <1>1, <1>2, <1>3 DEF Calling, At

LEMMA ContinueFinished ==
    ASSUME IInv, NEW p \in Callers, Continue(p)
    PROVE  /\ Finished' = IF calls'[p].pc = "idle" THEN Finished + 1 ELSE Finished
           /\ Finished \in Int
<1>1. callsLeft \in Int /\ CallBudget \in Int
  BY ChatAssumption DEF IInv, SharedTyped
<1>2. Cardinality(Calling \ {p}) = Cardinality(Calling) - 1 /\ Cardinality(Calling) \in Nat
  BY CallingAfter, FinishedIs, SomeCallers, FS_RemoveElement
<1> QED
  BY <1>1, <1>2, CallingAfter, FinishedIs

(* What the strikes are compared with never falls, and starts at zero. *)
StrikesFit == Finished \in Nat /\ StrikesAreFinishedCalls

LEMMA StrikesInit == Init => StrikesFit
<1> SUFFICES ASSUME Init
             PROVE  StrikesFit
  OBVIOUS
<1>1. Calling = {} /\ callsLeft = CallBudget
  BY DEF Init, Calling, At, NotCalled
<1>2. Finished = 0
  BY <1>1, FS_EmptySet, ChatAssumption DEF Finished
<1> QED
  BY <1>2 DEF Init, Store!SessionInit, Store!Stored, StrikesFit, StrikesAreFinishedCalls

LEMMA LengthKept ==
    ASSUME StrikesFit, Finished' \in Nat, Finished' >= Finished,
           \A id \in SessionIDs : sessions'[id] # NoSession =>
              /\ sessions[id] # NoSession
              /\ sessions'[id].recentHashes = sessions[id].recentHashes,
           SessionsOK
    PROVE  StrikesFit'
<1>1. ASSUME NEW id \in SessionIDs, sessions'[id] # NoSession
      PROVE  Len(sessions'[id].recentHashes) <= Finished'
  <2>1. sessions[id] # NoSession /\ sessions'[id].recentHashes = sessions[id].recentHashes
    BY <1>1
  <2>2. sessions[id] \in Store!Session
    BY <2>1 DEF SessionsOK
  <2>3. Len(sessions[id].recentHashes) \in Nat
    BY <2>2, LenProperties DEF Store!Session
  <2>4. Len(sessions[id].recentHashes) <= Finished
    BY <2>1 DEF StrikesFit, StrikesAreFinishedCalls, Store!Stored
  <2> QED
    BY <2>1, <2>3, <2>4 DEF StrikesFit
<1> QED
  BY <1>1 DEF StrikesFit, StrikesAreFinishedCalls, Store!Stored

LEMMA LookupStrikes ==
    ASSUME IInv, StrikesFit, NEW p \in Callers, Continue(p), SessionLookup(p)
    PROVE  StrikesFit'
<1>1. Finished' \in Nat /\ Finished' >= Finished
  BY ContinueFinished DEF StrikesFit
<1>2. CASE sessions' = sessions
  BY <1>1, <1>2, LengthKept DEF IInv
<1>3. CASE sessions' = [sessions EXCEPT ![IDOf(p)] = Store!FreshSession(calls[p].model)]
  <2>1. ASSUME NEW id \in SessionIDs, sessions'[id] # NoSession
        PROVE  Len(sessions'[id].recentHashes) <= Finished'
    <3>1. CASE id = IDOf(p)
      <4>1. sessions'[id].recentHashes = <<>>
        BY <1>3, <3>1 DEF IInv, SessionsOK, Store!FreshSession
      <4> QED
        BY <1>1, <4>1
    <3>2. CASE id # IDOf(p)
      <4>1. sessions'[id] = sessions[id]
        BY <1>3, <3>2 DEF IInv, SessionsOK
      <4>2. sessions[id] \in Store!Session
        BY <2>1, <4>1 DEF IInv, SessionsOK
      <4>3. Len(sessions[id].recentHashes) \in Nat
        BY <4>2, LenProperties DEF Store!Session
      <4>4. Len(sessions[id].recentHashes) <= Finished
        BY <2>1, <4>1 DEF StrikesFit, StrikesAreFinishedCalls, Store!Stored
      <4> QED
        BY <1>1, <4>1, <4>3, <4>4 DEF StrikesFit
    <3> QED
      BY <3>1, <3>2
  <2> QED
    BY <1>1, <2>1 DEF StrikesFit, StrikesAreFinishedCalls, Store!Stored
<1> QED
  BY <1>2, <1>3 DEF SessionLookup, Store!GetOrCreate

LEMMA RecordStrikes ==
    ASSUME IInv, StrikesFit, NEW p \in Callers, Continue(p), SessionRecord(p)
    PROVE  StrikesFit'
<1> DEFINE id == IDOf(p)
           s == sessions[id]
           recorded == Append(s.recentHashes, KeyOf(p))
<1>1. calls'[p].pc = "idle"
  BY DEF SessionRecord, Goes, Success, NotCalled, IInv, CallsOK
<1>2. Finished \in Nat /\ Finished' = Finished + 1
  BY <1>1, ContinueFinished DEF StrikesFit
<1>3. Store!RecordRequest(id, KeyOf(p)) /\ id \in SessionIDs /\ KeyOf(p) \in CacheKeys
  BY KeysOfCalls DEF SessionRecord, At, IInv
<1>4. CASE UNCHANGED sessions
  BY <1>2, <1>4, LengthKept DEF IInv
<1>5. CASE sessions[id] # NoSession
  <2>1. s \in Store!Session
    BY <1>3, <1>5 DEF IInv, SessionsOK
  <2>2. recorded \in Seq(CacheKeys) /\ Len(recorded) = Len(s.recentHashes) + 1
    BY <1>3, <2>1, AppendProperties DEF Store!Session
  <2>3. PICK known \in BOOLEAN : known = (s.escalated \/ Store!Occurrences(recorded, KeyOf(p)) >= 3)
    OBVIOUS
  <2>4. sessions' = [sessions EXCEPT ![id].recentHashes = recorded, ![id].escalated = known]
    <3>1. sessions' = [sessions EXCEPT ![id].recentHashes = recorded,
                        ![id].escalated = @ \/ Store!Occurrences(recorded, KeyOf(p)) >= 3]
      BY <1>3, <1>5 DEF Store!RecordRequest, Store!Stored
    <3> QED
      BY <3>1, <2>3, <2>1, <1>3 DEF IInv, SessionsOK, Store!Session
  <2> HIDE DEF recorded
  <2>5. /\ sessions'[id].recentHashes = recorded
        /\ \A x \in SessionIDs : x # id => sessions'[x] = sessions[x]
    BY <1>3, <2>1, <2>2, <2>4 DEF IInv, SessionsOK, Store!Session
  <2>6. ASSUME NEW x \in SessionIDs, sessions'[x] # NoSession
        PROVE  Len(sessions'[x].recentHashes) <= Finished'
    <3>1. sessions[x] # NoSession
      BY <1>5, <2>5, <2>6
    <3>2. sessions[x] \in Store!Session
      BY <3>1 DEF IInv, SessionsOK
    <3>3. Len(sessions[x].recentHashes) \in Nat
      BY <3>2, LenProperties DEF Store!Session
    <3>4. Len(sessions[x].recentHashes) <= Finished
      BY <3>1 DEF StrikesFit, StrikesAreFinishedCalls, Store!Stored
    <3>5. CASE x = id
      BY <1>2, <2>2, <2>5, <3>3, <3>4, <3>5
    <3>6. CASE x # id
      BY <1>2, <2>5, <3>3, <3>4, <3>6
    <3> QED
      BY <3>5, <3>6
  <2> QED
    BY <1>2, <2>6 DEF StrikesFit, StrikesAreFinishedCalls, Store!Stored
<1> QED
  BY <1>3, <1>4, <1>5 DEF Store!RecordRequest, Store!Stored

LEMMA TickStrikes ==
    ASSUME IInv, StrikesFit, Tick
    PROVE  StrikesFit'
<1>1. UNCHANGED <<calls, callsLeft>>
  BY DEF Tick
<1>2. Calling' = Calling
  BY <1>1 DEF Calling, At
<1>3. Finished' = Finished
  BY <1>1, <1>2, FinishedIs
<1>4. \A id \in SessionIDs : sessions'[id] # NoSession =>
        /\ sessions[id] # NoSession
        /\ sessions'[id].recentHashes = sessions[id].recentHashes
  BY DEF Tick, Store!SessionTick, Store!Stored, IInv, SessionsOK, Store!Session
<1> QED
  BY <1>3, <1>4, LengthKept DEF IInv, StrikesFit

LEMMA StrikesStep == IInv /\ StrikesFit /\ [Next]_chatVars => StrikesFit'
<1> SUFFICES ASSUME IInv, StrikesFit, [Next]_chatVars
             PROVE  StrikesFit'
  OBVIOUS
<1>1. ASSUME UNCHANGED sessions, Finished' \in Nat, Finished' >= Finished
      PROVE  StrikesFit'
  BY <1>1, LengthKept DEF IInv
<1>2. CASE \E p \in Callers, r \in Requests : Begin(p, r)
  <2>1. PICK p \in Callers, r \in Requests : Begin(p, r)
    BY <1>2
  <2>2. Finished' = Finished
    BY <2>1, BeginFinished
  <2>3. UNCHANGED sessions
    BY <2>1 DEF Begin
  <2> QED
    BY <1>1, <2>2, <2>3 DEF StrikesFit
<1>3. ASSUME NEW p \in Callers, Continue(p)
      PROVE  StrikesFit'
  <2>1. Finished' \in Nat /\ Finished' >= Finished
    BY <1>3, ContinueFinished DEF StrikesFit
  <2>2. CASE SessionLookup(p)
    BY <1>3, <2>2, LookupStrikes
  <2>3. CASE SessionRecord(p)
    BY <1>3, <2>3, RecordStrikes
  <2>4. CASE CacheHit(p) \/ CacheMiss(p) \/ CacheStore(p)
    BY <1>1, <2>1, <2>4 DEF CacheHit, CacheMiss, CacheStore
  <2>5. CASE Quiet(p)
    BY <1>1, <2>1, <2>5, QuietLeavesShared
  <2> QED
    BY <1>3, <2>2, <2>3, <2>4, <2>5, ContinueCases
<1>4. CASE Tick
  BY <1>4, TickStrikes
<1>5. CASE (\E b \in {"zero", "positive"} : BalancePoll(b)) \/ UNCHANGED chatVars
  <2>1. UNCHANGED <<calls, callsLeft>> /\ UNCHANGED sessions
    BY <1>5 DEF BalancePoll, chatVars
  <2>2. Calling' = Calling
    BY <2>1 DEF Calling, At
  <2>3. Finished' = Finished
    BY <2>1, <2>2, FinishedIs
  <2> QED
    BY <1>1, <2>1, <2>3 DEF StrikesFit
<1> QED
  BY <1>2, <1>3, <1>4, <1>5 DEF Next

(* However the calls interleave, a session never holds more strikes than   *)
(* calls have returned.                                                    *)
THEOREM ChatStrikesAreFinishedCalls == Spec => []StrikesAreFinishedCalls
<1>1. StrikesFit => StrikesAreFinishedCalls
  BY DEF StrikesFit
<1> QED
  BY <1>1, StrikesInit, StrikesStep, InductiveInvariant, PTL DEF Spec

-----------------------------------------------------------------------------
(* The calls and what they share, put together.  What was proved of the    *)
(* cache and of the store for arbitrary callers holds for these callers:   *)
(* each of their steps is one operation of each, or none.                  *)

CacheFacts == INSTANCE ResponseCacheProofs WITH
    Keys <- CacheKeys, Responses <- Response,
    MaxEntries <- CacheSize, TTL <- CacheTTL, AgeBound <- CacheAgeBound,
    reply <- [op |-> "none"], usedAfter <- {}

StoreFacts == INSTANCE SessionStoreProofs WITH
    Hashes <- CacheKeys, RecordBound <- 0, reply <- [op |-> "none"]

LEMMA CacheAssumed ==
    /\ CacheSize \in Int /\ CacheTTL \in Int /\ DedupWindow \in Int
    /\ CacheAgeBound \in Nat /\ CacheAgeBound > CacheTTL /\ CacheAgeBound >= DedupWindow
    /\ NoEntry \notin CacheFacts!Entry
  BY ChatAssumption, PartsAssumption DEF CacheFacts!Entry

(* An operation of the cache is the same under both names. *)
LEMMA SameCache ==
    /\ \A k \in CacheKeys, r \in Response :
         /\ Cache!GetHit(k, r) => CacheFacts!GetHit(k, r)
         /\ Cache!PutStored(k, r) => CacheFacts!PutStored(k, r)
    /\ \A k \in CacheKeys :
         /\ Cache!GetMiss(k) => CacheFacts!GetMiss(k)
         /\ Cache!PutIgnored(k) => CacheFacts!PutIgnored(k)
    /\ Cache!CacheTick => CacheFacts!CacheTick
<1>1. \A s, k : /\ Cache!RemoveFirst(s, k) = CacheFacts!RemoveFirst(s, k)
               /\ Cache!MovedToEnd(s, k) = CacheFacts!MovedToEnd(s, k)
  BY DEF Cache!RemoveFirst, Cache!RemoveAt, Cache!SelectInSeq, Cache!Min, Cache!MovedToEnd,
         CacheFacts!RemoveFirst, CacheFacts!RemoveAt, CacheFacts!SelectInSeq, CacheFacts!Min,
         CacheFacts!MovedToEnd
<1>2. /\ \A k : Cache!Resident(k) = CacheFacts!Resident(k)
      /\ \A k : Cache!Fresh(k) = CacheFacts!Fresh(k)
      /\ \A k : Cache!InDedupWindow(k) = CacheFacts!InDedupWindow(k)
      /\ \A n : Cache!Older(n) = CacheFacts!Older(n)
  BY DEF Cache!Resident, Cache!Fresh, Cache!InDedupWindow, Cache!Older,
         CacheFacts!Resident, CacheFacts!Fresh, CacheFacts!InDedupWindow, CacheFacts!Older
<1>3. \A n : Cache!LoopStops(n) = CacheFacts!LoopStops(n)
  <2>1. \A S : Cache!Cardinality(S) = CacheFacts!Cardinality(S)
    BY DEF Cache!Cardinality, CacheFacts!Cardinality
  <2> QED
    BY <2>1 DEF Cache!LoopStops, Cache!ResidentKeys, Cache!Resident, Cache!FirstInOrder,
      CacheFacts!LoopStops, CacheFacts!ResidentKeys, CacheFacts!Resident, CacheFacts!FirstInOrder
<1>4. Cache!EvictionTurns = CacheFacts!EvictionTurns
  BY <1>3 DEF Cache!EvictionTurns, CacheFacts!EvictionTurns
<1>5. Cache!Evicted = CacheFacts!Evicted /\ Cache!Kept = CacheFacts!Kept
  BY <1>4 DEF Cache!Evicted, Cache!Kept, Cache!FirstInOrder,
              CacheFacts!Evicted, CacheFacts!Kept, CacheFacts!FirstInOrder
<1>6. ASSUME NEW k \in CacheKeys, NEW r \in Response
      PROVE  /\ Cache!GetHit(k, r) => CacheFacts!GetHit(k, r)
             /\ Cache!PutStored(k, r) => CacheFacts!PutStored(k, r)
  BY <1>1, <1>2, <1>5
  DEF Cache!GetHit, CacheFacts!GetHit, Cache!PutStored, CacheFacts!PutStored
<1>7. ASSUME NEW k \in CacheKeys
      PROVE  /\ Cache!GetMiss(k) => CacheFacts!GetMiss(k)
             /\ Cache!PutIgnored(k) => CacheFacts!PutIgnored(k)
  BY <1>1, <1>2
  DEF Cache!GetMiss, CacheFacts!GetMiss, Cache!PutIgnored, CacheFacts!PutIgnored,
      Cache!cacheVars, CacheFacts!cacheVars
<1>8. Cache!CacheTick => CacheFacts!CacheTick
  BY <1>2 DEF Cache!CacheTick, CacheFacts!CacheTick
<1> QED
  BY <1>6, <1>7, <1>8

(* A new call, an answer of the monitor and a stutter leave the cache and  *)
(* the sessions as they are.                                               *)
Outside ==
    \/ \E p \in Callers, r \in Requests : Begin(p, r)
    \/ \E b \in {"zero", "positive"} : BalancePoll(b)
    \/ UNCHANGED chatVars

LEMMA OutsideLeavesShared == Outside => UNCHANGED entries /\ UNCHANGED order /\ UNCHANGED sessions
<1>1. ASSUME NEW p \in Callers, NEW r \in Requests, Begin(p, r)
      PROVE  UNCHANGED entries /\ UNCHANGED order /\ UNCHANGED sessions
  BY <1>1 DEF Begin
<1>2. ASSUME NEW b \in {"zero", "positive"}, BalancePoll(b)
      PROVE  UNCHANGED entries /\ UNCHANGED order /\ UNCHANGED sessions
  BY <1>2 DEF BalancePoll
<1>3. ASSUME UNCHANGED chatVars
      PROVE  UNCHANGED entries /\ UNCHANGED order /\ UNCHANGED sessions
  BY <1>3 DEF chatVars
<1> QED
  BY <1>1, <1>2, <1>3 DEF Outside

LEMMA CacheOperations ==
    ASSUME IInv, [Next]_chatVars
    PROVE  CacheFacts!Operation
<1>1. ASSUME UNCHANGED <<entries, order>>
      PROVE  CacheFacts!Operation
  BY <1>1 DEF CacheFacts!Operation, CacheFacts!cacheVars
<1>2. ASSUME NEW p \in Callers, Continue(p)
      PROVE  CacheFacts!Operation
  <2>1. ~ At(p, "idle") => KeyOf(p) \in CacheKeys
    BY KeysOfCalls DEF IInv
  <2>2. CASE CacheHit(p)
    BY <2>1, <2>2, SameCache DEF CacheHit, At, CacheFacts!Operation
  <2>3. CASE CacheMiss(p)
    BY <2>1, <2>3, SameCache DEF CacheMiss, At, CacheFacts!Operation
  <2>4. CASE CacheStore(p)
    <3>1. calls[p].response \in Response
      BY <2>4 DEF CacheStore, At, IInv, CallsOK, CallOK, UnderWay
    <3> QED
      BY <2>1, <2>4, <3>1, SameCache DEF CacheStore, At, CacheFacts!Operation
  <2>5. CASE SessionLookup(p) \/ SessionRecord(p)
    <3>1. CASE SessionLookup(p)
      BY <3>1, <1>1 DEF SessionLookup
    <3>2. CASE SessionRecord(p)
      BY <3>2, <1>1 DEF SessionRecord
    <3> QED
      BY <2>5, <3>1, <3>2
  <2>6. CASE Quiet(p)
    BY <1>1, <2>6, QuietLeavesShared
  <2> QED
    BY <1>2, <2>2, <2>3, <2>4, <2>5, <2>6, ContinueCases
<1>3. CASE Tick
  BY <1>3, SameCache DEF Tick, CacheFacts!Operation
<1>4. CASE Outside
  BY <1>1, <1>4, OutsideLeavesShared
<1> QED
  BY <1>2, <1>3, <1>4 DEF Next, Outside

CacheWhole == CacheFacts!IInv /\ CacheFacts!WithinCapacity

LEMMA CacheWholeInit == Init => CacheWhole
<1> SUFFICES ASSUME Init
             PROVE  CacheWhole
  OBVIOUS
<1>1. CacheFacts!Init
  BY DEF Init, Cache!CacheInit, CacheFacts!Init, CacheFacts!CacheInit, CacheFacts!NoReply
<1> QED
  BY <1>1, CacheAssumed, CacheFacts!InvInit DEF CacheWhole

LEMMA CacheWholeStep == IInv /\ CacheWhole /\ [Next]_chatVars => CacheWhole'
<1> SUFFICES ASSUME IInv, CacheWhole, [Next]_chatVars
             PROVE  CacheWhole'
  OBVIOUS
<1>1. CacheFacts!Operation
  BY CacheOperations
<1>2. /\ entries' \in [CacheKeys -> CacheFacts!Entry \cup {NoEntry}]
      /\ order' \in Seq(CacheKeys)
      /\ CacheFacts!OrderIsResidents'
  BY <1>1, CacheAssumed, CacheFacts!OperationKeepsWhole DEF CacheWhole
<1>3. CacheFacts!WithinCapacity'
  BY <1>1, CacheAssumed, CacheFacts!OperationKeepsCapacity DEF CacheWhole
<1> QED
  BY <1>2, <1>3 DEF CacheWhole, CacheFacts!IInv, CacheFacts!TypeOK

(* Any number of concurrent calls, whatever each misses, stores and finds  *)
(* expired, leave the map of the cache and its list in step, and the map   *)
(* within its capacity.                                                    *)
THEOREM ChatCacheStaysWhole ==
    Spec => [](CacheFacts!OrderIsResidents /\ CacheFacts!WithinCapacity)
<1>1. Init => CacheWhole
  BY CacheWholeInit
<1>2. IInv /\ CacheWhole /\ [Next]_chatVars => CacheWhole'
  BY CacheWholeStep
<1>3. CacheWhole => CacheFacts!OrderIsResidents /\ CacheFacts!WithinCapacity
  BY DEF CacheWhole, CacheFacts!IInv
<1> QED
  BY <1>1, <1>2, <1>3, InductiveInvariant, PTL DEF Spec

-----------------------------------------------------------------------------

LEMMA StoreAssumed ==
    /\ SessionTTL \in Int /\ SessionAgeBound \in Nat /\ SessionAgeBound > SessionTTL
    /\ NoSession \notin StoreFacts!Session /\ 0 \in Nat
    /\ NoSession \notin [model : Models, age : 0 .. SessionAgeBound]
  BY ChatAssumption, PartsAssumption DEF StoreFacts!Session

(* An operation of the store is the same under both names. *)
LEMMA SameStore ==
    /\ Store!Info = StoreFacts!Info
    /\ \A id \in SessionIDs, m \in Models, info \in Store!Info :
         Store!GetOrCreate(id, m, info) => StoreFacts!GetOrCreate(id, m, info)
    /\ \A id \in SessionIDs, h \in CacheKeys :
         Store!RecordRequest(id, h) => StoreFacts!RecordRequest(id, h)
    /\ Store!SessionTick => StoreFacts!SessionTick
<1>1. /\ \A id : Store!Stored(id) = StoreFacts!Stored(id)
      /\ \A id : Store!Expired(id) = StoreFacts!Expired(id)
      /\ \A m : Store!FreshSession(m) = StoreFacts!FreshSession(m)
      /\ \A n : Store!OlderSession(n) = StoreFacts!OlderSession(n)
  BY DEF Store!Stored, Store!Expired, Store!FreshSession, Store!OlderSession,
         StoreFacts!Stored, StoreFacts!Expired, StoreFacts!FreshSession, StoreFacts!OlderSession
<1>2. \A s, h : Store!Occurrences(s, h) = StoreFacts!Occurrences(s, h)
  BY DEF Store!Occurrences, StoreFacts!Occurrences, Store!Cardinality, StoreFacts!Cardinality
<1>3. Store!Info = StoreFacts!Info
  BY DEF Store!Info, StoreFacts!Info
<1>4. ASSUME NEW id \in SessionIDs, NEW m \in Models, NEW info \in Store!Info,
             Store!GetOrCreate(id, m, info)
      PROVE  StoreFacts!GetOrCreate(id, m, info)
  BY <1>1, <1>4 DEF Store!GetOrCreate, StoreFacts!GetOrCreate
<1>5. ASSUME NEW id \in SessionIDs, NEW h \in CacheKeys, Store!RecordRequest(id, h)
      PROVE  StoreFacts!RecordRequest(id, h)
  BY <1>1, <1>2, <1>5 DEF Store!RecordRequest, StoreFacts!RecordRequest
<1>6. Store!SessionTick => StoreFacts!SessionTick
  BY <1>1 DEF Store!SessionTick, StoreFacts!SessionTick
<1> QED
  BY <1>3, <1>4, <1>5, <1>6

LEMMA StoreOperations ==
    ASSUME IInv, [Next]_chatVars
    PROVE  StoreFacts!Operation
<1>1. ASSUME UNCHANGED sessions
      PROVE  StoreFacts!Operation
  BY <1>1 DEF StoreFacts!Operation
<1>2. ASSUME NEW p \in Callers, Continue(p)
      PROVE  StoreFacts!Operation
  <2>1. ~ At(p, "idle") => KeyOf(p) \in CacheKeys /\ IDOf(p) \in SessionIDs
                           /\ calls[p].model \in Models
    BY KeysOfCalls DEF IInv
  <2>2. CASE SessionLookup(p)
    <3>1. PICK info \in Store!Info : Store!GetOrCreate(IDOf(p), calls[p].model, info)
      BY <2>2 DEF SessionLookup
    <3>2. ~ At(p, "idle")
      BY <2>2 DEF SessionLookup, At
    <3>3. StoreFacts!GetOrCreate(IDOf(p), calls[p].model, info) /\ info \in StoreFacts!Info
      BY <2>1, <3>1, <3>2, SameStore
    <3> QED
      BY <2>1, <3>2, <3>3 DEF StoreFacts!Operation
  <2>3. CASE SessionRecord(p)
    BY <2>1, <2>3, SameStore DEF SessionRecord, At, StoreFacts!Operation
  <2>4. CASE CacheHit(p) \/ CacheMiss(p) \/ CacheStore(p) \/ Quiet(p)
    <3>1. UNCHANGED sessions
      BY <2>4, QuietLeavesShared DEF CacheHit, CacheMiss, CacheStore
    <3> QED
      BY <1>1, <3>1
  <2> QED
    BY <1>2, <2>2, <2>3, <2>4, ContinueCases
<1>3. CASE Tick
  BY <1>3, SameStore DEF Tick, StoreFacts!Operation
<1>4. CASE Outside
  BY <1>1, <1>4, OutsideLeavesShared
<1> QED
  BY <1>2, <1>3, <1>4 DEF Next, Outside

LEMMA StoreInit == Init => StoreFacts!IInv
<1> SUFFICES ASSUME Init
             PROVE  StoreFacts!IInv
  OBVIOUS
<1>1. StoreFacts!Init
  BY DEF Init, Store!SessionInit, StoreFacts!Init, StoreFacts!SessionInit, StoreFacts!NoReply
<1> QED
  BY <1>1, StoreAssumed, StoreFacts!InvInit

LEMMA StoreStep ==
    ASSUME IInv, StoreFacts!IInv, [Next]_chatVars
    PROVE  StoreFacts!IInv' /\ StoreFacts!KeepsLive
  BY StoreOperations, StoreAssumed, StoreFacts!OperationKeeps, StoreFacts!OperationKeepsLive

(* The store satisfies, under every interleaving of the calls, the         *)
(* invariant that its own operations keep (SessionStore).                  *)
LEMMA StoreInvariant == Spec => []StoreFacts!IInv
<1>1. IInv /\ StoreFacts!IInv /\ [Next]_chatVars => StoreFacts!IInv'
  BY StoreStep
<1> QED
  BY <1>1, StoreInit, InductiveInvariant, PTL DEF Spec

(* Whatever the calls record in one session, in whatever order, its flag   *)
(* is raised exactly when three of the recorded requests are the same.     *)
THEOREM ChatSessionsStayTrue == Spec => []StoreFacts!EscalatedByThreeStrikes
<1>1. StoreFacts!IInv => StoreFacts!EscalatedByThreeStrikes
  BY DEF StoreFacts!IInv
<1> QED
  BY <1>1, StoreInvariant, PTL

(* No step of any call takes the model, the strikes or the escalation from *)
(* a session that is live, between the look-up of another call and its     *)
(* recording.                                                              *)
THEOREM ChatLiveSessionsKept == Spec => [][StoreFacts!KeepsLive]_chatVars
<1>1. IInv /\ StoreFacts!IInv /\ [Next]_chatVars => StoreFacts!KeepsLive
  BY StoreStep
<1> QED
  BY <1>1, StoreInvariant, InductiveInvariant, PTL DEF Spec
=============================================================================
