--------------------------- MODULE ChatCallProofs ---------------------------
(***************************************************************************)
(* Proofs about what one call of Chat or ChatStream keeps to, for every    *)
(* number of callers, every conversation, every set of quotes and every    *)
(* configuration.                                                          *)
(*                                                                         *)
(* A step moves one goroutine and leaves the local variables of the others *)
(* alone.  So the invariant of the calls is a condition CallOK on the      *)
(* record of one of them: the first part shows that each way a record can  *)
(* change keeps it, the second that each action changes one record in one  *)
(* of these ways.  ChatProofs adds what the calls share, and concludes.    *)
(***************************************************************************)
EXTENDS ChatSpec, PaymentProofs, SequenceTheorems

Results == {"none", "ok", "cached", "streamed", "cut", "degraded",
            "refused", "rejected", "failed"}

(* What a call may have signed for. *)
SignedOrders == {Order(pr) : pr \in {q \in Offers : ReachesSigner(q)}}

CallRecord ==
    [pc : Stages, result : Results,
     request : Requests \cup {NotCalled.request}, guarded : BOOLEAN,
     model : Models \cup {NoModel}, info : Store!Info \cup {NoInfo},
     attempt : Nat, offer : Offers \cup {NoOffer},
     sig : SignedOrders \cup {NoOrder},
     response : Response \cup {NoAnswer},
     session : Nat, spent : Nat, owed : Nat]

(* A call under way has a request and a model, no result yet, and once it  *)
(* is answered a response.                                                 *)
UnderWay(c) ==
    /\ c.pc # "idle" => c.request \in Requests /\ c.model \in Models /\ c.result = "none"
    /\ c.pc \in {"quality", "store"} => c.response \in Response

(* A stream has no cache, no quality check and no response of its own. *)
KindFits(c) ==
    /\ c.pc \in {"cache", "quality", "store"} => c.request.kind # "stream"
    /\ c.pc = "streaming" => c.request.kind = "stream"
    /\ c.pc # "idle" /\ c.request.kind = "stream" => c.response = NoAnswer

(* A quote is held while it is answered, an order while it is used. *)
QuoteFits(c) ==
    /\ c.pc \notin {"sign", "submit"} => c.offer = NoOffer
    /\ c.pc = "sign" => c.offer \in Offers
    /\ c.pc # "submit" => c.sig = NoOrder

(* A signature is owed an answer while it is submitted, and stays owed if  *)
(* the call ends there.                                                    *)
OwedFits(c) ==
    /\ c.pc # "idle" => c.owed = IF c.pc = "submit" THEN 1 ELSE 0
    /\ c.owed <= 1
    /\ c.pc = "idle" /\ c.owed = 1 => c.result \in {"rejected", "failed"}
    /\ c.result = "rejected" => c.owed = 1

(* The payments a call can have made at its stage: one for each retry that *)
(* was begun, and one more past the stage where it signs.                  *)
Rounds(c) ==
    c.attempt + IF c.pc \in {"idle", "session", "cache", "probe", "sign"} THEN 0 ELSE 1

SpentFits(c) ==
    /\ c.attempt = 0 \/ (EnableQualityCheck /\ c.attempt <= MaxQualityRetries)
    /\ c.spent = 0 \/ (MaxPaymentAmount # NoCap /\ c.spent <= Rounds(c) * MaxPaymentAmount)

(* The calls whose response is kept or handed out as a success. *)
HasDelivered(c) == c.pc = "idle" /\ c.result \in {"ok", "cached"}
IsGated == EnableQualityCheck /\ MaxQualityRetries >= 0

GateFits(c) ==
    IsGated /\ (c.pc \in {"store", "record"} \/ HasDelivered(c)) => ~ c.response.degraded

(* A response answers the conversation asked about, under the call's model. *)
HasAnswer(c) ==
    \/ c.pc \in {"quality", "store"}
    \/ c.pc = "record" /\ c.request.kind # "stream"
    \/ HasDelivered(c)

KeyFits(c) ==
    HasAnswer(c) => ResponseKey(c.response) = CacheKey(c.model, c.request.messages)

(* A call reaches the session with the model it was asked for, or guarded. *)
GuardFits(c) == c.pc = "session" /\ ~ c.guarded => c.model = c.request.model

CallOK(c) ==
    /\ c \in CallRecord
    /\ UnderWay(c) /\ KindFits(c) /\ QuoteFits(c) /\ OwedFits(c)
    /\ SpentFits(c) /\ GateFits(c) /\ KeyFits(c) /\ GuardFits(c)

(* What the cache holds: answers to their keys that passed the gate. *)
CacheOK ==
    /\ entries \in [CacheKeys -> Cache!Entry \cup {NoEntry}]
    /\ \A k \in CacheKeys : Cache!Resident(k) =>
          /\ ResponseKey(entries[k].response) = k
          /\ IsGated => ~ entries[k].response.degraded

SessionsOK ==
    /\ sessions \in [SessionIDs -> Store!Session \cup {NoSession}]
    /\ opened \in [SessionIDs -> Nat]

CallsOK == calls \in [Callers -> CallRecord] /\ \A p \in Callers : CallOK(calls[p])

-----------------------------------------------------------------------------
(* The ways in which the record of a call changes. *)

LEMMA NotCalledTyped == NotCalled \in CallRecord
  BY DEF NotCalled, CallRecord, Stages, Results

LEMMA NotCalledOK == CallOK(NotCalled)
<1>1. NotCalled \in CallRecord
  BY NotCalledTyped
<1>2. UnderWay(NotCalled) /\ KindFits(NotCalled) /\ QuoteFits(NotCalled) /\ OwedFits(NotCalled)
  BY DEF NotCalled, UnderWay, KindFits, QuoteFits, OwedFits
<1>3. SpentFits(NotCalled) /\ GateFits(NotCalled) /\ KeyFits(NotCalled) /\ GuardFits(NotCalled)
  BY DEF NotCalled, SpentFits, GateFits, KeyFits, GuardFits, HasAnswer, HasDelivered
<1> QED
  BY <1>1, <1>2, <1>3 DEF CallOK

(* A call that fails. *)
LEMMA FailedOK ==
    ASSUME NEW c, CallOK(c), c.pc # "idle",
           NEW result \in {"cut", "degraded", "refused", "rejected", "failed"},
           c.owed = 1 => result \in {"rejected", "failed"},
           result = "rejected" => c.owed = 1
    PROVE  CallOK([NotCalled EXCEPT !.result = result, !.owed = c.owed])
<1> DEFINE d == [NotCalled EXCEPT !.result = result, !.owed = c.owed]
<1>1. c.owed \in Nat /\ c.owed <= 1
  BY DEF CallOK, CallRecord, OwedFits
<1>2. d \in CallRecord
  BY <1>1, NotCalledTyped DEF CallRecord, Results
<1>3. UnderWay(d) /\ KindFits(d) /\ QuoteFits(d) /\ OwedFits(d)
  BY <1>1 DEF NotCalled, UnderWay, KindFits, QuoteFits, OwedFits
<1>4. SpentFits(d) /\ GateFits(d) /\ KeyFits(d) /\ GuardFits(d)
  BY DEF NotCalled, SpentFits, GateFits, KeyFits, GuardFits, HasAnswer, HasDelivered
<1> QED
  BY <1>2, <1>3, <1>4 DEF CallOK

(* A call that succeeds, with a response to hand out unless it streamed. *)
LEMMA SucceededOK ==
    ASSUME NEW c \in CallRecord, c.owed = 0, NEW result \in {"ok", "cached", "streamed"},
           result # "streamed" =>
              /\ ResponseKey(c.response) = CacheKey(c.model, c.request.messages)
              /\ IsGated => ~ c.response.degraded
    PROVE  CallOK(Success(c, result))
<1> DEFINE d == Success(c, result)
<1>1. d \in CallRecord
  <2>1. /\ c.request \in Requests \cup {NotCalled.request} /\ c.model \in Models \cup {NoModel}
        /\ c.response \in Response \cup {NoAnswer} /\ c.owed \in Nat
    BY DEF CallRecord
  <2>2. d = [NotCalled EXCEPT !.result = result, !.request = c.request, !.model = c.model,
                              !.response = c.response, !.owed = c.owed]
    BY DEF Success
  <2>3. NotCalled \in CallRecord
    BY NotCalledTyped
  <2> HIDE DEF d
  <2> QED
    BY <2>1, <2>2, <2>3 DEF CallRecord, Results
<1>2. /\ d.pc = "idle" /\ d.result = result /\ d.offer = NoOffer /\ d.sig = NoOrder
      /\ d.attempt = 0 /\ d.spent = 0 /\ d.owed = 0
      /\ d.response = c.response /\ d.model = c.model /\ d.request = c.request
  BY DEF Success, NotCalled
<1> HIDE DEF d
<1>3. UnderWay(d) /\ KindFits(d) /\ QuoteFits(d) /\ OwedFits(d)
  BY <1>2 DEF UnderWay, KindFits, QuoteFits, OwedFits
<1>4. SpentFits(d) /\ GateFits(d) /\ KeyFits(d) /\ GuardFits(d)
  BY <1>2 DEF SpentFits, GateFits, KeyFits, GuardFits, HasAnswer, HasDelivered
<1>5. CallOK(d)
  BY <1>1, <1>3, <1>4 DEF CallOK
<1> QED
  BY <1>5 DEF d

(* A call that begins. *)
LEMMA BegunOK ==
    ASSUME NEW r \in Requests, NEW guarded \in BOOLEAN, guarded => FreeFallbackModel \in Models
    PROVE  CallOK([NotCalled EXCEPT !.pc = FirstStage(r.kind), !.request = r,
                                    !.guarded = guarded,
                                    !.model = IF guarded THEN FreeFallbackModel ELSE r.model])
<1> DEFINE d == [NotCalled EXCEPT !.pc = FirstStage(r.kind), !.request = r,
                                  !.guarded = guarded,
                                  !.model = IF guarded THEN FreeFallbackModel ELSE r.model]
<1>1. /\ FirstStage(r.kind) \in {"session", "cache", "probe"}
      /\ FirstStage(r.kind) = "cache" => r.kind # "stream"
  BY DEF FirstStage, AfterSession
<1>2. r.model \in Models /\ r.messages \in Conversations
  BY DEF Requests
<1>3. d \in CallRecord
  BY <1>1, <1>2 DEF NotCalled, CallRecord, Stages, Results
<1>4. /\ d.pc = FirstStage(r.kind) /\ d.result = "none" /\ d.request = r
      /\ d.guarded = guarded /\ d.model = IF guarded THEN FreeFallbackModel ELSE r.model
      /\ d.offer = NoOffer /\ d.sig = NoOrder /\ d.attempt = 0 /\ d.spent = 0
      /\ d.owed = 0 /\ d.response = NoAnswer
  BY DEF NotCalled
<1> HIDE DEF d
<1>5. UnderWay(d) /\ KindFits(d) /\ QuoteFits(d) /\ OwedFits(d)
  BY <1>1, <1>2, <1>4 DEF UnderWay, KindFits, QuoteFits, OwedFits
<1>6. SpentFits(d) /\ GateFits(d) /\ KeyFits(d) /\ GuardFits(d)
  BY <1>1, <1>4 DEF SpentFits, GateFits, KeyFits, GuardFits, HasAnswer, HasDelivered
<1>7. CallOK(d)
  BY <1>3, <1>5, <1>6 DEF CallOK
<1> QED
  BY <1>7 DEF d

(* A call that has looked its session up. *)
LEMMA LookedUpOK ==
    ASSUME NEW c, CallOK(c), c.pc = "session",
           NEW info \in Store!Info, NEW n \in Nat, NEW model \in Models
    PROVE  CallOK([c EXCEPT !.pc = AfterSession(c.request.kind), !.info = info,
                            !.session = n, !.model = model])
<1> DEFINE d == [c EXCEPT !.pc = AfterSession(c.request.kind), !.info = info,
                          !.session = n, !.model = model]
<1>1. /\ AfterSession(c.request.kind) \in {"cache", "probe"}
      /\ AfterSession(c.request.kind) = "cache" => c.request.kind # "stream"
  BY DEF AfterSession
<1>2. d \in CallRecord
  BY <1>1 DEF CallOK, CallRecord, Stages
<1>3. /\ d.pc = AfterSession(c.request.kind) /\ d.model = model
      /\ d.result = c.result /\ d.request = c.request
      /\ d.offer = c.offer /\ d.sig = c.sig /\ d.attempt = c.attempt /\ d.spent = c.spent
      /\ d.owed = c.owed /\ d.response = c.response
  BY DEF CallOK, CallRecord
<1> HIDE DEF d
<1>4. UnderWay(d) /\ KindFits(d) /\ QuoteFits(d) /\ OwedFits(d)
  BY <1>1, <1>3 DEF CallOK, UnderWay, KindFits, QuoteFits, OwedFits
<1>5. SpentFits(d) /\ GateFits(d) /\ KeyFits(d) /\ GuardFits(d)
  BY <1>1, <1>3 DEF CallOK, UnderWay, SpentFits, Rounds, GateFits, KeyFits, GuardFits, HasAnswer, HasDelivered
<1>6. CallOK(d)
  BY <1>2, <1>4, <1>5 DEF CallOK
<1> QED
  BY <1>6 DEF d

(* Multiples of the cap, the only products here. *)
LEMMA Multiples ==
    ASSUME NEW a \in Nat, NEW b \in Nat, NEW cap \in Nat, a <= b
    PROVE  a * cap <= b * cap /\ (a + 1) * cap = a * cap + cap /\ a * cap \in Nat
<1>1. b = a + (b - a) /\ b - a \in Nat
  OBVIOUS
<1>2. b * cap = a * cap + (b - a) * cap /\ (b - a) * cap >= 0
  BY <1>1
<1> QED
  BY <1>2

(* What a call has spent stays within its rounds when it signs nothing. *)
LEMMA SpentStaysWithin ==
    ASSUME NEW c, CallOK(c), NEW d \in CallRecord, d.spent = c.spent,
           Rounds(d) >= Rounds(c),
           d.attempt = 0 \/ (EnableQualityCheck /\ d.attempt <= MaxQualityRetries)
    PROVE  SpentFits(d)
<1>1. Rounds(c) \in Nat /\ Rounds(d) \in Nat /\ c.spent \in Nat
  BY DEF Rounds, CallOK, CallRecord
<1>2. SUFFICES ASSUME MaxPaymentAmount # NoCap, c.spent <= Rounds(c) * MaxPaymentAmount
               PROVE  d.spent <= Rounds(d) * MaxPaymentAmount
  BY DEF SpentFits, CallOK
<1>3. MaxPaymentAmount \in Nat
  BY <1>2, PaymentAssumption
<1>4. /\ Rounds(c) * MaxPaymentAmount <= Rounds(d) * MaxPaymentAmount
      /\ Rounds(c) * MaxPaymentAmount \in Nat /\ Rounds(d) * MaxPaymentAmount \in Nat
  BY <1>1, <1>3, Multiples
<1> QED
  BY <1>1, <1>2, <1>4

(* A call that goes on to its probe. *)
LEMMA ProbesOK ==
    ASSUME NEW c, CallOK(c), c.pc = "cache"
    PROVE  CallOK([c EXCEPT !.pc = "probe"])
<1> DEFINE d == [c EXCEPT !.pc = "probe"]
<1>1. d \in CallRecord
  BY DEF CallOK, CallRecord, Stages
<1>2. /\ d.pc = "probe"
      /\ d.result = c.result /\ d.request = c.request /\ d.guarded = c.guarded
      /\ d.model = c.model /\ d.attempt = c.attempt /\ d.offer = c.offer
      /\ d.sig = c.sig /\ d.response = c.response /\ d.spent = c.spent
      /\ d.owed = c.owed
  BY DEF CallOK, CallRecord
<1> HIDE DEF d
<1>3. UnderWay(d) /\ KindFits(d) /\ QuoteFits(d) /\ OwedFits(d)
  BY <1>2 DEF CallOK, UnderWay, KindFits, QuoteFits, OwedFits
<1>4. SpentFits(d)
  BY <1>2 DEF CallOK, SpentFits, Rounds
<1>5. GateFits(d) /\ KeyFits(d) /\ GuardFits(d)
  BY <1>2 DEF CallOK, UnderWay, GateFits, KeyFits, GuardFits, HasAnswer, HasDelivered
<1>6. CallOK(d)
  BY <1>1, <1>3, <1>4, <1>5 DEF CallOK
<1> QED
  BY <1>6 DEF d

(* A call that is asked to pay. *)
LEMMA PricedOK ==
    ASSUME NEW c, CallOK(c), c.pc = "probe", NEW pr \in Offers
    PROVE  CallOK([c EXCEPT !.pc = "sign", !.offer = pr])
<1> DEFINE d == [c EXCEPT !.pc = "sign", !.offer = pr]
<1>1. d \in CallRecord
  BY DEF CallOK, CallRecord, Stages
<1>2. /\ d.pc = "sign" /\ d.offer = pr
      /\ d.result = c.result /\ d.request = c.request /\ d.guarded = c.guarded
      /\ d.model = c.model /\ d.attempt = c.attempt /\ d.sig = c.sig
      /\ d.response = c.response /\ d.spent = c.spent /\ d.owed = c.owed
  BY DEF CallOK, CallRecord
<1> HIDE DEF d
<1>3. UnderWay(d) /\ KindFits(d) /\ QuoteFits(d) /\ OwedFits(d)
  BY <1>2 DEF CallOK, UnderWay, KindFits, QuoteFits, OwedFits
<1>4. SpentFits(d)
  BY <1>2 DEF CallOK, SpentFits, Rounds
<1>5. GateFits(d) /\ KeyFits(d) /\ GuardFits(d)
  BY <1>2 DEF CallOK, UnderWay, GateFits, KeyFits, GuardFits, HasAnswer, HasDelivered
<1>6. CallOK(d)
  BY <1>1, <1>3, <1>4, <1>5 DEF CallOK
<1> QED
  BY <1>6 DEF d

(* A stream that is opened. *)
LEMMA StreamingOK ==
    ASSUME NEW c, CallOK(c), c.pc = "submit", c.request.kind = "stream"
    PROVE  CallOK([c EXCEPT !.pc = "streaming", !.sig = NoOrder, !.offer = NoOffer, !.owed = 0])
<1> DEFINE d == [c EXCEPT !.pc = "streaming", !.sig = NoOrder, !.offer = NoOffer, !.owed = 0]
<1>1. d \in CallRecord
  BY DEF CallOK, CallRecord, Stages
<1>2. /\ d.pc = "streaming" /\ d.sig = NoOrder /\ d.offer = NoOffer /\ d.owed = 0
      /\ d.result = c.result /\ d.request = c.request /\ d.guarded = c.guarded
      /\ d.model = c.model /\ d.attempt = c.attempt /\ d.response = c.response
      /\ d.spent = c.spent
  BY DEF CallOK, CallRecord
<1> HIDE DEF d
<1>3. UnderWay(d) /\ KindFits(d) /\ QuoteFits(d) /\ OwedFits(d)
  BY <1>2 DEF CallOK, UnderWay, KindFits, QuoteFits, OwedFits
<1>4. SpentFits(d)
  BY <1>2 DEF CallOK, SpentFits, Rounds
<1>5. GateFits(d) /\ KeyFits(d) /\ GuardFits(d)
  BY <1>2 DEF CallOK, UnderWay, GateFits, KeyFits, GuardFits, HasAnswer, HasDelivered
<1>6. CallOK(d)
  BY <1>1, <1>3, <1>4, <1>5 DEF CallOK
<1> QED
  BY <1>6 DEF d

(* A stream that is over, or an answer that has been stored, to be recorded. *)
LEMMA RecordsOK ==
    ASSUME NEW c, CallOK(c), c.pc \in {"probe", "streaming", "store"},
           c.pc = "probe" => c.request.kind = "stream"
    PROVE  CallOK([c EXCEPT !.pc = "record"])
<1> DEFINE d == [c EXCEPT !.pc = "record"]
<1>1. d \in CallRecord
  BY DEF CallOK, CallRecord, Stages
<1>2. /\ d.pc = "record"
      /\ d.result = c.result /\ d.request = c.request /\ d.guarded = c.guarded
      /\ d.model = c.model /\ d.attempt = c.attempt /\ d.offer = c.offer
      /\ d.sig = c.sig /\ d.response = c.response /\ d.spent = c.spent
      /\ d.owed = c.owed
  BY DEF CallOK, CallRecord
<1> HIDE DEF d
<1>3. UnderWay(d) /\ KindFits(d) /\ QuoteFits(d) /\ OwedFits(d)
  BY <1>2 DEF CallOK, UnderWay, KindFits, QuoteFits, OwedFits
<1>4. SpentFits(d)
  <2>1. Rounds(d) >= Rounds(c)
    BY <1>1, <1>2 DEF Rounds, CallOK, CallRecord
  <2> QED
    BY <1>1, <1>2, <2>1, SpentStaysWithin DEF CallOK, SpentFits
<1>5. GateFits(d) /\ KeyFits(d) /\ GuardFits(d)
  BY <1>2 DEF CallOK, UnderWay, KindFits, NoAnswer, GateFits, KeyFits, GuardFits, HasAnswer, HasDelivered
<1>6. CallOK(d)
  BY <1>1, <1>3, <1>4, <1>5 DEF CallOK
<1> QED
  BY <1>6 DEF d

(* An answer the quality check lets through. *)
LEMMA PassedOK ==
    ASSUME NEW c, CallOK(c), c.pc = "quality", NEW stage \in {"store", "record"},
           IsGated => ~ c.response.degraded
    PROVE  CallOK([c EXCEPT !.pc = stage])
<1> DEFINE d == [c EXCEPT !.pc = stage]
<1>1. d \in CallRecord
  BY DEF CallOK, CallRecord, Stages
<1>2. /\ d.pc = stage
      /\ d.result = c.result /\ d.request = c.request /\ d.guarded = c.guarded
      /\ d.model = c.model /\ d.attempt = c.attempt /\ d.offer = c.offer
      /\ d.sig = c.sig /\ d.response = c.response /\ d.spent = c.spent
      /\ d.owed = c.owed
  BY DEF CallOK, CallRecord
<1> HIDE DEF d
<1>3. UnderWay(d) /\ KindFits(d) /\ QuoteFits(d) /\ OwedFits(d)
  BY <1>2 DEF CallOK, UnderWay, KindFits, QuoteFits, OwedFits
<1>4. SpentFits(d)
  BY <1>2 DEF CallOK, SpentFits, Rounds
<1>5. GateFits(d) /\ KeyFits(d) /\ GuardFits(d)
  BY <1>2 DEF CallOK, UnderWay, GateFits, KeyFits, GuardFits, HasAnswer, HasDelivered
<1>6. CallOK(d)
  BY <1>1, <1>3, <1>4, <1>5 DEF CallOK
<1> QED
  BY <1>6 DEF d

(* A call that asks again. *)
LEMMA RetriedOK ==
    ASSUME NEW c, CallOK(c), c.pc = "quality", EnableQualityCheck,
           c.attempt < MaxQualityRetries
    PROVE  CallOK([c EXCEPT !.pc = "probe", !.attempt = @ + 1])
<1> DEFINE d == [c EXCEPT !.pc = "probe", !.attempt = @ + 1]
<1>0. c.attempt \in Nat /\ c.attempt + 1 \in Nat /\ MaxQualityRetries \in Int
  BY ChatAssumption DEF CallOK, CallRecord
<1>1. d \in CallRecord
  BY <1>0 DEF CallOK, CallRecord, Stages
<1>2. /\ d.pc = "probe" /\ d.attempt = c.attempt + 1
      /\ d.result = c.result /\ d.request = c.request /\ d.guarded = c.guarded
      /\ d.model = c.model /\ d.offer = c.offer /\ d.sig = c.sig
      /\ d.response = c.response /\ d.spent = c.spent /\ d.owed = c.owed
  BY DEF CallOK, CallRecord
<1> HIDE DEF d
<1>3. UnderWay(d) /\ KindFits(d) /\ QuoteFits(d) /\ OwedFits(d)
  BY <1>0, <1>2 DEF CallOK, UnderWay, KindFits, QuoteFits, OwedFits
<1>4. SpentFits(d)
  <2>1. Rounds(d) >= Rounds(c) /\ d.attempt <= MaxQualityRetries
    BY <1>0, <1>2 DEF Rounds
  <2> QED
    BY <1>0, <1>1, <1>2, <2>1, SpentStaysWithin
<1>5. GateFits(d) /\ KeyFits(d) /\ GuardFits(d)
  BY <1>0, <1>2 DEF CallOK, UnderWay, GateFits, KeyFits, GuardFits, HasAnswer, HasDelivered
<1>6. CallOK(d)
  BY <1>1, <1>3, <1>4, <1>5 DEF CallOK
<1> QED
  BY <1>6 DEF d

(* A call that is answered, with payment or without. *)
LEMMA AnsweredOK ==
    ASSUME NEW c, CallOK(c), c.pc \in {"probe", "submit"}, c.request.kind # "stream",
           NEW degraded \in BOOLEAN
    PROVE  CallOK([c EXCEPT !.pc = "quality", !.sig = NoOrder, !.offer = NoOffer, !.owed = 0,
                            !.response = [model |-> c.model,
                                          messages |-> c.request.messages,
                                          degraded |-> degraded]])
<1> DEFINE d == [c EXCEPT !.pc = "quality", !.sig = NoOrder, !.offer = NoOffer, !.owed = 0,
                            !.response = [model |-> c.model,
                                          messages |-> c.request.messages,
                                          degraded |-> degraded]]
<1>0. [model |-> c.model, messages |-> c.request.messages, degraded |-> degraded] \in Response
  BY DEF CallOK, UnderWay, Requests, Response
<1>1. d \in CallRecord
  BY <1>0 DEF CallOK, CallRecord, Stages
<1>2. /\ d.pc = "quality" /\ d.sig = NoOrder /\ d.offer = NoOffer /\ d.owed = 0
      /\ d.result = c.result /\ d.request = c.request /\ d.guarded = c.guarded
      /\ d.model = c.model /\ d.attempt = c.attempt /\ d.response = [model |-> c.model, messages |-> c.request.messages, degraded |-> degraded]
      /\ d.spent = c.spent
  BY DEF CallOK, CallRecord
<1> HIDE DEF d
<1>3. UnderWay(d) /\ KindFits(d) /\ QuoteFits(d) /\ OwedFits(d)
  BY <1>0, <1>2 DEF CallOK, UnderWay, KindFits, QuoteFits, OwedFits
<1>4. SpentFits(d)
  <2>1. Rounds(d) >= Rounds(c)
    BY <1>1, <1>2 DEF Rounds, CallOK, CallRecord
  <2> QED
    BY <1>1, <1>2, <2>1, SpentStaysWithin DEF CallOK, SpentFits
<1>5. GateFits(d) /\ KeyFits(d) /\ GuardFits(d)
  BY <1>0, <1>2 DEF CallOK, UnderWay, ResponseKey, GateFits, KeyFits, GuardFits, HasAnswer, HasDelivered
<1>6. CallOK(d)
  BY <1>1, <1>3, <1>4, <1>5 DEF CallOK
<1> QED
  BY <1>6 DEF d

(* A call that signs. *)
LEMMA SignedOK ==
    ASSUME NEW c, CallOK(c), c.pc = "sign", ReachesSigner(c.offer)
    PROVE  CallOK([c EXCEPT !.pc = "submit", !.sig = Order(c.offer), !.owed = @ + 1,
                            !.spent = @ + Order(c.offer).amount])
<1> DEFINE d == [c EXCEPT !.pc = "submit", !.sig = Order(c.offer), !.owed = @ + 1,
                            !.spent = @ + Order(c.offer).amount]
<1>0. /\ c.offer \in Offers /\ c.owed = 0 /\ c.spent \in Nat /\ c.attempt \in Nat
      /\ MaxPaymentAmount # NoCap /\ MaxPaymentAmount \in Nat
      /\ Order(c.offer).amount \in 1 .. MaxPaymentAmount
      /\ Order(c.offer) \in SignedOrders
      /\ c.spent + Order(c.offer).amount \in Nat /\ c.owed + 1 \in Nat
  <2>1. c.offer \in Offers
    BY DEF CallOK, QuoteFits
  <2>2. c.offer.accepts \in Seq(Range(c.offer.accepts))
    BY <2>1, ChatAssumption
  <2>3. MaxPaymentAmount # NoCap /\ Order(c.offer).amount \in 1 .. MaxPaymentAmount
    BY <2>2, SignedOrder
  <2>4. Order(c.offer) \in SignedOrders
    BY <2>1 DEF SignedOrders
  <2> QED
    BY <2>1, <2>3, <2>4, PaymentAssumption DEF CallOK, CallRecord, OwedFits
<1>1. d \in CallRecord
  BY <1>0 DEF CallOK, CallRecord, Stages
<1>2. /\ d.pc = "submit" /\ d.sig = Order(c.offer) /\ d.owed = c.owed + 1 /\ d.spent = c.spent + Order(c.offer).amount
      /\ d.result = c.result /\ d.request = c.request /\ d.guarded = c.guarded
      /\ d.model = c.model /\ d.attempt = c.attempt /\ d.offer = c.offer
      /\ d.response = c.response
  BY DEF CallOK, CallRecord
<1> HIDE DEF d
<1>3. UnderWay(d) /\ KindFits(d) /\ QuoteFits(d) /\ OwedFits(d)
  BY <1>0, <1>2 DEF CallOK, UnderWay, KindFits, QuoteFits, OwedFits
<1>4. SpentFits(d)
  BY <1>0, <1>2 DEF CallOK, SpentFits, Rounds
<1>5. GateFits(d) /\ KeyFits(d) /\ GuardFits(d)
  BY <1>0, <1>2 DEF CallOK, UnderWay, GateFits, KeyFits, GuardFits, HasAnswer, HasDelivered
<1>6. CallOK(d)
  BY <1>1, <1>3, <1>4, <1>5 DEF CallOK
<1> QED
  BY <1>6 DEF d

-----------------------------------------------------------------------------
(* Each action changes one record in one of these ways. *)

LEMMA OneCallChanges ==
    ASSUME CallsOK, NEW p \in Callers, NEW d, CallOK(d), calls' = [calls EXCEPT ![p] = d]
    PROVE  CallsOK'
<1>1. d \in CallRecord
  BY DEF CallOK
<1>2. calls' \in [Callers -> CallRecord]
  BY <1>1 DEF CallsOK
<1>3. \A q \in Callers : CallOK(calls'[q])
  BY DEF CallsOK
<1> QED
  BY <1>2, <1>3 DEF CallsOK

LEMMA FailsKeeps ==
    ASSUME CallsOK, NEW p \in Callers, ~ At(p, "idle"),
           NEW result \in {"cut", "degraded", "refused", "rejected", "failed"},
           At(p, "submit") => result \in {"rejected", "failed"},
           result = "rejected" => At(p, "submit"), Fails(p, result)
    PROVE  CallsOK'
<1>1. CallOK(calls[p]) /\ calls[p].pc # "idle"
  BY DEF CallsOK, At
<1>2. calls[p].owed = 1 <=> At(p, "submit")
  BY <1>1 DEF CallOK, OwedFits, At
<1>3. CallOK([NotCalled EXCEPT !.result = result, !.owed = calls[p].owed])
  BY <1>1, <1>2, FailedOK
<1> QED
  BY <1>3, OneCallChanges DEF Fails

LEMMA BeginKeeps ==
    ASSUME CallsOK, NEW p \in Callers, NEW r \in Requests, Begin(p, r)
    PROVE  CallsOK'
<1>1. BalanceGuard \in BOOLEAN /\ (BalanceGuard => FreeFallbackModel \in Models)
  BY ChatAssumption DEF BalanceGuard
<1>2. CallOK([NotCalled EXCEPT !.pc = FirstStage(r.kind), !.request = r,
                               !.guarded = BalanceGuard,
                               !.model = IF BalanceGuard THEN FreeFallbackModel ELSE r.model])
  BY <1>1, BegunOK
<1> QED
  BY <1>2, OneCallChanges DEF Begin

LEMMA PricedKeeps ==
    ASSUME CallsOK, NEW p \in Callers, NEW pr \in Offers, ProbePriced(p, pr)
    PROVE  CallsOK'
<1>1. CallOK(calls[p]) /\ calls[p].pc = "probe"
  BY DEF CallsOK, ProbePriced, At
<1>2. CallOK([calls[p] EXCEPT !.pc = "sign", !.offer = pr])
  BY <1>1, PricedOK
<1>3. calls' = [calls EXCEPT ![p] = [calls[p] EXCEPT !.pc = "sign", !.offer = pr]]
  BY DEF ProbePriced, CallsOK
<1> QED
  BY <1>2, <1>3, OneCallChanges

(* A key is looked up and stored under that is in the range of CacheKey,   *)
(* a session ID in that of SessionID.                                      *)
LEMMA KeysOfCalls ==
    ASSUME CallsOK, NEW p \in Callers, ~ At(p, "idle")
    PROVE  /\ KeyOf(p) \in CacheKeys /\ IDOf(p) \in SessionIDs
           /\ calls[p].request \in Requests /\ calls[p].model \in Models
<1>1. calls[p].request \in Requests /\ calls[p].model \in Models
  BY DEF CallsOK, CallOK, UnderWay, At
<1>2. Messages(p) \in Conversations /\ calls[p].request.kind \in Kinds
  BY <1>1 DEF Requests, Messages
<1>3. [kind |-> calls[p].request.kind, model |-> calls[p].model, messages |-> Messages(p)] \in Requests
  BY <1>1, <1>2 DEF Requests
<1>4. KeyOf(p) \in CacheKeys
  BY <1>3 DEF CacheKeys, KeyOf
<1>5. IDOf(p) \in SessionIDs
  BY <1>2 DEF SessionIDs, IDOf
<1> QED
  BY <1>1, <1>4, <1>5

LEMMA LookupKeeps ==
    ASSUME CallsOK, opened \in [SessionIDs -> Nat], NEW p \in Callers, SessionLookup(p)
    PROVE  CallsOK' /\ (opened \in [SessionIDs -> Nat])'
<1>1. CallOK(calls[p]) /\ calls[p].pc = "session" /\ ~ At(p, "idle")
  BY DEF CallsOK, SessionLookup, At
<1>2. IDOf(p) \in SessionIDs /\ calls[p].model \in Models
  BY <1>1, KeysOfCalls
<1>3. PICK info \in Store!Info :
        /\ opened' = IF sessions' = sessions THEN opened
                     ELSE [opened EXCEPT ![IDOf(p)] = @ + 1]
        /\ calls' = [calls EXCEPT
                       ![p].pc = AfterSession(calls[p].request.kind),
                       ![p].info = info,
                       ![p].session = opened'[IDOf(p)],
                       ![p].model = IF NotOverridden(p) THEN info.Model ELSE @]
  BY DEF SessionLookup
<1>4. opened' \in [SessionIDs -> Nat] /\ opened'[IDOf(p)] \in Nat
  BY <1>2, <1>3
<1> DEFINE model == IF NotOverridden(p) THEN info.Model ELSE calls[p].model
           d == [calls[p] EXCEPT !.pc = AfterSession(calls[p].request.kind), !.info = info,
                                 !.session = opened'[IDOf(p)], !.model = model]
<1>5. model \in Models
  BY <1>2 DEF Store!Info
<1>6. CallOK(d)
  <2> HIDE DEF model
  <2> QED
    BY <1>1, <1>4, <1>5, LookedUpOK
<1>7. calls' = [calls EXCEPT ![p] = d]
  <2>1. calls \in [Callers -> CallRecord] /\ calls[p] \in CallRecord
    BY DEF CallsOK
  <2>2. PICK stage, n : stage = AfterSession(calls[p].request.kind) /\ n = opened'[IDOf(p)]
    OBVIOUS
  <2>3. calls' = [calls EXCEPT ![p].pc = stage, ![p].info = info, ![p].session = n,
                              ![p].model = IF NotOverridden(p) THEN info.Model ELSE @]
    BY <1>3, <2>2
  <2>4. calls' = [calls EXCEPT ![p] = [calls[p] EXCEPT !.pc = stage, !.info = info,
                                                      !.session = n, !.model = model]]
    BY <2>1, <2>3 DEF CallRecord
  <2> QED
    BY <2>2, <2>4
<1> QED
  BY <1>4, <1>6, <1>7, OneCallChanges

LEMMA HitKeeps ==
    ASSUME CallsOK, CacheOK, NEW p \in Callers, CacheHit(p)
    PROVE  CallsOK'
<1>1. CallOK(calls[p]) /\ calls[p].pc = "cache" /\ ~ At(p, "idle")
  BY DEF CallsOK, CacheHit, At
<1>2. PICK r \in Response :
        /\ Cache!GetHit(KeyOf(p), r)
        /\ calls' = [calls EXCEPT ![p] = Success([@ EXCEPT !.response = r], "cached")]
  BY DEF CacheHit
<1>3. /\ ResponseKey(r) = CacheKey(calls[p].model, calls[p].request.messages)
      /\ IsGated => ~ r.degraded
  <2>1. KeyOf(p) \in CacheKeys /\ Cache!Resident(KeyOf(p)) /\ r = entries[KeyOf(p)].response
    BY <1>1, <1>2, KeysOfCalls DEF Cache!GetHit
  <2> QED
    BY <2>1 DEF CacheOK, KeyOf, Messages
<1> DEFINE c == [calls[p] EXCEPT !.response = r]
<1>4. c \in CallRecord
  BY <1>1 DEF CallOK, CallRecord
<1>5. /\ c.owed = 0 /\ c.response = r /\ c.model = calls[p].model
      /\ c.request = calls[p].request
  BY <1>1 DEF CallOK, OwedFits, CallRecord
<1>6. CallOK(Success(c, "cached"))
  <2> HIDE DEF c
  <2> QED
    BY <1>3, <1>4, <1>5, SucceededOK
<1> QED
  BY <1>2, <1>6, OneCallChanges

(* Goes(p, stage) for the stages it is used with. *)
LEMMA GoesIs ==
    ASSUME CallsOK, NEW p \in Callers, NEW stage, Goes(p, stage)
    PROVE  /\ stage = "idle" => calls' = [calls EXCEPT ![p] = Success(calls[p], Outcome(p))]
           /\ stage # "idle" => calls' = [calls EXCEPT ![p] = [calls[p] EXCEPT !.pc = stage]]
  BY DEF Goes, CallsOK

LEMMA MissKeeps ==
    ASSUME CallsOK, NEW p \in Callers, CacheMiss(p)
    PROVE  CallsOK'
<1>1. CallOK(calls[p]) /\ calls[p].pc = "cache"
  BY DEF CallsOK, CacheMiss, At
<1>2. CallOK([calls[p] EXCEPT !.pc = "probe"])
  BY <1>1, ProbesOK
<1>3. calls' = [calls EXCEPT ![p] = [calls[p] EXCEPT !.pc = "probe"]]
  BY GoesIs DEF CacheMiss
<1> QED
  BY <1>2, <1>3, OneCallChanges

(* A stream that is over, or an answer that is stored, is recorded or      *)
(* returned.                                                               *)
LEMMA EndsKeeps ==
    ASSUME CallsOK, NEW p \in Callers, Goes(p, AfterStore),
           \/ calls[p].pc \in {"probe", "streaming"} /\ Streams(p)
           \/ calls[p].pc = "store"
    PROVE  CallsOK'
<1>1. CallOK(calls[p]) /\ calls[p] \in CallRecord
  BY DEF CallsOK
<1>2. CASE AfterStore = "record"
  <2>1. CallOK([calls[p] EXCEPT !.pc = "record"])
    BY <1>1, RecordsOK DEF Streams
  <2> QED
    BY <1>2, <2>1, GoesIs, OneCallChanges
<1>3. CASE AfterStore = "idle"
  <2>1. calls[p].owed = 0 /\ Outcome(p) \in {"ok", "cached", "streamed"}
    BY <1>1 DEF CallOK, OwedFits, Outcome
  <2>2. Outcome(p) # "streamed" =>
           /\ ResponseKey(calls[p].response) = CacheKey(calls[p].model, calls[p].request.messages)
           /\ IsGated => ~ calls[p].response.degraded
    BY <1>1 DEF CallOK, GateFits, KeyFits, HasAnswer, Outcome
  <2>3. CallOK(Success(calls[p], Outcome(p)))
    BY <1>1, <2>1, <2>2, SucceededOK
  <2> QED
    BY <1>3, <2>3, GoesIs, OneCallChanges
<1> QED
  BY <1>2, <1>3 DEF AfterStore

LEMMA SignKeeps ==
    ASSUME CallsOK, NEW p \in Callers, Sign(p)
    PROVE  CallsOK'
<1> DEFINE c == calls[p]
           d == [c EXCEPT !.pc = "submit", !.sig = Order(c.offer), !.owed = @ + 1,
                          !.spent = @ + Order(c.offer).amount]
<1>1. CallOK(c) /\ c.pc = "sign" /\ ReachesSigner(c.offer)
  BY DEF CallsOK, Sign, At
<1>2. CallOK(d)
  BY <1>1, SignedOK
<1>3. calls' = [calls EXCEPT ![p] = d]
  BY DEF Sign, CallsOK, CallRecord
<1> QED
  BY <1>2, <1>3, OneCallChanges

LEMMA AnsweredKeeps ==
    ASSUME CallsOK, NEW p \in Callers, NEW degraded \in BOOLEAN,
           ProbeAnswered(p, degraded) \/ SubmitAnswered(p, degraded)
    PROVE  CallsOK'
<1> DEFINE c == calls[p]
           d == [c EXCEPT !.pc = "quality", !.sig = NoOrder, !.offer = NoOffer, !.owed = 0,
                          !.response = [model |-> c.model, messages |-> c.request.messages,
                                        degraded |-> degraded]]
<1>1. /\ CallOK(c) /\ c.pc \in {"probe", "submit"} /\ c.request.kind # "stream"
      /\ Answered(p, degraded)
  BY DEF CallsOK, ProbeAnswered, SubmitAnswered, At, Streams
<1>2. CallOK(d)
  BY <1>1, AnsweredOK
<1>3. calls' = [calls EXCEPT ![p] = d]
  BY <1>1 DEF Answered, CallsOK, CallRecord, Messages
<1> QED
  BY <1>2, <1>3, OneCallChanges

LEMMA StreamKeeps ==
    ASSUME CallsOK, NEW p \in Callers,
           StreamReplayed(p) \/ StreamOpened(p) \/ StreamEnds(p) \/ StreamCut(p)
    PROVE  CallsOK'
<1> DEFINE c == calls[p]
           d == [c EXCEPT !.pc = "streaming", !.sig = NoOrder, !.offer = NoOffer, !.owed = 0]
<1>1. CallOK(c)
  BY DEF CallsOK
<1>2. CASE StreamReplayed(p) \/ StreamEnds(p)
  BY <1>1, <1>2, EndsKeeps DEF StreamReplayed, StreamEnds, At, CallOK, KindFits, Streams
<1>3. CASE StreamOpened(p)
  <2>1. CallOK(d)
    BY <1>1, <1>3, StreamingOK DEF StreamOpened, At, Streams
  <2>2. calls' = [calls EXCEPT ![p] = d]
    BY <1>3 DEF StreamOpened, CallsOK, CallRecord
  <2> QED
    BY <2>1, <2>2, OneCallChanges
<1>4. CASE StreamCut(p)
  BY <1>4, FailsKeeps DEF StreamCut, At
<1> QED
  BY <1>2, <1>3, <1>4

LEMMA ErrorsKeep ==
    ASSUME CallsOK, NEW p \in Callers,
           \/ SignFails(p) \/ SendFails(p) \/ QualityExhausted(p)
           \/ \E pr \in Offers : SubmitRejected(p, pr)
    PROVE  CallsOK'
<1>1. CASE SignFails(p)
  BY <1>1, FailsKeeps DEF SignFails, At
<1>2. CASE SendFails(p)
  BY <1>2, FailsKeeps DEF SendFails, At
<1>3. CASE QualityExhausted(p)
  BY <1>3, FailsKeeps DEF QualityExhausted, At
<1>4. CASE \E pr \in Offers : SubmitRejected(p, pr)
  BY <1>4, FailsKeeps DEF SubmitRejected, At
<1> QED
  BY <1>1, <1>2, <1>3, <1>4

LEMMA QualityKeeps ==
    ASSUME CallsOK, NEW p \in Callers, QualityPasses(p) \/ QualityRetry(p)
    PROVE  CallsOK'
<1>1. CallOK(calls[p]) /\ calls[p].pc = "quality" /\ calls[p] \in CallRecord
  BY DEF CallsOK, QualityPasses, QualityRetry, At
<1>2. CASE QualityPasses(p)
  <2>1. IsGated => ~ calls[p].response.degraded
    <3>1. IsGated => calls[p].attempt <= MaxQualityRetries
      BY <1>1 DEF CallOK, SpentFits, IsGated
    <3> QED
      BY <1>2, <3>1 DEF QualityPasses, Degraded, IsGated
  <2>2. CASE AfterQuality \in {"store", "record"}
    <3>1. CallOK([calls[p] EXCEPT !.pc = AfterQuality])
      BY <1>1, <2>1, <2>2, PassedOK
    <3>2. Goes(p, AfterQuality)
      BY <1>2 DEF QualityPasses
    <3> QED
      BY <2>2, <3>1, <3>2, GoesIs, OneCallChanges
  <2>3. CASE AfterQuality = "idle"
    <3>1. calls[p].owed = 0 /\ Outcome(p) \in {"ok", "cached", "streamed"}
      BY <1>1 DEF CallOK, OwedFits, Outcome
    <3>2. ResponseKey(calls[p].response) = CacheKey(calls[p].model, calls[p].request.messages)
      BY <1>1 DEF CallOK, KeyFits, HasAnswer
    <3>3. CallOK(Success(calls[p], Outcome(p)))
      BY <1>1, <2>1, <3>1, <3>2, SucceededOK
    <3>4. Goes(p, AfterQuality)
      BY <1>2 DEF QualityPasses
    <3> QED
      BY <2>3, <3>3, <3>4, GoesIs, OneCallChanges
  <2> QED
    BY <2>2, <2>3 DEF AfterQuality, AfterStore
<1>3. CASE QualityRetry(p)
  <2>1. CallOK([calls[p] EXCEPT !.pc = "probe", !.attempt = @ + 1])
    BY <1>1, <1>3, RetriedOK DEF QualityRetry, Degraded
  <2>2. calls' = [calls EXCEPT ![p] = [calls[p] EXCEPT !.pc = "probe", !.attempt = @ + 1]]
    BY <1>3 DEF QualityRetry, CallsOK, CallRecord
  <2> QED
    BY <2>1, <2>2, OneCallChanges
<1> QED
  BY <1>2, <1>3

LEMMA StoreKeeps ==
    ASSUME CallsOK, NEW p \in Callers, CacheStore(p)
    PROVE  CallsOK'
  BY EndsKeeps DEF CacheStore, At

LEMMA RecordKeeps ==
    ASSUME CallsOK, NEW p \in Callers, SessionRecord(p)
    PROVE  CallsOK'
<1>1. CallOK(calls[p]) /\ calls[p].pc = "record" /\ calls[p] \in CallRecord
  BY DEF CallsOK, SessionRecord, At
<1>2. calls[p].owed = 0
  BY <1>1 DEF CallOK, OwedFits
<1>3. /\ Outcome(p) \in {"ok", "cached", "streamed"}
      /\ Outcome(p) # "streamed" =>
            /\ ResponseKey(calls[p].response) = CacheKey(calls[p].model, calls[p].request.messages)
            /\ IsGated => ~ calls[p].response.degraded
  BY <1>1 DEF CallOK, KeyFits, GateFits, HasAnswer, Outcome, Streams
<1>4. CallOK(Success(calls[p], Outcome(p)))
  BY <1>1, <1>2, <1>3, SucceededOK
<1>5. calls' = [calls EXCEPT ![p] = Success(calls[p], Outcome(p))]
  BY DEF SessionRecord, Goes, CallsOK
<1> QED
  BY <1>4, <1>5, OneCallChanges
=============================================================================
