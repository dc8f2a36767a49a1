------------------------------ MODULE ChatSpec ------------------------------
(***************************************************************************)
(* Properties of concurrent calls of Chat and ChatStream.                  *)
(*                                                                         *)
(* Fairness: a goroutine in a call is never blocked for good.  The mutexes *)
(* are held for a bounded time, the quality loop runs on, and an exchange  *)
(* with the gateway ends because http.Client has a Timeout (NewTransport). *)
(* That a Signer returns is asked of whoever supplies one.  Nothing makes  *)
(* a caller call, the gateway answer well, the balance change, or the      *)
(* consumer of a stream read on or cancel, so a stream need not end.       *)
(***************************************************************************)
EXTENDS Chat

FairSpec == Spec /\ \A p \in Callers : WF_chatVars(Continue(p) /\ ~ At(p, "streaming"))

-----------------------------------------------------------------------------

(* The local variables of the goroutines and the shared state are typed.   *)
Stages == {"idle", "session", "cache", "probe", "sign", "submit", "quality",
           "store", "record", "streaming"}

TypeOK ==
    /\ \A p \in Callers :
         /\ calls[p].pc \in Stages
         /\ calls[p].result \in {"none", "ok", "cached", "streamed", "cut", "degraded",
                                "refused", "rejected", "failed"}
         /\ ~ At(p, "idle") => calls[p].request \in Requests /\ calls[p].model \in Models
         /\ calls[p].attempt \in Nat
         /\ calls[p].offer \in Offers \cup {NoOffer}
         /\ calls[p].response \in Response \cup {NoAnswer}
    /\ callsLeft \in 0 .. CallBudget
    /\ lastBalance \in {"unset", "zero", "positive"}
    /\ entries \in [CacheKeys -> Cache!Entry \cup {NoEntry}]
    /\ Range(order) \subseteq CacheKeys
    /\ DOMAIN sessions = SessionIDs

(* With the quality check on, no answer found degraded is kept or handed   *)
(* out as a success, in this call or from the cache in a later one: every  *)
(* retry is judged again before it can be stored.                          *)
Delivered(p) == calls[p].result \in {"ok", "cached"} /\ At(p, "idle")

QualityGate ==
    EnableQualityCheck /\ MaxQualityRetries >= 0 =>
        /\ \A k \in CacheKeys :
              Cache!Resident(k) => ~ entries[k].response.degraded
        /\ \A p \in Callers : Delivered(p) => ~ calls[p].response.degraded

(* A cached answer was given by the gateway to a request with that very    *)
(* key, under the model the call settled on, not the one it asked for; so  *)
(* calls that share the cache never read each other's answers amiss.       *)
ResponseKey(r) == CacheKey(r.model, r.messages)

CacheAnswersItsKey ==
    /\ \A k \in CacheKeys :
          Cache!Resident(k) => ResponseKey(entries[k].response) = k
    /\ \A p \in Callers : Delivered(p) => ResponseKey(calls[p].response) = KeyOf(p)

(* All requests sent on behalf of one incarnation of a session name one    *)
(* model, whoever sends them and whatever each asked for.  Calls the       *)
(* balance guard diverted are not counted.                                 *)
OneModelPerSession ==
    \A a, b \in sent :
        a.id = b.id /\ a.session = b.session => a.model = b.model

(* A session counts calls, not requests: it never holds more strikes than  *)
(* calls have returned, whatever a call sent, retried or found in between, *)
(* and however long ago it looked its session up.  So no session is        *)
(* escalated before three calls have returned (session.go: RecordRequest   *)
(* is invoked once per request).                                           *)
Calling == {p \in Callers : ~ At(p, "idle")}
Finished == CallBudget - callsLeft - Cardinality(Calling)

StrikesAreFinishedCalls ==
    \A id \in SessionIDs :
        Store!Stored(id) => Len(sessions[id].recentHashes) <= Finished

(* The cap holds per payment.  A call pays again for every quality retry,  *)
(* so this is all that can be said of a call.                              *)
SpendBound ==
    LET payments == IF EnableQualityCheck /\ MaxQualityRetries > 0
                    THEN 1 + MaxQualityRetries ELSE 1
    IN  \A p \in Callers :
           calls[p].spent > 0 =>
              MaxPaymentAmount # NoCap /\ calls[p].spent <= payments * MaxPaymentAmount

(* A payment the gateway has been given and has not answered is lost to    *)
(* the caller.  A call loses at most one: it submits none while one is     *)
(* unanswered, and ends with an error as soon as an exchange fails, so     *)
(* that no call that succeeds, or gives up over a check, has lost one.     *)
UnansweredPayments ==
    \A p \in Callers :
        /\ calls[p].owed <= 1
        /\ At(p, "submit") \/ calls[p].result = "rejected" => calls[p].owed = 1
        /\ calls[p].owed = 1 =>
              At(p, "submit") \/ calls[p].result \in {"rejected", "failed"}

(* A call that returns nothing but an error has dropped no answer that was *)
(* paid for, but those a quality retry asked again about: what it spent is *)
(* one payment for each retry, and the one it got no answer to.            *)
GivesUp(p) ==
    /\ ~ At(p, "idle")
    /\ calls'[p].pc = "idle"
    /\ calls'[p].result \in {"refused", "rejected", "failed"}

OnlyRetriesDropAnswers ==
    [][\A p \in Callers :
         GivesUp(p) /\ calls[p].spent > 0 =>
            calls[p].spent <= (calls[p].attempt + calls[p].owed) * MaxPaymentAmount]_chatVars

(* Every call keeps the promise of PaymentContract to the wallet.          *)
StageOf(p) ==
    CASE calls[p].pc \in {"idle", "session", "cache", "quality", "store", "record",
                           "streaming"} -> "closed"
      [] calls[p].pc = "probe" -> "open"
      [] calls[p].pc = "sign" -> "quoted"
      [] calls[p].pc = "submit" -> "signed"

Wallet(p) == INSTANCE PaymentContract WITH
    stage <- StageOf(p), quote <- calls[p].offer, signed <- calls[p].sig,
    Quotes <- Offers, NoQuote <- NoOffer

PaymentsHonourContract ==
    /\ \A p \in Callers : Wallet(p)!Init
    /\ [][\A p \in Callers : [Wallet(p)!Next]_(Wallet(p)!contractVars)]_chatVars

(* Every call returns, with a stream or without: the retry loop is finite  *)
(* and no step waits for another call.                                     *)
Returned(p) == At(p, "idle") \/ At(p, "streaming")

CallsReturn == \A p \in Callers : ~ Returned(p) ~> Returned(p)

(* How far a call is from its return.  A retry goes back three stages, and *)
(* has one retry less to come.                                             *)
StagesLeft(pc) ==
    CASE pc = "session" -> 8
      [] pc = "cache" -> 7
      [] pc = "probe" -> 6
      [] pc = "sign" -> 5
      [] pc = "submit" -> 4
      [] pc \in {"quality", "streaming"} -> 3
      [] pc = "store" -> 2
      [] pc = "record" -> 1
      [] OTHER -> 0

Retries == IF EnableQualityCheck /\ MaxQualityRetries > 0 THEN MaxQualityRetries ELSE 0

StepsLeft(p) ==
    IF At(p, "idle") THEN 0
    ELSE StagesLeft(calls[p].pc) + 4 * (Retries - calls[p].attempt)

(* The length of a call is bounded beforehand: it takes eight steps and    *)
(* four more for each quality retry, whatever the gateway answers and      *)
(* whatever other calls leave in the cache and the sessions, because every *)
(* step brings it nearer its return.                                       *)
CallsAdvance ==
    /\ [](\A p \in Callers : StepsLeft(p) \in 0 .. 8 + 4 * Retries)
    /\ [][\A p \in Callers :
            ~ At(p, "idle") /\ calls'[p] # calls[p] => StepsLeft(p)' < StepsLeft(p)]_chatVars

-----------------------------------------------------------------------------
(* What the repository says of its code and the code does not do. *)

(* client_test.go: TestChatThreeStrikeEscalationViaChat says the escalated *)
(* session "actually swaps the outgoing model on the wire".  Chat reads    *)
(* Escalated and does not use it.                                          *)
InFlight(p) == calls[p].pc \in {"probe", "sign", "submit"}

EscalationSwapsModel ==
    \A p \in Callers :
        InFlight(p) /\ calls[p].info.Escalated
            => calls[p].model # calls[p].request.model

(* client_test.go: TestChatBalanceGuardSubstitutesFreeModel says that with *)
(* a zero balance "the next Chat call must substitute the configured free  *)
(* fallback model".  A request for that very model looks not overridden,   *)
(* and takes the model its session is pinned to.                           *)
DepletedCallsAreFree ==
    \A p \in Callers :
        InFlight(p) /\ calls[p].guarded => calls[p].model = FreeFallbackModel

(* cache_test.go: TestCacheKeyDeterminism says "different messages should  *)
(* produce different keys".  Roles and contents are hashed with nothing    *)
(* between them, so another conversation may have the same key, and the    *)
(* cache then answers one with what the gateway said to the other.         *)
CachedAnswersFit ==
    \A p \in Callers :
        At(p, "idle") /\ calls[p].result = "cached" => calls[p].response.messages = Messages(p)
=============================================================================
