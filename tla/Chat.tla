-------------------------------- MODULE Chat --------------------------------
(***************************************************************************)
(* SolvelaClient: concurrent calls of Chat and ChatStream on one client,   *)
(* which share its response cache, its session store and the balance the   *)
(* monitor reports, talk to the gateway and pay it.                        *)
(*                                                                         *)
(* A call is a goroutine running Chat, or ChatStream and the relay it      *)
(* leaves running; what happens to the chunks is the module ChatStream,    *)
(* here a stream ends or is cut short by a cancellation.  Between two of   *)
(* its steps any other call, the balance monitor or the clock may move:    *)
(* the locks of the cache and of the store are held only inside one step.  *)
(* The local variables of the goroutine are the fields of calls[p].        *)
(*                                                                         *)
(* The gateway and the signer are external: every answer the code tells    *)
(* apart may come, and any exchange may fail, be cancelled or time out.    *)
(***************************************************************************)
EXTENDS Payment, SequencesExt

CONSTANTS
    Callers,            \* goroutines that call the client
    Kinds,              \* what they call: "chat", "stream" or both
    Conversations,      \* request.Messages: sequences of [role, content]
    Models,             \* model names, strings
    FreeFallbackModel,  \* config.FreeFallbackModel, or NoModel
    NoModel,            \* the empty string
    EnableCache, EnableSessions, EnableQualityCheck,
    MaxQualityRetries,  \* any int: the option does not check it
    Offers,             \* the bodies of 402 answers the gateway may send
    NoOffer,            \* no 402 has been received
    CallBudget,         \* bound of the model: calls ever started
    CacheSize, CacheTTL, DedupWindow, CacheAgeBound, NoEntry,
    SessionTTL, SessionAgeBound, NoSession

Requests == [kind : Kinds, model : Models, messages : Conversations]

(* CacheKey hashes the bytes of the model and then of every role and       *)
(* content, one after the other with nothing between them, so what is      *)
(* hashed is one text.  The hash is taken to be injective; the name and    *)
(* the tool calls of a message are not hashed, and left out.               *)
CacheKey(model, messages) ==
    FoldLeft(LAMBDA text, message : text \o message.role \o message.content,
             model, messages)

(* DeriveSessionIDWithSalt hashes the salt of the client, the number of    *)
(* messages in eight bytes and the first message.                          *)
SessionID(messages) ==
    <<Len(messages),
      IF messages = <<>> THEN "" ELSE Head(messages).role \o Head(messages).content>>

(* What the gateway may answer to a request.  degraded stands for a body   *)
(* without choices or one CheckDegraded finds fault with.                  *)
Response == [model : Models, messages : Conversations, degraded : BOOLEAN]

CacheKeys == {CacheKey(r.model, r.messages) : r \in Requests}
SessionIDs == {SessionID(c) : c \in Conversations}

ASSUME ChatAssumption ==
    /\ Kinds \subseteq {"chat", "stream"}
    /\ EnableCache \in BOOLEAN
    /\ EnableSessions \in BOOLEAN
    /\ EnableQualityCheck \in BOOLEAN
    /\ MaxQualityRetries \in Int
    /\ CallBudget \in Nat
    /\ NoModel \notin Models
    /\ FreeFallbackModel \in Models \cup {NoModel}
    /\ NoOffer \notin Offers
    /\ \A pr \in Offers : pr.accepts \in Seq(Range(pr.accepts))
    /\ CacheAgeBound \in Nat
    /\ SessionAgeBound \in Nat

ASSUME CallersAssumption == IsFiniteSet(Callers)

(* What the cache and the store assume of their constants: ages end beyond *)
(* whatever they are compared with, and nothing in a map is mistaken for   *)
(* nothing.                                                                *)
ASSUME PartsAssumption ==
    /\ CacheSize \in Int
    /\ CacheTTL \in Int
    /\ DedupWindow \in Int
    /\ CacheAgeBound > CacheTTL
    /\ CacheAgeBound >= DedupWindow
    /\ NoEntry \notin [response : Response, age : 0 .. CacheAgeBound]
    /\ SessionTTL \in Int
    /\ SessionAgeBound > SessionTTL
    /\ NoSession \notin [model : Models, age : 0 .. SessionAgeBound,
                         recentHashes : Seq(CacheKeys), escalated : BOOLEAN]
    /\ NoSession \notin [model : Models, age : 0 .. SessionAgeBound]

VARIABLES
    calls,         \* the goroutines
    callsLeft,     \* calls that may still start
    lastBalance,   \* c.lastBalance: "unset", "zero" or "positive"
    entries, order,\* c.cache
    sessions,      \* c.sessionStore
    opened,        \* history: how many sessions each ID has had
    sent           \* history: which session sent which model to the gateway

chatVars == <<calls, callsLeft, lastBalance, entries, order, sessions, opened, sent>>
cacheState == <<entries, order>>
clientState == <<lastBalance, entries, order, sessions>>

Cache == INSTANCE ResponseCache WITH
    Keys <- CacheKeys, Responses <- Response,
    MaxEntries <- CacheSize, TTL <- CacheTTL, AgeBound <- CacheAgeBound

Store == INSTANCE SessionStore WITH Hashes <- CacheKeys

NoInfo == [Model |-> NoModel, Escalated |-> FALSE]
NoAnswer == [model |-> NoModel, messages |-> <<>>, degraded |-> FALSE]
NoOrder == [amount |-> 0, payTo |-> AnyRecipient]

(* A goroutine that has not called yet.  session, spent and owed are       *)
(* history: the incarnation of the session found, the sum of the amounts   *)
(* signed, and the signatures submitted that no answer was received for,   *)
(* all of this call.                                                       *)
NotCalled ==
    [pc |-> "idle", result |-> "none",
     request |-> [kind |-> "none", model |-> NoModel, messages |-> <<>>],
     guarded |-> FALSE, model |-> NoModel, info |-> NoInfo,
     attempt |-> 0, offer |-> NoOffer, sig |-> NoOrder, response |-> NoAnswer,
     session |-> 0, spent |-> 0, owed |-> 0]

Init ==
    /\ calls = [p \in Callers |-> NotCalled]
    /\ callsLeft = CallBudget
    /\ lastBalance = "unset"
    /\ Cache!CacheInit
    /\ Store!SessionInit
    /\ opened = [id \in SessionIDs |-> 0]
    /\ sent = {}

At(p, stage) == calls[p].pc = stage
Streams(p) == calls[p].request.kind = "stream"
Messages(p) == calls[p].request.messages
KeyOfRequest(p) == CacheKey(calls[p].request.model, Messages(p))

KeyOf(p) == CacheKey(calls[p].model, Messages(p))
IDOf(p) == SessionID(Messages(p))

(* The stages that the configuration switches on; a stream has no cache.   *)
AfterSession(kind) == IF EnableCache /\ kind = "chat" THEN "cache" ELSE "probe"
FirstStage(kind) == IF EnableSessions THEN "session" ELSE AfterSession(kind)
AfterStore == IF EnableSessions THEN "record" ELSE "idle"
AfterQuality == IF EnableCache THEN "store" ELSE AfterStore

(* How the goroutine p moves on.  What a failed call held is forgotten; a  *)
(* successful one leaves what the properties look at.                      *)
Success(call, result) ==
    [NotCalled EXCEPT !.result = result, !.request = call.request,
                      !.model = call.model, !.response = call.response,
                      !.owed = call.owed]
Outcome(p) == IF Streams(p) THEN "streamed" ELSE "ok"
Goes(p, stage) ==
    calls' = [calls EXCEPT ![p] = IF stage = "idle" THEN Success(@, Outcome(p))
                                  ELSE [@ EXCEPT !.pc = stage]]
Fails(p, result) ==
    calls' = [calls EXCEPT ![p] = [NotCalled EXCEPT !.result = result, !.owed = calls[p].owed]]
OnlyMoves == UNCHANGED <<callsLeft, lastBalance, entries, order, sessions, opened, sent>>

-----------------------------------------------------------------------------
(* The entry of both, and step 1, the balance guard. *)

BalanceGuardUnconfigured == lastBalance = "zero"

BalanceGuard == lastBalance = "zero" /\ FreeFallbackModel # NoModel

Begin(p, r) ==
    /\ At(p, "idle")
    /\ callsLeft > 0
    /\ callsLeft' = callsLeft - 1
    /\ calls' = [calls EXCEPT ![p] =
                   [NotCalled EXCEPT
                      !.pc = FirstStage(r.kind),
                      !.request = r,
                      !.guarded = BalanceGuard,
                      !.model = IF BalanceGuard THEN FreeFallbackModel ELSE r.model]]
    /\ UNCHANGED <<lastBalance, entries, order, sessions, opened, sent>>

(* Step 2, session lookup: the model of the session replaces the one of    *)
(* the request, unless the guard has set another one.                      *)
NotOverridden(p) == calls[p].model = calls[p].request.model

SessionLookupKeepingRequest(p) ==
    /\ At(p, "session")
    /\ \E info \in Store!Info :
         /\ Store!GetOrCreate(IDOf(p), calls[p].model, info)
         /\ opened' = IF sessions' = sessions THEN opened
                      ELSE [opened EXCEPT ![IDOf(p)] = @ + 1]
         /\ calls' = [calls EXCEPT
                        ![p].pc = AfterSession(calls[p].request.kind),
                        ![p].info = info,
                        ![p].session = opened'[IDOf(p)]]
    /\ UNCHANGED <<callsLeft, lastBalance, entries, order, sent>>

SessionLookup(p) ==
    /\ At(p, "session")
    /\ \E info \in Store!Info :
         /\ Store!GetOrCreate(IDOf(p), calls[p].model, info)
         /\ opened' = IF sessions' = sessions THEN opened
                      ELSE [opened EXCEPT ![IDOf(p)] = @ + 1]
         /\ calls' = [calls EXCEPT
                        ![p].pc = AfterSession(calls[p].request.kind),
                        ![p].info = info,
                        ![p].session = opened'[IDOf(p)],
                        ![p].model = IF NotOverridden(p) THEN info.Model ELSE @]
    /\ UNCHANGED <<callsLeft, lastBalance, entries, order, sent>>

(* Step 3, cache check: a hit ends the call. *)
CacheHit(p) ==
    /\ At(p, "cache")
    /\ \E r \in Response :
         /\ Cache!GetHit(KeyOf(p), r)
         /\ calls' = [calls EXCEPT ![p] = Success([@ EXCEPT !.response = r], "cached")]
    /\ UNCHANGED <<callsLeft, lastBalance, sessions, opened, sent>>

CacheMiss(p) ==
    /\ At(p, "cache")
    /\ Cache!GetMiss(KeyOf(p))
    /\ Goes(p, "probe")
    /\ UNCHANGED <<callsLeft, lastBalance, sessions, opened, sent>>

-----------------------------------------------------------------------------
(* Step 4, sendWithPayment: an unsigned request, and when the gateway asks *)
(* for payment one signed request more.                                    *)

(* The session of p sends its model; a call the guard moved to another     *)
(* model is not the session's.                                             *)
Sends(p) ==
    sent' = IF EnableSessions /\ ~ calls[p].guarded
            THEN sent \cup {[id |-> IDOf(p), session |-> calls[p].session,
                             model |-> calls[p].model]}
            ELSE sent

Answered(p, degraded) ==
    calls' = [calls EXCEPT
                ![p].pc = "quality",
                ![p].sig = NoOrder,
                ![p].offer = NoOffer,
                ![p].owed = 0,
                ![p].response = [model |-> calls[p].model, messages |-> Messages(p),
                                 degraded |-> degraded]]

ProbeAnswered(p, degraded) ==
    /\ At(p, "probe")
    /\ ~ Streams(p)
    /\ Answered(p, degraded)
    /\ Sends(p)
    /\ UNCHANGED <<callsLeft, clientState, opened>>

(* The probe of a stream is answered in full: the answer is replayed.      *)
StreamReplayedRecording(p) ==
    /\ At(p, "probe")
    /\ Streams(p)
    /\ Store!RecordRequest(IDOf(p), KeyOf(p))
    /\ Goes(p, AfterStore)
    /\ Sends(p)
    /\ UNCHANGED <<callsLeft, lastBalance, entries, order, opened>>

StreamReplayed(p) ==
    /\ At(p, "probe")
    /\ Streams(p)
    /\ Goes(p, AfterStore)
    /\ Sends(p)
    /\ UNCHANGED <<callsLeft, clientState, opened>>

ProbePriced(p, pr) ==
    /\ At(p, "probe")
    /\ ParsesAsPaymentRequired(pr)
    /\ calls' = [calls EXCEPT ![p].pc = "sign", ![p].offer = pr]
    /\ Sends(p)
    /\ UNCHANGED <<callsLeft, clientState, opened>>

(* signPaymentRequired fails: a check does, or the signer. *)
SignFails(p) ==
    /\ At(p, "sign")
    /\ Fails(p, "refused")
    /\ OnlyMoves

Sign(p) ==
    /\ At(p, "sign")
    /\ ReachesSigner(calls[p].offer)
    /\ calls' = [calls EXCEPT
                   ![p].pc = "submit",
                   ![p].sig = Order(calls[p].offer),
                   ![p].owed = @ + 1,
                   ![p].spent = @ + Order(calls[p].offer).amount]
    /\ OnlyMoves

SubmitAnswered(p, degraded) ==
    /\ At(p, "submit")
    /\ ~ Streams(p)
    /\ Answered(p, degraded)
    /\ OnlyMoves

(* SendChatStream gets a 200: the relay takes over. *)
StreamOpened(p) ==
    /\ At(p, "submit")
    /\ Streams(p)
    /\ calls' = [calls EXCEPT ![p].pc = "streaming", ![p].sig = NoOrder,
                             ![p].offer = NoOffer, ![p].owed = 0]
    /\ OnlyMoves

(* The reader closed its channel; the relay goes on to record.             *)
StreamEnds(p) ==
    /\ At(p, "streaming")
    /\ Goes(p, AfterStore)
    /\ OnlyMoves

(* The relay sees the cancellation first.                                  *)
StreamCut(p) ==
    /\ At(p, "streaming")
    /\ Fails(p, "cut")
    /\ OnlyMoves

(* A second 402, whatever it asks for, is a PaymentRejectedError, and for  *)
(* a stream a PaymentRequiredError.                                        *)
SubmitRejectedRetrying(p, pr) ==
    /\ At(p, "submit")
    /\ ParsesAsPaymentRequired(pr)
    /\ calls' = [calls EXCEPT ![p].pc = "sign", ![p].offer = pr]
    /\ OnlyMoves

SubmitRejected(p, pr) ==
    /\ At(p, "submit")
    /\ ParsesAsPaymentRequired(pr)
    /\ Fails(p, "rejected")
    /\ OnlyMoves

(* Either request fails: no connection, a cancelled context, a time-out    *)
(* before or after the gateway acted, another status, or a body that does  *)
(* not parse.                                                              *)
SendFailsResending(p) ==
    /\ At(p, "probe") \/ At(p, "submit")
    /\ IF At(p, "submit")
       THEN calls' = [calls EXCEPT ![p].pc = "probe", ![p].sig = NoOrder, ![p].offer = NoOffer]
       ELSE Fails(p, "failed")
    /\ OnlyMoves

SendFails(p) ==
    /\ At(p, "probe") \/ At(p, "submit")
    /\ Fails(p, "failed")
    /\ OnlyMoves

-----------------------------------------------------------------------------
(* Step 5, quality check and retries; attempt is the loop counter. *)

Degraded(p) ==
    /\ EnableQualityCheck
    /\ calls[p].attempt <= MaxQualityRetries
    /\ calls[p].response.degraded

QualityPasses(p) ==
    /\ At(p, "quality")
    /\ ~ Degraded(p)
    /\ Goes(p, AfterQuality)
    /\ OnlyMoves

QualityExhaustedKeeps(p) ==
    /\ At(p, "quality")
    /\ Degraded(p)
    /\ calls[p].attempt = MaxQualityRetries
    /\ Goes(p, AfterQuality)
    /\ OnlyMoves

QualityExhaustedDropping(p) ==
    /\ At(p, "quality")
    /\ Degraded(p)
    /\ calls[p].attempt = MaxQualityRetries
    /\ Fails(p, "failed")
    /\ OnlyMoves

QualityExhausted(p) ==
    /\ At(p, "quality")
    /\ Degraded(p)
    /\ calls[p].attempt = MaxQualityRetries
    /\ Fails(p, "degraded")
    /\ OnlyMoves

QualityRetryUncounted(p) ==
    /\ At(p, "quality")
    /\ Degraded(p)
    /\ calls[p].attempt < MaxQualityRetries
    /\ Goes(p, "probe")
    /\ OnlyMoves

QualityRetry(p) ==
    /\ At(p, "quality")
    /\ Degraded(p)
    /\ calls[p].attempt < MaxQualityRetries
    /\ calls' = [calls EXCEPT ![p].pc = "probe", ![p].attempt = @ + 1]
    /\ OnlyMoves

(* Step 6, cache store. *)
CacheStore(p) ==
    /\ At(p, "store")
    /\ \/ Cache!PutIgnored(KeyOf(p))
       \/ Cache!PutStored(KeyOf(p), calls[p].response)
    /\ Goes(p, AfterStore)
    /\ UNCHANGED <<callsLeft, lastBalance, sessions, opened, sent>>

(* Step 7, session update, and the return. *)
SessionRecord(p) ==
    /\ At(p, "record")
    /\ Store!RecordRequest(IDOf(p), KeyOf(p))
    /\ Goes(p, "idle")
    /\ UNCHANGED <<callsLeft, lastBalance, entries, order, opened, sent>>

-----------------------------------------------------------------------------

(* The balance monitor reports a poll through setLastBalance. *)
BalancePoll(b) ==
    /\ lastBalance' = b
    /\ UNCHANGED <<calls, callsLeft, entries, order, sessions, opened, sent>>

(* The clock: everything the client stores grows older. *)
Tick ==
    /\ Cache!CacheTick
    /\ Store!SessionTick
    /\ UNCHANGED <<calls, callsLeft, lastBalance, opened, sent>>

(* What the goroutine p does once it has called. *)
Continue(p) ==
    \/ SessionLookup(p)
    \/ CacheHit(p) \/ CacheMiss(p)
    \/ \E degraded \in BOOLEAN : ProbeAnswered(p, degraded) \/ SubmitAnswered(p, degraded)
    \/ \E pr \in Offers : ProbePriced(p, pr) \/ SubmitRejected(p, pr)
    \/ StreamReplayed(p) \/ StreamOpened(p) \/ StreamEnds(p) \/ StreamCut(p)
    \/ SignFails(p) \/ Sign(p) \/ SendFails(p)
    \/ QualityPasses(p) \/ QualityExhausted(p) \/ QualityRetry(p)
    \/ CacheStore(p)
    \/ SessionRecord(p)

Next ==
    \/ \E p \in Callers, r \in Requests : Begin(p, r)
    \/ \E p \in Callers : Continue(p)
    \/ \E b \in {"zero", "positive"} : BalancePoll(b)
    \/ Tick

Spec == Init /\ [][Next]_chatVars
=============================================================================
