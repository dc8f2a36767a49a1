# A TLA+ verification project for solvela-go

solvela-go is a client SDK: `SolvelaClient.Chat` sends a chat request to a
gateway, pays for it over x402 when the gateway asks, and keeps a response
cache, a session store and a copy of the wallet balance while many goroutines
call it at once. This project models that core, checks it with TLC on small
instances, and proves the properties of its stateful parts with TLAPS for every
instance.

## 1. Inventory

| Part (source) | State | Operations | What must be right |
|---|---|---|---|
| Response cache (`cache.go`) | `entries` map, `order` slice | `Get`, `Put` | map and slice agree, capacity, LRU eviction, freshness, dedup window |
| Session store (`session.go`) | `sessions` map | `GetOrCreate`, `RecordRequest`, `CleanupExpired` | a live session keeps its model and its hashes; three equal hashes escalate |
| Chat (`client.go` 126-214) | locals of each call | guard, session, cache, send, quality, store, record | one model per session, cached answers belong to their key, degraded answers are not kept, the call returns |
| Payment (`client.go` 351-380, 453-584; scheme check in `types.go`) | the signature in flight | validate, sign, submit | only acceptable quotes are signed, once each, under the cap |
| Balance monitor (`balance.go`) | `balance`, `wasLow`, `stopped`, pollers | `Start`, `Stop`, the poll loop | one alarm per crossing, the client's copy follows, Stop stops |
| ChatStream (`client.go` 226-328, 398-451) and `SendChatStream` (`transport.go`) | two goroutines, two channels | handshake, relay, cancel | no lost chunk, no goroutine left behind, session recorded once |
| SendChat, FetchModels (`transport.go`) | none | one HTTP exchange | 200, 402 and the rest are told apart |
| Quality check (`quality.go`) | none | `CheckDegraded` | loops are found, at the shortest length too, and longer texts hide nothing |
| Configuration (`config.go`, `constants.go`, `NewClient`) | `ClientConfig` | options, URL check | cache, store and monitor exist exactly when asked for |
| Wallet, signer, errors, smoke script | none | key derivation, an interface, wording | - |

How they interact: `Chat` calls the cache and the store, which lock themselves
for one operation; it reads the balance under a lock of its own; the monitor's
goroutine writes that balance through the callback `SetOnPoll` registers;
`ChatStream` looks up and records the same sessions, and reads the same balance;
the gateway is reached by HTTP; the signer is supplied by the user. No lock is held
across two operations, so other calls, a poll or the clock move between any two
steps of a call. What is hard is listed line by line in `PROJECT.json` under
`hazards`: interleaved calls of one session, values read early and used late,
retries that pay again, structures at their capacity, boundaries of the clock,
and the callbacks after the unlock.

## 2. The modules and the code

**ResponseCache** has one action per outcome of an operation: `GetHit`,
`GetMiss`, `PutIgnored`, `PutStored`, and `CacheTick` for the clock. The
eviction loop of `Put` is one operator, `EvictionTurns`: the least number of
turns after which its condition is false. An entry holds its age, which stops
at `AgeBound`: past the TTL and the window the code cannot tell two ages apart.
**ResponseCacheSpec** drives it with any caller and states the properties; its
variables `reply` and `usedAfter` are history. **CacheContract** is what a
caller may rely on: a hit is the last accepted Put of that key and not older
than the TTL; anything may be forgotten.

**SessionStore**, **SessionStoreSpec** and **SessionContract** do the same for
the store. In the contract a session is a lease on a model with a counter per
hash, with neither the list nor the flag the code keeps.

**Payment** holds the pure checks: `ParseAmount`, `FindCompatibleScheme`,
`ValidatePayment`, `ValidateResourceOrigin`, and `ReachesSigner`, their
conjunction in `signPaymentRequired`. An amount is an integer; a text that
`ParseUint` rejects is one outside `1..MaxUint64`, and surrounding space is not
modelled. A resource URL is one of four kinds (empty, of the gateway, foreign,
malformed). **PaymentContract** is what a call promises the wallet.

**Chat** composes them: `Cache == INSTANCE ResponseCache`, `Store == INSTANCE
SessionStore`, and the record `calls[p]` of a goroutine's locals. A call has a
kind, `chat` or `stream`: a call of `ChatStream` takes the same guard, session
lookup, handshake and recording, between the steps of the others, and neither
cache nor quality check. What happens to its chunks is the module ChatStream;
here an open stream is one stage, which the relay leaves to record, or leaves for
good when it sees the cancellation.

| Stage (`calls[p].pc`) | Code | Actions |
|---|---|---|
| `idle` | entry, step 1 | `Begin` |
| `session` | step 2, lines 134-142 | `SessionLookup` |
| `cache` | step 3, lines 144-151 | `CacheHit`, `CacheMiss` |
| `probe` | step 4, `sendWithPayment` 358-365, `resolvePaymentSignature` 398-411 | `ProbeAnswered`, `StreamReplayed`, `ProbePriced`, `SendFails` |
| `sign` | `signPaymentRequired` | `Sign`, `SignFails` |
| `submit` | `sendWithPayment` 372-379, opening in `SendChatStream` | `SubmitAnswered`, `StreamOpened`, `SubmitRejected`, `SendFails` |
| `streaming` | the relay, lines 286-325 | `StreamEnds`, `StreamCut` |
| `quality` | step 5 | `QualityPasses`, `QualityRetry`, `QualityExhausted` |
| `store` | step 6 | `CacheStore` |
| `record` | step 7; lines 266-269 and 307-310 of a stream | `SessionRecord` |

`BalancePoll` is the monitor's callback and `Tick` the clock. A stage the
configuration switches off is skipped (`FirstStage`, `AfterSession`, ...). The
gateway and the signer are external: any answer the code tells apart may come,
and any exchange may fail before or after the gateway acted. `SignFails` is one
action for a check that fails and a signer that does: both end the call with an
error, and which one is not told apart. A hash is taken to be injective, so
`CacheKey` is the text the code feeds to it: the model and then every role and
content, with nothing between them (models and contents are strings). What is not
hashed, the name and tool calls of a message and the options of a request, is left
out of `Requests`. `SessionID` is the number of messages and the text of the first;
the salt is one per client and left out. A response carries the model and the messages it answers and
whether it is degraded. History: `opened`, `sent`, and in `calls[p]` `session`,
`spent` and `owed`, the signatures given to the gateway that no answer
was received for. **ChatSpec** states fairness and properties.

**ChatStream** models one streaming call: the handshake (`call`), the `reader`
goroutine of `SendChatStream`, the `relay` goroutine of `ChatStream`, the
`drainer` a cancelled relay leaves behind, and the `consumer`. The channels are
unbuffered, so a hand-over is one step of both ends, and an item in the hands of
a goroutine is its `held`, a list of at most one. The context of the stream is a
child of the caller's: `StreamDone` is "the caller's is cancelled or the relay
has returned". A select with two ready cases takes either.

| Stage | Code | Actions |
|---|---|---|
| `call.pc`: `probe`, `sign`, `open` | `resolvePaymentSignature`, the status checks of `SendChatStream` | `ProbeAnswered`, `ProbePriced`, `Sign`, `OpenRefused`, `HandshakeFails`, `Opened` |
| `call.pc`: `replay` | `synthesizeStreamFromResponse` | `Replay`, `Finish` |
| `reader.pc`: `scan` | the scan loop and what follows it | `ScanChunk`, `ScanOther`, `ScanMalformed`, `ScanDone`, `ScanEOF`, `ScanBreaks`, `ScanCancelled` |
| `reader.pc`: `send` | `send` | `RelayTakes`, `DrainerTakes`, `SendCancelled` |
| `relay.pc`: `receive`, `deliver` | the two selects | `RelayTakes`, `RelayEnds`, `Deliver`, `RelayCancelled` |

The guard and the session lookup that `ChatStream` begins with are in **Chat**,
where other calls run beside them. **ChatStreamSpec** states
fairness and properties; `scanned` and `ending` are history. **StreamContract** is
what the reader of the returned channel may rely on: one channel with room for two
items, in order, not filled after a cancellation, and closed early only by one.

**BalanceMonitor** has one goroutine per `Start` and splits a poll where the
lock is taken and released: fetch, store, report to the client, alarm, select.
**BalanceMonitorSpec** states its properties. Chat takes of it only that any
balance may be reported at any moment; that the reported balance ends up the right
one is `ClientConverges`.

**Quality** is `CheckDegraded`: the four checks, each an operator, in the order of
the code. A text is the sequence of its words; a word has a name, a size, whether
it ends in a closer and whether it completes a known error phrase. The count the
loop keeps per trigram is the number of positions up to the present one with that
trigram. The state is a text that grows by a word, which makes TLC visit every
text of the instance and "going on" an action to state properties of.

Operators named after a definition with a suffix (`GetHitWithoutTouch`,
`QualityRetryUncounted`, ...) are that definition with a plausible bug; no
specification uses them. They are the mutants of `PROJECT.json`, each of which
must violate its property.

## 3. The runs

| Run | Instance | What it shows |
|---|---|---|
| `cache` | 3 keys, 2 responses, capacity 2, TTL 2, window 1, ages to 3 | `OrderIsResidents`, `WithinCapacity`, `SortedByRecency`, `EvictsLeastRecentlyUsed`, `ImplementsContract` |
| `session` | 2 sessions, 2 models, 2 hashes, 4 recordings per session | `EscalatedByThreeStrikes`, `LiveSessionsKept`, `ImplementsContract` |
| `balance` | 2 pollers, balances 0..2, threshold 1 | `AlarmsAreCrossings`, `ClientFollowsMonitor`, `StopEndsPolling`, `ClientConverges` |
| `chat_shared` | 2 callers of `Chat` or `ChatStream`, 3 calls, 2 models, two conversations with one session ID, one cache entry, fallback model set, quality check without retry | `OneModelPerSession`, `CacheAnswersItsKey`, `StrikesAreFinishedCalls` |
| `chat_payment` | 2 callers, 2 paid calls of either kind, one retry, cache, 15 quotes | `QualityGate`, `SpendBound`, `UnansweredPayments`, `PaymentsHonourContract`, `OnlyRetriesDropAnswers`, `CallsReturn`, `CallsAdvance` |
| `quality` | texts of up to 16 words over 2 of 4 words | `LoopsAreCaught`, `FaultsPersist` |
| `stream` | one stream of at most 4 lines, cancelled or abandoned anywhere | `DeliversInOrder`, `FinishedStreamsAreWhole`, `RecordedAtTheEnd`, `StreamHonoursContract`, `ActsAsOneChannel`, `WindsDown`, `GoroutinesEnd`, `ReadersFinish` |
| `chat_escalation` | one caller, 2 models, identical calls | violated: an escalated session changes nothing |
| `chat_depleted` | one caller, fallback model requested | violated: the guard is bypassed |
| `chat_collision` | one caller, cache on, three conversations that read alike | violated: a call is answered from the cache with the response to another conversation |
| `stream_abandoned` | a stream of at most 2 lines | violated: a consumer that only stops reading leaves two goroutines behind |
| `stream_records` | a stream of at most 2 lines | violated: a broken stream is recorded |

Each property is explained where it is defined.

Bounds, and why they are enough:
- Two callers: every race in `Chat` is between two accesses to one shared
  object, and the other accesses may come from one other call, from the monitor
  or from the clock. Callers do not wait for each other.
- `CallBudget`: 2 or 3 calls in all. Three let one call open a session, one
  find it and a third run after it expired; four are used where three recorded
  calls must come first.
- Three keys with capacity 2 are the smallest cache in which eviction has to
  choose between two keys and a refresh of a full cache evicts a third.
- `RecordBound` 4: one recording past the third strike.
- `CacheAgeBound`, `SessionAgeBound`: one past the longest limit, so each side
  of each boundary, and the boundary, occurs. In `chat_shared` the TTLs are 0: an
  entry or a session serves the tick it was stored in and no later one, which is
  all the calls can tell; longer ones are in `cache` and `session`.
- `MaxWords` 16 and `MaxVocabulary` 2: the check asks for fifteen words, so a loop
  of the shortest length and one that does not start or end the text both occur;
  two words are enough for overlapping trigrams, and nine long ones for the check
  of truncation.
- `MaxUint64` 7 with a cap of 3: amounts below, at and above the cap, and past
  the width of the integer. `QuoteSet` has for every check of the handshake a
  quote that fails only there.
- `MaxQualityRetries` 1: one retry that is judged again, then exhaustion.
- `MaxLines` 4 and at most 4 choices in a replayed answer: three goroutines can
  each have an item (one received, one with the relay, one with the reader)
  while a further line is still to come.
- `SYMMETRY` on callers is used only in `chat_shared`, which checks invariants
  alone, each the same for every caller.

Deadlock is checked in every run but those of the stream and `quality` (a text
stops growing): the clock and the
monitor's callback go on, and `Stop` may be called again. One stream ends, or
never does when it is abandoned, so there `GoroutinesEnd` and `ReadersFinish`
say when everything has to stop.

### Fairness

`FairSpec` asks weak fairness of the steps of a call once it has begun: a
mutex is held for a bounded time, and an exchange ends because the HTTP client
has a timeout (`NewTransport`). That a signer returns is asked of the user, who
supplies it. Nothing forces a call to begin, the gateway to answer well or the
balance to change. An open stream is left out, since its consumer may stop
reading: `CallsReturn` says that `ChatStream` returns, and its relay once the
stream has ended, not that the stream ends. `FairMonitorSpec` asks weak fairness of a poll (the fetcher
returns, the callbacks do not block, as the comment of `SetOnPoll` demands) and
strong fairness of taking the closed stop channel: `select` chooses at random
among ready cases, so a tick cannot win for ever. Weak fairness would not do,
since each poll disables the choice again. `ClientConverges` has as its premise
that polls keep succeeding and bring one balance. `FairSpec` of the stream asks weak
fairness of each goroutine. The scan of a body ends because the `Timeout` of
`http.Client` covers the reading of the body; a consumer that has not left takes
what it is offered. Nothing makes it leave or cancel.

## 4. Where code and repository disagree

- `EscalationSwapsModel` (`client_test.go` 1108): the test's comment says an
  escalated session swaps the outgoing model; `Escalated` is read nowhere in
  `Chat`.
- `DepletedCallsAreFree` (`client_test.go` 284): a call with a zero balance must
  go out under the fallback model; a request that names it takes instead the
  paid model of its session.
- `CachedAnswersFit` (`cache_test.go` 130): the test says "different messages should
  produce different keys". Roles and contents are hashed with nothing between them,
  so `[user "hi", assistant "ool"]`, `[user "hiassistan", tool ""]` and
  `[user "hiassistantool"]` have one key, and the cache answers a call of one with
  the response to another. The second shows that a rule on contents, such as that
  none holds the name of a role, would not do.
- `AbandonedStreamsEnd` (`client.go` 274-278, 289-290): the comments say that
  abandoning the channel frees the goroutines. The cancel they speak of is
  deferred in the relay, which is itself blocked on its send; only cancelling the
  caller's context frees it.
- `RecordedStreamsSucceeded` (`session.go` 44-46): requests are recorded once
  they succeed; the relay also records streams that ended with an error.

Noticed and not run: a cache hit returns before `RecordRequest` (`client.go` 149),
while `client_test.go` 229 says that one call of `Chat` makes exactly one. The comment
on the loop check (`quality.go` 37) says that a trigram that "appears 5+ times" is a
loop, and the code asks for fifteen words as well, so a text of seven equal words
passes; `LoopsAreCaught` says what it finds instead. A known error phrase is found inside longer words too ("has an aim"
holds "as an ai"). A negative `MaxQualityRetries`, which the option accepts, makes
the judging loop run not at all, so a degraded answer is cached and returned, while
`errors.go` 94 says "Degraded responses are never cached"; `QualityGate` is stated
for the other values.

## 5. The proofs

**ResponseCacheProofs**, for every set of keys, capacity, TTL and window. The
inductive invariant `IInv` is `TypeOK /\ OrderIsResidents`; `WithinCapacity` and
`SortedByRecency` are proved on top of it, each step of theirs assuming it. The
capacity is not inductive alone: that the loop's last turn leaves room needs the
order slice to list exactly the residents. The rest is lemmas on the sequence
operators (`RemoveFirst`, `MovedToEnd`, `SubSeq`) and on the least turn of the
loop. From it follow `CacheEvictsLRU`, an action property, and
`CacheImplementsContract`: initial states map to initial states and every step to
a step or a stutter of `CacheContract`.

**SessionStoreProofs**, for every set of sessions, models and hashes and every
TTL. `EscalatedByThreeStrikes` is inductive with `TypeOK`; what needs work is that
the count of the new hash reaches three exactly when three positions are equal,
a fact on cardinalities. The refinement to counters is proved from the same
lemmas.

**BalanceMonitorProofs**, for every number of pollers, set of balances and
threshold. `AlarmsAreCrossings` needs that `wasLow` remembers whether the last
stored balance was low (`WasLowRemembers`); `ClientFollowsMonitor` needs that a
lone poller reports what is stored (`ReportsTheStored`).

**QualityProofs**, for texts of any length over any words. `TextLoopsCaught` counts:
five positions three apart take fifteen words, and make the count at the last of
them five. `TextFaultsPersist` follows because a word at the end changes no count
of an earlier position.

**PaymentProofs** is about the pure checks: the entry `FindCompatibleScheme` picks
is in the list and can be paid (`PicksPayable`), and an order that reaches the signer
names a payable entry, the preferred scheme, an amount within the cap and the
recipient asked for (`SignedOrder`). Both refinements of `PaymentContract` rest on it.

**ChatStreamProofs**, for streams of any length. What is delivered is inductive only
with the goroutines' stages: `StagesAgree` says which stages of the reader, the relay,
the drainer and the consumer go together, `HandshakeAlone` and `ReplayAlone` that
nothing runs before the stream is open or while an answer is replayed, and
`EndingKnown` that the reader knows how the body ended and makes its error item last.
`NothingLost` follows the items: received, then in the relay's hands, then in the
reader's, is what was scanned, as long as the context lives or both goroutines do;
afterwards what is received is still a prefix. `DeliversInOrder`,
`FinishedStreamsAreWhole` and `RecordedAtTheEnd` follow. The refinement adds
`QuoteInHand`: a call that signs holds a quote it received.

`ActsAsOneChannel` maps the goroutines to `StreamContract`: what was scanned went in,
what was received came out. A scan is a `Put`, and that it finds room follows from
`NothingLost` and the stages: at most one item is with the reader and one with the
relay. A hand-over between them is a stutter. `WindsDown` is the part of
`GoroutinesEnd` that is a safety property: once the context is done, a number that is
at most six falls with every step of a goroutine and is zero exactly when all have
ended.

**ChatCallProofs** and **ChatProofs**, for any number of callers, any conversations,
quotes and configuration, any number of retries. A step changes the record of one goroutine,
so the invariant of the calls, `CallOK`, is a condition on one record: what it holds
at each stage (quote, order, response), what it owes (`OwedFits`) and has spent
(`SpentFits`: the cap for each round begun, which is why the number of the round has
to be bounded too), and that a response kept or handed out passed the gate
(`GateFits`) and answers the call's key (`KeyFits`). `ChatCallProofs` proves it step by step. It is not inductive alone: a
cache hit hands out what another call stored, so `CacheOK` (every resident entry
answers its key and passed the gate) goes with it, and `SessionsOK`. Their
conjunction `IInv` yields five safety properties of `ChatSpec`, and by the stages a
call may pass, that every call implements `PaymentContract`. It also yields
`OnlyRetriesDropAnswers`, since `SpentFits` and `OwedFits` say at each stage for
which rounds a call has paid and which payment is unanswered.

`StrikesAreFinishedCalls` counts. `Finished` is the budget less the calls left and
the callers in a call, so the proof needs the callers to be a finite set
(`CallersAssumption`): a call that begins leaves the number alone, one that returns
raises it by one, and only the step that returns a call appends a hash
(`StrikesFit`).

`CallsAdvance` is the part of termination that is a safety property: a number that
every step of a call lowers, and that the retry limit bounds from the start. With
the fairness of `FairSpec` it is the reason `CallsReturn` holds.

`OneModelPerSession` needs an invariant of its own. A goroutine past its lookup
*claims* to be one incarnation of a session with one model, and what was sent was
claimed. `ClaimsAgree` says that claims on one incarnation agree, that none is ahead
of the store, and that one that is up to date names the model the session is pinned
to. The last part is what makes it inductive: a lookup of a live session then agrees
with every claim there is, and one that opens a session has its incarnation to
itself. It also uses that an unguarded call reaches the lookup with the model it was
asked for (`GuardFits`), so that it does take the model it finds.

The last part composes the proofs. `CacheFacts` and `StoreFacts` are instances of
`ResponseCacheProofs` and `SessionStoreProofs` at the variables of `Chat`; those modules
state their inductive steps for one `Operation`, without the history their own
specification adds. `CacheOperations` and `StoreOperations` show that under `IInv`
every step of `Chat` is an operation of the cache and one of the store, or leaves it
alone; the assumptions of the two modules follow from `ChatAssumption` and
`PartsAssumption` (`CacheAssumed`, `StoreAssumed`). So what was proved of each part
holds of the part in the client: `ChatCacheStaysWhole`, `ChatSessionsStayTrue` and
`ChatLiveSessionsKept`. These three are theorems only: a run of theirs would repeat
`cache` and `session`, where any caller may drive the parts. The contracts of the two modules, and the order of recency,
are about what each operation answered and when; `Chat` keeps no such history, so
they are proved of the modules alone.

All rest on the named assumptions on the constants alone, which TLC evaluates
in the runs; among them that `accepts` of a 402 body is a finite list, and that the
bounds of the ages are natural numbers. The inductive invariants were checked by TLC
on the instances of the runs before they were proved.

Checked by TLC only are the liveness properties `CallsReturn`, `StopEndsPolling`,
`ClientConverges`, `GoroutinesEnd` and `ReadersFinish`: liveness under fairness is out
of the prover's reach. What the fold in `CacheKey` yields for a list of any length is
not proved either (it takes an induction over data, which the installed provers
cannot instantiate); the theorems use no property of `CacheKey` and `SessionID`, so
they hold for any hash.

## 6. What is not modelled

- No single flight is asked of `Chat`: two calls that miss the cache at once both
  pay, which no document forbids. Nor is anything asked of the session a diverted
  call creates, which stays pinned to the fallback model, or of the session a late
  hash lands in after the one of its call expired. `Chat` has these steps; the
  hazards in `PROJECT.json` say which properties stop short of them.
- In `Chat` the verdict of the quality check comes with the answer, and a stream is
  one stage; the modules Quality and ChatStream have the detail, and are not
  composed with it (the products are beyond TLC). A text in Quality is words with
  single blanks: other white space, and characters of several bytes, of whose last
  byte the closer test looks at, are not modelled.
- The options are the constants of `Chat`, with every value the setters accept,
  a negative retry count included. `validateGatewayURL` is a check on a string
  before any state exists.
- Wallet derivation (cryptography), error wording, `FetchModels` (one GET and a
  decode), the smoke script. The growth of the session table, which nothing
  cleans up, and the sharing of slices between copies of a cached response are
  below the abstraction.

## 7. Plan

1. Done: cache, session store, their contracts, proofs and runs; payment checks
   and their contract; `Chat` with all three; the balance monitor and its proofs;
   `ChatStream` and its runs.
2. Done since: calls of `ChatStream` beside those of `Chat`, lost payments,
   convergence of the client's balance, `CheckDegraded` with its proofs, and the
   collision of cache keys.
3. Done: the safety properties of `ChatStream` and of `Chat`, and that both implement
   `PaymentContract`.
4. Done: that `Chat` drives the cache and the store by their operations alone, so
   that what is proved of `ResponseCache` and `SessionStore` holds of the cache and
   the store of a client under concurrent calls; that the goroutines of a stream act
   as one channel, and the number each of their steps lowers once it is cancelled.
5. Open: `Chat` with the histories of the two modules, to carry over their contracts
   and the order of recency; a goroutine per stream composed with `Chat`.
