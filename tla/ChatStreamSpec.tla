--------------------------- MODULE ChatStreamSpec ---------------------------
(***************************************************************************)
(* Properties of a streaming call.                                         *)
(*                                                                         *)
(* Fairness: every goroutine runs on when it can.  The exchanges and the   *)
(* scan of the body end because http.Client has a Timeout, which covers    *)
(* the reading of the body (NewTransport).  A consumer that has not left   *)
(* takes what is offered; nothing makes it stay, or cancel.                *)
(***************************************************************************)
EXTENDS ChatStream

FairSpec ==
    /\ Spec
    /\ WF_streamVars(Handshake)
    /\ WF_streamVars(Reader)
    /\ WF_streamVars(Relay)
    /\ WF_streamVars(Drainer)
    /\ WF_streamVars(Consumer)

(* A goroutine holds one item at most, and only while it hands it over.    *)
Items == {Chunk(n) : n \in 1 .. MaxLines} \cup {Err}
Holding(stage) == [pc : {stage}, held : {<<item>> : item \in Items}]
Free(stages) == [pc : stages, held : {<<>>}]

TypeOK ==
    /\ call.pc \in {"idle", "probe", "sign", "open", "replay", "streaming", "failed"}
    /\ call.offer \in Offers \cup {NoOffer}
    /\ cancelled \in BOOLEAN
    /\ reader \in Free({"none", "scan", "done"}) \cup Holding("send")
    /\ relay \in Free({"none", "receive", "done"}) \cup Holding("deliver")
    /\ drainer \in {"none", "draining", "done"}
    /\ consumer \in {"waiting", "reading", "left", "finished"}
    /\ received \in Seq(Items)
    /\ recorded \in Nat
    /\ scanned \in Seq(Items)
    /\ lines \in 0 .. MaxLines

(* Through two goroutines and two channels the items keep their order and  *)
(* none is lost or doubled; only a cancellation may cut the tail off.      *)
InTransit == relay.held \o reader.held

DeliversInOrder ==
    /\ IsPrefix(received, scanned)
    /\ At("streaming") /\ ~ cancelled => received \o InTransit = scanned

(* A consumer that sees its channel closed, and whose context is live, has *)
(* been given everything; a body that broke off or did not parse has told  *)
(* it so by a last error item (comment of SendChatStream: truncated        *)
(* streams are not mistaken for clean closes).                             *)
FinishedStreamsAreWhole ==
    consumer = "finished" /\ ~ cancelled =>
        /\ received = scanned
        /\ ending \in {"malformed", "broken"} <=> Contains(received, Err)

(* The session is recorded once at most, and not while the relay has or    *)
(* may still get something to deliver; a stream that ended well under a    *)
(* live context has been recorded.                                         *)
RecordedAtTheEnd ==
    /\ recorded <= 1
    /\ recorded = 1 /\ ~ At("replay") => reader.pc = "done" /\ relay.pc = "done"
    /\ EnableSessions /\ consumer = "finished" /\ ~ cancelled /\ ending \in {"done", "eof"} =>
          recorded = 1

(* The streaming call keeps the promise of PaymentContract to the wallet:  *)
(* one signature for the quote of its probe, used for one request.         *)
StageOf ==
    CASE At("probe") -> "open"
      [] At("sign") -> "quoted"
      [] At("open") -> "signed"
      [] OTHER -> "closed"

Wallet == INSTANCE PaymentContract WITH
    stage <- StageOf, quote <- call.offer, signed <- call.sig,
    Quotes <- Offers, NoQuote <- NoOffer

StreamHonoursContract == Wallet!Spec

(* To the consumer the two goroutines and their channels are one channel   *)
(* that holds two items: one in the hands of each.                         *)
Channel == INSTANCE StreamContract WITH
    put <- scanned, taken <- received, closed <- consumer = "finished", Ahead <- 2

ActsAsOneChannel == Channel!Spec

(* No goroutine stays behind once the context is cancelled or the consumer *)
(* has seen the end, whatever each was waiting for at that moment.         *)
Quiet == reader.pc = "done" /\ relay.pc = "done" /\ drainer # "draining"

GoroutinesEnd ==
    At("streaming") /\ (cancelled \/ consumer = "finished") ~> Quiet

(* How far the goroutines are from their end when the context is done. *)
StepsToQuiet ==
    (CASE reader.pc = "send" -> 3 [] reader.pc = "scan" -> 1 [] OTHER -> 0)
    + (CASE relay.pc = "deliver" -> 3 [] relay.pc = "receive" -> 2 [] OTHER -> 0)
    + (IF drainer = "draining" THEN 1 ELSE 0)

(* From the moment the context is done the goroutines take six steps at    *)
(* most, however long the body still is and whatever the consumer does:    *)
(* the reader does not scan on, and what it still hands over, to the relay *)
(* or to the drainer, brings all of them nearer their end.                 *)
WindsDown ==
    /\ [](At("streaming") /\ StreamDone =>
            StepsToQuiet \in 0 .. 6 /\ (StepsToQuiet = 0 <=> Quiet))
    /\ [][At("streaming") /\ StreamDone /\ goroutines' # goroutines =>
            StepsToQuiet' < StepsToQuiet]_streamVars

(* A consumer that keeps reading reaches the end of the stream.            *)
ReadersFinish == consumer = "reading" ~> consumer # "reading"

-----------------------------------------------------------------------------
(* What the repository says of its code and the code does not do. *)

(* client.go: the comments of ChatStream say that the goroutines do not    *)
(* leak when "the consumer abandons wrappedCh before the stream            *)
(* completes".  A consumer that just stops reading leaves the relay        *)
(* blocked on its send, and with it the reader.                            *)
AbandonedStreamsEnd == At("streaming") /\ consumer = "left" ~> Quiet

(* session.go: RecordRequest is "invoked once per successful request from  *)
(* the client".  The relay records every stream whose channel was closed,  *)
(* the broken ones included.                                               *)
RecordedStreamsSucceeded ==
    recorded > 0 /\ At("streaming") /\ ~ cancelled => ending \in {"done", "eof"}
=============================================================================
