----------------------------- MODULE ChatStream -----------------------------
(***************************************************************************)
(* SolvelaClient.ChatStream: one streaming call, from the handshake to the *)
(* goroutines that carry the chunks.                                       *)
(*                                                                         *)
(* The balance guard and the session lookup are the statements that Chat   *)
(* begins with and are modelled there.  Then a probe settles the payment;  *)
(* if it is answered in full the answer is replayed, else the stream is    *)
(* opened with the signature.  The reader goroutine (SendChatStream) scans *)
(* the body and hands each item over an unbuffered channel to the relay    *)
(* goroutine (ChatStream), which hands it over another one to the          *)
(* consumer; a cancelled relay leaves a drainer behind.                    *)
(*                                                                         *)
(* An item in the hands of a goroutine is its held, a list of at most one. *)
(* The context of the stream is the child of the caller's: cancelled with  *)
(* it, and when the relay returns.                                         *)
(***************************************************************************)
EXTENDS Payment, SequencesExt

CONSTANTS
    EnableSessions,
    Offers, NoOffer,
    MaxLines        \* bound of the model: lines in the body, choices in an answer

ASSUME StreamAssumption ==
    /\ EnableSessions \in BOOLEAN
    /\ MaxLines \in Nat
    /\ NoOffer \notin Offers
    /\ \A pr \in Offers : pr.accepts \in Seq(Range(pr.accepts))

VARIABLES
    call,           \* the goroutine in ChatStream: its stage, the 402, the signature
    cancelled,      \* ctx.Done() of the caller's context
    reader, relay,  \* the two goroutines
    drainer,        \* the goroutine that empties ch after a cancellation
    consumer,       \* the reader of the channel ChatStream returned
    received,       \* what the consumer has been given
    recorded,       \* calls of RecordRequest
    scanned,        \* history: the items made of the body, in order
    ending,         \* how the body ended, "none" while it has not
    lines           \* lines read of the body

streamVars == <<call, cancelled, reader, relay, drainer, consumer, received,
                recorded, scanned, ending, lines>>
goroutines == <<reader, relay, drainer>>
body == <<scanned, ending, lines>>

Chunk(n) == <<"chunk", n>>
Err == <<"err", 0>>

NoOrder == [amount |-> 0, payTo |-> AnyRecipient]
At(stage) == call.pc = stage
Moves(stage) == call' = [pc |-> stage, offer |-> NoOffer, sig |-> NoOrder]

Init ==
    /\ call = [pc |-> "idle", offer |-> NoOffer, sig |-> NoOrder]
    /\ cancelled = FALSE
    /\ reader = [pc |-> "none", held |-> <<>>]
    /\ relay = [pc |-> "none", held |-> <<>>]
    /\ drainer = "none"
    /\ consumer = "waiting"
    /\ received = <<>>
    /\ recorded = 0
    /\ scanned = <<>>
    /\ ending = "none"
    /\ lines = 0

-----------------------------------------------------------------------------
(* The handshake. *)

OnlyHandshakes == UNCHANGED <<cancelled, goroutines, consumer, received, recorded, body>>

Begin ==
    /\ At("idle")
    /\ Moves("probe")
    /\ OnlyHandshakes

(* A full answer: the session is recorded and a closed channel with one    *)
(* chunk per choice, here n of them, is returned.                          *)
ProbeAnswered(n) ==
    /\ At("probe")
    /\ Moves("replay")
    /\ recorded' = IF EnableSessions THEN recorded + 1 ELSE recorded
    /\ scanned' = [i \in 1 .. n |-> Chunk(i)]
    /\ ending' = "done"
    /\ consumer' = "reading"
    /\ UNCHANGED <<cancelled, goroutines, received, lines>>

ProbePriced(pr) ==
    /\ At("probe")
    /\ ParsesAsPaymentRequired(pr)
    /\ call' = [call EXCEPT !.pc = "sign", !.offer = pr]
    /\ OnlyHandshakes

Sign ==
    /\ At("sign")
    /\ ReachesSigner(call.offer)
    /\ call' = [call EXCEPT !.pc = "open", !.sig = Order(call.offer)]
    /\ OnlyHandshakes

OpenRefusedSigningAgain ==
    /\ At("open")
    /\ call' = [call EXCEPT !.pc = "sign", !.sig = NoOrder]
    /\ OnlyHandshakes

(* The stream is refused: a second 402, another status, or no connection. *)
OpenRefused ==
    /\ At("open")
    /\ Moves("failed")
    /\ OnlyHandshakes

(* The probe fails, or a check or the signer does. *)
HandshakeFails ==
    /\ At("probe") \/ At("sign")
    /\ Moves("failed")
    /\ OnlyHandshakes

(* SendChatStream gets a 200 and starts the reader, ChatStream the relay. *)
Opened ==
    /\ At("open")
    /\ Moves("streaming")
    /\ reader' = [reader EXCEPT !.pc = "scan"]
    /\ relay' = [relay EXCEPT !.pc = "receive"]
    /\ consumer' = "reading"
    /\ UNCHANGED <<cancelled, drainer, received, recorded, body>>

-----------------------------------------------------------------------------
(* The reader. *)

StreamDone == cancelled \/ relay.pc = "done"

OnlyReads == UNCHANGED <<call, cancelled, relay, drainer, consumer, received, recorded>>

ScansRegardless ==
    /\ reader.pc = "scan"
    /\ lines < MaxLines
    /\ lines' = lines + 1

(* A line is read, and the context is looked at before it is. *)
Scans ==
    /\ reader.pc = "scan"
    /\ ~ StreamDone
    /\ lines < MaxLines
    /\ lines' = lines + 1

HoldsNext(item) ==
    /\ reader' = [pc |-> "send", held |-> <<item>>]
    /\ scanned' = Append(scanned, item)

ScanChunkAhead ==
    /\ Scans
    /\ reader' = [reader EXCEPT !.held = Append(@, Chunk(lines'))]
    /\ scanned' = Append(scanned, Chunk(lines'))
    /\ UNCHANGED ending
    /\ OnlyReads

ScanChunk ==
    /\ Scans
    /\ HoldsNext(Chunk(lines'))
    /\ UNCHANGED ending
    /\ OnlyReads

(* Blank lines, comments and other fields are skipped. *)
ScanOther ==
    /\ Scans
    /\ UNCHANGED <<reader, scanned, ending>>
    /\ OnlyReads

ScanMalformed ==
    /\ Scans
    /\ HoldsNext(Err)
    /\ ending' = "malformed"
    /\ OnlyReads

ReturnsOpen == reader' = [pc |-> "returned", held |-> <<>>]

(* The reader returns; its deferred calls close ch and the body. *)
Closes == reader' = [pc |-> "done", held |-> <<>>]

ScanDone ==
    /\ Scans
    /\ Closes
    /\ ending' = "done"
    /\ UNCHANGED scanned
    /\ OnlyReads

(* The body ends without [DONE]. *)
ScanEOF ==
    /\ reader.pc = "scan"
    /\ ~ StreamDone
    /\ Closes
    /\ ending' = "eof"
    /\ UNCHANGED <<scanned, lines>>
    /\ OnlyReads

ScanBreaksSilently ==
    /\ reader.pc = "scan"
    /\ ~ StreamDone
    /\ Closes
    /\ ending' = "broken"
    /\ UNCHANGED <<scanned, lines>>
    /\ OnlyReads

(* scanner.Err: a lost connection, the client's time-out, a line too long. *)
ScanBreaks ==
    /\ reader.pc = "scan"
    /\ ~ StreamDone
    /\ HoldsNext(Err)
    /\ ending' = "broken"
    /\ UNCHANGED lines
    /\ OnlyReads

(* The context ends the scan, whether a line was read or the read failed. *)
ScanCancelled ==
    /\ reader.pc = "scan"
    /\ StreamDone
    /\ Closes
    /\ ending' = "cancelled"
    /\ UNCHANGED <<scanned, lines>>
    /\ OnlyReads

(* send gives up, and the reader with it. *)
SendCancelled ==
    /\ reader.pc = "send"
    /\ StreamDone
    /\ Closes
    /\ ending' = IF ending = "none" THEN "cancelled" ELSE ending
    /\ UNCHANGED <<scanned, lines>>
    /\ OnlyReads

(* The reader after its item has been taken. *)
HandedOver == reader' = [pc |-> IF ending = "none" THEN "scan" ELSE "done", held |-> <<>>]

-----------------------------------------------------------------------------
(* The relay, the drainer and the consumer. *)

RelayTakesOver ==
    /\ relay.pc \in {"receive", "deliver"}
    /\ reader.pc = "send"
    /\ HandedOver
    /\ relay' = [pc |-> "deliver", held |-> reader.held]
    /\ UNCHANGED <<call, cancelled, drainer, consumer, received, recorded, body>>

RelayTakes ==
    /\ relay.pc = "receive"
    /\ reader.pc = "send"
    /\ HandedOver
    /\ relay' = [pc |-> "deliver", held |-> reader.held]
    /\ UNCHANGED <<call, cancelled, drainer, consumer, received, recorded, body>>

(* ch is closed: the session is recorded and the consumer's channel closed. *)
RelayEnds ==
    /\ relay.pc = "receive"
    /\ reader.pc = "done"
    /\ relay' = [relay EXCEPT !.pc = "done"]
    /\ recorded' = IF EnableSessions THEN recorded + 1 ELSE recorded
    /\ UNCHANGED <<call, cancelled, reader, drainer, consumer, received, body>>

RelayCancelledIdle ==
    /\ relay.pc = "receive"
    /\ cancelled
    /\ relay' = [pc |-> "done", held |-> <<>>]
    /\ drainer' = "draining"
    /\ UNCHANGED <<call, cancelled, reader, consumer, received, recorded, body>>

(* ctx.Done at either select: the item in hand is lost. *)
RelayCancelled ==
    /\ relay.pc \in {"receive", "deliver"}
    /\ cancelled
    /\ relay' = [pc |-> "done", held |-> <<>>]
    /\ drainer' = "draining"
    /\ UNCHANGED <<call, cancelled, reader, consumer, received, recorded, body>>

DrainerTakes ==
    /\ drainer = "draining"
    /\ reader.pc = "send"
    /\ HandedOver
    /\ UNCHANGED <<call, cancelled, relay, drainer, consumer, received, recorded, body>>

DrainerEnds ==
    /\ drainer = "draining"
    /\ reader.pc = "done"
    /\ drainer' = "done"
    /\ UNCHANGED <<call, cancelled, reader, relay, consumer, received, recorded, body>>

(* The consumer takes an item from the relay. *)
Deliver ==
    /\ relay.pc = "deliver"
    /\ consumer = "reading"
    /\ received' = received \o relay.held
    /\ relay' = [pc |-> "receive", held |-> <<>>]
    /\ UNCHANGED <<call, cancelled, reader, drainer, consumer, recorded, body>>

(* The consumer takes a buffered chunk of a replayed answer. *)
Replay ==
    /\ At("replay")
    /\ consumer = "reading"
    /\ Len(received) < Len(scanned)
    /\ received' = Append(received, scanned[Len(received) + 1])
    /\ UNCHANGED <<call, cancelled, goroutines, consumer, recorded, body>>

FinishRecording ==
    /\ consumer = "reading"
    /\ \/ At("replay") /\ received = scanned
       \/ relay.pc = "done"
    /\ consumer' = "finished"
    /\ recorded' = IF EnableSessions THEN recorded + 1 ELSE recorded
    /\ UNCHANGED <<call, cancelled, goroutines, received, body>>

(* The consumer finds its channel closed. *)
Finish ==
    /\ consumer = "reading"
    /\ \/ At("replay") /\ received = scanned
       \/ relay.pc = "done"
    /\ consumer' = "finished"
    /\ UNCHANGED <<call, cancelled, goroutines, received, recorded, body>>

(* The consumer stops reading and does not come back. *)
Leave ==
    /\ consumer = "reading"
    /\ consumer' = "left"
    /\ UNCHANGED <<call, cancelled, goroutines, received, recorded, body>>

Cancel ==
    /\ ~ At("idle")
    /\ ~ cancelled
    /\ cancelled' = TRUE
    /\ UNCHANGED <<call, goroutines, consumer, received, recorded, body>>

-----------------------------------------------------------------------------

Handshake ==
    \/ \E n \in 0 .. MaxLines : ProbeAnswered(n)
    \/ \E pr \in Offers : ProbePriced(pr)
    \/ Sign
    \/ OpenRefused \/ HandshakeFails \/ Opened

Reader ==
    \/ ScanChunk \/ ScanOther \/ ScanMalformed \/ ScanDone
    \/ ScanEOF \/ ScanBreaks \/ ScanCancelled \/ SendCancelled

Relay == RelayTakes \/ RelayEnds \/ RelayCancelled
Drainer == DrainerTakes \/ DrainerEnds
Consumer == Deliver \/ Replay \/ Finish

Next ==
    \/ Begin \/ Handshake
    \/ Reader \/ Relay \/ Drainer \/ Consumer
    \/ Leave \/ Cancel

Spec == Init /\ [][Next]_streamVars
=============================================================================
