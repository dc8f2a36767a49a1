-------------------------- MODULE ChatStreamProofs --------------------------
(***************************************************************************)
(* Proofs about a streaming call, for every length of the body, every set  *)
(* of quotes and every configuration.                                      *)
(*                                                                         *)
(* The invariants of ChatStreamSpec are about the ends of the chain reader,*)
(* relay, consumer.  They are inductive only together with what each stage *)
(* of one goroutine allows the others, which is the first part below; the  *)
(* second follows the items down the chain.                                *)
(***************************************************************************)
EXTENDS ChatStreamSpec, PaymentProofs, SequenceTheorems, TLAPS

(* IsPrefix, element by element. *)
LEMMA PrefixByElements ==
    ASSUME NEW S, NEW s \in Seq(S), NEW t \in Seq(S)
    PROVE  IsPrefix(s, t) <=> Len(s) <= Len(t) /\ \A i \in 1 .. Len(s) : s[i] = t[i]
<1>1. CASE Len(s) <= Len(t)
  <2>1. /\ SubSeq(t, 1, Len(s)) \in Seq(S)
        /\ Len(SubSeq(t, 1, Len(s))) = Len(s)
        /\ \A i \in 1 .. Len(s) : SubSeq(t, 1, Len(s))[i] = t[i]
    <3>1. Len(s) \in Nat /\ \A i \in 1 .. Len(s) : t[i] \in S
      BY <1>1
    <3> QED
      BY <3>1, SubSeqProperties
  <2>2. SubSeq(s, 1, Len(s)) = s
    BY SubSeqFull
  <2>3. s = SubSeq(t, 1, Len(s)) <=> \A i \in 1 .. Len(s) : s[i] = t[i]
    BY <2>1, SeqEqual
  <2> QED
    BY <1>1, <2>2, <2>3 DEF IsPrefix
<1> QED
  BY <1>1 DEF IsPrefix

(* A prefix stays one when the whole grows. *)
LEMMA PrefixOfLonger ==
    ASSUME NEW S, NEW s \in Seq(S), NEW t \in Seq(S), NEW e \in S, IsPrefix(s, t)
    PROVE  IsPrefix(s, Append(t, e))
<1>1. /\ Append(t, e) \in Seq(S)
      /\ Len(Append(t, e)) = Len(t) + 1
      /\ \A i \in 1 .. Len(t) : Append(t, e)[i] = t[i]
  BY AppendProperties
<1>2. Len(s) \in Nat /\ Len(t) \in Nat
  OBVIOUS
<1>3. Len(s) <= Len(t) /\ \A i \in 1 .. Len(s) : s[i] = t[i]
  BY PrefixByElements
<1>4. Len(s) <= Len(Append(t, e)) /\ \A i \in 1 .. Len(s) : s[i] = Append(t, e)[i]
  BY <1>1, <1>2, <1>3
<1> QED
  BY <1>1, <1>4, PrefixByElements

(* A list is a prefix of what it is concatenated with, and of what that is *)
(* a prefix of.                                                            *)
LEMMA PrefixOfConcat ==
    ASSUME NEW S, NEW s \in Seq(S), NEW u \in Seq(S), NEW t \in Seq(S)
    PROVE  /\ IsPrefix(s, s \o u)
           /\ IsPrefix(s \o u, t) => IsPrefix(s, t)
<1>1. /\ s \o u \in Seq(S)
      /\ Len(s \o u) = Len(s) + Len(u)
      /\ \A i \in 1 .. Len(s) + Len(u) :
            (s \o u)[i] = IF i <= Len(s) THEN s[i] ELSE u[i - Len(s)]
  BY ConcatProperties
<1>2. Len(s) \in Nat /\ Len(u) \in Nat /\ Len(t) \in Nat
  OBVIOUS
<1>3. \A i \in 1 .. Len(s) : (s \o u)[i] = s[i]
  BY <1>1, <1>2
<1>4. IsPrefix(s, s \o u)
  <2>1. Len(s) <= Len(s \o u) /\ \A i \in 1 .. Len(s) : s[i] = (s \o u)[i]
    BY <1>1, <1>2, <1>3
  <2>2. PICK w \in Seq(S) : w = s \o u
    BY <1>1
  <2> QED
    BY <2>1, <2>2, PrefixByElements
<1>5. ASSUME IsPrefix(s \o u, t)
      PROVE  IsPrefix(s, t)
  <2>1. Len(s \o u) <= Len(t) /\ \A i \in 1 .. Len(s \o u) : (s \o u)[i] = t[i]
    BY <1>1, <1>5, PrefixByElements
  <2>2. Len(s) <= Len(t) /\ \A i \in 1 .. Len(s) : s[i] = t[i]
    BY <1>1, <1>2, <1>3, <2>1
  <2> QED
    BY <2>2, PrefixByElements
<1> QED
  BY <1>4, <1>5

(* The next element may be appended to a prefix that is not the whole. *)
LEMMA PrefixGrows ==
    ASSUME NEW S, NEW s \in Seq(S), NEW t \in Seq(S), IsPrefix(s, t), Len(s) < Len(t)
    PROVE  /\ Append(s, t[Len(s) + 1]) \in Seq(S)
           /\ IsPrefix(Append(s, t[Len(s) + 1]), t)
<1> DEFINE e == t[Len(s) + 1]
<1>1. Len(s) \in Nat /\ Len(t) \in Nat /\ e \in S
  OBVIOUS
<1>2. /\ Append(s, e) \in Seq(S)
      /\ Len(Append(s, e)) = Len(s) + 1
      /\ \A i \in 1 .. Len(s) : Append(s, e)[i] = s[i]
      /\ Append(s, e)[Len(s) + 1] = e
  BY <1>1, AppendProperties
<1>3. \A i \in 1 .. Len(s) : s[i] = t[i]
  BY PrefixByElements
<1>4. Len(Append(s, e)) <= Len(t) /\ \A i \in 1 .. Len(Append(s, e)) : Append(s, e)[i] = t[i]
  BY <1>1, <1>2, <1>3
<1> QED
  BY <1>2, <1>4, PrefixByElements

(* Appending to the last of three lists appends to their concatenation. *)
LEMMA ConcatAppends ==
    ASSUME NEW S, NEW r \in Seq(S), NEW h \in Seq(S), NEW t \in Seq(S), NEW e \in S,
           r \o (h \o <<>>) = t
    PROVE  r \o (h \o <<e>>) = Append(t, e)
<1>1. <<e>> \in Seq(S)
  OBVIOUS
<1>2. h \o <<>> = h
  BY ConcatEmptySeq
<1>3. PICK w \in Seq(S) : w = <<e>>
  BY <1>1
<1>4. r \o (h \o w) = (r \o h) \o w
  BY ConcatAssociative
<1>5. Append(t, e) = t \o <<e>>
  BY AppendIsConcat
<1> QED
  BY <1>2, <1>3, <1>4, <1>5

(* What an appended list contains. *)
LEMMA AppendContains ==
    ASSUME NEW S, NEW s \in Seq(S), NEW e \in S, NEW x
    PROVE  Contains(Append(s, e), x) <=> Contains(s, x) \/ x = e
<1>1. /\ Len(Append(s, e)) = Len(s) + 1
      /\ \A i \in 1 .. Len(s) : Append(s, e)[i] = s[i]
      /\ Append(s, e)[Len(s) + 1] = e
      /\ Len(s) \in Nat
  BY AppendProperties
<1> QED
  BY <1>1 DEF Contains

-----------------------------------------------------------------------------

(* Before the stream or a replay has begun, nothing but the handshake has. *)
HandshakeAlone ==
    ~ At("replay") /\ ~ At("streaming") =>
        /\ reader.pc = "none" /\ relay.pc = "none" /\ drainer = "none"
        /\ consumer = "waiting"
        /\ scanned = <<>> /\ received = <<>>
        /\ recorded = 0 /\ ending = "none"

RecordedOnce == IF EnableSessions THEN recorded = 1 ELSE recorded = 0

(* A replay has no goroutines and is recorded when it begins. *)
ReplayAlone ==
    At("replay") =>
        /\ reader.pc = "none" /\ relay.pc = "none" /\ drainer = "none"
        /\ consumer # "waiting"
        /\ RecordedOnce /\ ending = "done"
        /\ consumer = "finished" => received = scanned

(* What the stages of the goroutines of a stream say of each other: the    *)
(* relay returns after the reader, and records, or is cancelled, and then  *)
(* leaves a drainer and records nothing.                                   *)
StagesAgree ==
    At("streaming") =>
        /\ reader.pc # "none" /\ relay.pc # "none" /\ consumer # "waiting"
        /\ relay.pc # "done" => drainer = "none" /\ recorded = 0
        /\ relay.pc = "done" /\ drainer = "none" => reader.pc = "done" /\ RecordedOnce
        /\ drainer # "none" => cancelled /\ relay.pc = "done" /\ recorded = 0
        /\ consumer = "finished" => relay.pc = "done"

(* The reader knows whether the body has ended and how; an error item is   *)
(* the last thing it makes of it.                                          *)
EndingKnown ==
    /\ ending \in {"none", "done", "eof", "malformed", "broken", "cancelled"}
    /\ reader.pc = "scan" => ending = "none"
    /\ reader.pc = "send" => ending \in {"none", "malformed", "broken"}
    /\ reader.pc = "done" => ending # "none"
    /\ ending \in {"malformed", "broken"} <=> Contains(scanned, Err)

(* The items on their way.  Only a cancellation takes any away. *)
Undisturbed == ~ cancelled \/ (relay.pc # "done" /\ reader.pc # "done")

NothingLost ==
    /\ IsPrefix(received \o relay.held, scanned)
    /\ At("streaming") /\ Undisturbed => received \o InTransit = scanned

CallIsRecord == call = [pc |-> call.pc, offer |-> call.offer, sig |-> call.sig]

IInv ==
    /\ TypeOK /\ CallIsRecord
    /\ HandshakeAlone /\ ReplayAlone /\ StagesAgree
    /\ EndingKnown /\ NothingLost

-----------------------------------------------------------------------------


LEMMA ItemsAre ==
    /\ Err \in Items
    /\ \A n \in 1 .. MaxLines : Chunk(n) \in Items /\ Chunk(n) # Err
  BY DEF Items, Err, Chunk

LEMMA InvInit == Init => IInv
<1> SUFFICES ASSUME Init
             PROVE  IInv
  OBVIOUS
<1>1. <<>> \in Seq(Items) /\ <<>> \o <<>> = <<>> /\ Len(<<>>) = 0
  BY EmptySeq, ConcatEmptySeq
<1>2. IsPrefix(<<>>, <<>>) /\ ~ Contains(<<>>, Err)
  <2>1. PICK e \in Seq(Items) : e = <<>> /\ Len(e) = 0
    BY <1>1
  <2>2. IsPrefix(e, e)
    BY PrefixByElements
  <2>3. ~ Contains(e, Err)
    BY <2>1 DEF Contains
  <2> QED
    BY <2>1, <2>2, <2>3
<1>3. TypeOK
  <2>1. reader \in Free({"none", "scan", "done"}) /\ relay \in Free({"none", "receive", "done"})
    BY DEF Init, Free
  <2>2. received \in Seq(Items) /\ scanned \in Seq(Items)
    BY <1>1 DEF Init
  <2>3. lines \in 0 .. MaxLines
    BY StreamAssumption DEF Init
  <2>4. call.pc = "idle" /\ call.offer = NoOffer
    BY DEF Init
  <2> QED
    BY <2>1, <2>2, <2>3, <2>4 DEF Init, TypeOK
<1>4. CallIsRecord
  BY DEF Init, CallIsRecord
<1>5. HandshakeAlone /\ ReplayAlone /\ StagesAgree
  BY DEF Init, HandshakeAlone, ReplayAlone, StagesAgree, At
<1>6. EndingKnown /\ NothingLost
  BY <1>1, <1>2 DEF Init, EndingKnown, NothingLost, At
<1> QED
  BY <1>3, <1>4, <1>5, <1>6 DEF IInv

(* What a goroutine has in its hands. *)
IsGoroutine(g, stages, busy) ==
    /\ g = [pc |-> g.pc, held |-> g.held]
    /\ g.held \in Seq(Items)
    /\ \/ g.pc \in stages /\ g.held = <<>>
       \/ g.pc = busy /\ \E item \in Items : g.held = <<item>>

LEMMA HandsAre ==
    ASSUME TypeOK
    PROVE  /\ reader.pc \in {"none", "scan", "send", "done"}
           /\ reader = [pc |-> reader.pc, held |-> reader.held]
           /\ reader.pc # "send" => reader.held = <<>>
           /\ reader.pc = "send" => \E item \in Items : reader.held = <<item>>
           /\ reader.held \in Seq(Items)
           /\ relay.pc \in {"none", "receive", "deliver", "done"}
           /\ relay = [pc |-> relay.pc, held |-> relay.held]
           /\ relay.pc # "deliver" => relay.held = <<>>
           /\ relay.pc = "deliver" => \E item \in Items : relay.held = <<item>>
           /\ relay.held \in Seq(Items)
<1>1. \A item \in Items : <<item>> \in Seq(Items)
  OBVIOUS
<1>2. <<>> \in Seq(Items)
  OBVIOUS
<1>3. ASSUME NEW stages, NEW busy, NEW g \in Free(stages) \cup Holding(busy)
      PROVE  IsGoroutine(g, stages, busy)
  <2>1. CASE g \in Free(stages)
    BY <1>2, <2>1 DEF Free, IsGoroutine
  <2>2. CASE g \in Holding(busy)
    BY <1>1, <2>2 DEF Holding, IsGoroutine
  <2> QED
    BY <2>1, <2>2
<1>4. IsGoroutine(reader, {"none", "scan", "done"}, "send")
  BY <1>3, Zenon DEF TypeOK
<1>5. IsGoroutine(relay, {"none", "receive", "done"}, "deliver")
  BY <1>3, Zenon DEF TypeOK
<1> QED
  BY <1>4, <1>5 DEF IsGoroutine

(* Conversely, what a goroutine may be set to. *)
LEMMA HandsMayBe ==
    /\ \A pc, stages : pc \in stages => [pc |-> pc, held |-> <<>>] \in Free(stages)
    /\ \A pc, item : item \in Items => [pc |-> pc, held |-> <<item>>] \in Holding(pc)
  BY DEF Free, Holding

-----------------------------------------------------------------------------
(* The handshake. *)

LEMMA HandshakeKeeps ==
    ASSUME IInv, OnlyHandshakes, ~ At("replay"), ~ At("streaming"),
           call'.pc \in {"probe", "sign", "open", "failed"},
           call'.offer \in Offers \cup {NoOffer}, CallIsRecord'
    PROVE  IInv'
<1>1. TypeOK'
  BY DEF IInv, TypeOK, OnlyHandshakes, goroutines, body
<1>2. (HandshakeAlone /\ ReplayAlone /\ StagesAgree)'
  BY DEF IInv, HandshakeAlone, ReplayAlone, StagesAgree, At, OnlyHandshakes, goroutines, body
<1>3. EndingKnown' /\ NothingLost'
  BY DEF IInv, EndingKnown, NothingLost, At, OnlyHandshakes, goroutines, body
<1> QED
  BY <1>1, <1>2, <1>3 DEF IInv

LEMMA MovesKeepsRecord ==
    ASSUME NEW stage, Moves(stage)
    PROVE  CallIsRecord' /\ call'.pc = stage /\ call'.offer = NoOffer
  BY DEF Moves, CallIsRecord

LEMMA HandshakeStep ==
    ASSUME IInv, Begin \/ Handshake
    PROVE  IInv'
<1>1. CASE Begin
  BY <1>1, MovesKeepsRecord, HandshakeKeeps DEF Begin, At
<1>2. CASE \E pr \in Offers : ProbePriced(pr)
  <2>1. CallIsRecord' /\ call'.pc = "sign" /\ call'.offer \in Offers
    BY <1>2 DEF IInv, CallIsRecord, ProbePriced
  <2> QED
    BY <1>2, <2>1, HandshakeKeeps DEF ProbePriced, At
<1>3. CASE Sign
  <2>1. CallIsRecord' /\ call'.pc = "open" /\ call'.offer = call.offer
    BY <1>3 DEF IInv, CallIsRecord, Sign
  <2> QED
    BY <1>3, <2>1, HandshakeKeeps DEF Sign, At, IInv, TypeOK
<1>4. CASE OpenRefused \/ HandshakeFails
  BY <1>4, MovesKeepsRecord, HandshakeKeeps DEF OpenRefused, HandshakeFails, At
<1>5. CASE \E n \in 0 .. MaxLines : ProbeAnswered(n)
  <2>1. PICK n \in 0 .. MaxLines : ProbeAnswered(n)
    BY <1>5
  <2>2. /\ scanned' \in Seq(Items) /\ ~ Contains(scanned', Err)
        /\ IsPrefix(<<>>, scanned')
    <3>1. \A i \in 1 .. n : Chunk(i) \in Items /\ Chunk(i) # Err
      BY ItemsAre, StreamAssumption
    <3>2. PICK t : t = [i \in 1 .. n |-> Chunk(i)]
      OBVIOUS
    <3>3. t \in Seq(Items) /\ Len(t) = n /\ \A i \in 1 .. n : t[i] = Chunk(i)
      BY <3>1, <3>2
    <3>4. ~ Contains(t, Err)
      BY <3>1, <3>3 DEF Contains
    <3>5. PICK e \in Seq(Items) : e = <<>> /\ Len(e) = 0
      BY EmptySeq
    <3>6. IsPrefix(e, t)
      <4>1. Len(e) <= Len(t) /\ \A i \in 1 .. Len(e) : e[i] = t[i]
        BY <3>3, <3>5
      <4> QED
        BY <3>3, <3>5, <4>1, PrefixByElements
    <3> QED
      BY <2>1, <3>2, <3>3, <3>4, <3>5, <3>6 DEF ProbeAnswered
  <2>3. CallIsRecord' /\ call'.pc = "replay" /\ call'.offer = NoOffer
    BY <2>1, MovesKeepsRecord DEF ProbeAnswered
  <2>4. TypeOK'
    BY <2>1, <2>2, <2>3 DEF IInv, TypeOK, ProbeAnswered, goroutines
  <2>5. HandshakeAlone /\ call.pc = "probe"
    BY <2>1 DEF IInv, ProbeAnswered, At
  <2>6. (HandshakeAlone /\ ReplayAlone /\ StagesAgree)'
    BY <2>1, <2>3, <2>5, StreamAssumption
    DEF HandshakeAlone, ReplayAlone, StagesAgree, RecordedOnce, At, ProbeAnswered, goroutines
  <2>7. EndingKnown' /\ NothingLost'
    <3>1. received = <<>> /\ relay.held = <<>> /\ reader.pc = "none"
      BY <2>5, HandsAre DEF IInv, HandshakeAlone, At
    <3>2. <<>> \o <<>> = <<>>
      BY EmptySeq, ConcatEmptySeq
    <3> QED
      BY <2>1, <2>2, <2>3, <3>1, <3>2 DEF EndingKnown, NothingLost, At, ProbeAnswered, goroutines
  <2> QED
    BY <2>3, <2>4, <2>6, <2>7 DEF IInv
<1>6. CASE Opened
  <2>1. CallIsRecord' /\ call'.pc = "streaming" /\ call'.offer = NoOffer
    BY <1>6, MovesKeepsRecord DEF Opened
  <2>2. HandshakeAlone /\ call.pc = "open"
    BY <1>6 DEF IInv, Opened, At
  <2>3. /\ reader.held = <<>> /\ relay.held = <<>>
        /\ reader' = [pc |-> "scan", held |-> <<>>]
        /\ relay' = [pc |-> "receive", held |-> <<>>]
    BY <1>6, <2>2, HandsAre DEF IInv, Opened, HandshakeAlone, At
  <2>4. TypeOK'
    <3>1. reader' \in Free({"none", "scan", "done"}) /\ relay' \in Free({"none", "receive", "done"})
      BY <2>3, HandsMayBe, Zenon
    <3> QED
      BY <1>6, <2>1, <3>1 DEF IInv, TypeOK, Opened, body
  <2>5. (HandshakeAlone /\ ReplayAlone /\ StagesAgree)'
    BY <1>6, <2>1, <2>2, <2>3
    DEF HandshakeAlone, ReplayAlone, StagesAgree, At, Opened, body
  <2>6. EndingKnown' /\ NothingLost'
    <3>1. received = <<>> /\ scanned = <<>>
      BY <2>2 DEF HandshakeAlone, At
    <3>2. <<>> \o <<>> = <<>>
      BY EmptySeq, ConcatEmptySeq
    <3> QED
      BY <1>6, <2>1, <2>2, <2>3, <3>1, <3>2
      DEF IInv, EndingKnown, NothingLost, HandshakeAlone, InTransit, At, Opened, body
  <2> QED
    BY <2>1, <2>4, <2>5, <2>6 DEF IInv
<1> QED
  BY <1>1, <1>2, <1>3, <1>4, <1>5, <1>6 DEF Handshake

-----------------------------------------------------------------------------
(* The reader. *)

(* A reader that has not returned reads for a stream, and either the relay *)
(* has not returned or the context is cancelled.                           *)
LEMMA ReaderAtWork ==
    ASSUME IInv, reader.pc \in {"scan", "send"}
    PROVE  At("streaming") /\ (relay.pc = "done" => cancelled)
  BY DEF IInv, HandshakeAlone, ReplayAlone, StagesAgree

(* Whatever the reader does, the stages go on agreeing. *)
LEMMA ReaderKeepsStages ==
    ASSUME IInv, OnlyReads, reader.pc \in {"scan", "send"},
           reader'.pc \in {"scan", "send", "done"}
    PROVE  (HandshakeAlone /\ ReplayAlone /\ StagesAgree)' /\ At("streaming")'
  BY ReaderAtWork
  DEF IInv, HandshakeAlone, ReplayAlone, StagesAgree, RecordedOnce, At, OnlyReads

(* The reader takes an item up: it is the last made of the body, and the   *)
(* last in transit.                                                        *)
LEMMA HoldsNextKeeps ==
    ASSUME IInv, OnlyReads, reader.pc = "scan", ~ StreamDone,
           NEW item \in Items, HoldsNext(item), lines' \in 0 .. MaxLines,
           IF item = Err THEN ending' \in {"malformed", "broken"} ELSE ending' = ending
    PROVE  IInv'
<1>1. reader' = [pc |-> "send", held |-> <<item>>] /\ scanned' = Append(scanned, item)
  BY DEF HoldsNext
<1>2. /\ scanned \in Seq(Items) /\ received \in Seq(Items)
      /\ relay.held \in Seq(Items) /\ reader.held = <<>>
  BY HandsAre DEF IInv, TypeOK
<1>3. scanned' \in Seq(Items)
  BY <1>1, <1>2, AppendProperties
<1>4. TypeOK' /\ CallIsRecord'
  <2>1. reader' \in Holding("send")
    BY <1>1, HandsMayBe, Zenon
  <2> QED
    BY <1>3, <2>1 DEF IInv, TypeOK, CallIsRecord, OnlyReads
<1>5. (HandshakeAlone /\ ReplayAlone /\ StagesAgree)' /\ At("streaming")'
  BY <1>1, ReaderKeepsStages
<1>6. EndingKnown'
  <2>1. Contains(scanned', Err) <=> Contains(scanned, Err) \/ item = Err
    BY <1>1, <1>2, ItemsAre, AppendContains
  <2>2. ending = "none"
    BY DEF IInv, EndingKnown
  <2> QED
    BY <1>1, <2>1, <2>2 DEF IInv, EndingKnown
<1>7. NothingLost'
  <2>1. IsPrefix(received \o relay.held, scanned')
    <3>1. received \o relay.held \in Seq(Items)
      BY <1>2, ConcatProperties
    <3> QED
      BY <1>1, <1>2, <3>1, PrefixOfLonger DEF IInv, NothingLost
  <2>2. received \o (relay.held \o <<item>>) = scanned'
    <3>1. received \o (relay.held \o <<>>) = scanned
      BY <1>2, ReaderAtWork DEF IInv, NothingLost, Undisturbed, InTransit, StreamDone
    <3> QED
      BY <1>1, <1>2, <3>1, ConcatAppends
  <2>3. (received \o relay.held)' = received \o relay.held
    BY DEF OnlyReads
  <2>4. (received \o InTransit)' = received \o (relay.held \o <<item>>)
    BY <1>1 DEF OnlyReads, InTransit
  <2> QED
    BY <2>1, <2>2, <2>3, <2>4 DEF NothingLost
<1> QED
  BY <1>4, <1>5, <1>6, <1>7 DEF IInv

(* The reader returns: with nothing in its hands, or cancelled. *)
LEMMA ClosesKeeps ==
    ASSUME IInv, OnlyReads, Closes, UNCHANGED scanned, lines' \in 0 .. MaxLines,
           \/ reader.pc = "scan" /\ ending' \in {"done", "eof", "cancelled"}
           \/ /\ reader.pc = "send" /\ StreamDone
              /\ ending' = IF ending = "none" THEN "cancelled" ELSE ending
    PROVE  IInv'
<1>1. reader' = [pc |-> "done", held |-> <<>>] /\ reader.pc \in {"scan", "send"}
  BY DEF Closes
<1>2. TypeOK' /\ CallIsRecord'
  <2>1. reader' \in Free({"none", "scan", "done"})
    BY <1>1, HandsMayBe, Zenon
  <2> QED
    BY <2>1 DEF IInv, TypeOK, CallIsRecord, OnlyReads
<1>3. (HandshakeAlone /\ ReplayAlone /\ StagesAgree)' /\ At("streaming")'
  BY <1>1, ReaderKeepsStages
<1>4. EndingKnown'
  BY <1>1 DEF IInv, EndingKnown
<1>5. NothingLost'
  <2>1. IsPrefix(received \o relay.held, scanned)'
    BY DEF IInv, NothingLost, OnlyReads
  <2>2. CASE reader.pc = "scan"
    <3>1. reader.held = <<>>
      BY <2>2, HandsAre DEF IInv
    <3>2. ~ cancelled => received \o (relay.held \o <<>>) = scanned
      BY <1>1, <3>1, ReaderAtWork DEF IInv, NothingLost, Undisturbed, InTransit
    <3> QED
      BY <1>1, <2>1, <3>2 DEF NothingLost, Undisturbed, InTransit, OnlyReads
  <2>3. CASE reader.pc = "send" /\ StreamDone
    <3>1. cancelled
      BY <2>3, ReaderAtWork DEF StreamDone
    <3> QED
      BY <1>1, <2>1, <3>1 DEF NothingLost, Undisturbed, OnlyReads
  <2> QED
    BY <2>2, <2>3
<1> QED
  BY <1>2, <1>3, <1>4, <1>5 DEF IInv

LEMMA ReaderStep ==
    ASSUME IInv, Reader
    PROVE  IInv'
<1>1. lines \in 0 .. MaxLines /\ MaxLines \in Nat
  BY StreamAssumption DEF IInv, TypeOK
<1>2. Scans => lines' \in 1 .. MaxLines /\ lines' \in 0 .. MaxLines
  BY <1>1 DEF Scans
<1>3. CASE ScanChunk
  <2>1. Chunk(lines') \in Items /\ Chunk(lines') # Err
    BY <1>2, <1>3, ItemsAre DEF ScanChunk
  <2> QED
    BY <1>2, <1>3, <2>1, HoldsNextKeeps DEF ScanChunk, Scans
<1>4. CASE ScanMalformed
  BY <1>2, <1>4, ItemsAre, HoldsNextKeeps DEF ScanMalformed, Scans
<1>5. CASE ScanBreaks
  BY <1>1, <1>5, ItemsAre, HoldsNextKeeps DEF ScanBreaks
<1>6. CASE ScanDone
  BY <1>2, <1>6, ClosesKeeps DEF ScanDone, Scans
<1>7. CASE ScanEOF \/ ScanCancelled
  BY <1>1, <1>7, ClosesKeeps DEF ScanEOF, ScanCancelled
<1>8. CASE SendCancelled
  BY <1>1, <1>8, ClosesKeeps DEF SendCancelled
<1>9. CASE ScanOther
  <2>1. lines' \in 0 .. MaxLines /\ UNCHANGED <<reader, scanned, ending>> /\ OnlyReads
    BY <1>2, <1>9 DEF ScanOther
  <2>2. TypeOK' /\ CallIsRecord'
    BY <2>1 DEF IInv, TypeOK, CallIsRecord, OnlyReads
  <2>3. (HandshakeAlone /\ ReplayAlone /\ StagesAgree)'
    BY <2>1 DEF IInv, HandshakeAlone, ReplayAlone, StagesAgree, RecordedOnce, At, OnlyReads
  <2>4. (EndingKnown /\ NothingLost)'
    BY <2>1 DEF IInv, EndingKnown, NothingLost, Undisturbed, InTransit, At, OnlyReads
  <2> QED
    BY <2>2, <2>3, <2>4 DEF IInv
<1> QED
  BY <1>3, <1>4, <1>5, <1>6, <1>7, <1>8, <1>9 DEF Reader

-----------------------------------------------------------------------------
(* The relay, the drainer and the consumer. *)

(* A goroutine of the stream is at work only in a stream. *)
LEMMA RelayAtWork ==
    ASSUME IInv, relay.pc \in {"receive", "deliver"} \/ drainer # "none"
    PROVE  At("streaming")
  BY DEF IInv, HandshakeAlone, ReplayAlone

(* The reader after its item has been taken. *)
LEMMA HandedOverKeeps ==
    ASSUME IInv, reader.pc = "send", HandedOver, UNCHANGED <<scanned, ending>>
    PROVE  /\ reader' \in Free({"none", "scan", "done"})
           /\ reader'.pc \in {"scan", "done"} /\ reader'.held = <<>>
           /\ EndingKnown'
<1> DEFINE stage == IF ending = "none" THEN "scan" ELSE "done"
<1>1. reader' = [pc |-> stage, held |-> <<>>] /\ stage \in {"none", "scan", "done"}
  BY DEF HandedOver
<1>2. reader' \in Free({"none", "scan", "done"})
  <2> HIDE DEF stage
  <2> QED
    BY <1>1, HandsMayBe, Zenon
<1>3. EndingKnown'
  BY <1>1 DEF IInv, EndingKnown
<1> QED
  BY <1>1, <1>2, <1>3

LEMMA RelayStep ==
    ASSUME IInv, Relay
    PROVE  IInv'
<1>1. At("streaming")
  BY RelayAtWork DEF Relay, RelayTakes, RelayEnds, RelayCancelled
<1>2. /\ received \in Seq(Items) /\ scanned \in Seq(Items)
      /\ relay.held \in Seq(Items) /\ reader.held \in Seq(Items)
  BY HandsAre DEF IInv, TypeOK
<1>3. /\ received \o <<>> = received
      /\ <<>> \o reader.held = reader.held /\ reader.held \o <<>> = reader.held
  BY <1>2, ConcatEmptySeq
<1>4. CASE RelayTakes
  <2>1. relay' = [pc |-> "deliver", held |-> reader.held] /\ relay.held = <<>>
    BY <1>4, HandsAre DEF IInv, RelayTakes
  <2>2. /\ reader' \in Free({"none", "scan", "done"})
        /\ reader'.pc \in {"scan", "done"} /\ reader'.held = <<>>
        /\ EndingKnown'
    BY <1>4, HandedOverKeeps DEF RelayTakes, body
  <2>3. TypeOK' /\ CallIsRecord'
    <3>1. PICK item \in Items : reader.held = <<item>>
      BY <1>4, HandsAre DEF IInv, RelayTakes
    <3>2. relay' \in Holding("deliver")
      BY <2>1, <3>1, HandsMayBe, Zenon
    <3> QED
      BY <1>4, <2>2, <3>2 DEF IInv, TypeOK, CallIsRecord, RelayTakes, body
  <2>4. (HandshakeAlone /\ ReplayAlone /\ StagesAgree)'
    BY <1>1, <1>4, <2>1, <2>2
    DEF IInv, HandshakeAlone, ReplayAlone, StagesAgree, At, RelayTakes, body
  <2>5. NothingLost'
    <3>1. received \o reader.held = scanned
      BY <1>1, <1>3, <1>4, <2>1 DEF IInv, NothingLost, Undisturbed, InTransit, RelayTakes
    <3>2. IsPrefix(scanned, scanned)
      BY <1>2, PrefixByElements
    <3>3. (received \o relay.held)' = scanned /\ (received \o InTransit)' = scanned
      BY <1>3, <1>4, <2>1, <2>2, <3>1 DEF InTransit, RelayTakes
    <3> QED
      BY <1>4, <3>2, <3>3 DEF NothingLost, RelayTakes, body
  <2> QED
    BY <2>2, <2>3, <2>4, <2>5 DEF IInv
<1>5. CASE RelayEnds
  <2>1. relay' = [pc |-> "done", held |-> <<>>] /\ relay.held = <<>> /\ ~ cancelled' = ~ cancelled
    BY <1>5, HandsAre DEF IInv, RelayEnds
  <2>2. StagesAgree /\ recorded = 0 /\ drainer = "none"
    BY <1>1, <1>5 DEF IInv, StagesAgree, RelayEnds
  <2>3. TypeOK' /\ CallIsRecord'
    <3>1. relay' \in Free({"none", "receive", "done"})
      BY <2>1, HandsMayBe, Zenon
    <3> QED
      BY <1>5, <3>1 DEF IInv, TypeOK, CallIsRecord, RelayEnds, body
  <2>4. (HandshakeAlone /\ ReplayAlone /\ StagesAgree)'
    BY <1>1, <1>5, <2>1, <2>2, StreamAssumption
    DEF HandshakeAlone, ReplayAlone, StagesAgree, RecordedOnce, At, RelayEnds, body
  <2>5. EndingKnown' /\ NothingLost'
    BY <1>5, <2>1 DEF IInv, EndingKnown, NothingLost, Undisturbed, InTransit, At, RelayEnds, body
  <2> QED
    BY <2>3, <2>4, <2>5 DEF IInv
<1>6. CASE RelayCancelled
  <2>1. relay' = [pc |-> "done", held |-> <<>>] /\ drainer' = "draining" /\ cancelled'
    BY <1>6 DEF RelayCancelled
  <2>2. TypeOK' /\ CallIsRecord'
    <3>1. relay' \in Free({"none", "receive", "done"})
      BY <2>1, HandsMayBe, Zenon
    <3> QED
      BY <1>6, <2>1, <3>1 DEF IInv, TypeOK, CallIsRecord, RelayCancelled, body
  <2>3. (HandshakeAlone /\ ReplayAlone /\ StagesAgree)'
    BY <1>1, <1>6, <2>1
    DEF IInv, HandshakeAlone, ReplayAlone, StagesAgree, At, RelayCancelled, body
  <2>4. EndingKnown'
    BY <1>6 DEF IInv, EndingKnown, RelayCancelled, body
  <2>5. NothingLost'
    <3>1. IsPrefix(received, scanned)
      BY <1>2, PrefixOfConcat DEF IInv, NothingLost
    <3> QED
      BY <1>3, <1>6, <2>1, <3>1 DEF NothingLost, Undisturbed, RelayCancelled, body
  <2> QED
    BY <2>2, <2>3, <2>4, <2>5 DEF IInv
<1> QED
  BY <1>4, <1>5, <1>6 DEF Relay

LEMMA DrainerStep ==
    ASSUME IInv, Drainer
    PROVE  IInv'
<1>1. At("streaming") /\ cancelled /\ relay.pc = "done"
  <2>1. drainer # "none"
    BY DEF Drainer, DrainerTakes, DrainerEnds
  <2> QED
    BY <2>1, RelayAtWork DEF IInv, StagesAgree
<1>2. CASE DrainerTakes
  <2>1. /\ reader' \in Free({"none", "scan", "done"})
        /\ reader'.pc \in {"scan", "done"} /\ reader'.held = <<>>
        /\ EndingKnown'
    BY <1>2, HandedOverKeeps DEF DrainerTakes, body
  <2>2. TypeOK' /\ CallIsRecord'
    BY <1>2, <2>1 DEF IInv, TypeOK, CallIsRecord, DrainerTakes, body
  <2>3. (HandshakeAlone /\ ReplayAlone /\ StagesAgree)'
    BY <1>1, <1>2, <2>1
    DEF IInv, HandshakeAlone, ReplayAlone, StagesAgree, At, DrainerTakes, body
  <2>4. NothingLost'
    BY <1>1, <1>2 DEF IInv, NothingLost, Undisturbed, DrainerTakes, body
  <2> QED
    BY <2>1, <2>2, <2>3, <2>4 DEF IInv
<1>3. CASE DrainerEnds
  <2>1. TypeOK' /\ CallIsRecord'
    BY <1>3 DEF IInv, TypeOK, CallIsRecord, DrainerEnds, body
  <2>2. (HandshakeAlone /\ ReplayAlone /\ StagesAgree)'
    BY <1>1, <1>3
    DEF IInv, HandshakeAlone, ReplayAlone, StagesAgree, At, DrainerEnds, body
  <2>3. EndingKnown' /\ NothingLost'
    BY <1>3 DEF IInv, EndingKnown, NothingLost, Undisturbed, InTransit, At, DrainerEnds, body
  <2> QED
    BY <2>1, <2>2, <2>3 DEF IInv
<1> QED
  BY <1>2, <1>3 DEF Drainer

(* The consumer, and what it may do at any time: leave or cancel. *)
LEMMA ConsumerStep ==
    ASSUME IInv, Consumer \/ Leave \/ Cancel
    PROVE  IInv'
<1>1. /\ received \in Seq(Items) /\ scanned \in Seq(Items)
      /\ relay.held \in Seq(Items) /\ reader.held \in Seq(Items)
  BY HandsAre DEF IInv, TypeOK
<1>2. CASE Deliver
  <2>1. /\ relay' = [pc |-> "receive", held |-> <<>>] /\ received' = received \o relay.held
        /\ At("streaming") /\ relay.pc = "deliver"
    BY <1>2, RelayAtWork DEF Deliver
  <2>2. received' \in Seq(Items)
    BY <1>1, <2>1, ConcatProperties
  <2>3. TypeOK' /\ CallIsRecord'
    <3>1. relay' \in Free({"none", "receive", "done"})
      BY <2>1, HandsMayBe, Zenon
    <3> QED
      BY <1>2, <2>2, <3>1 DEF IInv, TypeOK, CallIsRecord, Deliver, body
  <2>4. (HandshakeAlone /\ ReplayAlone /\ StagesAgree)'
    BY <1>2, <2>1 DEF IInv, HandshakeAlone, ReplayAlone, StagesAgree, At, Deliver, body
  <2>5. EndingKnown'
    BY <1>2 DEF IInv, EndingKnown, Deliver, body
  <2>6. NothingLost'
    <3>1. received' \o <<>> = received' /\ <<>> \o reader.held = reader.held
      BY <1>1, <2>2, ConcatEmptySeq
    <3>2. received \o (relay.held \o reader.held) = (received \o relay.held) \o reader.held
      <4>1. PICK r \in Seq(Items), h \in Seq(Items), k \in Seq(Items) :
              r = received /\ h = relay.held /\ k = reader.held
        BY <1>1
      <4>2. r \o (h \o k) = (r \o h) \o k
        BY ConcatAssociative
      <4> QED
        BY <4>1, <4>2
    <3>3. (received \o relay.held)' = received \o relay.held
      BY <1>2, <2>1, <3>1 DEF Deliver
    <3>4. (received \o InTransit)' = received \o InTransit
      <4>1. relay'.held = <<>> /\ reader' = reader
        BY <1>2, <2>1 DEF Deliver
      <4>2. (received \o InTransit)' = (received \o relay.held) \o reader.held
        BY <2>1, <3>1, <4>1 DEF InTransit
      <4> QED
        BY <3>2, <4>2 DEF InTransit
    <3>5. Undisturbed' => Undisturbed
      BY <1>2, <2>1 DEF Undisturbed, Deliver
    <3> QED
      BY <1>2, <2>1, <3>3, <3>4, <3>5 DEF IInv, NothingLost, Deliver, body
  <2> QED
    BY <2>3, <2>4, <2>5, <2>6 DEF IInv
<1>3. CASE Replay
  <2>1. /\ At("replay") /\ At("replay")' /\ relay.held = <<>>
        /\ UNCHANGED <<call, cancelled, goroutines, consumer, recorded, body>>
    BY <1>3, HandsAre DEF Replay, At, IInv, ReplayAlone
  <2>2. received \o <<>> = received
    BY <1>1, ConcatEmptySeq
  <2>3. received' \in Seq(Items) /\ IsPrefix(received', scanned)
    BY <1>1, <1>3, <2>1, <2>2, PrefixGrows DEF Replay, IInv, NothingLost
  <2>4. received' \o <<>> = received'
    BY <2>3, ConcatEmptySeq
  <2>5. TypeOK' /\ CallIsRecord'
    BY <2>1, <2>3 DEF IInv, TypeOK, CallIsRecord, goroutines, body
  <2>6. (HandshakeAlone /\ ReplayAlone /\ StagesAgree)'
    BY <1>3, <2>1
    DEF IInv, HandshakeAlone, ReplayAlone, StagesAgree, RecordedOnce, At, Replay, goroutines, body
  <2>7. EndingKnown' /\ NothingLost'
    BY <2>1, <2>3, <2>4 DEF IInv, EndingKnown, NothingLost, At, goroutines, body
  <2> QED
    BY <2>5, <2>6, <2>7 DEF IInv
<1>4. CASE Finish \/ Leave
  <2>1. /\ UNCHANGED <<call, cancelled, goroutines, received, recorded, body>>
        /\ consumer = "reading" /\ consumer' \in {"finished", "left"}
        /\ consumer' = "finished" => \/ At("replay") /\ received = scanned
                                     \/ relay.pc = "done"
    BY <1>4 DEF Finish, Leave
  <2>2. TypeOK' /\ CallIsRecord'
    BY <2>1 DEF IInv, TypeOK, CallIsRecord, goroutines, body
  <2>3. (HandshakeAlone /\ ReplayAlone /\ StagesAgree)'
    BY <2>1
    DEF IInv, HandshakeAlone, ReplayAlone, StagesAgree, RecordedOnce, At, goroutines, body
  <2>4. EndingKnown' /\ NothingLost'
    BY <2>1 DEF IInv, EndingKnown, NothingLost, Undisturbed, InTransit, At, goroutines, body
  <2> QED
    BY <2>2, <2>3, <2>4 DEF IInv
<1>5. CASE Cancel
  <2>1. TypeOK' /\ CallIsRecord'
    BY <1>5 DEF IInv, TypeOK, CallIsRecord, Cancel, goroutines, body
  <2>2. (HandshakeAlone /\ ReplayAlone /\ StagesAgree)'
    BY <1>5
    DEF IInv, HandshakeAlone, ReplayAlone, StagesAgree, RecordedOnce, At, Cancel, goroutines, body
  <2>3. EndingKnown' /\ NothingLost'
    BY <1>5 DEF IInv, EndingKnown, NothingLost, Undisturbed, InTransit, At, Cancel, goroutines, body
  <2> QED
    BY <2>1, <2>2, <2>3 DEF IInv
<1> QED
  BY <1>2, <1>3, <1>4, <1>5 DEF Consumer

LEMMA InvStep == IInv /\ [Next]_streamVars => IInv'
<1>1. ASSUME IInv, UNCHANGED streamVars
      PROVE  IInv'
  <2>1. TypeOK' /\ CallIsRecord'
    BY <1>1 DEF IInv, TypeOK, CallIsRecord, streamVars
  <2>2. (HandshakeAlone /\ ReplayAlone /\ StagesAgree)'
    BY <1>1 DEF IInv, HandshakeAlone, ReplayAlone, StagesAgree, RecordedOnce, At, streamVars
  <2>3. EndingKnown' /\ NothingLost'
    BY <1>1 DEF IInv, EndingKnown, NothingLost, Undisturbed, InTransit, At, streamVars
  <2> QED
    BY <2>1, <2>2, <2>3 DEF IInv
<1> QED
  BY <1>1, HandshakeStep, ReaderStep, RelayStep, DrainerStep, ConsumerStep DEF Next

(* Every reachable state of a streaming call is typed, its goroutines are  *)
(* at stages that fit together, and no item is lost between them unless    *)
(* the context is cancelled.                                               *)
THEOREM InductiveInvariant == Spec => []IInv
  BY InvInit, InvStep, PTL DEF Spec

(* The variables have their types. *)
THEOREM StreamTyped == Spec => []TypeOK
  BY InductiveInvariant, PTL DEF IInv

LEMMA OrderFromInv == IInv => DeliversInOrder
<1> SUFFICES ASSUME IInv
             PROVE  DeliversInOrder
  OBVIOUS
<1>1. received \in Seq(Items) /\ relay.held \in Seq(Items) /\ scanned \in Seq(Items)
  BY HandsAre DEF IInv, TypeOK
<1>2. IsPrefix(received, scanned)
  BY <1>1, PrefixOfConcat DEF IInv, NothingLost
<1> QED
  BY <1>2 DEF IInv, DeliversInOrder, NothingLost, Undisturbed

(* For a body of any length the consumer is given a prefix of the items    *)
(* made of it, and as long as the context lives what it has not been given *)
(* is in the hands of the relay and the reader, in that order.             *)
THEOREM StreamDeliversInOrder == Spec => []DeliversInOrder
  BY InductiveInvariant, OrderFromInv, PTL

LEMMA WholeFromInv == IInv => FinishedStreamsAreWhole
<1> SUFFICES ASSUME IInv, consumer = "finished", ~ cancelled
             PROVE  /\ received = scanned
                    /\ ending \in {"malformed", "broken"} <=> Contains(received, Err)
  BY DEF FinishedStreamsAreWhole
<1>1. CASE At("replay")
  BY <1>1 DEF IInv, ReplayAlone, EndingKnown
<1>2. CASE At("streaming")
  <2>1. reader.pc = "done" /\ relay.pc = "done"
    BY <1>2 DEF IInv, StagesAgree
  <2>2. received \in Seq(Items) /\ reader.held = <<>> /\ relay.held = <<>>
    BY <2>1, HandsAre DEF IInv, TypeOK
  <2>3. received \o (<<>> \o <<>>) = received
    BY <2>2, EmptySeq, ConcatEmptySeq
  <2>4. received = scanned
    BY <1>2, <2>2, <2>3 DEF IInv, NothingLost, Undisturbed, InTransit
  <2> QED
    BY <2>4 DEF IInv, EndingKnown
<1>3. CASE ~ At("replay") /\ ~ At("streaming")
  BY <1>3 DEF IInv, HandshakeAlone
<1> QED
  BY <1>1, <1>2, <1>3

(* A consumer that finds its channel closed while its context lives has    *)
(* every item, an error item among them exactly if the body broke off or   *)
(* did not parse.                                                          *)
THEOREM StreamFinishesWhole == Spec => []FinishedStreamsAreWhole
  BY InductiveInvariant, WholeFromInv, PTL

LEMMA RecordedFromInv == IInv => RecordedAtTheEnd
  BY StreamAssumption
  DEF IInv, HandshakeAlone, ReplayAlone, StagesAgree, RecordedOnce, RecordedAtTheEnd, At

(* The session is recorded at most once, and only after both goroutines    *)
(* have returned.                                                          *)
THEOREM StreamRecordedAtTheEnd == Spec => []RecordedAtTheEnd
  BY InductiveInvariant, RecordedFromInv, PTL

-----------------------------------------------------------------------------
(* The refinement of PaymentContract. *)

(* Every other step leaves the handshake alone. *)
LEMMA CallOnlyInHandshake ==
    ASSUME [Next]_streamVars, ~ Begin, ~ Handshake
    PROVE  UNCHANGED call
<1>1. CASE Reader
  BY <1>1 DEF Reader, ScanChunk, ScanOther, ScanMalformed, ScanDone, ScanEOF, ScanBreaks,
              ScanCancelled, SendCancelled, OnlyReads
<1>2. CASE Relay \/ Drainer
  BY <1>2 DEF Relay, RelayTakes, RelayEnds, RelayCancelled, Drainer, DrainerTakes, DrainerEnds
<1>3. CASE Consumer \/ Leave \/ Cancel
  BY <1>3 DEF Consumer, Deliver, Replay, Finish, Leave, Cancel
<1>4. CASE UNCHANGED streamVars
  BY <1>4 DEF streamVars
<1> QED
  BY <1>1, <1>2, <1>3, <1>4 DEF Next

(* A quote is in hand while it is answered, and nothing before it came. *)
QuoteInHand ==
    /\ At("idle") => call.offer = NoOffer /\ call.sig = NoOrder
    /\ At("sign") => call.offer \in Offers

LEMMA QuoteStep == IInv /\ QuoteInHand /\ [Next]_streamVars => QuoteInHand'
<1> SUFFICES ASSUME IInv, QuoteInHand, [Next]_streamVars
             PROVE  QuoteInHand'
  OBVIOUS
<1>1. CASE Begin
  BY <1>1 DEF Begin, Moves, QuoteInHand, At
<1>2. CASE Handshake
  <2>1. CASE \E pr \in Offers : ProbePriced(pr)
    BY <2>1 DEF ProbePriced, QuoteInHand, At, IInv, CallIsRecord
  <2>2. CASE Sign
    BY <2>2 DEF Sign, QuoteInHand, At, IInv, CallIsRecord
  <2>3. CASE OpenRefused \/ HandshakeFails \/ Opened \/ \E n \in 0 .. MaxLines : ProbeAnswered(n)
    BY <2>3 DEF OpenRefused, HandshakeFails, Opened, ProbeAnswered, Moves, QuoteInHand, At
  <2> QED
    BY <1>2, <2>1, <2>2, <2>3 DEF Handshake
<1>3. ASSUME UNCHANGED call
      PROVE  QuoteInHand'
  BY <1>3 DEF QuoteInHand, At
<1> QED
  BY <1>1, <1>2, <1>3, CallOnlyInHandshake

LEMMA ContractInit == Init => Wallet!Init
  BY DEF Init, Wallet!Init, StageOf, At

(* What is signed is what the contract accepts. *)
LEMMA SignIsAccepted ==
    ASSUME NEW pr \in Offers, ReachesSigner(pr)
    PROVE  Order(pr) \in Wallet!Orders(pr) /\ Wallet!Acceptable(pr, Order(pr))
<1>1. pr.accepts \in Seq(Range(pr.accepts))
  BY StreamAssumption
<1>2. /\ HasSigner
      /\ pr.url \in {"", "gateway"}
      /\ MaxPaymentAmount # NoCap
      /\ Order(pr).amount \in 1 .. MaxPaymentAmount
      /\ Order(pr).amount <= MaxUint64
      /\ ExpectedRecipient \in {AnyRecipient, Order(pr).payTo}
  BY <1>1, SignedOrder
<1>3. PICK i \in DOMAIN pr.accepts :
         /\ pr.accepts[i].network = "solana" /\ pr.accepts[i].asset = "usdc"
         /\ \/ pr.accepts[i].scheme = "exact"
            \/ pr.accepts[i].scheme = "escrow" /\ Compatible(pr, "exact") = {}
         /\ Order(pr) = [amount |-> pr.accepts[i].amount, payTo |-> pr.accepts[i].payTo]
  BY <1>1, SignedOrder
<1>4. Wallet!IsUSDC(pr.accepts[i]) /\ Wallet!Preferred(pr, pr.accepts[i])
  BY <1>3 DEF Wallet!IsUSDC, Wallet!Preferred, Compatible, IsCompatibleAccept
<1>5. Wallet!WithinCap(Order(pr).amount)
  BY <1>2 DEF Wallet!WithinCap
<1>6. Wallet!Acceptable(pr, Order(pr))
  BY <1>2, <1>3, <1>4, <1>5 DEF Wallet!Acceptable
<1> QED
  BY <1>3, <1>6 DEF Wallet!Orders

LEMMA ContractStep ==
    IInv /\ QuoteInHand /\ [Next]_streamVars => [Wallet!Next]_(Wallet!contractVars)
<1> SUFFICES ASSUME IInv, QuoteInHand, [Next]_streamVars
             PROVE  Wallet!Next \/ UNCHANGED <<StageOf, call.offer, call.sig>>
  BY DEF Wallet!contractVars
<1> USE DEF StageOf, At
<1>1. CASE Begin
  BY <1>1 DEF Begin, Moves, QuoteInHand, Wallet!Next, Wallet!Open
<1>2. CASE \E pr \in Offers : ProbePriced(pr)
  BY <1>2 DEF ProbePriced, IInv, CallIsRecord, Wallet!Next, Wallet!Quote
<1>3. CASE Sign
  <2>1. call.offer \in Offers /\ call.pc = "sign" /\ ReachesSigner(call.offer)
    BY <1>3 DEF QuoteInHand, Sign
  <2>2. /\ Order(call.offer) \in Wallet!Orders(call.offer)
        /\ Wallet!Acceptable(call.offer, Order(call.offer))
    BY <2>1, SignIsAccepted
  <2>3. call'.pc = "open" /\ call'.sig = Order(call.offer) /\ call'.offer = call.offer
    BY <1>3 DEF Sign, IInv, CallIsRecord
  <2>4. Wallet!SignOrder
    BY <2>1, <2>2, <2>3 DEF Wallet!SignOrder
  <2> QED
    BY <2>4 DEF Wallet!Next
<1>4. CASE OpenRefused \/ HandshakeFails \/ Opened \/ \E n \in 0 .. MaxLines : ProbeAnswered(n)
  <2>1. /\ call.pc \in {"probe", "sign", "open"}
        /\ call'.pc \in {"failed", "streaming", "replay"}
        /\ call'.offer = NoOffer /\ call'.sig = NoOrder
    BY <1>4 DEF OpenRefused, HandshakeFails, Opened, ProbeAnswered, Moves
  <2> QED
    BY <2>1 DEF Wallet!Next, Wallet!Close
<1>5. ASSUME UNCHANGED call
      PROVE  UNCHANGED <<StageOf, call.offer, call.sig>>
  BY <1>5
<1> QED
  BY <1>1, <1>2, <1>3, <1>4, <1>5, CallOnlyInHandshake DEF Handshake

(* For any 402 body, with any number of entries, the streaming call signs  *)
(* once, what one acceptable entry of the quote just received asks for.    *)
THEOREM StreamKeepsContract == Spec => StreamHonoursContract
<1>1. Init => QuoteInHand
  BY DEF Init, QuoteInHand, At
<1> QED
  BY <1>1, InductiveInvariant, QuoteStep, ContractInit, ContractStep, PTL
  DEF Spec, StreamHonoursContract, Wallet!Spec

-----------------------------------------------------------------------------
(* The goroutines wind down. *)

(* What each stage is worth, as far as the stages of a stream agree. *)
LEMMA StepsAre ==
    ASSUME IInv, At("streaming")
    PROVE  /\ StepsToQuiet \in 0 .. 6
           /\ StepsToQuiet = 0 <=> Quiet
<1>1. /\ reader.pc \in {"scan", "send", "done"}
      /\ relay.pc \in {"receive", "deliver", "done"}
      /\ relay.pc # "done" => drainer = "none"
  BY HandsAre DEF IInv, StagesAgree
<1>2. CASE relay.pc = "done"
  BY <1>1, <1>2 DEF StepsToQuiet, Quiet
<1>3. CASE relay.pc # "done"
  BY <1>1, <1>3 DEF StepsToQuiet, Quiet
<1> QED
  BY <1>2, <1>3

(* A reader that hands over or gives up comes nearer its end by more than  *)
(* a relay that takes over goes back.                                      *)
LEMMA StepLowers ==
    ASSUME IInv, At("streaming"), StreamDone, [Next]_streamVars, goroutines' # goroutines
    PROVE  StepsToQuiet' < StepsToQuiet
<1>1. /\ reader.pc \in {"scan", "send", "done"}
      /\ relay.pc \in {"receive", "deliver", "done"}
      /\ relay.pc # "done" => drainer = "none"
  BY HandsAre DEF IInv, StagesAgree
<1>2. CASE Reader
  <2>1. ScanCancelled \/ SendCancelled
    BY <1>2 DEF Reader, ScanChunk, ScanOther, ScanMalformed, ScanDone, ScanEOF, ScanBreaks, Scans
  <2>2. reader.pc \in {"scan", "send"} /\ reader'.pc = "done" /\ UNCHANGED <<relay, drainer>>
    BY <2>1 DEF ScanCancelled, SendCancelled, Closes, OnlyReads
  <2> QED
    BY <1>1, <2>2 DEF StepsToQuiet
<1>3. CASE RelayTakes \/ DrainerTakes
  <2>1. /\ reader.pc = "send" /\ reader'.pc \in {"scan", "done"}
        /\ UNCHANGED drainer
        /\ \/ relay.pc = "receive" /\ relay'.pc = "deliver"
           \/ relay' = relay
    BY <1>3 DEF RelayTakes, DrainerTakes, HandedOver
  <2> QED
    BY <1>1, <2>1 DEF StepsToQuiet
<1>4. CASE RelayEnds \/ RelayCancelled
  <2>1. /\ relay.pc \in {"receive", "deliver"} /\ relay'.pc = "done" /\ reader' = reader
        /\ drainer = "none" /\ drainer' \in {"none", "draining"}
    BY <1>1, <1>4, HandsAre DEF RelayEnds, RelayCancelled, IInv
  <2> QED
    BY <1>1, <2>1 DEF StepsToQuiet
<1>5. CASE DrainerEnds
  BY <1>1, <1>5 DEF DrainerEnds, StepsToQuiet
<1>6. CASE Deliver
  <2>1. /\ relay.pc = "deliver" /\ relay'.pc = "receive"
        /\ UNCHANGED <<reader, drainer>>
    BY <1>6 DEF Deliver
  <2> QED
    BY <1>1, <2>1 DEF StepsToQuiet
<1>7. ~ Begin /\ ~ Handshake
  BY DEF At, Begin, Handshake, ProbeAnswered, ProbePriced, Sign, OpenRefused, HandshakeFails, Opened
<1>8. ~ (Replay \/ Finish \/ Leave \/ Cancel \/ UNCHANGED streamVars)
  BY DEF Replay, Finish, Leave, Cancel, goroutines, streamVars
<1> QED
  BY <1>2, <1>3, <1>4, <1>5, <1>6, <1>7, <1>8 DEF Next, Relay, Drainer, Consumer

(* Once the context is done a stream is at most six steps of its own       *)
(* goroutines from having none left, however long its body; it cannot wait *)
(* on the network or its consumer for ever, for no step but these is left  *)
(* to them.                                                                *)
THEOREM StreamWindsDown == Spec => WindsDown
  BY InductiveInvariant, StepsAre, StepLowers, PTL DEF Spec, WindsDown

-----------------------------------------------------------------------------
(* The refinement of StreamContract. *)

LEMMA ChannelInit == Init => Channel!Init
  BY DEF Init, Channel!Init

(* The goroutines hold two items at most between them, and none while the  *)
(* reader scans on and the relay waits.                                    *)
LEMMA HeldBetween ==
    ASSUME IInv, reader.pc = "scan", ~ StreamDone
    PROVE  /\ Len(scanned) \in Nat /\ Len(received) \in Nat
           /\ Len(scanned) - Len(received) < 2
           /\ consumer # "finished"
<1>1. At("streaming") /\ ~ cancelled /\ relay.pc # "done"
  BY ReaderAtWork DEF StreamDone
<1>2. /\ received \in Seq(Items) /\ scanned \in Seq(Items) /\ relay.held \in Seq(Items)
      /\ reader.held = <<>>
      /\ relay.held = <<>> \/ \E item \in Items : relay.held = <<item>>
  BY HandsAre DEF IInv, TypeOK
<1>3. received \o relay.held = scanned
  <2>1. received \o (relay.held \o <<>>) = scanned
    BY <1>1, <1>2 DEF IInv, NothingLost, Undisturbed, InTransit
  <2>2. relay.held \o <<>> = relay.held
    BY <1>2, ConcatEmptySeq
  <2> QED
    BY <2>1, <2>2
<1>4. Len(relay.held) = 0 \/ Len(relay.held) = 1
  <2>1. CASE relay.held = <<>>
    BY <2>1
  <2>2. CASE \E item \in Items : relay.held = <<item>>
    BY <2>2
  <2> QED
    BY <1>2, <2>1, <2>2
<1>5. Len(scanned) = Len(received) + Len(relay.held)
  BY <1>2, <1>3, ConcatProperties
<1>6. Len(received) \in Nat /\ Len(scanned) \in Nat
  BY <1>2
<1>7. consumer # "finished"
  BY <1>1 DEF IInv, StagesAgree
<1>8. Len(scanned) - Len(received) < 2
  <2> DEFINE n == Len(scanned)
             m == Len(received)
             k == Len(relay.held)
  <2>1. n = m + k /\ (k = 0 \/ k = 1) /\ m \in Nat
    BY <1>4, <1>5, <1>6
  <2> HIDE DEF n, m, k
  <2>2. n - m < 2
    BY <2>1
  <2> QED
    BY <2>2 DEF n, m
<1> QED
  BY <1>6, <1>7, <1>8

LEMMA PutStep ==
    ASSUME IInv, OnlyReads, reader.pc = "scan", ~ StreamDone,
           NEW item \in Items, HoldsNext(item)
    PROVE  Channel!Put
  BY HeldBetween DEF HoldsNext, OnlyReads, StreamDone, Channel!Put

(* What the relay delivers is the first item not yet taken. *)
LEMMA TakeStep ==
    ASSUME IInv, Deliver
    PROVE  Channel!Take
<1>1. PICK item \in Items : relay.held = <<item>>
  BY HandsAre DEF Deliver, IInv
<1>2. /\ received \in Seq(Items) /\ scanned \in Seq(Items)
      /\ IsPrefix(received \o relay.held, scanned)
  BY DEF IInv, TypeOK, NothingLost
<1>3. received \o relay.held = Append(received, item)
  BY <1>1, <1>2, AppendIsConcat
<1>4. /\ Append(received, item) \in Seq(Items)
      /\ Len(Append(received, item)) = Len(received) + 1
      /\ Append(received, item)[Len(received) + 1] = item
      /\ Len(received) \in Nat /\ Len(scanned) \in Nat
  BY <1>2, AppendProperties
<1>5. Len(received) < Len(scanned) /\ scanned[Len(received) + 1] = item
  <2>1. /\ Len(Append(received, item)) <= Len(scanned)
        /\ \A i \in 1 .. Len(Append(received, item)) : Append(received, item)[i] = scanned[i]
    BY <1>2, <1>3, <1>4, PrefixByElements
  <2> QED
    BY <1>4, <2>1
<1>6. consumer = "reading" /\ received' = Append(received, item)
  BY <1>3 DEF Deliver
<1> QED
  BY <1>5, <1>6 DEF Deliver, body, Channel!Take

(* The channel closes empty, unless the context was cancelled. *)
LEMMA CloseStep ==
    ASSUME IInv, Finish
    PROVE  Channel!Close
<1>1. received = scanned \/ cancelled
  <2>1. CASE ~ At("replay") /\ ~ cancelled
    <3>1. At("streaming") /\ relay.pc = "done"
      BY <2>1 DEF Finish, IInv, HandshakeAlone
    <3>2. reader.pc = "done" /\ relay.held = <<>> /\ reader.held = <<>>
      BY <2>1, <3>1, HandsAre DEF IInv, StagesAgree
    <3>3. received \in Seq(Items) /\ received \o (<<>> \o <<>>) = received
      BY EmptySeq, ConcatEmptySeq DEF IInv, TypeOK
    <3> QED
      BY <2>1, <3>1, <3>2, <3>3 DEF IInv, NothingLost, Undisturbed, InTransit
  <2>2. CASE At("replay")
    BY <2>2 DEF Finish, IInv, ReplayAlone
  <2> QED
    BY <2>1, <2>2
<1> QED
  BY <1>1 DEF Finish, body, Channel!Close

LEMMA ChannelStep == IInv /\ [Next]_streamVars => [Channel!Next]_(Channel!contractVars)
<1> SUFFICES ASSUME IInv, [Next]_streamVars
             PROVE  \/ Channel!Fill \/ Channel!Put \/ Channel!Take \/ Channel!Close \/ Channel!Cancel
                    \/ UNCHANGED <<scanned, received, cancelled, consumer = "finished">>
  BY DEF Channel!Next, Channel!contractVars
<1>1. CASE \E n \in 0 .. MaxLines : ProbeAnswered(n)
  <2>1. scanned = <<>> /\ consumer = "waiting"
    BY <1>1 DEF ProbeAnswered, IInv, HandshakeAlone, At
  <2>2. scanned' \in Seq(Items)
    BY <1>1, HandshakeStep DEF Handshake, IInv, TypeOK
  <2> QED
    BY <1>1, <2>1, <2>2 DEF ProbeAnswered, Channel!Fill
<1>2. CASE ScanChunk \/ ScanMalformed \/ ScanBreaks
  <2>1. PICK item \in Items : HoldsNext(item)
    <3>1. CASE ScanChunk
      <4>1. lines' \in 1 .. MaxLines
        BY <3>1, StreamAssumption DEF ScanChunk, Scans, IInv, TypeOK
      <4> QED
        BY <3>1, <4>1, ItemsAre DEF ScanChunk
    <3>2. CASE ScanMalformed \/ ScanBreaks
      BY <3>2, ItemsAre DEF ScanMalformed, ScanBreaks
    <3> QED
      BY <1>2, <3>1, <3>2
  <2> QED
    BY <1>2, <2>1, PutStep DEF ScanChunk, ScanMalformed, ScanBreaks, Scans
<1>3. CASE Deliver
  BY <1>3, TakeStep
<1>4. CASE Replay
  <2>1. consumer = "reading"
    BY <1>4 DEF Replay
  <2> QED
    BY <1>4, <2>1 DEF Replay, body, Channel!Take
<1>5. CASE Finish
  BY <1>5, CloseStep
<1>6. CASE Cancel
  BY <1>6 DEF Cancel, body, Channel!Cancel
<1>7. CASE Begin \/ Sign \/ OpenRefused \/ HandshakeFails \/ \E pr \in Offers : ProbePriced(pr)
  BY <1>7 DEF Begin, Sign, OpenRefused, HandshakeFails, ProbePriced, OnlyHandshakes, body
<1>8. CASE Opened
  BY <1>8 DEF Opened, body, IInv, HandshakeAlone, At
<1>9. CASE ScanOther \/ ScanDone \/ ScanEOF \/ ScanCancelled \/ SendCancelled
  BY <1>9 DEF ScanOther, ScanDone, ScanEOF, ScanCancelled, SendCancelled, OnlyReads
<1>10. CASE Relay \/ Drainer
  BY <1>10 DEF Relay, RelayTakes, RelayEnds, RelayCancelled,
               Drainer, DrainerTakes, DrainerEnds, body
<1>11. CASE Leave \/ UNCHANGED streamVars
  BY <1>11 DEF Leave, body, streamVars
<1> QED
  BY <1>1, <1>2, <1>3, <1>4, <1>5, <1>6, <1>7, <1>8, <1>9, <1>10, <1>11
  DEF Next, Handshake, Reader, Consumer

(* For a body of any length: whatever the goroutines interleave, the       *)
(* consumer sees one channel with room for two items, filled in the order  *)
(* of the body, which closes with items inside only after a cancellation.  *)
THEOREM StreamActsAsOneChannel == Spec => ActsAsOneChannel
  BY InductiveInvariant, ChannelInit, ChannelStep, PTL DEF Spec, ActsAsOneChannel, Channel!Spec
=============================================================================
