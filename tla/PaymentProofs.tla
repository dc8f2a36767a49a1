---------------------------- MODULE PaymentProofs ----------------------------
(***************************************************************************)
(* What the order in which the client looks through a 402 body comes to:   *)
(* the entry it validates and pays is one a payer may pay, for a body with *)
(* any number of entries.  Both kinds of call rest on this.                *)
(***************************************************************************)
EXTENDS Payment, WellFoundedInduction, TLAPS

(* Min of the library finds the least index of a list's nonempty subset. *)
LEMMA LeastIndex ==
    ASSUME NEW n \in Nat, NEW I \in SUBSET (1 .. n), I # {}
    PROVE  Min(I) \in I
<1>1. PICK i \in I : \A j \in I : ~ (<<j, i>> \in OpToRel(<, Nat))
  <2>1. I \subseteq Nat
    OBVIOUS
  <2> QED
    BY <2>1, NatLessThanWellFounded, WFMin, Zenon
<1>2. \A j \in I : i <= j
  <2> SUFFICES ASSUME NEW j \in I, ~ (i <= j)
               PROVE  FALSE
    OBVIOUS
  <2>1. i \in Nat /\ j \in Nat /\ j < i
    OBVIOUS
  <2> QED
    BY <1>1, <2>1 DEF OpToRel
<1> QED
  BY <1>2, Zenon DEF Min

(* The entry the client picks can be paid, under escrow only when no entry *)
(* can be paid under exact.                                                *)
LEMMA PicksPayable ==
    ASSUME NEW pr, NEW S, pr.accepts \in Seq(S), FindCompatibleScheme(pr) # 0
    PROVE  LET i == FindCompatibleScheme(pr)
           IN  \/ i \in Compatible(pr, "exact")
               \/ i \in Compatible(pr, "escrow") /\ Compatible(pr, "exact") = {}
<1> DEFINE n == Len(pr.accepts)
<1>1. n \in Nat /\ DOMAIN pr.accepts = 1 .. n
  OBVIOUS
<1>2. \A scheme : Compatible(pr, scheme) \in SUBSET (1 .. n)
  BY <1>1 DEF Compatible
<1>3. \A scheme : Compatible(pr, scheme) # {} =>
                     Min(Compatible(pr, scheme)) \in Compatible(pr, scheme)
  <2> HIDE DEF n
  <2> QED
    BY <1>1, <1>2, LeastIndex, Zenon
<1> QED
  BY <1>3, Zenon DEF FindCompatibleScheme

(* A payment that reaches the signer: the entry it is for and what         *)
(* validation has made sure of.                                            *)
LEMMA SignedOrder ==
    ASSUME NEW pr, NEW S, pr.accepts \in Seq(S), ReachesSigner(pr)
    PROVE  /\ HasSigner
           /\ pr.url \in {"", "gateway"}
           /\ MaxPaymentAmount # NoCap
           /\ Order(pr).amount \in 1 .. MaxPaymentAmount
           /\ Order(pr).amount <= MaxUint64
           /\ ExpectedRecipient \in {AnyRecipient, Order(pr).payTo}
           /\ \E i \in DOMAIN pr.accepts :
                 /\ pr.accepts[i].network = "solana" /\ pr.accepts[i].asset = "usdc"
                 /\ \/ pr.accepts[i].scheme = "exact"
                    \/ /\ pr.accepts[i].scheme = "escrow"
                       /\ Compatible(pr, "exact") = {}
                 /\ Order(pr) = [amount |-> pr.accepts[i].amount,
                                 payTo |-> pr.accepts[i].payTo]
<1> DEFINE i == FindCompatibleScheme(pr)
           a == pr.accepts[i]
<1>1. /\ HasSigner /\ i # 0 /\ ValidatePayment(a) /\ pr.url \in {"", "gateway"}
  BY DEF ReachesSigner, ValidateResourceOrigin
<1>2. \/ i \in Compatible(pr, "exact")
      \/ i \in Compatible(pr, "escrow") /\ Compatible(pr, "exact") = {}
  BY <1>1, PicksPayable
<1>3. /\ i \in DOMAIN pr.accepts /\ a.network = "solana" /\ a.asset = "usdc"
      /\ a.scheme = "exact" \/ (a.scheme = "escrow" /\ Compatible(pr, "exact") = {})
  BY <1>2 DEF Compatible, IsCompatibleAccept
<1>4. Order(pr) = [amount |-> ParseAmount(a.amount), payTo |-> a.payTo]
  BY DEF Order
<1> HIDE DEF i, a
<1>5. /\ ExpectedRecipient \in {AnyRecipient, a.payTo}
      /\ MaxPaymentAmount # NoCap
      /\ ParseAmount(a.amount) > 0 /\ ParseAmount(a.amount) <= MaxPaymentAmount
  BY <1>1 DEF ValidatePayment
<1>6. MaxPaymentAmount \in 0 .. MaxUint64 /\ MaxUint64 \in Nat
  BY <1>5, PaymentAssumption
<1>7. /\ ParseAmount(a.amount) = a.amount
      /\ a.amount \in 1 .. MaxPaymentAmount /\ a.amount <= MaxUint64
  BY <1>5, <1>6 DEF ParseAmount
<1>8. Order(pr) = [amount |-> a.amount, payTo |-> a.payTo]
  BY <1>4, <1>7
<1>9. /\ i \in DOMAIN pr.accepts
      /\ pr.accepts[i].network = "solana" /\ pr.accepts[i].asset = "usdc"
      /\ \/ pr.accepts[i].scheme = "exact"
         \/ pr.accepts[i].scheme = "escrow" /\ Compatible(pr, "exact") = {}
      /\ Order(pr) = [amount |-> pr.accepts[i].amount, payTo |-> pr.accepts[i].payTo]
  BY <1>3, <1>8 DEF a
<1>10. Order(pr).amount = a.amount /\ Order(pr).payTo = a.payTo
  BY <1>8
<1> QED
  BY <1>1, <1>5, <1>7, <1>9, <1>10
=============================================================================
