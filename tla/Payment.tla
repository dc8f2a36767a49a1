------------------------------- MODULE Payment -------------------------------
(***************************************************************************)
(* What the client does with a 402 answer before it signs: the selection   *)
(* and validation functions of client.go and the scheme check of types.go. *)
(*                                                                         *)
(* An amount is a text in the code.  Here it is the number it denotes; a   *)
(* negative number stands for every text strconv.ParseUint refuses: empty  *)
(* after trimming, signed, or not decimal.                                 *)
(***************************************************************************)
EXTENDS Integers, Sequences, FiniteSetsExt

CONSTANTS
    HasSigner,          \* c.signer # nil
    MaxPaymentAmount,   \* *config.MaxPaymentAmount, or NoCap for nil
    NoCap,
    ExpectedRecipient,  \* config.ExpectedRecipient, or AnyRecipient for ""
    AnyRecipient,
    MaxUint64           \* the largest value ParseUint(_, 10, 64) returns

ASSUME PaymentAssumption ==
    /\ HasSigner \in BOOLEAN
    /\ MaxUint64 \in Nat
    /\ MaxPaymentAmount \in (0 .. MaxUint64) \cup {NoCap}
    /\ NoCap \notin Int

Schemes == {"exact", "escrow"}

(* 0 is what parseAmount never returns without an error. *)
ParseAmount(text) == IF text \in 1 .. MaxUint64 THEN text ELSE 0

(* Unmarshalling fails when any entry names a scheme the SDK does not know. *)
ParsesAsPaymentRequired(pr) ==
    \A i \in DOMAIN pr.accepts : pr.accepts[i].scheme \in Schemes

IsCompatibleAccept(a, scheme) ==
    /\ a.scheme = scheme
    /\ a.network = "solana"
    /\ a.asset = "usdc"

(* The entries of the 402 that can be paid under the scheme. *)
Compatible(pr, scheme) ==
    {i \in DOMAIN pr.accepts : IsCompatibleAccept(pr.accepts[i], scheme)}

(* The index of the entry to pay, 0 when there is none: the first exact    *)
(* one, else the first escrow one.                                         *)
FindCompatibleScheme(pr) ==
    CASE Compatible(pr, "exact") # {} -> Min(Compatible(pr, "exact"))
      [] Compatible(pr, "exact") = {} /\ Compatible(pr, "escrow") # {} ->
            Min(Compatible(pr, "escrow"))
      [] OTHER -> 0

ValidateResourceOrigin(url) == url \in {"", "gateway"}

ValidatePayment(a) ==
    /\ ExpectedRecipient \in {AnyRecipient, a.payTo}
    /\ a.network = "solana"
    /\ a.asset = "usdc"
    /\ MaxPaymentAmount # NoCap
    /\ ParseAmount(a.amount) > 0
    /\ ParseAmount(a.amount) <= MaxPaymentAmount

(* signPaymentRequired reaches the signer. *)
ReachesSigner(pr) ==
    /\ HasSigner
    /\ FindCompatibleScheme(pr) # 0
    /\ ValidatePayment(pr.accepts[FindCompatibleScheme(pr)])
    /\ ValidateResourceOrigin(pr.url)

(* What it asks the signer to pay. *)
Order(pr) ==
    LET a == pr.accepts[FindCompatibleScheme(pr)]
    IN  [amount |-> ParseAmount(a.amount), payTo |-> a.payTo]
=============================================================================
