--------------------------- MODULE PaymentContract ---------------------------
(***************************************************************************)
(* What one call of Chat promises its wallet.  Nothing is signed but in    *)
(* answer to a quote, the 402 body, just received; what is signed is what  *)
(* one acceptable entry of that quote asks for; and a signature is used    *)
(* for one request, after which the call can sign again only for a new     *)
(* quote.  Acceptable is said without the order in which the code looks.   *)
(***************************************************************************)
EXTENDS Integers

CONSTANTS Quotes, NoQuote, NoOrder, HasSigner,
          MaxPaymentAmount, NoCap, ExpectedRecipient, AnyRecipient, MaxUint64

VARIABLES
    stage,        \* "closed", "open", "quoted" or "signed"
    quote,        \* the quote being answered, or NoQuote
    signed        \* the order just signed, or NoOrder

contractVars == <<stage, quote, signed>>

Init == stage = "closed" /\ quote = NoQuote /\ signed = NoOrder

IsUSDC(a) == a.network = "solana" /\ a.asset = "usdc"

(* A scheme is paid under only when no better one is on offer. *)
Preferred(q, a) ==
    \/ a.scheme = "exact"
    \/ /\ a.scheme = "escrow"
       /\ \A i \in DOMAIN q.accepts : q.accepts[i].scheme = "exact" => ~ IsUSDC(q.accepts[i])

WithinCap(amount) ==
    /\ MaxPaymentAmount # NoCap
    /\ amount \in 1 .. MaxPaymentAmount
    /\ amount <= MaxUint64

Acceptable(q, order) ==
    /\ HasSigner
    /\ q.url \notin {"foreign", "malformed"}
    /\ WithinCap(order.amount)
    /\ ExpectedRecipient # AnyRecipient => order.payTo = ExpectedRecipient
    /\ \E i \in DOMAIN q.accepts :
          LET a == q.accepts[i]
          IN  /\ IsUSDC(a)
              /\ Preferred(q, a)
              /\ order = [amount |-> a.amount, payTo |-> a.payTo]

Orders(q) == {[amount |-> q.accepts[i].amount, payTo |-> q.accepts[i].payTo] :
                 i \in DOMAIN q.accepts}

Open ==
    /\ stage = "closed"
    /\ stage' = "open"
    /\ UNCHANGED <<quote, signed>>

Quote ==
    /\ stage = "open"
    /\ stage' = "quoted"
    /\ quote' \in Quotes
    /\ UNCHANGED signed

SignOrder ==
    /\ stage = "quoted"
    /\ stage' = "signed"
    /\ \E order \in Orders(quote) : Acceptable(quote, order) /\ signed' = order
    /\ UNCHANGED quote

Close ==
    /\ stage # "closed"
    /\ stage' = "closed"
    /\ quote' = NoQuote
    /\ signed' = NoOrder

Next == Open \/ Quote \/ SignOrder \/ Close

Spec == Init /\ [][Next]_contractVars
=============================================================================
