---------------------------- MODULE MCChatStream ----------------------------
(***************************************************************************)
(* Values for the constants of ChatStream.                                 *)
(***************************************************************************)
EXTENDS ChatStreamSpec

Pay(scheme, amount) ==
    [scheme |-> scheme, network |-> "solana", asset |-> "usdc",
     amount |-> amount, payTo |-> "gw"]

(* Quotes to pay, to refuse and not to parse. *)
QuoteSet ==
    {[url |-> "", accepts |-> <<Pay("exact", n)>>] : n \in {0, 3, 4}}
    \cup {[url |-> u, accepts |-> <<Pay("escrow", 2), Pay("exact", 3)>>] :
             u \in {"gateway", "foreign"}}
    \cup {[url |-> "", accepts |-> <<Pay("lightning", 1)>>]}
=============================================================================
