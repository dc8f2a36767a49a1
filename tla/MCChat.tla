------------------------------- MODULE MCChat -------------------------------
(***************************************************************************)
(* Values for the constants of Chat.  Each cfg switches on the features    *)
(* its question is about.                                                  *)
(***************************************************************************)
EXTENDS ChatSpec, TLC

User(content) == [role |-> "user", content |-> content]
Assistant(content) == [role |-> "assistant", content |-> content]

(* Conversations that open alike and are equally long: as many cache keys, *)
(* one session.                                                            *)
Twins == {<<User("hi"), Assistant(said), User("go")>> : said \in {"yes", "no"}}

Single == {<<User("hi")>>}

(* Conversations that read alike once roles and contents are written one *)
(* after the other; the second has no role name in any content.          *)
Lookalikes ==
    {<<User("hi"), Assistant("ool")>>,
     <<User("hiassistan"), [role |-> "tool", content |-> ""]>>,
     <<User("hiassistantool")>>}

Accept(scheme, network, asset, amount, payTo) ==
    [scheme |-> scheme, network |-> network, asset |-> asset,
     amount |-> amount, payTo |-> payTo]

Pay(scheme, amount) == Accept(scheme, "solana", "usdc", amount, "gw")
Quote(url, accepts) == [url |-> url, accepts |-> accepts]

(* With a cap of 3 and 64-bit integers ending at 7. *)
QuoteSet ==
    {Quote("", <<Pay("exact", n)>>) : n \in {-1, 0, 1, 3, 4, 7, 9}}
    \cup {Quote(u, <<Pay("escrow", 2), Pay("exact", 3)>>) :
             u \in {"gateway", "foreign", "malformed"}}
    \cup {Quote("", <<>>),
          Quote("", <<Pay("lightning", 1), Pay("exact", 1)>>),
          Quote("", <<Accept("exact", "solana", "sol", 1, "gw"), Pay("escrow", 2)>>),
          Quote("", <<Accept("exact", "base", "usdc", 1, "gw"), Pay("escrow", 2)>>),
          Quote("", <<Accept("exact", "solana", "usdc", 1, "other"), Pay("escrow", 2)>>)}

NoQuotes == {}

(* Callers are interchangeable; used with invariants only. *)
Symmetry == Permutations(Callers)
=============================================================================
