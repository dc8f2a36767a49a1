------------------------- MODULE BalanceMonitorSpec -------------------------
(***************************************************************************)
(* Properties of BalanceMonitor.                                           *)
(*                                                                         *)
(* Fairness: a poll runs on, given that fetchBalance returns; the          *)
(* callbacks must not block (comment of SetOnPoll).  A select with several *)
(* ready channels picks one at random, so the closed stop channel is taken *)
(* in the end however often a tick wins: strong fairness.                  *)
(***************************************************************************)
EXTENDS BalanceMonitor

FairMonitorSpec ==
    MonitorSpec /\ \A p \in Pollers : WF_monitorVars(Poll(p)) /\ SF_monitorVars(Quit(p))

(* A poll past its fetch holds a balance that was fetched.                 *)
TypeOK ==
    /\ poll \in [Pollers ->
                   [pc : {"off", "fetch", "store", "report", "alarm", "select", "done"},
                    balance : Balances \cup {NoBalance}, wasLow : BOOLEAN]]
    /\ \A p \in Pollers :
          poll[p].pc \in {"store", "report", "alarm"} => poll[p].balance \in Balances
    /\ balance \in Balances \cup {NoBalance}
    /\ wasLow \in BOOLEAN
    /\ stopped \in BOOLEAN
    /\ lastBalance \in Balances \cup {NoBalance}
    /\ crossed \subseteq Pollers

(* onLowBalance is called once for every time the stored balance goes from *)
(* not low to low, by the poll that stored it, and at no other time,       *)
(* however the polls of several pollers interleave (wasLow in poll).       *)
AlarmsAreCrossings ==
    crossed = {p \in Pollers : poll[p].pc \in {"report", "alarm"} /\ OwesAlarm(p)}

(* With one poller the balance the guard of Chat reads is the last one     *)
(* stored, but for the moment between the unlock and the callback.  Two    *)
(* pollers may report in the other order and leave the client behind.      *)
StartedOnce == \A p, q \in Pollers : ~ Polls(p, "off") /\ ~ Polls(q, "off") => p = q

ClientFollowsMonitor ==
    StartedOnce /\ HasOnPoll =>
        \/ lastBalance = balance
        \/ \E p \in Pollers : Polls(p, "report") /\ poll[p].balance = balance

(* Stop, called at any time, ends every poller, the ones started after it  *)
(* included (after their first poll).                                      *)
StopEndsPolling ==
    \A p \in Pollers : stopped /\ ~ Polls(p, "off") ~> Polls(p, "done")

(* Once every poll brings the same balance (the wallet is empty, say) and  *)
(* polls keep succeeding, the balance the guard of Chat reads becomes that *)
(* one and stays it: a report that raced another may overwrite it with an  *)
(* older balance, but not for good.                                        *)
ClientConverges ==
    \A b \in Balances :
        /\ <>[](\A p \in Pollers : poll[p].balance \in {b, NoBalance})
        /\ []<>(\E p \in Pollers : Polls(p, "store"))
        => <>[](HasOnPoll => lastBalance = b)
=============================================================================
