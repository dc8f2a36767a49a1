------------------------ MODULE BalanceMonitorProofs ------------------------
(***************************************************************************)
(* Proofs of the invariants of BalanceMonitor for any number of pollers.   *)
(*                                                                         *)
(* AlarmsAreCrossings needs wasLow to be the memory of the last stored     *)
(* balance (WasLowRemembers), and ClientFollowsMonitor needs a lone poller *)
(* to report what is stored (ReportsTheStored).                            *)
(***************************************************************************)
EXTENDS BalanceMonitorSpec, TLAPS

(* wasLow says whether the balance last stored is low. *)
WasLowRemembers == Alarmed => (wasLow <=> balance # NoBalance /\ Low(balance))

(* A lone poller tells the client the balance that is stored. *)
ReportsTheStored ==
    StartedOnce => \A p \in Pollers : Polls(p, "report") => poll[p].balance = balance

IInv ==
    /\ TypeOK
    /\ WasLowRemembers /\ AlarmsAreCrossings
    /\ ReportsTheStored /\ ClientFollowsMonitor

-----------------------------------------------------------------------------

LEMMA InitTyped == MonitorInit => TypeOK
<1> SUFFICES ASSUME MonitorInit PROVE TypeOK
  OBVIOUS
<1>1. \A p \in Pollers : poll[p] = NotStarted
  BY DEF MonitorInit
<1>2. poll \in [Pollers ->
                  [pc : {"off", "fetch", "store", "report", "alarm", "select", "done"},
                   balance : Balances \cup {NoBalance}, wasLow : BOOLEAN]]
  BY DEF MonitorInit, NotStarted
<1>3. \A p \in Pollers : poll[p].pc = "off"
  <2> NotStarted.pc = "off"
    BY DEF NotStarted
  <2> QED BY <1>1
<1> QED BY <1>2, <1>3 DEF MonitorInit, TypeOK

(* A comparison is a truth value. *)
LEMMA LowTyped == ASSUME NEW b \in Int, Threshold \in Int PROVE Low(b) \in BOOLEAN
  BY DEF Low

LEMMA StepTyped == TypeOK /\ [MonitorNext]_monitorVars => TypeOK'
<1> SUFFICES ASSUME TypeOK, [MonitorNext]_monitorVars PROVE TypeOK'
  OBVIOUS
<1> USE DEF TypeOK, Polls
<1>1. CASE Stop
  BY <1>1 DEF Stop
<1>2. ASSUME NEW p \in Pollers, Start(p) PROVE TypeOK'
  BY <1>2 DEF Start
<1>3. ASSUME NEW p \in Pollers, NEW b \in Balances, Fetched(p, b) PROVE TypeOK'
  BY <1>3 DEF Fetched
<1>4. ASSUME NEW p \in Pollers, FetchFails(p) PROVE TypeOK'
  BY <1>4 DEF FetchFails
<1>5. ASSUME NEW p \in Pollers, Store(p) PROVE TypeOK'
  <2>1. wasLow' \in BOOLEAN
    <3>1. CASE Alarmed
      <4>1. Threshold \in Int /\ poll[p].balance \in Int
        BY <1>5, <3>1, MonitorAssumption DEF Store, Alarmed
      <4>2. wasLow' = Low(poll[p].balance)
        BY <1>5, <3>1 DEF Store
      <4> QED BY <4>1, <4>2, LowTyped
    <3>2. CASE ~ Alarmed
      BY <1>5, <3>2 DEF Store
    <3> QED BY <3>1, <3>2
  <2>2. crossed' \subseteq Pollers
    BY <1>5 DEF Store
  <2> QED BY <1>5, <2>1, <2>2 DEF Store
<1>6. ASSUME NEW p \in Pollers, Report(p) PROVE TypeOK'
  BY <1>6 DEF Report
<1>7. ASSUME NEW p \in Pollers, Alarm(p) PROVE TypeOK'
  BY <1>7 DEF Alarm, NotStarted
<1>8. ASSUME NEW p \in Pollers, TickerFires(p) PROVE TypeOK'
  BY <1>8 DEF TickerFires
<1>9. ASSUME NEW p \in Pollers, Quit(p) PROVE TypeOK'
  BY <1>9 DEF Quit
<1>10. CASE UNCHANGED monitorVars
  BY <1>10 DEF monitorVars
<1> QED
  BY <1>1, <1>2, <1>3, <1>4, <1>5, <1>6, <1>7, <1>8, <1>9, <1>10
     DEF MonitorNext, Poll

LEMMA StepRemembers ==
    TypeOK /\ WasLowRemembers /\ [MonitorNext]_monitorVars => WasLowRemembers'
<1> SUFFICES ASSUME TypeOK, WasLowRemembers, [MonitorNext]_monitorVars
             PROVE WasLowRemembers'
  OBVIOUS
<1>1. ASSUME NEW p \in Pollers, Store(p) PROVE WasLowRemembers'
  <2>1. balance' \in Balances /\ balance' # NoBalance
    BY <1>1, MonitorAssumption DEF Store, Polls, TypeOK
  <2>2. Alarmed => wasLow' = Low(balance')
    BY <1>1 DEF Store
  <2> QED BY <2>1, <2>2 DEF WasLowRemembers, Alarmed, Low
<1>2. ASSUME UNCHANGED <<balance, wasLow>> PROVE WasLowRemembers'
  BY <1>2 DEF WasLowRemembers, Alarmed, Low
<1> QED
  BY <1>1, <1>2 DEF MonitorNext, Poll, Stop, Start, Fetched, FetchFails, Report,
     Alarm, TickerFires, Quit, monitorVars

(* A step that moves one poller outside of the two stages, or between      *)
(* them, keeps the set of pollers that will alarm.                         *)
LEMMA StepAlarms ==
    TypeOK /\ WasLowRemembers /\ AlarmsAreCrossings /\ [MonitorNext]_monitorVars
        => AlarmsAreCrossings'
<1> SUFFICES ASSUME TypeOK, WasLowRemembers, AlarmsAreCrossings,
                    [MonitorNext]_monitorVars
             PROVE AlarmsAreCrossings'
  OBVIOUS
<1> USE DEF AlarmsAreCrossings, OwesAlarm, Polls, TypeOK
<1>1. CASE Stop
  BY <1>1 DEF Stop
<1>2. ASSUME NEW p \in Pollers, Start(p) PROVE AlarmsAreCrossings'
  BY <1>2 DEF Start
<1>3. ASSUME NEW p \in Pollers, NEW b \in Balances, Fetched(p, b)
      PROVE AlarmsAreCrossings'
  BY <1>3 DEF Fetched
<1>4. ASSUME NEW p \in Pollers, FetchFails(p) PROVE AlarmsAreCrossings'
  BY <1>4 DEF FetchFails
<1>5. ASSUME NEW p \in Pollers, Store(p) PROVE AlarmsAreCrossings'
  <2> DEFINE b == poll[p].balance
  <2>1. Crosses(b) <=> Alarmed /\ Low(b) /\ ~ wasLow
    BY DEF WasLowRemembers, Crosses
  <2>2. OwesAlarm(p)' <=> Alarmed /\ Low(b) /\ ~ wasLow
    BY <1>5 DEF Store, Alarmed, Low
  <2>3. p \notin crossed
    BY <1>5 DEF Store
  <2>4. \A q \in Pollers \ {p} : poll'[q] = poll[q]
    BY <1>5 DEF Store
  <2>5. poll'[p].pc = "report"
    BY <1>5 DEF Store
  <2>6. \A q \in Pollers \ {p} : q \in crossed' <=> q \in crossed
    BY <1>5 DEF Store
  <2>7. p \in crossed' <=> Crosses(b)
    BY <1>5, <2>3 DEF Store
  <2>8. \A q \in Pollers :
           q \in crossed' <=> poll'[q].pc \in {"report", "alarm"} /\ OwesAlarm(q)'
    BY <2>1, <2>2, <2>4, <2>5, <2>6, <2>7 DEF Alarmed, Low
  <2>9. crossed' \subseteq Pollers
    BY <1>5 DEF Store
  <2> QED BY <2>8, <2>9
<1>6. ASSUME NEW p \in Pollers, Report(p) PROVE AlarmsAreCrossings'
  BY <1>6 DEF Report
<1>7. ASSUME NEW p \in Pollers, Alarm(p) PROVE AlarmsAreCrossings'
  BY <1>7 DEF Alarm, NotStarted
<1>8. ASSUME NEW p \in Pollers, TickerFires(p) PROVE AlarmsAreCrossings'
  BY <1>8 DEF TickerFires
<1>9. ASSUME NEW p \in Pollers, Quit(p) PROVE AlarmsAreCrossings'
  BY <1>9 DEF Quit
<1>10. CASE UNCHANGED monitorVars
  BY <1>10 DEF monitorVars
<1> QED
  BY <1>1, <1>2, <1>3, <1>4, <1>5, <1>6, <1>7, <1>8, <1>9, <1>10
     DEF MonitorNext, Poll

(* A poller once started stays started. *)
LEMMA StepStarted ==
    TypeOK /\ [MonitorNext]_monitorVars /\ StartedOnce' => StartedOnce
<1> SUFFICES ASSUME TypeOK, [MonitorNext]_monitorVars
             PROVE \A q \in Pollers : poll[q].pc # "off" => poll'[q].pc # "off"
  BY DEF StartedOnce, Polls
<1> USE DEF Polls, TypeOK
<1>2. ASSUME NEW p \in Pollers, Start(p) PROVE \A q \in Pollers : poll[q].pc # "off" => poll'[q].pc # "off"
  BY <1>2 DEF Start
<1>3. ASSUME NEW p \in Pollers, Poll(p) \/ TickerFires(p) \/ Quit(p)
      PROVE \A q \in Pollers : poll[q].pc # "off" => poll'[q].pc # "off"
  <2>1. poll'[p].pc # "off"
    BY <1>3 DEF Poll, Fetched, FetchFails, Store, Report, Alarm, TickerFires, Quit, NotStarted
  <2>2. \A q \in Pollers \ {p} : poll'[q] = poll[q]
    BY <1>3 DEF Poll, Fetched, FetchFails, Store, Report, Alarm, TickerFires, Quit
  <2> QED BY <2>1, <2>2
<1>4. CASE Stop \/ UNCHANGED monitorVars
  BY <1>4 DEF Stop, monitorVars
<1> QED BY <1>2, <1>3, <1>4 DEF MonitorNext

LEMMA StepReports ==
    TypeOK /\ ReportsTheStored /\ [MonitorNext]_monitorVars => ReportsTheStored'
<1> SUFFICES ASSUME TypeOK, ReportsTheStored, [MonitorNext]_monitorVars, StartedOnce'
             PROVE (\A q \in Pollers : Polls(q, "report") => poll[q].balance = balance)'
  BY DEF ReportsTheStored
<1>1. StartedOnce
  BY StepStarted
<1>2. \A q \in Pollers : poll[q].pc = "report" => poll[q].balance = balance
  BY <1>1 DEF ReportsTheStored, Polls
<1>3. \A p, q \in Pollers : poll'[p].pc # "off" /\ poll'[q].pc # "off" => p = q
  BY DEF StartedOnce, Polls
<1> USE DEF Polls, TypeOK
<1>4. ASSUME NEW p \in Pollers, Store(p)
      PROVE \A q \in Pollers : poll'[q].pc = "report" => poll'[q].balance = balance'
  <2>1. poll'[p].pc = "report" /\ poll'[p].balance = balance'
    BY <1>4 DEF Store
  <2>2. \A q \in Pollers : poll'[q].pc = "report" => q = p
    BY <1>3, <2>1
  <2> QED BY <2>1, <2>2
<1>5. ASSUME NEW p \in Pollers, UNCHANGED balance, poll'[p].pc # "report",
             \A q \in Pollers \ {p} : poll'[q] = poll[q]
      PROVE \A q \in Pollers : poll'[q].pc = "report" => poll'[q].balance = balance'
  BY <1>2, <1>5
<1>6. ASSUME NEW p \in Pollers,
             Start(p) \/ (\E b \in Balances : Fetched(p, b)) \/ FetchFails(p)
               \/ Report(p) \/ Alarm(p) \/ TickerFires(p) \/ Quit(p)
      PROVE /\ UNCHANGED balance
            /\ poll'[p].pc # "report"
            /\ \A q \in Pollers \ {p} : poll'[q] = poll[q]
  BY <1>6 DEF Start, Fetched, FetchFails, Report, Alarm, TickerFires, Quit, NotStarted
<1>7. CASE Stop \/ UNCHANGED monitorVars
  BY <1>2, <1>7 DEF Stop, monitorVars
<1> QED
  BY <1>4, <1>5, <1>6, <1>7 DEF MonitorNext, Poll

LEMMA StepFollows ==
    TypeOK /\ ReportsTheStored /\ ClientFollowsMonitor /\ [MonitorNext]_monitorVars
        => ClientFollowsMonitor'
<1> SUFFICES ASSUME TypeOK, ReportsTheStored, ClientFollowsMonitor,
                    [MonitorNext]_monitorVars, StartedOnce', HasOnPoll
             PROVE (\/ lastBalance = balance
                    \/ \E p \in Pollers : Polls(p, "report") /\ poll[p].balance = balance)'
  BY DEF ClientFollowsMonitor
<1>1. StartedOnce
  BY StepStarted
<1>2. \/ lastBalance = balance
      \/ \E p \in Pollers : Polls(p, "report") /\ poll[p].balance = balance
  BY <1>1 DEF ClientFollowsMonitor
<1> USE DEF Polls, TypeOK
<1>3. ASSUME NEW p \in Pollers, Store(p) PROVE poll'[p].pc = "report" /\ poll'[p].balance = balance'
  BY <1>3 DEF Store
<1>4. ASSUME NEW p \in Pollers, Report(p) PROVE lastBalance' = balance'
  BY <1>1, <1>4 DEF Report, ReportsTheStored
<1>5. ASSUME NEW p \in Pollers, Start(p) \/ (\E b \in Balances : Fetched(p, b))
                                \/ FetchFails(p) \/ Alarm(p) \/ TickerFires(p) \/ Quit(p)
      PROVE (\/ lastBalance = balance
             \/ \E q \in Pollers : Polls(q, "report") /\ poll[q].balance = balance)'
  <2>1. UNCHANGED <<lastBalance, balance>> /\ poll[p].pc # "report"
    BY <1>5 DEF Start, Fetched, FetchFails, Alarm, TickerFires, Quit
  <2>2. \A q \in Pollers \ {p} : poll'[q] = poll[q]
    BY <1>5 DEF Start, Fetched, FetchFails, Alarm, TickerFires, Quit
  <2> QED BY <1>2, <2>1, <2>2
<1>6. CASE Stop \/ UNCHANGED monitorVars
  BY <1>2, <1>6 DEF Stop, monitorVars
<1> QED
  BY <1>3, <1>4, <1>5, <1>6 DEF MonitorNext, Poll

-----------------------------------------------------------------------------

(* Together the five are an inductive invariant of any set of pollers.     *)
THEOREM InductiveInvariant == MonitorSpec => []IInv
<1>1. MonitorInit => IInv
  <2> SUFFICES ASSUME MonitorInit PROVE IInv
    OBVIOUS
  <2>1. WasLowRemembers
    BY DEF MonitorInit, WasLowRemembers
  <2>2. AlarmsAreCrossings
    BY DEF MonitorInit, AlarmsAreCrossings, NotStarted
  <2>3. \A p \in Pollers : poll[p].pc = "off"
    BY DEF MonitorInit, NotStarted
  <2>4. ReportsTheStored
    BY <2>3 DEF ReportsTheStored, Polls
  <2>5. ClientFollowsMonitor
    BY DEF MonitorInit, ClientFollowsMonitor
  <2> QED BY InitTyped, <2>1, <2>2, <2>4, <2>5 DEF IInv
<1>2. IInv /\ [MonitorNext]_monitorVars => IInv'
  BY StepTyped, StepRemembers, StepAlarms, StepReports, StepFollows DEF IInv
<1> QED
  BY <1>1, <1>2, PTL DEF MonitorSpec

(* A poll past its fetch holds a fetched balance, whatever failed before.  *)
THEOREM MonitorTyped == MonitorSpec => []TypeOK
<1>1. IInv => TypeOK
  BY DEF IInv
<1> QED BY <1>1, InductiveInvariant, PTL

(* The low-balance callback is called once per crossing, by the poll that  *)
(* stored it, for any number of pollers and any threshold.                 *)
THEOREM MonitorAlarmsOncePerCrossing == MonitorSpec => []AlarmsAreCrossings
<1>1. IInv => AlarmsAreCrossings
  BY DEF IInv
<1> QED BY <1>1, InductiveInvariant, PTL

(* A client with one poller reads the balance last stored, or its poller   *)
(* is on the way to tell it.                                               *)
THEOREM MonitorIsFollowed == MonitorSpec => []ClientFollowsMonitor
<1>1. IInv => ClientFollowsMonitor
  BY DEF IInv
<1> QED BY <1>1, InductiveInvariant, PTL
=============================================================================
