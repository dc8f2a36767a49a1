--------------------------- MODULE BalanceMonitor ---------------------------
(***************************************************************************)
(* BalanceMonitor: goroutines that poll the balance of the wallet until    *)
(* the monitor is stopped, and tell the client and a low-balance callback. *)
(*                                                                         *)
(* Every Start makes one more poller; NewClient calls it once.  A poll     *)
(* fetches without the lock, stores under it, and calls back after it:     *)
(* between these steps other pollers and Stop may move.  The local         *)
(* variables of a poller are the fields of poll[p].                        *)
(***************************************************************************)
EXTENDS Integers

CONSTANTS
    Pollers,        \* goroutines Start may make
    Balances,       \* what fetchBalance may return
    Threshold,      \* lowBalanceThreshold, or NoThreshold for nil
    NoThreshold,
    HasOnLow,       \* is there an onLowBalance callback
    HasOnPoll,      \* has SetOnPoll been called (NewClient does)
    NoBalance       \* nil

ASSUME MonitorAssumption ==
    /\ Balances \subseteq Int
    /\ NoBalance \notin Int
    /\ NoThreshold \notin Int
    /\ Threshold \in Int \cup {NoThreshold}
    /\ HasOnLow \in BOOLEAN
    /\ HasOnPoll \in BOOLEAN

VARIABLES
    poll,           \* the goroutines
    balance,        \* m.balance
    wasLow,         \* m.wasLow
    stopped,        \* m.stopped, and whether m.stopCh is closed
    lastBalance,    \* c.lastBalance of the client
    crossed         \* history: pollers that stored a crossing and have not alarmed

monitorVars == <<poll, balance, wasLow, stopped, lastBalance, crossed>>

NotStarted == [pc |-> "off", balance |-> NoBalance, wasLow |-> FALSE]

MonitorInit ==
    /\ poll = [p \in Pollers |-> NotStarted]
    /\ balance = NoBalance
    /\ wasLow = FALSE
    /\ stopped = FALSE
    /\ lastBalance = NoBalance
    /\ crossed = {}

Polls(p, stage) == poll[p].pc = stage
Alarmed == Threshold # NoThreshold /\ HasOnLow
Low(b) == b < Threshold

(* The balance stored now is low and the one stored before was not. *)
Crosses(b) == Alarmed /\ Low(b) /\ (balance = NoBalance \/ ~ Low(balance))

-----------------------------------------------------------------------------

(* run polls at once, before it looks at the stop channel. *)
Start(p) ==
    /\ Polls(p, "off")
    /\ poll' = [poll EXCEPT ![p].pc = "fetch"]
    /\ UNCHANGED <<balance, wasLow, stopped, lastBalance, crossed>>

Stop ==
    /\ stopped' = TRUE
    /\ UNCHANGED <<poll, balance, wasLow, lastBalance, crossed>>

Fetched(p, b) ==
    /\ Polls(p, "fetch")
    /\ poll' = [poll EXCEPT ![p].pc = "store", ![p].balance = b]
    /\ UNCHANGED <<balance, wasLow, stopped, lastBalance, crossed>>

FetchFailsUnreturned(p) ==
    /\ Polls(p, "fetch")
    /\ poll' = [poll EXCEPT ![p].pc = "store"]
    /\ UNCHANGED <<balance, wasLow, stopped, lastBalance, crossed>>

FetchFails(p) ==
    /\ Polls(p, "fetch")
    /\ poll' = [poll EXCEPT ![p].pc = "select"]
    /\ UNCHANGED <<balance, wasLow, stopped, lastBalance, crossed>>

StoreReadingLate(p) ==
    /\ Polls(p, "store")
    /\ balance' = poll[p].balance
    /\ wasLow' = IF Alarmed THEN Low(poll[p].balance) ELSE wasLow
    /\ poll' = [poll EXCEPT ![p].pc = "report", ![p].wasLow = wasLow']
    /\ crossed' = IF Crosses(poll[p].balance) THEN crossed \cup {p} ELSE crossed
    /\ UNCHANGED <<stopped, lastBalance>>

(* Under m.mu: keep the balance, read the old wasLow and set the new one. *)
Store(p) ==
    /\ Polls(p, "store")
    /\ balance' = poll[p].balance
    /\ wasLow' = IF Alarmed THEN Low(poll[p].balance) ELSE wasLow
    /\ poll' = [poll EXCEPT ![p].pc = "report", ![p].wasLow = wasLow]
    /\ crossed' = IF Crosses(poll[p].balance) THEN crossed \cup {p} ELSE crossed
    /\ UNCHANGED <<stopped, lastBalance>>

ReportNonZero(p) ==
    /\ Polls(p, "report")
    /\ lastBalance' = IF HasOnPoll /\ poll[p].balance # 0 THEN poll[p].balance ELSE lastBalance
    /\ poll' = [poll EXCEPT ![p].pc = "alarm"]
    /\ UNCHANGED <<balance, wasLow, stopped, crossed>>

(* onPoll is setLastBalance of the client. *)
Report(p) ==
    /\ Polls(p, "report")
    /\ lastBalance' = IF HasOnPoll THEN poll[p].balance ELSE lastBalance
    /\ poll' = [poll EXCEPT ![p].pc = "alarm"]
    /\ UNCHANGED <<balance, wasLow, stopped, crossed>>

(* Will this poll call onLowBalance? *)
OwesAlarm(p) == Alarmed /\ Low(poll[p].balance) /\ ~ poll[p].wasLow

(* The end of poll: onLowBalance, or nothing. *)
Alarm(p) ==
    /\ Polls(p, "alarm")
    /\ poll' = [poll EXCEPT ![p] = [NotStarted EXCEPT !.pc = "select"]]
    /\ crossed' = IF OwesAlarm(p) THEN crossed \ {p} ELSE crossed
    /\ UNCHANGED <<balance, wasLow, stopped, lastBalance>>

(* select takes any channel that is ready: a tick may win over a Stop. *)
TickerFires(p) ==
    /\ Polls(p, "select")
    /\ poll' = [poll EXCEPT ![p].pc = "fetch"]
    /\ UNCHANGED <<balance, wasLow, stopped, lastBalance, crossed>>

QuitConsumingStop(p) ==
    /\ Polls(p, "select")
    /\ stopped
    /\ poll' = [poll EXCEPT ![p].pc = "done"]
    /\ stopped' = FALSE
    /\ UNCHANGED <<balance, wasLow, lastBalance, crossed>>

Quit(p) ==
    /\ Polls(p, "select")
    /\ stopped
    /\ poll' = [poll EXCEPT ![p].pc = "done"]
    /\ UNCHANGED <<balance, wasLow, stopped, lastBalance, crossed>>

Poll(p) ==
    \/ \E b \in Balances : Fetched(p, b)
    \/ FetchFails(p)
    \/ Store(p)
    \/ Report(p)
    \/ Alarm(p)

MonitorNext ==
    \/ Stop
    \/ \E p \in Pollers : Start(p) \/ Poll(p) \/ TickerFires(p) \/ Quit(p)

MonitorSpec == MonitorInit /\ [][MonitorNext]_monitorVars
=============================================================================
