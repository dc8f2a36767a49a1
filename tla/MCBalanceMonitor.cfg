CONSTANTS
    Pollers = {g1, g2}
    Balances = {0, 1, 2}
    Threshold = 1
    NoThreshold = NoThreshold
    HasOnLow = TRUE
    HasOnPoll = TRUE
    NoBalance = NoBalance
SPECIFICATION FairMonitorSpec
INVARIANTS
    TypeOK
    AlarmsAreCrossings
    ClientFollowsMonitor
PROPERTIES
    StopEndsPolling
    ClientConverges
