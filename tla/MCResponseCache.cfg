CONSTANTS
    Keys = {k1, k2, k3}
    Responses = {r1, r2}
    MaxEntries = 2
    TTL = 2
    DedupWindow = 1
    AgeBound = 3
    NoEntry = NoEntry
SPECIFICATION Spec
INVARIANTS
    TypeOK
    OrderIsResidents
    WithinCapacity
    SortedByRecency
PROPERTIES
    EvictsLeastRecentlyUsed
    ImplementsContract
