CONSTANTS
    SessionIDs = {s1, s2}
    Models = {m1, m2}
    Hashes = {h1, h2}
    SessionTTL = 1
    SessionAgeBound = 2
    NoSession = NoSession
    RecordBound = 4
SPECIFICATION Spec
INVARIANTS
    TypeOK
    EscalatedByThreeStrikes
PROPERTIES
    LiveSessionsKept
    ImplementsContract
