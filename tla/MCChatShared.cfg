CONSTANTS
    Callers = {p1, p2}
    Kinds = {"chat", "stream"}
    Conversations <- Twins
    Models = {"paid", "free"}
    FreeFallbackModel = "free"
    NoModel = ""
    EnableCache = TRUE
    EnableSessions = TRUE
    EnableQualityCheck = TRUE
    MaxQualityRetries = 0
    Offers <- NoQuotes
    NoOffer = NoOffer
    CallBudget = 3
    HasSigner = TRUE
    MaxPaymentAmount = 3
    NoCap = NoCap
    ExpectedRecipient = "gw"
    AnyRecipient = AnyRecipient
    MaxUint64 = 7
    CacheSize = 1
    CacheTTL = 0
    DedupWindow = 1
    CacheAgeBound = 1
    NoEntry = NoEntry
    SessionTTL = 0
    SessionAgeBound = 1
    NoSession = NoSession
SPECIFICATION Spec
SYMMETRY Symmetry
INVARIANTS
    OneModelPerSession
    CacheAnswersItsKey
    StrikesAreFinishedCalls
