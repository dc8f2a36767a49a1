CONSTANTS
    Callers = {p1}
    Kinds = {"chat"}
    Conversations <- Single
    Models = {"paid", "free"}
    FreeFallbackModel = ""
    NoModel = ""
    EnableCache = FALSE
    EnableSessions = TRUE
    EnableQualityCheck = FALSE
    MaxQualityRetries = 0
    Offers <- NoQuotes
    NoOffer = NoOffer
    CallBudget = 4
    HasSigner = TRUE
    MaxPaymentAmount = 3
    NoCap = NoCap
    ExpectedRecipient = "gw"
    AnyRecipient = AnyRecipient
    MaxUint64 = 7
    CacheSize = 1
    CacheTTL = 1
    DedupWindow = 1
    CacheAgeBound = 2
    NoEntry = NoEntry
    SessionTTL = 1
    SessionAgeBound = 2
    NoSession = NoSession
SPECIFICATION Spec
INVARIANTS
    EscalationSwapsModel
