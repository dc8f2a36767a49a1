CONSTANTS
    Callers = {p1, p2}
    Kinds = {"chat", "stream"}
    Conversations <- Single
    Models = {"paid"}
    FreeFallbackModel = ""
    NoModel = ""
    EnableCache = TRUE
    EnableSessions = FALSE
    EnableQualityCheck = TRUE
    MaxQualityRetries = 1
    Offers <- QuoteSet
    NoOffer = NoOffer
    CallBudget = 2
    HasSigner = TRUE
    MaxPaymentAmount = 3
    NoCap = NoCap
    ExpectedRecipient = "gw"
    AnyRecipient = AnyRecipient
    MaxUint64 = 7
    CacheSize = 1
    CacheTTL = 1
    DedupWindow = 1
    CacheAgeBound = 2
    NoEntry = NoEntry
    SessionTTL = 1
    SessionAgeBound = 2
    NoSession = NoSession
SPECIFICATION FairSpec
INVARIANTS
    TypeOK
    QualityGate
    SpendBound
    UnansweredPayments
PROPERTIES
    PaymentsHonourContract
    OnlyRetriesDropAnswers
    CallsReturn
    CallsAdvance
