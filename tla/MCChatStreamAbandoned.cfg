CONSTANTS
    EnableSessions = TRUE
    Offers <- QuoteSet
    NoOffer = NoOffer
    MaxLines = 2
    HasSigner = TRUE
    MaxPaymentAmount = 3
    NoCap = NoCap
    ExpectedRecipient = "gw"
    AnyRecipient = AnyRecipient
    MaxUint64 = 7
SPECIFICATION FairSpec
CHECK_DEADLOCK FALSE
PROPERTIES
    AbandonedStreamsEnd
