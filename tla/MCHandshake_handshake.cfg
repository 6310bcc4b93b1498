SPECIFICATION SendingSpec
CONSTANTS
    MaxHeader = 120
    MaxBody = 4
    Secure = FALSE
    MaxReads = 3
    Sent <- EverySent
    Talking <- Talkers
    Sizes = {0, 123, 124, 125, 126, 65535, 65536}
    Codes <- SomeCodes
    MaxWire = 2
CHECK_DEADLOCK FALSE
INVARIANT OutcomeAsWhole
INVARIANT NothingLost
INVARIANT WireReadsBack
INVARIANT CloseAnswered
