SPECIFICATION FairSpec
CONSTANTS
    BodyLen = 5
    PREREAD = 2
    HUGE_STRING_LEN = 2
    MaxAsk = 3
    Excess = 1
CHECK_DEADLOCK FALSE
INVARIANTS
    WithinBuffer
    NoSilentLoss
    EntireMeansEntire
    CountsMatch
PROPERTY
    ReadReturns
