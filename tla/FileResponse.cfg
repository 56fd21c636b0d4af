SPECIFICATION CallSpec
CONSTANTS
    Codes = {304, 404}
    MaxSends = 2
    AP_MAX_SENDFILE = 3
    SizeValues = 8
    RequestSizes = {0, 3, 4}
    Offsets = {0, 1, 2}
    Lengths = {0, 1, 2, 3, 4, 5, 6, 7, 8, 9}
CHECK_DEADLOCK FALSE
INVARIANTS
    TypeOK
    RequestOutlivesPipeline
    OneResponse
    RangeSent
    NoReadAfterClose
PROPERTIES
    HandlerReturns
    ImplementsRequest
    FileStatusKept
