SPECIFICATION DataSpec
CONSTANTS
    Names = {"content-length", "content-type", "set-cookie", "cookie", "COOKIE", "x-a", "X-A"}
    LowerName <- const_LowerName
    request_headers_index_s <- const_Request
    response_headers_index_s <- const_Response
    HeaderContentType = 1
    ContentLength = "content-length"
    MaxHeaders = 0
    MaxAsked = 0
    Chars <- const_Chars
    Lower <- const_Lower
    VirtualMounts <- const_VirtualMounts
    PhysicalMounts <- const_PhysicalMounts
    MaxPath = 4
CHECK_DEADLOCK FALSE
INVARIANTS
    OutsideIsNull
