CONSTANTS
    Conn = {c1, c2}
    Requests <- SomeRequests
    File <- MCFile
    FileSize <- MCFileSize
    BufSize = 2
    HeaderSize = 1
    ErrorSize = 1
    WrapSize = 1
    MaxFds = 3
    EpollSizeMax = 4
    MaxRequests = 1
    MaxShort = 1
SPECIFICATION Spec
INVARIANTS RequestAtHand LengthHonoured PostDataAppended PostInv
PROPERTIES ResponsesKeepPromise 
CHECK_DEADLOCK FALSE
