CONSTANTS
    c1 = c1
    c2 = c2
    Conn = {c1, c2}
    Client <- MCClient
    ClientConf <- MCClientConf
    ServerConf <- MCServerConf
    MaxChunks = 2
    MaxRequests = 3
SPECIFICATION Spec
CHECK_DEADLOCK FALSE
INVARIANTS TypeOK OnlyOwners WholeIfAlone RefusedGetsNothing
PROPERTY RequestEnds
