CONSTANTS
    h1 = h1
    h2 = h2
    Conn = {c1, c2}
    Host = {h1, h2}
    Uris <- AllUris
    MaxChunks = 2
SPECIFICATION Spec
CHECK_DEADLOCK FALSE
INVARIANTS RelayFaithful OnlyFailuresLeak
 
