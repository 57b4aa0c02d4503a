CONSTANTS
    NumHosts = 2
    HashValue = 1
    Accepts <- MCHosts
    FaultKinds = {"fin", "reset"}
    MaxCommands = 3
    MaxFaults = 1
    MaxLaunches = 2
SPECIFICATION Spec
INVARIANTS ReplicaInv
PROPERTIES GetReturnsLastPut
CHECK_DEADLOCK FALSE
