CONSTANTS
    NumHosts = 3
    HashValue = 1
    Accepts <- MCHosts
    FaultKinds = {"reset"}
    MaxCommands = 2
    MaxFaults = 1
    MaxLaunches = 1
SPECIFICATION Spec
INVARIANTS NoSharedPartFile AvailAccurate StreamAligned  FailoverInv
PROPERTIES GetReturnsLastPut FailoverIntegrity
CHECK_DEADLOCK FALSE
