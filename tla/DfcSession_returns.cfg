CONSTANTS
    NumHosts = 2
    HashValue = 1
    Accepts <- MCHosts
    FaultKinds = {"fin", "reset"}
    MaxCommands = 2
    MaxFaults = 2
    MaxLaunches = 1
SPECIFICATION Spec
PROPERTIES CommandReturns
CHECK_DEADLOCK FALSE
