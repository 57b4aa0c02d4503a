CONSTANTS
    NumHosts = 3
    HashValue = 1
    Accepts <- MCHosts
    FaultKinds = {"fin"}
    MaxCommands = 2
    MaxFaults = 1
    MaxLaunches = 1
SPECIFICATION Spec
PROPERTIES FailoverIntegrity
CHECK_DEADLOCK FALSE
