SPECIFICATION Spec
CONSTANTS
    MaxCommands = 1
    MaxOut = 1
    MaxErr = 3
    PipeCap = 2
    Chunk = 2
    Limit = 3
    FaultKinds = {}
    MaxFaults = 0
PROPERTIES
    RunReturns
CHECK_DEADLOCK FALSE
