SPECIFICATION Spec
CONSTANTS
    MaxCommands = 2
    MaxOut = 4
    MaxErr = 3
    PipeCap = 3
    Chunk = 2
    Limit = 3
    FaultKinds = {"pipe", "fork", "alloc", "interrupt"}
    MaxFaults = 1
INVARIANTS
    OutputCollected
    NoDescriptorLeft
PROPERTIES
    RunReturns
CHECK_DEADLOCK FALSE
