SPECIFICATION Spec
CONSTANTS
    MaxId = 2
    MaxRuns = 4
    Lengths = {1}
    SnapshotCount = 1
    FaultKinds = {"call", "torn"}
    MaxFaults = 1
    MaxCrashes = 2
    AtomicIds = TRUE
INVARIANTS
    TypeOK
    TaskFilesWhole
    SnapshotsAreNewest
PROPERTIES
    IsTaskStore
CHECK_DEADLOCK FALSE
