SPECIFICATION Spec
CONSTANTS
    MinuteLen <- MCMinuteLen
    MinutesPerHour = 2
    HoursPerDay = 1
    DaysPerWeek = 1
    EpochWeekday = 0
    MaxIterations = 4
    LocalOffset <- MCLocalOffset
    CreateBodies <- MixedBodies
    RequestIds = {1}
    Queries = {}
    FaultKinds = {"id", "write", "unlink", "add", "load", "plan", "append", "save"}
    MaxFaults = 2
    MaxCommands = 2
    MaxRequests = 3
    MaxStarts = 2
    MaxTime = 4
    PlanChunk = 1
    ListLimit = 1
    HistoryLimit = 0
INVARIANTS
    TypeOK
    PlanFits
    OncePerMinute
    CreatedIsKept
    RemovedIsGone
    LastRunTrailsHistory
    MemoryMatchesDisk
    IdsUnique
PROPERTIES
    RepliesTellEffect
CONSTRAINT FewMishaps
CHECK_DEADLOCK FALSE
