SPECIFICATION Spec
CONSTANTS
    MinuteLen <- MCMinuteLen
    MinutesPerHour = 2
    HoursPerDay = 1
    DaysPerWeek = 1
    EpochWeekday = 0
    MaxIterations = 4
    LocalOffset <- MCLocalOffset
    CreateBodies <- TwoBodies
    RequestIds = {1, 2}
    Queries = {}
    FaultKinds = {}
    MaxFaults = 0
    MaxCommands = 2
    MaxRequests = 3
    MaxStarts = 1
    MaxTime = 5
    PlanChunk = 1
    ListLimit = 1
    HistoryLimit = 0
PROPERTIES
    DeadlineIsRun
CHECK_DEADLOCK FALSE
