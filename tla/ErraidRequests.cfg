SPECIFICATION Spec
CONSTANTS
    MinuteLen <- MCMinuteLen
    MinutesPerHour = 2
    HoursPerDay = 1
    DaysPerWeek = 1
    EpochWeekday = 0
    MaxIterations = 4
    LocalOffset <- MCLocalOffset
    CreateBodies <- AllBodies
    RequestIds <- TwoIdsOrNone
    Queries = {"PING", "LIST_TASKS", "LIST_HISTORY", "GET_STDIO", "UNKNOWN"}
    FaultKinds = {}
    MaxFaults = 0
    MaxCommands = 2
    MaxRequests = 3
    MaxStarts = 1
    MaxTime = 3
    PlanChunk = 1
    ListLimit = 1
    HistoryLimit = 0
INVARIANTS
    RunsFollowSchedule
    NeverSleepsPast
CHECK_DEADLOCK FALSE
