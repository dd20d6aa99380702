SPECIFICATION Spec
CONSTANTS
    Clients = {c1, c2}
    TaskCount = 2
    MinuteLen = 3
    Period <- TwoPeriods
    Workloads <- BothWorkloads
    Cycle = 9
    MaxSleep = 6
INVARIANTS
    TypeOK
    AnsweredInTime
    RunInItsMinute
PROPERTIES
    RequestsServed
    ShutdownEnds
    DueTasksTakeTurns
CHECK_DEADLOCK FALSE
