SPECIFICATION Spec
CONSTANTS
    MinuteLen <- MCMinuteLen
    MinutesPerHour <- MCMinutesPerHour
    HoursPerDay <- MCHoursPerDay
    DaysPerWeek <- MCDaysPerWeek
    EpochWeekday <- MCEpochWeekday
    MaxIterations <- MCMaxIterations
    LocalOffset <- MCLocalOffset
    CallSchedules <- MCCallSchedules
    CallInstants <- MCCallInstants
INVARIANTS
    ScanCorrect
    WindowSuffices
PROPERTY ScanTerminates
CHECK_DEADLOCK FALSE
