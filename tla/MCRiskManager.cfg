SPECIFICATION Spec
CONSTANTS
    DayLen = 2
    WeekDays = 2
    Offset = 1
    Pnls <- MCPnls
    Equities <- MCEquities
    DailyPct = 2
    WeeklyPct = 3
    MaxOpen = 2
    MaxTrades = 2
    MaxNow = 4
    MaxEntries = 3
    MaxCrashes = 1
INVARIANTS
    TotalsExact
    ExposureBounded
PROPERTIES
    PauseHolds
    LossCapsEnforced
CHECK_DEADLOCK FALSE
