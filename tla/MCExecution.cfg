SPECIFICATION MCSpec
CONSTANTS
    MaxOrders = 3
    MaxCommands = 4
    MaxCrashes = 1
    NoLevel = NoLevel
    InitialRisk = 2
    Tp1 = 2
    Tp2 = 4
    Tp3 = 6
    Volume = 10
    Tp1Pct = 30
    Tp2Pct = 30
    MinVolume = 1
    TrailActivateR = 1
    BeTriggerR = 1
    BufferAtr = 1
    ChandelierAtr = 2
    Prices <- MCPrices
    Atrs = {0, 1, 2}
    Swings <- MCSwings
    Spreads = {0, 1}
    MaxFaults = 2
INVARIANTS
    AtMostOneLateOrder
    TargetsBankedOnce
PROPERTIES
    CommandsTakeEffect
    StopOnlyTightens
    WeekendIsFlat
CHECK_DEADLOCK FALSE
