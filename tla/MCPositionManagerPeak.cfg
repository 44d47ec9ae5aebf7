SPECIFICATION Spec
CONSTANTS
    NoLevel = NoLevel
    InitialRisk = 2
    Tp1 = 2
    Tp2 = 4
    Tp3 = 6
    Volume = 10
    Tp1Pct = 30
    Tp2Pct = 30
    MinVolume = 1
    TrailActivateR = 1
    BeTriggerR = 1
    BufferAtr = 1
    ChandelierAtr = 2
    Prices <- MCPrices
    Atrs = {0, 1, 2}
    Swings <- MCSwings
    Spreads = {0, 1}
    MaxFaults = 0
INVARIANTS
    PeakIsExtreme
CHECK_DEADLOCK FALSE
