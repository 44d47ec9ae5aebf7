SPECIFICATION MCSpec
CONSTANTS
    Bridges = {"mt5linux", "rpyc"}
    Entries <- MCEntries
    Risk = 16
    Slips = {0, 2, 12}
    Equities = {90, 100}
    DrawdownTrip = 5
    DrawdownWindow = 2
    MaxDecisions = 2
    MaxFaults = 2
    None = None
    Runs <- MCRuns
    Shapes <- MCShapes
    MaxBars = 4
    MaxTrades = 4
    ListLimit = 3
    Budget = 40
    Slippage <- MCSlippage
    Spread <- MCSpread
    Exit <- MCExit
    AtrFloor = 1
    Initial = 1000
    InitialSlAtr = 1
    NoAtrStop = 5
    MinSlAtr = 1
    MinSlPoints = 3
    HintMin = 10
    HintMax = 1000
    HintBand = 5
    MaxRr = 10
    Contract = 1
    VolumeMin = 2
    VolumeMax = 12
    RiskTolerance = 20
INVARIANTS
    ReplayMirrorsEngine
    BalanceIsBooked
    LossWithinBudget
    ReportAddsUp
    WindowsAreSound
    ManagedAsHeld
    RiskWithinCap
PROPERTIES
    RpycComesBack
CHECK_DEADLOCK FALSE
