SPECIFICATION MCSpec
CONSTANTS
    MaxLen = 2
    BatchSize = 2
    MaxPublish = 4
    MaxFaults = 2
    None = None
    AtrPeriod = 3
    M5 = 2
    H1 = 3
    FractalN = 1
    Period = 3
    BinSize = 2
    ValuePct = 70
    PreNews = 2
    PostNews = 1
    Charts <- MCCharts
    Shapes <- MCShapes
    Start <- MCStart
    Pauses = {20, 40}
    TrueOffset = 180
    News <- MCNews
    WarmupBars = 2
    MaxHistory = 3
    DeepHistory = 4
    TicksMaxLen = 2
    MaxBars = 4
    MaxFailures = 1
INVARIANTS
    BarsAdvance
    BufferHasNoHole
    BlackoutIsSeen
    PointInTime
PROPERTIES
    KeepsPromise
    EveryEntrySettles
CHECK_DEADLOCK FALSE
