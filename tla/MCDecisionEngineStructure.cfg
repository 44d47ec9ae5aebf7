SPECIFICATION Spec
CONSTANTS
    None = None
    Bundles <- MCBundles
    Samples <- MCSamples
    Answers <- MCAnswers
    Settings <- MCSettings
    RiskMaxDaily = 3
    RiskMaxWeekly = 6
    SpreadMax = 35
    AiEnabled = TRUE
    HasKey = TRUE
    Threshold = 5500
    MaxAttempts = 2
    FlagTtl = 1
    FreshFor = 1
    CallTimeout = 1
    MaxBars = 2
    MaxToggles = 2
    MaxFaults = 1
INVARIANTS
    EntriesFollowStructure
CHECK_DEADLOCK FALSE
