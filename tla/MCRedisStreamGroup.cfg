SPECIFICATION FairSpec
CONSTANTS
    MaxLen = 2
    BatchSize = 2
    MaxPublish = 3
    MaxFaults = 1
PROPERTIES
    EveryEntryIsReached
CHECK_DEADLOCK FALSE
