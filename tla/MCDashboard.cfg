SPECIFICATION Spec
CONSTANTS
    None = None
    Requests <- MCRequests
    Proposals <- MCProposals
    Operators <- MCOperators
    Results <- MCResults
    Ideas <- MCIdeas
    Works <- MCWorks
    RoleOf <- MCRoleOf
    Streams <- MCStreams
    Topics <- MCTopics
    TopicOf <- MCTopicOf
    Sockets <- MCSockets
    ReadCount = 1
    MaxEntries = 3
    MaxDrops = 1
    DayLength = 24
    HourLength = 4
    EndOfTime = 1000
    LeastFetch = 3
    MaxOverlays = 3
    MaxBars = 8
    DailyMin = 1
    WeeklyMin = 2
    MaxSnapshots = 2
    MaxDiscrepancies = 2
    MaxRows = 100
    ValidationRetries = 1
INVARIANTS
    CloseFindsItsOwn
    LogoutSticks
    AnswersAreCurrent
    FeedInOrder
    IndexAgrees
PROPERTIES
    FollowsLifecycle
CHECK_DEADLOCK FALSE
