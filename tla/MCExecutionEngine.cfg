SPECIFICATION FairSpec
CONSTANTS
    MaxTickets = 2
    MaxFaults = 2
INVARIANTS
    PlanKeptUnlessMisread
    BookedAtMostOnce
    EveryCloseBooked
    ClosesFindTheirTrade
PROPERTIES
    ClosedIsFinalised
CHECK_DEADLOCK FALSE
