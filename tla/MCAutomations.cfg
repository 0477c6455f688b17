SPECIFICATION FairSpec
CONSTANTS
    k1 = k1
    Tasks <- MCTasks
    Schedules <- MCSchedules
    StaleAfter = 1
    MaxRuns = 2
    MaxTime = 4
    MaxClaims = 2
    MaxEdits = 3
    MaxBacks = 1
    MaxFaults = 1
CHECK_DEADLOCK FALSE
INVARIANTS
    SentOnce
    OneRunPerTask
PROPERTIES
    NothingIsUndone
    ClaimsLatestDue
    OrphansEnd
