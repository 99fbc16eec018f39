SPECIFICATION FairSpec
CONSTANTS
    Showings <- TwoShowings
    AlertTime <- TwoAlertTimes
    StartTime <- TwoStartTimes
    MaxTime = 3
    MaxRows = 3
    MaxNights = 1
    MaxRequests = 1
    MaxCrashes = 0
    Requests = {"create", "on"}
    Faults = {"db", "exit"}
\* The thread may sleep for ever when nothing is left to announce.
CHECK_DEADLOCK FALSE
INVARIANTS
    TypeOK
    NotAheadOfTime
PROPERTIES
    DeadlineServesAll
    ExitOutsideWindow
