SPECIFICATION Spec
CONSTANTS
    Showings <- OneShowing
    AlertTime <- OneAlertTime
    StartTime <- OneStartTime
    MaxTime = 4
    MaxRows = 3
    MaxNights = 1
    MaxRequests = 2
    MaxCrashes = 0
    Requests = {"create"}
    Faults = {}
\* The thread may sleep for ever when nothing is left to announce.
CHECK_DEADLOCK FALSE
INVARIANTS
    ShowingRemindedOnce
