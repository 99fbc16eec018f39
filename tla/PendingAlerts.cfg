SPECIFICATION Spec
CONSTANTS
    Showings <- OneShowing
    AlertTime <- OneAlertTime
    StartTime <- OneStartTime
    MaxTime = 3
    MaxRows = 3
    MaxNights = 1
    MaxRequests = 3
    MaxCrashes = 1
    Requests = {"create", "disable", "enable", "delete", "deleteAll", "on", "off"}
    Faults = {"epg", "crash"}
\* The thread may sleep for ever when nothing is left to announce.
CHECK_DEADLOCK FALSE
INVARIANTS
    RemindedOnce
    OneUnfiredRow
PROPERTIES
    OffMeansSilent
