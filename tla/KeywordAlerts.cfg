SPECIFICATION FairKeywordSpec
CONSTANTS
    Programs <- TwoPrograms
    StartTime <- TwoStarts
    EndTime <- TwoEnds
    Described <- TwoPrograms
    DefaultLimit = 1
    Limits = {2}
    Midnight = 8
    Requests = {"deleted"}
    Begin = 5
    MaxTime = 12
    MaxNights = 1
    MaxEdits = 1
    MaxFailures = 1
    Faults = {"send", "search", "fatal", "crash"}
\* Time ends at MaxTime.
CHECK_DEADLOCK FALSE
INVARIANTS
    ToldOnce
    DailyLimit
PROPERTIES
    EpgUpdateChecked
