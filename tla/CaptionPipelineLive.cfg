SPECIFICATION FairPipelineSpec
CONSTANTS
    MaxPrograms = 3
    Title <- MCTitle
    Faults = {"down", "fatal", "disconnect", "epg", "hang"}
    MaxLosses = 0
    MaxHeard = 2
    EpgAnswers = {"program", "zeroEnd", "error", "null"}
    Debug = TRUE
    Capacity = 2
    Retries = 2
\* The channel falls silent at its bound: the pipeline may come to rest.
CHECK_DEADLOCK FALSE
INVARIANTS
    AnnouncedOnce
PROPERTIES
    QueueKeepsMoving
    AbortedSenderEnds
