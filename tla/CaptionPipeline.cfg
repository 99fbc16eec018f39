SPECIFICATION PipelineSpec
CONSTANTS
    MaxPrograms = 3
    Title <- MCTitle
    Faults = {"down", "reply", "forget", "epg", "index"}
    MaxLosses = 1
    MaxHeard = 3
    EpgAnswers = {"program", "null"}
    Debug = TRUE
    Capacity = 2
    Retries = 2
\* The channel falls silent at its bound: the pipeline may come to rest.
CHECK_DEADLOCK FALSE
INVARIANTS
    CompleteOnceOver
    QueuedInOrder
    OnlyItsOwnSentences
PROPERTIES
    SpokenOnAir
    ChannelSpec
