SPECIFICATION PipelineSpec
CONSTANTS
    MaxPrograms = 3
    Title <- MCTitle
    Faults = {}
    MaxLosses = 0
    MaxHeard = 4
    EpgAnswers = {"program"}
    Debug = FALSE
    Capacity = 2
    Retries = 2
CHECK_DEADLOCK FALSE
INVARIANTS
    ColdStartRecovers
