SPECIFICATION FairSpec
CONSTANTS
    MaxActions = 4
    MaxCrashes = 2
    Faults = {"io", "throwable", "close", "crash", "unlock"}
INVARIANTS
    TypeOK
    AppliedInOrder
    NothingVanishes
    LostMeansNotIndexed
    SleepsOnlyWhenIdle
    RestsUnlocked
PROPERTIES
    EveryActionHandled
    CallersGetIn
    ShutdownEnds
    LogSpec
\* A stopped indexer with nothing left to submit may stop for good.
CHECK_DEADLOCK FALSE
