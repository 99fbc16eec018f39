SPECIFICATION ProgramSpec
CONSTANTS
    Callers = {t1, t2}
    Programs = {p1, p2}
    MaxCalls = 3
    MaxActions = 4
    MaxCrashes = 1
    Faults = {"crash", "close", "throwable", "read"}
SYMMETRY CallerSymmetry
INVARIANTS
    NeverLeftMissing
    OneDocumentWithLatestCaptions
    ReplacedTogether
\* All calls made and indexed: nothing is left to do.
CHECK_DEADLOCK FALSE
