SPECIFICATION SpellSpec
CONSTANTS
    MaxNights = 5
    Faults = {"delete", "build", "rename", "crash"}
\* The nights are bounded.
CHECK_DEADLOCK FALSE
INVARIANTS
    SomeWholeIndex
    FoundByDay
