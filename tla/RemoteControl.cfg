SPECIFICATION RemoteSpec
CONSTANTS
    Digits = {0, 1, 8}
    channels <- SomeChannels
    MaxKeys = 5
    Faults = {"flash", "media"}
\* Timers and keys may be used up.
CHECK_DEADLOCK FALSE
INVARIANTS
    TimerOfLastDigit
PROPERTIES
    DigitsApplied
