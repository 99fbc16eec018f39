SPECIFICATION FairMsgSpec
CONSTANTS
    Messages = {m1, m2}
    Urgent = {m1}
    Sms = {m1}
    Owned = {m1}
    MaxSendBlock = 1
    MaxAttempts = 2
    MaxFailures = 1
    Faults = {"smtp", "reply", "load", "commit", "crash", "destroy"}
INVARIANTS
    MsgTypeOK
    OnceButForFailures
    AttemptsBounded
PROPERTIES
    NothingWhileDisabled
    EveryMessageSettles
\* A sender that was destroyed may stop for good.
CHECK_DEADLOCK FALSE
