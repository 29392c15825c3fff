SPECIFICATION FairSpec
CONSTANTS
    Secrets = {s1, s2}
    Foreign = {f1}
    Empty = Empty
    NoDeadline = NoDeadline
    ClearAfter = 2
    MaxTime = 5
    Failures = {"set", "get", "clear"}
    CallsCancel = TRUE
INVARIANTS
    TypeOK
    OursIsGuarded
    SecretOnlyWhilePending
PROPERTIES
    ForeignKeptUnlessRaced
    NotEarly
    BegunClearFinishes
CHECK_DEADLOCK FALSE
