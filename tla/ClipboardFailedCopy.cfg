SPECIFICATION Spec
CONSTANTS
    Secrets = {s1, s2}
    Foreign = {f1}
    Empty = Empty
    NoDeadline = NoDeadline
    ClearAfter = 2
    MaxTime = 5
    Failures = {"set", "get", "clear"}
    CallsCancel = FALSE
INVARIANT PendingClearKnowsItsText
CHECK_DEADLOCK FALSE
