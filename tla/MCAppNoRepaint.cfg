SPECIFICATION Spec
CONSTANTS
    Ids = {e1}
    Absent = Absent
    MaxEntries = 1
    Passwords = {p0, p1}
    Short = {p0}
    NoKey = NoKey
    NoFile = NoFile
    Damaged = Damaged
    Timeout = 3
    IoMayFail = TRUE
    Secrets = {s1}
    Foreign = {}
    Empty = Empty
    NoDeadline = NoDeadline
    ClearAfter = 2
    MaxTime = 6
    Failures = {"set", "get", "clear"}
    CallsCancel = FALSE
INVARIANT UnlockedMeansRecentInput
CHECK_DEADLOCK FALSE
