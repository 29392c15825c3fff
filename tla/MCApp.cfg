SPECIFICATION Spec
CONSTANTS
    Ids = {e1, e2}
    Absent = Absent
    MaxEntries = 1
    Passwords = {p0, p1, p2}
    Short = {p0}
    NoKey = NoKey
    NoFile = NoFile
    Damaged = Damaged
    Timeout = 3
    IoMayFail = TRUE
    Secrets = {s1, s2}
    Foreign = {f1}
    Empty = Empty
    NoDeadline = NoDeadline
    ClearAfter = 2
    MaxTime = 6
    Failures = {"set", "get", "clear"}
    CallsCancel = FALSE
SYMMETRY Symmetry
INVARIANTS
    TypeOK
    UnsavedOnlyAfterFailure
    SavedFileFits
    StateMatchesFile
    LocksOnTime
    ClearsOnTime
PROPERTIES
    OnlyOwnerRewrites
CHECK_DEADLOCK FALSE
