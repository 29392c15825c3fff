SPECIFICATION UiSpec
CONSTANTS
    Ids = {e1}
    Absent = Absent
    MaxEntries = 2
    Passwords = {p0, p1}
    Short = {p0}
    NoKey = NoKey
    NoFile = NoFile
    Damaged = Damaged
    Timeout = 1
    IoMayFail = FALSE
    Secrets = {s1, s2}
    Foreign = {}
    Empty = Empty
    NoDeadline = NoDeadline
    ClearAfter = 1
    MaxTime = 1
    Failures = {"set"}
    CallsCancel = FALSE
    NewId = NewId
    NoDraft = NoDraft
    NoRow = NoRow
PROPERTY SavedEditIsStored
CHECK_DEADLOCK FALSE
