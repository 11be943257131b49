CONSTANTS
    Doc = {d1}
    Handle = {h1}
    Proc = {p1}
    Body = {b1}
    None = None
    Absent = Absent
    Empty = Empty
    Broken = Broken
    Policy = "safe-create-update"
    SharedFd = TRUE
    MaxVersions = 3
    MaxLate = 1
    Flags <- CreatingOpens
SPECIFICATION FairSpec
INVARIANTS TypeOK
PROPERTIES ConflictsAreReal StaleEntriesLeave
