CONSTANTS
    Doc = {d1}
    Handle = {h1, h2}
    Proc = {p1}
    Body = {b1}
    None = None
    Absent = Absent
    Empty = Empty
    Broken = Broken
    Policy = "safe-create-update"
    SharedFd = FALSE
    MaxVersions = 3
    MaxLate = 1
    Flags <- CreatingOpens
SPECIFICATION Spec
SYMMETRY Symmetry
INVARIANTS NoSilentOverwrite PendingDrains
PROPERTIES ImplementsOccDoc
