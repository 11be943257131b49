CONSTANTS
    Doc = {d1}
    Handle = {h1}
    Proc = {p1}
    Body = {b1, b2}
    None = None
    Absent = Absent
    Empty = Empty
    Broken = Broken
    Policy = "safe-create-update"
    SharedFd = TRUE
    MaxVersions = 2
    MaxLate = 1
    Flags <- Creates
SPECIFICATION Spec
SYMMETRY Symmetry
INVARIANTS CleanBufferIsStored
