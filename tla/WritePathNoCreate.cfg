CONSTANTS
    Doc = {d1}
    Handle = {h1, h2}
    Proc = {p1, p2}
    Body = {b1, b2}
    None = None
    Absent = Absent
    Empty = Empty
    Broken = Broken
    Policy = "safe-create-update"
    SharedFd = FALSE
    MaxVersions = 2
    MaxLate = 1
    Flags <- Edits
SPECIFICATION Spec
SYMMETRY Symmetry
INVARIANTS NoSilentOverwrite
