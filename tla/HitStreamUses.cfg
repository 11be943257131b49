CONSTANTS
    a = a
    b = b
    Pipe = {a, b}
    Uses <- CommandAndDirectory
    NDocs <- TwoIndices
    PageSize = 2
    Limit = 2
    MaxExact = 4
    Conc = 1
SPECIFICATION FairSpec
INVARIANTS InOrder CompleteOnSuccess PitsReleased NoneStuck
PROPERTIES StreamsEnd
CHECK_DEADLOCK FALSE
