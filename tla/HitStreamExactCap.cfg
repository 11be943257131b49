CONSTANTS
    a = a
    b = b
    Pipe = {a}
    Uses <- ExactAlone
    NDocs <- TwoIndices
    PageSize = 2
    Limit = 0
    MaxExact = 1
    Conc = 1
SPECIFICATION FairSpec
PROPERTIES StreamsEnd
CHECK_DEADLOCK FALSE
