CONSTANTS
    g1 = g1
    Proc <- MCProc
    Word <- MCWord
    Unsafe <- MCUnsafe
    Prefixed <- MCPrefixed
    Long <- MCLong
    EscLong <- MCEscLong
    BadIndex <- MCBadIndex
    Index <- MCIndex
    Ids <- MCIds
    Typed <- MCTyped
SPECIFICATION Spec
INVARIANTS
    TypeOK
    ShownResolves
    NamesKeepMeaning
    PrintedPathsComeBack
