CONSTANTS
    Key = {k1, k2, k3}
    Val = {v1, v2}
    Miss = Miss
    CapacityArg = 2
    TTL = 1
    MaxTime = 3
    MaxUses = 5
SPECIFICATION Spec
INVARIANTS ListMatchesMap Bounded
PROPERTIES EvictsOldest MapSpec
