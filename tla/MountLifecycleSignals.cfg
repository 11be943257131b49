\* Two processes that mount at one place, one client of the mount.
CONSTANTS
    Proc = {p1, p2}
    c1 = c1
    c2 = c2
    Cluster = {c1, c2}
    None = None
    Worlds <- MCWorlds
    FlagSets <- MCFlagSets
    MaxStack = 2
SPECIFICATION FairSpec
INVARIANTS TypeOK EndedHoldsNothing DoctorPredictsMount DoctorPredictsRouting
PROPERTIES IdleSignalEnds
