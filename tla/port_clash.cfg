SPECIFICATION Spec
CONSTANTS
    Profiles = {p1, p2, p3}
    NoLock = NoLock
    Stale = 1
    Wait = 2
    MaxKills = 0
SYMMETRY ProfileSymmetry
CONSTRAINT NoDelay
INVARIANT EachItsOwnPort
