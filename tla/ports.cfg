SPECIFICATION Spec
CONSTANTS
    Profiles = {p1, p2}
    NoLock = NoLock
    Stale = 1
    Wait = 2
    MaxKills = 2
INVARIANTS TypeOK LockExclusive PortsDistinct LockReleased
PROPERTY StartEnds
