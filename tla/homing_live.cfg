SPECIFICATION FairSpec
CONSTANTS
    N = 2
    Expire = 3
    Report = 2
    MinExtend = 1
    Lead = 1
    HomeLen = 2
    Rest = 2
    SampleTicks = 1
    SampleCount = 2
    Retries = 1
    MaxTime = 15
    StartBy = 2
    MaxHomings = 2
    MaxLost = 2
    MaxLate = 0
INVARIANTS TypeOK NothingStale ResultExact HitIsReal
PROPERTY HomingEnds
CHECK_DEADLOCK FALSE
