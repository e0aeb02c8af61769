SPECIFICATION Spec
CONSTANTS
    N = 2
    Expire = 3
    Report = 2
    MinExtend = 1
    Lead = 1
    HomeLen = 9
    Rest = 3
    SampleTicks = 1
    SampleCount = 1
    Retries = 1
    MaxTime = 6
    StartBy = 0
    MaxHomings = 1
    MaxLost = 0
    MaxLate = 4
INVARIANTS StopsTogether 
CHECK_DEADLOCK FALSE
