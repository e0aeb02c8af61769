SPECIFICATION Spec
CONSTANTS
    Ids = {i1, i2}
    SLOTS_COUNT = 2
    NoId = NoId
    NoConn = NoConn
    MaxEdits = 1
    MaxBinds = 1
    MaxDeaths = 0
    MaxFlips = 0
    MaxQueue = 1
SYMMETRY IdSymmetry
CONSTRAINT CalmReload
INVARIANTS SlotsInjective  
CHECK_DEADLOCK FALSE
