SPECIFICATION Spec
CONSTANTS
    Ids = {i1, i2}
    SLOTS_COUNT = 2
    NoId = NoId
    NoConn = NoConn
    MaxEdits = 0
    MaxBinds = 1
    MaxDeaths = 0
    MaxFlips = 1
    MaxQueue = 2
SYMMETRY IdSymmetry
CONSTRAINT Calm
INVARIANTS TypeOK SlotsInjective   
CHECK_DEADLOCK FALSE
