SPECIFICATION Spec
CONSTANTS
    Ids = {i1, i2}
    SLOTS_COUNT = 2
    NoId = NoId
    NoConn = NoConn
    MaxEdits = 0
    MaxBinds = 1
    MaxDeaths = 1
    MaxFlips = 0
    MaxQueue = 1
SYMMETRY IdSymmetry
CONSTRAINT Calm
INVARIANT ProfilesRunTheirOwnKlippy
CHECK_DEADLOCK FALSE
