SPECIFICATION Spec
CONSTANTS
    Ids = {i1}
    SLOTS_COUNT = 1
    NoId = NoId
    NoConn = NoConn
    MaxEdits = 0
    MaxBinds = 2
    MaxDeaths = 1
    MaxFlips = 0
    MaxQueue = 2
CONSTRAINT CalmSettle
PROPERTIES StartSettles 
CHECK_DEADLOCK FALSE
