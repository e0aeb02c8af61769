SPECIFICATION Spec
CONSTANTS
    d1 = d1
    d2 = d2
    m1 = m1
    Devs = {d1}
    Models = {m1}
    ModelOf <- OneModel
    NoDev = NoDev
    MaxConns = 2
    MaxPlugs = 2
    MaxIntents = 1
    MaxResets = 1
    MaxNamings = 0
CONSTRAINT Calm
INVARIANTS MapsAgree NothingLeaked
PROPERTY ReadersEnd
CHECK_DEADLOCK FALSE
