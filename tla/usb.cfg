SPECIFICATION Spec
CONSTANTS
    d1 = d1
    d2 = d2
    m1 = m1
    Devs = {d1, d2}
    Models = {m1}
    ModelOf <- OneModel
    NoDev = NoDev
    MaxConns = 2
    MaxPlugs = 1
    MaxIntents = 0
    MaxResets = 0
    MaxNamings = 1
SYMMETRY DevSymmetry
CONSTRAINT Calm
INVARIANTS TypeOK MapsAgree NothingLeaked FilesAreTerminals DetachedIsForgotten
CHECK_DEADLOCK FALSE
