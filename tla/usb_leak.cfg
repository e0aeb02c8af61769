SPECIFICATION Spec
CONSTANTS
    d1 = d1
    d2 = d2
    m1 = m1
    Devs = {d1}
    Models = {m1}
    ModelOf <- OneModel
    NoDev = NoDev
    MaxConns = 2
    MaxPlugs = 1
    MaxIntents = 1
    MaxResets = 0
    MaxNamings = 0
INVARIANT NoLeakedThreads
CHECK_DEADLOCK FALSE
