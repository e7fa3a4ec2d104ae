SPECIFICATION Spec
CONSTANTS
    b1 = b1
    b2 = b2
    e1 = e1
    e2 = e2
    t1 = t1
    o1 = o1
    Beats = {b1}
    Edits = {}
    Tasks = {t1, o1}
    OneOff = {o1}
    Every <- MCEvery
    PerSecond = 2
    LockTimeout = 2
    Casts <- MCOneBeat
    MaxClock = 4
    MaxFails = 0
    None = None
INVARIANTS
    OneOffLeaves
CHECK_DEADLOCK FALSE
