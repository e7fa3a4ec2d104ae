SPECIFICATION Spec
CONSTANTS
    b1 = b1
    b2 = b2
    e1 = e1
    e2 = e2
    t1 = t1
    o1 = o1
    Beats = {b1, b2}
    Edits = {e1, e2}
    Tasks = {t1, o1}
    OneOff = {o1}
    Every <- MCEvery
    PerSecond = 2
    LockTimeout = 2
    Casts <- MCCasts
    MaxClock = 3
    MaxFails = 1
    None = None
SYMMETRY Sym
INVARIANTS
    TypeOK
    LockExclusive
    LateDispatch
    RunsSpaced
    ChangesNoticed
CHECK_DEADLOCK FALSE
