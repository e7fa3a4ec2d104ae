SPECIFICATION Spec
CONSTANTS
    Procs = {p1, p2, p3}
    Threads = {t1, t2}
    MaxNode = 1
    SeqSize = 2
    Tolerance = 1
    Ttl = 2
    MaxClock = 2
    MaxIds = 3
    MaxSteps = 1
    None = None
SYMMETRY Sym
CONSTRAINT Bounds
INVARIANTS
    TypeOK
    NodeExclusive
    IdsIncrease
    IdsUnique
CHECK_DEADLOCK FALSE
