SPECIFICATION Spec
CONSTANTS
    l1 = l1
    l2 = l2
    a1 = a1
    g1 = g1
    f1 = f1
    f2 = f2
    k1 = k1
    r1 = r1
    t1 = t1
    Logins = {l1, l2}
    OAuths = {}
    Swaggers = {}
    Refreshes = {f1}
    Logouts = {}
    Resets = {r1}
    Toggles = {}
    Casts <- MCPlainCasts
    None = None
SYMMETRY Sym
INVARIANTS
    RevokesEverySession
CHECK_DEADLOCK FALSE
