SPECIFICATION Spec
CONSTANTS
    l1 = l1
    l2 = l2
    a1 = a1
    g1 = g1
    f1 = f1
    f2 = f2
    k1 = k1
    r1 = r1
    t1 = t1
    Logins = {l1, l2}
    OAuths = {a1}
    Swaggers = {g1}
    Refreshes = {f1, f2}
    Logouts = {k1}
    Resets = {r1}
    Toggles = {t1}
    Casts <- MCCasts
    None = None
SYMMETRY Sym
INVARIANTS
    TypeOK
    RevokeComplete
    SessionListed
    LogoutFinal
    SingleSession
    RedeemOnce
    PairIntact
CHECK_DEADLOCK FALSE
