SPECIFICATION Spec
CONSTANTS
    Users = {u1}
    Depts = {d1}
    Roles = {r1}
    Menus = {m1}
    Scopes = {s1}
    Rules = {q1}
    u1 = u1
    d1 = d1
    DeptOf <- MCDeptOf
    Writes = {w1}
    Requests = {a1, a2}
    None = None
INVARIANTS
    DeptLockRefuses
CHECK_DEADLOCK FALSE
