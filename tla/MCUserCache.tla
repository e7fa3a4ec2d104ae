---------------------------- MODULE MCUserCache ----------------------------
EXTENDS UserCache, TLC

CONSTANTS u1, d1

MCDeptOf == [u \in Users |-> d1]
=============================================================================
