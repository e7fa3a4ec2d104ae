-------------------------- MODULE MCTokenSessions --------------------------
EXTENDS TokenSessions, TLC

CONSTANTS l1, l2, a1, g1, f1, f2, k1, r1, t1

\* Four of two logins, a refresh, a logout and a revocation of everything, and a
\* key that expires; an OAuth2 and a swagger login, two refreshes, a change of
\* is_multi_login, and a request that fails half way.  The others bring together
\* the kinds of request that do not meet in these, with nothing going wrong.
MCCasts ==
    {[ops |-> ops, expiries |-> 1, aborts |-> 0]
        : ops \in {Logins \cup {o, r1} : o \in Refreshes \cup {k1}}
                    \cup {{l, f, k1, r1} : l \in Logins, f \in Refreshes}}
      \cup {[ops |-> {a1, g1, f1, f2, t1}, expiries |-> 0, aborts |-> 1]}
      \cup {[ops |-> ops, expiries |-> 0, aborts |-> 0]
        : ops \in {{l, a1, x, r1} : l \in Logins, x \in {k1, t1}}
                    \cup {{l, g1, t1, r1} : l \in Logins} \cup {{a1, g1, k1, t1}}}

\* Without anything going wrong.
MCPlainCasts == {[ops |-> Ops, expiries |-> 0, aborts |-> 0]}

Sym == Permutations(Logins) \cup Permutations(Refreshes)
=============================================================================
