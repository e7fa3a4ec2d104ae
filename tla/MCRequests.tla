----------------------------- MODULE MCRequests -----------------------------
(***************************************************************************)
(* Small instances of the services: three requests, attempts, callbacks,   *)
(* jobs or sockets at a time, and three plugins to be ordered.             *)
(***************************************************************************)
EXTENDS Services, Naturals, FiniteSets, TLC

CONSTANTS r1, r2, r3

Callers == {r1, r2, r3}
Symmetry == Permutations(Callers)

Id(table_, n) == [kind |-> table_, n |-> n]
D(n) == Id("dept", n)
U(n) == Id("user", n)
R(n) == Id("role", n)
M(n) == Id("menu", n)
S(n) == Id("scope", n)
X(n) == Id("rule", n)
T(n) == Id("dtype", n)
V(n) == Id("ddata", n)
C(n) == Id("config", n)
B(n) == Id("business", n)
K(n) == Id("column", n)

L(name, ref, code_) == [state |-> "live", name |-> name, ref |-> ref, code |-> code_]
Table(live, free) ==
    live @@ [i \in free |-> [state |-> "none", name |-> None, ref |-> None, code |-> None]]

\* Tables that refer to each other are together in a scene, with room for an
\* insert or two.
MCScenes ==
    {[rows |-> Table((D("1") :> L("a", Zero, None)) @@ (D("2") :> L("b", D("1"), None))
                        @@ (U("1") :> L("a", D("2"), "e")), {D("3")}),
      links |-> {}],
     [rows |-> Table((M("1") :> L("a", None, "menu")) @@ (M("2") :> L("b", M("1"), "menu"))
                        @@ (R("1") :> L("a", None, "on")), {M("3"), M("4")}),
      links |-> {<<R("1"), M("2")>>}],
     [rows |-> Table((D("1") :> L("a", None, None)) @@ (R("1") :> L("a", None, "on"))
                        @@ (U("1") :> L("a", D("1"), "e")), {U("2"), R("2")}),
      links |-> {<<U("1"), R("1")>>}],
     [rows |-> Table((R("1") :> L("a", None, "on")) @@ (S("1") :> L("a", None, None))
                        @@ (X("1") :> L("a", None, None)), {S("2"), X("2")}),
      links |-> {<<R("1"), S("1")>>}],
     [rows |-> Table((T("1") :> L("a", None, None)) @@ (T("2") :> L("b", None, None))
                        @@ (V("1") :> L("a", T("1"), "a")), {V("2"), V("3"), T("3")}),
      links |-> {}],
     [rows |-> Table((C("1") :> L("a", None, None)) @@ (C("2") :> L("b", None, None)), {C("3")}),
      links |-> {}],
     [rows |-> Table((B("1") :> L("a", None, None)) @@ (B("2") :> L("b", None, None))
                        @@ (K("1") :> L("a", B("1"), None)), {B("3"), K("2"), K("3")}),
      links |-> {}]}

MCLoginCasts == {Callers, {"m1", "m2"}}

MCMailOf == [x \in {"u1", "u2", "a1", "a2"} |->
                CASE x \in {"u1", "a1"} -> "e1" [] x = "a2" -> "e2" [] x = "u2" -> None]

\* A process that starts while a job of the plugins is under way meets one other
\* job at most; nothing is promised then of what is announced.
Bounds ==
    (part = "plugins" /\ mixed) => Cardinality({j \in Callers : kind[j] # None}) <= 2

MCOwner == [c \in Callers |-> "s1"]
MCAbout == [r \in {"k1", "k2"} |-> "s1"]

\* Two sockets and a revocation; a socket, a revocation, the monitor and a server
\* that dies; two logins, a revocation and the monitor; and a socket with two
\* revocations.
MCOnlineCasts ==
    {[ops |-> {"s1", c, d, "k1"}, leaves |-> 1, crashes |-> 0] : c, d \in Callers}
      \cup {[ops |-> {"s1", c, "k1", "n1"}, leaves |-> 1, crashes |-> 1] : c \in Callers}
      \cup {[ops |-> {"s1", "s2", "k1", "n1"}, leaves |-> 1, crashes |-> 0]}
      \cup {[ops |-> {"s1", c, "k1", "k2"}, leaves |-> 1, crashes |-> 0] : c \in Callers}

\* Three plugins, each with up to two dependencies, or the same one twice, among
\* them and one that is not there.
MCPackages == {"a", "b", "c", "gone"}
MCDependencies ==
    {<<>>} \cup {<<p>> : p \in MCPackages} \cup {<<p, q>> : p, q \in MCPackages}
MCLists ==
    {<<[name |-> "a", depends_on |-> da], [name |-> "b", depends_on |-> db],
       [name |-> "c", depends_on |-> dc]>> : da, db, dc \in MCDependencies}
=============================================================================
