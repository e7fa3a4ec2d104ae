---------------------------- MODULE MCAlgorithms ----------------------------
(***************************************************************************)
(* The decisions about a request (MCDecisions), and beside them the        *)
(* recursive algorithms of the backend over bounded inputs: a step picks   *)
(* one algorithm and one input, and the properties compare the result with *)
(* a reference.                                                            *)
(***************************************************************************)
EXTENDS MCDecisions, TLC

T == INSTANCE Sidebar
P == INSTANCE Paging
S == INSTANCE PluginStart
R == INSTANCE Requirements

-----------------------------------------------------------------------------
(* Trees: four rows under each other, under no row or under one that is    *)
(* not there, in three orders of the sort column.                          *)

Row(parent, sort) == [i \in 1..4 |-> [id |-> i, parent |-> parent[i], sort |-> sort[i]]]

AskTree ==
    \E parent \in [1..4 -> 1..5 \cup {None}] :
        \E sort \in {<<1, 1, 1, 1>>, <<2, 1, 2, 1>>, <<4, 3, 2, 1>>} :
            task' = [asked |-> "tree", rows |-> Row(parent, sort)]

\* Sidebars: a directory, a menu and a button below each other.
MenuRows == <<[id |-> 1, parent |-> None, sort |-> 2, type |-> 0, live |-> TRUE],
              [id |-> 2, parent |-> 1, sort |-> 1, type |-> 1, live |-> TRUE],
              [id |-> 3, parent |-> 2, sort |-> 1, type |-> 2, live |-> TRUE]>>

Roles ==
    [status : BOOLEAN, filtered : {TRUE}, scopes : {{}},
     menus : SUBSET {[id |-> i, perms |-> {}, status |-> TRUE] : i \in 1..3}]

AskSidebar ==
    \E roles \in AtMost(2, Roles), superuser \in BOOLEAN :
        task' = [asked |-> "sidebar",
                 user |-> [superuser |-> superuser, staff |-> TRUE, id |-> 1, dept |-> 2, roles |-> roles]]

\* The trees of departments and menus hold every row once, at its place, and the
\* sidebar shows the menus of the user's own roles.
TreesRight ==
    /\ task.asked = "tree" => T!TreeRight(task.rows)
    /\ task.asked = "sidebar" => T!SidebarOwn(task.user, MenuRows)

-----------------------------------------------------------------------------
(* Joins: two roles, menus, scopes and rules with overlapping numbers.     *)

E(model, i) == [model |-> model, id |-> i]
Between(src, dst, pairs) == {<<E(src, p[1]), E(dst, p[2])>> : p \in pairs}

Pairs == (1..2) \X (1..2)
SomePairs == {{}, {<<1, 1>>}, {<<1, 2>>, <<2, 1>>}, {<<1, 1>>, <<1, 2>>, <<2, 2>>}, Pairs}

AllLinks ==
    {Between("user", "dept", {<<1, 1>>}) \cup Between("dept", "user", {<<1, 1>>, <<1, 2>>})
       \cup Between("user", "role", ur) \cup Between("role", "menu", rm)
       \cup Between("role", "scope", rs) \cup Between("scope", "rule", sr)
     : ur \in SUBSET ({1} \X (1..2)), rm \in SomePairs, rs \in SomePairs, sr \in SomePairs}

DeadSets == {{}, {E("menu", 1), E("dept", 1)}, {E("role", 2), E("rule", 1)}, {E("scope", 1), E("user", 2)}}

AskJoin ==
    \E links \in AllLinks, dead \in DeadSets, back \in BOOLEAN :
        \E main \in {"user", "role", "scope", "dept"} :
            /\ main # "user" => back
            /\ E(main, 1) \notin dead
            /\ task' = [asked |-> "join", links |-> links, dead |-> dead, back |-> back,
                        main |-> E(main, 1),
                        rels |-> CASE main = "user" -> P!UserRelations
                                   [] main = "role" -> P!RoleRelations
                                   [] main = "scope" -> P!ScopeRelations
                                   [] main = "dept" -> P!DeptRelations]

\* get_join nests exactly the live entities the links name, each once.
JoinsFaithful ==
    task.asked = "join" =>
        P!JoinFaithful(task.links, task.dead, task.main, task.rels, task.back)

-----------------------------------------------------------------------------
(* Pages: three users with up to three roles.                              *)

AskPages ==
    \E ur \in SUBSET ((1..3) \X (1..2)), dead \in {{}, {E("role", 1)}},
       size \in 1..4, n \in 0..3, back \in BOOLEAN :
        task' = [asked |-> "pages", links |-> Between("user", "role", ur), dead |-> dead,
                 users |-> [i \in 1..n |-> E("user", 4 - i)], size |-> size, back |-> back]

\* The list of users shows every user and only true roles, page by page.
PagesTrue ==
    task.asked = "pages" =>
        P!UserPagesTrue(task.links, task.dead, task.users, task.back, task.size)

-----------------------------------------------------------------------------
(* Starts: three plugins of any kind and any dependencies; and a chain of  *)
(* them with one defect.                                                   *)

Plugin(name, level, deps) ==
    [name |-> name, deps |-> deps, info |-> IF level = "capability" THEN "nodb" ELSE "full",
     app |-> CASE level = "extend" -> [extend |-> "admin", router |-> None]
               [] level = "app" -> [extend |-> None, router |-> <<"v1">>]
               [] level = "capability" -> None,
     api |-> IF level = "extend" THEN {"notice"} ELSE None,
     settings |-> TRUE, other |-> FALSE, model |-> FALSE, sql |-> {},
     files |-> IF level = "extend" THEN {"notice"} ELSE None,
     exports |-> {"notice", "v1"}, hook |-> "ok", lifespan |-> name]

Levels == {"extend", "app", "capability"}
DepsOf(others) == {<<>>, <<"gone">>} \cup {<<o>> : o \in others}
                    \cup {<<x, y>> : x, y \in others}

Defects(p) ==
    {[p EXCEPT !.info = "bad"], [p EXCEPT !.info = "nodb"], [p EXCEPT !.settings = FALSE],
     [p EXCEPT !.app = None], [p EXCEPT !.api = {}],
     [p EXCEPT !.api = {"other"}], [p EXCEPT !.app = [extend |-> None, router |-> <<>>]],
     [p EXCEPT !.app = [extend |-> "gone", router |-> <<"v2">>]],
     [p EXCEPT !.deps = <<p.name>>], [p EXCEPT !.other = TRUE], [p EXCEPT !.model = TRUE],
     [p EXCEPT !.model = TRUE, !.sql = {"mysql"}], [p EXCEPT !.exports = {}],
     [p EXCEPT !.hook = "fails"], [p EXCEPT !.lifespan = "c"], [p EXCEPT !.hook = None]}

AskStart ==
    \E la, lb, lc \in Levels, da \in DepsOf({"b", "c"}), db \in DepsOf({"a", "c"}), dc \in DepsOf({"b"}) :
        task' = [asked |-> "start",
                 plugins |-> <<Plugin("a", la, da), Plugin("b", lb, db), Plugin("c", lc, dc)>>]

AskDefect ==
    \E la, lb, lc \in Levels, at \in 1..3 :
        LET chain == <<Plugin("a", la, <<"b">>), Plugin("b", lb, <<"c">>), Plugin("c", lc, <<>>)>>
        IN \E p \in Defects(chain[at]) :
             task' = [asked |-> "start", plugins |-> [chain EXCEPT ![at] = p]]

\* A start routes every plugin in order or none, and then runs the hooks of the
\* enabled ones, in the order of their dependencies; before it, the installation of
\* its requirements is skipped exactly when all are installed.
StartsRight ==
    /\ task.asked = "requirements" => R!SkipRight(task.dists, task.root, 4)
    /\ task.asked = "start" =>
          /\ S!StartRoutes(task.plugins, {"admin"})
          /\ (\A i \in DOMAIN task.plugins : S!Valid(task.plugins[i])) =>
                \A enabled \in {{"a", "b", "c"}, {"a", "c"}, {"b"}} : S!HooksOrdered(task.plugins, enabled)

-----------------------------------------------------------------------------
(* Requirements: two distributions and a missing one.                      *)

Reqs(names) ==
    {[name |-> n, versions |-> v, extras |-> {}, when |-> None] : n \in names, v \in {{1}, {2}}}
    \cup {[name |-> n, versions |-> {1}, extras |-> {"x"}, when |-> None] : n \in names}
    \cup {[name |-> n, versions |-> {1}, extras |-> {}, when |-> "x"] : n \in names}

Lists(reqs) == {<<>>} \cup {<<r>> : r \in reqs} \cup {<<r, s>> : r, s \in reqs}

AskRequirements ==
    \E ra \in Lists(Reqs({"a", "b"})), rb \in {<<r>> : r \in Reqs({"a", "b", "c"})} \cup {<<>>},
       root \in {<<r>> : r \in Reqs({"a", "b"})} :
        task' = [asked |-> "requirements", root |-> root,
                 dists |-> ("a" :> [version |-> 1, requires |-> ra])
                             @@ ("b" :> [version |-> 1, requires |-> rb])]

-----------------------------------------------------------------------------

AllNext ==
    \/ Next
    \/ /\ task = Idle
       /\ \/ AskTree \/ AskSidebar \/ AskJoin \/ AskPages
          \/ AskStart \/ AskDefect \/ AskRequirements

AllSpec == Init /\ [][AllNext]_task
=============================================================================
