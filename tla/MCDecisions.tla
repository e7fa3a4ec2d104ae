----------------------------- MODULE MCDecisions -----------------------------
(***************************************************************************)
(* Decisions with the endpoints of the repository.                         *)
(***************************************************************************)
EXTENDS Decisions

AtMost(n, set) == {s \in SUBSET set : Cardinality(s) <= n}

AllEndpoints == Api!final_router

Person(superuser, staff, roles) ==
    [superuser |-> superuser, staff |-> staff, id |-> 1, dept |-> 2, roles |-> roles]

-----------------------------------------------------------------------------
(* Access: up to two roles over three menus, one of them disabled.         *)

SomeMenus == {[id |-> 1, perms |-> {"p"}, status |-> TRUE],
              [id |-> 2, perms |-> {"p", "q"}, status |-> FALSE],
              [id |-> 3, perms |-> {}, status |-> TRUE]}

AccessRoles == [status : BOOLEAN, filtered : {TRUE}, menus : SUBSET SomeMenus, scopes : {{}}]

AccessUsers ==
    {Person(s[1], s[2], roles) : s \in {<<TRUE, TRUE>>, <<FALSE, TRUE>>, <<FALSE, FALSE>>},
                                 roles \in AtMost(2, AccessRoles)}

SomeChecks ==
    {c \in [open : BOOLEAN, token : BOOLEAN, write : BOOLEAN, perm : {None, "p", "q"},
            free : {{}, {"p"}}, roleMenu : BOOLEAN] : c.open => ~c.token}

-----------------------------------------------------------------------------
(* Data permission: a table of three columns and nine rows.                *)

Num(n) == [var |-> "", num |-> n]
Var(v) == [var |-> v, num |-> 0]
RuleOf(model, column, expression, value, operator) ==
    [model |-> model, column |-> column, expression |-> expression, value |-> value, operator |-> operator]

OwnDept == RuleOf("Notice", "__dept_id__", "eq", <<Var("dept_id")>>, "AND")
LowDept == RuleOf("__ALL__", "dept_id", "le", <<Num(2)>>, "AND")
OwnRows == RuleOf("Notice", "created_by", "in", <<Var("user_id"), Num(3)>>, "OR")
Absent == RuleOf("__ALL__", "phone", "eq", <<Num(1)>>, "OR")
ById == RuleOf("Notice", "id", "eq", <<Num(1)>>, "AND")

SomeRules ==
    {RuleOf(m, "dept_id", e, <<Num(2)>>, o)
       : m \in {"Notice", "Other"}, e \in {"eq", "ne", "gt", "ge", "lt", "le", "in", "not_in"}, o \in {"AND", "OR"}}
    \cup {OwnDept, OwnRows, Absent, ById}

SomeTables ==
    {[name |-> "Notice", columns |-> {"id", "dept_id", "created_by"},
      rows |-> [dept_id : 1..3, created_by : 1..3, id : {1}]]}

SomeScopes ==
    {[status |-> TRUE, rules |-> {}], [status |-> TRUE, rules |-> {OwnDept}],
     [status |-> TRUE, rules |-> {LowDept, OwnRows}], [status |-> TRUE, rules |-> {Absent}],
     [status |-> FALSE, rules |-> {OwnRows}], [status |-> FALSE, rules |-> {OwnDept, ById}]}

FilterRoles == [status : BOOLEAN, filtered : BOOLEAN, menus : {{}}, scopes : AtMost(2, SomeScopes)]

OtherRoles ==
    {{}, {[status |-> TRUE, filtered |-> TRUE, menus |-> {}, scopes |-> {}]},
     {[status |-> FALSE, filtered |-> FALSE, menus |-> {}, scopes |-> {}]}}

FilterUsers ==
    {Person(FALSE, TRUE, {r} \cup others) : r \in FilterRoles, others \in OtherRoles}
    \cup {Person(TRUE, TRUE, {r}) : r \in FilterRoles}

SomePeople == AccessUsers \cup FilterUsers

-----------------------------------------------------------------------------
(* Requests: every endpoint, called by several users and meeting, one at a *)
(* time, everything that can go wrong on the way.                          *)

SomePerms == {"sys:role:add", "codegen:local:write"}
Granting(perms) == [status |-> TRUE, filtered |-> TRUE, scopes |-> {},
                    menus |-> {[id |-> 1, perms |-> perms, status |-> TRUE]}]

\* A user who is given the permissions of an endpoint, one who is given others,
\* one of the two without the staff flag, one whose role is disabled, and two
\* superusers.
Callers(e) ==
    LET asked == {d.arg : d \in {d \in ToSet(e.deps) : d.kind = "permission"}}
    IN {None, Person(TRUE, TRUE, {}), Person(TRUE, FALSE, {}),
        Person(FALSE, TRUE, {Granting(asked)}), Person(FALSE, FALSE, {Granting(asked)}),
        Person(FALSE, TRUE, {Granting(SomePerms \ asked)}),
        Person(FALSE, TRUE, {[Granting(asked) EXCEPT !.status = FALSE]})}

AllPlugins == {"config", "dict", "notice", "email", "oauth2", "code_generator"}

Calling(e, user, ends, prod) ==
    [method |-> e.method, path |-> Api!Filled(e.path, "7"), user |-> user,
     auth |-> IF user = None THEN "none" ELSE "valid", fault |-> 500, json |-> "good", large |-> FALSE,
     takes |-> TRUE, input |-> TRUE, demo |-> FALSE, prod |-> prod, limited |-> FALSE, plugins |-> AllPlugins, ends |-> ends, commits |-> TRUE]

Met(req) ==
    {[req EXCEPT !.json = "malformed", !.large = large, !.takes = takes] : large, takes \in BOOLEAN}
    \cup {[req EXCEPT !.auth = "error", !.fault = fault] : fault \in {500, None, Text}}
    \cup {[req EXCEPT !.json = "none", !.commits = FALSE], [req EXCEPT !.input = FALSE],
          [req EXCEPT !.demo = TRUE], [req EXCEPT !.limited = TRUE], [req EXCEPT !.plugins = {}],
          [req EXCEPT !.auth = "expired"], [req EXCEPT !.auth = "locked"],
          [req EXCEPT !.path = <<"nowhere">>], [req EXCEPT !.method = "PATCH"]}

RequestsFor(e, prod) ==
    {Calling(e, user, ends, prod) : user \in Callers(e), ends \in Answered \cup Raised}
    \cup UNION {Met(Calling(e, user, Success, prod)) : user \in {None, Person(TRUE, TRUE, {})}}

SomeRequests ==
    UNION {[req : RequestsFor(e, prod), endpoint : {e}] : e \in ToSet(AllEndpoints), prod \in BOOLEAN}
=============================================================================
