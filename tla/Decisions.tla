------------------------------ MODULE Decisions ------------------------------
(***************************************************************************)
(* The decisions the backend makes about one request: whether the roles of *)
(* the user let it in, which rows its data rules show, and what becomes of *)
(* it between the first middleware and the log of the operation.  A step   *)
(* puts one question: a user and a check, a user and a rule more for a     *)
(* table, or a request and the endpoint it is for.                         *)
(***************************************************************************)
EXTENDS RequestPipeline

CONSTANTS
    People,     \* those who ask
    Checks,     \* what rbac_verify is asked
    MoreRules,  \* the rules that may be given to a user
    Tables,     \* the tables that are filtered, with their rows
    Requests    \* pairs of a request and an endpoint

ASSUME DecisionsAssumption ==
    /\ Endpoints \in Seq(Endpoint)
    /\ People \subseteq User
    /\ Checks \subseteq Check
    /\ MoreRules \subseteq Rule
    /\ Requests \subseteq [req : Request, endpoint : Api!ToSet(Endpoints)]

\* None and Text are none of the values they stand beside.
ASSUME NamesAssumption ==
    /\ None \notin STRING \cup User
    /\ None \notin Failure
    /\ None \notin [code : Nat \cup {None, Text}, failed : BOOLEAN]
    /\ Text \notin Nat \cup {None}
    /\ None \notin Nat

VARIABLE task

Idle == [asked |-> "nothing"]

AskAccess ==
    \E user \in People, check \in Checks :
        task' = [asked |-> "access", user |-> user, check |-> check]

AskFilter ==
    \E user \in People, rule \in MoreRules, table \in Tables :
        task' = [asked |-> "filter", user |-> user, rule |-> rule, table |-> table]

AskRequest ==
    \E q \in Requests :
        /\ Reached(q.req, q.endpoint)
        /\ task' = [asked |-> "request", req |-> q.req, endpoint |-> q.endpoint]

Init == task = Idle

Next == task = Idle /\ (AskAccess \/ AskFilter \/ AskRequest)

Spec == Init /\ [][Next]_task

-----------------------------------------------------------------------------

\* rbac_verify: the roles of a user add up, and what is disabled gives nothing.
AccessRight == task.asked = "access" => AccessAddsUp(task.user, task.check)

\* filter_data_permission: a rule more moves what a user sees the way its
\* operator says.
FilterRight ==
    task.asked = "filter" => FilterMoves(task.user, task.rule, task.table, task.table.rows)

\* The routers: every endpoint is what its path reaches, checks the permissions
\* it names and commits what it writes.
RoutesRight == task.asked = "request" => Api!RouteRight(Endpoints, task.endpoint)

\* The middlewares, dependencies and handlers: a request is let in, answered,
\* stored and logged as the same request.
RequestsRight == task.asked = "request" => RequestRight(task.req, task.endpoint)

\* A data rule may name ${now}, the current time (core/conf.py): here for a
\* time column of the users, at time 2.
NowRight ==
    task.asked = "filter" =>
        \A time \in 1..3 :
            NowIsCurrent(task.user,
                [model |-> "User", column |-> "join_time", expression |-> task.rule.expression,
                 value |-> <<[var |-> "now", num |-> 0]>>, operator |-> "AND"],
                [join_time |-> time], 2)
=============================================================================
