----------------------------- MODULE UserCache -----------------------------
(***************************************************************************)
(* The cache of authenticated users (admin/utils/cache.py): a request is   *)
(* authorised by the user record that get_jwt_user finds in Redis or reads *)
(* from the database, and the services of users, roles, menus, data        *)
(* scopes, data rules and departments change what that record says.        *)
(*                                                                         *)
(* The association tables user_role, role_menu, role_data_scope and        *)
(* data_scope_rule are one relation, links.  What a record grants is the   *)
(* set of entities in force that it reaches through others in force.  A    *)
(* write is one request with its transaction: it changes rows, clears the  *)
(* cache and commits in that order (CurrentSessionTransaction commits when *)
(* the handler has returned).  Writes of the same row wait for each other. *)
(***************************************************************************)
EXTENDS Naturals, FiniteSets

CONSTANTS
    Users, Depts, Roles, Menus, Scopes, Rules,
    DeptOf,     \* DeptOf[u]: the department of user u
    Writes,     \* the requests that change the database
    Requests,   \* the authenticated requests
    None

Entities == Users \cup Depts \cup Roles \cup Menus \cup Scopes \cup Rules
Pairs == (Users \X Roles) \cup (Roles \X (Menus \cup Scopes)) \cup (Scopes \X Rules)

ASSUME UserCacheAssumption ==
    /\ DeptOf \in [Users -> Depts]
    /\ None \notin Users \cup Requests
    /\ LET tables == <<Users, Depts, Roles, Menus, Scopes, Rules>>
       IN \A i, j \in 1..6 : i # j => tables[i] \cap tables[j] = {}

VARIABLES
    db,         \* the committed database: [state, links]
    cache,      \* cache[u]: the cached record of user u
    wpc,        \* wpc[w]: "idle", "clear", "commit", "done" or "rolledback"
    change,     \* change[w]: what w does to the database
    rpc,        \* rpc[r]: "idle", "get", "read", "set", "done" or "denied"
    user,       \* user[r]: whose token r carries
    record,     \* record[r]: the record r is authorised by
    wrote,      \* history: wrote[r], the writes that had ended when r began
    readBefore  \* history: readBefore[w], the requests that had ended when w began

vars == <<db, cache, wpc, change, rpc, user, record, wrote, readBefore>>

-----------------------------------------------------------------------------
(* The database and what it grants.                                        *)

Heads(links, S) == {e \in Entities : \E x \in S : <<e, x>> \in links}
Tails(links, S) == {x \in Entities : \E e \in S : <<e, x>> \in links}

On(d, S) == {e \in S : d.state[e] = "on"}

\* What get_join loads of user u, as the RBAC check and the data permission
\* filter use it: entities that are off or deleted grant nothing.
Grants(d, u) ==
    LET roles == On(d, Tails(d.links, {u}))
        below == On(d, Tails(d.links, roles))
    IN roles \cup below \cup On(d, Tails(d.links, below \cap Scopes))

\* get_available refuses a user that is locked or deleted, whose department
\* is, or whose roles are all locked; a deleted role is not loaded.
Available(d, u) ==
    /\ d.state[u] = "on"
    /\ d.state[DeptOf[u]] = "on"
    /\ LET roles == {r \in Tails(d.links, {u}) : d.state[r] # "deleted"} IN
         roles # {} => \E r \in roles : d.state[r] = "on"

Records == [user: Users, grants: SUBSET (Entities \ (Users \cup Depts)), by: Requests]

Changes ==
    [kind: {"status", "delete"}, on: Entities, to: {{}}]
        \cup [kind: {"links"}, on: Users \cup Roles \cup Scopes,
              to: SUBSET (Roles \cup Menus \cup Scopes \cup Rules)]

NoChange == [kind |-> "none", on |-> None, to |-> {}]

\* The rows after a change; "status" stands for every update of a row, such as
\* that of a data rule, after which the row grants something else.  Menu and
\* user rows are unlinked when they are deleted (menu_dao.delete,
\* user_dao.delete); the links of other deleted rows stay.
Apply(d, c) ==
    CASE c.kind = "status" ->
           [d EXCEPT !.state[c.on] = IF @ = "on" THEN "off" ELSE "on"]
      [] c.kind = "delete" ->
           [state |-> [d.state EXCEPT ![c.on] = "deleted"],
            links |-> {l \in d.links :
                        /\ c.on \in Menus => l[2] # c.on
                        /\ c.on \in Users => l[1] # c.on}]
      [] c.kind = "links" ->
           [d EXCEPT !.links = {l \in @ : l[1] # c.on} \cup {<<c.on, x>> : x \in c.to}]
      [] OTHER -> d

\* Links go to existing rows of the right table.
LinksKnown(c) == \A x \in c.to : <<c.on, x>> \in Pairs /\ db.state[x] # "deleted"

\* The changes the services accept: of an existing row; a department with users
\* is not deleted; update_role_menu and update_role_scope replace the links to
\* one of the two tables.
Legal(c) ==
    /\ db.state[c.on] # "deleted"
    /\ c.kind = "delete" => c.on \notin Depts
    /\ c.kind = "links" =>
        /\ LinksKnown(c)
        /\ c.on \in Roles =>
             LET old == Tails(db.links, {c.on}) IN
               c.to \cap Menus = old \cap Menus \/ c.to \cap Scopes = old \cap Scopes

\* Mutant: clear_by_data_rule_id forgets the roles.
ClearedRuleless(d, x) == IF x \in Rules THEN {} ELSE Heads(d.links, {x}) \cap Users

\* The users whose records a write clears, from the links its own
\* transaction sees: clear, clear_by_role_id, clear_by_menu_id,
\* clear_by_data_scope_id, clear_by_data_rule_id.  No service clears
\* anything for a department.
Cleared(d, x) ==
    CASE x \in Users -> {x}
      [] x \in Roles -> Heads(d.links, {x})
      [] x \in Menus \cup Scopes -> Heads(d.links, Heads(d.links, {x}))
      [] x \in Rules -> Heads(d.links, Heads(d.links, Heads(d.links, {x})))
      [] OTHER -> {}

-----------------------------------------------------------------------------
InitialDb == [state |-> [e \in Entities |-> "on"], links |-> Pairs]

Fresh(u) ==
    \/ cache[u] = None
    \/ cache[u].grants = Grants(db, u) /\ Available(db, u)

TypeOK ==
    /\ db \in [state: [Entities -> {"on", "off", "deleted"}], links: SUBSET Pairs]
    /\ cache \in [Users -> Records \cup {None}]
    /\ wpc \in [Writes -> {"idle", "clear", "commit", "done", "rolledback"}]
    /\ change \in [Writes -> Changes \cup {NoChange}]
    /\ rpc \in [Requests -> {"idle", "get", "read", "set", "done", "denied"}]
    /\ user \in [Requests -> Users \cup {None}]
    /\ record \in [Requests -> Records \cup {None}]
    /\ wrote \in [Requests -> SUBSET Writes]
    /\ readBefore \in [Writes -> SUBSET Requests]

Init ==
    /\ db = InitialDb
    /\ cache = [u \in Users |-> None]
    /\ wpc = [w \in Writes |-> "idle"]
    /\ change = [w \in Writes |-> NoChange]
    /\ rpc = [r \in Requests |-> "idle"]
    /\ user = [r \in Requests |-> None]
    /\ record = [r \in Requests |-> None]
    /\ wrote = [r \in Requests |-> {}]
    /\ readBefore = [w \in Writes |-> {}]

-----------------------------------------------------------------------------
(* Writes.                                                                 *)

InFlight(w) == wpc[w] \in {"clear", "commit"}

\* The service checks the change and executes it; it is not visible to
\* others yet.
Write(w) ==
    /\ wpc[w] = "idle"
    /\ \E c \in Changes :
        /\ Legal(c)
        /\ \A v \in Writes : InFlight(v) => change[v].on # c.on
        /\ change' = [change EXCEPT ![w] = c]
    /\ wpc' = [wpc EXCEPT ![w] = "clear"]
    /\ readBefore' = [readBefore EXCEPT ![w] = {r \in Requests : rpc[r] \in {"done", "denied"}}]
    /\ UNCHANGED <<db, cache, rpc, user, record, wrote>>

\* user_cache_manager: the keys of the users are deleted, before the commit.
Clear(w) ==
    /\ wpc[w] = "clear"
    /\ cache' = [u \in Users |->
                   IF u \in Cleared(Apply(db, change[w]), change[w].on) THEN None ELSE cache[u]]
    /\ wpc' = [wpc EXCEPT ![w] = "commit"]
    /\ UNCHANGED <<db, change, rpc, user, record, wrote, readBefore>>

Commit(w) ==
    /\ wpc[w] = "commit"
    /\ db' = Apply(db, change[w])
    /\ wpc' = [wpc EXCEPT ![w] = "done"]
    /\ UNCHANGED <<cache, change, rpc, user, record, wrote, readBefore>>

\* Redis or the commit fails, or the process dies: the rows stay as they were.
Rollback(w) ==
    /\ InFlight(w)
    /\ wpc' = [wpc EXCEPT ![w] = "rolledback"]
    /\ UNCHANGED <<db, cache, change, rpc, user, record, wrote, readBefore>>

-----------------------------------------------------------------------------
(* Requests: jwt_authentication has accepted the token and calls           *)
(* get_jwt_user.                                                           *)

Arrive(r) ==
    /\ rpc[r] = "idle"
    /\ \E u \in Users : user' = [user EXCEPT ![r] = u]
    /\ rpc' = [rpc EXCEPT ![r] = "get"]
    /\ wrote' = [wrote EXCEPT ![r] = {w \in Writes : wpc[w] = "done"}]
    /\ UNCHANGED <<db, cache, wpc, change, record, readBefore>>

\* A cached record authorises the request; nothing of it is checked again.
GetHit(r) ==
    /\ rpc[r] = "get"
    /\ cache[user[r]] # None
    /\ record' = [record EXCEPT ![r] = cache[user[r]]]
    /\ rpc' = [rpc EXCEPT ![r] = "done"]
    /\ UNCHANGED <<db, cache, wpc, change, user, wrote, readBefore>>

GetMiss(r) ==
    /\ rpc[r] = "get"
    /\ cache[user[r]] = None
    /\ rpc' = [rpc EXCEPT ![r] = "read"]
    /\ UNCHANGED <<db, cache, wpc, change, user, record, wrote, readBefore>>

\* get_available: the record is read, in a database session of its own.
Read(r) ==
    /\ rpc[r] = "read"
    /\ Available(db, user[r])
    /\ record' = [record EXCEPT ![r] =
                    [user |-> user[r], grants |-> Grants(db, user[r]), by |-> r]]
    /\ rpc' = [rpc EXCEPT ![r] = "set"]
    /\ UNCHANGED <<db, cache, wpc, change, user, wrote, readBefore>>

Deny(r) ==
    /\ rpc[r] = "read"
    /\ ~Available(db, user[r])
    /\ rpc' = [rpc EXCEPT ![r] = "denied"]
    /\ UNCHANGED <<db, cache, wpc, change, user, record, wrote, readBefore>>

\* SET with the lifetime of a token: whatever was cached or cleared meanwhile.
Set(r) ==
    /\ rpc[r] = "set"
    /\ cache' = [cache EXCEPT ![user[r]] = record[r]]
    /\ rpc' = [rpc EXCEPT ![r] = "done"]
    /\ UNCHANGED <<db, wpc, change, user, record, wrote, readBefore>>

\* Mutant: SET without ex.
KeyExpiresNever(u) == FALSE

KeyExpires(u) == cache[u] # None

\* The key of a record lives TOKEN_EXPIRE_SECONDS; no hit prolongs it.
Expire(u) ==
    /\ KeyExpires(u)
    /\ cache' = [cache EXCEPT ![u] = None]
    /\ UNCHANGED <<db, wpc, change, rpc, user, record, wrote, readBefore>>

Next ==
    \/ \E w \in Writes : Write(w) \/ Clear(w) \/ Commit(w) \/ Rollback(w)
    \/ \E r \in Requests : Arrive(r) \/ GetHit(r) \/ GetMiss(r) \/ Read(r) \/ Deny(r) \/ Set(r)
    \/ \E u \in Users : Expire(u)

\* Redis expires every key in the end.
Fairness == \A u \in Users : WF_vars(Expire(u))

Spec == Init /\ [][Next]_vars
FairSpec == Spec /\ Fairness

-----------------------------------------------------------------------------
(* Properties.                                                             *)

\* A request and a write that ran at the same time, at least in part.
Overlap(r, w) ==
    /\ rpc[r] # "idle" /\ wpc[w] # "idle"
    /\ r \notin readBefore[w] /\ w \notin wrote[r]

\* A write whose service clears nothing: departments have no cache code, and
\* a deleted menu has lost its links when clear_by_menu_id looks for them.
ClearsNobody(c) == c.on \in Depts \/ (c.on \in Menus /\ c.kind = "delete")

\* A stale record is in the cache only if its reader ran during a write that
\* made it stale, or a write was made whose service clears nobody.
CacheFresh ==
    \A u \in Users : Fresh(u) \/
        \E w \in Writes :
            /\ wpc[w] = "done"
            /\ Overlap(cache[u].by, w) \/ ClearsNobody(change[w])

\* The docstring of get_available: a user whose department is locked is
\* refused.  Here: no request that arrives after the lock committed is
\* authorised by a record that was read before the lock began.
DeptLockRefuses ==
    \A r \in Requests, w \in Writes :
        (/\ w \in wrote[r]
         /\ change[w].kind = "status" /\ change[w].on = DeptOf[user[r]]
         /\ \A v \in Writes \ {w} : wpc[v] = "idle"
         /\ rpc[r] = "done")
        => record[r].by \notin readBefore[w]

\* The docstring of clear_by_menu_id: the records of the users of the menu are
\* cleared.  Here: no request that arrives after a menu was deleted, and whose
\* record was read before that began, is granted the menu.
MenuDeleteClears ==
    \A r \in Requests, w \in Writes :
        (/\ w \in wrote[r]
         /\ change[w].kind = "delete" /\ change[w].on \in Menus
         /\ rpc[r] = "done"
         /\ record[r].by \in readBefore[w])
        => change[w].on \notin record[r].grants

\* However stale a record gets, it is gone or right again in the end: an entry
\* is not prolonged by its readers.
EventuallyFresh == \A u \in Users : <>[]Fresh(u)
=============================================================================
