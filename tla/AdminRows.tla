------------------------------ MODULE AdminRows ------------------------------
(***************************************************************************)
(* The rows the administration's services keep: departments, users, roles, *)
(* menus, data scopes and rules, dictionaries, settings, and the code      *)
(* generator's businesses and columns.  No table has a foreign key: the    *)
(* services look up the rows a change depends on and refuse it, and the    *)
(* unique keys of the database stand behind the names.                     *)
(*                                                                         *)
(* A request is two steps: its service's look-ups, which plan a write, and *)
(* the write with the commit of its transaction.  A write waits for the    *)
(* rows and the keys another transaction changed, so the second step is    *)
(* taken whole; what others commit between the two steps is not locked     *)
(* out.  Deletion is a flag: a deleted row stays and its name is free.     *)
(***************************************************************************)
EXTENDS Naturals, FiniteSets

CONSTANTS
    Requests,   \* concurrent transactions
    Names,      \* names, titles, codes, keys, labels
    Emails,
    Scenes,     \* the tables requests begin with: [rows, links]
    None,       \* no value (null)
    Zero,       \* the number 0 sent as the id of a parent
    MaxBegun    \* bound: requests

VARIABLES
    rows,       \* rows[i] = [state, name, ref, code], i = [kind, n] an id of a table
    links,      \* rows of sys_user_role, sys_role_menu, sys_role_data_scope, sys_data_scope_rule
    plan,       \* plan[t]: the write a request is about to make, None when it is idle
    begun,
    seen,       \* history: seen[t], what others have committed since the look-ups of t
    raced,      \* history: what two overlapping requests both changed
    moved,      \* history: rows changed in a way no look-up covers (see Unchecked)
    surprise    \* history: a unique key refused what the look-ups had let through alone

vars == <<rows, links, plan, begun, seen, raced, moved, surprise>>

Of(kind) == {i \in DOMAIN rows : i.kind = kind}
Live(kind) == {i \in Of(kind) : rows[i].state = "live"}

\* The ids an insert may get: nobody else is given the same one.
Fresh(kind) == {i \in Of(kind) : rows[i].state = "none"
                                 /\ \A t \in Requests : plan[t] # None => i \notin DOMAIN plan[t].put}

Row(name, ref, code) == [state |-> "live", name |-> name, ref |-> ref, code |-> code]

Taken(kind, name) == \E i \in Live(kind) : rows[i].name = name
Renames(i, name) == name # rows[i].name => ~Taken(i.kind, name)
UnderNoOne == {None, Zero}

-----------------------------------------------------------------------------
(* A request: look-ups that plan a write, then the write.                  *)

Plan(t, put, kill, from, kind, to) ==
    /\ plan[t] = None /\ begun < MaxBegun
    /\ begun' = begun + 1
    /\ plan' = [plan EXCEPT ![t] = [put |-> put, kill |-> kill, from |-> from, kind |-> kind, to |-> to,
                                    had |-> {l \in links : l[1] = from}]]
    /\ UNCHANGED <<rows, links, seen, raced, moved, surprise>>

Put(t, i, row) == Plan(t, [j \in {i} |-> row], {}, None, None, {})
Kill(t, ids) == Plan(t, [i \in {} |-> None], ids, None, None, {})
Relink(t, i, kind, ids) == Plan(t, [j \in {} |-> None], {}, i, kind, ids)

\* Deleting dictionary types deletes what is under them.
Killed(p) == {i \in DOMAIN rows : rows[i].state = "live"
                                  /\ (i \in p.kill \/ (i.kind = "ddata" /\ rows[i].ref \in p.kill))}

\* An update changes the rows that are still live.
Written(p) == {i \in DOMAIN p.put : rows[i].state # "deleted"}

RowsAfter(p) ==
    [i \in DOMAIN rows |-> IF i \in Written(p) THEN p.put[i]
                           ELSE IF i \in Killed(p) THEN [rows[i] EXCEPT !.state = "deleted"]
                           ELSE rows[i]]

\* Deleting a menu or a user deletes its links; a new set of links replaces
\* those the DELETE could see.  It begins at some time before the commit, and
\* only a user's row is locked meanwhile.
LinksAfter(p, late, to) ==
    LET Cut(l) ==
            \/ l[2] \in p.kill /\ l[2].kind = "menu"
            \/ l[1] \in p.kill /\ l[1].kind = "user"
            \/ l[1] = p.from /\ l[2].kind = p.kind /\ (late \/ p.kind = "role" \/ l \in p.had)
    IN {l \in links : ~Cut(l)} \cup {<<p.from, j>> : j \in to}

\* The roles of a user are selected again before they are linked.
Selected(p, late) == IF p.kind = "role" /\ late THEN p.to \cap Live("role") ELSE p.to

KeyOf(i, row) ==
    CASE i.kind = "ddata" -> <<row.code, row.name>>
      [] i.kind = "column" -> <<row.ref, row.name>>
      [] OTHER -> <<row.name>>

Clash(table) ==
    \E i, j \in {k \in DOMAIN table : table[k].state = "live"} :
        /\ i # j /\ i.kind = j.kind /\ i.kind # "menu"
        /\ \/ KeyOf(i, table[i]) = KeyOf(j, table[j])
           \/ i.kind = "user" /\ table[i].code = table[j].code /\ table[i].code # None

\* The kind of the rows that the rows of a kind refer to, if they refer to any.
Kinds == {"dept", "user", "role", "menu", "scope", "rule", "dtype", "ddata", "config", "business", "column"}
Above(kind) ==
    CASE kind \in {"dept", "user"} -> "dept"
      [] kind = "ddata" -> "dtype"
      [] kind = "column" -> "business"
      [] kind = "menu" -> "menu"
      [] OTHER -> "none"

\* Tables in order: keys are unique, titles too but a button's, references and
\* links lead to live rows, and dictionary data has the code of its type.
Whole(table, ls) ==
    LET live == {i \in DOMAIN table : table[i].state = "live"} IN
    /\ table = [i \in DOMAIN table |-> table[i]] /\ DOMAIN table \cap UnderNoOne = {}
    /\ \A i \in DOMAIN table :
          /\ i.kind \in Kinds
          /\ table[i] = [state |-> table[i].state, name |-> table[i].name, ref |-> table[i].ref,
                         code |-> table[i].code]
          /\ table[i].state \in {"none", "live", "deleted"}
    /\ \A i \in live :
          /\ \/ table[i].ref \in live /\ table[i].ref.kind = Above(i.kind)
             \/ table[i].ref \in UnderNoOne /\ i.kind # "ddata"
          /\ i.kind = "ddata" => table[i].code = table[table[i].ref].name
    /\ ~Clash(table)
    /\ \A i, j \in live :
          (i.kind = "menu" /\ j.kind = "menu" /\ i # j /\ table[i].name = table[j].name)
              => "button" \in {table[i].code, table[j].code}
    /\ ls \subseteq live \X live

\* What the constants are: no value is none of them, and requests begin with
\* tables in order.
RowsAssumption ==
    /\ MaxBegun \in Nat
    /\ None # Zero /\ None \notin Emails \cup [kind : Kinds, n : Names \cup Emails]
    /\ \A scene \in Scenes : Whole(scene.rows, scene.links)

Marks(i, row) == {i, [kind |-> i.kind, n |-> row.name], [kind |-> i.kind, n |-> row.code]}
Changes(p) == (UNION {Marks(i, p.put[i]) : i \in Written(p)}) \cup Killed(p) \cup p.kill \cup {p.from}
DependsOn(p) ==
    Changes(p) \cup {p.put[i].ref : i \in Written(p)} \cup p.to
      \cup {i \in DOMAIN rows : rows[i].ref \in p.kill} \cup {l[1] : l \in {k \in links : k[2] \in p.kill}}
Overlaps(t) == (DependsOn(plan[t]) \cap seen[t]) \ {None}

\* A type renamed, a menu given another type or a column another business
\* under the name it has: the services look for no conflict then.
Unchecked(p) ==
    {i \in Written(p) : rows[i].state = "live"
        /\ \/ i.kind = "dtype" /\ p.put[i].name # rows[i].name
           \/ i.kind = "menu" /\ p.put[i].code # rows[i].code
           \/ i.kind = "column" /\ p.put[i].ref # rows[i].ref}

Done(t) == plan' = [plan EXCEPT ![t] = None]

Commit(t) ==
    /\ plan[t] # None
    /\ LET p == plan[t] IN
       \E late \in IF p.from = None THEN {TRUE} ELSE BOOLEAN :
          LET to == Selected(p, late) IN
          /\ ~Clash(RowsAfter(p)) /\ (p.to # {} => to # {})
          /\ rows' = RowsAfter(p)
          /\ links' = LinksAfter(p, late, to)
          /\ raced' = raced \cup Overlaps(t)
          /\ moved' = moved \cup Unchecked(p)
          /\ seen' = [u \in Requests |-> IF u = t \/ plan[u] = None THEN {} ELSE seen[u] \cup Changes(p)]
    /\ Done(t)
    /\ UNCHANGED <<begun, surprise>>

\* A unique key, or the insert of an empty list of roles, fails the request.
RollBack(t) ==
    /\ plan[t] # None
    /\ LET p == plan[t] IN
       /\ Clash(RowsAfter(p)) \/ (p.to # {} /\ Selected(p, TRUE) = {})
       /\ surprise' = (surprise \/ (Overlaps(t) = {} /\ Unchecked(p) = {}))
    /\ Done(t)
    /\ seen' = [seen EXCEPT ![t] = {}]
    /\ UNCHANGED <<rows, links, begun, raced, moved>>

-----------------------------------------------------------------------------
(* Departments and menus.                                                  *)

CreateDept(t) ==
    \E i \in Fresh("dept"), name \in Names, parent \in Live("dept") \cup {None} :
        /\ ~Taken("dept", name)
        /\ Put(t, i, Row(name, parent, None))

UpdateDept(t) ==
    \E i \in Live("dept"), name \in Names, parent \in Live("dept") \cup UnderNoOne :
        /\ Renames(i, name)
        /\ parent # i
        /\ Put(t, i, Row(name, parent, None))

\* Mutant: its users are not looked for.
DeleteDeptUnlooked(t) ==
    \E i \in Live("dept") : (\A d \in Live("dept") : rows[d].ref # i) /\ Kill(t, {i})

DeleteDept(t) ==
    \E i \in Live("dept") :
        /\ \A u \in Live("user") \cup Live("dept") : rows[u].ref # i
        /\ Kill(t, {i})

\* A button's title stops no other menu.
TitleTaken(name) == \E i \in Live("menu") : rows[i].name = name /\ rows[i].code # "button"

CreateMenu(t) ==
    \E i \in Fresh("menu"), name \in Names, parent \in Live("menu") \cup UnderNoOne, type \in {"menu", "button"} :
        /\ ~TitleTaken(name)
        /\ Put(t, i, Row(name, parent, type))

UpdateMenu(t) ==
    \E i \in Live("menu"), name \in Names, parent \in Live("menu") \cup UnderNoOne, type \in {"menu", "button"} :
        /\ name # rows[i].name => ~TitleTaken(name)
        /\ parent # i
        /\ Put(t, i, Row(name, parent, type))

\* A deleted menu may be deleted again.
DeleteMenu(t) ==
    \E i \in Of("menu") :
        /\ \A j \in Live("menu") : rows[j].ref # i
        /\ Kill(t, {i})

-----------------------------------------------------------------------------
(* Roles, data scopes and data rules.                                      *)

Some(kind) == SUBSET Of(kind) \ {{}}

CreateRole(t) ==
    \E i \in Fresh("role"), name \in Names : ~Taken("role", name) /\ Put(t, i, Row(name, None, "on"))

UpdateRole(t) ==
    \E i \in Live("role"), name \in Names, status \in {"on", "off"} :
        Renames(i, name) /\ Put(t, i, Row(name, None, status))

UpdateRoleMenu(t) ==
    \E i \in Live("role"), menus \in SUBSET Live("menu") : Relink(t, i, "menu", menus)

UpdateRoleScope(t) ==
    \E i \in Live("role"), scopes \in SUBSET Live("scope") : Relink(t, i, "scope", scopes)

DeleteRoles(t) == \E ids \in Some("role") : Kill(t, ids)

CreateScope(t) ==
    \E i \in Fresh("scope"), name \in Names : ~Taken("scope", name) /\ Put(t, i, Row(name, None, None))

UpdateScope(t) ==
    \E i \in Live("scope"), name \in Names : Renames(i, name) /\ Put(t, i, Row(name, None, None))

UpdateScopeRules(t) ==
    \E i \in Live("scope"), rules \in SUBSET Live("rule") : Relink(t, i, "rule", rules)

DeleteScopes(t) == \E ids \in Some("scope") : Kill(t, ids)

CreateRule(t) ==
    \E i \in Fresh("rule"), name \in Names : ~Taken("rule", name) /\ Put(t, i, Row(name, None, None))

UpdateRule(t) ==
    \E i \in Live("rule"), name \in Names : Renames(i, name) /\ Put(t, i, Row(name, None, None))

DeleteRules(t) == \E ids \in Some("rule") : Kill(t, ids)

-----------------------------------------------------------------------------
(* Users: their email is optional, their department may be left out of an  *)
(* update, and the one they have is not looked up again.                   *)

MailTaken(email) == \E u \in Live("user") : rows[u].code = email

CreateUser(t) ==
    \E i \in Fresh("user"), name \in Names, email \in Emails \cup {None},
       dept \in Live("dept"), roles \in SUBSET Live("role") :
        /\ ~Taken("user", name)
        /\ email # None => ~MailTaken(email)
        /\ Plan(t, [j \in {i} |-> Row(name, dept, email)], {}, i, "role", roles)

UpdateUser(t) ==
    \E i \in Live("user"), name \in Names, email \in Emails \cup {None}, roles \in SUBSET Live("role") :
        \E dept \in Live("dept") \cup UnderNoOne \cup {rows[i].ref} :
            /\ Renames(i, name)
            /\ email \notin {None, rows[i].code} => ~MailTaken(email)
            /\ Plan(t, [j \in {i} |-> Row(name, dept, email)], {}, i, "role", roles)

DeleteUser(t) == \E i \in Live("user") : Plan(t, [j \in {} |-> None], {i}, i, "role", {})

\* The first login from another site makes a user of no department with any
\* one of the roles that are on.
AddByOauth2(t) ==
    \E i \in Fresh("user"), name \in Names, email \in Emails \cup {None}, r \in Live("role") :
        /\ ~Taken("user", name)
        /\ email # None => ~MailTaken(email)
        /\ rows[r].code = "on"
        /\ Plan(t, [j \in {i} |-> Row(name, None, email)], {}, i, None, {r})

-----------------------------------------------------------------------------
(* Dictionaries and settings.                                              *)

CreateDictType(t) ==
    \E i \in Fresh("dtype"), code \in Names : ~Taken("dtype", code) /\ Put(t, i, Row(code, None, None))

UpdateDictType(t) ==
    \E i \in Live("dtype"), code \in Names : Renames(i, code) /\ Put(t, i, Row(code, None, None))

DeleteDictTypes(t) == \E ids \in Some("dtype") : Kill(t, ids)

\* The data under a code with a label.
Labelled(label, code) == {i \in Live("ddata") : rows[i].name = label /\ rows[i].code = code}

CreateDictData(t) ==
    \E i \in Fresh("ddata"), label \in Names, type \in Live("dtype") :
        /\ Labelled(label, rows[type].name) = {}
        /\ Put(t, i, Row(label, type, rows[type].name))

UpdateDictData(t) ==
    \E i \in Live("ddata"), label \in Names, type \in Live("dtype") :
        /\ Labelled(label, rows[type].name) \subseteq {i}
        /\ Put(t, i, Row(label, type, rows[type].name))

DeleteDictData(t) == \E ids \in Some("ddata") : Kill(t, ids)

CreateConfig(t) ==
    \E i \in Fresh("config"), key \in Names : ~Taken("config", key) /\ Put(t, i, Row(key, None, None))

UpdateConfig(t) ==
    \E i \in Live("config"), key \in Names : Renames(i, key) /\ Put(t, i, Row(key, None, None))

\* Mutant: keys of settings outside the request are not looked for.
BulkUpdateConfigAlone(t) ==
    \E ids \in SUBSET Live("config") \ {{}} : \E key \in [ids -> Names] :
        LET changed == {i \in ids : rows[i].name # key[i]} IN
        /\ \A i, j \in changed : key[i] = key[j] => i = j
        /\ Plan(t, [i \in ids |-> Row(key[i], None, None)], {}, None, None, {})

\* New keys are distinct and nobody else's, so that no order of the updates
\* meets another's key.
BulkUpdateConfig(t) ==
    \E ids \in SUBSET Live("config") \ {{}} : \E key \in [ids -> Names] :
        LET changed == {i \in ids : rows[i].name # key[i]} IN
        /\ \A i, j \in changed : key[i] = key[j] => i = j
        /\ \A i \in changed : ~Taken("config", key[i])
        /\ Plan(t, [i \in ids |-> Row(key[i], None, None)], {}, None, None, {})

DeleteConfigs(t) == \E ids \in Some("config") : Kill(t, ids)

-----------------------------------------------------------------------------
(* The code generator's businesses and their columns.                      *)

ColumnTaken(business, name) ==
    \E i \in Live("column") : rows[i].ref = business /\ rows[i].name = name

CreateBusiness(t) ==
    \E i \in Fresh("business"), name \in Names :
        ~Taken("business", name) /\ Put(t, i, Row(name, None, None))

UpdateBusiness(t) ==
    \E i \in Live("business"), name \in Names : Renames(i, name) /\ Put(t, i, Row(name, None, None))

\* The columns stay.
DeleteBusiness(t) == \E i \in Live("business") : Kill(t, {i})

\* A table of the database brings its columns with it.
ImportBusiness(t) ==
    \E i \in Fresh("business"), name \in Names, columns \in SUBSET Fresh("column") :
        \E label \in [columns -> Names] :
            /\ ~Taken("business", name)
            /\ \A j, k \in columns : label[j] = label[k] => j = k
            /\ Plan(t, [j \in {i} \cup columns |->
                           IF j = i THEN Row(name, None, None) ELSE Row(label[j], i, None)],
                    {}, None, None, {})

CreateColumn(t) ==
    \E i \in Fresh("column"), name \in Names, business \in Live("business") :
        /\ ~ColumnTaken(business, name)
        /\ Put(t, i, Row(name, business, None))

UpdateColumn(t) ==
    \E i \in Live("column"), name \in Names, business \in Live("business") :
        /\ rows[i].ref \in Live("business")
        /\ name # rows[i].name => ~ColumnTaken(business, name)
        /\ Put(t, i, Row(name, business, None))

DeleteColumn(t) ==
    \E i \in Live("column") : rows[i].ref \in Live("business") /\ Kill(t, {i})

-----------------------------------------------------------------------------
Idle(scene) ==
    /\ rows = scene.rows
    /\ links = scene.links
    /\ plan = [t \in Requests |-> None]
    /\ begun = 0
    /\ seen = [t \in Requests |-> {}]
    /\ raced = {}
    /\ moved = {}
    /\ surprise = FALSE

Init == \E scene \in Scenes : Idle(scene)

Next ==
    \E t \in Requests :
        \/ CreateDept(t) \/ UpdateDept(t) \/ DeleteDept(t)
        \/ CreateMenu(t) \/ UpdateMenu(t) \/ DeleteMenu(t)
        \/ CreateRole(t) \/ UpdateRole(t) \/ UpdateRoleMenu(t) \/ UpdateRoleScope(t) \/ DeleteRoles(t)
        \/ CreateScope(t) \/ UpdateScope(t) \/ UpdateScopeRules(t) \/ DeleteScopes(t)
        \/ CreateRule(t) \/ UpdateRule(t) \/ DeleteRules(t)
        \/ CreateUser(t) \/ UpdateUser(t) \/ DeleteUser(t) \/ AddByOauth2(t)
        \/ CreateDictType(t) \/ UpdateDictType(t) \/ DeleteDictTypes(t)
        \/ CreateDictData(t) \/ UpdateDictData(t) \/ DeleteDictData(t)
        \/ CreateConfig(t) \/ UpdateConfig(t) \/ BulkUpdateConfig(t) \/ DeleteConfigs(t)
        \/ CreateBusiness(t) \/ UpdateBusiness(t) \/ DeleteBusiness(t) \/ ImportBusiness(t)
        \/ CreateColumn(t) \/ UpdateColumn(t) \/ DeleteColumn(t)
        \/ Commit(t) \/ RollBack(t)

Spec == Init /\ [][Next]_vars

-----------------------------------------------------------------------------
(* Properties.                                                             *)

\* Every live row's department, parent, or dictionary type is live, and every
\* link leads from a user and to a menu that is: create, update and delete of
\* dept_service, menu_service, user_service, role_service and dict_data_service
\* keep this among them, but for two requests that overlapped on the rows.
Anchored ==
    /\ \A i \in DOMAIN rows :
          (rows[i].state = "live" /\ i.kind # "column" /\ i \notin raced)
              => rows[i].ref \in Live("dept") \cup Live("menu") \cup Live("dtype") \cup UnderNoOne \cup raced
    /\ \A l \in links :
          /\ l[1].kind = "user" => l[1] \in Live("user") \cup raced
          /\ l[2].kind = "menu" => l[2] \in Live("menu") \cup raced

\* Two menus of one title are a button and another, or were written by
\* overlapping requests, or one was given its type afterwards: no unique key
\* stands behind the title.
TitlesUnique ==
    \A i, j \in Live("menu") \ moved :
        (i # j /\ rows[i].name = rows[j].name)
            => \/ "button" \in {rows[i].code, rows[j].code}
               \/ [kind |-> "menu", n |-> rows[i].name] \in raced

\* The type_code copied into the dictionary's data is its type's code, unless
\* the type was renamed or the two were written by overlapping requests.
DictCoded ==
    \A i \in Live("ddata") :
        rows[i].code = rows[rows[i].ref].name \/ {i, rows[i].ref} \cap (moved \cup raced) # {}

\* A request that ran alone is never refused by a unique key: its look-ups
\* answer for all of them, but for a column moved under the name it has.
ChecksSuffice == ~surprise
=============================================================================
