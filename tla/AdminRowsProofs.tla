--------------------------- MODULE AdminRowsProofs ---------------------------
(***************************************************************************)
(* Proofs about AdminRows, for all tables in order, all requests and all   *)
(* names: rows refer to live rows, the look-ups answer for the unique keys *)
(* and the titles, and dictionary data has its type's code, but for what   *)
(* overlapping requests did to each other.                                 *)
(***************************************************************************)
EXTENDS AdminRows, TLAPS

-----------------------------------------------------------------------------
(* The tables.                                                             *)

IsRow(r) ==
    /\ r = [state |-> r.state, name |-> r.name, ref |-> r.ref, code |-> r.code]
    /\ r.state \in {"none", "live", "deleted"}

Shape ==
    /\ rows = [i \in DOMAIN rows |-> rows[i]]
    /\ DOMAIN rows \cap UnderNoOne = {}
    /\ \A i \in DOMAIN rows : i.kind \in Kinds /\ IsRow(rows[i])
    /\ links \subseteq (DOMAIN rows) \X (DOMAIN rows)
    /\ plan = [t \in Requests |-> plan[t]] /\ seen = [t \in Requests |-> seen[t]]

\* What a row of its kind may refer to: a row live or deleted, or one that is
\* written with it.
Leads(i, row, new) ==
    \/ /\ row.ref \in Of(Above(i.kind))
       /\ rows[row.ref].state # "none" \/ (i.kind = "column" /\ row.ref \in new)
    \/ row.ref \in UnderNoOne /\ i.kind # "ddata"

Tables ==
    /\ \A i \in DOMAIN rows : rows[i].state = "live" => Leads(i, rows[i], {})
    /\ ~Clash(rows)

-----------------------------------------------------------------------------
(* What a request that has made its look-ups may count on when it writes:  *)
(* since is what others have committed since.                              *)

\* What a plan is made of.
Shaped(p) ==
    /\ p.put = [i \in DOMAIN p.put |-> p.put[i]]
    /\ DOMAIN p.put \subseteq DOMAIN rows
    /\ \A i \in DOMAIN p.put :
          /\ p.put[i] = Row(p.put[i].name, p.put[i].ref, p.put[i].code)
          /\ p.put[i].name \in Names
          /\ i.kind = "user" => p.put[i].code \in Emails \cup {None}
          /\ Leads(i, p.put[i], DOMAIN p.put)
    /\ p.kill = {} \/ (DOMAIN p.put = {} /\ p.to = {})
    /\ p.to # {} => p.from \in DOMAIN rows /\ (p.from.kind = "user" => p.from \in DOMAIN p.put)
    /\ p.to \subseteq DOMAIN rows
    /\ p.kind = "role" => \A j \in p.to : j.kind = "role"

\* Rows it writes are there, and what it refers to, links or deletes is as it was.
Kept(p, since) ==
    /\ \A i \in DOMAIN p.put : rows[i].state # "deleted" \/ i \in since
    /\ \A i \in DOMAIN p.put : i.kind # "column" =>
          p.put[i].ref \in Live("dept") \cup Live("menu") \cup Live("dtype") \cup UnderNoOne \cup raced \cup since
             \/ i \in raced
    /\ \A i \in DOMAIN rows :
          (rows[i].state = "live" /\ rows[i].ref \in p.kill /\ i.kind \notin {"column", "ddata"}) => i \in since
    /\ \A j \in p.to : rows[j].state = "live" \/ j \in since

Mark(i, name) == [kind |-> i.kind, n |-> name]

\* The keys and titles it writes are nobody else's.
Free(p, since) ==
    /\ \A i, j \in DOMAIN p.put :
          (i # j /\ i.kind = j.kind) => i.kind \notin {"menu", "user"} /\ KeyOf(i, p.put[i]) # KeyOf(j, p.put[j])
    /\ \A i \in DOMAIN p.put, j \in DOMAIN rows \ DOMAIN p.put :
          (rows[j].state = "live" /\ j.kind = i.kind) =>
             /\ (i.kind # "menu" /\ KeyOf(i, p.put[i]) = KeyOf(j, rows[j])) =>
                   \/ {i, Mark(i, p.put[i].name)} \cap since # {}
                   \/ i.kind = "column" /\ rows[i].state = "live" /\ rows[i].ref # p.put[i].ref
             /\ (i.kind = "user" /\ p.put[i].code # None /\ p.put[i].code = rows[j].code) =>
                   {i, Mark(i, p.put[i].code)} \cap since # {}
             /\ (/\ i.kind = "menu" /\ {i, j} \cap moved = {} /\ p.put[i].name = rows[j].name
                 /\ "button" \notin {p.put[i].code, rows[j].code}
                 /\ rows[i].state = "none" \/ (rows[i].state = "live" /\ rows[i].code = p.put[i].code))
                   => Mark(i, p.put[i].name) \in since \cup raced

\* The code it copies is the type's, or the type was renamed.
Coded(p) ==
    \A i \in DOMAIN p.put : i.kind = "ddata" =>
        p.put[i].code = rows[p.put[i].ref].name \/ p.put[i].ref \in moved

Good(p, since) == Shaped(p) /\ Kept(p, since) /\ Free(p, since) /\ Coded(p)

Planned ==
    \A t \in Requests : plan[t] # None => \A p \in {plan[t]}, since \in {seen[t]} : Good(p, since)

AdminInv ==
    /\ RowsAssumption /\ Shape /\ Tables /\ Planned
    /\ Anchored /\ TitlesUnique /\ DictCoded /\ ChecksSuffice

-----------------------------------------------------------------------------
(* Requests begin with tables in order.                                    *)

LEMMA InitInv == ASSUME RowsAssumption, Init PROVE AdminInv
  <1>1. PICK scene \in Scenes : Idle(scene)
    BY DEF Init
  <1>2. rows = scene.rows /\ links = scene.links /\ Whole(rows, links)
    BY <1>1 DEF Idle, RowsAssumption
  <1>3. Shape
    BY <1>1, <1>2 DEF Idle, Shape, Whole, IsRow
  <1>4. Tables
    BY <1>2 DEF Tables, Whole, Leads, Of
  <1>5. Anchored
    BY <1>2 DEF Whole, Anchored, Live, Of, UnderNoOne, Above, Kinds
  <1>6. TitlesUnique
    BY <1>2 DEF Whole, TitlesUnique, Live, Of
  <1>7. DictCoded
    BY <1>2 DEF Whole, DictCoded, Live, Of
  <1>8. ChecksSuffice /\ Planned
    BY <1>1 DEF Idle, ChecksSuffice, Planned
  <1> QED
    BY <1>3, <1>4, <1>5, <1>6, <1>7, <1>8 DEF AdminInv

-----------------------------------------------------------------------------
(* Look-ups.                                                               *)

\* A plan that is good when it is made.
LEMMA PlanStep ==
    ASSUME AdminInv, NEW t \in Requests, NEW q, plan' = [plan EXCEPT ![t] = q], Good(q, seen[t]),
           UNCHANGED <<rows, links, seen, raced, moved, surprise>>
    PROVE  AdminInv'
  <1>1. Shape'
    BY DEF AdminInv, Shape, UnderNoOne, IsRow
  <1>2. Tables'
    BY DEF AdminInv, Tables, Leads, Of
  <1>3. Anchored' /\ TitlesUnique' /\ DictCoded' /\ ChecksSuffice'
    BY DEF AdminInv, Anchored, TitlesUnique, DictCoded, ChecksSuffice, Live, Of
  <1>4. ASSUME NEW p, NEW since, Good(p, since) PROVE Good(p, since)'
    <2>1. Shaped(p)'
      BY <1>4 DEF Good, Shaped, Leads, Of
    <2>2. Kept(p, since)' /\ Free(p, since)' /\ Coded(p)'
      BY <1>4 DEF Good, Kept, Free, Coded, Live, Of
    <2> QED
      BY <2>1, <2>2 DEF Good
  <1>5. \A u \in Requests : plan'[u] = IF u = t THEN q ELSE plan[u]
    BY DEF AdminInv, Shape
  <1>6. ASSUME NEW u \in Requests, plan'[u] # None, NEW p, NEW since, p = plan'[u], since = seen'[u]
        PROVE  Good(p, since)
    BY <1>5, <1>6 DEF AdminInv, Planned
  <1>7. Planned'
    BY <1>4, <1>6 DEF Planned
  <1> QED
    BY <1>1, <1>2, <1>3, <1>7 DEF AdminInv

PutLinked(t, i, row, from, kind, to) == Plan(t, [j \in {i} |-> row], {}, from, kind, to)

\* A plan that writes one row: the row is no other's, and refers to a live one.
LEMMA PutStep ==
    ASSUME AdminInv, NEW t \in Requests, NEW i \in DOMAIN rows, NEW name \in Names, NEW ref, NEW code,
           NEW from, NEW kind, NEW to,
           PutLinked(t, i, Row(name, ref, code), from, kind, to),
           rows[i].state # "deleted",
           i.kind = "user" => code \in Emails \cup {None},
           Leads(i, Row(name, ref, code), {}),
           i.kind # "column" =>
               ref \in Live("dept") \cup Live("menu") \cup Live("dtype") \cup UnderNoOne \cup raced \/ i \in raced,
           to # {} => from = i, \A j \in to : j \in DOMAIN rows /\ rows[j].state = "live",
           kind = "role" => \A j \in to : j.kind = "role",
           \A j \in Live(i.kind) \ {i} :
               /\ i.kind # "menu" => \/ KeyOf(i, Row(name, ref, code)) # KeyOf(j, rows[j])
                                     \/ i.kind = "column" /\ rows[i].state = "live" /\ rows[i].ref # ref
               /\ i.kind = "user" => code = None \/ code # rows[j].code
               /\ (/\ i.kind = "menu" /\ {i, j} \cap moved = {} /\ name = rows[j].name
                   /\ "button" \notin {code, rows[j].code}
                   /\ rows[i].state = "none" \/ (rows[i].state = "live" /\ rows[i].code = code))
                     => Mark(i, name) \in raced,
           i.kind = "ddata" => code = rows[ref].name
    PROVE  AdminInv'
  <1> DEFINE put == [j \in {i} |-> Row(name, ref, code)]
  <1>1. PICK q : /\ q = [put |-> put, kill |-> {}, from |-> from, kind |-> kind, to |-> to,
                         had |-> {l \in links : l[1] = from}]
                 /\ plan' = [plan EXCEPT ![t] = q]
                 /\ UNCHANGED <<rows, links, seen, raced, moved, surprise>>
    BY DEF Plan, PutLinked
  <1>2. /\ q.put = put /\ q.kill = {} /\ q.from = from /\ q.kind = kind /\ q.to = to
        /\ DOMAIN q.put = {i} /\ q.put[i] = Row(name, ref, code)
    BY <1>1
  <1>3. /\ Row(name, ref, code).name = name /\ Row(name, ref, code).ref = ref
        /\ Row(name, ref, code).code = code
    BY DEF Row
  <1>4. Shaped(q)
    <2>1. Leads(i, Row(name, ref, code), {i})
      BY DEF Leads
    <2> QED
      BY <1>2, <1>3, <2>1 DEF Shaped
  <1>5. Kept(q, seen[t])
    BY <1>2, <1>3 DEF Kept
  <1>6. Free(q, seen[t])
    BY <1>2, <1>3 DEF Free, Live, Of
  <1>7. Coded(q)
    BY <1>2, <1>3 DEF Coded
  <1> QED
    BY <1>1, <1>4, <1>5, <1>6, <1>7, PlanStep DEF Good

Kills(t, ids, from, kind) == Plan(t, [j \in {} |-> None], ids, from, kind, {})

\* A plan that deletes rows to which no live row refers.
LEMMA KillStep ==
    ASSUME AdminInv, NEW t \in Requests, NEW ids, NEW from, NEW kind,
           Kills(t, ids, from, kind),
           \A i \in DOMAIN rows :
               rows[i].state = "live" /\ rows[i].ref \in ids => i.kind \in {"column", "ddata"}
    PROVE  AdminInv'
  <1>1. PICK q : /\ q = [put |-> [j \in {} |-> None], kill |-> ids, from |-> from, kind |-> kind, to |-> {},
                         had |-> {l \in links : l[1] = from}]
                 /\ plan' = [plan EXCEPT ![t] = q]
                 /\ UNCHANGED <<rows, links, seen, raced, moved, surprise>>
    BY DEF Plan, Kills
  <1>2. q.put = [j \in {} |-> None] /\ q.kill = ids /\ q.to = {} /\ DOMAIN q.put = {}
    BY <1>1
  <1>3. Good(q, seen[t])
    BY <1>2 DEF Good, Shaped, Kept, Free, Coded
  <1> QED
    BY <1>1, <1>3, PlanStep

\* A plan that links a row other than a user to live rows.
LEMMA RelinkStep ==
    ASSUME AdminInv, NEW t \in Requests, NEW i \in DOMAIN rows, i.kind # "user", NEW kind, kind # "role",
           NEW ids, \A j \in ids : j \in DOMAIN rows /\ rows[j].state = "live", Relink(t, i, kind, ids)
    PROVE  AdminInv'
  <1>1. PICK q : /\ q = [put |-> [j \in {} |-> None], kill |-> {}, from |-> i, kind |-> kind, to |-> ids,
                         had |-> {l \in links : l[1] = i}]
                 /\ plan' = [plan EXCEPT ![t] = q]
                 /\ UNCHANGED <<rows, links, seen, raced, moved, surprise>>
    BY DEF Plan, Relink
  <1>2. /\ q.put = [j \in {} |-> None] /\ q.kill = {} /\ q.to = ids /\ q.from = i /\ q.kind = kind
        /\ DOMAIN q.put = {}
    BY <1>1
  <1>3. Good(q, seen[t])
    BY <1>2 DEF Good, Shaped, Kept, Free, Coded
  <1> QED
    BY <1>1, <1>3, PlanStep

\* A name that the look-up lets through is the key of no other row.
LEMMA NameFree ==
    ASSUME Tables, NEW i \in DOMAIN rows, i.kind \notin {"menu", "ddata", "column"}, NEW name, NEW row,
           row.name = name, ~Taken(i.kind, name) \/ (rows[i].state = "live" /\ Renames(i, name))
    PROVE  \A j \in Live(i.kind) \ {i} : KeyOf(i, row) # KeyOf(j, rows[j])
  <1> SUFFICES ASSUME NEW j \in Live(i.kind) \ {i}, KeyOf(i, row) = KeyOf(j, rows[j]) PROVE FALSE
    OBVIOUS
  <1>1. j \in DOMAIN rows /\ j.kind = i.kind /\ rows[j].state = "live"
    BY DEF Live, Of
  <1>2. KeyOf(i, row) = <<name>> /\ KeyOf(j, rows[j]) = <<rows[j].name>> /\ KeyOf(i, rows[i]) = <<rows[i].name>>
    BY <1>1 DEF KeyOf
  <1>3. Taken(i.kind, name)
    <2>1. <<rows[j].name>>[1] = <<name>>[1]
      BY <1>2
    <2>2. j \in Live(i.kind)
      OBVIOUS
    <2> QED
      BY <2>1, <2>2 DEF Taken
  <1>4. rows[i].state = "live" /\ rows[i].name = name
    BY <1>3 DEF Renames
  <1>5. Clash(rows)
    BY <1>1, <1>2, <1>4 DEF Clash
  <1> QED
    BY <1>5 DEF Tables

\* The same without links.
LEMMA PutAlone ==
    ASSUME AdminInv, NEW t \in Requests, NEW i \in DOMAIN rows, NEW name \in Names, NEW ref, NEW code,
           Put(t, i, Row(name, ref, code)), rows[i].state # "deleted", i.kind # "user",
           Leads(i, Row(name, ref, code), {}),
           i.kind # "column" =>
               ref \in Live("dept") \cup Live("menu") \cup Live("dtype") \cup UnderNoOne,
           \A j \in Live(i.kind) \ {i} :
               /\ i.kind # "menu" => \/ KeyOf(i, Row(name, ref, code)) # KeyOf(j, rows[j])
                                     \/ i.kind = "column" /\ rows[i].state = "live" /\ rows[i].ref # ref
               /\ (/\ i.kind = "menu" /\ {i, j} \cap moved = {} /\ name = rows[j].name
                   /\ "button" \notin {code, rows[j].code}
                   /\ rows[i].state = "none" \/ (rows[i].state = "live" /\ rows[i].code = code))
                     => Mark(i, name) \in raced,
           i.kind = "ddata" => code = rows[ref].name
    PROVE  AdminInv'
  <1>1. PutLinked(t, i, Row(name, ref, code), None, None, {})
    BY DEF Put, PutLinked
  <1>2. \A j \in {} : j \in DOMAIN rows /\ rows[j].state = "live" /\ j.kind = "role"
    OBVIOUS
  <1> QED
    BY <1>1, <1>2, PutStep

\* Rows that refer to nothing and have a key of their own.
Plain == {"role", "scope", "rule", "dtype", "config", "business"}

LEMMA PlainStep ==
    ASSUME AdminInv, NEW t \in Requests, NEW i \in DOMAIN rows, i.kind \in Plain, NEW name \in Names, NEW code,
           \/ i \in Fresh(i.kind) /\ ~Taken(i.kind, name)
           \/ i \in Live(i.kind) /\ Renames(i, name),
           Put(t, i, Row(name, None, code))
    PROVE  AdminInv'
  <1>1. rows[i].state # "deleted" /\ (~Taken(i.kind, name) \/ (rows[i].state = "live" /\ Renames(i, name)))
    BY DEF Fresh, Live
  <1>2. Row(name, None, code).name = name /\ Row(name, None, code).ref = None
    BY DEF Row
  <1>3. Leads(i, Row(name, None, code), {})
    BY <1>2 DEF Leads, Plain, UnderNoOne
  <1>4. i.kind \notin {"menu", "ddata", "column", "user"}
    BY DEF Plain
  <1>5. \A j \in Live(i.kind) \ {i} : KeyOf(i, Row(name, None, code)) # KeyOf(j, rows[j])
    BY <1>1, <1>2, <1>4, NameFree DEF AdminInv
  <1>6. None \in UnderNoOne
    BY DEF UnderNoOne
  <1> QED
    BY <1>1, <1>3, <1>4, <1>5, <1>6, PutAlone

LEMMA PlainRows ==
    ASSUME AdminInv, NEW t \in Requests,
           \/ CreateRole(t) \/ UpdateRole(t) \/ CreateScope(t) \/ UpdateScope(t) \/ CreateRule(t)
           \/ UpdateRule(t) \/ CreateDictType(t) \/ UpdateDictType(t) \/ CreateConfig(t) \/ UpdateConfig(t)
           \/ CreateBusiness(t) \/ UpdateBusiness(t)
    PROVE  AdminInv'
  <1>1. \E kind \in Plain, name \in Names, code \in {"on", "off", None} :
           \/ \E i \in Fresh(kind) : ~Taken(kind, name) /\ Put(t, i, Row(name, None, code))
           \/ \E i \in Live(kind) : Renames(i, name) /\ Put(t, i, Row(name, None, code))
    <2>1. CASE CreateRole(t) \/ CreateScope(t) \/ CreateRule(t)
      BY <2>1, Zenon DEF CreateRole, CreateScope, CreateRule, Plain
    <2>2. CASE UpdateRole(t)
      BY <2>2, Zenon DEF UpdateRole, Plain
    <2>3. CASE UpdateScope(t) \/ UpdateRule(t)
      BY <2>3, Zenon DEF UpdateScope, UpdateRule, Plain
    <2>4. CASE CreateDictType(t) \/ CreateConfig(t) \/ CreateBusiness(t)
      BY <2>4, Zenon DEF CreateDictType, CreateConfig, CreateBusiness, Plain
    <2>5. CASE UpdateDictType(t) \/ UpdateConfig(t) \/ UpdateBusiness(t)
      BY <2>5, Zenon DEF UpdateDictType, UpdateConfig, UpdateBusiness, Plain
    <2> QED
      BY <2>1, <2>2, <2>3, <2>4, <2>5
  <1>2. PICK kind \in Plain, name \in Names, code \in {"on", "off", None} :
           \/ \E i \in Fresh(kind) : ~Taken(kind, name) /\ Put(t, i, Row(name, None, code))
           \/ \E i \in Live(kind) : Renames(i, name) /\ Put(t, i, Row(name, None, code))
    BY <1>1
  <1>3. \A i \in Fresh(kind) \cup Live(kind) : i \in DOMAIN rows /\ i.kind = kind
    BY DEF Fresh, Live, Of
  <1>4. ASSUME NEW i \in Fresh(kind), ~Taken(kind, name), Put(t, i, Row(name, None, code))
        PROVE  AdminInv'
    BY <1>3, <1>4, PlainStep
  <1>5. ASSUME NEW i \in Live(kind), Renames(i, name), Put(t, i, Row(name, None, code)) PROVE AdminInv'
    BY <1>3, <1>5, PlainStep
  <1> QED
    BY <1>2, <1>4, <1>5

\* Departments and menus.
LEMMA DeptRows ==
    ASSUME AdminInv, NEW t \in Requests, CreateDept(t) \/ UpdateDept(t) PROVE AdminInv'
  <1>1. PICK i \in Fresh("dept") \cup Live("dept"), name \in Names, parent \in Live("dept") \cup UnderNoOne :
            /\ ~Taken("dept", name) \/ (i \in Live("dept") /\ Renames(i, name))
            /\ Put(t, i, Row(name, parent, None))
    BY DEF CreateDept, UpdateDept, UnderNoOne
  <1>2. i \in DOMAIN rows /\ i.kind = "dept" /\ rows[i].state # "deleted" /\ (i \in Live("dept") => rows[i].state = "live")
    BY DEF Fresh, Live, Of
  <1>3. Row(name, parent, None).name = name /\ Row(name, parent, None).ref = parent
    BY DEF Row
  <1>4. Leads(i, Row(name, parent, None), {})
    BY <1>2, <1>3 DEF Leads, Above, Live
  <1>5. \A j \in Live(i.kind) \ {i} : KeyOf(i, Row(name, parent, None)) # KeyOf(j, rows[j])
    BY <1>1, <1>2, <1>3, NameFree DEF AdminInv
  <1>6. parent \in Live("dept") \cup Live("menu") \cup Live("dtype") \cup UnderNoOne
    OBVIOUS
  <1> QED
    BY <1>1, <1>2, <1>4, <1>5, <1>6, PutAlone

LEMMA MenuRows ==
    ASSUME AdminInv, NEW t \in Requests, CreateMenu(t) \/ UpdateMenu(t) PROVE AdminInv'
  <1>1. PICK i \in Fresh("menu") \cup Live("menu"), name \in Names, parent \in Live("menu") \cup UnderNoOne,
             type \in {"menu", "button"} :
            /\ ~TitleTaken(name) \/ (i \in Live("menu") /\ name = rows[i].name)
            /\ Put(t, i, Row(name, parent, type))
    BY DEF CreateMenu, UpdateMenu
  <1>2. i \in DOMAIN rows /\ i.kind = "menu" /\ rows[i].state # "deleted"
    BY DEF Fresh, Live, Of
  <1>3. Row(name, parent, type).name = name /\ Row(name, parent, type).ref = parent
    BY DEF Row
  <1>4. Leads(i, Row(name, parent, type), {})
    BY <1>2, <1>3 DEF Leads, Above, Live
  <1>5. ASSUME NEW j \in Live("menu") \ {i}, {i, j} \cap moved = {}, name = rows[j].name,
               "button" \notin {type, rows[j].code},
               rows[i].state = "none" \/ (rows[i].state = "live" /\ rows[i].code = type)
        PROVE  Mark(i, name) \in raced
    <2>1. TitleTaken(name)
      BY <1>5 DEF TitleTaken
    <2>2. i \in Live("menu") /\ name = rows[i].name /\ rows[i].state = "live"
      BY <1>1, <2>1 DEF Live
    <2> QED
      BY <1>2, <1>5, <2>2 DEF AdminInv, TitlesUnique, Mark
  <1>6. parent \in Live("dept") \cup Live("menu") \cup Live("dtype") \cup UnderNoOne
    OBVIOUS
  <1> QED
    BY <1>1, <1>2, <1>4, <1>5, <1>6, PutAlone

\* To most kinds of rows no row refers.
LEMMA Unreferred ==
    ASSUME Shape, Tables, NEW kind \in Kinds \ {"dept", "menu"}, NEW ids, ids \subseteq Of(kind)
    PROVE  \A i \in DOMAIN rows :
               rows[i].state = "live" /\ rows[i].ref \in ids => i.kind \in {"column", "ddata"}
  <1> SUFFICES ASSUME NEW i \in DOMAIN rows, rows[i].state = "live", rows[i].ref \in ids
               PROVE  i.kind \in {"column", "ddata"}
    OBVIOUS
  <1>1. rows[i].ref \in DOMAIN rows /\ rows[i].ref.kind = kind
    BY DEF Of
  <1>2. kind = Above(i.kind)
    BY <1>1 DEF Shape, Tables, Leads, Of
  <1>3. i.kind \in Kinds
    BY DEF Shape
  <1> QED
    BY <1>2, <1>3 DEF Above, Kinds

LEMMA KilledRows ==
    ASSUME AdminInv, NEW t \in Requests,
           \/ DeleteDept(t) \/ DeleteMenu(t) \/ DeleteRoles(t) \/ DeleteScopes(t) \/ DeleteRules(t)
           \/ DeleteUser(t) \/ DeleteDictTypes(t) \/ DeleteDictData(t) \/ DeleteConfigs(t)
           \/ DeleteBusiness(t) \/ DeleteColumn(t)
    PROVE  AdminInv'
  <1>a. Shape /\ Tables
    BY DEF AdminInv
  <1>1. CASE DeleteDept(t)
    <2>1. PICK i \in Live("dept") : (\A u \in Live("user") \cup Live("dept") : rows[u].ref # i) /\ Kill(t, {i})
      BY <1>1 DEF DeleteDept
    <2>2. \A u \in DOMAIN rows : rows[u].state = "live" /\ rows[u].ref \in {i} => u.kind \in {"column", "ddata"}
      <3> SUFFICES ASSUME NEW u \in DOMAIN rows, rows[u].state = "live", rows[u].ref = i
                   PROVE  u.kind \in {"user", "dept"}
        BY <2>1 DEF Live, Of
      <3>1. i \in DOMAIN rows /\ i.kind = "dept" /\ u.kind \in Kinds
        BY <1>a DEF Live, Of, Shape
      <3>2. Above(u.kind) = "dept"
        BY <1>a, <3>1 DEF Tables, Leads, Of, Shape
      <3> QED
        BY <3>1, <3>2 DEF Above, Kinds
    <2>3. Kills(t, {i}, None, None)
      BY <2>1 DEF Kill, Kills
    <2> QED
      BY <2>2, <2>3, KillStep
  <1>2. CASE DeleteMenu(t)
    <2>1. PICK i \in Of("menu") : (\A j \in Live("menu") : rows[j].ref # i) /\ Kill(t, {i})
      BY <1>2 DEF DeleteMenu
    <2>2. \A u \in DOMAIN rows : rows[u].state = "live" /\ rows[u].ref \in {i} => u.kind \in {"column", "ddata"}
      <3> SUFFICES ASSUME NEW u \in DOMAIN rows, rows[u].state = "live", rows[u].ref = i
                   PROVE  u.kind = "menu"
        BY <2>1 DEF Live, Of
      <3>1. i \in DOMAIN rows /\ i.kind = "menu" /\ u.kind \in Kinds
        BY <1>a DEF Of, Shape
      <3>2. Above(u.kind) = "menu"
        BY <1>a, <3>1 DEF Tables, Leads, Of, Shape
      <3> QED
        BY <3>1, <3>2 DEF Above, Kinds
    <2>3. Kills(t, {i}, None, None)
      BY <2>1 DEF Kill, Kills
    <2> QED
      BY <2>2, <2>3, KillStep
  <1>3. CASE DeleteUser(t)
    <2>1. PICK i \in Live("user") : Kills(t, {i}, i, "role")
      BY <1>3 DEF DeleteUser, Kills
    <2>2. {i} \subseteq Of("user") /\ "user" \in Kinds \ {"dept", "menu"}
      BY DEF Live, Kinds
    <2> QED
      BY <1>a, <2>1, <2>2, Unreferred, KillStep
  <1>4. ASSUME NEW kind \in Kinds \ {"dept", "menu"}, NEW ids \in SUBSET Of(kind), Kill(t, ids)
        PROVE  AdminInv'
    <2>1. Kills(t, ids, None, None)
      BY <1>4 DEF Kill, Kills
    <2> QED
      BY <1>a, <2>1, Unreferred, KillStep
  <1>5. CASE \/ DeleteRoles(t) \/ DeleteScopes(t) \/ DeleteRules(t) \/ DeleteDictTypes(t) \/ DeleteDictData(t)
            \/ DeleteConfigs(t)
    <2>1. \E kind \in {"role", "scope", "rule", "dtype", "ddata", "config"} : \E ids \in SUBSET Of(kind) : Kill(t, ids)
      BY <1>5
         DEF DeleteRoles, DeleteScopes, DeleteRules, DeleteDictTypes, DeleteDictData, DeleteConfigs,
                  Some
    <2>2. {"role", "scope", "rule", "dtype", "ddata", "config"} \subseteq Kinds \ {"dept", "menu"}
      BY DEF Kinds
    <2> QED
      BY <1>4, <2>1, <2>2
  <1>6. CASE DeleteBusiness(t) \/ DeleteColumn(t)
    <2>1. \E kind \in {"business", "column"} : \E i \in Live(kind) : Kill(t, {i})
      BY <1>6 DEF DeleteBusiness, DeleteColumn
    <2>2. PICK kind \in {"business", "column"} : \E i \in Live(kind) : Kill(t, {i})
      BY <2>1
    <2>3. PICK i \in Live(kind) : Kill(t, {i})
      BY <2>2
    <2>4. {i} \in SUBSET Of(kind) /\ kind \in Kinds \ {"dept", "menu"}
      BY DEF Live, Kinds
    <2> QED
      BY <1>4, <2>3, <2>4
  <1> QED
    BY <1>1, <1>2, <1>3, <1>5, <1>6

LEMMA Relinked ==
    ASSUME AdminInv, NEW t \in Requests, UpdateRoleMenu(t) \/ UpdateRoleScope(t) \/ UpdateScopeRules(t)
    PROVE  AdminInv'
  <1>1. \E i \in Live("role") \cup Live("scope"), kind \in {"menu", "scope", "rule"} :
            \E ids \in SUBSET Live(kind) : Relink(t, i, kind, ids)
    BY DEF UpdateRoleMenu, UpdateRoleScope, UpdateScopeRules
  <1>2. PICK i \in Live("role") \cup Live("scope"), kind \in {"menu", "scope", "rule"} :
            \E ids \in SUBSET Live(kind) : Relink(t, i, kind, ids)
    BY <1>1
  <1>3. PICK ids \in SUBSET Live(kind) : Relink(t, i, kind, ids)
    BY <1>2
  <1>4. i \in DOMAIN rows /\ i.kind # "user" /\ kind # "role"
    BY DEF Live, Of
  <1>5. \A j \in ids : j \in DOMAIN rows /\ rows[j].state = "live"
    BY DEF Live, Of
  <1> QED
    BY <1>3, <1>4, <1>5, RelinkStep

\* Users: names and addresses are nobody else's.
LEMMA UserStep ==
    ASSUME AdminInv, NEW t \in Requests, NEW i \in DOMAIN rows, i.kind = "user", rows[i].state # "deleted",
           NEW name \in Names, NEW dept, NEW email \in Emails \cup {None},
           ~Taken("user", name) \/ (rows[i].state = "live" /\ Renames(i, name)),
           \/ email = None
           \/ ~MailTaken(email)
           \/ rows[i].state = "live" /\ email = rows[i].code,
           \/ dept \in Live("dept") \cup UnderNoOne
           \/ rows[i].state = "live" /\ dept = rows[i].ref,
           NEW kind, NEW to, to \subseteq Live("role"),
           PutLinked(t, i, Row(name, dept, email), i, kind, to)
    PROVE  AdminInv'
  <1>1. Row(name, dept, email).name = name /\ Row(name, dept, email).ref = dept
    BY DEF Row
  <1>2. Leads(i, Row(name, dept, email), {})
    BY <1>1 DEF AdminInv, Tables, Leads, Above, Live
  <1>3. \A j \in Live(i.kind) \ {i} : KeyOf(i, Row(name, dept, email)) # KeyOf(j, rows[j])
    BY <1>1, NameFree DEF AdminInv
  <1>4. \A j \in Live(i.kind) \ {i} : email = None \/ email # rows[j].code
    <2>1. ASSUME NEW j \in Live(i.kind) \ {i}, email # None, email = rows[j].code PROVE FALSE
      <3>1. MailTaken(email)
        BY <2>1 DEF MailTaken
      <3>2. rows[i].state = "live" /\ rows[i].code = rows[j].code /\ rows[i].code # None
        BY <2>1, <3>1
      <3>3. Clash(rows)
        BY <2>1, <3>2 DEF Clash, Live, Of
      <3> QED
        BY <3>3 DEF AdminInv, Tables
    <2> QED
      BY <2>1
  <1>5. i.kind # "column" /\ i.kind # "menu" /\ i.kind # "ddata"
    OBVIOUS
  <1>6. dept \in Live("dept") \cup Live("menu") \cup Live("dtype") \cup UnderNoOne \cup raced \/ i \in raced
    BY DEF AdminInv, Anchored
  <1>7. \A j \in to : j \in DOMAIN rows /\ rows[j].state = "live" /\ j.kind = "role"
    BY DEF Live, Of
  <1> QED
    BY <1>2, <1>3, <1>4, <1>5, <1>6, <1>7, PutStep

LEMMA UserRows ==
    ASSUME AdminInv, NEW t \in Requests, CreateUser(t) \/ UpdateUser(t) \/ AddByOauth2(t) PROVE AdminInv'
  <1>1. \A i \in Fresh("user") : i \in DOMAIN rows /\ i.kind = "user" /\ rows[i].state # "deleted"
    BY DEF Fresh, Of
  <1>2. \A i \in Live("user") : i \in DOMAIN rows /\ i.kind = "user" /\ rows[i].state = "live"
    BY DEF Live, Of
  <1>3. CASE CreateUser(t)
    <2>1. PICK i \in Fresh("user"), name \in Names, email \in Emails \cup {None},
               dept \in Live("dept"), roles \in SUBSET Live("role") :
              /\ ~Taken("user", name) /\ (email # None => ~MailTaken(email))
              /\ PutLinked(t, i, Row(name, dept, email), i, "role", roles)
      BY <1>3 DEF CreateUser, PutLinked
    <2> QED
      BY <1>1, <2>1, UserStep
  <1>4. CASE UpdateUser(t)
    <2>1. PICK i \in Live("user"), name \in Names, email \in Emails \cup {None}, roles \in SUBSET Live("role") :
              \E dept \in Live("dept") \cup UnderNoOne \cup {rows[i].ref} :
                  /\ Renames(i, name) /\ (email \notin {None, rows[i].code} => ~MailTaken(email))
                  /\ PutLinked(t, i, Row(name, dept, email), i, "role", roles)
      BY <1>4 DEF UpdateUser, PutLinked
    <2>2. PICK dept \in Live("dept") \cup UnderNoOne \cup {rows[i].ref} :
                  /\ Renames(i, name) /\ (email \notin {None, rows[i].code} => ~MailTaken(email))
                  /\ PutLinked(t, i, Row(name, dept, email), i, "role", roles)
      BY <2>1
    <2> QED
      BY <1>2, <2>2, UserStep
  <1>5. CASE AddByOauth2(t)
    <2>1. PICK i \in Fresh("user"), name \in Names, email \in Emails \cup {None}, r \in Live("role") :
              /\ ~Taken("user", name) /\ (email # None => ~MailTaken(email))
              /\ PutLinked(t, i, Row(name, None, email), i, None, {r})
      BY <1>5 DEF AddByOauth2, PutLinked
    <2>2. None \in UnderNoOne /\ {r} \subseteq Live("role")
      BY DEF UnderNoOne
    <2> QED
      BY <1>1, <2>1, <2>2, UserStep
  <1> QED
    BY <1>3, <1>4, <1>5

\* Dictionary data: the label is free under the code of the type.
LEMMA DataRows ==
    ASSUME AdminInv, NEW t \in Requests, CreateDictData(t) \/ UpdateDictData(t) PROVE AdminInv'
  <1>1. PICK i \in Fresh("ddata") \cup Live("ddata"), label \in Names, type \in Live("dtype") :
            /\ Labelled(label, rows[type].name) \subseteq {i}
            /\ Put(t, i, Row(label, type, rows[type].name))
    BY DEF CreateDictData, UpdateDictData
  <1>2. i \in DOMAIN rows /\ i.kind = "ddata" /\ rows[i].state # "deleted"
    BY DEF Fresh, Live, Of
  <1> DEFINE row == Row(label, type, rows[type].name)
  <1>3. row.name = label /\ row.ref = type /\ row.code = rows[type].name
    BY DEF Row
  <1>4. Leads(i, row, {})
    BY <1>2, <1>3 DEF Leads, Above, Live
  <1>5. ASSUME NEW j \in Live("ddata") \ {i}, KeyOf(i, row) = KeyOf(j, rows[j]) PROVE FALSE
    <2>1. j.kind = "ddata"
      BY DEF Live, Of
    <2>2. <<rows[type].name, label>> = <<rows[j].code, rows[j].name>>
      BY <1>2, <1>3, <1>5, <2>1 DEF KeyOf
    <2>3. j \in Labelled(label, rows[type].name)
      BY <2>2 DEF Labelled
    <2> QED
      BY <1>1, <2>3
  <1>6. \A j \in Live(i.kind) \ {i} : KeyOf(i, row) # KeyOf(j, rows[j])
    BY <1>2, <1>5
  <1> QED
    BY <1>1, <1>2, <1>4, <1>6, PutAlone

\* Columns: the name is free in the business, or is kept when the column moves.
LEMMA ColumnRows ==
    ASSUME AdminInv, NEW t \in Requests, CreateColumn(t) \/ UpdateColumn(t) PROVE AdminInv'
  <1>1. PICK i \in Fresh("column") \cup Live("column"), name \in Names, business \in Live("business") :
            /\ ~ColumnTaken(business, name) \/ (i \in Live("column") /\ name = rows[i].name)
            /\ Put(t, i, Row(name, business, None))
    BY DEF CreateColumn, UpdateColumn
  <1>2. i \in DOMAIN rows /\ i.kind = "column" /\ rows[i].state # "deleted"
    BY DEF Fresh, Live, Of
  <1> DEFINE row == Row(name, business, None)
  <1>3. row.name = name /\ row.ref = business
    BY DEF Row
  <1>4. Leads(i, row, {})
    BY <1>2, <1>3 DEF Leads, Above, Live
  <1>5. ASSUME NEW j \in Live("column") \ {i}, KeyOf(i, row) = KeyOf(j, rows[j])
        PROVE  rows[i].state = "live" /\ rows[i].ref # business
    <2>1. j \in DOMAIN rows /\ j.kind = "column" /\ rows[j].state = "live"
      BY DEF Live, Of
    <2>2. KeyOf(i, row) = <<business, name>> /\ KeyOf(j, rows[j]) = <<rows[j].ref, rows[j].name>>
      BY <1>2, <1>3, <2>1 DEF KeyOf
    <2>3. business = rows[j].ref /\ name = rows[j].name
      <3>1. <<business, name>> = <<rows[j].ref, rows[j].name>>
        BY <1>5, <2>2, Zenon
      <3> QED
        BY <3>1
    <2>4. i \in Live("column") /\ name = rows[i].name
      BY <1>1, <2>3 DEF ColumnTaken
    <2>5. ASSUME rows[i].ref = business PROVE Clash(rows)
      <3>1. KeyOf(i, rows[i]) = KeyOf(j, rows[j])
        BY <1>2, <2>1, <2>3, <2>4, <2>5 DEF KeyOf
      <3>2. rows[i].state = "live"
        BY <2>4 DEF Live
      <3> QED
        BY <1>2, <2>1, <3>1, <3>2 DEF Clash
    <2> QED
      BY <2>4, <2>5 DEF Live, AdminInv, Tables
  <1>6. \A j \in Live(i.kind) \ {i} :
           KeyOf(i, row) # KeyOf(j, rows[j]) \/ (i.kind = "column" /\ rows[i].state = "live" /\ rows[i].ref # business)
    BY <1>2, <1>5
  <1> QED
    BY <1>1, <1>2, <1>4, <1>6, PutAlone

PutAll(t, put) == Plan(t, put, {}, None, None, {})

\* A plan that writes several rows.
LEMMA PutAllStep ==
    ASSUME AdminInv, NEW t \in Requests, NEW put, PutAll(t, put),
           \A q : (q.put = put /\ q.kill = {} /\ q.to = {} /\ q.kind = None) => Good(q, seen[t])
    PROVE  AdminInv'
  <1>1. PICK q : /\ q = [put |-> put, kill |-> {}, from |-> None, kind |-> None, to |-> {},
                         had |-> {l \in links : l[1] = None}]
                 /\ plan' = [plan EXCEPT ![t] = q]
                 /\ UNCHANGED <<rows, links, seen, raced, moved, surprise>>
    BY DEF Plan, PutAll
  <1>2. q.put = put /\ q.kill = {} /\ q.to = {} /\ q.kind = None
    BY <1>1
  <1> QED
    BY <1>1, <1>2, PlanStep

LEMMA BulkRows ==
    ASSUME AdminInv, NEW t \in Requests, BulkUpdateConfig(t) PROVE AdminInv'
  <1>1. PICK ids \in SUBSET Live("config") \ {{}} : \E key \in [ids -> Names] :
            LET changed == {i \in ids : rows[i].name # key[i]} IN
            /\ \A i, j \in changed : key[i] = key[j] => i = j
            /\ \A i \in changed : ~Taken("config", key[i])
            /\ PutAll(t, [i \in ids |-> Row(key[i], None, None)])
    BY DEF BulkUpdateConfig, PutAll
  <1>2. PICK key \in [ids -> Names] :
            LET changed == {i \in ids : rows[i].name # key[i]} IN
            /\ \A i, j \in changed : key[i] = key[j] => i = j
            /\ \A i \in changed : ~Taken("config", key[i])
            /\ PutAll(t, [i \in ids |-> Row(key[i], None, None)])
    BY <1>1
  <1>3. /\ \A i, j \in ids : (rows[i].name # key[i] /\ rows[j].name # key[j] /\ key[i] = key[j]) => i = j
        /\ \A i \in ids : rows[i].name # key[i] => ~Taken("config", key[i])
        /\ PutAll(t, [i \in ids |-> Row(key[i], None, None)])
    BY <1>2
  <1>4. \A i \in ids : i \in DOMAIN rows /\ i.kind = "config" /\ rows[i].state = "live"
    BY DEF Live, Of
  <1>5. \A j \in DOMAIN rows : j.kind = "config" /\ rows[j].state = "live" => Taken("config", rows[j].name)
    BY DEF Taken, Live, Of
  <1>6. ASSUME NEW i \in DOMAIN rows, NEW j \in DOMAIN rows, i # j, i.kind = "config", j.kind = "config",
               rows[i].state = "live", rows[j].state = "live", rows[i].name = rows[j].name
        PROVE  FALSE
    <2>1. KeyOf(i, rows[i]) = KeyOf(j, rows[j])
      BY <1>6 DEF KeyOf
    <2>2. Clash(rows)
      BY <1>6, <2>1 DEF Clash
    <2> QED
      BY <2>2 DEF AdminInv, Tables
  <1>7. ASSUME NEW q, q.put = [i \in ids |-> Row(key[i], None, None)], q.kill = {}, q.to = {}, q.kind = None
        PROVE  Good(q, seen[t])
    <2>1. DOMAIN q.put = ids
      BY <1>7
    <2>2. \A i \in ids : /\ q.put[i] = Row(key[i], None, None) /\ q.put[i].name = key[i]
                         /\ q.put[i].ref = None /\ q.put[i].code = None /\ key[i] \in Names
      BY <1>7 DEF Row
    <2>3. \A i \in ids : KeyOf(i, q.put[i]) = <<key[i]>>
      BY <1>4, <2>2 DEF KeyOf
    <2>4. Shaped(q)
      BY <1>4, <1>7, <2>1, <2>2 DEF Shaped, Leads, UnderNoOne
    <2>5. Kept(q, seen[t]) /\ Coded(q)
      BY <1>4, <1>7, <2>1, <2>2 DEF Kept, Coded, UnderNoOne
    <2>6. ASSUME NEW i \in ids, NEW j \in ids, i # j PROVE KeyOf(i, q.put[i]) # KeyOf(j, q.put[j])
      <3> SUFFICES ASSUME <<key[i]>> = <<key[j]>> PROVE FALSE
        BY <2>3
      <3>1. <<key[i]>>[1] = <<key[j]>>[1]
        OBVIOUS
      <3> QED
        BY <1>3, <1>4, <1>5, <1>6, <2>6, <3>1
    <2>7. ASSUME NEW i \in ids, NEW j \in DOMAIN rows \ ids, rows[j].state = "live", j.kind = i.kind
          PROVE  KeyOf(i, q.put[i]) # KeyOf(j, rows[j])
      <3>1. j.kind = "config" /\ KeyOf(j, rows[j]) = <<rows[j].name>>
        BY <1>4, <2>7 DEF KeyOf
      <3> SUFFICES ASSUME <<key[i]>> = <<rows[j].name>> PROVE FALSE
        BY <2>3, <3>1
      <3>2. <<key[i]>>[1] = <<rows[j].name>>[1]
        OBVIOUS
      <3> QED
        BY <1>3, <1>4, <1>5, <1>6, <2>7, <3>1, <3>2
    <2>8. Free(q, seen[t])
      BY <1>4, <2>1, <2>2, <2>6, <2>7 DEF Free
    <2> QED
      BY <2>4, <2>5, <2>8 DEF Good
  <1> QED
    BY <1>3, <1>7, PutAllStep

LEMMA ImportRows ==
    ASSUME AdminInv, NEW t \in Requests, ImportBusiness(t) PROVE AdminInv'
  <1> DEFINE Put1(i, columns, name, label) ==
               [j \in {i} \cup columns |-> IF j = i THEN Row(name, None, None) ELSE Row(label[j], i, None)]
  <1>1. PICK i \in Fresh("business"), name \in Names, columns \in SUBSET Fresh("column") :
            \E label \in [columns -> Names] :
                /\ ~Taken("business", name)
                /\ \A j, k \in columns : label[j] = label[k] => j = k
                /\ PutAll(t, Put1(i, columns, name, label))
    BY DEF ImportBusiness, PutAll
  <1>2. PICK label \in [columns -> Names] :
                /\ ~Taken("business", name)
                /\ \A j, k \in columns : label[j] = label[k] => j = k
                /\ PutAll(t, Put1(i, columns, name, label))
    BY <1>1
  <1>3. /\ i \in DOMAIN rows /\ i.kind = "business" /\ rows[i].state = "none"
        /\ \A j \in columns : j \in DOMAIN rows /\ j.kind = "column" /\ rows[j].state = "none"
    BY DEF Fresh, Of
  <1>4. i \notin columns
    BY <1>3
  <1>5. ASSUME NEW q, q.put = Put1(i, columns, name, label), q.kill = {}, q.to = {}, q.kind = None
        PROVE  Good(q, seen[t])
    <2>1. DOMAIN q.put = {i} \cup columns
      BY <1>5
    <2>2. q.put[i] = Row(name, None, None)
      BY <1>5
    <2>3. q.put[i].name = name /\ q.put[i].ref = None /\ q.put[i].code = None
      BY <2>2 DEF Row
    <2>4. ASSUME NEW j \in columns
          PROVE  /\ q.put[j] = Row(label[j], i, None) /\ q.put[j].name = label[j]
                 /\ q.put[j].ref = i /\ q.put[j].code = None /\ label[j] \in Names
      <3>1. q.put[j] = Row(label[j], i, None)
        BY <1>4, <1>5
      <3> QED
        BY <3>1 DEF Row
    <2>5. Leads(i, q.put[i], DOMAIN q.put)
      BY <1>3, <2>3 DEF Leads, UnderNoOne
    <2>6. ASSUME NEW j \in columns PROVE Leads(j, q.put[j], DOMAIN q.put)
      BY <1>3, <2>1, <2>4 DEF Leads, Above, Of
    <2>7. Shaped(q)
      BY <1>3, <1>5, <2>1, <2>2, <2>3, <2>4, <2>5, <2>6 DEF Shaped
    <2>8. Kept(q, seen[t]) /\ Coded(q)
      BY <1>3, <1>5, <2>1, <2>3, <2>4 DEF Kept, Coded, UnderNoOne
    <2>9. ASSUME NEW j \in columns, NEW k \in columns, j # k
          PROVE  KeyOf(j, q.put[j]) # KeyOf(k, q.put[k])
      <3>1. KeyOf(j, q.put[j]) = <<i, label[j]>> /\ KeyOf(k, q.put[k]) = <<i, label[k]>>
        BY <1>3, <2>4 DEF KeyOf
      <3>2. <<i, label[j]>> # <<i, label[k]>>
        BY <1>2, <2>9
      <3> QED
        BY <3>1, <3>2
    <2>10. ASSUME NEW k \in Live("business") \ {i} PROVE KeyOf(i, q.put[i]) # KeyOf(k, rows[k])
      BY <1>2, <1>3, <2>3, NameFree DEF AdminInv
    <2>11. ASSUME NEW j \in columns, NEW k \in Live("column")
           PROVE  KeyOf(j, q.put[j]) # KeyOf(k, rows[k])
      <3>1. k \in DOMAIN rows /\ k.kind = "column" /\ rows[k].state = "live"
        BY DEF Live, Of
      <3>2. KeyOf(j, q.put[j]) = <<i, label[j]>> /\ KeyOf(k, rows[k]) = <<rows[k].ref, rows[k].name>>
        BY <1>3, <2>4, <3>1 DEF KeyOf
      <3>3. Leads(k, rows[k], {})
        BY <3>1 DEF AdminInv, Tables
      <3>4. rows[k].ref # i
        BY <1>3, <3>3 DEF Leads, AdminInv, Shape
      <3> QED
        BY <3>2, <3>4
    <2>12. Free(q, seen[t])
      <3>1. ASSUME NEW j \in DOMAIN q.put, NEW k \in DOMAIN q.put, j # k, j.kind = k.kind
            PROVE  j.kind \notin {"menu", "user"} /\ KeyOf(j, q.put[j]) # KeyOf(k, q.put[k])
        BY <1>3, <2>1, <2>9, <3>1
      <3>2. ASSUME NEW j \in DOMAIN q.put, NEW k \in DOMAIN rows \ DOMAIN q.put,
                   rows[k].state = "live", k.kind = j.kind
            PROVE  j.kind \notin {"menu", "user"} /\ KeyOf(j, q.put[j]) # KeyOf(k, rows[k])
        <4>1. k \in Live(j.kind)
          BY <3>2 DEF Live, Of
        <4> QED
          BY <1>3, <2>1, <2>10, <2>11, <3>2, <4>1
      <3> QED
        BY <3>1, <3>2 DEF Free
    <2> QED
      BY <2>7, <2>8, <2>12 DEF Good
  <1>6. PutAll(t, Put1(i, columns, name, label))
    BY <1>2
  <1> HIDE DEF Put1
  <1> QED
    BY <1>5, <1>6, PutAllStep

-----------------------------------------------------------------------------
(* The write.                                                              *)

\* What the tables become: W are the rows written, K the rows deleted.
After(p, W, K) ==
    /\ rows' = [i \in DOMAIN rows |-> rows'[i]]
    /\ W \subseteq DOMAIN p.put \cap DOMAIN rows /\ K \subseteq DOMAIN rows
    /\ W = {} \/ (K = {} /\ p.kill = {})
    /\ \A i \in W : rows'[i] = p.put[i] /\ rows[i].state # "deleted" /\ rows'[i].state = "live"
    /\ \A i \in K :
          /\ rows[i].state = "live" /\ (i \in p.kill \/ (i.kind = "ddata" /\ rows[i].ref \in p.kill))
          /\ rows'[i].state = "deleted" /\ rows'[i].name = rows[i].name
          /\ rows'[i].ref = rows[i].ref /\ rows'[i].code = rows[i].code
    /\ \A i \in DOMAIN rows \ (W \cup K) :
          /\ rows'[i] = rows[i]
          /\ rows[i].state = "live" => i \notin p.kill /\ (i.kind = "ddata" => rows[i].ref \notin p.kill)
    /\ \A i \in DOMAIN p.put \ W : rows[i].state = "deleted"
    /\ \A i \in DOMAIN rows : IsRow(rows'[i])

LEMMA TablesAfter ==
    ASSUME Shape, NEW p, Shaped(p), rows' = RowsAfter(p) PROVE After(p, Written(p), Killed(p))
  <1> DEFINE W == Written(p)
             K == Killed(p)
  <1>1. W \subseteq DOMAIN p.put \cap DOMAIN rows /\ K \subseteq DOMAIN rows
    BY DEF Shaped, Written, Killed
  <1>2. W = {} \/ (K = {} /\ p.kill = {})
    BY DEF Shaped, Written, Killed
  <1>3. \A i \in DOMAIN rows : rows'[i] = IF i \in W THEN p.put[i]
                                        ELSE IF i \in K THEN [rows[i] EXCEPT !.state = "deleted"]
                                        ELSE rows[i]
    BY DEF RowsAfter
  <1>4. rows' = [i \in DOMAIN rows |-> rows'[i]]
    BY DEF RowsAfter
  <1>5. ASSUME NEW i \in W
        PROVE  rows'[i] = p.put[i] /\ rows[i].state # "deleted" /\ rows'[i].state = "live" /\ IsRow(rows'[i])
    <2>1. p.put[i] = Row(p.put[i].name, p.put[i].ref, p.put[i].code)
      BY <1>1 DEF Shaped
    <2>2. p.put[i].state = "live" /\ IsRow(p.put[i])
      BY <2>1 DEF Row, IsRow
    <2> QED
      <3>1. rows'[i] = p.put[i]
        BY <1>1, <1>3
      <3>2. rows[i].state # "deleted"
        BY DEF Written
      <3> QED
        BY <2>2, <3>1, <3>2
  <1>6. ASSUME NEW i \in K
        PROVE  /\ rows[i].state = "live" /\ (i \in p.kill \/ (i.kind = "ddata" /\ rows[i].ref \in p.kill))
               /\ rows'[i].state = "deleted" /\ rows'[i].name = rows[i].name
               /\ rows'[i].ref = rows[i].ref /\ rows'[i].code = rows[i].code
               /\ IsRow(rows'[i])
    <2>1. rows'[i] = [rows[i] EXCEPT !.state = "deleted"]
      BY <1>1, <1>2, <1>3
    <2>2. IsRow(rows[i])
      BY <1>1 DEF Shape
    <2> QED
      BY <2>1, <2>2 DEF IsRow, Killed
  <1>7. \A i \in DOMAIN rows \ (W \cup K) :
          /\ rows'[i] = rows[i] /\ IsRow(rows'[i])
          /\ rows[i].state = "live" => i \notin p.kill /\ (i.kind = "ddata" => rows[i].ref \notin p.kill)
    BY <1>3 DEF Shape, Killed
  <1>8. \A i \in DOMAIN p.put \ W : rows[i].state = "deleted"
    BY DEF Written
  <1> QED
    BY <1>1, <1>2, <1>4, <1>5, <1>6, <1>7, <1>8 DEF After

\* What others learn of the write, and what no look-up covers.
Marked(p, W, K, C) ==
    /\ \A i \in W : i \in C /\ Mark(i, p.put[i].name) \in C /\ Mark(i, p.put[i].code) \in C
    /\ K \subseteq C
    /\ raced \subseteq raced' /\ moved \subseteq moved'
    /\ \A i \in W : rows[i].state = "live" =>
          /\ (i.kind = "dtype" /\ p.put[i].name # rows[i].name) => i \in moved'
          /\ (i.kind = "menu" /\ p.put[i].code # rows[i].code) => i \in moved'

\* The plans of the others stay good, knowing what was written.
LEMMA OthersShaped ==
    ASSUME Shape, NEW p, NEW W, NEW K, After(p, W, K), NEW q, Shaped(q) PROVE Shaped(q)'
  <1>1. \A i : \A row, new : Leads(i, row, new) => Leads(i, row, new)'
    <2> SUFFICES ASSUME NEW i, NEW row, NEW new, Leads(i, row, new) PROVE Leads(i, row, new)'
      OBVIOUS
    <2>1. DOMAIN rows' = DOMAIN rows
      BY DEF After
    <2>2. \A j \in DOMAIN rows : rows[j].state # "none" => rows'[j].state # "none"
      BY DEF After
    <2> QED
      BY <2>1, <2>2 DEF Leads, Of
  <1>2. DOMAIN rows' = DOMAIN rows
    BY DEF After
  <1>3. \A i \in DOMAIN q.put : Leads(i, q.put[i], DOMAIN q.put) => Leads(i, q.put[i], DOMAIN q.put)'
    BY <1>1
  <1> QED
    BY <1>2, <1>3 DEF Shaped

LEMMA OthersKept ==
    ASSUME Shape, NEW p, NEW W, NEW K, After(p, W, K), NEW C, Marked(p, W, K, C),
           NEW q, NEW since, NEW new, new = since \cup C, Shaped(q), Kept(q, since)
    PROVE  Kept(q, new)'
  <1>1. DOMAIN rows' = DOMAIN rows
    BY DEF After
  <1>2. ASSUME NEW i \in DOMAIN q.put PROVE rows'[i].state # "deleted" \/ i \in new
    BY DEF After, Marked, Shaped, Kept
  <1>3. ASSUME NEW j, j \in Live("dept") \cup Live("menu") \cup Live("dtype")
        PROVE  j \in new \/ j \in (Live("dept") \cup Live("menu") \cup Live("dtype"))'
    BY <1>1, <1>3 DEF After, Marked, Live, Of
  <1>4. ASSUME NEW i \in DOMAIN q.put, i.kind # "column"
        PROVE  \/ q.put[i].ref \in (Live("dept") \cup Live("menu") \cup Live("dtype"))' \cup UnderNoOne
                                                                      \cup raced' \cup new
               \/ i \in raced'
    BY <1>3, <1>4 DEF Marked, Kept
  <1>5. ASSUME NEW i \in DOMAIN rows, rows'[i].state = "live", rows'[i].ref \in q.kill,
               i.kind \notin {"column", "ddata"}
        PROVE  i \in new
    BY <1>5 DEF After, Marked, Kept
  <1>6. ASSUME NEW j \in q.to PROVE rows'[j].state = "live" \/ j \in new
    BY DEF After, Marked, Shaped, Kept
  <1> QED
    BY <1>1, <1>2, <1>4, <1>5, <1>6 DEF Kept, UnderNoOne

LEMMA OthersCoded ==
    ASSUME Shape, NEW p, NEW W, NEW K, After(p, W, K), NEW C, Marked(p, W, K, C),
           NEW q, Shaped(q), Coded(q)
    PROVE  Coded(q)'
  <1> SUFFICES ASSUME NEW i \in DOMAIN q.put, i.kind = "ddata"
               PROVE  q.put[i].code = rows'[q.put[i].ref].name \/ q.put[i].ref \in moved'
    BY DEF Coded
  <1>1. q.put[i].code = rows[q.put[i].ref].name \/ q.put[i].ref \in moved
    BY DEF Coded
  <1>2. /\ q.put[i].ref \in DOMAIN rows /\ q.put[i].ref.kind = "dtype"
        /\ rows[q.put[i].ref].state # "none"
    BY DEF Shaped, Leads, Of, Above
  <1>3. rows[q.put[i].ref].state \in {"none", "live", "deleted"}
    BY <1>2 DEF Shape, IsRow
  <1> QED
    BY <1>1, <1>2, <1>3 DEF After, Marked

LEMMA SameName ==
    ASSUME NEW i, NEW j, i.kind = j.kind, NEW r, NEW s, KeyOf(i, r) = KeyOf(j, s) PROVE r.name = s.name
  <1>1. CASE i.kind = "ddata"
    <2>1. <<r.code, r.name>> = <<s.code, s.name>>
      BY <1>1 DEF KeyOf
    <2> QED
      BY <2>1
  <1>2. CASE i.kind = "column"
    <2>1. <<r.ref, r.name>> = <<s.ref, s.name>>
      BY <1>2 DEF KeyOf
    <2> QED
      BY <2>1
  <1>3. CASE i.kind \notin {"ddata", "column"}
    <2>1. <<r.name>> = <<s.name>>
      BY <1>3 DEF KeyOf
    <2>2. <<r.name>>[1] = <<s.name>>[1]
      BY <2>1
    <2> QED
      BY <2>2
  <1> QED
    BY <1>1, <1>2, <1>3

LEMMA OthersFree ==
    ASSUME Shape, NEW p, NEW W, NEW K, After(p, W, K), NEW C, Marked(p, W, K, C),
           NEW q, NEW since, NEW new, new = since \cup C, Shaped(q), Free(q, since)
    PROVE  Free(q, new)'
  <1>1. DOMAIN rows' = DOMAIN rows
    BY DEF After
  <1>2. \A i, j \in DOMAIN q.put :
          (i # j /\ i.kind = j.kind) => i.kind \notin {"menu", "user"} /\ KeyOf(i, q.put[i]) # KeyOf(j, q.put[j])
    BY DEF Free
  <1>3. ASSUME NEW i \in DOMAIN q.put, NEW j \in DOMAIN rows \ DOMAIN q.put, rows'[j].state = "live", j.kind = i.kind
        PROVE  /\ (i.kind # "menu" /\ KeyOf(i, q.put[i]) = KeyOf(j, rows'[j])) =>
                   \/ {i, Mark(i, q.put[i].name)} \cap new # {}
                   \/ i.kind = "column" /\ rows'[i].state = "live" /\ rows'[i].ref # q.put[i].ref
               /\ (i.kind = "user" /\ q.put[i].code # None /\ q.put[i].code = rows'[j].code) =>
                   {i, Mark(i, q.put[i].code)} \cap new # {}
               /\ (/\ i.kind = "menu" /\ {i, j} \cap moved' = {} /\ q.put[i].name = rows'[j].name
                   /\ "button" \notin {q.put[i].code, rows'[j].code}
                   /\ rows'[i].state = "none" \/ (rows'[i].state = "live" /\ rows'[i].code = q.put[i].code))
                   => Mark(i, q.put[i].name) \in new \cup raced'
    <2>1. i \in DOMAIN rows /\ rows[i].state \in {"none", "live", "deleted"}
      BY DEF Shaped, Shape, IsRow
    <2>2. CASE j \in W
      <3>1. /\ rows'[j] = p.put[j]
            /\ Mark(j, p.put[j].name) \in new /\ Mark(j, p.put[j].code) \in new
        BY <2>2 DEF After, Marked
      <3>2. \A name : Mark(j, name) = Mark(i, name)
        BY <1>3 DEF Mark
      <3>3. KeyOf(i, q.put[i]) = KeyOf(j, rows'[j]) => q.put[i].name = p.put[j].name
        BY <1>3, <3>1, SameName
      <3> QED
        BY <3>1, <3>2, <3>3
    <2>3. CASE j \notin W
      <3>1. rows'[j] = rows[j] /\ rows[j].state = "live"
        BY <1>3, <2>3 DEF After
      <3>2. /\ (i.kind # "menu" /\ KeyOf(i, q.put[i]) = KeyOf(j, rows[j])) =>
                   \/ {i, Mark(i, q.put[i].name)} \cap since # {}
                   \/ i.kind = "column" /\ rows[i].state = "live" /\ rows[i].ref # q.put[i].ref
            /\ (i.kind = "user" /\ q.put[i].code # None /\ q.put[i].code = rows[j].code) =>
                   {i, Mark(i, q.put[i].code)} \cap since # {}
            /\ (/\ i.kind = "menu" /\ {i, j} \cap moved = {} /\ q.put[i].name = rows[j].name
                /\ "button" \notin {q.put[i].code, rows[j].code}
                /\ rows[i].state = "none" \/ (rows[i].state = "live" /\ rows[i].code = q.put[i].code))
                   => Mark(i, q.put[i].name) \in since \cup raced
        BY <1>3, <3>1 DEF Free
      <3>3. CASE i \notin W \cup K
        <4>1. rows'[i] = rows[i]
          BY <2>1, <3>3 DEF After
        <4>2. raced \subseteq raced' /\ moved \subseteq moved'
          BY DEF Marked
        <4> QED
          BY <3>1, <3>2, <4>1, <4>2
      <3>4. CASE i \in W \cup K
        <4>1. i \in new
          BY <3>4 DEF Marked
        <4>2. ASSUME i.kind = "menu", {i, j} \cap moved' = {}, q.put[i].name = rows[j].name,
                     "button" \notin {q.put[i].code, rows[j].code},
                     rows'[i].state = "none" \/ (rows'[i].state = "live" /\ rows'[i].code = q.put[i].code)
              PROVE  Mark(i, q.put[i].name) \in new \cup raced'
          <5>1. i \in W
            BY <3>4, <4>2 DEF After
          <5>2. rows'[i] = p.put[i] /\ rows[i].state # "deleted" /\ p.put[i].state = "live"
            BY <5>1 DEF After
          <5>3. rows[i].state = "live" => p.put[i].code = rows[i].code
            BY <4>2, <5>1 DEF Marked
          <5>4. rows[i].state = "none" \/ (rows[i].state = "live" /\ rows[i].code = q.put[i].code)
            BY <2>1, <4>2, <5>2, <5>3
          <5>5. {i, j} \cap moved = {} /\ raced \subseteq raced'
            BY <4>2 DEF Marked
          <5> QED
            BY <3>2, <4>2, <5>4, <5>5
        <4> QED
          BY <3>1, <4>1, <4>2
      <3> QED
        BY <3>3, <3>4
    <2> QED
      BY <2>2, <2>3
  <1> QED
    BY <1>1, <1>2, <1>3 DEF Free

LEMMA OthersGood ==
    ASSUME Shape, NEW p, NEW W, NEW K, After(p, W, K), NEW C, Marked(p, W, K, C),
           NEW q, NEW since, NEW new, new = since \cup C, Good(q, since)
    PROVE  Good(q, new)'
  <1>1. Shaped(q) /\ Kept(q, since) /\ Free(q, since) /\ Coded(q)
    BY DEF Good
  <1>2. Shaped(q)'
    BY <1>1, OthersShaped
  <1>3. Kept(q, new)'
    BY <1>1, OthersKept
  <1>4. Free(q, new)'
    BY <1>1, OthersFree
  <1>5. Coded(q)'
    BY <1>1, OthersCoded
  <1> QED
    BY <1>2, <1>3, <1>4, <1>5 DEF Good

\* What a request depends on and others have changed is in X.
Met(p, W, since, X) ==
    /\ \A i \in W :
          /\ i \in since => i \in X
          /\ p.put[i].ref \in since => p.put[i].ref \in X \cup UnderNoOne
          /\ Mark(i, p.put[i].name) \in since => Mark(i, p.put[i].name) \in X
          /\ (i.kind = "user" /\ p.put[i].code # None /\ Mark(i, p.put[i].code) \in since)
                => Mark(i, p.put[i].code) \in X
    /\ p.to # {} /\ p.from \in since => p.from \in X
    /\ \A j \in p.to : j \in since => j \in X
    /\ \A i \in DOMAIN rows : rows[i].ref \in p.kill /\ i \in since => i \in X

LEMMA Overlapping ==
    ASSUME RowsAssumption, Shape, NEW t \in Requests, NEW p, p = plan[t], NEW since, since = seen[t], Shaped(p)
    PROVE  Met(p, Written(p), since, Overlaps(t))
  <1> DEFINE W == Written(p)
             X == Overlaps(t)
  <1>1. X = (DependsOn(p) \cap since) \ {None}
    BY DEF Overlaps
  <1>2. None \notin DOMAIN rows
    BY DEF Shape, UnderNoOne
  <1>3. ASSUME NEW i \in W
        PROVE  /\ i \in DOMAIN p.put /\ i \in DOMAIN rows
               /\ {i, Mark(i, p.put[i].name), Mark(i, p.put[i].code), p.put[i].ref} \subseteq DependsOn(p)
    <2>1. i \in DOMAIN p.put
      BY DEF Written
    <2>2. {i, Mark(i, p.put[i].name), Mark(i, p.put[i].code)} \subseteq Changes(p)
      BY DEF Changes, Marks, Mark
    <2>3. p.put[i].ref \in DependsOn(p)
      BY DEF DependsOn
    <2> QED
      BY <2>1, <2>2, <2>3 DEF DependsOn, Shaped
  <1>4. ASSUME NEW i \in DOMAIN rows, NEW n \in Names \cup Emails PROVE Mark(i, n) # None
    <2>1. Mark(i, n) \in [kind : Kinds, n : Names \cup Emails]
      BY DEF Mark, Shape
    <2> QED
      BY <2>1 DEF RowsAssumption
  <1>5. ASSUME NEW i \in W
        PROVE  /\ i \in since => i \in X
               /\ p.put[i].ref \in since => p.put[i].ref \in X \cup UnderNoOne
               /\ Mark(i, p.put[i].name) \in since => Mark(i, p.put[i].name) \in X
               /\ (i.kind = "user" /\ p.put[i].code # None /\ Mark(i, p.put[i].code) \in since)
                     => Mark(i, p.put[i].code) \in X
    <2>1. p.put[i].name \in Names /\ (i.kind = "user" => p.put[i].code \in Emails \cup {None})
      BY <1>3 DEF Shaped
    <2> QED
      BY <1>1, <1>2, <1>3, <1>4, <2>1 DEF UnderNoOne
  <1>6. p.to # {} /\ p.from \in since => p.from \in X
    <2>1. p.from \in DependsOn(p)
      <3>1. p.from \in Changes(p)
        BY DEF Changes
      <3> QED
        BY <3>1 DEF DependsOn
    <2>2. p.to # {} => p.from # None
      BY <1>2 DEF Shaped
    <2> QED
      BY <1>1, <2>1, <2>2
  <1>7. \A j \in p.to : j \in since => j \in X
    BY <1>1, <1>2 DEF DependsOn, Shaped
  <1>8. \A i \in DOMAIN rows : rows[i].ref \in p.kill /\ i \in since => i \in X
    BY <1>1, <1>2 DEF DependsOn
  <1> QED
    BY <1>5, <1>6, <1>7, <1>8 DEF Met

\* A key met on writing was another's meanwhile, or is a column's that moved.
LEMMA ClashMet ==
    ASSUME Shape, Tables, NEW p, NEW W, NEW K, NEW since, NEW X,
           Shaped(p), Free(p, since), Met(p, W, since, X), W = Written(p), K = Killed(p), Clash(RowsAfter(p))
    PROVE  X # {} \/ Unchecked(p) # {}
  <1> DEFINE after == RowsAfter(p)
  <1>1. DOMAIN after = DOMAIN rows /\ W \subseteq DOMAIN p.put /\ W \subseteq DOMAIN rows
    BY DEF RowsAfter, Written, Shaped
  <1>2. \A i \in W : after[i] = p.put[i]
    BY <1>1 DEF RowsAfter
  <1>3. \A i \in DOMAIN rows \ W : after[i].state = "live" => after[i] = rows[i] /\ i \notin DOMAIN p.put
    <2> SUFFICES ASSUME NEW i \in DOMAIN rows \ W, after[i].state = "live"
                 PROVE  after[i] = rows[i] /\ i \notin DOMAIN p.put
      OBVIOUS
    <2>1. i \notin K
      <3>1. i \in K => after[i] = [rows[i] EXCEPT !.state = "deleted"]
        BY DEF RowsAfter
      <3>2. rows[i] = [state |-> rows[i].state, name |-> rows[i].name, ref |-> rows[i].ref, code |-> rows[i].code]
        BY DEF Shape, IsRow
      <3>3. [rows[i] EXCEPT !.state = "deleted"].state = "deleted"
        BY <3>2
      <3> QED
        BY <3>1, <3>3
    <2>2. after[i] = rows[i]
      BY <2>1 DEF RowsAfter
    <2> QED
      BY <2>2 DEF Written
  <1>4. PICK i, j \in {k \in DOMAIN after : after[k].state = "live"} :
            /\ i # j /\ i.kind = j.kind /\ i.kind # "menu"
            /\ \/ KeyOf(i, after[i]) = KeyOf(j, after[j])
               \/ i.kind = "user" /\ after[i].code = after[j].code /\ after[i].code # None
    BY DEF Clash
  <1> HIDE DEF after
  <1>5. CASE i \notin W /\ j \notin W
    <2>1. after[i] = rows[i] /\ after[j] = rows[j] /\ i \in DOMAIN rows /\ j \in DOMAIN rows
      BY <1>1, <1>3, <1>4, <1>5
    <2>2. Clash(rows)
      BY <1>4, <2>1 DEF Clash
    <2> QED
      BY <2>2 DEF Tables
  <1>6. CASE i \in W /\ j \in W
    BY <1>1, <1>2, <1>4, <1>6 DEF Free
  <1>7. ASSUME NEW a \in W, NEW b \in DOMAIN rows \ W, after[b].state = "live",
               a.kind = b.kind, a.kind # "menu",
               \/ KeyOf(a, after[a]) = KeyOf(b, after[b])
               \/ a.kind = "user" /\ after[a].code = after[b].code /\ after[a].code # None
        PROVE  X # {} \/ Unchecked(p) # {}
    <2>1. after[a] = p.put[a] /\ after[b] = rows[b] /\ b \in DOMAIN rows \ DOMAIN p.put /\ rows[b].state = "live"
      BY <1>2, <1>3, <1>7
    <2>2. \/ {a, Mark(a, p.put[a].name)} \cap since # {}
          \/ a.kind = "user" /\ p.put[a].code # None /\ {a, Mark(a, p.put[a].code)} \cap since # {}
          \/ a.kind = "column" /\ rows[a].state = "live" /\ rows[a].ref # p.put[a].ref
      BY <1>1, <1>7, <2>1 DEF Free
    <2>3. CASE a.kind = "column" /\ rows[a].state = "live" /\ rows[a].ref # p.put[a].ref
      BY <2>3 DEF Unchecked
    <2> QED
      BY <2>2, <2>3 DEF Met
  <1> QED
    BY <1>1, <1>4, <1>5, <1>6, <1>7

LEMMA RollBackStep ==
    ASSUME AdminInv, NEW t \in Requests, RollBack(t) PROVE AdminInv'
  <1>1. PICK p : p = plan[t]
    OBVIOUS
  <1>2. PICK since : since = seen[t]
    OBVIOUS
  <1>3. Good(p, since) /\ Shape /\ Tables /\ RowsAssumption
    BY <1>1, <1>2 DEF AdminInv, Planned, RollBack
  <1>4. Met(p, Written(p), since, Overlaps(t))
    BY <1>1, <1>2, <1>3, Overlapping DEF Good
  <1>5. Overlaps(t) # {} \/ Unchecked(p) # {}
    <2>1. CASE Clash(RowsAfter(p))
      BY <1>3, <1>4, <2>1, ClashMet DEF Good
    <2>2. CASE p.to # {} /\ Selected(p, TRUE) = {}
      <3>1. PICK j \in p.to : TRUE
        BY <2>2
      <3>2. p.kind = "role" /\ j \notin Live("role")
        BY <2>2, <3>1 DEF Selected
      <3>3. j \in DOMAIN rows /\ j.kind = "role"
        BY <1>3, <3>1, <3>2 DEF Good, Shaped
      <3>4. j \in since
        BY <1>3, <3>1, <3>2, <3>3 DEF Good, Kept, Live, Of
      <3> QED
        BY <1>4, <3>1, <3>4 DEF Met
    <2> QED
      BY <1>1, <2>1, <2>2 DEF RollBack
  <1>6. ChecksSuffice'
    <2>1. surprise' = (surprise \/ (Overlaps(t) = {} /\ Unchecked(p) = {}))
      BY <1>1 DEF RollBack
    <2>2. ~surprise
      BY DEF AdminInv, ChecksSuffice
    <2> QED
      BY <1>5, <2>1, <2>2 DEF ChecksSuffice
  <1>7. UNCHANGED <<rows, links, raced, moved>> /\ plan' = [plan EXCEPT ![t] = None] /\ seen' = [seen EXCEPT ![t] = {}]
    BY DEF RollBack, Done
  <1>8. Shape'
    BY <1>3, <1>7 DEF Shape, UnderNoOne, IsRow
  <1>9. Tables'
    BY <1>3, <1>7 DEF Tables, Leads, Of
  <1>10. Anchored' /\ TitlesUnique' /\ DictCoded'
    BY <1>7 DEF AdminInv, Anchored, TitlesUnique, DictCoded, Live, Of
  <1>11. ASSUME NEW q, NEW s, Good(q, s) PROVE Good(q, s)'
    <2>1. Shaped(q)'
      BY <1>7, <1>11 DEF Good, Shaped, Leads, Of
    <2>2. Kept(q, s)' /\ Free(q, s)' /\ Coded(q)'
      BY <1>7, <1>11 DEF Good, Kept, Free, Coded, Live, Of
    <2> QED
      BY <2>1, <2>2 DEF Good
  <1>12. ASSUME NEW u \in Requests, plan'[u] # None, NEW q, NEW s, q = plan'[u], s = seen'[u]
         PROVE  Good(q, s)
    <2>1. u # t /\ q = plan[u] /\ s = seen[u]
      BY <1>3, <1>7, <1>12 DEF Shape
    <2> QED
      BY <1>12, <2>1 DEF AdminInv, Planned
  <1>13. Planned'
    BY <1>11, <1>12 DEF Planned
  <1> QED
    BY <1>6, <1>7, <1>8, <1>9, <1>10, <1>13 DEF AdminInv, RowsAssumption

LEMMA AnchoredAfter ==
    ASSUME Shape, Tables, Anchored, NEW p, NEW W, NEW K, NEW C, NEW since, NEW X,
           After(p, W, K), Marked(p, W, K, C), Met(p, W, since, X), X \subseteq raced',
           Shaped(p), Kept(p, since),
           \A l \in links' : \/ /\ l \in links
                                /\ ~(l[2] \in p.kill /\ l[2].kind = "menu")
                                /\ ~(l[1] \in p.kill /\ l[1].kind = "user")
                             \/ \E j \in p.to : l = <<p.from, j>>
    PROVE  Anchored'
  <1>1. DOMAIN rows' = DOMAIN rows /\ raced \subseteq raced'
    BY DEF After, Marked
  <1>2. ASSUME NEW j \in DOMAIN rows, rows[j].state = "live",
               j \notin p.kill, j.kind = "ddata" => rows[j].ref \notin p.kill
        PROVE  rows'[j].state = "live"
    BY <1>2 DEF After
  <1>3. ASSUME NEW i \in DOMAIN rows, rows'[i].state = "live", i.kind # "column", i \notin raced'
        PROVE  rows'[i].ref \in (Live("dept") \cup Live("menu") \cup Live("dtype"))' \cup UnderNoOne \cup raced'
    <2>1. CASE i \in W
      <3>1. rows'[i] = p.put[i] /\ p.kill = {} /\ i \in DOMAIN p.put
        BY <2>1 DEF After
      <3>2. \/ p.put[i].ref \in Live("dept") \cup Live("menu") \cup Live("dtype")
            \/ p.put[i].ref \in UnderNoOne \cup raced'
        BY <1>1, <1>3, <2>1, <3>1 DEF Kept, Met
      <3> QED
        BY <1>1, <1>2, <3>1, <3>2 DEF Live, Of
    <2>2. CASE i \notin W
      <3>1. rows'[i] = rows[i] /\ rows[i].state = "live" /\ (i.kind = "ddata" => rows[i].ref \notin p.kill)
        BY <1>3, <2>2 DEF After
      <3>2. rows[i].ref \in Live("dept") \cup Live("menu") \cup Live("dtype") \cup UnderNoOne \cup raced
        BY <1>1, <1>3, <3>1 DEF Anchored
      <3>3. rows[i].ref \notin p.kill
        BY <1>3, <3>1 DEF Kept, Met
      <3>4. ASSUME rows[i].ref \in Live("dept") \cup Live("menu") \cup Live("dtype")
            PROVE  rows[i].ref \in (Live("dept") \cup Live("menu") \cup Live("dtype"))'
        <4>1. /\ rows[i].ref \in DOMAIN rows /\ rows[i].ref.kind \in {"dept", "menu", "dtype"}
              /\ rows[rows[i].ref].state = "live"
          BY <3>4 DEF Live, Of
        <4>2. rows'[rows[i].ref].state = "live"
          BY <1>2, <3>3, <4>1
        <4> QED
          BY <1>1, <4>1, <4>2 DEF Live, Of
      <3> QED
        BY <1>1, <3>1, <3>2, <3>4
    <2> QED
      BY <2>1, <2>2
  <1>4. ASSUME NEW l \in links, ~(l[2] \in p.kill /\ l[2].kind = "menu"), ~(l[1] \in p.kill /\ l[1].kind = "user")
        PROVE  /\ l[1].kind = "user" => l[1] \in Live("user")' \cup raced'
               /\ l[2].kind = "menu" => l[2] \in Live("menu")' \cup raced'
    BY <1>1, <1>2, <1>4 DEF Anchored, Live, Of
  <1>5. ASSUME NEW j \in p.to
        PROVE  /\ p.from.kind = "user" => p.from \in Live("user")' \cup raced'
               /\ j.kind = "menu" => j \in Live("menu")' \cup raced'
    <2>1. p.kill = {}
      BY DEF Shaped
    <2>2. ASSUME p.from.kind = "user" PROVE p.from \in Live("user")' \cup raced'
      <3>1. p.from \in DOMAIN p.put /\ p.from \in DOMAIN rows
        BY <2>2 DEF Shaped
      <3>2. p.from \in W \/ p.from \in since
        BY <3>1 DEF Kept, After
      <3>3. p.from \in W => rows'[p.from].state = "live"
        BY DEF After
      <3> QED
        BY <1>1, <2>2, <3>1, <3>2, <3>3 DEF Met, Live, Of
    <2>3. ASSUME j.kind = "menu" PROVE j \in Live("menu")' \cup raced'
      <3>1. j \in DOMAIN rows /\ (rows[j].state = "live" \/ j \in since)
        BY DEF Shaped, Kept
      <3> QED
        BY <1>1, <1>2, <2>1, <2>3, <3>1 DEF Met, Live, Of
    <2> QED
      BY <2>2, <2>3
  <1>6. ASSUME NEW l \in links'
        PROVE  /\ l[1].kind = "user" => l[1] \in Live("user")' \cup raced'
               /\ l[2].kind = "menu" => l[2] \in Live("menu")' \cup raced'
    <2>1. CASE \E j \in p.to : l = <<p.from, j>>
      <3>1. PICK j \in p.to : l = <<p.from, j>>
        BY <2>1
      <3>2. l[1] = p.from /\ l[2] = j
        BY <3>1
      <3> QED
        BY <1>5, <3>2
    <2> QED
      BY <1>4, <2>1
  <1> QED
    BY <1>1, <1>3, <1>6 DEF Anchored, UnderNoOne

LEMMA TitlesAfter ==
    ASSUME Shape, TitlesUnique, NEW p, NEW W, NEW K, NEW C, NEW since, NEW X,
           After(p, W, K), Marked(p, W, K, C), Met(p, W, since, X), X \subseteq raced', Shaped(p), Free(p, since)
    PROVE  TitlesUnique'
  <1>1. DOMAIN rows' = DOMAIN rows /\ raced \subseteq raced' /\ moved \subseteq moved'
    BY DEF After, Marked
  <1>2. ASSUME NEW a \in W, NEW b \in DOMAIN rows, a # b, a.kind = "menu", b.kind = "menu",
               rows'[b].state = "live", a \notin moved', b \notin moved',
               rows'[a].name = rows'[b].name, "button" \notin {rows'[a].code, rows'[b].code}
        PROVE  Mark(a, rows'[a].name) \in raced'
    <2>1. /\ rows'[a] = p.put[a] /\ rows[a].state # "deleted" /\ a \in DOMAIN p.put /\ a \in DOMAIN rows
          /\ rows[a].state = "live" => p.put[a].code = rows[a].code
      BY <1>2 DEF After, Marked
    <2>2. b \notin DOMAIN p.put
      <3>1. b \notin W
        BY <1>2, <2>1 DEF After, Free
      <3> QED
        BY <1>2, <3>1 DEF After
    <2>3. rows'[b] = rows[b] /\ rows[b].state = "live"
      BY <1>2, <2>2 DEF After
    <2>4. rows[a].state \in {"none", "live"}
      BY <2>1 DEF Shape, IsRow
    <2>5. Mark(a, p.put[a].name) \in since \cup raced
      BY <1>1, <1>2, <2>1, <2>2, <2>3, <2>4 DEF Free
    <2> QED
      BY <1>1, <2>1, <2>5 DEF Met
  <1>3. ASSUME NEW i \in DOMAIN rows, NEW j \in DOMAIN rows, i # j, i.kind = "menu", j.kind = "menu",
               rows'[i].state = "live", rows'[j].state = "live", i \notin moved', j \notin moved',
               rows'[i].name = rows'[j].name, "button" \notin {rows'[i].code, rows'[j].code}
        PROVE  [kind |-> "menu", n |-> rows'[i].name] \in raced'
    <2>1. CASE i \in W
      BY <1>2, <1>3, <2>1 DEF Mark
    <2>2. CASE j \in W
      BY <1>2, <1>3, <2>2 DEF Mark
    <2>3. CASE i \notin W /\ j \notin W
      <3>1. rows'[i] = rows[i] /\ rows'[j] = rows[j]
        BY <1>3, <2>3 DEF After
      <3> QED
        BY <1>1, <1>3, <3>1 DEF TitlesUnique, Live, Of
    <2> QED
      BY <2>1, <2>2, <2>3
  <1> QED
    BY <1>1, <1>3 DEF TitlesUnique, Live, Of

LEMMA DictAfter ==
    ASSUME Shape, Tables, DictCoded, NEW p, NEW W, NEW K, NEW C,
           After(p, W, K), Marked(p, W, K, C), Shaped(p), Coded(p)
    PROVE  DictCoded'
  <1>1. DOMAIN rows' = DOMAIN rows /\ raced \subseteq raced' /\ moved \subseteq moved'
    BY DEF After, Marked
  <1>2. ASSUME NEW r \in DOMAIN rows, r.kind = "dtype", rows[r].state # "none"
        PROVE  rows'[r].name = rows[r].name \/ r \in moved'
    <2>1. rows[r].state \in {"none", "live", "deleted"}
      BY DEF Shape, IsRow
    <2> QED
      BY <1>2, <2>1 DEF After, Marked
  <1>3. ASSUME NEW i \in DOMAIN rows, i.kind = "ddata", rows'[i].state = "live"
        PROVE  rows'[i].code = rows'[rows'[i].ref].name \/ {i, rows'[i].ref} \cap (moved' \cup raced') # {}
    <2>1. CASE i \in W
      <3>1. rows'[i] = p.put[i] /\ i \in DOMAIN p.put
        BY <2>1 DEF After
      <3>2. p.put[i].ref \in DOMAIN rows /\ p.put[i].ref.kind = "dtype" /\ rows[p.put[i].ref].state # "none"
        BY <1>3, <3>1 DEF Shaped, Leads, Above, Of
      <3>3. p.put[i].code = rows[p.put[i].ref].name \/ p.put[i].ref \in moved
        BY <1>3, <3>1 DEF Coded
      <3> QED
        BY <1>1, <1>2, <3>1, <3>2, <3>3
    <2>2. CASE i \notin W
      <3>1. rows'[i] = rows[i] /\ rows[i].state = "live"
        BY <1>3, <2>2 DEF After
      <3>2. rows[i].ref \in DOMAIN rows /\ rows[i].ref.kind = "dtype" /\ rows[rows[i].ref].state # "none"
        BY <1>3, <3>1 DEF Tables, Leads, Above, Of
      <3>3. rows[i].code = rows[rows[i].ref].name \/ {i, rows[i].ref} \cap (moved \cup raced) # {}
        BY <1>3, <3>1 DEF DictCoded, Live, Of
      <3> QED
        BY <1>1, <1>2, <3>1, <3>2, <3>3
    <2> QED
      BY <2>1, <2>2
  <1> QED
    BY <1>1, <1>3 DEF DictCoded, Live, Of

LEMMA TablesKept ==
    ASSUME Shape, Tables, NEW p, NEW W, NEW K, After(p, W, K), Shaped(p), ~Clash(rows')
    PROVE  Tables'
  <1>1. DOMAIN rows' = DOMAIN rows
    BY DEF After
  <1>2. \A r \in DOMAIN rows : rows[r].state # "none" \/ r \in W => rows'[r].state # "none"
    BY DEF After
  <1>3. ASSUME NEW i \in DOMAIN rows, NEW row, NEW new, Leads(i, row, new), rows'[i] = row,
               \A r \in new : r \in DOMAIN rows => rows'[r].state # "none"
        PROVE  (Leads(i, rows[i], {}))'
    <2>1. \/ row.ref \in UnderNoOne /\ i.kind # "ddata"
          \/ row.ref \in Of(Above(i.kind)) /\ rows'[row.ref].state # "none"
      BY <1>2, <1>3 DEF Leads, Of
    <2> QED
      <3>1. \A k : Of(k)' = Of(k)
        BY <1>1 DEF Of
      <3>2. Of(Above(i.kind))' = Of(Above(i.kind))
        BY <3>1
      <3> QED
        BY <1>3, <2>1, <3>2 DEF Leads, UnderNoOne
  <1>4. ASSUME NEW i \in DOMAIN rows, rows'[i].state = "live" PROVE (Leads(i, rows[i], {}))'
    <2>1. CASE i \in W
      <3>1. rows'[i] = p.put[i] /\ i \in DOMAIN p.put
        BY <2>1 DEF After
      <3>2. Leads(i, p.put[i], DOMAIN p.put)
        BY <3>1 DEF Shaped
      <3>3. \A r \in DOMAIN p.put : r \in DOMAIN rows => rows'[r].state # "none"
        BY <1>2 DEF After
      <3> QED
        BY <1>3, <3>1, <3>2, <3>3
    <2>2. CASE i \notin W
      <3>1. rows'[i] = rows[i] /\ rows[i].state = "live"
        BY <1>4, <2>2 DEF After
      <3>2. Leads(i, rows[i], {})
        BY <3>1 DEF Tables
      <3> QED
        BY <1>3, <3>1, <3>2
    <2> QED
      BY <2>1, <2>2
  <1>5. (~Clash(rows))'
    BY DEF Clash, KeyOf
  <1> QED
    BY <1>1, <1>4, <1>5 DEF Tables

LEMMA CommitStep ==
    ASSUME AdminInv, NEW t \in Requests, Commit(t) PROVE AdminInv'
  <1>1. PICK p : p = plan[t]
    OBVIOUS
  <1>2. PICK since : since = seen[t]
    OBVIOUS
  <1>3. PICK W : W = Written(p)
    OBVIOUS
  <1>4. PICK K : K = Killed(p)
    OBVIOUS
  <1>5. PICK C : C = Changes(p)
    OBVIOUS
  <1>6. PICK X : X = Overlaps(t)
    OBVIOUS
  <1>7. PICK late \in BOOLEAN :
          /\ ~Clash(RowsAfter(p)) /\ rows' = RowsAfter(p)
          /\ links' = LinksAfter(p, late, Selected(p, late))
          /\ raced' = raced \cup X
          /\ moved' = moved \cup Unchecked(p)
          /\ seen' = [u \in Requests |-> IF u = t \/ plan[u] = None THEN {} ELSE seen[u] \cup C]
    BY <1>1, <1>5, <1>6 DEF Commit
  <1>8. plan' = [plan EXCEPT ![t] = None] /\ surprise' = surprise
    BY DEF Commit, Done
  <1>9. Good(p, since) /\ Shape /\ Tables /\ RowsAssumption
    BY <1>1, <1>2 DEF AdminInv, Planned, Commit
  <1>10. Shaped(p) /\ Kept(p, since) /\ Free(p, since) /\ Coded(p)
    BY <1>9 DEF Good
  <1>11. After(p, W, K)
    BY <1>3, <1>4, <1>7, <1>9, <1>10, TablesAfter
  <1>12. Marked(p, W, K, C)
    <2>1. \A i \in W : i \in C /\ Mark(i, p.put[i].name) \in C /\ Mark(i, p.put[i].code) \in C
      <3>1. \A i \in W : Marks(i, p.put[i]) \subseteq C
        BY <1>3, <1>5 DEF Changes
      <3> QED
        BY <3>1 DEF Marks, Mark
    <2>2. K \subseteq C
      BY <1>4, <1>5 DEF Changes
    <2>3. \A i \in W : rows[i].state = "live" =>
            /\ (i.kind = "dtype" /\ p.put[i].name # rows[i].name) => i \in moved'
            /\ (i.kind = "menu" /\ p.put[i].code # rows[i].code) => i \in moved'
      BY <1>3, <1>7 DEF Unchecked
    <2> QED
      BY <1>7, <2>1, <2>2, <2>3 DEF Marked
  <1>13. Met(p, W, since, X)
    BY <1>1, <1>2, <1>3, <1>6, <1>9, <1>10, Overlapping
  <1>14. X \subseteq raced'
    BY <1>7
  <1>15. \A l \in links' : \/ /\ l \in links
                              /\ ~(l[2] \in p.kill /\ l[2].kind = "menu")
                              /\ ~(l[1] \in p.kill /\ l[1].kind = "user")
                           \/ \E j \in p.to : l = <<p.from, j>>
    BY <1>7 DEF LinksAfter, Selected
  <1>16. Tables'
    <2>1. ~Clash(rows')
      BY <1>7
    <2> QED
      BY <1>9, <1>10, <1>11, <2>1, TablesKept
  <1>17. Anchored'
    BY <1>9, <1>10, <1>11, <1>12, <1>13, <1>14, <1>15, AnchoredAfter DEF AdminInv
  <1>18. TitlesUnique'
    BY <1>9, <1>10, <1>11, <1>12, <1>13, <1>14, TitlesAfter DEF AdminInv
  <1>19. DictCoded'
    BY <1>9, <1>10, <1>11, <1>12, DictAfter DEF AdminInv
  <1>20. Shape'
    <2>1. DOMAIN rows' = DOMAIN rows /\ rows' = [i \in DOMAIN rows' |-> rows'[i]]
      BY <1>11 DEF After
    <2>2. (DOMAIN rows \cap UnderNoOne = {})' /\ (\A i \in DOMAIN rows : i.kind \in Kinds /\ IsRow(rows[i]))'
      BY <1>9, <1>11, <2>1 DEF Shape, After, UnderNoOne, IsRow
    <2>3. links' \subseteq (DOMAIN rows) \X (DOMAIN rows)
      <3>1. \A j \in p.to : <<p.from, j>> \in (DOMAIN rows) \X (DOMAIN rows)
        <4> SUFFICES ASSUME NEW j \in p.to PROVE p.from \in DOMAIN rows /\ j \in DOMAIN rows
          OBVIOUS
        <4> QED
          BY <1>10 DEF Shaped
      <3> QED
        BY <1>9, <1>15, <3>1 DEF Shape
    <2>4. plan' = [u \in Requests |-> plan'[u]] /\ seen' = [u \in Requests |-> seen'[u]]
      BY <1>7, <1>8, <1>9 DEF Shape
    <2> QED
      BY <2>1, <2>2, <2>3, <2>4 DEF Shape
  <1>21. ChecksSuffice' /\ RowsAssumption'
    BY <1>8 DEF AdminInv, ChecksSuffice, RowsAssumption
  <1>22. ASSUME NEW u \in Requests, plan'[u] # None, NEW q, NEW new, q = plan'[u], new = seen'[u]
         PROVE  Good(q, new)'
    <2>1. u # t /\ q = plan[u] /\ plan[u] # None
      BY <1>8, <1>9, <1>22 DEF Shape
    <2>2. new = seen[u] \cup C
      BY <1>7, <1>22, <2>1
    <2>3. PICK old : old = seen[u]
      OBVIOUS
    <2>4. Good(q, old)
      BY <2>1, <2>3 DEF AdminInv, Planned
    <2> QED
      BY <1>9, <1>11, <1>12, <2>2, <2>3, <2>4, OthersGood
  <1>23. Planned'
    BY <1>22 DEF Planned
  <1> QED
    BY <1>16, <1>17, <1>18, <1>19, <1>20, <1>21, <1>23 DEF AdminInv

-----------------------------------------------------------------------------
(* The theorems.                                                           *)

LEMMA StepInv == ASSUME AdminInv, [Next]_vars PROVE AdminInv'
  <1>1. CASE UNCHANGED vars
    <2>1. Shape' /\ Tables' /\ RowsAssumption'
      BY <1>1 DEF vars, AdminInv, Shape, Tables, UnderNoOne, IsRow, Leads, Of, RowsAssumption
    <2>2. Anchored' /\ TitlesUnique' /\ DictCoded' /\ ChecksSuffice'
      BY <1>1 DEF vars, AdminInv, Anchored, TitlesUnique, DictCoded, ChecksSuffice, Live, Of
    <2>3. ASSUME NEW q, NEW s, Good(q, s) PROVE Good(q, s)'
      <3>1. Shaped(q)'
        BY <1>1, <2>3 DEF vars, Good, Shaped, Leads, Of
      <3>2. Kept(q, s)' /\ Free(q, s)' /\ Coded(q)'
        BY <1>1, <2>3 DEF vars, Good, Kept, Free, Coded, Live, Of
      <3> QED
        BY <3>1, <3>2 DEF Good
    <2>4. ASSUME NEW u \in Requests, plan'[u] # None, NEW q, NEW s, q = plan'[u], s = seen'[u]
          PROVE  Good(q, s)'
      BY <1>1, <2>3, <2>4 DEF vars, AdminInv, Planned
    <2>5. Planned'
      BY <2>4 DEF Planned
    <2> QED
      BY <2>1, <2>2, <2>5 DEF AdminInv
  <1>2. CASE Next
    <2>1. PICK t \in Requests :
        \/ CreateDept(t) \/ UpdateDept(t) \/ DeleteDept(t)
        \/ CreateMenu(t) \/ UpdateMenu(t) \/ DeleteMenu(t)
        \/ CreateRole(t) \/ UpdateRole(t) \/ UpdateRoleMenu(t) \/ UpdateRoleScope(t) \/ DeleteRoles(t)
        \/ CreateScope(t) \/ UpdateScope(t) \/ UpdateScopeRules(t) \/ DeleteScopes(t)
        \/ CreateRule(t) \/ UpdateRule(t) \/ DeleteRules(t)
        \/ CreateUser(t) \/ UpdateUser(t) \/ DeleteUser(t) \/ AddByOauth2(t)
        \/ CreateDictType(t) \/ UpdateDictType(t) \/ DeleteDictTypes(t)
        \/ CreateDictData(t) \/ UpdateDictData(t) \/ DeleteDictData(t)
        \/ CreateConfig(t) \/ UpdateConfig(t) \/ BulkUpdateConfig(t) \/ DeleteConfigs(t)
        \/ CreateBusiness(t) \/ UpdateBusiness(t) \/ DeleteBusiness(t) \/ ImportBusiness(t)
        \/ CreateColumn(t) \/ UpdateColumn(t) \/ DeleteColumn(t)
        \/ Commit(t) \/ RollBack(t)
      BY <1>2 DEF Next
    <2>2. CASE Commit(t) \/ RollBack(t)
      BY <2>2, CommitStep, RollBackStep
    <2>3. CASE CreateDept(t) \/ UpdateDept(t) \/ CreateMenu(t) \/ UpdateMenu(t)
      BY <2>3, DeptRows, MenuRows
    <2>4. CASE CreateUser(t) \/ UpdateUser(t) \/ AddByOauth2(t)
      BY <2>4, UserRows
    <2>5. CASE \/ CreateRole(t) \/ UpdateRole(t) \/ CreateScope(t) \/ UpdateScope(t) \/ CreateRule(t)
               \/ UpdateRule(t) \/ CreateDictType(t) \/ UpdateDictType(t) \/ CreateConfig(t) \/ UpdateConfig(t)
               \/ CreateBusiness(t) \/ UpdateBusiness(t)
      BY <2>5, PlainRows
    <2>6. CASE \/ DeleteDept(t) \/ DeleteMenu(t) \/ DeleteRoles(t) \/ DeleteScopes(t) \/ DeleteRules(t)
               \/ DeleteUser(t) \/ DeleteDictTypes(t) \/ DeleteDictData(t) \/ DeleteConfigs(t)
               \/ DeleteBusiness(t) \/ DeleteColumn(t)
      BY <2>6, KilledRows
    <2>7. CASE UpdateRoleMenu(t) \/ UpdateRoleScope(t) \/ UpdateScopeRules(t)
      BY <2>7, Relinked
    <2>8. CASE CreateDictData(t) \/ UpdateDictData(t) \/ CreateColumn(t) \/ UpdateColumn(t)
      BY <2>8, DataRows, ColumnRows
    <2>9. CASE BulkUpdateConfig(t) \/ ImportBusiness(t)
      BY <2>9, BulkRows, ImportRows
    <2> QED
      BY <2>1, <2>2, <2>3, <2>4, <2>5, <2>6, <2>7, <2>8, <2>9
  <1> QED
    BY <1>1, <1>2

\* From tables in order, the invariant holds of every state.
THEOREM RowsInv == RowsAssumption /\ Spec => []AdminInv
  <1>1. RowsAssumption /\ Init => AdminInv
    BY InitInv
  <1>2. AdminInv /\ [Next]_vars => AdminInv'
    BY StepInv
  <1> QED
    BY <1>1, <1>2, PTL DEF Spec

\* Departments, parents, dictionary types and links stay among live rows, but
\* for what overlapping requests did.
THEOREM RowsAnchored == RowsAssumption /\ Spec => []Anchored
  <1>1. AdminInv => Anchored
    BY DEF AdminInv
  <1> QED
    BY <1>1, RowsInv, PTL

\* The look-ups of a request alone answer for every unique key, and for the
\* titles and codes that no unique key stands behind.
THEOREM RowsChecksSuffice == RowsAssumption /\ Spec => [](ChecksSuffice /\ TitlesUnique /\ DictCoded)
  <1>1. AdminInv => ChecksSuffice /\ TitlesUnique /\ DictCoded
    BY DEF AdminInv
  <1> QED
    BY <1>1, RowsInv, PTL

=============================================================================
