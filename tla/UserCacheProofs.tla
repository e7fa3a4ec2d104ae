--------------------------- MODULE UserCacheProofs ---------------------------
(***************************************************************************)
(* Proofs about UserCache, for all tables, links, writes and requests: a   *)
(* cached record is stale only if its reader ran during a write, or after  *)
(* a write whose service clears nobody.                                    *)
(***************************************************************************)
EXTENDS UserCache, TLAPS

Databases == [state: [Entities -> {"on", "off", "deleted"}], links: SUBSET Pairs]

-----------------------------------------------------------------------------
(* What the record of a user depends on.                                   *)

\* The rows the record of u is made of: u, his department, and what links lead
\* to from u.
Below(d, u) == Tails(d.links, {u}) \cup Tails(d.links, Tails(d.links, {u}))
Cone(d, u) == {u, DeptOf[u]} \cup Below(d, u) \cup Tails(d.links, Below(d, u))

\* Rows of different tables are different.
LEMMA Disjoint ==
    /\ Users \cap Depts = {} /\ Users \cap Roles = {} /\ Users \cap Menus = {}
    /\ Users \cap Scopes = {} /\ Users \cap Rules = {} /\ Depts \cap Roles = {}
    /\ Depts \cap Menus = {} /\ Depts \cap Scopes = {} /\ Depts \cap Rules = {}
    /\ Roles \cap Menus = {} /\ Roles \cap Scopes = {} /\ Roles \cap Rules = {}
    /\ Menus \cap Scopes = {} /\ Menus \cap Rules = {} /\ Scopes \cap Rules = {}
  <1> DEFINE tables == <<Users, Depts, Roles, Menus, Scopes, Rules>>
  <1>1. \A i, j \in 1..6 : i # j => tables[i] \cap tables[j] = {}
    BY UserCacheAssumption
  <1> HIDE DEF tables
  <1>2. /\ tables[1] = Users /\ tables[2] = Depts /\ tables[3] = Roles
        /\ tables[4] = Menus /\ tables[5] = Scopes /\ tables[6] = Rules
    BY DEF tables
  <1>3. /\ 1 \in 1..6 /\ 2 \in 1..6 /\ 3 \in 1..6 /\ 4 \in 1..6 /\ 5 \in 1..6 /\ 6 \in 1..6
    OBVIOUS
  <1> QED
    BY <1>1, <1>2, <1>3

\* Links lead from users to roles, from roles to menus and scopes, and from
\* scopes to rules.
LEMMA Levels ==
    ASSUME NEW d \in Databases, NEW u \in Users
    PROVE  /\ Tails(d.links, {u}) \subseteq Roles
           /\ Tails(d.links, Tails(d.links, {u})) \subseteq Menus \cup Scopes
           /\ Tails(d.links, Tails(d.links, Tails(d.links, {u}))) \subseteq Rules
  <1>1. \A e, x : <<e, x>> \in d.links => \/ e \in Users /\ x \in Roles
                                          \/ e \in Roles /\ x \in Menus \cup Scopes
                                          \/ e \in Scopes /\ x \in Rules
    BY DEF Databases, Pairs
  <1>2. Tails(d.links, {u}) \subseteq Roles
    BY <1>1, Disjoint DEF Tails
  <1>3. Tails(d.links, Tails(d.links, {u})) \subseteq Menus \cup Scopes
    BY <1>1, <1>2, Disjoint DEF Tails
  <1>4. Tails(d.links, Tails(d.links, Tails(d.links, {u}))) \subseteq Rules
    BY <1>1, <1>3, Disjoint DEF Tails
  <1> QED
    BY <1>2, <1>3, <1>4

\* A change of a row outside the cone leaves the rows of the cone as they are, and
\* the links from them.
LEMMA Outside ==
    ASSUME NEW d \in Databases, NEW c \in Changes, NEW u \in Users, c.on \notin Cone(d, u)
    PROVE  /\ \A x \in Cone(d, u) : Apply(d, c).state[x] = d.state[x]
           /\ \A e \in {u} \cup Below(d, u), x \in Entities :
                 <<e, x>> \in Apply(d, c).links <=> <<e, x>> \in d.links
  <1>1. /\ c.on \in Entities /\ c.kind \in {"status", "delete", "links"}
    BY DEF Changes, Entities
  <1>2. \A e \in {u} \cup Below(d, u), x \in Entities : <<e, x>> \in d.links => x \in Cone(d, u)
    BY DEF Cone, Below, Tails
  <1>3. {u} \cup Below(d, u) \subseteq Cone(d, u)
    BY DEF Cone
  <1>4. CASE c.kind = "status"
    <2>1. Apply(d, c) = [d EXCEPT !.state[c.on] = IF @ = "on" THEN "off" ELSE "on"]
      BY <1>4 DEF Apply
    <2>2. /\ Apply(d, c).links = d.links
          /\ Apply(d, c).state = [d.state EXCEPT ![c.on] = IF d.state[c.on] = "on" THEN "off" ELSE "on"]
      BY <2>1 DEF Databases
    <2> QED
      BY <1>1, <2>2 DEF Databases
  <1>5. CASE c.kind = "delete"
    <2>1. Apply(d, c) = [state |-> [d.state EXCEPT ![c.on] = "deleted"],
                         links |-> {l \in d.links : /\ c.on \in Menus => l[2] # c.on
                                                    /\ c.on \in Users => l[1] # c.on}]
      BY <1>5 DEF Apply
    <2>2. \A e \in {u} \cup Below(d, u), x \in Entities :
             <<e, x>> \in Apply(d, c).links <=> <<e, x>> \in d.links
      <3>1. \A e \in {u} \cup Below(d, u), x \in Entities : <<e, x>> \in d.links => e # c.on /\ x # c.on
        BY <1>2, <1>3
      <3>2. Apply(d, c).links = {l \in d.links : /\ c.on \in Menus => l[2] # c.on
                                                 /\ c.on \in Users => l[1] # c.on}
        BY <2>1
      <3>3. \A e, x : <<e, x>>[1] = e /\ <<e, x>>[2] = x
        OBVIOUS
      <3> QED
        BY <3>1, <3>2, <3>3, Zenon
    <2>3. \A x \in Cone(d, u) : Apply(d, c).state[x] = d.state[x]
      BY <1>1, <2>1 DEF Databases
    <2> QED
      BY <2>2, <2>3
  <1>6. CASE c.kind = "links"
    <2>1. Apply(d, c) = [d EXCEPT !.links = {l \in @ : l[1] # c.on} \cup {<<c.on, x>> : x \in c.to}]
      BY <1>6 DEF Apply
    <2>2. /\ Apply(d, c).state = d.state
          /\ Apply(d, c).links = {l \in d.links : l[1] # c.on} \cup {<<c.on, x>> : x \in c.to}
      BY <2>1 DEF Databases
    <2> QED
      BY <1>3, <2>2
  <1> QED
    BY <1>1, <1>4, <1>5, <1>6

\* So it leaves what the record grants, whether the user is available, and the
\* cone itself.
LEMMA Unaffected ==
    ASSUME NEW d \in Databases, NEW c \in Changes, NEW u \in Users, c.on \notin Cone(d, u)
    PROVE  /\ Grants(Apply(d, c), u) = Grants(d, u)
           /\ Available(Apply(d, c), u) <=> Available(d, u)
           /\ Cone(Apply(d, c), u) = Cone(d, u)
  <1> DEFINE f == Apply(d, c)
             one == Tails(d.links, {u})
             two == Tails(d.links, one)
  <1>1. /\ \A x \in Cone(d, u) : f.state[x] = d.state[x]
        /\ \A e \in {u} \cup Below(d, u), x \in Entities : <<e, x>> \in f.links <=> <<e, x>> \in d.links
    BY Outside
  <1> HIDE DEF f
  <1>2. \A S \in SUBSET ({u} \cup Below(d, u)) : Tails(f.links, S) = Tails(d.links, S)
    BY <1>1 DEF Tails
  <1>3. one \subseteq Below(d, u) /\ two \subseteq Below(d, u)
    BY DEF Below
  <1>4. Tails(f.links, {u}) = one /\ Tails(f.links, one) = two
    BY <1>2, <1>3
  <1>5. \A S \in SUBSET Cone(d, u) : On(f, S) = On(d, S)
    BY <1>1 DEF On
  <1>6. Below(f, u) = Below(d, u)
    BY <1>4 DEF Below
  <1>7. Cone(f, u) = Cone(d, u)
    BY <1>2, <1>6 DEF Cone
  <1>8. one \subseteq Cone(d, u) /\ two \subseteq Cone(d, u) /\ u \in Cone(d, u) /\ DeptOf[u] \in Cone(d, u)
    BY <1>3 DEF Cone
  <1>9. Available(f, u) <=> Available(d, u)
    <2>1. \A r \in one : f.state[r] = d.state[r]
      BY <1>1, <1>8
    <2>2. f.state[u] = d.state[u] /\ f.state[DeptOf[u]] = d.state[DeptOf[u]]
      BY <1>1, <1>8
    <2> QED
      BY <1>4, <2>1, <2>2 DEF Available
  <1>10. Grants(f, u) = Grants(d, u)
    <2> DEFINE roles == On(d, one)
               below == On(d, Tails(d.links, roles))
    <2>1. roles \subseteq one
      BY DEF On
    <2>2. On(f, one) = roles /\ Tails(f.links, roles) = Tails(d.links, roles)
      BY <1>2, <1>3, <1>5, <1>8, <2>1
    <2>3. Tails(d.links, roles) \subseteq two
      BY <2>1 DEF Tails
    <2>4. On(f, Tails(f.links, roles)) = below /\ below \subseteq two
      BY <1>5, <1>8, <2>2, <2>3 DEF On
    <2>5. below \cap Scopes \subseteq Below(d, u)
      BY <1>3, <2>4
    <2>6. Tails(f.links, below \cap Scopes) = Tails(d.links, below \cap Scopes)
      BY <1>2, <2>5
    <2>7. Tails(d.links, below \cap Scopes) \subseteq Cone(d, u)
      BY <2>5 DEF Tails, Cone
    <2>8. On(f, Tails(f.links, below \cap Scopes)) = On(d, Tails(d.links, below \cap Scopes))
      BY <1>5, <2>6, <2>7
    <2>9. Grants(d, u) = roles \cup below \cup On(d, Tails(d.links, below \cap Scopes))
      BY DEF Grants
    <2>10. Grants(f, u) = roles \cup below \cup On(d, Tails(d.links, below \cap Scopes))
      BY <1>4, <2>2, <2>4, <2>8 DEF Grants
    <2> QED
      BY <2>9, <2>10
  <1> QED
    BY <1>7, <1>9, <1>10 DEF f

\* The service of a row of the cone clears the user, unless it clears nobody.
LEMMA ConeCleared ==
    ASSUME NEW d \in Databases, NEW c \in Changes, NEW u \in Users,
           c.on \in Cone(d, u), ~ClearsNobody(c)
    PROVE  u \in Cleared(Apply(d, c), c.on)
  <1> DEFINE x == c.on
             f == Apply(d, c)
             one == Tails(d.links, {u})
             two == Tails(d.links, one)
             three == Tails(d.links, two)
  <1>1. one \subseteq Roles /\ two \subseteq Menus \cup Scopes /\ three \subseteq Rules
    BY Levels
  <1>2. x \notin Depts /\ x \in {u} \cup one \cup two \cup three
    <2>1. Tails(d.links, Below(d, u)) = two \cup three
      BY DEF Below, Tails
    <2> QED
      BY <2>1, UserCacheAssumption DEF Cone, Below, ClearsNobody
  <1>3. c.kind \in {"status", "delete", "links"} /\ u \in Entities /\ DeptOf[u] \in Depts
    BY UserCacheAssumption DEF Changes, Entities
  \* The links of other rows stay.
  <1>4. ASSUME x \notin Users, NEW e \in Entities \ {x}, NEW y \in Entities, <<e, y>> \in d.links
        PROVE  <<e, y>> \in f.links
    <2>1. CASE c.kind = "status"
      BY <1>4, <2>1 DEF Apply, Databases
    <2>2. CASE c.kind = "delete"
      <3>1. x \notin Menus
        BY <2>2 DEF ClearsNobody
      <3> QED
        BY <1>4, <2>2, <3>1 DEF Apply
    <2>3. CASE c.kind = "links"
      BY <1>4, <2>3 DEF Apply, Databases
    <2> QED
      BY <1>3, <2>1, <2>2, <2>3
  <1> HIDE DEF f
  <1>5. CASE x = u
    <2>1. Cleared(f, x) = {x}
      BY <1>5, Disjoint DEF Cleared
    <2> QED
      BY <1>5, <2>1 DEF f
  <1>6. CASE x \in one
    <2>1. <<u, x>> \in d.links /\ x \in Entities /\ x # u /\ x \in Roles /\ x \notin Users
      BY <1>1, <1>6, Disjoint DEF Tails
    <2>2. u \in Heads(f.links, {x})
      BY <1>3, <1>4, <2>1 DEF Heads
    <2>3. Cleared(f, x) = Heads(f.links, {x})
      BY <2>1, Disjoint DEF Cleared
    <2> QED
      BY <2>2, <2>3 DEF f
  <1>7. CASE x \in two
    <2>1. PICK r \in one : <<r, x>> \in d.links
      BY <1>7 DEF Tails
    <2>2. <<u, r>> \in d.links /\ r \in Entities /\ r \in Roles /\ x \in Entities
      BY <1>1, <1>7, <2>1 DEF Tails
    <2>3. x \in Menus \cup Scopes /\ x \notin Users /\ x \notin Roles /\ x # u /\ x # r
      BY <1>1, <1>7, <2>2, Disjoint
    <2>4. r \in Heads(f.links, {x})
      BY <1>4, <2>1, <2>2, <2>3 DEF Heads
    <2>5. u \in Heads(f.links, Heads(f.links, {x}))
      BY <1>3, <1>4, <2>2, <2>3, <2>4 DEF Heads
    <2>6. Cleared(f, x) = Heads(f.links, Heads(f.links, {x}))
      BY <2>3, Disjoint DEF Cleared
    <2> QED
      BY <2>5, <2>6 DEF f
  <1>8. CASE x \in three
    <2>1. PICK s \in two : <<s, x>> \in d.links
      BY <1>8 DEF Tails
    <2>2. PICK r \in one : <<r, s>> \in d.links
      BY DEF Tails
    <2>3. <<u, r>> \in d.links /\ {r, s, x} \subseteq Entities /\ r \in Roles /\ s \in Menus \cup Scopes /\ x \in Rules
      BY <1>1, <1>8, <2>1, <2>2 DEF Tails
    <2>4. x \notin Users \cup Roles \cup Menus \cup Scopes /\ x # u /\ x # r /\ x # s
      BY <2>3, Disjoint
    <2>5. s \in Heads(f.links, {x})
      BY <1>4, <2>1, <2>3, <2>4 DEF Heads
    <2>6. r \in Heads(f.links, Heads(f.links, {x}))
      BY <1>4, <2>2, <2>3, <2>4, <2>5 DEF Heads
    <2>7. u \in Heads(f.links, Heads(f.links, Heads(f.links, {x})))
      BY <1>3, <1>4, <2>3, <2>4, <2>6 DEF Heads
    <2>8. Cleared(f, x) = Heads(f.links, Heads(f.links, Heads(f.links, {x})))
      BY <2>3, <2>4, Disjoint DEF Cleared
    <2> QED
      BY <2>7, <2>8 DEF f
  <1> QED
    BY <1>2, <1>5, <1>6, <1>7, <1>8

\* A change gives a database again.
Sound(c) == c \in Changes /\ \A x \in c.to : <<c.on, x>> \in Pairs

LEMMA ApplyType == ASSUME NEW d \in Databases, NEW c, Sound(c) PROVE Apply(d, c) \in Databases
  <1>1. c.on \in Entities /\ c.kind \in {"status", "delete", "links"}
    BY DEF Sound, Changes, Entities
  <1>2. CASE c.kind = "status"
    <2>1. Apply(d, c) = [d EXCEPT !.state[c.on] = IF @ = "on" THEN "off" ELSE "on"]
      BY <1>2 DEF Apply
    <2> QED
      BY <1>1, <2>1 DEF Databases
  <1>3. CASE c.kind = "delete"
    <2>1. Apply(d, c) = [state |-> [d.state EXCEPT ![c.on] = "deleted"],
                         links |-> {l \in d.links : /\ c.on \in Menus => l[2] # c.on
                                                    /\ c.on \in Users => l[1] # c.on}]
      BY <1>3 DEF Apply
    <2> QED
      BY <1>1, <2>1 DEF Databases
  <1>4. CASE c.kind = "links"
    <2>1. Apply(d, c) = [d EXCEPT !.links = {l \in @ : l[1] # c.on} \cup {<<c.on, x>> : x \in c.to}]
      BY <1>4 DEF Apply
    <2> QED
      BY <1>1, <2>1 DEF Databases, Sound
  <1> QED
    BY <1>1, <1>2, <1>3, <1>4

\* A record that was read has the type of a record.
LEMMA GrantsType ==
    ASSUME NEW d \in Databases, NEW u \in Users
    PROVE  Grants(d, u) \subseteq Entities \ (Users \cup Depts)
  <1> DEFINE roles == On(d, Tails(d.links, {u}))
             below == On(d, Tails(d.links, roles))
             rules == On(d, Tails(d.links, below \cap Scopes))
  <1>1. Grants(d, u) = roles \cup below \cup rules
    BY DEF Grants
  <1>2. roles \subseteq Tails(d.links, {u})
    BY DEF On
  <1>3. below \subseteq Tails(d.links, Tails(d.links, {u}))
    BY <1>2 DEF On, Tails
  <1>4. rules \subseteq Tails(d.links, Tails(d.links, Tails(d.links, {u})))
    BY <1>3 DEF On, Tails
  <1>5. Grants(d, u) \subseteq Roles \cup Menus \cup Scopes \cup Rules
    <2> HIDE DEF roles, below, rules
    <2> QED
      BY <1>1, <1>2, <1>3, <1>4, Levels
  <1> QED
    BY <1>5, Disjoint DEF Entities

-----------------------------------------------------------------------------
(* The invariant.                                                          *)

\* What is known of each write, each request and each cached record from where
\* they are.
Known ==
    /\ \A w \in Writes : wpc[w] # "idle" => Sound(change[w])
    /\ \A w \in Writes : \A r \in readBefore[w] : rpc[r] \in {"done", "denied"} /\ wpc[w] # "idle"
    /\ \A r \in Requests : \A w \in wrote[r] : wpc[w] = "done"
    /\ \A r \in Requests : rpc[r] \in {"get", "read", "set"} => user[r] \in Users
    /\ \A r \in Requests : rpc[r] = "set" => record[r] \in Records /\ record[r].by = r
    /\ \A u \in Users : cache[u] # None => cache[u] \in Records /\ rpc[cache[u].by] = "done"

\* What CacheFresh allows: a write that ran with the reader, or cleared nobody.
Excused(r) == \E w \in Writes : wpc[w] = "done" /\ (Overlap(r, w) \/ ClearsNobody(change[w]))

Exact(rec, u) == rec.grants = Grants(db, u) /\ Available(db, u)

\* A write that has cleared its users, and began after the reader had ended, is
\* about to change nothing this record depends on.
Spared(r, u) ==
    \A w \in Writes : wpc[w] = "commit" /\ r \in readBefore[w] =>
        ClearsNobody(change[w]) \/ change[w].on \notin Cone(db, u)

Right(rec, r, u) == Excused(r) \/ (Exact(rec, u) /\ Spared(r, u))

\* Of the records in the cache, and of those that are about to go there.
AllRight ==
    /\ \A u \in Users : cache[u] # None => Right(cache[u], cache[u].by, u)
    /\ \A r \in Requests : rpc[r] = "set" => Right(record[r], r, user[r])

IInv == TypeOK /\ Known /\ AllRight

-----------------------------------------------------------------------------

LEMMA InitInv == Init => IInv
  <1> SUFFICES ASSUME Init PROVE IInv
    OBVIOUS
  <1>1. InitialDb \in Databases
    BY DEF InitialDb, Databases
  <1>2. TypeOK
    BY <1>1 DEF Init, TypeOK, Databases
  <1>3. Known /\ AllRight
    BY DEF Init, Known, AllRight
  <1> QED
    BY <1>2, <1>3 DEF IInv

\* What a request's step leaves alone of the others.
LEMMA GoesOthers ==
    ASSUME TypeOK, NEW r \in Requests, NEW to, rpc' = [rpc EXCEPT ![r] = to]
    PROVE  rpc'[r] = to /\ \A q \in Requests \ {r} : rpc'[q] = rpc[q]
  BY DEF TypeOK

\* The types and what is known.
LEMMA NextKnown == ASSUME TypeOK, Known, Next PROVE TypeOK' /\ Known'
  <1>1. ASSUME NEW w \in Writes, Write(w) PROVE TypeOK' /\ Known'
    <2>1. PICK c \in Changes : Legal(c) /\ change' = [change EXCEPT ![w] = c]
      BY <1>1 DEF Write
    <2>2. Sound(c)
      <3>1. c.kind = "links" => \A x \in c.to : <<c.on, x>> \in Pairs
        BY <2>1 DEF Legal, LinksKnown
      <3>2. c.kind # "links" => c.to = {}
        BY DEF Changes
      <3> QED
        BY <3>1, <3>2 DEF Sound
    <2>3. \A v \in Writes : change'[v] = IF v = w THEN c ELSE change[v]
      BY <2>1 DEF TypeOK
    <2>4. \A v \in Writes : wpc'[v] = IF v = w THEN "clear" ELSE wpc[v]
      BY <1>1 DEF Write, TypeOK
    <2>5. /\ readBefore'[w] = {r \in Requests : rpc[r] \in {"done", "denied"}}
          /\ \A v \in Writes \ {w} : readBefore'[v] = readBefore[v]
      BY <1>1 DEF Write, TypeOK
    <2>6. wpc[w] = "idle" /\ UNCHANGED <<db, cache, rpc, user, record, wrote>>
      BY <1>1 DEF Write
    <2>7. TypeOK'
      BY <1>1, <2>1 DEF TypeOK, Write
    <2>8. \A r \in Requests : \A v \in wrote[r] : v \in Writes
      BY DEF TypeOK
    <2>9. Known'
      BY <2>2, <2>3, <2>4, <2>5, <2>6, <2>8 DEF Known
    <2> QED
      BY <2>7, <2>9
  <1>2. ASSUME NEW w \in Writes, Clear(w) PROVE TypeOK' /\ Known'
    <2>1. \A u \in Users : cache'[u] \in {cache[u], None}
      BY <1>2 DEF Clear
    <2>2. cache' \in [Users -> Records \cup {None}]
      BY <1>2 DEF Clear, TypeOK
    <2>3. \A v \in Writes : wpc'[v] # "idle" <=> wpc[v] # "idle"
      BY <1>2 DEF Clear, TypeOK
    <2>4. \A v \in Writes : wpc[v] = "done" => wpc'[v] = "done"
      BY <1>2 DEF Clear, TypeOK
    <2>5. UNCHANGED <<db, change, rpc, user, record, wrote, readBefore>>
      BY <1>2 DEF Clear
    <2>6. TypeOK'
      BY <1>2, <2>2, <2>5 DEF TypeOK, Clear
    <2>7. Known'
      BY <2>1, <2>3, <2>4, <2>5 DEF Known, TypeOK
    <2> QED
      BY <2>6, <2>7
  <1>3. ASSUME NEW w \in Writes, Commit(w) \/ Rollback(w) PROVE TypeOK' /\ Known'
    <2>1. \A v \in Writes : wpc'[v] # "idle" <=> wpc[v] # "idle"
      BY <1>3 DEF Commit, Rollback, InFlight, TypeOK
    <2>2. \A v \in Writes : wpc[v] = "done" => wpc'[v] = "done"
      BY <1>3 DEF Commit, Rollback, InFlight, TypeOK
    <2>3. UNCHANGED <<cache, change, rpc, user, record, wrote, readBefore>>
      BY <1>3 DEF Commit, Rollback
    <2>4. db' \in Databases
      <3>1. CASE Commit(w)
        BY <3>1, ApplyType DEF Commit, Known, TypeOK, Databases
      <3>2. CASE Rollback(w)
        BY <3>2 DEF Rollback, TypeOK, Databases
      <3> QED
        BY <1>3, <3>1, <3>2
    <2>5. wpc' \in [Writes -> {"idle", "clear", "commit", "done", "rolledback"}]
      BY <1>3 DEF Commit, Rollback, TypeOK
    <2>6. TypeOK'
      BY <2>3, <2>4, <2>5 DEF TypeOK, Databases
    <2>7. Known'
      BY <2>1, <2>2, <2>3 DEF Known, TypeOK
    <2> QED
      BY <2>6, <2>7
  <1>4. ASSUME NEW r \in Requests, Arrive(r) PROVE TypeOK' /\ Known'
    <2>1. PICK u \in Users : user' = [user EXCEPT ![r] = u]
      BY <1>4 DEF Arrive
    <2>2. /\ rpc'[r] = "get" /\ \A q \in Requests \ {r} : rpc'[q] = rpc[q]
          /\ rpc[r] = "idle"
      BY <1>4 DEF Arrive, TypeOK
    <2>3. user'[r] \in Users /\ \A q \in Requests \ {r} : user'[q] = user[q]
      BY <2>1 DEF TypeOK
    <2>4. \A q \in Requests : wrote'[q] = IF q = r THEN {w \in Writes : wpc[w] = "done"} ELSE wrote[q]
      BY <1>4 DEF Arrive, TypeOK
    <2>5. UNCHANGED <<db, cache, wpc, change, record, readBefore>>
      BY <1>4 DEF Arrive
    <2>6. TypeOK'
      <3>1. user' \in [Requests -> Users \cup {None}]
        BY <2>1 DEF TypeOK
      <3>2. wrote' \in [Requests -> SUBSET Writes] /\ rpc' \in [Requests -> {"idle", "get", "read", "set", "done", "denied"}]
        BY <1>4 DEF TypeOK, Arrive
      <3> QED
        BY <2>5, <3>1, <3>2 DEF TypeOK
    <2>7. \A q \in Requests : rpc[q] \in {"done", "denied"} => rpc'[q] = rpc[q]
      BY <2>2
    <2>8. \A v \in Writes : readBefore[v] \subseteq Requests
      BY DEF TypeOK
    <2>9. \A v \in Users : cache[v] # None => cache[v].by \in Requests
      BY DEF Known, Records
    <2>10. \A q \in Requests : \A w \in wrote'[q] : wpc[w] = "done"
      <3>1. \A w \in wrote'[r] : wpc[w] = "done"
        BY <2>4
      <3>2. \A q \in Requests \ {r} : wrote'[q] = wrote[q]
        BY <2>4
      <3> QED
        BY <3>1, <3>2 DEF Known
    <2>11. \A q \in Requests : rpc'[q] \in {"get", "read", "set"} => user'[q] \in Users
      BY <2>2, <2>3 DEF Known
    <2>12. \A q \in Requests : rpc'[q] = "set" => record[q] \in Records /\ record[q].by = q
      BY <2>2 DEF Known
    <2>13. /\ \A w \in Writes : \A q \in readBefore[w] : rpc'[q] \in {"done", "denied"} /\ wpc[w] # "idle"
           /\ \A v \in Users : cache[v] # None => cache[v] \in Records /\ rpc'[cache[v].by] = "done"
      BY <2>7, <2>8, <2>9 DEF Known
    <2>14. Known'
      BY <2>5, <2>10, <2>11, <2>12, <2>13 DEF Known
    <2> QED
      BY <2>6, <2>14
  <1>5. ASSUME NEW r \in Requests, GetHit(r) \/ GetMiss(r) \/ Read(r) \/ Deny(r)
        PROVE  TypeOK' /\ Known'
    <2>1. UNCHANGED <<db, cache, wpc, change, user, wrote, readBefore>>
      BY <1>5 DEF GetHit, GetMiss, Read, Deny
    <2>2. user[r] \in Users
      BY <1>5 DEF GetHit, GetMiss, Read, Deny, Known
    <2>3. /\ rpc[r] \in {"get", "read"} /\ rpc'[r] \in {"done", "read", "set", "denied"}
          /\ \A q \in Requests \ {r} : rpc'[q] = rpc[q]
      BY <1>5 DEF GetHit, GetMiss, Read, Deny, TypeOK
    <2>4. \A q \in Requests \ {r} : record'[q] = record[q]
      BY <1>5 DEF GetHit, GetMiss, Read, Deny, TypeOK
    <2>5. [user |-> user[r], grants |-> Grants(db, user[r]), by |-> r] \in Records
      BY <2>2, GrantsType DEF Records, TypeOK, Databases
    <2>6. rpc'[r] = "set" => record'[r] \in Records /\ record'[r].by = r
      BY <1>5, <2>5 DEF GetHit, GetMiss, Read, Deny, TypeOK
    <2>7. record' \in [Requests -> Records \cup {None}]
      BY <1>5, <2>2, <2>5 DEF GetHit, GetMiss, Read, Deny, TypeOK
    <2>8. rpc' \in [Requests -> {"idle", "get", "read", "set", "done", "denied"}]
      BY <1>5 DEF GetHit, GetMiss, Read, Deny, TypeOK
    <2>9. TypeOK'
      BY <2>1, <2>7, <2>8 DEF TypeOK
    <2>10. \A q \in Requests : rpc[q] \in {"done", "denied"} => rpc'[q] = rpc[q]
      BY <2>3
    <2>11. \A v \in Writes : readBefore[v] \subseteq Requests
      BY DEF TypeOK
    <2>12. \A v \in Users : cache[v] # None => cache[v].by \in Requests
      BY DEF Known, Records
    <2>13. Known'
      BY <2>1, <2>2, <2>3, <2>4, <2>6, <2>10, <2>11, <2>12 DEF Known
    <2> QED
      BY <2>9, <2>13
  <1>6. ASSUME NEW r \in Requests, Set(r) PROVE TypeOK' /\ Known'
    <2>1. user[r] \in Users /\ record[r] \in Records /\ record[r].by = r
      BY <1>6 DEF Set, Known
    <2>2. \A v \in Users : cache'[v] = IF v = user[r] THEN record[r] ELSE cache[v]
      BY <1>6 DEF Set, TypeOK
    <2>3. rpc[r] = "set" /\ rpc'[r] = "done" /\ \A q \in Requests \ {r} : rpc'[q] = rpc[q]
      BY <1>6 DEF Set, TypeOK
    <2>4. UNCHANGED <<db, wpc, change, user, record, wrote, readBefore>>
      BY <1>6 DEF Set
    <2>5. TypeOK'
      BY <1>6, <2>1 DEF TypeOK, Set
    <2>6. \A v \in Writes : readBefore[v] \subseteq Requests
      BY DEF TypeOK
    <2>7. \A v \in Users : cache[v] # None => cache[v].by \in Requests
      BY DEF Known, Records
    <2>8. Known'
      BY <2>1, <2>2, <2>3, <2>4, <2>6, <2>7 DEF Known
    <2> QED
      BY <2>5, <2>8
  <1>7. ASSUME NEW u \in Users, Expire(u) PROVE TypeOK' /\ Known'
    BY <1>7 DEF Expire, TypeOK, Known
  <1> QED
    BY <1>1, <1>2, <1>3, <1>4, <1>5, <1>6, <1>7 DEF Next

-----------------------------------------------------------------------------
(* Cached records are right, or excused.                                   *)

\* What excuses a reader goes on excusing it.
LEMMA ExcusedStays ==
    ASSUME TypeOK, Known, Next, NEW r \in Requests, rpc[r] # "idle", Excused(r)
    PROVE  Excused(r)'
  <1>1. PICK w \in Writes : wpc[w] = "done" /\ (Overlap(r, w) \/ ClearsNobody(change[w]))
    BY DEF Excused
  <1>2. wpc'[w] = "done" /\ change'[w] = change[w] /\ readBefore'[w] = readBefore[w]
    BY <1>1 DEF Next, Write, Clear, Commit, Rollback, InFlight, Arrive, GetHit, GetMiss, Read, Deny,
               Set, Expire, TypeOK
  <1>3. wrote'[r] = wrote[r]
    BY DEF Next, Write, Clear, Commit, Rollback, Arrive, GetHit, GetMiss, Read, Deny, Set, Expire,
           TypeOK
  <1>4. rpc'[r] # "idle"
    BY DEF Next, Write, Clear, Commit, Rollback, Arrive, GetHit, GetMiss, Read, Deny, Set, Expire,
           TypeOK
  <1> QED
    BY <1>1, <1>2, <1>3, <1>4 DEF Excused, Overlap, ClearsNobody

\* A write that commits excuses the reader or leaves its record right.
LEMMA CommitRight ==
    ASSUME TypeOK, Known, NEW w \in Writes, Commit(w), NEW r \in Requests, rpc[r] # "idle",
           NEW u \in Users, NEW rec, Exact(rec, u), Spared(r, u)
    PROVE  Right(rec, r, u)'
  <1>1. /\ wpc[w] = "commit" /\ wpc'[w] = "done" /\ db' = Apply(db, change[w])
        /\ \A v \in Writes \ {w} : wpc'[v] = wpc[v]
        /\ UNCHANGED <<change, rpc, wrote, readBefore>>
    BY DEF Commit, TypeOK
  <1>2. w \notin wrote[r]
    BY <1>1 DEF Known
  <1>3. change[w] \in Changes /\ db \in Databases
    BY <1>1 DEF Known, Sound, TypeOK, Databases
  <1>4. CASE r \notin readBefore[w] \/ ClearsNobody(change[w])
    BY <1>1, <1>2, <1>4 DEF Right, Excused, Overlap, ClearsNobody
  <1>5. CASE r \in readBefore[w] /\ ~ClearsNobody(change[w])
    <2>1. change[w].on \notin Cone(db, u)
      BY <1>1, <1>5 DEF Spared
    <2>2. /\ Grants(db', u) = Grants(db, u) /\ (Available(db', u) <=> Available(db, u))
          /\ Cone(db', u) = Cone(db, u)
      BY <1>1, <1>3, <2>1, Unaffected
    <2>3. Exact(rec, u)'
      BY <2>2 DEF Exact
    <2>4. Spared(r, u)'
      BY <1>1, <2>2 DEF Spared, ClearsNobody
    <2> QED
      BY <2>3, <2>4 DEF Right
  <1> QED
    BY <1>4, <1>5

LEMMA NextAllRight == ASSUME TypeOK, Known, AllRight, Next PROVE AllRight'
  <1> DEFINE Reader(r) == r \in Requests /\ rpc[r] # "idle"
  <1>a. \A u \in Users : cache[u] # None => cache[u].by \in Requests /\ rpc[cache[u].by] = "done"
    BY DEF Known, Records
  <1>b. \A r \in Requests : rpc[r] = "set" => user[r] \in Users
    BY DEF Known
  <1>c. \A r \in Requests, w \in Writes : r \in readBefore[w] => rpc[r] \in {"done", "denied"}
    BY DEF Known
  \* Steps that leave the database and the writes past their clear alone.
  <1>1. ASSUME NEW r \in Requests, rpc[r] # "idle", NEW u \in Users, NEW rec, Right(rec, r, u),
               UNCHANGED db,
               \A w \in Writes : wpc'[w] = "commit" /\ r \in readBefore'[w] =>
                   /\ wpc[w] = "commit" /\ r \in readBefore[w] /\ change'[w] = change[w]
        PROVE  Right(rec, r, u)'
    <2>1. Excused(r) => Excused(r)'
      BY <1>1, ExcusedStays
    <2>2. Exact(rec, u) => Exact(rec, u)'
      BY <1>1 DEF Exact
    <2>3. Spared(r, u) => Spared(r, u)'
      BY <1>1 DEF Spared, ClearsNobody
    <2> QED
      BY <1>1, <2>1, <2>2, <2>3 DEF Right
  <1>2. ASSUME NEW w \in Writes, Write(w) PROVE AllRight'
    <2>1. /\ wpc' = [wpc EXCEPT ![w] = "clear"] /\ UNCHANGED <<db, cache, rpc, user, record>>
          /\ \A v \in Writes \ {w} : change'[v] = change[v] /\ readBefore'[v] = readBefore[v]
      BY <1>2 DEF Write, TypeOK
    <2>2. \A v \in Writes : wpc'[v] = "commit" =>
             wpc[v] = "commit" /\ change'[v] = change[v] /\ readBefore'[v] = readBefore[v]
      BY <2>1 DEF TypeOK
    <2> QED
      BY <1>a, <1>b, <1>1, <2>1, <2>2 DEF AllRight
  <1>3. ASSUME NEW w \in Writes, Clear(w) PROVE AllRight'
    <2>1. /\ wpc[w] = "clear" /\ wpc'[w] = "commit"
          /\ \A v \in Writes \ {w} : wpc'[v] = wpc[v]
          /\ UNCHANGED <<db, change, rpc, user, record, wrote, readBefore>>
      BY <1>3 DEF Clear, TypeOK
    <2>2. \A r \in Requests : rpc[r] = "set" => Right(record[r], r, user[r])'
      BY <1>b, <1>c, <1>1, <2>1 DEF AllRight
    <2>3. ASSUME NEW u \in Users, NEW rec, rec = cache'[u], rec # None, NEW r, r = rec.by
          PROVE  Right(rec, r, u)'
      <3>1. cache[u] = rec /\ u \notin Cleared(Apply(db, change[w]), change[w].on)
        BY <1>3, <2>3 DEF Clear
      <3>2. r \in Requests /\ rpc[r] = "done" /\ Right(rec, r, u)
        BY <1>a, <2>3, <3>1 DEF AllRight
      <3>3. change[w] \in Changes /\ db \in Databases
        BY <2>1 DEF Known, Sound, TypeOK, Databases
      <3>4. ClearsNobody(change[w]) \/ change[w].on \notin Cone(db, u)
        BY <3>1, <3>3, ConeCleared
      <3>5. Spared(r, u) => Spared(r, u)'
        BY <2>1, <3>4 DEF Spared, ClearsNobody
      <3>6. Excused(r) => Excused(r)'
        BY <3>2, ExcusedStays
      <3>7. Exact(rec, u) => Exact(rec, u)'
        BY <2>1 DEF Exact
      <3> QED
        BY <3>2, <3>5, <3>6, <3>7 DEF Right
    <2> QED
      BY <2>1, <2>2, <2>3 DEF AllRight
  <1>4. ASSUME NEW w \in Writes, Commit(w) PROVE AllRight'
    <2>1. UNCHANGED <<cache, rpc, user, record>>
      BY <1>4 DEF Commit
    <2>2. ASSUME NEW r \in Requests, rpc[r] # "idle", NEW u \in Users, NEW rec, Right(rec, r, u)
          PROVE  Right(rec, r, u)'
      <3>1. CASE Excused(r)
        BY <2>2, <3>1, ExcusedStays DEF Right
      <3>2. CASE ~Excused(r)
        BY <1>4, <2>2, <3>2, CommitRight DEF Right
      <3> QED
        BY <3>1, <3>2
    <2> QED
      BY <1>a, <1>b, <2>1, <2>2 DEF AllRight
  <1>5. ASSUME NEW w \in Writes, Rollback(w) PROVE AllRight'
    <2>1. UNCHANGED <<db, cache, change, rpc, user, record, wrote, readBefore>>
      BY <1>5 DEF Rollback
    <2>2. \A v \in Writes : wpc'[v] = "commit" => wpc[v] = "commit"
      BY <1>5 DEF Rollback, TypeOK
    <2> QED
      BY <1>a, <1>b, <1>1, <2>1, <2>2 DEF AllRight
  <1>6. ASSUME NEW r \in Requests, Arrive(r) \/ GetHit(r) \/ GetMiss(r) \/ Deny(r) PROVE AllRight'
    <2>1. UNCHANGED <<db, cache, wpc, change, readBefore>>
      BY <1>6 DEF Arrive, GetHit, GetMiss, Deny
    <2>2. \A q \in Requests : rpc'[q] = "set" =>
             rpc[q] = "set" /\ record'[q] = record[q] /\ user'[q] = user[q]
      BY <1>6 DEF Arrive, GetHit, GetMiss, Deny, TypeOK
    <2> QED
      BY <1>a, <1>b, <1>1, <2>1, <2>2 DEF AllRight
  <1>7. ASSUME NEW r \in Requests, Read(r) PROVE AllRight'
    <2>1. UNCHANGED <<db, cache, wpc, change, user, readBefore>>
      BY <1>7 DEF Read
    <2>2. \A q \in Requests \ {r} : rpc'[q] = rpc[q] /\ record'[q] = record[q]
      BY <1>7 DEF Read, TypeOK
    <2>3. /\ record'[r].grants = Grants(db, user[r]) /\ Available(db, user[r])
          /\ rpc[r] = "read"
      BY <1>7 DEF Read, TypeOK
    <2>4. \A w \in Writes : r \notin readBefore[w]
      BY <1>c, <2>3
    <2>5. Spared(r, user[r])'
      BY <2>1, <2>4 DEF Spared
    <2>6. Exact(record[r], user[r])'
      BY <2>1, <2>3 DEF Exact
    <2>7. Right(record[r], r, user[r])'
      BY <2>5, <2>6 DEF Right
    <2>8. \A u \in Users : cache[u] # None => Right(cache[u], cache[u].by, u)'
      BY <1>a, <1>1, <2>1 DEF AllRight
    <2>9. \A q \in Requests \ {r} : rpc[q] = "set" => Right(record[q], q, user[q])'
      BY <1>b, <1>1, <2>1, <2>2 DEF AllRight
    <2> QED
      BY <2>1, <2>2, <2>7, <2>8, <2>9 DEF AllRight
  <1>8. ASSUME NEW r \in Requests, Set(r) PROVE AllRight'
    <2>1. UNCHANGED <<db, wpc, change, user, record, readBefore>>
      BY <1>8 DEF Set
    <2>2. /\ rpc[r] = "set" /\ rpc'[r] = "done" /\ record[r].by = r /\ user[r] \in Users
          /\ \A q \in Requests \ {r} : rpc'[q] = rpc[q]
      BY <1>8 DEF Set, Known, TypeOK
    <2>3. \A u \in Users : cache'[u] = IF u = user[r] THEN record[r] ELSE cache[u]
      BY <1>8 DEF Set, TypeOK
    <2>4. ASSUME NEW u \in Users, NEW rec, rec = cache'[u], rec # None, NEW q, q = rec.by
          PROVE  Right(rec, q, u)'
      <3>1. CASE u = user[r]
        <4>1. rec = record[r] /\ q = r /\ Right(rec, q, u)
          BY <2>2, <2>3, <2>4, <3>1 DEF AllRight
        <4> QED
          BY <1>1, <2>1, <2>2, <4>1
      <3>2. CASE u # user[r]
        <4>1. rec = cache[u] /\ Right(rec, q, u) /\ q \in Requests /\ rpc[q] # "idle"
          BY <1>a, <2>3, <2>4, <3>2 DEF AllRight
        <4> QED
          BY <1>1, <2>1, <4>1
      <3> QED
        BY <3>1, <3>2
    <2>5. \A q \in Requests \ {r} : rpc[q] = "set" => Right(record[q], q, user[q])'
      BY <1>b, <1>1, <2>1, <2>2 DEF AllRight
    <2> QED
      BY <2>1, <2>2, <2>4, <2>5 DEF AllRight
  <1>9. ASSUME NEW u \in Users, Expire(u) PROVE AllRight'
    <2>1. UNCHANGED <<db, wpc, change, rpc, user, record, readBefore>>
      BY <1>9 DEF Expire
    <2>2. \A v \in Users : cache'[v] = cache[v] \/ cache'[v] = None
      BY <1>9 DEF Expire, TypeOK
    <2>3. ASSUME NEW v \in Users, NEW rec, rec = cache'[v], rec # None, NEW q, q = rec.by
          PROVE  Right(rec, q, v)'
      <3>1. rec = cache[v] /\ Right(rec, q, v) /\ q \in Requests /\ rpc[q] # "idle"
        BY <1>a, <2>2, <2>3 DEF AllRight
      <3> QED
        BY <1>1, <2>1, <3>1
    <2>4. \A q \in Requests : rpc[q] = "set" => Right(record[q], q, user[q])'
      BY <1>b, <1>1, <2>1 DEF AllRight
    <2> QED
      BY <2>1, <2>3, <2>4 DEF AllRight
  <1> QED
    BY <1>2, <1>3, <1>4, <1>5, <1>6, <1>7, <1>8, <1>9 DEF Next

-----------------------------------------------------------------------------

\* Every step keeps the invariant.
LEMMA StepInv == ASSUME IInv, [Next]_vars PROVE IInv'
  <1>1. CASE Next
    BY <1>1, NextKnown, NextAllRight DEF IInv
  <1>2. CASE UNCHANGED vars
    <2>1. TypeOK' /\ Known'
      BY <1>2 DEF IInv, vars, TypeOK, Known
    <2>2. AllRight'
      BY <1>2 DEF IInv, vars, AllRight, Right, Excused, Overlap, Exact, Spared
    <2> QED
      BY <2>1, <2>2 DEF IInv
  <1> QED
    BY <1>1, <1>2

LEMMA InvCacheFresh == ASSUME IInv PROVE CacheFresh
  <1> SUFFICES ASSUME NEW u \in Users, ~Fresh(u)
               PROVE \E w \in Writes : wpc[w] = "done" /\ (Overlap(cache[u].by, w) \/ ClearsNobody(change[w]))
    BY DEF CacheFresh
  <1>1. Right(cache[u], cache[u].by, u)
    BY DEF Fresh, IInv, AllRight
  <1>2. Excused(cache[u].by)
    BY <1>1 DEF Right, Exact, Fresh
  <1> QED
    BY <1>2 DEF Excused

\* A cached record is what the database grants, but for readers that ran during
\* a write and for the two services that clear nobody, for any rows, links,
\* writes and requests (admin/utils/cache.py and the services that call it).
THEOREM UserCacheFresh == Spec => []CacheFresh
  <1>1. Init => IInv
    BY InitInv
  <1>2. IInv /\ [Next]_vars => IInv'
    BY StepInv
  <1>3. IInv => CacheFresh
    BY InvCacheFresh
  <1> QED
    BY <1>1, <1>2, <1>3, PTL DEF Spec

\* The database, the cache and the requests keep their types.
THEOREM UserCacheTypeOK == Spec => []TypeOK
  <1>1. Init => IInv
    BY InitInv
  <1>2. IInv /\ [Next]_vars => IInv'
    BY StepInv
  <1>3. IInv => TypeOK
    BY DEF IInv
  <1> QED
    BY <1>1, <1>2, <1>3, PTL DEF Spec
=============================================================================
