---------------------------- MODULE JoinSerialize ----------------------------
(***************************************************************************)
(* select_join_serialize (utils/serializers.py): the rows of a join, each  *)
(* a tuple with the entity of the main model first and then one entity of  *)
(* every joined model or nothing, become one nested result per main entity.*)
(* get_join of users, roles, scopes and departments authorises by what it  *)
(* returns.                                                                *)
(*                                                                         *)
(* An entity is [model, id].  A relationship is [src, type, dst].  A       *)
(* result is the entity with sub, a function from the related models to    *)
(* lists of results; the fields of an entity and the names of the lists    *)
(* are left out, and None stands for an object that is not there.          *)
(***************************************************************************)
EXTENDS Naturals, Sequences, FiniteSets, SequencesExt

CONSTANT None

ListTypes == {"o2m", "m2m"}
AllTypes == {"o2m", "m2o", "o2o", "m2m"}

\* parse_relationships: relationships of an unknown type are skipped, and a
\* model that is the target of two has the later one as its source.
Parsed(rels) == SelectSeq(rels, LAMBDA r : r.type \in AllTypes)
SourceOf(rels, dst) ==
    LET at == {i \in DOMAIN rels : rels[i].dst = dst}
    IN IF at = {} THEN None ELSE rels[CHOOSE i \in at : \A j \in at : j <= i].src
Targets(rels, src) == {rels[i].dst : i \in {j \in DOMAIN rels : rels[j].src = src}}
TypeOf(rels, src, dst) ==
    LET at == {i \in DOMAIN rels : rels[i].src = src /\ rels[i].dst = dst}
    IN rels[CHOOSE i \in at : \A j \in at : j <= i].type

\* cls_idx: the column of a model, 0 when no row has an entity of it.  Every
\* model is joined once.
Column(rows, model) ==
    LET at == {c \in DOMAIN rows[1] :
                \E i \in DOMAIN rows : rows[i][c] # None /\ rows[i][c].model = model}
    IN IF at = {} THEN 0 ELSE CHOOSE c \in at : TRUE

\* hierarchy[main][model][parent]: the entities of a model that stand in a row
\* of the main entity beside a parent with this id, in the order of the rows.
\* The parent stands in the column of the model's source.
Hierarchy(rels, rows, main, model, id) ==
    LET source == Column(rows, SourceOf(rels, model))
        column == Column(rows, model)
        mine == SelectSeq(rows, LAMBDA row :
                    /\ row[1] = main /\ source # 0 /\ column > 1
                    /\ row[column] # None
                    /\ row[source] # None
                    /\ row[source].id = id)
    IN [i \in DOMAIN mine |-> mine[i][column]]

\* Mutant: only an entity equal to the one before it is left out.
DedupeRuns(s) ==
    LET firsts == {i \in DOMAIN s : i = 1 \/ s[i - 1] # s[i]}
    IN [k \in 1..Cardinality(firsts) |->
            s[CHOOSE i \in firsts : Cardinality({j \in firsts : j <= i}) = k]]

\* dedupe_objects
Dedupe(s) ==
    LET firsts == {i \in DOMAIN s : \A j \in 1..(i - 1) : s[j] # s[i]}
    IN [k \in 1..Cardinality(firsts) |->
            s[CHOOSE i \in firsts : Cardinality({j \in firsts : j <= i}) = k]]

Pick(type, list) ==
    IF type \in ListTypes THEN list ELSE IF list = <<>> THEN <<>> ELSE <<list[1]>>

\* recursive_build
RECURSIVE Build(_, _, _, _, _)
Build(rels, rows, main, model, id) ==
    LET objs == Dedupe(Hierarchy(rels, rows, main, model, id))
    IN [i \in DOMAIN objs |->
          [ent |-> objs[i],
           sub |-> [m \in Targets(rels, model) |->
                      Pick(TypeOf(rels, model, m), Build(rels, rows, main, m, objs[i].id))]]]

\* build_nested
Nest(rels, rows, main) ==
    [ent |-> main,
     sub |-> [m \in Targets(rels, main.model) |->
                Pick(TypeOf(rels, main.model, m), Build(rels, rows, main, m, main.id))]]

\* build_flat: without relationships the entities of each model in a list.
Flat(rows, main) ==
    LET mine == FlattenSeq([i \in DOMAIN rows |->
                    IF rows[i][1] # main THEN <<>> ELSE SelectSeq(Tail(rows[i]), LAMBDA e : e # None)])
        models == {mine[i].model : i \in DOMAIN mine} \ {main.model}
    IN [ent |-> main,
        sub |-> [m \in models |-> Dedupe(SelectSeq(mine, LAMBDA e : e.model = m))]]

\* One result per main entity, in the order of the rows; the caller of get_join
\* takes the only one out of the list.
select_join_serialize(rows, rels) ==
    LET known == Parsed(rels)
        mains == Dedupe([i \in DOMAIN rows |-> rows[i][1]])
    IN [i \in DOMAIN mains |->
            IF known = <<>> THEN Flat(rows, mains[i]) ELSE Nest(known, rows, mains[i])]

-----------------------------------------------------------------------------
(* The join.  links are the pairs of entities the association tables and   *)
(* foreign keys connect, dead the entities that are deleted: they still    *)
(* have links, and a LEFT JOIN gives None for them.                        *)

Link(src, type, dst) == [src |-> src, type |-> type, dst |-> dst]

UserRelations == <<Link("user", "m2o", "dept"), Link("user", "m2m", "role"),
    Link("role", "m2m", "menu"), Link("role", "m2m", "scope"), Link("scope", "m2m", "rule")>>
RoleRelations == <<Link("role", "m2m", "menu"), Link("role", "m2m", "scope")>>
ScopeRelations == <<Link("scope", "m2m", "rule")>>
DeptRelations == <<Link("dept", "o2m", "user")>>
ListRelations == <<Link("user", "m2o", "dept"), Link("user", "m2m", "role")>>

Partners(links, e, model) == {l[2] : l \in {k \in links : k[1] = e /\ k[2].model = model}}

\* Some order of a set of entities of one model.
Listed(ents) ==
    LET ids == {e.id : e \in ents}
        nth == [k \in 1..Cardinality(ids) |->
                  CHOOSE i \in ids : Cardinality({j \in ids : j <= i}) = k]
    IN [k \in DOMAIN nth |-> CHOOSE e \in ents : e.id = nth[k]]

\* The rows for one main entity.  SQL gives them in any order: back turns the
\* order round.
LeftJoin(links, dead, main, rels, back) ==
    LET place(model) ==
            IF model = main.model THEN 1 ELSE 1 + CHOOSE i \in DOMAIN rels : rels[i].dst = model
        matches(e, model) ==
            LET found == IF e = None THEN {} ELSE Partners(links, e, model)
            IN IF found = {} THEN <<None>>
               ELSE [i \in DOMAIN Listed(found) |->
                       IF Listed(found)[i] \in dead THEN None ELSE Listed(found)[i]]
        extend(rows, rel) ==
            FlattenSeq([r \in DOMAIN rows |->
                LET next == matches(rows[r][place(rel.src)], rel.dst)
                IN [p \in DOMAIN next |-> Append(rows[r], next[p])]])
        joined == FoldLeft(extend, <<<<main>>>>, rels)
    IN IF back THEN Reverse(joined) ELSE joined

get_join(links, dead, main, rels, back) ==
    select_join_serialize(LeftJoin(links, dead, main, rels, back), rels)[1]

Entities(list) == [i \in DOMAIN list |-> list[i].ent]

\* A result holds what the links say of its entity, and nothing twice.
RECURSIVE Faithful(_, _, _)
Faithful(links, dead, result) ==
    \A model \in DOMAIN result.sub :
        LET list == result.sub[model]
        IN /\ ToSet(Entities(list)) = Partners(links, result.ent, model) \ dead
           /\ IsInjective(Entities(list))
           /\ \A i \in DOMAIN list : Faithful(links, dead, list[i])

\* What get_join returns for a user, a role, a scope or a department nests, at
\* every level, the live entities its links name, each of them once: a role
\* shared by a menu and a scope multiplies the rows of the join and not the
\* results, and entities of different models with one number stay apart.  The
\* authorisation of every request reads this result.
JoinFaithful(links, dead, main, rels, back) ==
    LET result == get_join(links, dead, main, rels, back)
    IN /\ result.ent = main
       /\ DOMAIN result.sub = Targets(rels, main.model)
       /\ Faithful(links, dead, result)
=============================================================================
