-------------------------------- MODULE Paging --------------------------------
(***************************************************************************)
(* Pages of a query (common/pagination.py) and the list of users           *)
(* (UserService.get_list), whose pages are cut from the rows of a join     *)
(* before the rows become users.                                           *)
(***************************************************************************)
EXTENDS JoinSerialize

\* to_raw_params and the LIMIT and OFFSET made of it.
Slice(rows, page, size) ==
    LET offset == size * (page - 1)
    IN SubSeq(rows, offset + 1, Min({offset + size, Len(rows)}))

Ceil(total, size) == (total + size - 1) \div size

\* Mutant: the number of pages rounded down.
LinksFloor(total, page, size) ==
    LET pages == total \div size
    IN [first |-> 1,
        last |-> IF total > 0 THEN pages ELSE 1,
        next |-> IF page + 1 <= pages THEN page + 1 ELSE None,
        prev |-> IF page - 1 >= 1 THEN page - 1 ELSE None]

\* _CustomPage.create
Links(total, page, size) ==
    LET pages == Ceil(total, size)
    IN [first |-> 1,
        last |-> IF total > 0 THEN pages ELSE 1,
        next |-> IF page + 1 <= pages THEN page + 1 ELSE None,
        prev |-> IF page - 1 >= 1 THEN page - 1 ELSE None]

\* The pages a client meets that follows the next links from this one.
RECURSIVE Walk(_, _, _)
Walk(total, page, size) ==
    LET next == Links(total, page, size).next
    IN IF next = None THEN <<page>> ELSE <<page>> \o Walk(total, next, size)

\* Following the next links from the first page gives every row once and in
\* order, ends at the last link, and the prev links lead back the same way.
PagesCover(total, size) ==
    LET rows == [i \in 1..total |-> i]
        walk == Walk(total, Links(total, 1, size).first, size)
    IN /\ FlattenSeq([i \in DOMAIN walk |-> Slice(rows, walk[i], size)]) = rows
       /\ walk[Len(walk)] = Links(total, 1, size).last
       /\ \A i \in 2..Len(walk) : Links(total, walk[i], size).prev = walk[i - 1]
       /\ \A i \in 1..Len(walk) : walk[i] > 1 \/ Links(total, walk[i], size).prev = None

-----------------------------------------------------------------------------

\* CRUDUser.get_select: the rows of the join for the users, the newest first.
get_select(links, dead, users, back) ==
    FlattenSeq([i \in DOMAIN users |-> LeftJoin(links, dead, users[i], ListRelations, back)])

\* UserService.get_list
get_list(links, dead, users, back, page, size) ==
    LET items == Slice(get_select(links, dead, users, back), page, size)
    IN [total |-> Len(get_select(links, dead, users, back)),
        items |-> IF items = <<>> THEN <<>> ELSE select_join_serialize(items, ListRelations)]

\* The list of users is paged by the rows of the join, a row per role of a
\* user: a page never invents a role or shows a user twice, every user is on
\* some page, and a user whose rows a page boundary does not cut has all its
\* roles there.
UserPagesTrue(links, dead, users, back, size) ==
    LET rows == get_select(links, dead, users, back)
        page(p) == get_list(links, dead, users, back, p, size).items
        pages == ToSet(Walk(Len(rows), 1, size))
        at(u) == {i \in DOMAIN rows : rows[i][1] = u}
        roles(r) == ToSet(Entities(r.sub["role"]))
        live(u) == Partners(links, u, "role") \ dead
    IN /\ \A p \in pages :
            /\ IsInjective(Entities(page(p)))
            /\ \A i \in DOMAIN page(p) : roles(page(p)[i]) \subseteq live(page(p)[i].ent)
       /\ \A u \in ToSet(users) :
            LET home == {((i - 1) \div size) + 1 : i \in at(u)}
            IN /\ {p \in pages : u \in ToSet(Entities(page(p)))} = home
               /\ \A p \in home : home = {p} =>
                    \A i \in DOMAIN page(p) : page(p)[i].ent = u => roles(page(p)[i]) = live(u)
=============================================================================
