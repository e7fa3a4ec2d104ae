-------------------------------- MODULE Trees --------------------------------
(***************************************************************************)
(* The tree builder of departments and menus (utils/build_tree.py): the    *)
(* rows of a table, each with the number of its parent, become nested      *)
(* lists.  get_tree_data sorts the rows by one column and builds the tree  *)
(* by the traversal algorithm, or by the recursive one when asked to.      *)
(*                                                                         *)
(* A node is [id, parent, sort].  The parent is None for a root, and may   *)
(* be the number of a row that is not among the nodes: one that is deleted *)
(* or that a filter has left out.                                          *)
(***************************************************************************)
EXTENDS Naturals, Sequences, FiniteSets, SequencesExt

CONSTANT None

Ids(nodes) == {nodes[i].id : i \in DOMAIN nodes}

\* get_tree_nodes: the sort is stable.
get_tree_nodes(rows) ==
    LET numbered == [i \in DOMAIN rows |-> [at |-> i, node |-> rows[i]]]
        before(a, b) ==
            \/ a.node.sort < b.node.sort
            \/ (a.node.sort = b.node.sort /\ a.at < b.at)
        sorted == SortSeq(numbered, before)
    IN [i \in DOMAIN sorted |-> sorted[i].node]

\* Mutant: a node whose parent is not among the nodes is dropped.
IsRootStrict(nodes, n) == n.parent = None

IsRoot(nodes, n) == n.parent = None \/ n.parent \notin Ids(nodes)

\* A forest is the sequence of its nodes in the order of a printed tree, each
\* with its depth.
RECURSIVE Below(_, _, _)
Below(nodes, n, depth) ==
    LET children == SelectSeq(nodes, LAMBDA c : c.parent = n.id)
    IN <<[id |-> n.id, depth |-> depth]>>
         \o FlattenSeq([i \in DOMAIN children |-> Below(nodes, children[i], depth + 1)])

\* traversal_to_tree: every node is appended to the children of its parent, or
\* to the roots.  Nodes on a circle of parents are the children of one another
\* and hang on no root.
traversal_to_tree(nodes) ==
    LET roots == SelectSeq(nodes, LAMBDA n : IsRoot(nodes, n))
    IN FlattenSeq([i \in DOMAIN roots |-> Below(nodes, roots[i], 0)])

RECURSIVE recursive_to_tree(_, _, _)
recursive_to_tree(nodes, parent, depth) ==
    LET level == SelectSeq(nodes, LAMBDA n : n.parent = parent)
    IN FlattenSeq([i \in DOMAIN level |->
            <<[id |-> level[i].id, depth |-> depth]>>
                \o recursive_to_tree(nodes, level[i].id, depth + 1)])

get_tree_data(rows, build) ==
    IF build = "traversal"
        THEN traversal_to_tree(get_tree_nodes(rows))
        ELSE recursive_to_tree(get_tree_nodes(rows), None, 0)

\* get_vben5_tree_data: the same tree; the fields of a node are regrouped.
get_vben5_tree_data(rows) == traversal_to_tree(get_tree_nodes(rows))

Shown(tree) == {tree[i].id : i \in DOMAIN tree}

-----------------------------------------------------------------------------
(* The reference: what the parents say of every row by itself.             *)

Parent(rows, i) == (CHOOSE n \in ToSet(rows) : n.id = i).parent

\* The rows on the way up from row i: i itself, its parent, and so on.
RECURSIVE Up(_, _, _)
Up(rows, i, seen) ==
    IF i \notin Ids(rows) \/ i \in seen THEN seen
    ELSE Up(rows, Parent(rows, i), seen \cup {i})

\* The way up of a looped row never ends.
Looped(rows, i) ==
    \E j \in Up(rows, i, {}) : Parent(rows, j) \in Ids(rows) /\ j \in Up(rows, Parent(rows, j), {})

\* The way up of an orphan ends at a row that is not there.
Orphan(rows, i) == \E j \in Up(rows, i, {}) : Parent(rows, j) \notin Ids(rows) \cup {None}

\* In a tree every node stands one deeper than its parent, which is the last
\* node before it that is less deep, and siblings follow their sort column.
Nested(rows, tree) ==
    \A k \in DOMAIN tree :
        LET above == {j \in 1..(k - 1) : tree[j].depth < tree[k].depth}
            older == {j \in 1..(k - 1) : tree[j].depth = tree[k].depth
                                           /\ \A a \in above : a < j}
            sort(i) == (CHOOSE n \in ToSet(rows) : n.id = i).sort
        IN /\ IF tree[k].depth = 0
                THEN Parent(rows, tree[k].id) \notin Ids(rows)
                ELSE LET p == CHOOSE a \in above : \A b \in above : b <= a
                     IN /\ tree[p].id = Parent(rows, tree[k].id)
                        /\ tree[p].depth = tree[k].depth - 1
           /\ \A j \in older : sort(tree[j].id) <= sort(tree[k].id)

\* A tree holds every row once, at its place, except the rows that hang on no
\* root: those whose parents form a circle, for both algorithms, and for the
\* recursive one also those below a row that is not there.  Departments are
\* filtered by name, leader and data permission before the tree is built, and
\* moves can close a circle (dept_service.update only refuses a department as
\* its own parent).
TreeRight(rows) ==
    \A build \in {"traversal", "recursive"} :
        LET tree == get_tree_data(rows, build)
            out(i) == Looped(rows, i) \/ (build = "recursive" /\ Orphan(rows, i))
        IN /\ Shown(tree) = {i \in Ids(rows) : ~out(i)}
           /\ Len(tree) = Cardinality(Shown(tree))
           /\ Nested(rows, tree)
=============================================================================
