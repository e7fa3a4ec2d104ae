---------------------------- MODULE Requirements ----------------------------
(***************************************************************************)
(* Whether the requirements of a plugin are installed already              *)
(* (plugin/requirements.py): a walk over the metadata of the installed     *)
(* distributions, which can depend on each other in circles.               *)
(*                                                                         *)
(* A requirement is [name, versions, extras, when]: the versions it        *)
(* accepts, the extras it asks for, and the extra its marker names or None.*)
(* dists gives each installed name its [version, requires].                *)
(***************************************************************************)
EXTENDS Naturals, Sequences, FiniteSets, SequencesExt

CONSTANT None

\* The marker: without extras the active extra is the empty one.
Active(req, extras) == req.when = None \/ req.when \in extras

\* requirement_satisfied: the walk carries the verdict and the visited states.
RECURSIVE Satisfied(_, _, _, _)
Satisfied(dists, req, extras, walk) ==
    LET state == <<req.name, req.extras>>
        step(w, r) == IF w.ok THEN Satisfied(dists, r, req.extras, w) ELSE w
    IN IF ~Active(req, extras) THEN walk
       ELSE IF req.name \notin DOMAIN dists \/ dists[req.name].version \notin req.versions
            THEN [walk EXCEPT !.ok = FALSE]
       ELSE IF state \in walk.visited THEN walk
       ELSE FoldLeft(step, [walk EXCEPT !.visited = @ \cup {state}], dists[req.name].requires)

requirements_installed(dists, requirements) ==
    LET step(w, r) == IF w.ok THEN Satisfied(dists, r, {}, w) ELSE w
    IN FoldLeft(step, [ok |-> TRUE, visited |-> {}], requirements).ok

\* Every requirement that is asked for, directly or through the distributions
\* and extras asked for.
Asked(dists, requirements, depth) ==
    LET under(r) == IF r.name \notin DOMAIN dists THEN {}
                    ELSE {q \in ToSet(dists[r.name].requires) : Active(q, r.extras)}
        step[k \in 0..depth] ==
            IF k = 0 THEN {r \in ToSet(requirements) : Active(r, {})}
            ELSE step[k - 1] \cup UNION {under(r) : r \in step[k - 1]}
    IN step[depth]

\* The installation is skipped exactly when everything that is asked for, at
\* any depth, is installed in an accepted version: the memory of what was
\* visited neither loops on a circle nor lets a second, stricter requirement of
\* the same distribution pass.
SkipRight(dists, requirements, depth) ==
    requirements_installed(dists, requirements)
        <=> \A r \in Asked(dists, requirements, depth) :
                r.name \in DOMAIN dists /\ dists[r.name].version \in r.versions
=============================================================================
