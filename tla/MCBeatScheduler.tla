-------------------------- MODULE MCBeatScheduler --------------------------
EXTENDS BeatScheduler, TLC

CONSTANTS b1, b2, e1, e2, t1, o1

MCEvery == (t1 :> 2) @@ (o1 :> 1)

\* Two beats and no edit; one beat with an edit; one beat with two edits of an
\* interval task.
MCCasts == {{b1, b2, t1, o1}, {b1, e1, t1, o1}, {b1, e1, e2, t1}}

MCOneBeat == {{b1, t1, o1}}

Sym == Permutations(Edits)
=============================================================================
