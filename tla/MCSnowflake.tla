---------------------------- MODULE MCSnowflake ----------------------------
EXTENDS Snowflake, FiniteSets, TLC

Sym == Permutations(Procs) \cup Permutations(Threads)

\* Two processes whose clock is stepped back or whose node lapses; or three that
\* compete for the two nodes within a millisecond, one of them for nothing.
Bounds ==
    /\ Cardinality({p \in Procs : phase[p] # "down"}) = 3 =>
          stepped = 0 /\ clock < MaxClock /\ count < MaxIds
    /\ stepped = 0 \/ lapsed = {}
=============================================================================
