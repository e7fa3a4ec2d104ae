----------------------------- MODULE Snowflake -----------------------------
(***************************************************************************)
(* The snowflake ID service of utils/snowflake.py: the node identifiers    *)
(* that processes lease from Redis (SnowflakeNodeManager) and the          *)
(* generator of 64-bit IDs (Snowflake.generate).                           *)
(*                                                                         *)
(* A member of Procs is one life of an application process: it starts,     *)
(* leases a node, generates, and stops for good; a restarted process is    *)
(* another member.  The datacenter and worker numbers of the code are one  *)
(* node number here, in the order in which acquire_node_id tries them.     *)
(* Time runs in two grains: ClockForward moves the wall clock by a         *)
(* millisecond, HeartbeatInterval lets one heartbeat interval pass.        *)
(***************************************************************************)
EXTENDS Integers

CONSTANTS
    Procs,      \* the lives of the processes that use the service
    Threads,    \* the threads of a process that call generate()
    MaxNode,    \* nodes are 0..MaxNode (1023 in the code: 32 x 32)
    SeqSize,    \* SEQUENCE_MASK + 1, the IDs of one millisecond
    Tolerance,  \* CLOCK_BACKWARD_TOLERANCE_MS
    Ttl,        \* SNOWFLAKE_NODE_TTL_SECONDS in heartbeat intervals
    MaxClock,   \* bound: the wall clock of a run
    MaxIds,     \* bound: the IDs a run issues
    MaxSteps,   \* bound: how often the clock is stepped back
    None        \* no node, no thread

ASSUME SnowflakeAssumption ==
    /\ MaxNode \in Nat
    /\ SeqSize \in Nat \ {0}
    /\ Tolerance \in Nat
    /\ Ttl \in Nat \ {0}
    /\ MaxClock \in Nat
    /\ MaxIds \in Nat
    /\ MaxSteps \in Nat
    /\ None \notin 0..MaxNode
    /\ None \notin Threads

Nodes == 0..MaxNode

VARIABLES
    clock,      \* the wall clock, in milliseconds
    ttl,        \* ttl[n]: intervals the Redis key of node n has to live, 0 if absent
    phase,      \* phase[p]: "down", "scanned", "running", "exhausted" or "stopped"
    occupied,   \* occupied[p]: the nodes acquire_node_id will not try (again)
    node,       \* node[p]: (datacenter_id, worker_id)
    due,        \* due[p]: the heartbeat task of p has finished its sleep
    last,       \* last[p]: last_timestamp
    seq,        \* seq[p]: sequence
    lock,       \* lock[p]: the thread that holds _lock
    pc,         \* pc[p][t]: where thread t of p is inside generate()
    ts,         \* ts[p][t]: its local timestamp
    issued,     \* history: the IDs returned, numbered in the order of return
    count,      \* history: how many IDs were returned
    born,       \* history: born[p], the clock when p got its node
    lapsed,     \* history: nodes whose key expired while their process was running
    stepped     \* history: how often the wall clock was stepped back

leaseVars == <<ttl, phase, occupied, node, due, born, lapsed>>
genVars == <<last, seq, lock, pc, ts, issued, count>>
clockVars == <<clock, stepped>>
vars == <<leaseVars, genVars, clockVars>>

Id == [n: Nat, proc: Procs, node: Nodes, ts: Nat, seq: 0..(SeqSize - 1)]

\* The 64-bit value: timestamp, node and sequence in adjacent bit fields
\* (the epoch, a constant, is taken as 0).
Pack(id) == (id.ts * (MaxNode + 1) + id.node) * SeqSize + id.seq

TypeOK ==
    /\ clock \in Nat
    /\ ttl \in [Nodes -> 0..Ttl]
    /\ phase \in [Procs -> {"down", "scanned", "running", "exhausted", "stopped"}]
    /\ occupied \in [Procs -> SUBSET Nodes]
    /\ node \in [Procs -> Nodes \cup {None}]
    /\ due \in [Procs -> BOOLEAN]
    /\ last \in [Procs -> Nat \cup {-1}]
    /\ seq \in [Procs -> 0..(SeqSize - 1)]
    /\ lock \in [Procs -> Threads \cup {None}]
    /\ pc \in [Procs -> [Threads -> {"idle", "read", "back", "full", "stamp"}]]
    /\ ts \in [Procs -> [Threads -> Nat]]
    /\ issued \subseteq Id
    /\ count \in Nat
    /\ born \in [Procs -> Nat]
    /\ lapsed \subseteq Nodes
    /\ stepped \in Nat

Init ==
    /\ clock = 0
    /\ ttl = [n \in Nodes |-> 0]
    /\ phase = [p \in Procs |-> "down"]
    /\ occupied = [p \in Procs |-> {}]
    /\ node = [p \in Procs |-> None]
    /\ due = [p \in Procs |-> FALSE]
    /\ last = [p \in Procs |-> -1]
    /\ seq = [p \in Procs |-> 0]
    /\ lock = [p \in Procs |-> None]
    /\ pc = [p \in Procs |-> [t \in Threads |-> "idle"]]
    /\ ts = [p \in Procs |-> [t \in Threads |-> 0]]
    /\ issued = {}
    /\ count = 0
    /\ born = [p \in Procs |-> 0]
    /\ lapsed = {}
    /\ stepped = 0

-----------------------------------------------------------------------------
(* The node lease.                                                         *)

\* acquire_node_id, the scan: the keys there are now.
Scan(p) ==
    /\ phase[p] = "down"
    /\ phase' = [phase EXCEPT ![p] = "scanned"]
    /\ occupied' = [occupied EXCEPT ![p] = {n \in Nodes : ttl[n] > 0}]
    /\ UNCHANGED <<ttl, node, due, born, lapsed, genVars, clockVars>>

\* The combination tried next: the first one that is not occupied.
Candidate(p, n) ==
    /\ n \in Nodes \ occupied[p]
    /\ \A m \in Nodes \ occupied[p] : n <= m

\* Mutant: SET without NX.
KeyFreeWithoutNx(n) == TRUE

\* _register: SET key value NX EX, which answers whether the key was set.
KeyFree(n) == ttl[n] = 0

\* The candidate is free: it is leased, and start_heartbeat begins its first sleep.
Register(p) ==
    /\ phase[p] = "scanned"
    /\ \E n \in Nodes :
        /\ Candidate(p, n)
        /\ KeyFree(n)
        /\ ttl' = [ttl EXCEPT ![n] = Ttl]
        /\ node' = [node EXCEPT ![p] = n]
    /\ phase' = [phase EXCEPT ![p] = "running"]
    /\ due' = [due EXCEPT ![p] = FALSE]
    /\ born' = [born EXCEPT ![p] = clock]
    /\ UNCHANGED <<occupied, lapsed, genVars, clockVars>>

\* Somebody set the candidate's key after the scan: on to the next one.
RegisterTaken(p) ==
    /\ phase[p] = "scanned"
    /\ \E n \in Nodes :
        /\ Candidate(p, n)
        /\ ~KeyFree(n)
        /\ occupied' = [occupied EXCEPT ![p] = @ \cup {n}]
    /\ UNCHANGED <<ttl, phase, node, due, born, lapsed, genVars, clockVars>>

\* No combination is left: init() raises and the process does not start.
Exhausted(p) ==
    /\ phase[p] = "scanned"
    /\ occupied[p] = Nodes
    /\ phase' = [phase EXCEPT ![p] = "exhausted"]
    /\ UNCHANGED <<ttl, occupied, node, due, born, lapsed, genVars, clockVars>>

\* EXPIRE on the key, which does nothing when the key is gone and never looks
\* at whose key it is.
Heartbeat(p) ==
    /\ phase[p] = "running"
    /\ due[p]
    /\ due' = [due EXCEPT ![p] = FALSE]
    /\ ttl' = [ttl EXCEPT ![node[p]] = IF @ > 0 THEN Ttl ELSE 0]
    /\ UNCHANGED <<phase, occupied, node, born, lapsed, genVars, clockVars>>

\* Redis fails: the error is logged and the task sleeps another interval.
HeartbeatFails(p) ==
    /\ phase[p] = "running"
    /\ due[p]
    /\ due' = [due EXCEPT ![p] = FALSE]
    /\ UNCHANGED <<ttl, phase, occupied, node, born, lapsed, genVars, clockVars>>

\* shutdown -> release: the key of the node is deleted, whoever set it.  The
\* requests of the process have ended, so no thread is inside generate().
Shutdown(p) ==
    /\ phase[p] = "running"
    /\ lock[p] = None
    /\ phase' = [phase EXCEPT ![p] = "stopped"]
    /\ due' = [due EXCEPT ![p] = FALSE]
    /\ ttl' = [ttl EXCEPT ![node[p]] = 0]
    /\ UNCHANGED <<occupied, node, born, lapsed, genVars, clockVars>>

\* The process dies, inside generate() or not: nothing is released, the key
\* stays until it expires.
Crash(p) ==
    /\ phase[p] \in {"scanned", "running"}
    /\ phase' = [phase EXCEPT ![p] = "stopped"]
    /\ due' = [due EXCEPT ![p] = FALSE]
    /\ lock' = [lock EXCEPT ![p] = None]
    /\ pc' = [pc EXCEPT ![p] = [t \in Threads |-> "idle"]]
    /\ ts' = [ts EXCEPT ![p] = [t \in Threads |-> 0]]
    /\ UNCHANGED <<ttl, occupied, node, born, lapsed, last, seq, issued, count, clockVars>>

-----------------------------------------------------------------------------
(* The generator.  Every step of it but the first is taken by the thread   *)
(* that holds _lock.                                                       *)

\* Mutant: generate() without its lock.
LockFreeAlways(p) == TRUE

LockFree(p) == lock[p] = None

\* A call enters the lock and reads the clock.  A clock behind by more than
\* the tolerance raises and changes nothing, so no step stands for it.
Enter(p, t) ==
    /\ phase[p] = "running"
    /\ count < MaxIds
    /\ LockFree(p)
    /\ pc[p][t] = "idle"
    /\ last[p] - clock <= Tolerance
    /\ lock' = [lock EXCEPT ![p] = t]
    /\ ts' = [ts EXCEPT ![p][t] = clock]
    /\ pc' = [pc EXCEPT ![p][t] = IF clock < last[p] THEN "back" ELSE "read"]
    /\ UNCHANGED <<last, seq, issued, count, leaseVars, clockVars>>

\* _till_next_ms: the loop ends when the clock has passed last_timestamp.
TillNextMs(p, t) ==
    /\ phase[p] = "running"
    /\ pc[p][t] \in {"back", "full"}
    /\ clock > last[p]
    /\ ts' = [ts EXCEPT ![p][t] = clock]
    /\ pc' = [pc EXCEPT ![p][t] = IF @ = "back" THEN "read" ELSE "stamp"]
    /\ UNCHANGED <<last, seq, lock, issued, count, leaseVars, clockVars>>

\* Mutant: the sequence is not masked.
SequenceAfterUnmasked(p, t) == IF ts[p][t] = last[p] THEN seq[p] + 1 ELSE 0

\* The sequence number that follows in this millisecond.
SequenceAfter(p, t) == IF ts[p][t] = last[p] THEN (seq[p] + 1) % SeqSize ELSE 0

\* Mutant: a used-up sequence starts over without waiting.
UsedUpNever(p, t) == FALSE

\* The millisecond has no number left.
UsedUp(p, t) == ts[p][t] = last[p] /\ SequenceAfter(p, t) = 0

\* The sequence of the millisecond; when it is used up, wait for the next one.
NextSequence(p, t) ==
    /\ phase[p] = "running"
    /\ pc[p][t] = "read"
    /\ seq' = [seq EXCEPT ![p] = SequenceAfter(p, t)]
    /\ pc' = [pc EXCEPT ![p][t] = IF UsedUp(p, t) THEN "full" ELSE "stamp"]
    /\ UNCHANGED <<last, lock, ts, issued, count, leaseVars, clockVars>>

\* last_timestamp is set, the ID is composed and the lock released.
Return(p, t) ==
    /\ phase[p] = "running"
    /\ pc[p][t] = "stamp"
    /\ last' = [last EXCEPT ![p] = ts[p][t]]
    /\ issued' = issued \cup {[n |-> count, proc |-> p, node |-> node[p],
                               ts |-> ts[p][t], seq |-> seq[p]]}
    /\ count' = count + 1
    /\ pc' = [pc EXCEPT ![p][t] = "idle"]
    /\ ts' = [ts EXCEPT ![p][t] = 0]
    /\ lock' = [lock EXCEPT ![p] = None]
    /\ UNCHANGED <<seq, leaseVars, clockVars>>

-----------------------------------------------------------------------------
(* The environment: time.                                                  *)

ClockForward ==
    /\ clock < MaxClock
    /\ clock' = clock + 1
    /\ UNCHANGED <<stepped, leaseVars, genVars>>

\* NTP sets the clock back, by any amount.
ClockBack ==
    /\ stepped < MaxSteps
    /\ \E c \in 0..(clock - 1) : clock' = c
    /\ stepped' = stepped + 1
    /\ UNCHANGED <<leaseVars, genVars>>

\* One heartbeat interval passes: keys age, sleeps end.  The event loop may
\* be too late for the previous sleep, in which case that heartbeat is missed.
HeartbeatInterval ==
    /\ clock < MaxClock
    /\ clock' = clock + 1
    /\ ttl' = [n \in Nodes |-> IF ttl[n] > 0 THEN ttl[n] - 1 ELSE 0]
    /\ due' = [p \in Procs |-> phase[p] = "running"]
    /\ lapsed' = lapsed \cup
          {n \in Nodes : ttl[n] = 1 /\ \E p \in Procs : phase[p] = "running" /\ node[p] = n}
    /\ UNCHANGED <<phase, occupied, node, born, stepped, genVars>>

Lease(p) ==
    \/ Scan(p) \/ Register(p) \/ RegisterTaken(p) \/ Exhausted(p)
    \/ Heartbeat(p) \/ HeartbeatFails(p) \/ Shutdown(p) \/ Crash(p)

Generate(p, t) ==
    Enter(p, t) \/ TillNextMs(p, t) \/ NextSequence(p, t) \/ Return(p, t)

Next ==
    \/ \E p \in Procs : Lease(p) \/ \E t \in Threads : Generate(p, t)
    \/ ClockForward \/ ClockBack \/ HeartbeatInterval

Spec == Init /\ [][Next]_vars

-----------------------------------------------------------------------------
(* Properties.                                                             *)

\* SET NX with the heartbeat keeps a node to one running process, as long as
\* its key never expired under a process that was still running.
NodeExclusive ==
    \A p, q \in Procs :
        (phase[p] = "running" /\ phase[q] = "running" /\ node[p] = node[q])
            => p = q \/ node[p] \in lapsed

\* Whatever the clock does, one process never returns the same timestamp and
\* sequence twice, and its IDs grow in the order of return.
Below(i, j) == i.ts < j.ts \/ (i.ts = j.ts /\ i.seq < j.seq)

IdsIncrease ==
    \A i, j \in issued : (i.proc = j.proc /\ i.n < j.n) => Below(i, j)

\* Two processes can return the same 64-bit ID only if the clock was stepped
\* back, if the node's key expired under its owner, or if the node changed
\* hands within the very millisecond its former owner was generating in; one
\* process never returns an ID twice.
IdsUnique ==
    \A i, j \in issued :
        (Pack(i) = Pack(j) /\ i # j) =>
            /\ i.proc # j.proc
            /\ \/ stepped > 0
               \/ i.node \in lapsed
               \/ i.ts \in {born[i.proc], born[j.proc]}
=============================================================================
