-------------------------- MODULE SnowflakeProofs --------------------------
(***************************************************************************)
(* Proofs, for all values of the constants, of the properties that         *)
(* MCSnowflake checks on an instance.  The invariant has three layers:     *)
(* the lease (LeaseInv), the generator of one process (GenInv), and the    *)
(* succession of processes on one node while the clock is not stepped      *)
(* back (SuccessionInv).                                                   *)
(***************************************************************************)
EXTENDS Snowflake, TLAPS

\* A process has a node exactly from its registration on (a crash may come before).
HasNode ==
    \A p \in Procs :
        /\ phase[p] = "running" => node[p] # None
        /\ node[p] # None => phase[p] \in {"running", "stopped"}

\* A node's key is alive as long as its only running owner is.
LeaseInv ==
    /\ \A p \in Procs :
          (phase[p] = "running" /\ node[p] \notin lapsed) => ttl[node[p]] > 0
    /\ NodeExclusive

-----------------------------------------------------------------------------
(* Type correctness.                                                       *)

\* A wrapped sequence number is a sequence number, and 0 only at the end.
LEMMA WrapLemma ==
    ASSUME NEW s \in 0..(SeqSize - 1)
    PROVE  /\ (s + 1) % SeqSize \in 0..(SeqSize - 1)
           /\ (s + 1) % SeqSize # 0 => (s + 1) % SeqSize = s + 1
<1>1. CASE s + 1 = SeqSize
  <2>1. (s + 1) % SeqSize = 0
    BY <1>1, SnowflakeAssumption
  <2>2. QED
    BY <2>1, SnowflakeAssumption
<1>2. CASE s + 1 < SeqSize
  <2>1. (s + 1) % SeqSize = s + 1
    BY <1>2, SnowflakeAssumption
  <2>2. QED
    BY <2>1, <1>2, SnowflakeAssumption
<1>3. QED
  BY <1>1, <1>2, SnowflakeAssumption

\* The initial state has the declared types.
LEMMA TypeInit == Init => TypeOK /\ HasNode
BY SnowflakeAssumption DEF Init, TypeOK, HasNode, Nodes

\* Every step of the service keeps the declared types.
LEMMA TypeNext == TypeOK /\ HasNode /\ [Next]_vars => TypeOK' /\ HasNode'
<1> SUFFICES ASSUME TypeOK, HasNode, [Next]_vars PROVE TypeOK' /\ HasNode'
  OBVIOUS
<1> USE SnowflakeAssumption DEF TypeOK, HasNode, leaseVars, genVars, clockVars, Nodes
<1>1. ASSUME NEW p \in Procs, Scan(p) PROVE TypeOK' /\ HasNode'
  BY <1>1 DEF Scan
<1>2. ASSUME NEW p \in Procs, Register(p) PROVE TypeOK' /\ HasNode'
  <2>1. PICK n \in Nodes : /\ ttl' = [ttl EXCEPT ![n] = Ttl]
                           /\ node' = [node EXCEPT ![p] = n]
    BY <1>2 DEF Register
  <2>2. ttl' \in [Nodes -> 0..Ttl] /\ node' \in [Procs -> Nodes \cup {None}]
    <3>1. Ttl \in 0..Ttl
      OBVIOUS
    <3>2. QED
      BY <2>1, <3>1
  <2>3. due' \in [Procs -> BOOLEAN]
    BY <1>2, Zenon DEF Register
  <2>4. HasNode'
    BY <1>2, <2>1 DEF Register
  <2>5. QED
    BY <1>2, <2>2, <2>3, <2>4 DEF Register
<1>3. ASSUME NEW p \in Procs, RegisterTaken(p) PROVE TypeOK' /\ HasNode'
  <2>1. occupied' \in [Procs -> SUBSET Nodes]
    BY <1>3 DEF RegisterTaken
  <2>2. QED
    BY <1>3, <2>1 DEF RegisterTaken
<1>4. ASSUME NEW p \in Procs, Exhausted(p) PROVE TypeOK' /\ HasNode'
  BY <1>4 DEF Exhausted
<1>5. ASSUME NEW p \in Procs, Heartbeat(p) PROVE TypeOK' /\ HasNode'
  <2>1. ttl' \in [Nodes -> 0..Ttl]
    <3>1. node[p] \in Nodes /\ Ttl \in 0..Ttl /\ 0 \in 0..Ttl
      BY <1>5 DEF Heartbeat
    <3>2. QED
      BY <1>5, <3>1 DEF Heartbeat
  <2>2. due' \in [Procs -> BOOLEAN]
    BY <1>5, Zenon DEF Heartbeat
  <2>3. QED
    BY <1>5, <2>1, <2>2 DEF Heartbeat
<1>6. ASSUME NEW p \in Procs, HeartbeatFails(p) PROVE TypeOK' /\ HasNode'
  <2>1. due' \in [Procs -> BOOLEAN]
    BY <1>6, Zenon DEF HeartbeatFails
  <2>2. QED
    BY <1>6, <2>1 DEF HeartbeatFails
<1>7. ASSUME NEW p \in Procs, Shutdown(p) PROVE TypeOK' /\ HasNode'
  <2>1. ttl' \in [Nodes -> 0..Ttl]
    <3>1. node[p] \in Nodes /\ 0 \in 0..Ttl
      BY <1>7 DEF Shutdown
    <3>2. QED
      BY <1>7, <3>1 DEF Shutdown
  <2>2. due' \in [Procs -> BOOLEAN]
    BY <1>7, Zenon DEF Shutdown
  <2>3. QED
    BY <1>7, <2>1, <2>2 DEF Shutdown
<1>8. ASSUME NEW p \in Procs, Crash(p) PROVE TypeOK' /\ HasNode'
  BY <1>8 DEF Crash
<1>9. ASSUME NEW p \in Procs, NEW t \in Threads, Enter(p, t) PROVE TypeOK' /\ HasNode'
  BY <1>9 DEF Enter
<1>10. ASSUME NEW p \in Procs, NEW t \in Threads, TillNextMs(p, t) PROVE TypeOK' /\ HasNode'
  BY <1>10 DEF TillNextMs
<1>11. ASSUME NEW p \in Procs, NEW t \in Threads, NextSequence(p, t) PROVE TypeOK' /\ HasNode'
  <2>1. SequenceAfter(p, t) \in 0..(SeqSize - 1)
    BY WrapLemma DEF SequenceAfter
  <2>2. QED
    BY <1>11, <2>1 DEF NextSequence
<1>12. ASSUME NEW p \in Procs, NEW t \in Threads, Return(p, t) PROVE TypeOK' /\ HasNode'
  <2>1. [n |-> count, proc |-> p, node |-> node[p], ts |-> ts[p][t], seq |-> seq[p]] \in Id
    BY <1>12 DEF Return, Id
  <2>2. QED
    BY <1>12, <2>1 DEF Return
<1>13. ASSUME ClockForward PROVE TypeOK' /\ HasNode'
  BY <1>13 DEF ClockForward
<1>14. ASSUME ClockBack PROVE TypeOK' /\ HasNode'
  BY <1>14 DEF ClockBack
<1>15. ASSUME HeartbeatInterval PROVE TypeOK' /\ HasNode'
  <2>1. ttl' \in [Nodes -> 0..Ttl]
    BY <1>15 DEF HeartbeatInterval
  <2>2. due' \in [Procs -> BOOLEAN]
    <3>1. \A p \in Procs : (phase[p] = "running") \in BOOLEAN
      OBVIOUS
    <3>2. due' = [p \in Procs |-> phase[p] = "running"]
      BY <1>15 DEF HeartbeatInterval
    <3>3. QED
      BY <3>1, <3>2, Zenon
  <2>3. lapsed' \subseteq Nodes
    BY <1>15 DEF HeartbeatInterval
  <2>4. QED
    BY <1>15, <2>1, <2>2, <2>3 DEF HeartbeatInterval
<1>16. ASSUME UNCHANGED vars PROVE TypeOK' /\ HasNode'
  BY <1>16 DEF vars
<1>17. QED
  BY <1>1, <1>2, <1>3, <1>4, <1>5, <1>6, <1>7, <1>8, <1>9, <1>10, <1>11, <1>12,
     <1>13, <1>14, <1>15, <1>16 DEF Next, Lease, Generate

-----------------------------------------------------------------------------
(* The lease.                                                              *)

\* The lease invariant survives every step: only a lapse takes a key from a
\* running owner, and SET NX gives a node only when its key is gone.
LEMMA LeaseNext ==
    TypeOK /\ HasNode /\ LeaseInv /\ [Next]_vars => LeaseInv'
<1> SUFFICES ASSUME TypeOK, HasNode, LeaseInv, [Next]_vars PROVE LeaseInv'
  OBVIOUS
<1> USE SnowflakeAssumption DEF TypeOK, HasNode, LeaseInv, NodeExclusive, Nodes
<1>1. ASSUME NEW p \in Procs, Scan(p) PROVE LeaseInv'
  BY <1>1 DEF Scan
<1>2. ASSUME NEW p \in Procs, Register(p) PROVE LeaseInv'
  <2>1. PICK n \in Nodes : /\ ttl[n] = 0
                           /\ ttl' = [ttl EXCEPT ![n] = Ttl]
                           /\ node' = [node EXCEPT ![p] = n]
    BY <1>2 DEF Register, KeyFree
  <2>2. \A q \in Procs : (phase[q] = "running" /\ node[q] = n) => n \in lapsed
    BY <2>1
  <2>3. /\ lapsed' = lapsed
        /\ \A q \in Procs : /\ phase'[q] = IF q = p THEN "running" ELSE phase[q]
                            /\ node'[q] = IF q = p THEN n ELSE node[q]
        /\ \A m \in Nodes : ttl'[m] = IF m = n THEN Ttl ELSE ttl[m]
    BY <1>2, <2>1 DEF Register
  <2>4. \A q \in Procs : (phase'[q] = "running" /\ node'[q] \notin lapsed') => ttl'[node'[q]] > 0
    <3> SUFFICES ASSUME NEW q \in Procs, phase'[q] = "running", node'[q] \notin lapsed'
                 PROVE  ttl'[node'[q]] > 0
      OBVIOUS
    <3>1. CASE node'[q] = n
      BY <2>1, <2>3, <3>1
    <3>2. CASE node'[q] # n
      <4>1. q # p /\ node[q] \in Nodes /\ ttl[node[q]] > 0
        BY <2>3, <3>2
      <4>2. QED
        BY <2>3, <3>2, <4>1
    <3>3. QED
      BY <3>1, <3>2
  <2>5. NodeExclusive'
    <3> SUFFICES ASSUME NEW q \in Procs, NEW r \in Procs, q # r,
                        phase'[q] = "running", phase'[r] = "running", node'[q] = node'[r]
                 PROVE  node'[q] \in lapsed
      BY <2>3 DEF NodeExclusive
    <3>1. CASE q = p \/ r = p
      BY <2>2, <2>3, <3>1
    <3>2. CASE q # p /\ r # p
      BY <2>3, <3>2
    <3>3. QED
      BY <3>1, <3>2
  <2>6. QED
    BY <2>4, <2>5
<1>3. ASSUME NEW p \in Procs, RegisterTaken(p) PROVE LeaseInv'
  BY <1>3 DEF RegisterTaken
<1>4. ASSUME NEW p \in Procs, Exhausted(p) PROVE LeaseInv'
  BY <1>4 DEF Exhausted
<1>5. ASSUME NEW p \in Procs, Heartbeat(p) PROVE LeaseInv'
  <2>1. phase' = phase /\ node' = node /\ lapsed' = lapsed
    BY <1>5 DEF Heartbeat
  <2>2. \A n \in Nodes : ttl[n] > 0 => ttl'[n] > 0
    BY <1>5 DEF Heartbeat
  <2>3. QED
    BY <2>1, <2>2
<1>6. ASSUME NEW p \in Procs, HeartbeatFails(p) PROVE LeaseInv'
  BY <1>6 DEF HeartbeatFails
<1>7. ASSUME NEW p \in Procs, Shutdown(p) PROVE LeaseInv'
  BY <1>7 DEF Shutdown
<1>8. ASSUME NEW p \in Procs, Crash(p) PROVE LeaseInv'
  BY <1>8 DEF Crash
<1>9. ASSUME UNCHANGED leaseVars PROVE LeaseInv'
  BY <1>9 DEF leaseVars
<1>10. ASSUME HeartbeatInterval PROVE LeaseInv'
  <2>1. /\ phase' = phase /\ node' = node /\ lapsed \subseteq lapsed'
        /\ \A n \in Nodes : ttl'[n] = IF ttl[n] > 0 THEN ttl[n] - 1 ELSE 0
    BY <1>10 DEF HeartbeatInterval
  <2>2. ASSUME NEW p \in Procs, phase[p] = "running", node[p] \notin lapsed'
        PROVE  ttl'[node[p]] > 0
    <3>1. node[p] \in Nodes /\ ttl[node[p]] > 0 /\ ttl[node[p]] # 1
      BY <1>10, <2>1, <2>2 DEF HeartbeatInterval
    <3>2. QED
      BY <2>1, <3>1
  <2>3. QED
    BY <2>1, <2>2
<1>11. QED
  BY <1>1, <1>2, <1>3, <1>4, <1>5, <1>6, <1>7, <1>8, <1>9, <1>10
     DEF Next, Lease, Generate, Enter, TillNextMs, NextSequence, Return,
         ClockForward, ClockBack, vars

-----------------------------------------------------------------------------
(* The generator.                                                          *)

\* Only the thread that holds the lock of a running process is inside generate().
LockHeld ==
    \A p \in Procs, t \in Threads :
        pc[p][t] # "idle" => lock[p] = t /\ phase[p] = "running"

\* IDs have distinct numbers.
Numbered ==
    /\ \A i \in issued : i.n < count
    /\ \A i, j \in issued : i.n = j.n => i = j

\* All IDs of a process are from its running time and up to last_timestamp.
UpToLast ==
    \A i \in issued : phase[i.proc] \in {"running", "stopped"} /\ i.ts <= last[i.proc]

\* A timestamp that was read, or is about to be stamped, is not before it.
ReadPastLast ==
    \A p \in Procs, t \in Threads : pc[p][t] \in {"read", "stamp"} => last[p] <= ts[p][t]

\* sequence covers the IDs of last_timestamp, except while a used-up sequence,
\* already 0, waits for the next millisecond, or an ID is about to be stamped.
SequenceCovers ==
    \A i \in issued :
        (phase[i.proc] = "running" /\ i.ts = last[i.proc]) =>
            \/ i.seq <= seq[i.proc]
            \/ \E t \in Threads : pc[i.proc][t] \in {"full", "stamp"}

\* What is about to be stamped is above every ID of the process.
StampAbove ==
    \A i \in issued : \A t \in Threads :
        pc[i.proc][t] = "stamp" =>
            i.ts < ts[i.proc][t] \/ (i.ts = ts[i.proc][t] /\ i.seq < seq[i.proc])

GenInv ==
    /\ LockHeld /\ Numbered /\ UpToLast /\ ReadPastLast
    /\ SequenceCovers /\ StampAbove /\ IdsIncrease

\* What TypeOK says of an ID, without the set of records.
LEMMA IdType ==
    ASSUME TypeOK, NEW i \in issued
    PROVE  /\ i.n \in Nat /\ i.proc \in Procs /\ i.node \in Nodes /\ i.ts \in Nat
           /\ i.seq \in Int
BY SnowflakeAssumption DEF TypeOK, Id

\* Steps of the lease and of the clock leave the generator alone; a process
\* that stops has no thread in it.
LEMMA GenLease ==
    ASSUME GenInv, TypeOK, UNCHANGED <<last, seq, issued, count>>,
           \A q \in Procs : phase[q] \in {"running", "stopped"} => phase'[q] \in {"running", "stopped"},
           \A q \in Procs :
               \/ pc'[q] = pc[q] /\ ts'[q] = ts[q] /\ lock'[q] = lock[q]
                  /\ (phase'[q] = "running" => phase[q] \in {"scanned", "running"})
                  /\ (phase'[q] = phase[q] \/ \A t \in Threads : pc[q][t] = "idle")
               \/ phase'[q] # "running" /\ \A t \in Threads : pc'[q][t] = "idle"
    PROVE  GenInv'
<1>1. \A i \in issued : i.proc \in Procs
  BY IdType
<1>2. LockHeld' /\ Numbered' /\ UpToLast' /\ ReadPastLast'
  BY <1>1 DEF GenInv, LockHeld, Numbered, UpToLast, ReadPastLast
<1>3. SequenceCovers'
  BY <1>1 DEF GenInv, SequenceCovers, UpToLast
<1>4. StampAbove'
  BY <1>1 DEF GenInv, StampAbove
<1>5. IdsIncrease'
  BY DEF GenInv, IdsIncrease, Below
<1>6. QED
  BY <1>2, <1>3, <1>4, <1>5 DEF GenInv

\* Every step keeps the order of the IDs of a process.
LEMMA GenNext ==
    TypeOK /\ HasNode /\ GenInv /\ [Next]_vars => GenInv'
<1> SUFFICES ASSUME TypeOK, HasNode, GenInv, [Next]_vars PROVE GenInv'
  OBVIOUS
<1>id. \A i \in issued : i.n \in Nat /\ i.proc \in Procs /\ i.ts \in Nat /\ i.seq \in Int
  BY IdType
<1>num. /\ clock \in Int
        /\ \A p \in Procs : last[p] \in Int /\ seq[p] \in Int
        /\ \A p \in Procs, t \in Threads : ts[p][t] \in Int
  BY SnowflakeAssumption DEF TypeOK
<1>1. ASSUME NEW p \in Procs, Lease(p), ~Crash(p) PROVE GenInv'
  <2>1. phase[p] # "running" \/ lock[p] = None => \A t \in Threads : pc[p][t] = "idle"
    BY SnowflakeAssumption DEF GenInv, LockHeld
  <2>2. QED
    BY <1>1, <2>1, GenLease DEF TypeOK, Lease, Scan, Register, RegisterTaken, Exhausted, Heartbeat,
       HeartbeatFails, Shutdown, genVars
<1>2. ASSUME NEW p \in Procs, Crash(p) PROVE GenInv'
  BY <1>2, GenLease DEF TypeOK, Crash
<1>3. ASSUME NEW p \in Procs, NEW t \in Threads, Enter(p, t) PROVE GenInv'
  <2>1. /\ UNCHANGED <<last, seq, issued, count, phase>>
        /\ lock[p] = None /\ phase[p] = "running"
        /\ \A q \in Procs : lock'[q] = IF q = p THEN t ELSE lock[q]
        /\ \A q \in Procs, u \in Threads :
              /\ pc'[q][u] = IF q = p /\ u = t
                             THEN (IF clock < last[p] THEN "back" ELSE "read") ELSE pc[q][u]
              /\ ts'[q][u] = IF q = p /\ u = t THEN clock ELSE ts[q][u]
    BY <1>3 DEF Enter, LockFree, leaseVars, TypeOK
  <2>2. \A u \in Threads : pc[p][u] = "idle"
    BY <2>1, SnowflakeAssumption DEF GenInv, LockHeld
  <2>3. LockHeld' /\ Numbered' /\ UpToLast'
    BY <2>1, <2>2 DEF GenInv, LockHeld, Numbered, UpToLast
  <2>4. ReadPastLast'
    BY <2>1, <1>num DEF GenInv, ReadPastLast
  <2>5. SequenceCovers'
    BY <2>1, <2>2, <1>id DEF GenInv, SequenceCovers
  <2>6. StampAbove'
    BY <2>1, <2>2, <1>id DEF GenInv, StampAbove
  <2>7. QED
    BY <2>1, <2>3, <2>4, <2>5, <2>6 DEF GenInv, IdsIncrease, Below
<1>4. ASSUME NEW p \in Procs, NEW t \in Threads, TillNextMs(p, t) PROVE GenInv'
  <2>1. /\ UNCHANGED <<last, seq, lock, issued, count, phase>>
        /\ pc[p][t] \in {"back", "full"} /\ clock > last[p]
        /\ \A q \in Procs, u \in Threads :
              /\ pc'[q][u] = IF q = p /\ u = t
                             THEN (IF pc[p][t] = "back" THEN "read" ELSE "stamp") ELSE pc[q][u]
              /\ ts'[q][u] = IF q = p /\ u = t THEN clock ELSE ts[q][u]
    BY <1>4 DEF TillNextMs, leaseVars, TypeOK
  <2>2. LockHeld' /\ Numbered' /\ UpToLast'
    BY <2>1 DEF GenInv, LockHeld, Numbered, UpToLast
  <2>3. ReadPastLast'
    BY <2>1, <1>num DEF GenInv, ReadPastLast
  <2>4. SequenceCovers'
    <3> SUFFICES ASSUME NEW i \in issued, phase[i.proc] = "running", i.ts = last[i.proc],
                        ~(i.seq <= seq[i.proc])
                 PROVE  \E u \in Threads : pc'[i.proc][u] \in {"full", "stamp"}
      BY <2>1 DEF SequenceCovers
    <3>1. PICK u \in Threads : pc[i.proc][u] \in {"full", "stamp"}
      BY DEF GenInv, SequenceCovers
    <3>2. pc'[i.proc][u] \in {"full", "stamp"}
      BY <2>1, <3>1, <1>id
    <3>3. QED
      BY <3>2
  <2>5. StampAbove'
    <3> SUFFICES ASSUME NEW i \in issued, NEW u \in Threads, pc'[i.proc][u] = "stamp"
                 PROVE  i.ts < ts'[i.proc][u]
                        \/ (i.ts = ts'[i.proc][u] /\ i.seq < seq'[i.proc])
      BY <2>1 DEF StampAbove
    <3>1. CASE i.proc = p /\ u = t
      BY <2>1, <3>1, <1>id, <1>num DEF GenInv, UpToLast
    <3>2. CASE ~(i.proc = p /\ u = t)
      BY <2>1, <3>2, <1>id DEF GenInv, StampAbove
    <3>3. QED
      BY <3>1, <3>2
  <2>6. QED
    BY <2>1, <2>2, <2>3, <2>4, <2>5 DEF GenInv, IdsIncrease, Below
<1>5. ASSUME NEW p \in Procs, NEW t \in Threads, NextSequence(p, t) PROVE GenInv'
  <2>1. /\ UNCHANGED <<last, lock, ts, issued, count, phase>>
        /\ pc[p][t] = "read"
        /\ \A q \in Procs : seq'[q] = IF q = p THEN SequenceAfter(p, t) ELSE seq[q]
        /\ \A q \in Procs, u \in Threads :
              pc'[q][u] = IF q = p /\ u = t
                         THEN (IF UsedUp(p, t) THEN "full" ELSE "stamp") ELSE pc[q][u]
    BY <1>5 DEF NextSequence, leaseVars, TypeOK
  <2>2. \A u \in Threads : u # t => pc[p][u] = "idle"
    BY <2>1 DEF GenInv, LockHeld
  <2>3. LockHeld' /\ Numbered' /\ UpToLast'
    BY <2>1 DEF GenInv, LockHeld, Numbered, UpToLast
  <2>4. ReadPastLast'
    BY <2>1 DEF GenInv, ReadPastLast
  <2>5. SequenceCovers'
    <3> SUFFICES ASSUME NEW i \in issued, phase[i.proc] = "running", i.ts = last[i.proc]
                 PROVE  \/ i.seq <= seq'[i.proc]
                        \/ \E u \in Threads : pc'[i.proc][u] \in {"full", "stamp"}
      BY <2>1 DEF SequenceCovers
    <3>1. CASE i.proc = p
      BY <2>1, <3>1
    <3>2. CASE i.proc # p
      BY <2>1, <3>2, <1>id DEF GenInv, SequenceCovers
    <3>3. QED
      BY <3>1, <3>2
  <2>6. StampAbove'
    <3> SUFFICES ASSUME NEW i \in issued, NEW u \in Threads, pc'[i.proc][u] = "stamp"
                 PROVE  i.ts < ts[i.proc][u]
                        \/ (i.ts = ts[i.proc][u] /\ i.seq < seq'[i.proc])
      BY <2>1 DEF StampAbove
    <3>1. CASE i.proc # p
      BY <2>1, <3>1, <1>id DEF GenInv, StampAbove
    <3>2. CASE i.proc = p
      <4>1. u = t /\ ~UsedUp(p, t)
        BY <2>1, <2>2, <3>2
      <4>2. last[p] <= ts[p][t] /\ i.ts <= last[p]
        BY <2>1, <3>2 DEF GenInv, ReadPastLast, UpToLast
      <4>3. CASE ts[p][t] # last[p]
        BY <4>1, <4>2, <4>3, <3>2, <1>id, <1>num
      <4>4. CASE ts[p][t] = last[p]
        <5>1. SequenceAfter(p, t) = seq[p] + 1
          BY <4>1, <4>4, WrapLemma DEF UsedUp, SequenceAfter, TypeOK
        <5>2. phase[p] = "running"
          BY <1>5 DEF NextSequence
        <5>3. i.ts = last[p] => i.seq <= seq[p]
          BY <2>1, <2>2, <3>2, <5>2 DEF GenInv, SequenceCovers
        <5>4. seq[p] \in Int /\ last[p] \in Int
          BY SnowflakeAssumption DEF TypeOK
        <5>5. QED
          BY <2>1, <3>2, <4>1, <4>2, <4>4, <5>1, <5>3, <5>4, <1>id
      <4>5. QED
        BY <4>3, <4>4
    <3>3. QED
      BY <3>1, <3>2
  <2>7. QED
    BY <2>1, <2>3, <2>4, <2>5, <2>6 DEF GenInv, IdsIncrease, Below
<1>6. ASSUME NEW p \in Procs, NEW t \in Threads, Return(p, t) PROVE GenInv'
  <2> DEFINE new == [n |-> count, proc |-> p, node |-> node[p],
                     ts |-> ts[p][t], seq |-> seq[p]]
  <2>1. /\ UNCHANGED <<seq, phase>>
        /\ phase[p] = "running" /\ pc[p][t] = "stamp"
        /\ issued' = issued \cup {new}
        /\ count' = count + 1
        /\ \A q \in Procs : last'[q] = IF q = p THEN ts[p][t] ELSE last[q]
        /\ \A q \in Procs : lock'[q] = IF q = p THEN None ELSE lock[q]
        /\ \A q \in Procs, u \in Threads :
              /\ pc'[q][u] = IF q = p /\ u = t THEN "idle" ELSE pc[q][u]
              /\ ts'[q][u] = IF q = p /\ u = t THEN 0 ELSE ts[q][u]
    BY <1>6 DEF Return, leaseVars, TypeOK
  <2>2. /\ new.n = count /\ new.proc = p /\ new.ts = ts[p][t] /\ new.seq = seq[p]
        /\ count \in Nat /\ ts[p][t] \in Nat /\ seq[p] \in Int /\ last[p] \in Int
    BY SnowflakeAssumption DEF TypeOK
  <2>3. \A u \in Threads : u # t => pc[p][u] = "idle"
    BY <2>1 DEF GenInv, LockHeld
  <2>4. \A i \in issued : i.proc = p =>
            i.ts < ts[p][t] \/ (i.ts = ts[p][t] /\ i.seq < seq[p])
    BY <2>1 DEF GenInv, StampAbove
  <2> HIDE DEF new
  <2>5. LockHeld'
    BY <2>1, <2>3 DEF GenInv, LockHeld
  <2>6. Numbered'
    BY <2>1, <2>2, <1>id DEF GenInv, Numbered
  <2>7. UpToLast'
    BY <2>1, <2>2, <2>4, <1>id DEF GenInv, UpToLast
  <2>8. ReadPastLast'
    BY <2>1, <2>3 DEF GenInv, ReadPastLast
  <2>9. SequenceCovers'
    <3> SUFFICES ASSUME NEW i \in issued', phase[i.proc] = "running", i.ts = last'[i.proc]
                 PROVE  \/ i.seq <= seq[i.proc]
                        \/ \E u \in Threads : pc'[i.proc][u] \in {"full", "stamp"}
      BY <2>1 DEF SequenceCovers
    <3>1. CASE i.proc = p
      BY <2>1, <2>2, <2>4, <3>1, <1>id
    <3>2. CASE i.proc # p
      BY <2>1, <2>2, <3>2, <1>id DEF GenInv, SequenceCovers
    <3>3. QED
      BY <3>1, <3>2
  <2>10. StampAbove'
    BY <2>1, <2>2, <2>3, <1>id DEF GenInv, StampAbove
  <2>11. IdsIncrease'
    BY <2>1, <2>2, <2>4, <1>id DEF GenInv, Numbered, IdsIncrease, Below
  <2>12. QED
    BY <2>5, <2>6, <2>7, <2>8, <2>9, <2>10, <2>11 DEF GenInv
<1>7. ASSUME ClockForward \/ ClockBack \/ HeartbeatInterval \/ UNCHANGED vars PROVE GenInv'
  BY <1>7, GenLease DEF ClockForward, ClockBack, HeartbeatInterval, vars, genVars, leaseVars
<1>8. QED
  BY <1>1, <1>2, <1>3, <1>4, <1>5, <1>6, <1>7 DEF Next, Lease, Generate

-----------------------------------------------------------------------------
(* The succession of processes on a node.                                  *)

\* While the clock is not stepped back, timestamps lie between the birth of
\* their process and now.
InTime ==
    /\ \A p \in Procs : born[p] <= clock /\ last[p] <= clock
    /\ \A p \in Procs, t \in Threads :
          pc[p][t] # "idle" => born[p] <= ts[p][t] /\ ts[p][t] <= clock
    /\ \A i \in issued : born[i.proc] <= i.ts /\ i.ts <= clock

\* p left the node before q came, and returned no ID after that.
Retired(p, q) ==
    /\ phase[p] = "stopped"
    /\ \A i \in issued : i.proc = p => i.ts <= born[q]

\* Two processes that have had the same node had it one after the other.
Succession ==
    \A p, q \in Procs :
        (p # q /\ node[p] = node[q] /\ node[p] # None /\ node[p] \notin lapsed)
            => Retired(p, q) \/ Retired(q, p)

\* An ID carries the node its process leased.
NodeOfId == \A i \in issued : i.node = node[i.proc]

SuccessionInv == NodeOfId /\ (stepped = 0 => InTime /\ Succession)

IInv == TypeOK /\ HasNode /\ LeaseInv /\ GenInv /\ SuccessionInv

\* An ID once returned keeps its node: a process leases once in its life.
LEMMA NodeOfIdNext ==
    IInv /\ [Next]_vars => NodeOfId'
<1> SUFFICES ASSUME IInv, [Next]_vars PROVE NodeOfId'
  OBVIOUS
<1>1. \A i \in issued : i.proc \in Procs /\ phase[i.proc] \in {"running", "stopped"}
  BY IdType DEF IInv, GenInv, UpToLast
<1>2. \A q \in Procs : phase[q] \in {"running", "stopped"} => node'[q] = node[q]
  BY DEF IInv, TypeOK, Next, Lease, Generate, Scan, Register, RegisterTaken, Exhausted,
     Heartbeat, HeartbeatFails, Shutdown, Crash, Enter, TillNextMs, NextSequence, Return,
     ClockForward, ClockBack, HeartbeatInterval, vars, leaseVars
<1>3. CASE \E p \in Procs, t \in Threads : Return(p, t)
  BY <1>1, <1>3 DEF IInv, SuccessionInv, NodeOfId, Return, leaseVars
<1>4. CASE issued' = issued
  BY <1>1, <1>2, <1>4 DEF IInv, SuccessionInv, NodeOfId
<1>5. QED
  BY <1>3, <1>4 DEF Next, Lease, Generate, Scan, Register, RegisterTaken, Exhausted,
     Heartbeat, HeartbeatFails, Shutdown, Crash, Enter, TillNextMs, NextSequence,
     ClockForward, ClockBack, HeartbeatInterval, vars, genVars

\* Timestamps stay between birth and now until the clock is stepped back.
LEMMA InTimeNext ==
    IInv /\ [Next]_vars /\ stepped = 0 /\ stepped' = 0 => InTime'
<1> SUFFICES ASSUME IInv, [Next]_vars, stepped = 0, stepped' = 0 PROVE InTime'
  OBVIOUS
<1>id. \A i \in issued : i.proc \in Procs /\ i.ts \in Nat
  BY IdType DEF IInv
<1>num. /\ clock \in Int
        /\ \A p \in Procs : last[p] \in Int /\ born[p] \in Int
        /\ \A p \in Procs, t \in Threads : ts[p][t] \in Int
  BY DEF IInv, TypeOK
<1>in. InTime
  BY DEF IInv, SuccessionInv
<1>1. ASSUME NEW p \in Procs, Register(p) PROVE InTime'
  <2>1. /\ UNCHANGED <<last, pc, ts, issued, clock>>
        /\ \A q \in Procs : born'[q] = IF q = p THEN clock ELSE born[q]
        /\ phase[p] = "scanned"
    BY <1>1 DEF Register, genVars, clockVars, IInv, TypeOK
  <2>2. \A i \in issued : i.proc # p
    BY <2>1 DEF IInv, GenInv, UpToLast
  <2>3. \A t \in Threads : pc[p][t] = "idle"
    BY <2>1 DEF IInv, GenInv, LockHeld
  <2>4. QED
    BY <2>1, <2>2, <2>3, <1>in, <1>id, <1>num DEF InTime
<1>2. ASSUME NEW p \in Procs, Crash(p) PROVE InTime'
  BY <1>2, <1>in, <1>id DEF Crash, InTime, clockVars, IInv, TypeOK
<1>3. ASSUME NEW p \in Procs, NEW t \in Threads, Enter(p, t) \/ TillNextMs(p, t) PROVE InTime'
  <2>1. /\ UNCHANGED <<last, issued, clock, born>>
        /\ \A q \in Procs, u \in Threads :
              /\ ~(q = p /\ u = t) => pc'[q][u] = pc[q][u] /\ ts'[q][u] = ts[q][u]
              /\ ts'[p][t] = clock
    BY <1>3 DEF Enter, TillNextMs, leaseVars, clockVars, IInv, TypeOK
  <2>2. QED
    BY <2>1, <1>in, <1>id, <1>num DEF InTime
<1>4. ASSUME NEW p \in Procs, NEW t \in Threads, NextSequence(p, t) PROVE InTime'
  <2>1. /\ UNCHANGED <<last, issued, clock, born, ts>>
        /\ pc[p][t] # "idle"
        /\ \A q \in Procs, u \in Threads : ~(q = p /\ u = t) => pc'[q][u] = pc[q][u]
    BY <1>4 DEF NextSequence, leaseVars, clockVars, IInv, TypeOK
  <2>2. QED
    BY <2>1, <1>in, <1>id, <1>num DEF InTime
<1>5. ASSUME NEW p \in Procs, NEW t \in Threads, Return(p, t) PROVE InTime'
  <2>1. /\ UNCHANGED <<clock, born>>
        /\ pc[p][t] # "idle"
        /\ \A q \in Procs, u \in Threads :
              /\ ~(q = p /\ u = t) => pc'[q][u] = pc[q][u] /\ ts'[q][u] = ts[q][u]
              /\ pc'[p][t] = "idle"
        /\ \A q \in Procs : last'[q] = IF q = p THEN ts[p][t] ELSE last[q]
        /\ \A i \in issued' : i \in issued \/ (i.proc = p /\ i.ts = ts[p][t])
    BY <1>5 DEF Return, leaseVars, clockVars, IInv, TypeOK
  <2>2. QED
    BY <2>1, <1>in, <1>id, <1>num DEF InTime
<1>6. ASSUME clock' \in {clock, clock + 1}, UNCHANGED <<last, pc, ts, issued, born>> PROVE InTime'
  BY <1>6, <1>in, <1>id, <1>num DEF InTime
<1>7. QED
  BY <1>1, <1>2, <1>3, <1>4, <1>5, <1>6
     DEF Next, Lease, Generate, Scan, RegisterTaken, Exhausted, Heartbeat, HeartbeatFails,
         Shutdown, ClockForward, ClockBack, HeartbeatInterval, vars, leaseVars, genVars,
         clockVars, IInv, TypeOK

\* A node that never lapsed goes from one process to the next only after the
\* first one stopped.
LEMMA SuccessionNext ==
    IInv /\ [Next]_vars /\ stepped = 0 /\ stepped' = 0 => Succession'
<1> SUFFICES ASSUME IInv, [Next]_vars, stepped = 0, stepped' = 0 PROVE Succession'
  OBVIOUS
<1>id. \A i \in issued : /\ i.proc \in Procs /\ i.ts \in Nat /\ i.ts <= clock
                         /\ phase[i.proc] \in {"running", "stopped"}
  BY IdType DEF IInv, SuccessionInv, InTime, GenInv, UpToLast
<1>s. Succession
  BY DEF IInv, SuccessionInv
<1>1. ASSUME NEW p \in Procs, Register(p) PROVE Succession'
  <2>1. PICK n \in Nodes : ttl[n] = 0 /\ node' = [node EXCEPT ![p] = n]
    BY <1>1 DEF Register, KeyFree
  <2>2. /\ UNCHANGED <<issued, lapsed>>
        /\ phase[p] = "scanned"
        /\ \A q \in Procs : /\ node'[q] = IF q = p THEN n ELSE node[q]
                            /\ born'[q] = IF q = p THEN clock ELSE born[q]
                            /\ q # p => phase'[q] = phase[q]
    BY <1>1, <2>1 DEF Register, genVars, IInv, TypeOK
  <2>3. ASSUME NEW q \in Procs, q # p, node[q] = n, n \notin lapsed
        PROVE  Retired(q, p)'
    <3>1. n # None
      BY SnowflakeAssumption DEF Nodes
    <3>2. phase[q] = "stopped"
      BY <2>1, <2>3, <3>1 DEF IInv, HasNode, LeaseInv
    <3>3. QED
      BY <2>2, <2>3, <3>2, <1>id DEF Retired
  <2>4. ASSUME NEW q \in Procs, NEW r \in Procs, q # p, r # p, Retired(q, r)
        PROVE  Retired(q, r)'
    BY <2>2, <2>4 DEF Retired
  <2>5. QED
    BY <2>2, <2>3, <2>4, <1>s DEF Succession
<1>2. ASSUME NEW p \in Procs, NEW t \in Threads, Return(p, t) PROVE Succession'
  <2>1. /\ UNCHANGED <<phase, node, lapsed, born>>
        /\ phase[p] = "running"
        /\ \A i \in issued' : i \in issued \/ i.proc = p
    BY <1>2 DEF Return, leaseVars
  <2>2. \A q, r \in Procs : Retired(q, r) => Retired(q, r)'
    BY <2>1 DEF Retired
  <2>3. QED
    BY <2>1, <2>2, <1>s DEF Succession
<1>3. ASSUME UNCHANGED <<node, issued, born>>, lapsed \subseteq lapsed',
             \A q \in Procs : phase[q] = "stopped" => phase'[q] = "stopped"
      PROVE  Succession'
  BY <1>3, <1>s DEF Succession, Retired
<1>4. QED
  BY <1>1, <1>2, <1>3
     DEF Next, Lease, Generate, Scan, RegisterTaken, Exhausted, Heartbeat, HeartbeatFails,
         Shutdown, Crash, Enter, TillNextMs, NextSequence, ClockForward, ClockBack,
         HeartbeatInterval, vars, leaseVars, genVars, IInv, TypeOK

-----------------------------------------------------------------------------
(* The theorems.                                                           *)

\* The initial states have the invariant.
LEMMA IInvInit == Init => IInv
<1> SUFFICES ASSUME Init PROVE IInv
  OBVIOUS
<1>1. TypeOK /\ HasNode
  BY TypeInit
<1>2. LeaseInv
  BY DEF Init, LeaseInv, NodeExclusive
<1>3. GenInv
  BY DEF Init, GenInv, LockHeld, Numbered, UpToLast, ReadPastLast, SequenceCovers,
     StampAbove, IdsIncrease
<1>4. SuccessionInv
  BY DEF Init, SuccessionInv, NodeOfId, InTime, Succession
<1>5. QED
  BY <1>1, <1>2, <1>3, <1>4 DEF IInv

\* Every step keeps the invariant.
LEMMA IInvNext == IInv /\ [Next]_vars => IInv'
<1> SUFFICES ASSUME IInv, [Next]_vars PROVE IInv'
  OBVIOUS
<1>1. TypeOK' /\ HasNode'
  BY TypeNext DEF IInv
<1>2. LeaseInv'
  BY LeaseNext DEF IInv
<1>3. GenInv'
  BY GenNext DEF IInv
<1>4. stepped' = 0 => stepped = 0
  BY DEF IInv, TypeOK, Next, Lease, Generate, Scan, Register, RegisterTaken, Exhausted,
     Heartbeat, HeartbeatFails, Shutdown, Crash, Enter, TillNextMs, NextSequence, Return,
     ClockForward, ClockBack, HeartbeatInterval, vars, clockVars
<1>5. SuccessionInv'
  BY <1>4, NodeOfIdNext, InTimeNext, SuccessionNext DEF SuccessionInv
<1>6. QED
  BY <1>1, <1>2, <1>3, <1>5 DEF IInv

\* The invariant holds of every behaviour.
LEMMA IInvAlways == Spec => []IInv
BY IInvInit, IInvNext, PTL DEF Spec

\* A number is one multiple and one remainder.
LEMMA DigitsUnique ==
    ASSUME NEW B \in Nat \ {0}, NEW a \in Int, NEW b \in Int,
           NEW r \in 0..(B - 1), NEW s \in 0..(B - 1), a * B + r = b * B + s
    PROVE  a = b /\ r = s
<1>1. (a - b) * B = s - r
  OBVIOUS
<1>2. ASSUME NEW x \in Int, NEW y \in Int, x >= y + 1 PROVE (x - y) * B >= B
  BY <1>2
<1>3. ~(a >= b + 1)
  BY <1>1, <1>2
<1>4. ~(b >= a + 1)
  <2>1. (b - a) * B = r - s
    OBVIOUS
  <2>2. QED
    BY <2>1, <1>2
<1>5. a = b
  BY <1>3, <1>4
<1>6. QED
  BY <1>5

\* The same for two bit fields below a number.
LEMMA FieldsUnique ==
    \A N, S \in Nat \ {0} : \A a, b \in Int :
        \A m, n \in 0..(N - 1) : \A r, s \in 0..(S - 1) :
            (a * N + m) * S + r = (b * N + n) * S + s => a = b /\ m = n /\ r = s
<1> SUFFICES ASSUME NEW N \in Nat \ {0}, NEW S \in Nat \ {0},
                    NEW a \in Int, NEW b \in Int,
                    NEW m \in 0..(N - 1), NEW n \in 0..(N - 1),
                    NEW r \in 0..(S - 1), NEW s \in 0..(S - 1),
                    (a * N + m) * S + r = (b * N + n) * S + s
             PROVE  a = b /\ m = n /\ r = s
  OBVIOUS
<1>1. \A x, y \in Int : x * S + r = y * S + s => x = y /\ r = s
  BY DigitsUnique
<1>2. a * N + m \in Int /\ b * N + n \in Int
  OBVIOUS
<1>3. a * N + m = b * N + n /\ r = s
  BY <1>1, <1>2
<1>4. a = b /\ m = n
  BY <1>3, DigitsUnique
<1>5. QED
  BY <1>3, <1>4

\* Equal 64-bit values have equal timestamp, node and sequence fields.
LEMMA PackInjective ==
    ASSUME NEW i \in Id, NEW j \in Id, Pack(i) = Pack(j)
    PROVE  i.ts = j.ts /\ i.node = j.node /\ i.seq = j.seq
<1> DEFINE N == MaxNode + 1
<1>1. /\ N \in Nat \ {0} /\ SeqSize \in Nat \ {0}
      /\ i.ts \in Int /\ j.ts \in Int
      /\ i.node \in 0..(N - 1) /\ j.node \in 0..(N - 1)
      /\ i.seq \in 0..(SeqSize - 1) /\ j.seq \in 0..(SeqSize - 1)
  BY SnowflakeAssumption DEF Id, Nodes
<1>2. (i.ts * N + i.node) * SeqSize + i.seq = (j.ts * N + j.node) * SeqSize + j.seq
  BY DEF Pack
<1> HIDE DEF N
<1>ts. i.ts \in Int /\ j.ts \in Int
  BY <1>1
<1>3. \A a, b \in Int : \A m, n \in 0..(N - 1) : \A r, s \in 0..(SeqSize - 1) :
          (a * N + m) * SeqSize + r = (b * N + n) * SeqSize + s => a = b /\ m = n /\ r = s
  BY <1>1, FieldsUnique, Zenon
<1>4. \A m, n \in 0..(N - 1) : \A r, s \in 0..(SeqSize - 1) :
          (i.ts * N + m) * SeqSize + r = (j.ts * N + n) * SeqSize + s
              => i.ts = j.ts /\ m = n /\ r = s
  BY <1>ts, <1>3, Zenon
<1>5. \A r, s \in 0..(SeqSize - 1) :
          (i.ts * N + i.node) * SeqSize + r = (j.ts * N + j.node) * SeqSize + s
              => i.ts = j.ts /\ i.node = j.node /\ r = s
  BY <1>1, <1>4, Zenon
<1>6. QED
  BY <1>1, <1>2, <1>5, Zenon

\* The invariant makes IDs unique.
LEMMA IInvUnique == IInv => IdsUnique
<1> SUFFICES ASSUME IInv, NEW i \in issued, NEW j \in issued, Pack(i) = Pack(j), i # j
             PROVE  /\ i.proc # j.proc
                    /\ \/ stepped > 0
                       \/ i.node \in lapsed
                       \/ i.ts \in {born[i.proc], born[j.proc]}
  BY DEF IdsUnique
<1>1. i \in Id /\ j \in Id
  BY DEF IInv, TypeOK
<1>2. i.ts = j.ts /\ i.node = j.node /\ i.seq = j.seq
  BY <1>1, PackInjective
<1>3. /\ i.n \in Nat /\ j.n \in Nat /\ i.n # j.n
      /\ i.ts \in Nat /\ i.seq \in Int /\ i.proc \in Procs /\ j.proc \in Procs
  BY <1>1, IdType DEF IInv, GenInv, Numbered
<1>4. i.proc # j.proc
  <2>1. CASE i.n < j.n
    BY <1>2, <1>3, <2>1 DEF IInv, GenInv, IdsIncrease, Below
  <2>2. CASE j.n < i.n
    BY <1>2, <1>3, <2>2 DEF IInv, GenInv, IdsIncrease, Below
  <2>3. QED
    BY <1>3, <2>1, <2>2
<1>5. ASSUME stepped = 0, i.node \notin lapsed
      PROVE  i.ts \in {born[i.proc], born[j.proc]}
  <2>1. /\ node[i.proc] = i.node /\ node[j.proc] = i.node
        /\ node[i.proc] # None
    BY <1>1, <1>2, SnowflakeAssumption DEF IInv, SuccessionInv, NodeOfId, Id, Nodes
  <2>2. Retired(i.proc, j.proc) \/ Retired(j.proc, i.proc)
    BY <1>3, <1>4, <1>5, <2>1 DEF IInv, SuccessionInv, Succession
  <2>3. born[i.proc] <= i.ts /\ born[j.proc] <= j.ts
    BY <1>5 DEF IInv, SuccessionInv, InTime
  <2>4. born[i.proc] \in Int /\ born[j.proc] \in Int
    BY <1>3 DEF IInv, TypeOK
  <2>5. i.ts <= born[j.proc] \/ j.ts <= born[i.proc]
    BY <2>2 DEF Retired
  <2>6. QED
    BY <1>2, <1>3, <2>3, <2>4, <2>5
<1>6. stepped = 0 \/ stepped > 0
  BY DEF IInv, TypeOK
<1>7. QED
  BY <1>4, <1>5, <1>6

\* The variables of the service keep their types: the sequence stays within
\* SEQUENCE_MASK and every ID carries a leased node.
THEOREM SnowflakeTypeOK == Spec => []TypeOK
BY IInvAlways, PTL DEF IInv

\* acquire_node_id and the heartbeat give a node to one running process at a
\* time, unless its key expired while its process was running.
THEOREM SnowflakeNodeExclusive == Spec => []NodeExclusive
<1>1. IInv => NodeExclusive
  BY DEF IInv, LeaseInv
<1>2. QED
  BY <1>1, IInvAlways, PTL

\* generate() never repeats or goes back within a process, whatever its
\* threads, the sequence limit and the clock do.
THEOREM SnowflakeIdsIncrease == Spec => []IdsIncrease
<1>1. IInv => IdsIncrease
  BY DEF IInv, GenInv
<1>2. QED
  BY <1>1, IInvAlways, PTL

\* The 64-bit IDs of all processes are distinct, up to the three cases that
\* IdsUnique names.
THEOREM SnowflakeIdsUnique == Spec => []IdsUnique
BY IInvUnique, IInvAlways, PTL
=============================================================================
