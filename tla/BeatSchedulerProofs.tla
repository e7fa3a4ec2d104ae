------------------------ MODULE BeatSchedulerProofs ------------------------
(***************************************************************************)
(* The beats, for every number of them, of edits and of tasks, every       *)
(* interval and every lifetime of the lock: the lock, the types, what a    *)
(* beat knows of the edits, and who remembers the last run of a task.      *)
(***************************************************************************)
EXTENDS BeatScheduler, TLAPS

TickPhases == {"check", "copy", "populate", "build", "reload", "load", "due"}

Phases == {"down", "waiting", "tick", "check", "copy", "populate", "build",
           "reload", "load", "due", "rest", "sync", "closing", "stopped"}

Resumes == {"copy", "populate", "build"}

ResumeOK == after \in [Beats -> Resumes]

\* A tick goes on after a reload with the next look or the heap.
LEMMA BeatResumeOK == Spec => []ResumeOK
<1>1. Init => ResumeOK
  BY DEF Init, ResumeOK, Resumes
<1>2. ResumeOK /\ [Next]_vars => ResumeOK'
  <2> SUFFICES ASSUME ResumeOK, [Next]_vars PROVE ResumeOK'
    OBVIOUS
  <2>1. CASE UNCHANGED vars \/ ClockForward \/ \E e \in Edits : EditNext(e)
    BY <2>1 DEF vars, beatVars, ClockForward, EditNext, Edit, Stamp, Announce, Commit, ResumeOK
  <2>2. ASSUME NEW b \in Beats, BeatNext(b) PROVE ResumeOK'
    <3>1. CASE CheckChanged(b)
      BY <3>1 DEF CheckChanged, Looks, NextLook, ResumeOK, Resumes
    <3>2. CASE Load(b) \/ Exit(b) \/ Crash(b)
      BY <3>2 DEF Load, Exit, Crash, Gone, ResumeOK, Resumes
    <3>3. CASE after' = after
      BY <3>3 DEF ResumeOK
    <3> QED
      BY <2>2, <3>1, <3>2, <3>3
         DEF BeatNext, Setup, Acquire, Extend, ExtendFails, FirstTick, Check, Build, NotDue, Wake,
             SyncDone, Close, Dispatch, EndOneOff, SyncSave, SyncReload, SyncFails
  <2> QED BY <2>1, <2>2 DEF Next
<1> QED BY <1>1, <1>2, PTL DEF Spec

\* A held key has time to live; who is inside a tick has the lock or has seen
\* it expire.
Held ==
    /\ holder \in Beats \cup {None}
    /\ ttl \in Nat
    /\ holder # None => ttl > 0
    /\ \A b \in Beats : bpc[b] \in TickPhases => holder = b \/ b \in lapsed

\* Only a beat that is past its last tick has dispatched too late: one that can
\* still extend the lock, is inside a tick or has yet to take the lock has not.
OnTime ==
    /\ late \in [Beats -> Nat]
    /\ \A b \in Beats :
        /\ late[b] <= 1
        /\ (holder = b \/ bpc[b] \in TickPhases \cup {"down", "waiting"}) => late[b] = 0

IInv ==
    /\ bpc \in [Beats -> Phases]
    /\ Held
    /\ OnTime

\* The invariant holds at the start: nobody is inside a tick.
LEMMA InitIInv == ASSUME BeatAssumption, Init PROVE IInv
<1>1. bpc \in [Beats -> {"down", "stopped"}]
  BY DEF Init
<1>2. bpc \in [Beats -> Phases]
  BY <1>1 DEF Phases
<1>3. Held
  BY <1>1, SMT DEF Init, Held, TickPhases, BeatAssumption
<1>4. OnTime
  BY DEF Init, OnTime
<1> QED BY <1>2, <1>3, <1>4 DEF IInv

\* A step of one beat that leaves the lock alone and enters a tick phase only
\* from another one keeps the invariant.
LEMMA QuietStep ==
    ASSUME IInv, NEW b \in Beats, NEW x \in Phases,
           bpc' = [bpc EXCEPT ![b] = x],
           x \in TickPhases => bpc[b] \in TickPhases,
           x \in {"down", "waiting"} => bpc[b] \in {"down", "waiting"},
           UNCHANGED <<holder, ttl, lapsed, late>>
    PROVE  IInv'
<1>1. bpc' \in [Beats -> Phases]
  BY DEF IInv
<1>2. \A c \in Beats : bpc'[c] \in TickPhases => bpc[c] \in TickPhases
  BY DEF IInv
<1>3. \A c \in Beats : bpc'[c] \in {"down", "waiting"} => bpc[c] \in {"down", "waiting"}
  BY DEF IInv
<1>4. Held'
  BY <1>2 DEF IInv, Held
<1>5. OnTime'
  BY <1>2, <1>3 DEF IInv, OnTime
<1> QED BY <1>1, <1>4, <1>5 DEF IInv

\* Every step of a beat keeps the invariant: most are quiet; taking, extending
\* and releasing the lock and dispatching are not.
LEMMA BeatNextIInv ==
    ASSUME BeatAssumption, ResumeOK, IInv, NEW b \in Beats, BeatNext(b) PROVE IInv'
<1> USE DEF TickPhases, Phases
<1>1. CASE Setup(b)
  BY <1>1, QuietStep DEF Setup
<1>2. CASE Acquire(b)
  <2>1. bpc' \in [Beats -> Phases]
    BY <1>2 DEF Acquire, IInv
  <2>2. Held'
    BY <1>2 DEF Acquire, LockFree, IInv, Held, BeatAssumption
  <2>3. OnTime'
    BY <1>2 DEF Acquire, LockFree, IInv, OnTime, BeatAssumption, runVars
  <2> QED BY <2>1, <2>2, <2>3 DEF IInv
<1>3. CASE Extend(b)
  <2>1. bpc' \in [Beats -> Phases]
    BY <1>3 DEF Extend, IInv
  <2>2. Held'
    BY <1>3 DEF Extend, Owns, IInv, Held, BeatAssumption
  <2>3. OnTime'
    BY <1>3 DEF Extend, Owns, IInv, OnTime, BeatAssumption, runVars
  <2> QED BY <2>1, <2>2, <2>3 DEF IInv
<1>4. CASE ExtendFails(b)
  BY <1>4, QuietStep DEF ExtendFails, runVars
<1>5. CASE Check(b)
  BY <1>5, QuietStep DEF Check, Looks, NextLook, runVars
<1>6. CASE Load(b)
  <2>1. bpc' = [bpc EXCEPT ![b] = after[b]] /\ after[b] \in {"copy", "populate", "build"}
    BY <1>6 DEF Load, ResumeOK, Resumes
  <2> QED BY <1>6, <2>1, QuietStep DEF Load
<1>7. CASE Build(b)
  BY <1>7, QuietStep DEF Build
<1>8. CASE CheckChanged(b)
  BY <1>8, QuietStep DEF CheckChanged, Looks, runVars
<1>20. CASE FirstTick(b)
  BY <1>20, QuietStep DEF FirstTick, runVars
<1>9. CASE NotDue(b)
  BY <1>9, QuietStep DEF NotDue, runVars
<1>10. CASE Wake(b)
  BY <1>10, QuietStep DEF Wake, runVars
<1>11. CASE SyncDone(b)
  BY <1>11, QuietStep DEF SyncDone, AfterSync, runVars
<1>12. CASE Close(b)
  <2>1. bpc' \in [Beats -> Phases]
    BY <1>12 DEF Close, IInv
  <2>2. Held'
    BY <1>12 DEF Close, IInv, Held, BeatAssumption
  <2>3. OnTime'
    BY <1>12 DEF Close, IInv, OnTime, BeatAssumption, runVars
  <2> QED BY <2>1, <2>2, <2>3 DEF IInv
<1>13. CASE Exit(b)
  BY <1>13, QuietStep DEF Exit, Gone, runVars
<1>14. CASE Crash(b)
  BY <1>14, QuietStep DEF Crash, Gone
<1>15. ASSUME NEW t \in Tasks, Dispatch(b, t) PROVE IInv'
  <2>1. bpc' \in [Beats -> Phases]
    BY <1>15 DEF Dispatch, IInv
  <2>2. Held'
    BY <1>15 DEF Dispatch, IInv, Held
  <2>3. OnTime'
    BY <1>15 DEF Dispatch, IInv, OnTime
  <2> QED BY <2>1, <2>2, <2>3 DEF IInv
<1>16. ASSUME NEW t \in Tasks, EndOneOff(b, t) PROVE IInv'
  BY <1>16, QuietStep DEF EndOneOff
<1>17. ASSUME NEW t \in Tasks, SyncSave(b, t) PROVE IInv'
  <2>1. bpc' = [bpc EXCEPT ![b] = bpc[b]] /\ bpc[b] \in Phases
    BY <1>17 DEF SyncSave, IInv
  <2> QED BY <1>17, <2>1, QuietStep DEF SyncSave
<1>18. ASSUME NEW t \in Tasks, SyncReload(b, t) PROVE IInv'
  <2>1. bpc' = [bpc EXCEPT ![b] = bpc[b]] /\ bpc[b] \in Phases
    BY <1>18 DEF SyncReload, IInv
  <2> QED BY <1>18, <2>1, QuietStep DEF SyncReload
<1>19. ASSUME NEW t \in Tasks, SyncFails(b, t) PROVE IInv'
  BY <1>19, QuietStep DEF SyncFails, Syncing, AfterSync
<1> QED
  BY <1>1, <1>2, <1>3, <1>4, <1>5, <1>6, <1>7, <1>8, <1>9, <1>10, <1>11, <1>12, <1>13,
     <1>14, <1>15, <1>16, <1>17, <1>18, <1>19, <1>20 DEF BeatNext

\* A second of time: a key that expires under its holder is remembered.
LEMMA ClockIInv == ASSUME BeatAssumption, IInv, ClockForward PROVE IInv'
<1>1. bpc' = bpc /\ late' = late
  BY DEF ClockForward, beatVars, runVars
<1>2. holder' = holder \/ holder' = None
  BY DEF ClockForward
<1>3. Held'
  BY <1>1 DEF ClockForward, IInv, Held
<1>4. OnTime'
  BY <1>1, <1>2 DEF IInv, OnTime, BeatAssumption
<1> QED BY <1>1, <1>3, <1>4 DEF IInv

\* The requests of administrators touch neither the lock nor the beats.
LEMMA EditIInv == ASSUME IInv, NEW e \in Edits, EditNext(e) PROVE IInv'
<1>1. UNCHANGED <<bpc, holder, ttl, lapsed, late>>
  BY DEF EditNext, Edit, Stamp, Announce, Commit, beatVars, runVars
<1> QED BY <1>1 DEF IInv, Held, OnTime

\* The invariant of the lock holds in every reachable state.
THEOREM BeatIInv == Spec => []IInv
<1>1. Init => IInv
  BY InitIInv, BeatAssumption
<1>2. ResumeOK /\ IInv /\ [Next]_vars => IInv'
  <2> SUFFICES ASSUME ResumeOK, IInv, [Next]_vars PROVE IInv'
    OBVIOUS
  <2>1. CASE UNCHANGED vars
    BY <2>1 DEF vars, beatVars, runVars, IInv, Held, OnTime
  <2>2. CASE Next
    BY <2>2, BeatNextIInv, ClockIInv, EditIInv, BeatAssumption DEF Next
  <2> QED BY <2>1, <2>2
<1> QED BY <1>1, <1>2, BeatResumeOK, PTL DEF Spec

\* Two beats are inside a tick at once only if a lock expired while it was held.
THEOREM BeatLockExclusive == Spec => []LockExclusive
<1>1. IInv => LockExclusive
  BY DEF IInv, Held, LockExclusive, InTick, TickPhases
<1> QED BY <1>1, BeatIInv, PTL

\* A beat dispatches at most one task after it has lost the lock.
THEOREM BeatLateDispatch == Spec => []LateDispatch
<1>1. IInv => LateDispatch
  BY DEF IInv, OnTime, LateDispatch
<1> QED BY <1>1, BeatIInv, PTL
-----------------------------------------------------------------------------
(* The types, as the steps need them: a schedule is a function on some tasks, *)
(* and the heap has its entries.                                           *)

Entries == [on: BOOLEAN, ran: BOOLEAN, last: Times, entry: Times]

Schedules == UNION {[S -> Entries] : S \in SUBSET Tasks}

HeapEntries == [time: Nat, entry: Times]

Heaps == UNION {[S -> HeapEntries] : S \in SUBSET Tasks}

Rows == [Tasks -> [status: {"on", "off", "deleted"}, ran: BOOLEAN, last: Times]]

SharedTypes ==
    /\ clock \in Times
    /\ rows \in Rows
    /\ lastUpdate \in Times \cup {NoTime}
    /\ holder \in Beats \cup {None}
    /\ ttl \in 0..LockTimeout
    /\ (holder = None) <=> (ttl = 0)
    /\ fails \in 0..MaxFails
    /\ lapsed \subseteq Beats

MemoryTypes ==
    /\ bpc \in [Beats -> Phases]
    /\ sched \in [Beats -> Schedules]
    /\ heap \in [Beats -> Heaps]
    /\ built \in [Beats -> BOOLEAN]
    /\ invalid \in [Beats -> BOOLEAN]
    /\ after \in [Beats -> Resumes]
    /\ \A b \in Beats : DOMAIN heap[b] \subseteq DOMAIN sched[b]
    /\ \A b \in Beats : bpc[b] = "down" => DOMAIN heap[b] = {}
    /\ dirty \in [Beats -> SUBSET Tasks]
    /\ checked \in [Beats -> Times \cup {NoTime}]

EditTypes ==
    /\ edit \in [Edits -> EditRecords]
    /\ \A e \in Edits : edit[e].kind # "idle" <=> edit[e].task \in Tasks

HistoryTypes ==
    /\ late \in [Beats -> Nat]
    /\ sent \in [Tasks -> [by: Beats \cup {None}, at: Times]]
    /\ lost \subseteq Tasks /\ edited \subseteq Tasks
    /\ readWhile \in [Beats -> SUBSET Beats]
    /\ between \in [Beats -> BOOLEAN]
    /\ again \subseteq [task: Tasks, by: Beats, prev: Beats, lost: BOOLEAN, met: BOOLEAN,
                      stale: BOOLEAN]
    /\ unseen \subseteq Beats \X Edits /\ missed \subseteq Beats \X Edits

Types == SharedTypes /\ MemoryTypes /\ EditTypes /\ HistoryTypes

-----------------------------------------------------------------------------
(* What a beat has yet to hear of.                                         *)

\* No announcement is later than the second that runs.
Stamped ==
    /\ lastUpdate <= Trunc(clock)
    /\ \A e \in Edits : edit[e].stamp <= Trunc(clock)

\* An edit announced before its commit was missed by all.
Early ==
    \A e \in Edits : (edit[e].announced /\ ~edit[e].committed) => \A b \in Beats : <<b, e>> \in missed

\* A beat that was told of an edit it has not missed will find a change.
Hears ==
    \A b \in Beats, e \in Edits :
        (bpc[b] # "stopped" /\ <<b, e>> \in unseen /\ <<b, e>> \notin missed) => Changed(b)

Excused(b, t) ==
    \E e \in Edits :
        /\ edit[e].task = t
        /\ \/ ~(edit[e].committed /\ edit[e].announced)
           \/ <<b, e>> \in unseen \cup missed

Reading == {"waiting", "tick", "check", "copy", "populate", "build", "due", "rest", "sync"}

\* A beat that can come to serve its heap without a reload knows its rows.
Knows ==
    \A b \in Beats, t \in Tasks \ OneOff :
        (bpc[b] \in Reading
            /\ Listed(b, t) # (rows[t].status = "on")) => Excused(b, t)

Notice == Stamped /\ Early /\ Hears /\ Knows

-----------------------------------------------------------------------------
(* Who remembers the last run of a task.                                   *)

\* The entry or row r of t tells of the run: its time is there, and a one-off
\* task is exhausted or off.
RanIsKnown(r, t, off) ==
    /\ r.last >= sent[t].at
    /\ (t \in OneOff /\ t \notin edited) => (r.ran \/ off)

EntryKnows(b, t) == RanIsKnown(sched[b][t], t, ~sched[b][t].on)

RowKnows(t) ==
    rows[t].status = "deleted" \/ RanIsKnown(rows[t], t, rows[t].status # "on")

\* A beat without a process has no memory; one that is not stopped was so when
\* another read its rows.
Memory ==
    \A b \in Beats :
        /\ bpc[b] \in {"down", "stopped"} => DOMAIN sched[b] = {}
        /\ \A c \in Beats \ {b} :
            (DOMAIN sched[b] # {} /\ bpc[c] # "stopped") => c \in readWhile[b]

\* One request at a time changes a row, and not one that is deleted.
RowLocks ==
    /\ \A e, f \in Edits :
        (edit[e].task \in Tasks /\ edit[f].task = edit[e].task
            /\ ~edit[e].committed /\ ~edit[f].committed) => e = f
    /\ \A e \in Edits :
        (edit[e].task \in Tasks /\ ~edit[e].committed) => rows[edit[e].task].status # "deleted"

\* The last run is in the row or will be saved by the beat that made it.
Traced ==
    \A t \in Tasks :
        sent[t].by # None =>
            t \in lost \/ RowKnows(t) \/ t \in Pending(sent[t].by)

\* An entry that does not know the last run is another beat's, which had not
\* ended when the rows were read.
Recalled ==
    \A b \in Beats, t \in Tasks :
        (sent[t].by # None /\ t \in DOMAIN sched[b]) =>
            \/ t \in lost
            \/ EntryKnows(b, t)
            \/ sent[t].by # b /\ sent[t].by \in readWhile[b]

\* A one-off task that its last beat has disabled is not enabled in the rows.
Ended ==
    \A b \in Beats, t \in OneOff :
        (sent[t].by = b /\ t \in DOMAIN sched[b] /\ ~sched[b][t].on /\ t \notin edited) =>
            rows[t].status # "on"

Runs == Memory /\ RowLocks /\ Traced /\ Recalled /\ Ended /\ RunsSpaced

\* A second begins at or before each of its instants, and seconds do not go back.
LEMMA TruncIn == ASSUME BeatAssumption, NEW c \in Times PROVE Trunc(c) \in Times /\ Trunc(c) <= c
<1>1. PerSecond \in Nat \ {0} /\ c \in Nat /\ MaxClock \in Nat
  BY DEF BeatAssumption, Times
<1>2. (c \div PerSecond) * PerSecond \in 0..c
  BY <1>1, SMT
<1> QED BY <1>1, <1>2 DEF Trunc, Times

LEMMA TruncMono == ASSUME BeatAssumption, NEW c \in Times PROVE Trunc(c) <= Trunc(c + 1)
<1>1. PerSecond \in Nat \ {0} /\ c \in Nat
  BY DEF BeatAssumption, Times
<1>2. c \div PerSecond <= (c + 1) \div PerSecond
  BY <1>1, SMT
<1>3. c \div PerSecond \in Nat /\ (c + 1) \div PerSecond \in Nat
  BY <1>1, SMT
<1> QED BY <1>1, <1>2, <1>3, SMT DEF Trunc

LEMMA ScheduleIs ==
    ASSUME NEW f \in Schedules
    PROVE  DOMAIN f \subseteq Tasks /\ f \in [DOMAIN f -> Entries]
BY DEF Schedules

LEMMA ScheduleMade ==
    ASSUME NEW D \in SUBSET Tasks, NEW f \in [D -> Entries] PROVE f \in Schedules
BY DEF Schedules

LEMMA HeapMade == ASSUME NEW D \in SUBSET Tasks, NEW f \in [D -> HeapEntries] PROVE f \in Heaps
BY DEF Heaps

LEMMA EmptyTypes == Empty \in Schedules /\ Empty \in Heaps /\ DOMAIN Empty = {}
<1>1. Empty \in [{} -> Entries] /\ Empty \in [{} -> HeapEntries]
  BY DEF Empty
<1> QED BY <1>1, ScheduleMade, HeapMade

\* What is read from the rows is a schedule, of the enabled tasks.
LEMMA LoadedTypes ==
    ASSUME NEW r \in Rows
    PROVE  /\ Loaded(r) \in Schedules
           /\ DOMAIN Loaded(r) = {t \in Tasks : r[t].status = "on"}
           /\ \A t \in DOMAIN Loaded(r) :
                /\ Loaded(r)[t].on /\ Loaded(r)[t].ran = r[t].ran
                /\ Loaded(r)[t].last = r[t].last /\ Loaded(r)[t].entry = r[t].last
<1>1. Loaded(r) \in [{t \in Tasks : r[t].status = "on"} -> Entries]
  BY DEF Loaded, Rows, Entries
<1> QED BY <1>1, ScheduleMade DEF Loaded

LEMMA ReadIs ==
    ASSUME MemoryTypes, HistoryTypes, NEW b \in Beats, NEW r \in Rows, Read(b, r)
    PROVE  /\ sched' \in [Beats -> Schedules] /\ sched'[b] = Loaded(r)
           /\ \A c \in Beats \ {b} : sched'[c] = sched[c]
           /\ readWhile' \in [Beats -> SUBSET Beats]
<1>1. sched' = [sched EXCEPT ![b] = Loaded(r)] /\ Loaded(r) \in Schedules
  BY LoadedTypes DEF Read
<1>2. readWhile' \in [Beats -> SUBSET Beats]
  BY DEF Read, HistoryTypes
<1> QED BY <1>1, <1>2 DEF MemoryTypes

LEMMA ReloadTypes ==
    ASSUME MemoryTypes, HistoryTypes, NEW b \in Beats, NEW r \in Rows, Reload(b, r),
           bpc'[b] # "down", \A c \in Beats \ {b} : bpc'[c] = bpc[c]
    PROVE  /\ sched' \in [Beats -> Schedules]
           /\ heap' \in [Beats -> Heaps]
           /\ built' \in [Beats -> BOOLEAN]
           /\ \A c \in Beats : DOMAIN heap'[c] \subseteq DOMAIN sched'[c]
           /\ \A c \in Beats : bpc'[c] = "down" => DOMAIN heap'[c] = {}
           /\ readWhile' \in [Beats -> SUBSET Beats]
<1>1. Read(b, r) /\ heap' = [heap EXCEPT ![b] = Empty] /\ built' = [built EXCEPT ![b] = TRUE]
  BY DEF Reload
<1> QED BY <1>1, ReadIs, EmptyTypes DEF MemoryTypes

LEMMA LookTypes ==
    ASSUME BeatAssumption, Types, NEW b \in Beats, Look(b)
    PROVE  /\ checked' \in [Beats -> Times \cup {NoTime}]
           /\ lastUpdate' \in Times \cup {NoTime}
           /\ unseen' \subseteq Beats \X Edits
BY TruncIn DEF Look, Types, SharedTypes, MemoryTypes, HistoryTypes

\* A save writes entries of the schedule to rows.
LEMMA SavedTypes ==
    ASSUME Types, NEW b \in Beats, NEW S \in SUBSET DOMAIN sched[b]
    PROVE  /\ Saved(b, S) \in Rows
           /\ \A t \in Tasks : Saved(b, S)[t].status = rows[t].status
           /\ Overwritten(b, S) \subseteq Tasks
<1>1. DOMAIN sched[b] \subseteq Tasks /\ sched[b] \in [DOMAIN sched[b] -> Entries]
  BY ScheduleIs DEF Types, MemoryTypes
<1>2. rows \in Rows
  BY DEF Types, SharedTypes
<1>3. \A t \in S : sched[b][t].ran \in BOOLEAN /\ sched[b][t].last \in Times
  BY <1>1 DEF Entries
<1>4. Saved(b, S) \in Rows
  BY <1>2, <1>3 DEF Saved, Rows
<1>5. \A t \in Tasks : Saved(b, S)[t].status = rows[t].status
  BY <1>2 DEF Saved, Rows
<1> QED BY <1>1, <1>4, <1>5 DEF Overwritten

\* Disabling entries changes their flags and those of their rows.
LEMMA DisableTypes ==
    ASSUME Types, NEW b \in Beats, NEW S \in SUBSET DOMAIN sched[b], Disable(b, S)
    PROVE  /\ sched' \in [Beats -> Schedules]
           /\ \A c \in Beats : DOMAIN sched'[c] = DOMAIN sched[c]
           /\ rows' \in Rows
           /\ lost' \subseteq Tasks
<1>1. DOMAIN sched[b] \subseteq Tasks /\ sched[b] \in [DOMAIN sched[b] -> Entries]
  BY ScheduleIs DEF Types, MemoryTypes
<1> DEFINE new == [t \in DOMAIN sched[b] |->
                IF t \in S THEN [sched[b][t] EXCEPT !.on = FALSE, !.ran = FALSE] ELSE sched[b][t]]
<1>2. sched' = [sched EXCEPT ![b] = new]
  BY DEF Disable, Types, MemoryTypes
<1>3. new \in [DOMAIN sched[b] -> Entries]
  BY <1>1 DEF Entries
<1>4. new \in Schedules /\ DOMAIN new = DOMAIN sched[b]
  BY <1>1, <1>3, ScheduleMade
<1> HIDE DEF new
<1>5. sched' \in [Beats -> Schedules] /\ \A c \in Beats : DOMAIN sched'[c] = DOMAIN sched[c]
  BY <1>2, <1>4 DEF Types, MemoryTypes
<1>6. \A t \in S : sched[b][t].last \in Times
  BY <1>1 DEF Entries
<1>7. rows' \in Rows
  BY <1>6 DEF Disable, Rows, Types, SharedTypes
<1>8. lost' \subseteq Tasks
  BY <1>1 DEF Disable, Overwritten, Types, HistoryTypes
<1> QED BY <1>5, <1>7, <1>8

\* The end of a process leaves an empty memory.
LEMMA GoneTypes ==
    ASSUME MemoryTypes, NEW b \in Beats, Gone(b) PROVE MemoryTypes'
BY EmptyTypes DEF Gone, MemoryTypes, Phases, Resumes

\* A step that changes no more than where the beat is.
LEMMA MoveTypes ==
    ASSUME Types, NEW b \in Beats, NEW x \in Phases, bpc' = [bpc EXCEPT ![b] = x],
           x = "down" => bpc[b] = "down",
           UNCHANGED <<sched, heap, built, invalid, after, dirty, checked>>
    PROVE  MemoryTypes'
BY DEF Types, MemoryTypes

\* Steps of a beat other than the lock's, by what they touch.
LEMMA ReadTypes ==
    ASSUME BeatAssumption, Types, NEW b \in Beats,
           Setup(b) \/ Check(b) \/ CheckChanged(b) \/ Load(b)
    PROVE  Types'
<1> USE DEF Types
<1>1. CASE Setup(b)
  <2>1. Read(b, rows) /\ Look(b) /\ rows \in Rows
    BY <1>1 DEF Setup, SharedTypes
  <2>2. SharedTypes'
    BY <1>1, <2>1, LookTypes DEF Setup, SharedTypes
  <2>3. MemoryTypes'
    <3>1. /\ sched' \in [Beats -> Schedules] /\ heap' = heap /\ DOMAIN heap[b] = {}
          /\ \A c \in Beats \ {b} : sched'[c] = sched[c]
      BY <1>1, <2>1, ReadIs DEF Setup, MemoryTypes
    <3>2. /\ bpc' \in [Beats -> Phases] /\ bpc'[b] = "waiting"
          /\ \A c \in Beats \ {b} : bpc'[c] = bpc[c]
      BY <1>1 DEF Setup, MemoryTypes, Phases
    <3> QED BY <1>1, <2>1, <3>1, <3>2, LookTypes DEF Setup, MemoryTypes
  <2>4. EditTypes'
    BY <1>1 DEF Setup, EditTypes
  <2>5. HistoryTypes'
    BY <1>1, <2>1, ReadIs, LookTypes DEF Setup, HistoryTypes
  <2> QED BY <2>2, <2>3, <2>4, <2>5
<1>2. CASE Check(b) \/ CheckChanged(b)
  <2>0. Look(b) /\ bpc[b] \in Looks
    BY <1>2 DEF Check, CheckChanged
  <2>1. SharedTypes'
    BY <1>2, <2>0, LookTypes DEF Check, CheckChanged, SharedTypes
  <2>2. MemoryTypes'
    <3>1. bpc' \in [Beats -> Phases] /\ \A c \in Beats : bpc'[c] = "down" => bpc[c] = "down"
      BY <1>2, <2>0 DEF Check, CheckChanged, MemoryTypes, Phases, Looks, NextLook
    <3>2. invalid' \in [Beats -> BOOLEAN]
      <4>1. (invalid[b] /\ bpc[b] # "check") \in BOOLEAN
        OBVIOUS
      <4> QED BY <1>2, <4>1 DEF Check, CheckChanged, MemoryTypes
    <3>3. after' \in [Beats -> Resumes]
      BY <1>2, <2>0 DEF Check, CheckChanged, MemoryTypes, Looks, NextLook, Resumes
    <3>4. UNCHANGED <<sched, heap, built, dirty>>
      BY <1>2 DEF Check, CheckChanged
    <3> QED BY <2>0, <3>1, <3>2, <3>3, <3>4, LookTypes DEF MemoryTypes
  <2>3. EditTypes' /\ HistoryTypes'
    BY <1>2, <2>0, LookTypes DEF Check, CheckChanged, EditTypes, HistoryTypes, runVars
  <2> QED BY <2>1, <2>2, <2>3
<1>3. CASE Load(b)
  <2>1. Reload(b, rows) /\ rows \in Rows
    BY <1>3 DEF Load, SharedTypes
  <2>2. SharedTypes' /\ EditTypes'
    BY <1>3 DEF Load, SharedTypes, EditTypes, editVars
  <2>3. (after[b] # "copy") \in BOOLEAN /\ after[b] \in Resumes
    BY DEF MemoryTypes
  <2>4. /\ bpc' \in [Beats -> Phases] /\ bpc'[b] # "down"
        /\ \A c \in Beats \ {b} : bpc'[c] = bpc[c]
    BY <1>3, <2>3 DEF Load, MemoryTypes, Phases, Resumes
  <2>5. MemoryTypes'
    <3>1. after' \in [Beats -> Resumes] /\ invalid' \in [Beats -> BOOLEAN]
      BY <1>3, <2>3 DEF Load, MemoryTypes, Resumes
    <3> QED BY <1>3, <2>1, <2>4, <3>1, ReloadTypes DEF Load, MemoryTypes
  <2>6. HistoryTypes'
    BY <1>3, <2>1, <2>3, <2>4, ReloadTypes DEF Load, HistoryTypes, MemoryTypes, Pending, editVars
  <2> QED BY <2>2, <2>5, <2>6
<1> QED BY <1>1, <1>2, <1>3

LEMMA LockTypes ==
    ASSUME BeatAssumption, Types, NEW b \in Beats,
           \/ Acquire(b) \/ Extend(b) \/ ExtendFails(b) \/ FirstTick(b) \/ NotDue(b) \/ Wake(b)
           \/ SyncDone(b) \/ Close(b) \/ Exit(b) \/ Crash(b)
    PROVE  Types'
<1> USE DEF Types
<1>1. EditTypes'
  BY DEF Acquire, Extend, ExtendFails, FirstTick, NotDue, Wake, SyncDone, Close, Exit, Crash, EditTypes,
         editVars
<1>2. HistoryTypes'
  <2>1. Pending(b) \subseteq Tasks
    BY DEF Pending, MemoryTypes
  <2> QED
    BY <2>1 DEF Acquire, Extend, ExtendFails, FirstTick, NotDue, Wake, SyncDone, Close, Exit, Crash,
                HistoryTypes, editVars, runVars
<1>3. SharedTypes'
  BY DEF Acquire, Extend, ExtendFails, FirstTick, NotDue, Wake, SyncDone, Close, Exit, Crash,
         SharedTypes,
         BeatAssumption, Owns
<1>4. MemoryTypes'
  <2>1. CASE Exit(b) \/ Crash(b)
    BY <2>1, GoneTypes DEF Exit, Crash
  <2>2. CASE Acquire(b)
    BY <2>2, MoveTypes DEF Acquire, Phases
  <2>3. CASE Extend(b)
    BY <2>3, MoveTypes DEF Extend, Phases
  <2>4. CASE ExtendFails(b)
    BY <2>4, MoveTypes DEF ExtendFails, Phases
  <2>5. CASE NotDue(b)
    BY <2>5, MoveTypes DEF NotDue, Phases
  <2>6. CASE Wake(b)
    BY <2>6, MoveTypes DEF Wake, Phases
  <2>7. CASE SyncDone(b)
    BY <2>7, MoveTypes DEF SyncDone, AfterSync, Phases
  <2>8. CASE Close(b)
    BY <2>8, MoveTypes DEF Close, Phases
  <2>9. CASE FirstTick(b)
    BY <2>9, MoveTypes DEF FirstTick, Phases
  <2> QED BY <2>1, <2>2, <2>3, <2>4, <2>5, <2>6, <2>7, <2>8, <2>9
<1> QED BY <1>1, <1>2, <1>3, <1>4

LEMMA BuildTypes ==
    ASSUME BeatAssumption, Types, NEW b \in Beats, Build(b) PROVE Types'
<1> USE DEF Types
<1> DEFINE ended == {t \in DOMAIN sched[b] : Exhausted(b, t)}
           When(t) == CASE t \in ended -> Never
                        [] ~sched[b][t].on -> clock + Pause
                        [] Due(b, t, sched[b][t].entry) -> clock
                        [] OTHER -> sched[b][t].entry + Every[t]
           new == [t \in DOMAIN sched[b] |-> [time |-> When(t), entry |-> sched[b][t].entry]]
<1>1. Disable(b, ended) /\ heap' = [heap EXCEPT ![b] = new]
  BY DEF Build
<1>2. /\ sched' \in [Beats -> Schedules]
      /\ \A c \in Beats : DOMAIN sched'[c] = DOMAIN sched[c]
      /\ rows' \in Rows /\ lost' \subseteq Tasks
  BY <1>1, DisableTypes
<1>3. DOMAIN sched[b] \subseteq Tasks /\ sched[b] \in [DOMAIN sched[b] -> Entries]
  BY ScheduleIs DEF MemoryTypes
<1>4. new \in [DOMAIN sched[b] -> HeapEntries]
  <2> SUFFICES ASSUME NEW t \in DOMAIN sched[b]
               PROVE  When(t) \in Nat /\ sched[b][t].entry \in Times
    BY DEF HeapEntries
  <2>1. sched[b][t].entry \in Times /\ sched[b][t].on \in BOOLEAN /\ Every[t] \in Nat
    BY <1>3 DEF Entries, BeatAssumption
  <2>2. Never \in Nat /\ clock \in Nat /\ Pause \in Nat
    BY DEF Never, Pause, Times, BeatAssumption, SharedTypes
  <2>3. sched[b][t].entry + Every[t] \in Nat /\ clock + Pause \in Nat
    BY <2>1, <2>2 DEF Times
  <2> QED BY <2>1, <2>2, <2>3
<1>5. new \in Heaps /\ DOMAIN new = DOMAIN sched[b]
  BY <1>3, <1>4, HeapMade
<1> HIDE DEF new, ended
<1>6. lastUpdate' \in Times \cup {NoTime}
  BY TruncIn DEF Build, SharedTypes
<1>7. SharedTypes'
  BY <1>2, <1>6 DEF Build, SharedTypes
<1>8. MemoryTypes'
  <2>1. /\ bpc' \in [Beats -> Phases] /\ \A c \in Beats : bpc'[c] = "down" => c # b /\ bpc[c] = "down"
        /\ UNCHANGED <<dirty, checked, invalid, after>>
    BY DEF Build, MemoryTypes, Phases
  <2>2. heap' \in [Beats -> Heaps] /\ \A c \in Beats \ {b} : heap'[c] = heap[c]
    BY <1>1, <1>5 DEF MemoryTypes
  <2>3. built' \in [Beats -> BOOLEAN]
    BY DEF Build, MemoryTypes
  <2>4. \A c \in Beats : DOMAIN heap'[c] \subseteq DOMAIN sched'[c]
    BY <1>1, <1>2, <1>5 DEF MemoryTypes
  <2> QED BY <1>2, <2>1, <2>2, <2>3, <2>4 DEF MemoryTypes
<1>9. EditTypes'
  BY DEF Build, EditTypes, editVars
<1>10. HistoryTypes'
  BY <1>2 DEF Build, HistoryTypes, editVars
<1> QED BY <1>7, <1>8, <1>9, <1>10

\* The first entry of a heap is an entry of the schedule.
LEMMA TopListed ==
    ASSUME Types, NEW b \in Beats, NEW t, Top(b, t) PROVE t \in DOMAIN sched[b]
BY DEF Top, Types, MemoryTypes

LEMMA DispatchTypes ==
    ASSUME BeatAssumption, Types, NEW b \in Beats, NEW t \in Tasks, Dispatch(b, t) PROVE Types'
<1> USE DEF Types
<1>1. t \in DOMAIN sched[b] /\ t \in DOMAIN heap[b]
  BY TopListed DEF Dispatch, Top
<1>2. DOMAIN sched[b] \subseteq Tasks /\ sched[b] \in [DOMAIN sched[b] -> Entries]
  BY ScheduleIs DEF MemoryTypes
<1> DEFINE new == [sched[b] EXCEPT ![t] = [@ EXCEPT !.last = clock, !.ran = TRUE]]
           top == [heap[b] EXCEPT ![t] = [time |-> clock + Every[t], entry |-> clock]]
<1>3. sched' = [sched EXCEPT ![b] = new] /\ heap' = [heap EXCEPT ![b] = top]
  BY DEF Dispatch
<1>4. clock \in Times
  BY DEF SharedTypes
<1>5. new \in Schedules /\ DOMAIN new = DOMAIN sched[b]
  <2>1. new \in [DOMAIN sched[b] -> Entries]
    BY <1>1, <1>2, <1>4 DEF Entries
  <2> QED BY <1>2, <2>1, ScheduleMade
<1>6. top \in Heaps /\ DOMAIN top = DOMAIN heap[b]
  <2>1. DOMAIN heap[b] \subseteq Tasks /\ heap[b] \in [DOMAIN heap[b] -> HeapEntries]
    BY DEF MemoryTypes, Heaps
  <2>2. [time |-> clock + Every[t], entry |-> clock] \in HeapEntries
    BY <1>4 DEF BeatAssumption, Times, HeapEntries
  <2>3. top \in [DOMAIN heap[b] -> HeapEntries]
    BY <1>1, <2>1, <2>2
  <2> QED BY <2>1, <2>3, HeapMade
<1> HIDE DEF new, top
<1>7. SharedTypes' /\ EditTypes'
  BY DEF Dispatch, SharedTypes, EditTypes, editVars
<1>8. MemoryTypes'
  <2>1. sched' \in [Beats -> Schedules] /\ \A c \in Beats : DOMAIN sched'[c] = DOMAIN sched[c]
    BY <1>3, <1>5 DEF MemoryTypes
  <2>2. heap' \in [Beats -> Heaps] /\ \A c \in Beats : DOMAIN heap'[c] = DOMAIN heap[c]
    BY <1>3, <1>6 DEF MemoryTypes
  <2>3. bpc' \in [Beats -> Phases] /\ dirty' \in [Beats -> SUBSET Tasks]
        /\ \A c \in Beats : bpc'[c] = "down" => bpc[c] = "down"
    BY DEF Dispatch, MemoryTypes, Phases, Reserved
  <2> QED BY <2>1, <2>2, <2>3 DEF Dispatch, MemoryTypes
<1>9. HistoryTypes'
  <2>1. sent' \in [Tasks -> [by: Beats \cup {None}, at: Times]]
    BY <1>4 DEF Dispatch, HistoryTypes
  <2>2. again' \subseteq [task: Tasks, by: Beats, prev: Beats, lost: BOOLEAN, met: BOOLEAN,
                         stale: BOOLEAN]
    <3>1. CASE TooSoon(t)
      <4>1. sent[t].by \in Beats
        BY <3>1 DEF TooSoon, HistoryTypes
      <4> DEFINE x == [task |-> t, by |-> b, prev |-> sent[t].by, lost |-> t \in lost,
                       met |-> sent[t].by \in readWhile[b],
                       stale |-> between[b] /\ heap[b][t].entry # sched[b][t].last]
      <4>2. /\ (t \in lost) \in BOOLEAN /\ (sent[t].by \in readWhile[b]) \in BOOLEAN
            /\ (between[b] /\ heap[b][t].entry # sched[b][t].last) \in BOOLEAN
        OBVIOUS
      <4>3. x \in [task: Tasks, by: Beats, prev: Beats, lost: BOOLEAN, met: BOOLEAN,
                  stale: BOOLEAN]
        BY <4>1, <4>2, Zenon
      <4>4. again' = again \cup {x}
        BY <3>1 DEF Dispatch
      <4> QED BY <4>3, <4>4 DEF HistoryTypes
    <3> QED BY <3>1 DEF Dispatch, HistoryTypes
  <2>3. late' \in [Beats -> Nat]
    BY DEF Dispatch, HistoryTypes
  <2> QED BY <2>1, <2>2, <2>3 DEF Dispatch, HistoryTypes, editVars
<1> QED BY <1>7, <1>8, <1>9

LEMMA EndOneOffTypes ==
    ASSUME BeatAssumption, Types, NEW b \in Beats, NEW t \in Tasks, EndOneOff(b, t) PROVE Types'
<1> USE DEF Types
<1>1. t \in DOMAIN sched[b] /\ Disable(b, {t})
  BY TopListed DEF EndOneOff
<1>2. /\ sched' \in [Beats -> Schedules]
      /\ \A c \in Beats : DOMAIN sched'[c] = DOMAIN sched[c]
      /\ rows' \in Rows /\ lost' \subseteq Tasks
  BY <1>1, DisableTypes
<1>3. SharedTypes'
  BY <1>2, TruncIn DEF EndOneOff, SharedTypes
<1>4. MemoryTypes'
  BY <1>2 DEF EndOneOff, MemoryTypes, Phases
<1>5. EditTypes'
  BY DEF EndOneOff, EditTypes, editVars
<1>6. HistoryTypes'
  BY <1>2 DEF EndOneOff, HistoryTypes, editVars
<1> QED BY <1>3, <1>4, <1>5, <1>6

LEMMA SyncTypes ==
    ASSUME BeatAssumption, Types, NEW b \in Beats, NEW t \in Tasks,
           SyncSave(b, t) \/ SyncReload(b, t) \/ SyncFails(b, t)
    PROVE  Types'
<1> USE DEF Types
<1>1. t \in Pending(b) /\ Pending(b) \subseteq DOMAIN sched[b] /\ Look(b)
  BY DEF SyncSave, SyncReload, SyncFails, Pending
<1>2. /\ checked' \in [Beats -> Times \cup {NoTime}]
      /\ lastUpdate' \in Times \cup {NoTime}
      /\ unseen' \subseteq Beats \X Edits
  BY <1>1, LookTypes
<1>3. EditTypes'
  BY DEF SyncSave, SyncReload, SyncFails, EditTypes
<1>4. CASE SyncSave(b, t)
  <2>1. rows' \in Rows /\ Overwritten(b, {t}) \subseteq Tasks
    BY <1>1, <1>4, SavedTypes DEF SyncSave
  <2>2. SharedTypes'
    BY <1>2, <1>4, <2>1 DEF SyncSave, SharedTypes
  <2>3. MemoryTypes'
    BY <1>2, <1>4 DEF SyncSave, MemoryTypes
  <2>4. HistoryTypes'
    BY <1>2, <1>4, <2>1 DEF SyncSave, HistoryTypes
  <2> QED BY <1>3, <2>2, <2>3, <2>4
<1>5. CASE SyncReload(b, t)
  <2> DEFINE others == Pending(b) \ {t}
             r == Saved(b, others)
  <2>1. r \in Rows /\ Overwritten(b, others) \subseteq Tasks
    BY <1>1, SavedTypes
  <2>2. rows' = r /\ Reload(b, r) /\ lost' = lost \cup {t} \cup Overwritten(b, others)
    BY <1>5 DEF SyncReload
  <2>3. dirty' = [dirty EXCEPT ![b] = (@ \ Pending(b)) \cup ({t} \ DOMAIN Loaded(r))]
    BY <1>5 DEF SyncReload
  <2> HIDE DEF others, r
  <2>4. SharedTypes'
    BY <1>2, <1>5, <2>1, <2>2 DEF SyncReload, SharedTypes
  <2>5. bpc' = bpc /\ bpc[b] # "down"
    BY <1>5 DEF SyncReload, Syncing
  <2>7. MemoryTypes'
    <3>1. dirty' \in [Beats -> SUBSET Tasks] /\ invalid' \in [Beats -> BOOLEAN]
      BY <1>5, <2>3 DEF SyncReload, MemoryTypes
    <3> QED BY <1>2, <1>5, <2>1, <2>2, <2>5, <3>1, ReloadTypes DEF SyncReload, MemoryTypes
  <2>6. HistoryTypes'
    BY <1>2, <1>5, <2>1, <2>2, <2>5, ReloadTypes DEF SyncReload, HistoryTypes
  <2> QED BY <1>3, <2>4, <2>6, <2>7
<1>6. CASE SyncFails(b, t)
  <2>1. SharedTypes'
    BY <1>2, <1>6 DEF SyncFails, SharedTypes, BeatAssumption
  <2>2. MemoryTypes'
    BY <1>2, <1>6 DEF SyncFails, MemoryTypes, Syncing, AfterSync, Phases
  <2>3. HistoryTypes'
    BY <1>2, <1>6 DEF SyncFails, HistoryTypes
  <2> QED BY <1>3, <2>1, <2>2, <2>3
<1> QED BY <1>4, <1>5, <1>6

LEMMA ClockTypes == ASSUME BeatAssumption, Types, ClockForward PROVE Types'
<1> USE DEF Types
<1>1. SharedTypes'
  BY DEF ClockForward, SharedTypes, Times, BeatAssumption
<1>2. MemoryTypes' /\ EditTypes' /\ HistoryTypes'
  BY DEF ClockForward, MemoryTypes, EditTypes, HistoryTypes, beatVars, editVars, runVars
<1> QED BY <1>1, <1>2

LEMMA EditMarked ==
    ASSUME NEW r \in EditRecords
    PROVE  /\ [r EXCEPT !.announced = TRUE] \in EditRecords
           /\ [r EXCEPT !.committed = TRUE] \in EditRecords
           /\ LET c == [r EXCEPT !.committed = TRUE] IN
              c.task = r.task /\ c.stamp = r.stamp /\ c.announced = r.announced /\ c.committed
BY DEF EditRecords

LEMMA EditStepTypes == ASSUME BeatAssumption, Types, NEW e \in Edits, EditNext(e) PROVE Types'
<1> USE DEF Types
<1>0. None \notin Tasks
  BY DEF BeatAssumption
<1>1. CASE Edit(e)
  <2>1. EditTypes'
    BY <1>1 DEF Edit, EditTypes, EditRecords
  <2> QED BY <1>1, <2>1 DEF Edit, SharedTypes, MemoryTypes, HistoryTypes, beatVars, runVars
<1>2. CASE Stamp(e)
  <2>1. EditTypes'
    BY <1>2, TruncIn DEF Stamp, EditTypes, EditRecords, SharedTypes
  <2> QED BY <1>2, <2>1 DEF Stamp, SharedTypes, MemoryTypes, HistoryTypes, beatVars, runVars
<1>3. CASE Announce(e)
  <2>1. EditTypes'
    <3>1. edit' = [edit EXCEPT ![e] = [@ EXCEPT !.announced = TRUE]]
      BY <1>3 DEF Announce
    <3>2. edit[e] \in EditRecords /\ [edit[e] EXCEPT !.announced = TRUE] \in EditRecords
      BY EditMarked DEF EditTypes
    <3>3. \A f \in Edits : edit'[f].kind = edit[f].kind /\ edit'[f].task = edit[f].task
      BY <3>1, <3>2 DEF EditTypes, EditRecords
    <3> QED BY <3>1, <3>2, <3>3 DEF EditTypes
  <2>2. SharedTypes'
    BY <1>3 DEF Announce, EditTypes, EditRecords, SharedTypes
  <2>3. MemoryTypes'
    BY <1>3 DEF Announce, MemoryTypes, beatVars
  <2>4. HistoryTypes'
    BY <1>3 DEF Announce, HistoryTypes, runVars
  <2> QED BY <2>1, <2>2, <2>3, <2>4
<1>4. CASE Commit(e)
  <2>1. edit[e].task \in Tasks
    BY <1>4 DEF Commit, EditTypes
  <2>2. EditTypes'
    <3>1. edit' = [edit EXCEPT ![e] = [@ EXCEPT !.committed = TRUE]]
      BY <1>4 DEF Commit
    <3>2. edit[e] \in EditRecords /\ [edit[e] EXCEPT !.committed = TRUE] \in EditRecords
      BY EditMarked DEF EditTypes
    <3>3. \A f \in Edits : edit'[f].kind = edit[f].kind /\ edit'[f].task = edit[f].task
      BY <3>1, <3>2 DEF EditTypes, EditRecords
    <3> QED BY <3>1, <3>2, <3>3 DEF EditTypes
  <2>3. SharedTypes'
    BY <1>4, <2>1 DEF Commit, SharedTypes, Rows
  <2>4. MemoryTypes'
    BY <1>4 DEF Commit, MemoryTypes, beatVars
  <2>5. HistoryTypes'
    BY <1>4, <2>1 DEF Commit, HistoryTypes
  <2> QED BY <2>2, <2>3, <2>4, <2>5
<1> QED BY <1>1, <1>2, <1>3, <1>4 DEF EditNext

LEMMA InitTypes == ASSUME BeatAssumption, Init PROVE Types
<1>1. 0 \in Times /\ LockTimeout \in Nat /\ MaxFails \in Nat /\ None \notin Tasks \cup Beats
  BY DEF BeatAssumption, Times
<1>2. SharedTypes
  BY <1>1 DEF Init, SharedTypes, Rows
<1>3. MemoryTypes
  BY <1>1, EmptyTypes DEF Init, MemoryTypes, Phases, Resumes
<1>4. EditTypes
  <2>1. Idle \in EditRecords /\ Absent \in EditRecords
    BY DEF EditRecords, Idle, Absent
  <2>2. Idle.kind = "idle" /\ Idle.task = None /\ Absent.kind = "idle" /\ Absent.task = None
    BY DEF Idle, Absent
  <2>3. edit \in [Edits -> {Idle, Absent}]
    BY DEF Init
  <2> QED BY <1>1, <2>1, <2>2, <2>3 DEF EditTypes
<1>5. HistoryTypes
  BY <1>1 DEF Init, HistoryTypes
<1> QED BY <1>2, <1>3, <1>4, <1>5 DEF Types

\* Every variable keeps its type.
THEOREM BeatTypes == Spec => []Types
<1>1. Init => Types
  BY InitTypes, BeatAssumption
<1>2. Types /\ [Next]_vars => Types'
  <2> SUFFICES ASSUME Types, [Next]_vars PROVE Types'
    OBVIOUS
  <2>1. CASE UNCHANGED vars
    BY <2>1 DEF vars, beatVars, runVars, editVars, Types, SharedTypes, MemoryTypes, EditTypes,
                HistoryTypes
  <2>2. ASSUME NEW b \in Beats, BeatNext(b) PROVE Types'
    BY <2>2, BeatAssumption, ReadTypes, LockTypes, BuildTypes, DispatchTypes, EndOneOffTypes,
       SyncTypes DEF BeatNext
  <2> QED BY <2>1, <2>2, BeatAssumption, ClockTypes, EditStepTypes DEF Next
<1> QED BY <1>1, <1>2, PTL DEF Spec

\* The type invariant of the runs.
THEOREM BeatTypeOK == Spec => []TypeOK
<1>1. Types => TypeOK
  <2> SUFFICES ASSUME Types PROVE TypeOK
    OBVIOUS
  <2>1. ASSUME NEW b \in Beats
        PROVE  /\ DOMAIN sched[b] \subseteq Tasks
               /\ \A t \in DOMAIN sched[b] : sched[b][t] \in Entries
               /\ \A t \in DOMAIN heap[b] : heap[b][t] \in HeapEntries
    <3>1. DOMAIN sched[b] \subseteq Tasks /\ sched[b] \in [DOMAIN sched[b] -> Entries]
      BY ScheduleIs DEF Types, MemoryTypes
    <3>2. heap[b] \in [DOMAIN heap[b] -> HeapEntries]
      BY DEF Types, MemoryTypes, Heaps
    <3> QED BY <3>1, <3>2 DEF Types, MemoryTypes
  <2> QED BY <2>1 DEF Types, SharedTypes, MemoryTypes, EditTypes, HistoryTypes, Rows, Phases,
                      Resumes, Entries, HeapEntries, TypeOK
<1> QED BY <1>1, BeatTypes, PTL

-----------------------------------------------------------------------------
(* What a beat knows of the edits.                                         *)

\* Disabling entries turns off one-off tasks only, in memory and in the rows.
LEMMA DisableOneOff ==
    ASSUME Types, NEW b \in Beats, NEW S \in SUBSET DOMAIN sched[b], Disable(b, S),
           \A t \in S : Exhausted(b, t)
    PROVE  /\ \A c \in Beats \ {b} : sched'[c] = sched[c]
           /\ \A t \in Tasks \ OneOff : rows'[t] = rows[t] /\ Listed(b, t)' = Listed(b, t)
<1>1. S \cap (Tasks \ OneOff) = {}
  BY DEF Exhausted
<1> DEFINE new == [t \in DOMAIN sched[b] |->
                IF t \in S THEN [sched[b][t] EXCEPT !.on = FALSE, !.ran = FALSE] ELSE sched[b][t]]
<1>2. sched' = [sched EXCEPT ![b] = new]
  BY DEF Disable, Types, MemoryTypes
<1>3. \A c \in Beats \ {b} : sched'[c] = sched[c]
  BY <1>2 DEF Types, MemoryTypes
<1>4. \A t \in Tasks \ OneOff : rows'[t] = rows[t]
  BY <1>1 DEF Disable
<1>5. sched'[b] = new
  BY <1>2 DEF Types, MemoryTypes
<1>6. \A t \in Tasks \ OneOff : Listed(b, t)' = Listed(b, t)
  BY <1>1, <1>5, Zenon DEF Listed
<1> QED BY <1>3, <1>4, <1>6

\* A step of a beat leaves the requests and the other beats alone, and looks, or
\* leaves what it has seen, or ends.
BeatFrame(b) ==
    /\ UNCHANGED <<clock, edit, missed>>
    /\ \A c \in Beats \ {b} : bpc'[c] = bpc[c] /\ checked'[c] = checked[c] /\ sched'[c] = sched[c]
    /\ lastUpdate' \in {lastUpdate, Trunc(clock)}
    /\ bpc[b] # "stopped"
    /\ \/ bpc'[b] = "stopped" /\ unseen' = unseen
       \/ unseen' = {x \in unseen : x[1] # b}
       \/ unseen' = unseen /\ checked'[b] = checked[b]
    /\ \A t \in Tasks \ OneOff : rows'[t].status = rows[t].status

\* What it knows of a task that is not one-off is as before, and no change was
\* found, or it is what the rows say; or it will load them first.
BeatLearns(b) ==
    \/ bpc'[b] \in {"reload", "load", "closing", "stopped"}
    \/ \A t \in Tasks \ OneOff : Listed(b, t)' = (rows'[t].status = "on")
    \/ /\ bpc[b] \in Reading
       /\ \A t \in Tasks \ OneOff : Listed(b, t)' = Listed(b, t)
       /\ unseen' = unseen \/ ~Changed(b)

LEMMA ReadListed ==
    ASSUME MemoryTypes, NEW b \in Beats, NEW r \in Rows, Read(b, r)
    PROVE  /\ \A c \in Beats \ {b} : sched'[c] = sched[c]
           /\ \A t \in Tasks : Listed(b, t)' = (r[t].status = "on")
<1>1. sched' = [sched EXCEPT ![b] = Loaded(r)]
  BY DEF Read
<1>2. sched'[b] = Loaded(r)
  BY <1>1 DEF MemoryTypes
<1>3. \A t \in Tasks : Listed(b, t)' <=> (r[t].status = "on")
  <2>0. DOMAIN Loaded(r) = {t \in Tasks : r[t].status = "on"}
    BY LoadedTypes
  <2>1. \A t \in Tasks : t \in DOMAIN Loaded(r) <=> r[t].status = "on"
    BY <2>0
  <2>2. \A t \in DOMAIN Loaded(r) : Loaded(r)[t].on
    BY LoadedTypes
  <2> QED BY <1>2, <2>1, <2>2, Zenon DEF Listed
<1> QED BY <1>1, <1>3, Zenon DEF MemoryTypes, Listed

LEMMA BeatStepFrame ==
    ASSUME BeatAssumption, Types, NEW b \in Beats, BeatNext(b)
    PROVE  BeatFrame(b) /\ BeatLearns(b)
<1> USE DEF Types, BeatFrame, BeatLearns, Reading
<1>0. bpc \in [Beats -> Phases] /\ checked \in [Beats -> Times \cup {NoTime}] /\ rows \in Rows
  BY DEF MemoryTypes, SharedTypes
<1>1. CASE Setup(b)
  <2>1. Read(b, rows) /\ Look(b)
    BY <1>1 DEF Setup
  <2>2. BeatFrame(b)
    BY <1>0, <1>1, <2>1, ReadListed DEF Setup, Look
  <2>3. BeatLearns(b)
    BY <1>0, <1>1, <2>1, ReadListed DEF Setup
  <2> QED BY <2>2, <2>3
<1>2. CASE Load(b)
  <2>1. Read(b, rows)
    BY <1>2 DEF Load, Reload
  <2>2. BeatFrame(b)
    BY <1>0, <1>2, <2>1, ReadListed DEF Load, editVars
  <2>3. BeatLearns(b)
    BY <1>0, <1>2, <2>1, ReadListed DEF Load
  <2> QED BY <2>2, <2>3
<1>3. CASE Acquire(b) \/ Extend(b) \/ ExtendFails(b) \/ FirstTick(b) \/ NotDue(b)
           \/ Wake(b) \/ SyncDone(b)
  <2>1. UNCHANGED <<clock, edit, missed, checked, sched, lastUpdate, unseen, rows>>
    BY <1>3 DEF Acquire, Extend, ExtendFails, FirstTick, NotDue, Wake, SyncDone, editVars
  <2>2. \A t \in Tasks : Listed(b, t)' = Listed(b, t)
    BY <2>1 DEF Listed
  <2>3. BeatFrame(b)
    BY <1>0, <1>3, <2>1 DEF Acquire, Extend, ExtendFails, FirstTick, NotDue, Wake, SyncDone
  <2>4. BeatLearns(b)
    BY <1>0, <1>3, <2>1, <2>2
       DEF Acquire, Extend, ExtendFails, FirstTick, NotDue, Wake, SyncDone, AfterSync
  <2> QED BY <2>3, <2>4
<1>4. CASE Check(b) \/ CheckChanged(b)
  <2>1. /\ UNCHANGED <<clock, edit, missed, sched, rows>> /\ Look(b) /\ bpc[b] \in Looks
        /\ bpc'[b] = "reload" \/ ~Changed(b)
    BY <1>0, <1>4 DEF Check, CheckChanged
  <2>2. \A t \in Tasks : Listed(b, t)' = Listed(b, t)
    BY <2>1 DEF Listed
  <2>3. BeatFrame(b)
    BY <1>0, <1>4, <2>1 DEF Check, CheckChanged, Look, Looks
  <2>4. BeatLearns(b)
    BY <1>0, <1>4, <2>1, <2>2 DEF Check, CheckChanged, Looks
  <2> QED BY <2>3, <2>4
<1>5. CASE Build(b)
  <2> DEFINE ended == {t \in DOMAIN sched[b] : Exhausted(b, t)}
  <2>1. Disable(b, ended)
    BY <1>5 DEF Build
  <2>2. /\ \A c \in Beats \ {b} : sched'[c] = sched[c]
        /\ \A t \in Tasks \ OneOff : rows'[t] = rows[t] /\ Listed(b, t)' = Listed(b, t)
    BY <2>1, DisableOneOff
  <2>3. BeatFrame(b)
    BY <1>0, <1>5, <2>2 DEF Build, editVars
  <2>4. BeatLearns(b)
    BY <1>0, <1>5, <2>2 DEF Build, editVars
  <2> QED BY <2>3, <2>4
<1>6. CASE Close(b)
  BY <1>0, <1>6 DEF Close, Alive, editVars
<1>7. CASE Exit(b) \/ Crash(b)
  BY <1>0, <1>7 DEF Exit, Crash, Gone, Alive, editVars, MemoryTypes
<1>8. ASSUME NEW t \in Tasks, Dispatch(b, t) PROVE BeatFrame(b) /\ BeatLearns(b)
  <2>1. t \in DOMAIN sched[b]
    BY <1>8, TopListed DEF Dispatch
  <2> DEFINE new == [sched[b] EXCEPT ![t] = [@ EXCEPT !.last = clock, !.ran = TRUE]]
  <2>2. sched' = [sched EXCEPT ![b] = new]
    BY <1>8 DEF Dispatch
  <2>3. sched[b] \in [DOMAIN sched[b] -> Entries]
    BY ScheduleIs DEF MemoryTypes
  <2>4. DOMAIN new = DOMAIN sched[b] /\ \A x \in DOMAIN sched[b] : new[x].on = sched[b][x].on
    BY <2>1, <2>3 DEF Entries
  <2> HIDE DEF new
  <2>5. sched'[b] = new /\ \A c \in Beats \ {b} : sched'[c] = sched[c]
    BY <2>2 DEF MemoryTypes
  <2>6. \A x \in Tasks : Listed(b, x)' = Listed(b, x)
    BY <2>4, <2>5, Zenon DEF Listed
  <2>7. BeatFrame(b)
    BY <1>0, <1>8, <2>5 DEF Dispatch, editVars
  <2>8. BeatLearns(b)
    BY <1>0, <1>8, <2>6 DEF Dispatch, editVars
  <2> QED BY <2>7, <2>8
<1>9. ASSUME NEW t \in Tasks, EndOneOff(b, t) PROVE BeatFrame(b) /\ BeatLearns(b)
  <2>1. Disable(b, {t}) /\ Exhausted(b, t) /\ t \in DOMAIN sched[b]
    BY <1>9, TopListed DEF EndOneOff
  <2>2. /\ \A c \in Beats \ {b} : sched'[c] = sched[c]
        /\ \A x \in Tasks \ OneOff : rows'[x] = rows[x] /\ Listed(b, x)' = Listed(b, x)
    BY <2>1, DisableOneOff
  <2>3. BeatFrame(b)
    BY <1>0, <1>9, <2>2 DEF EndOneOff, editVars
  <2>4. BeatLearns(b)
    BY <1>0, <1>9, <2>2 DEF EndOneOff, editVars
  <2> QED BY <2>3, <2>4
<1>10. ASSUME NEW t \in Tasks, SyncSave(b, t) \/ SyncFails(b, t)
       PROVE  BeatFrame(b) /\ BeatLearns(b)
  <2>1. /\ UNCHANGED <<clock, edit, missed, sched>> /\ Look(b) /\ ~Changed(b)
        /\ t \in Pending(b) /\ Pending(b) \subseteq DOMAIN sched[b]
    BY <1>10 DEF SyncSave, SyncFails, Pending
  <2>2. \A x \in Tasks : Listed(b, x)' = Listed(b, x)
    BY <2>1 DEF Listed
  <2>3. \A x \in Tasks : rows'[x].status = rows[x].status
    BY <1>10, <2>1, SavedTypes DEF SyncSave, SyncFails
  <2>4. BeatFrame(b)
    BY <1>0, <1>10, <2>1, <2>3 DEF SyncSave, SyncFails, Look, Syncing
  <2>5. BeatLearns(b)
    BY <1>0, <1>10, <2>1, <2>2 DEF SyncSave, SyncFails, Syncing, AfterSync
  <2> QED BY <2>4, <2>5
<1>11. ASSUME NEW t \in Tasks, SyncReload(b, t) PROVE BeatFrame(b) /\ BeatLearns(b)
  <2> DEFINE r == Saved(b, Pending(b) \ {t})
  <2>1. /\ r \in Rows
        /\ \A x \in Tasks : r[x].status = rows[x].status
    BY SavedTypes DEF Pending
  <2>2. rows' = r /\ Read(b, r) /\ Look(b)
    BY <1>11 DEF SyncReload, Reload
  <2> HIDE DEF r
  <2>3. BeatFrame(b)
    BY <1>0, <1>11, <2>1, <2>2, ReadListed DEF SyncReload, Look, Syncing
  <2>4. BeatLearns(b)
    BY <2>1, <2>2, ReadListed
  <2> QED BY <2>3, <2>4
<1> QED BY <1>1, <1>2, <1>3, <1>4, <1>5, <1>6, <1>7, <1>8, <1>9, <1>10, <1>11 DEF BeatNext

LEMMA BeatStepNotice ==
    ASSUME BeatAssumption, Types, Notice, NEW b \in Beats, BeatNext(b) PROVE Notice'
<1>1. BeatFrame(b) /\ BeatLearns(b)
  BY BeatStepFrame
<1>2. clock \in Times /\ lastUpdate \in Times \cup {NoTime} /\ Trunc(clock) \in Times
  BY TruncIn DEF Types, SharedTypes
<1>3. Stamped'
  BY <1>1, <1>2 DEF Notice, Stamped, BeatFrame, Trunc, Times
<1>4. Early'
  BY <1>1 DEF Notice, Early, BeatFrame
<1>5. Hears'
  <2> SUFFICES ASSUME NEW c \in Beats, NEW e \in Edits, bpc'[c] # "stopped",
                      <<c, e>> \in unseen', <<c, e>> \notin missed'
               PROVE  Changed(c)'
    BY DEF Hears
  <2>1. lastUpdate <= lastUpdate'
    BY <1>1, <1>2 DEF Notice, Stamped, BeatFrame, Times, NoTime
  <2>2. bpc[c] # "stopped" /\ <<c, e>> \in unseen /\ <<c, e>> \notin missed /\ checked'[c] = checked[c]
    BY <1>1 DEF BeatFrame
  <2>3. Changed(c)
    BY <2>2 DEF Notice, Hears
  <2>4. checked[c] \in Times \cup {NoTime} /\ lastUpdate' \in Times \cup {NoTime}
    BY <1>1, <1>2 DEF Types, MemoryTypes, BeatFrame
  <2> QED BY <1>2, <2>1, <2>2, <2>3, <2>4 DEF Changed, Times, NoTime, BeatAssumption
<1>6. Knows'
  <2> SUFFICES ASSUME NEW c \in Beats, NEW t \in Tasks \ OneOff,
                      bpc'[c] \in Reading,
                      Listed(c, t)' # (rows'[t].status = "on")
               PROVE  Excused(c, t)'
    BY DEF Knows
  <2>1. CASE c # b
    <3>1. Listed(c, t)' = Listed(c, t) /\ rows'[t].status = rows[t].status /\ bpc'[c] = bpc[c]
      BY <1>1, <2>1 DEF BeatFrame, Listed
    <3>2. Excused(c, t)
      BY <3>1 DEF Notice, Knows
    <3> QED BY <1>1, <2>1, <3>2 DEF BeatFrame, Excused
  <2>2. CASE c = b
    <3>1. /\ bpc[b] \in Reading
          /\ Listed(b, t)' = Listed(b, t) /\ rows'[t].status = rows[t].status
          /\ unseen' = unseen \/ ~Changed(b)
      BY <1>1, <2>2 DEF BeatFrame, BeatLearns, Reading
    <3>2. Excused(b, t)
      BY <2>2, <3>1 DEF Notice, Knows
    <3>3. unseen' = unseen \/ \A e \in Edits : <<b, e>> \in unseen => <<b, e>> \in missed
      BY <3>1 DEF Notice, Hears, Reading
    <3> QED BY <1>1, <2>2, <3>2, <3>3 DEF BeatFrame, Excused
  <2> QED BY <2>1, <2>2
<1> QED BY <1>3, <1>4, <1>5, <1>6 DEF Notice

LEMMA ClockNotice == ASSUME BeatAssumption, Types, Notice, ClockForward PROVE Notice'
<1>1. UNCHANGED <<rows, lastUpdate, beatVars, editVars>> /\ clock' = clock + 1
  BY DEF ClockForward
<1>2. Trunc(clock) <= Trunc(clock + 1) /\ Trunc(clock) \in Nat /\ Trunc(clock + 1) \in Nat
  <2>1. clock \in Times /\ clock + 1 \in Times
    BY DEF ClockForward, Types, SharedTypes, Times, BeatAssumption
  <2> QED BY <2>1, TruncMono, TruncIn DEF Times
<1>3. Stamped'
  <2>1. lastUpdate \in Int /\ \A e \in Edits : edit[e].stamp \in Int
    BY DEF Types, SharedTypes, EditTypes, EditRecords, Times, NoTime
  <2>2. lastUpdate' = lastUpdate /\ edit' = edit /\ Trunc(clock)' = Trunc(clock + 1)
    BY <1>1 DEF editVars, Trunc
  <2> QED BY <1>2, <2>1, <2>2 DEF Notice, Stamped
<1>4. Early' /\ Hears' /\ Knows'
  BY <1>1 DEF Notice, Early, Hears, Knows, Changed, Listed, Excused, beatVars, editVars
<1> QED BY <1>3, <1>4 DEF Notice

LEMMA EditStepNotice ==
    ASSUME BeatAssumption, Types, Notice, NEW e \in Edits, EditNext(e) PROVE Notice'
<1> USE DEF Types, EditTypes
<1>0. edit \in [Edits -> EditRecords] /\ clock \in Times /\ Trunc(clock) \in Times
  BY TruncIn DEF SharedTypes
<1>1. \A f \in Edits : edit[f].stamp \in Times \cup {NoTime}
  BY <1>0 DEF EditRecords
<1>2. CASE Edit(e)
  <2>1. UNCHANGED <<clock, rows, lastUpdate, bpc, sched, checked, unseen, missed>>
    BY <1>2 DEF Edit, beatVars
  <2>2. /\ edit[e].task \notin Tasks
        /\ \A f \in Edits : /\ edit'[f].stamp = edit[f].stamp
                            /\ edit'[f].announced = edit[f].announced
                            /\ edit'[f].committed = edit[f].committed
                            /\ f # e => edit'[f] = edit[f]
    BY <1>0, <1>2 DEF Edit, EditRecords
  <2>3. \A c \in Beats, t \in Tasks : Excused(c, t) => Excused(c, t)'
    BY <2>1, <2>2 DEF Excused
  <2> QED BY <2>1, <2>2, <2>3 DEF Notice, Stamped, Early, Hears, Knows, Changed, Listed, Trunc
<1>3. CASE Stamp(e)
  <2>1. UNCHANGED <<clock, rows, lastUpdate, bpc, sched, checked, unseen, missed>>
    BY <1>3 DEF Stamp, beatVars
  <2>2. \A f \in Edits : /\ edit'[f].task = edit[f].task
                         /\ edit'[f].announced = edit[f].announced
                         /\ edit'[f].committed = edit[f].committed
                         /\ edit'[f].stamp \in {edit[f].stamp, Trunc(clock)}
    BY <1>0, <1>3 DEF Stamp, EditRecords
  <2>3. \A c \in Beats, t \in Tasks : Excused(c, t) => Excused(c, t)'
    BY <2>1, <2>2 DEF Excused
  <2>4. Stamped'
    BY <1>0, <2>1, <2>2 DEF Notice, Stamped, Trunc, Times
  <2> QED BY <2>1, <2>2, <2>3, <2>4 DEF Notice, Early, Hears, Knows, Changed, Listed
<1>4. CASE Announce(e)
  <2>1. UNCHANGED <<clock, rows, bpc, sched, checked>> /\ lastUpdate' = edit[e].stamp
    BY <1>4 DEF Announce, beatVars
  <2>2. \A f \in Edits : /\ edit'[f].task = edit[f].task
                         /\ edit'[f].committed = edit[f].committed
                         /\ edit'[f].stamp = edit[f].stamp
                         /\ f # e => edit'[f].announced = edit[f].announced
    BY <1>0, <1>4 DEF Announce, EditRecords
  <2>3. unseen \subseteq unseen' /\ missed \subseteq missed' /\ \A c \in Beats : <<c, e>> \in unseen'
    BY <1>4 DEF Announce
  <2>4. Stamped'
    BY <2>1, <2>2 DEF Notice, Stamped, Trunc
  <2>5. Early'
    <3>1. ~edit[e].committed => \A c \in Beats : <<c, e>> \in missed'
      BY <1>4 DEF Announce
    <3> QED BY <2>2, <2>3, <3>1 DEF Notice, Early
  <2>6. Hears'
    <3> SUFFICES ASSUME NEW c \in Beats, NEW f \in Edits,
                        <<c, f>> \in unseen', <<c, f>> \notin missed'
                 PROVE  Changed(c)'
      BY DEF Hears
    <3>1. checked[c] # NoTime /\ ~(checked[c] >= edit[e].stamp)
      BY <1>4 DEF Announce
    <3>2. checked[c] \in Times \cup {NoTime}
      BY DEF MemoryTypes
    <3> QED BY <1>1, <2>1, <3>1, <3>2 DEF Changed, Times, NoTime, BeatAssumption
  <2>7. Knows'
    <3>1. \A c \in Beats, t \in Tasks : Excused(c, t) => Excused(c, t)'
      BY <2>2, <2>3 DEF Excused
    <3> QED BY <2>1, <3>1 DEF Notice, Knows, Listed
  <2> QED BY <2>4, <2>5, <2>6, <2>7 DEF Notice
<1>5. CASE Commit(e)
  <2>1. UNCHANGED <<clock, lastUpdate, bpc, sched, checked, unseen, missed>>
    BY <1>5 DEF Commit, beatVars
  <2>2. /\ \A f \in Edits : /\ edit'[f].task = edit[f].task
                            /\ edit'[f].stamp = edit[f].stamp
                            /\ edit'[f].announced = edit[f].announced
                            /\ f # e => edit'[f].committed = edit[f].committed
        /\ edit'[e].committed /\ ~edit[e].committed
    <3>1. edit' = [edit EXCEPT ![e].committed = TRUE] /\ ~edit[e].committed
      BY <1>5 DEF Commit
    <3>2. edit'[e] = [edit[e] EXCEPT !.committed = TRUE] /\ edit[e] \in EditRecords
      BY <1>0, <3>1
    <3>3. /\ edit'[e].task = edit[e].task /\ edit'[e].stamp = edit[e].stamp
          /\ edit'[e].announced = edit[e].announced /\ edit'[e].committed
      BY <3>2, EditMarked
    <3> QED BY <1>0, <3>1, <3>3
  <2>3. \A t \in Tasks : t # edit[e].task => rows'[t] = rows[t]
    BY <1>5 DEF Commit, SharedTypes, Rows
  <2>4. Early'
    BY <2>1, <2>2 DEF Notice, Early
  <2>5. \A c \in Beats, t \in Tasks : t = edit[e].task => Excused(c, t)'
    BY <2>1, <2>2 DEF Notice, Early, Excused
  <2>6. \A c \in Beats, t \in Tasks : (Excused(c, t) /\ t # edit[e].task) => Excused(c, t)'
    BY <2>1, <2>2 DEF Excused
  <2>7. Knows'
    <3> SUFFICES ASSUME NEW c \in Beats, NEW t \in Tasks \ OneOff,
                        bpc[c] \in Reading,
                        Listed(c, t)' # (rows'[t].status = "on")
                 PROVE  Excused(c, t)'
      BY <2>1 DEF Knows
    <3>1. CASE t = edit[e].task
      BY <2>5, <3>1
    <3>2. CASE t # edit[e].task
      <4>1. Listed(c, t)' = Listed(c, t) /\ rows'[t] = rows[t]
        BY <2>1, <2>3, <3>2 DEF Listed
      <4> QED BY <2>6, <3>2, <4>1 DEF Notice, Knows
    <3> QED BY <3>1, <3>2
  <2> QED BY <2>1, <2>2, <2>4, <2>7 DEF Notice, Stamped, Hears, Changed, Trunc
<1> QED BY <1>2, <1>3, <1>4, <1>5 DEF EditNext

LEMMA InitNotice == ASSUME BeatAssumption, Init PROVE Notice
<1>1. 0 \in Times /\ None \notin Tasks
  BY DEF BeatAssumption, Times
<1>2. edit \in [Edits -> {Idle, Absent}]
  BY DEF Init
<1>3. \A e \in Edits : edit[e].stamp = NoTime /\ ~edit[e].announced
  BY <1>2 DEF Idle, Absent
<1>4. Stamped
  BY <1>1, <1>3, TruncIn DEF Init, Stamped, Times, NoTime
<1>5. bpc \in [Beats -> {"down", "stopped"}] /\ unseen = {}
  BY DEF Init
<1> QED BY <1>3, <1>4, <1>5 DEF Notice, Early, Hears, Knows, Reading

\* What a beat has yet to hear of is as above in every reachable state.
THEOREM BeatNotice == Spec => []Notice
<1>1. Init => Notice
  BY InitNotice, BeatAssumption
<1>2. Types /\ Notice /\ [Next]_vars => Notice'
  <2> SUFFICES ASSUME Types, Notice, [Next]_vars PROVE Notice'
    OBVIOUS
  <2>1. CASE UNCHANGED vars
    BY <2>1 DEF vars, beatVars, editVars, Notice, Stamped, Early, Hears, Knows, Changed, Listed,
                Excused, Trunc
  <2> QED BY <2>1, BeatAssumption, BeatStepNotice, ClockNotice, EditStepNotice DEF Next
<1> QED BY <1>1, <1>2, BeatTypes, PTL DEF Spec

\* A beat about to serve its heap knows which interval tasks are enabled, but for
\* the edits it could not have noticed.
THEOREM BeatChangesNoticed == Spec => []ChangesNoticed
<1>1. Notice => ChangesNoticed
  BY DEF Notice, Knows, Excused, ChangesNoticed, Reading
<1> QED BY <1>1, BeatNotice, PTL

-----------------------------------------------------------------------------
(* What the entries of the schedule and of the heap know.                  *)

\* The entries of the schedule know the runs of the model.
Level(b) == \A t \in DOMAIN sched[b] : sched[b][t].entry = sched[b][t].last

\* The heap is built from entries that know the runs, unless a change was found
\* between the comparison and the building; so do those in the heap.
Fresh ==
    \A b \in Beats :
        /\ (bpc[b] \in Resumes \/ ~built[b] \/ invalid[b]) => (between[b] \/ Level(b))
        /\ \A t \in DOMAIN heap[b] : heap[b][t].entry = sched[b][t].last \/ between[b]
        /\ bpc[b] \in Resumes \cup {"due"} => (invalid[b] => between[b])
        /\ invalid[b] => built[b]
        /\ bpc[b] = "due" => built[b]

\* The other beats keep what they have.
FreshFrame(b) ==
    \A c \in Beats \ {b} :
        /\ bpc'[c] = bpc[c] /\ sched'[c] = sched[c] /\ heap'[c] = heap[c] /\ built'[c] = built[c]
        /\ invalid'[c] = invalid[c] /\ between'[c] = between[c]

FreshOf(b) ==
    /\ (bpc[b] \in Resumes \/ ~built[b] \/ invalid[b]) => (between[b] \/ Level(b))
    /\ \A t \in DOMAIN heap[b] : heap[b][t].entry = sched[b][t].last \/ between[b]
    /\ bpc[b] \in Resumes \cup {"due"} => (invalid[b] => between[b])
    /\ invalid[b] => built[b]
    /\ bpc[b] = "due" => built[b]

LEMMA FreshKept ==
    ASSUME Fresh, NEW b \in Beats, FreshFrame(b), FreshOf(b)' PROVE Fresh'
<1> SUFFICES ASSUME NEW c \in Beats PROVE FreshOf(c)'
  BY DEF Fresh, FreshOf
<1>1. CASE c = b
  BY <1>1
<1>2. CASE c # b
  <2>1. FreshOf(c)
    BY DEF Fresh, FreshOf
  <2> QED BY <1>2, <2>1 DEF FreshFrame, FreshOf, Level
<1> QED BY <1>1, <1>2

\* What was just read is level, and an emptied heap knows nothing wrong.
LEMMA ReloadFresh ==
    ASSUME MemoryTypes, HistoryTypes, NEW b \in Beats, NEW r \in Rows, Reload(b, r)
    PROVE  /\ Level(b)' /\ DOMAIN heap'[b] = {} /\ built'[b]
           /\ \A c \in Beats \ {b} :
                sched'[c] = sched[c] /\ heap'[c] = heap[c] /\ built'[c] = built[c]
<1>1. /\ Read(b, r) /\ heap' = [heap EXCEPT ![b] = Empty]
      /\ built' = [built EXCEPT ![b] = TRUE]
  BY DEF Reload
<1>2. sched'[b] = Loaded(r) /\ \A c \in Beats \ {b} : sched'[c] = sched[c]
  BY <1>1, ReadIs
<1>3. Level(b)'
  <2>1. \A t \in DOMAIN Loaded(r) : Loaded(r)[t].entry = Loaded(r)[t].last
    BY LoadedTypes
  <2> QED BY <1>2, <2>1, Zenon DEF Level
<1> QED BY <1>1, <1>2, <1>3, EmptyTypes DEF MemoryTypes

\* Disabling leaves the times alone.
LEMMA DisableFresh ==
    ASSUME Types, NEW b \in Beats, NEW S \in SUBSET DOMAIN sched[b], Disable(b, S)
    PROVE  /\ \A c \in Beats \ {b} : sched'[c] = sched[c]
           /\ DOMAIN sched'[b] = DOMAIN sched[b]
           /\ \A t \in DOMAIN sched[b] : /\ sched'[b][t].last = sched[b][t].last
                                        /\ sched'[b][t].entry = sched[b][t].entry
<1> DEFINE new == [t \in DOMAIN sched[b] |->
                IF t \in S THEN [sched[b][t] EXCEPT !.on = FALSE, !.ran = FALSE] ELSE sched[b][t]]
<1>1. sched' = [sched EXCEPT ![b] = new]
  BY DEF Disable, Types, MemoryTypes
<1>2. sched'[b] = new /\ \A c \in Beats \ {b} : sched'[c] = sched[c]
  BY <1>1 DEF Types, MemoryTypes
<1>3. \A t \in DOMAIN sched[b] : new[t].last = sched[b][t].last /\ new[t].entry = sched[b][t].entry
  <2> TAKE t \in DOMAIN sched[b]
  <2>1. sched[b][t] \in Entries
    BY ScheduleIs DEF Types, MemoryTypes
  <2> QED BY <2>1 DEF Entries
<1> QED BY <1>2, <1>3

LEMMA BeatStepFresh ==
    ASSUME BeatAssumption, Types, Fresh, NEW b \in Beats, BeatNext(b) PROVE Fresh'
<1> USE DEF Types
<1>0. /\ bpc \in [Beats -> Phases] /\ built \in [Beats -> BOOLEAN]
      /\ invalid \in [Beats -> BOOLEAN] /\ between \in [Beats -> BOOLEAN] /\ FreshOf(b)
  BY DEF MemoryTypes, HistoryTypes, Fresh, FreshOf
<1>1. CASE Setup(b)
  <2>1. /\ Read(b, rows) /\ rows \in Rows /\ heap' = heap /\ DOMAIN heap[b] = {}
        /\ bpc' = [bpc EXCEPT ![b] = "waiting"] /\ UNCHANGED <<built, invalid, between>>
    BY <1>1 DEF Setup, SharedTypes, MemoryTypes
  <2>2. sched'[b] = Loaded(rows) /\ \A c \in Beats \ {b} : sched'[c] = sched[c]
    BY <2>1, ReadIs
  <2>3. Level(b)'
    <3>1. \A t \in DOMAIN Loaded(rows) : Loaded(rows)[t].entry = Loaded(rows)[t].last
      BY <2>1, LoadedTypes
    <3> QED BY <2>2, <3>1, Zenon DEF Level
  <2>4. FreshFrame(b)
    BY <1>0, <2>1, <2>2 DEF FreshFrame
  <2>5. FreshOf(b)'
    BY <1>0, <2>1, <2>3 DEF FreshOf, Resumes
  <2> QED BY <2>4, <2>5, FreshKept
<1>2. CASE Load(b)
  <2>1. /\ Reload(b, rows) /\ rows \in Rows /\ after[b] \in Resumes
        /\ invalid' = [invalid EXCEPT ![b] = after[b] # "copy"]
        /\ between' = [between EXCEPT ![b] = after[b] # "copy"]
        /\ bpc' = [bpc EXCEPT ![b] = after[b]]
    BY <1>2 DEF Load, SharedTypes, MemoryTypes
  <2>2. invalid'[b] = (after[b] # "copy") /\ between'[b] = (after[b] # "copy")
    BY <1>0, <2>1
  <2>3. /\ Level(b)' /\ DOMAIN heap'[b] = {} /\ built'[b]
        /\ \A c \in Beats \ {b} : sched'[c] = sched[c] /\ heap'[c] = heap[c] /\ built'[c] = built[c]
    BY <2>1, ReloadFresh
  <2>4. FreshFrame(b)
    BY <1>0, <2>1, <2>3 DEF FreshFrame
  <2>5. FreshOf(b)'
    BY <2>2, <2>3 DEF FreshOf
  <2> QED BY <2>4, <2>5, FreshKept
<1>3. ASSUME NEW t \in Tasks, SyncReload(b, t) PROVE Fresh'
  <2> DEFINE r == Saved(b, Pending(b) \ {t})
  <2>1. r \in Rows
    BY SavedTypes DEF Pending
  <2>2. /\ Reload(b, r) /\ bpc' = bpc /\ bpc[b] \notin Resumes \cup {"due"}
        /\ invalid' = [invalid EXCEPT ![b] = TRUE] /\ between' = [between EXCEPT ![b] = FALSE]
    BY <1>3 DEF SyncReload, Syncing, Resumes
  <2> HIDE DEF r
  <2>3. /\ Level(b)' /\ DOMAIN heap'[b] = {} /\ built'[b]
        /\ \A c \in Beats \ {b} : sched'[c] = sched[c] /\ heap'[c] = heap[c] /\ built'[c] = built[c]
    BY <2>1, <2>2, ReloadFresh
  <2>4. FreshFrame(b)
    BY <1>0, <2>2, <2>3 DEF FreshFrame
  <2>5. FreshOf(b)'
    BY <2>2, <2>3 DEF FreshOf
  <2> QED BY <2>4, <2>5, FreshKept
<1>4. CASE Build(b)
  <2> DEFINE ended == {t \in DOMAIN sched[b] : Exhausted(b, t)}
  <2>1. /\ Disable(b, ended) /\ built' = [built EXCEPT ![b] = TRUE]
        /\ bpc' = [bpc EXCEPT ![b] = "due"] /\ bpc[b] = "build"
        /\ UNCHANGED <<invalid, between>>
    BY <1>4 DEF Build
  <2>2. /\ heap'[b] \in [DOMAIN sched[b] -> [time: {heap'[b][t].time : t \in DOMAIN sched[b]},
                                          entry: {sched[b][t].entry : t \in DOMAIN sched[b]}]]
        /\ \A t \in DOMAIN sched[b] : heap'[b][t].entry = sched[b][t].entry
        /\ \A c \in Beats \ {b} : heap'[c] = heap[c]
    BY <1>4 DEF Build, MemoryTypes
  <2>3. /\ \A c \in Beats \ {b} : sched'[c] = sched[c]
        /\ DOMAIN sched'[b] = DOMAIN sched[b]
        /\ \A t \in DOMAIN sched[b] : /\ sched'[b][t].last = sched[b][t].last
                                     /\ sched'[b][t].entry = sched[b][t].entry
    BY <2>1, DisableFresh
  <2> HIDE DEF ended
  <2>4. FreshFrame(b)
    BY <1>0, <2>1, <2>2, <2>3 DEF FreshFrame
  <2>5. between[b] \/ Level(b)
    BY <1>0, <2>1 DEF FreshOf, Resumes
  <2>6. between'[b] \/ Level(b)'
    BY <2>1, <2>3, <2>5 DEF Level
  <2>7. \A t \in DOMAIN heap'[b] : heap'[b][t].entry = sched'[b][t].last \/ between'[b]
    BY <2>1, <2>2, <2>3, <2>5 DEF Level
  <2>8. invalid[b] => between[b]
    BY <1>0, <2>1 DEF FreshOf, Resumes
  <2>9. FreshOf(b)'
    BY <1>0, <2>1, <2>6, <2>7, <2>8 DEF FreshOf
  <2> QED BY <2>4, <2>9, FreshKept
<1>5. ASSUME NEW t \in Tasks, Dispatch(b, t) PROVE Fresh'
  <2>1. t \in DOMAIN sched[b] /\ t \in DOMAIN heap[b]
    BY <1>5, TopListed DEF Dispatch, Top
  <2>2. /\ bpc[b] = "due" /\ bpc' = [bpc EXCEPT ![b] = "rest"]
        /\ UNCHANGED <<built, invalid, between>>
    BY <1>5 DEF Dispatch
  <2>3. sched[b] \in [DOMAIN sched[b] -> Entries] /\ heap[b] \in [DOMAIN heap[b] -> HeapEntries]
    BY ScheduleIs DEF MemoryTypes, Heaps
  <2> DEFINE entry == [sched[b][t] EXCEPT !.last = clock, !.ran = TRUE]
             pushed == [time |-> clock + Every[t], entry |-> clock]
  <2>4. /\ sched' = [sched EXCEPT ![b] = [sched[b] EXCEPT ![t] = entry]]
        /\ heap' = [heap EXCEPT ![b] = [heap[b] EXCEPT ![t] = pushed]]
    BY <1>5 DEF Dispatch
  <2>5. entry.last = clock /\ pushed.entry = clock
    BY <2>1, <2>3 DEF Entries
  <2>6. /\ DOMAIN heap'[b] = DOMAIN heap[b]
        /\ sched'[b][t] = entry /\ heap'[b][t] = pushed
        /\ \A x \in DOMAIN sched[b] \ {t} : sched'[b][x] = sched[b][x]
        /\ \A x \in DOMAIN heap[b] \ {t} : heap'[b][x] = heap[b][x]
        /\ \A c \in Beats \ {b} : sched'[c] = sched[c] /\ heap'[c] = heap[c]
    BY <2>1, <2>3, <2>4 DEF MemoryTypes
  <2> HIDE DEF entry, pushed
  <2>7. FreshFrame(b)
    BY <1>0, <2>2, <2>6 DEF FreshFrame
  <2>8. \A x \in DOMAIN heap'[b] : heap'[b][x].entry = sched'[b][x].last \/ between'[b]
    <3>1. DOMAIN heap[b] \subseteq DOMAIN sched[b]
      BY DEF MemoryTypes
    <3> QED BY <1>0, <2>2, <2>5, <2>6, <3>1 DEF FreshOf
  <2>9. FreshOf(b)'
    BY <1>0, <2>2, <2>8 DEF FreshOf, Resumes
  <2> QED BY <2>7, <2>9, FreshKept
<1>6. ASSUME NEW t \in Tasks, EndOneOff(b, t) PROVE Fresh'
  <2>1. /\ Disable(b, {t}) /\ t \in DOMAIN sched[b] /\ bpc[b] = "due"
        /\ bpc' = [bpc EXCEPT ![b] = "rest"] /\ UNCHANGED <<heap, built, invalid, between>>
    BY <1>6, TopListed DEF EndOneOff
  <2>2. /\ \A c \in Beats \ {b} : sched'[c] = sched[c]
        /\ DOMAIN sched'[b] = DOMAIN sched[b]
        /\ \A x \in DOMAIN sched[b] : /\ sched'[b][x].last = sched[b][x].last
                                     /\ sched'[b][x].entry = sched[b][x].entry
    BY <2>1, DisableFresh
  <2>3. FreshFrame(b)
    BY <1>0, <2>1, <2>2 DEF FreshFrame
  <2>4. \A x \in DOMAIN heap[b] : sched'[b][x].last = sched[b][x].last
    BY <2>2 DEF MemoryTypes
  <2>5. FreshOf(b)'
    BY <1>0, <2>1, <2>2, <2>4 DEF FreshOf, Level, Resumes
  <2> QED BY <2>3, <2>5, FreshKept
<1>7. CASE Exit(b) \/ Crash(b)
  <2>1. Gone(b) /\ between' = between
    BY <1>7 DEF Exit, Crash, runVars
  <2>2. /\ DOMAIN sched'[b] = {} /\ DOMAIN heap'[b] = {} /\ ~invalid'[b] /\ bpc'[b] = "stopped"
    BY <2>1, EmptyTypes DEF Gone, MemoryTypes
  <2>3. FreshFrame(b)
    BY <1>0, <2>1 DEF Gone, FreshFrame, MemoryTypes
  <2>4. FreshOf(b)'
    BY <2>2 DEF FreshOf, Level, Resumes
  <2> QED BY <2>3, <2>4, FreshKept
<1>8. CASE Check(b)
  <2>1. /\ bpc[b] \in Looks /\ (bpc[b] = "check" => built[b])
        /\ bpc' = [bpc EXCEPT ![b] =
                IF bpc[b] = "check" /\ ~invalid[b] THEN "due" ELSE NextLook(bpc[b])]
        /\ invalid' = [invalid EXCEPT ![b] = invalid[b] /\ bpc[b] # "check"]
        /\ UNCHANGED <<sched, heap, built, between>>
    BY <1>8 DEF Check, runVars
  <2>2. FreshFrame(b)
    BY <1>0, <2>1 DEF FreshFrame
  <2>3. invalid'[b] = (invalid[b] /\ bpc[b] # "check")
    BY <1>0, <2>1
  <2>4. FreshOf(b)'
    <3>1. CASE bpc[b] = "check" /\ ~invalid[b]
      <4>1. bpc'[b] = "due" /\ ~invalid'[b] /\ built[b]
        BY <1>0, <2>1, <2>3, <3>1
      <4> QED BY <1>0, <2>1, <4>1 DEF FreshOf, Level, Resumes
    <3>2. CASE bpc[b] = "check" /\ invalid[b]
      <4>1. bpc'[b] = "copy" /\ ~invalid'[b]
        BY <1>0, <2>1, <2>3, <3>2 DEF NextLook
      <4> QED BY <1>0, <2>1, <3>2, <4>1 DEF FreshOf, Level, Resumes
    <3>3. CASE bpc[b] \in {"copy", "populate"}
      <4>1. bpc'[b] \in Resumes /\ invalid'[b] = invalid[b]
        BY <1>0, <2>1, <2>3, <3>3 DEF NextLook, Resumes
      <4> QED BY <1>0, <2>1, <3>3, <4>1 DEF FreshOf, Level, Resumes
    <3> QED BY <2>1, <3>1, <3>2, <3>3 DEF Looks
  <2> QED BY <2>2, <2>4, FreshKept
<1>9. CASE FirstTick(b)
  <2>1. /\ ~built[b] /\ bpc' = [bpc EXCEPT ![b] = "copy"]
        /\ UNCHANGED <<sched, heap, built, invalid, between>>
    BY <1>9 DEF FirstTick, runVars
  <2>2. FreshFrame(b)
    BY <1>0, <2>1 DEF FreshFrame
  <2>3. FreshOf(b)'
    BY <1>0, <2>1 DEF FreshOf, Level, Resumes
  <2> QED BY <2>2, <2>3, FreshKept
<1>10. ASSUME UNCHANGED <<sched, heap, built, invalid, between>>,
              \A c \in Beats \ {b} : bpc'[c] = bpc[c], bpc'[b] \notin Resumes \cup {"due"}
       PROVE  Fresh'
  <2>1. FreshFrame(b)
    BY <1>10 DEF FreshFrame
  <2>2. FreshOf(b)'
    BY <1>0, <1>10 DEF FreshOf, Level
  <2> QED BY <2>1, <2>2, FreshKept
<1>11. CASE Acquire(b) \/ Extend(b) \/ ExtendFails(b) \/ CheckChanged(b) \/ NotDue(b) \/ Wake(b)
            \/ SyncDone(b) \/ Close(b)
  BY <1>0, <1>10, <1>11
     DEF Acquire, Extend, ExtendFails, CheckChanged, NotDue, Wake, SyncDone, AfterSync, Close,
         runVars, Resumes
<1>12. ASSUME NEW t \in Tasks, SyncSave(b, t) \/ SyncFails(b, t) PROVE Fresh'
  BY <1>0, <1>10, <1>12 DEF SyncSave, SyncFails, Syncing, AfterSync, Resumes
<1> QED
  BY <1>1, <1>2, <1>3, <1>4, <1>5, <1>6, <1>7, <1>8, <1>9, <1>11, <1>12 DEF BeatNext

\* What the entries know is as above in every reachable state.
THEOREM BeatFresh == Spec => []Fresh
<1>1. Init => Fresh
  BY EmptyTypes DEF Init, Fresh, Level, Resumes
<1>2. Types /\ Fresh /\ [Next]_vars => Fresh'
  <2> SUFFICES ASSUME Types, Fresh, [Next]_vars PROVE Fresh'
    OBVIOUS
  <2>1. CASE UNCHANGED vars \/ ClockForward \/ \E e \in Edits : EditNext(e)
    <3>1. UNCHANGED <<bpc, sched, heap, built, invalid, between>>
      BY <2>1 DEF vars, beatVars, runVars, ClockForward, EditNext, Edit, Stamp, Announce, Commit
    <3> QED BY <3>1 DEF Fresh, Level
  <2> QED BY <2>1, BeatAssumption, BeatStepFresh DEF Next
<1> QED BY <1>1, <1>2, BeatTypes, PTL DEF Spec

-----------------------------------------------------------------------------
(* Who remembers the last run.                                             *)

LEMMA EntryTypes ==
    ASSUME Types, NEW b \in Beats, NEW t \in DOMAIN sched[b]
    PROVE  t \in Tasks /\ sched[b][t] \in Entries /\ sched[b][t].last \in Times
BY ScheduleIs DEF Types, MemoryTypes, Entries

LEMMA RowTypes ==
    ASSUME Types, NEW t \in Tasks
    PROVE  rows[t].last \in Times /\ rows[t].ran \in BOOLEAN /\ sent[t].at \in Times
           /\ sent[t].by \in Beats \cup {None}
BY DEF Types, SharedTypes, HistoryTypes, Rows

\* Requests that do not move, and rows that are not revived.
LEMMA RowLocksKept ==
    ASSUME Types, RowLocks, edit' = edit,
           \A t \in Tasks : rows'[t].status = "deleted" => rows[t].status = "deleted"
    PROVE  RowLocks'
BY DEF RowLocks, Types, EditTypes

\* A process that goes on and touches none of this.
LEMMA QuietRuns ==
    ASSUME Types, Runs, NEW b \in Beats, NEW x \in Phases \ {"down", "stopped"},
           bpc' = [bpc EXCEPT ![b] = x], bpc[b] # "stopped",
           UNCHANGED <<rows, edit, sched, dirty, sent, lost, edited, readWhile, again>>
    PROVE  Runs'
<1>1. Memory'
  BY DEF Runs, Memory, Types, MemoryTypes
<1>2. RowLocks' /\ Traced' /\ Recalled' /\ Ended' /\ RunsSpaced'
  BY DEF Runs, RowLocks, Traced, Recalled, Ended, RunsSpaced, RowKnows, EntryKnows, RanIsKnown,
         Pending
<1> QED BY <1>1, <1>2 DEF Runs

\* What a save of S leaves known: the rows, or another beat, or the rest of the
\* names.
LEMMA SavedKnows ==
    ASSUME Types, Runs, NEW b \in Beats, NEW S \in SUBSET Pending(b), rows' = Saved(b, S),
           lost \cup Overwritten(b, S) \subseteq lost', UNCHANGED <<sent, edited>>,
           NEW t \in Tasks, sent[t].by # None
    PROVE  \/ t \in lost' \/ RowKnows(t)'
           \/ t \in Pending(sent[t].by) /\ (sent[t].by # b \/ t \notin S)
<1>1. t \in lost \/ RowKnows(t) \/ t \in Pending(sent[t].by)
  BY DEF Runs, Traced
<1>2. CASE t \notin S \/ rows[t].status = "deleted"
  <2>1. rows'[t] = rows[t]
    BY <1>2 DEF Saved
  <2> QED BY <1>1, <1>2, <2>1 DEF RowKnows, RanIsKnown
<1>3. CASE t \in S /\ rows[t].status # "deleted" /\ t \notin Overwritten(b, S)
  <2>1. t \in DOMAIN sched[b]
    BY <1>3 DEF Pending
  <2>2. /\ sched[b][t].last \in Times /\ rows[t].last \in Times /\ sent[t].at \in Times
        /\ sent[t].by \in Beats
    BY <2>1, EntryTypes, RowTypes
  <2>3. ~(rows[t].last > sched[b][t].last) /\ (rows[t].ran => sched[b][t].ran)
    BY <1>3 DEF Overwritten
  <2>4. /\ rows'[t].last = sched[b][t].last /\ rows'[t].ran = sched[b][t].ran
        /\ rows'[t].status = rows[t].status
    BY <1>3 DEF Saved, Types, SharedTypes, Rows
  <2>5. CASE RowKnows(t)
    <3>1. rows[t].last >= sent[t].at
      BY <1>3, <2>5 DEF RowKnows, RanIsKnown
    <3>2. (t \in OneOff /\ t \notin edited) => (rows[t].ran \/ rows[t].status # "on")
      BY <1>3, <2>5, Zenon DEF RowKnows, RanIsKnown
    <3>3. rows'[t].last >= sent'[t].at
      BY <2>2, <2>3, <2>4, <3>1 DEF Times
    <3>4. (t \in OneOff /\ t \notin edited') => (rows'[t].ran \/ rows'[t].status # "on")
      BY <2>3, <2>4, <3>2, Zenon
    <3> QED BY <3>3, <3>4, Zenon DEF RowKnows, RanIsKnown
  <2>6. CASE sent[t].by = b /\ EntryKnows(b, t)
    <3>1. rows'[t].last >= sent'[t].at
      BY <2>4, <2>6 DEF EntryKnows, RanIsKnown
    <3>2. (t \in OneOff /\ t \notin edited) => (sched[b][t].ran \/ ~sched[b][t].on)
      BY <2>6, Zenon DEF EntryKnows, RanIsKnown
    <3>3. (t \in OneOff /\ t \notin edited /\ ~sched[b][t].on) => rows[t].status # "on"
      BY <2>1, <2>6 DEF Runs, Ended
    <3>4. (t \in OneOff /\ t \notin edited') => (rows'[t].ran \/ rows'[t].status # "on")
      BY <2>4, <3>2, <3>3, Zenon
    <3> QED BY <3>1, <3>4, Zenon DEF RowKnows, RanIsKnown
  <2> QED BY <1>1, <2>1, <2>2, <2>5, <2>6 DEF Runs, Recalled
<1> QED BY <1>2, <1>3

\* A schedule that is read anew from rows, by a beat that forgets nothing which
\* is not in lost'.
LEMMA ReloadRuns ==
    ASSUME BeatAssumption, Types, Runs, NEW b \in Beats, NEW r \in Rows, Read(b, r), rows' = r,
           bpc[b] # "stopped", bpc' \in [Beats -> Phases], bpc'[b] \notin {"down", "stopped"},
           \A c \in Beats \ {b} : bpc'[c] = bpc[c] /\ dirty'[c] = dirty[c],
           UNCHANGED <<sent, edited, again, edit>>,
           \A t \in Tasks : r[t].status = rows[t].status,
           lost \subseteq lost',
           \A t \in Tasks : sent[t].by # None =>
                t \in lost' \/ RowKnows(t)' \/ (t \in Pending(sent[t].by) /\ sent[t].by # b)
    PROVE  Runs'
<1>1. sched' = [sched EXCEPT ![b] = Loaded(r)]
      /\ readWhile' = [readWhile EXCEPT ![b] = {c \in Beats \ {b} : bpc[c] # "stopped"}]
  BY DEF Read
<1>2. /\ sched'[b] = Loaded(r) /\ \A c \in Beats \ {b} : sched'[c] = sched[c]
      /\ readWhile'[b] = {c \in Beats \ {b} : bpc[c] # "stopped"}
      /\ \A c \in Beats \ {b} : readWhile'[c] = readWhile[c]
  BY <1>1 DEF Types, MemoryTypes, HistoryTypes
<1>3. Memory'
  BY <1>2 DEF Runs, Memory
<1>4. RowLocks'
  BY RowLocksKept DEF Runs
<1>5. Traced'
  <2> SUFFICES ASSUME NEW t \in Tasks, sent[t].by # None
               PROVE  t \in lost' \/ RowKnows(t)' \/ t \in Pending(sent[t].by)'
    BY DEF Traced
  <2>1. CASE t \in Pending(sent[t].by) /\ sent[t].by # b
    <3>1. sent[t].by \in Beats \ {b}
      BY <2>1, RowTypes
    <3>2. sched'[sent[t].by] = sched[sent[t].by] /\ dirty'[sent[t].by] = dirty[sent[t].by]
      BY <1>2, <3>1
    <3> QED BY <2>1, <3>2 DEF Pending
  <2> QED BY <2>1
<1>6. Recalled'
  <2> SUFFICES ASSUME NEW c \in Beats, NEW t \in Tasks, sent[t].by # None, t \in DOMAIN sched'[c]
               PROVE  \/ t \in lost' \/ EntryKnows(c, t)'
                      \/ sent[t].by # c /\ sent[t].by \in readWhile'[c]
    BY DEF Recalled
  <2>1. CASE c # b
    <3>1. sched'[c] = sched[c] /\ readWhile'[c] = readWhile[c]
      BY <1>2, <2>1
    <3>2. EntryKnows(c, t) => EntryKnows(c, t)'
      BY <3>1 DEF EntryKnows, RanIsKnown
    <3> QED BY <3>1, <3>2 DEF Runs, Recalled
  <2>2. CASE c = b /\ RowKnows(t)'
    <3>0. sched'[b] = Loaded(r) /\ t \in DOMAIN Loaded(r)
      BY <1>2, <2>2
    <3>1. /\ r[t].status = "on"
          /\ sched'[b][t].on /\ sched'[b][t].ran = r[t].ran /\ sched'[b][t].last = r[t].last
      <4>1. DOMAIN Loaded(r) = {x \in Tasks : r[x].status = "on"}
        BY LoadedTypes
      <4>2. Loaded(r)[t].on /\ Loaded(r)[t].ran = r[t].ran /\ Loaded(r)[t].last = r[t].last
        BY <3>0, LoadedTypes
      <4> QED BY <3>0, <4>1, <4>2
    <3>2. r[t].last >= sent[t].at
      BY <2>2, <3>1 DEF RowKnows, RanIsKnown
    <3>3. (t \in OneOff /\ t \notin edited) => r[t].ran
      BY <2>2, <3>1, Zenon DEF RowKnows, RanIsKnown
    <3>4. sched'[b][t].last >= sent'[t].at
      BY <3>1, <3>2
    <3> QED BY <2>2, <3>1, <3>3, <3>4, Zenon DEF EntryKnows, RanIsKnown
  <2>3. CASE c = b /\ t \in Pending(sent[t].by) /\ sent[t].by # b
    <3>1. sent[t].by \in Beats \ {b}
      BY <2>3, RowTypes
    <3>2. bpc[sent[t].by] # "stopped"
      BY <2>3, <3>1 DEF Runs, Memory, Pending
    <3> QED BY <1>2, <2>3, <3>1, <3>2
  <2> QED BY <2>1, <2>2, <2>3
<1>7. Ended'
  <2> SUFFICES ASSUME NEW c \in Beats, NEW t \in OneOff, sent[t].by = c, t \in DOMAIN sched'[c],
                      ~sched'[c][t].on, t \notin edited
               PROVE  rows'[t].status # "on"
    BY DEF Ended
  <2>1. c # b
    <3>1. \A x \in DOMAIN Loaded(r) : Loaded(r)[x].on
      BY LoadedTypes
    <3> QED BY <1>2, <3>1, Zenon
  <2>2. t \in Tasks
    BY DEF BeatAssumption
  <2> QED BY <1>2, <2>1, <2>2 DEF Runs, Ended
<1>8. RunsSpaced'
  BY DEF Runs, RunsSpaced
<1> QED BY <1>3, <1>4, <1>5, <1>6, <1>7, <1>8 DEF Runs

LEMMA ReadRuns ==
    ASSUME BeatAssumption, Types, Runs, NEW b \in Beats, Setup(b) \/ Load(b) PROVE Runs'
<1>1. /\ Read(b, rows) /\ rows' = rows /\ bpc[b] # "stopped"
      /\ UNCHANGED <<sent, edited, again, edit, dirty>>
  BY DEF Setup, Load, Reload, editVars
<1>2. /\ rows \in Rows /\ bpc' \in [Beats -> Phases] /\ bpc'[b] \notin {"down", "stopped"}
      /\ \A c \in Beats \ {b} : bpc'[c] = bpc[c]
  BY DEF Setup, Load, Types, SharedTypes, MemoryTypes, Phases, Resumes
<1>3. lost \cup Pending(b) \subseteq lost'
  <2>1. bpc[b] = "down" => Pending(b) = {}
    BY DEF Runs, Memory, Pending
  <2> QED BY <2>1 DEF Setup, Load
<1>4. \A t \in Tasks : sent[t].by # None =>
            t \in lost' \/ RowKnows(t)' \/ (t \in Pending(sent[t].by) /\ sent[t].by # b)
  BY <1>1, <1>3 DEF Runs, Traced, RowKnows, RanIsKnown
<1> QED BY <1>1, <1>2, <1>3, <1>4, ReloadRuns

\* Disabling exhausted entries tells the rows of their runs.
LEMMA DisableRuns ==
    ASSUME BeatAssumption, Types, Runs, NEW b \in Beats, NEW S \in SUBSET DOMAIN sched[b],
           Disable(b, S), \A t \in S : Exhausted(b, t),
           NEW x \in Phases \ {"down", "stopped"}, bpc' = [bpc EXCEPT ![b] = x],
           bpc[b] # "stopped",
           UNCHANGED <<edit, dirty, sent, edited, readWhile, again>>
    PROVE  Runs'
<1> DEFINE new == [t \in DOMAIN sched[b] |->
                IF t \in S THEN [sched[b][t] EXCEPT !.on = FALSE, !.ran = FALSE] ELSE sched[b][t]]
<1>1. sched' = [sched EXCEPT ![b] = new] /\ \A c \in Beats : DOMAIN sched'[c] = DOMAIN sched[c]
  BY DisableTypes DEF Disable, Types, MemoryTypes
<1>2. /\ sched'[b] = new /\ \A c \in Beats \ {b} : sched'[c] = sched[c]
  BY <1>1 DEF Types, MemoryTypes
<1>3. \A t \in S : /\ sched'[b][t].last = sched[b][t].last
                   /\ ~sched'[b][t].on
  <2> TAKE t \in S
  <2>1. sched[b][t] \in Entries
    BY EntryTypes
  <2> QED BY <1>2, <2>1 DEF Entries
<1>4. \A t \in DOMAIN sched[b] \ S : sched'[b][t] = sched[b][t]
  BY <1>2
<1>5. S \subseteq OneOff /\ S \subseteq Tasks
  BY DEF Exhausted, BeatAssumption
<1>6. \A t \in Tasks : (t \notin S \/ rows[t].status = "deleted") => rows'[t] = rows[t]
  BY DEF Disable
<1>7. \A t \in S : rows[t].status # "deleted" =>
            /\ rows'[t].status = "off" /\ rows'[t].last = sched[b][t].last
            /\ t \in lost' \/ rows[t].last <= sched[b][t].last
  <2> SUFFICES ASSUME NEW t \in S, rows[t].status # "deleted"
               PROVE  /\ rows'[t].status = "off" /\ rows'[t].last = sched[b][t].last
                      /\ t \in lost' \/ rows[t].last <= sched[b][t].last
    OBVIOUS
  <2>1. rows'[t].status = "off" /\ rows'[t].last = sched[b][t].last
    BY <1>5 DEF Disable
  <2>2. t \in lost' \/ ~(rows[t].last > sched[b][t].last)
    BY DEF Disable, Overwritten
  <2>3. rows[t].last \in Times /\ sched[b][t].last \in Times
    BY <1>5, RowTypes, EntryTypes
  <2> QED BY <2>1, <2>2, <2>3 DEF Times
<1>8. lost \subseteq lost'
  BY DEF Disable
<1>9. Memory'
  BY <1>1 DEF Runs, Memory, Types, MemoryTypes
<1>10. RowLocks'
  <2>1. \A t \in Tasks : rows'[t].status = "deleted" => rows[t].status = "deleted"
    BY <1>6, <1>7
  <2> QED BY <2>1, RowLocksKept DEF Runs
<1>11. Traced'
  <2> SUFFICES ASSUME NEW t \in Tasks, sent[t].by # None
               PROVE  t \in lost' \/ RowKnows(t)' \/ t \in Pending(sent[t].by)'
    BY DEF Traced
  <2>1. t \in Pending(sent[t].by) => t \in Pending(sent[t].by)'
    BY <1>1, RowTypes DEF Pending
  <2>2. RowKnows(t) => t \in lost' \/ RowKnows(t)'
    <3>1. CASE t \notin S \/ rows[t].status = "deleted"
      BY <1>6, <3>1 DEF RowKnows, RanIsKnown
    <3>2. CASE t \in S /\ rows[t].status # "deleted" /\ RowKnows(t)
      <4>1. rows[t].last >= sent[t].at
        BY <3>2 DEF RowKnows, RanIsKnown
      <4>2. rows[t].last \in Times /\ sched[b][t].last \in Times /\ sent[t].at \in Times
        BY <3>2, RowTypes, EntryTypes
      <4>3. t \in lost' \/ rows'[t].last >= sent'[t].at
        BY <1>7, <3>2, <4>1, <4>2 DEF Times
      <4>4. rows'[t].status # "on"
        BY <1>7, <3>2
      <4> QED BY <4>3, <4>4, Zenon DEF RowKnows, RanIsKnown
    <3> QED BY <3>1, <3>2
  <2> QED BY <1>8, <2>1, <2>2 DEF Runs, Traced
<1>12. Recalled'
  <2> SUFFICES ASSUME NEW c \in Beats, NEW t \in Tasks, sent[t].by # None, t \in DOMAIN sched[c],
                      EntryKnows(c, t)
               PROVE  EntryKnows(c, t)'
    BY <1>1, <1>8 DEF Runs, Recalled
  <2>1. CASE c # b \/ t \notin S
    <3>1. sched'[c][t] = sched[c][t]
      BY <1>2, <1>4, <2>1
    <3> QED BY <3>1 DEF EntryKnows, RanIsKnown
  <2>2. CASE c = b /\ t \in S
    <3>1. sched'[b][t].last >= sent'[t].at
      BY <1>3, <2>2 DEF EntryKnows, RanIsKnown
    <3>2. ~sched'[b][t].on
      BY <1>3, <2>2
    <3> QED BY <2>2, <3>1, <3>2, Zenon DEF EntryKnows, RanIsKnown
  <2> QED BY <2>1, <2>2
<1>13. Ended'
  <2> SUFFICES ASSUME NEW c \in Beats, NEW t \in OneOff, sent[t].by = c, t \in DOMAIN sched[c],
                      ~sched'[c][t].on, t \notin edited
               PROVE  rows'[t].status # "on"
    BY <1>1 DEF Ended
  <2>0. t \in Tasks
    BY DEF BeatAssumption
  <2>1. CASE t \in S
    BY <1>6, <1>7, <2>0, <2>1
  <2>2. CASE t \notin S
    <3>1. sched'[c][t] = sched[c][t]
      BY <1>2, <1>4, <2>2
    <3> QED BY <1>6, <2>0, <2>2, <3>1 DEF Runs, Ended
  <2> QED BY <2>1, <2>2
<1>14. RunsSpaced'
  BY DEF Runs, RunsSpaced
<1> QED BY <1>9, <1>10, <1>11, <1>12, <1>13, <1>14 DEF Runs

LEMMA DispatchRuns ==
    ASSUME BeatAssumption, Types, Fresh, Runs, NEW b \in Beats, NEW t \in Tasks, Dispatch(b, t)
    PROVE  Runs'
<1>1. /\ t \in DOMAIN sched[b] /\ bpc[b] = "due" /\ ~Exhausted(b, t)
      /\ t \in DOMAIN heap[b] /\ Due(b, t, heap[b][t].entry)
  BY TopListed DEF Dispatch, Top
<1> DEFINE entry == [sched[b][t] EXCEPT !.last = clock, !.ran = TRUE]
           new == [sched[b] EXCEPT ![t] = entry]
<1>2. sched' = [sched EXCEPT ![b] = new]
  BY DEF Dispatch
<1>3. sched'[b] = new /\ \A c \in Beats \ {b} : sched'[c] = sched[c]
  BY <1>2 DEF Types, MemoryTypes
<1>4. /\ DOMAIN sched'[b] = DOMAIN sched[b]
      /\ \A x \in DOMAIN sched[b] \ {t} : sched'[b][x] = sched[b][x]
      /\ sched'[b][t].last = clock /\ sched'[b][t].ran /\ sched'[b][t].on
  <2>1. sched[b] \in [DOMAIN sched[b] -> Entries]
    BY ScheduleIs DEF Types, MemoryTypes
  <2>2. new[t] = entry /\ DOMAIN new = DOMAIN sched[b]
    BY <1>1, <2>1
  <2>3. \A x \in DOMAIN sched[b] \ {t} : new[x] = sched[b][x]
    BY <1>1, <2>1
  <2>4. entry.last = clock /\ entry.ran /\ entry.on
    <3>1. sched[b][t] \in Entries /\ sched[b][t].on
      BY <1>1, <2>1 DEF Due
    <3> QED BY <3>1 DEF Entries
  <2> QED BY <1>3, <2>2, <2>3, <2>4
<1> HIDE DEF entry, new
<1>5. /\ sent'[t].by = b /\ sent'[t].at = clock
      /\ \A x \in Tasks \ {t} : sent'[x] = sent[x]
  BY DEF Dispatch, Types, HistoryTypes
<1>6. lost' = lost \ {t} /\ edited' = edited \ {t}
  BY DEF Dispatch
<1>7. UNCHANGED <<rows, edit, readWhile, clock>> /\ bpc' = [bpc EXCEPT ![b] = "rest"]
  BY DEF Dispatch, editVars
<1>8. /\ t \in dirty'[b] /\ dirty[b] \subseteq dirty'[b]
      /\ \A c \in Beats \ {b} : dirty'[c] = dirty[c]
  BY DEF Dispatch, Reserved, Types, MemoryTypes
<1>9. clock \in Times
  BY DEF Types, SharedTypes
<1>10. Memory'
  <2>1. \A c \in Beats : DOMAIN sched'[c] = DOMAIN sched[c]
    BY <1>3, <1>4
  <2>2. \A c \in Beats : bpc'[c] = "stopped" <=> bpc[c] = "stopped"
    BY <1>1, <1>7 DEF Types, MemoryTypes
  <2>3. \A c \in Beats : bpc'[c] \in {"down", "stopped"} => bpc[c] \in {"down", "stopped"}
    BY <1>7 DEF Types, MemoryTypes
  <2> QED BY <1>7, <2>1, <2>2, <2>3 DEF Runs, Memory
<1>11. RowLocks'
  BY <1>7, RowLocksKept DEF Runs
<1>12. Traced'
  <2> SUFFICES ASSUME NEW x \in Tasks, sent'[x].by # None
               PROVE  x \in lost' \/ RowKnows(x)' \/ x \in Pending(sent[x].by)'
    BY DEF Traced
  <2>1. CASE x = t
    BY <1>1, <1>4, <1>5, <1>8, <2>1 DEF Pending
  <2>2. CASE x # t
    <3>1. sent'[x] = sent[x]
      BY <1>5, <2>2
    <3>2. x \in lost => x \in lost'
      BY <1>6, <2>2
    <3>3. RowKnows(x) => RowKnows(x)'
      BY <1>6, <1>7, <2>2, <3>1 DEF RowKnows, RanIsKnown
    <3>4. x \in Pending(sent[x].by) => x \in Pending(sent[x].by)'
      BY <1>3, <1>4, <1>8, <2>2, <3>1, RowTypes DEF Pending
    <3> QED BY <3>1, <3>2, <3>3, <3>4 DEF Runs, Traced
  <2> QED BY <2>1, <2>2
<1>13. Recalled'
  <2> SUFFICES ASSUME NEW c \in Beats, NEW x \in Tasks, sent'[x].by # None, x \in DOMAIN sched'[c]
               PROVE  \/ x \in lost' \/ EntryKnows(c, x)'
                      \/ sent'[x].by # c /\ sent'[x].by \in readWhile'[c]
    BY DEF Recalled
  <2>0. DOMAIN sched'[c] = DOMAIN sched[c]
    BY <1>3, <1>4
  <2>1. CASE x = t /\ c = b
    <3>1. sched'[b][t].last >= sent'[t].at
      BY <1>4, <1>5, <1>9 DEF Times
    <3> QED BY <1>4, <2>1, <3>1, Zenon DEF EntryKnows, RanIsKnown
  <2>2. CASE x = t /\ c # b
    BY <1>1, <1>5, <1>7, <2>0, <2>2 DEF Runs, Memory
  <2>3. CASE x # t
    <3>1. sent'[x] = sent[x] /\ sched'[c][x] = sched[c][x] /\ (x \in lost => x \in lost')
      BY <1>3, <1>4, <1>5, <1>6, <2>0, <2>3
    <3>2. EntryKnows(c, x) => EntryKnows(c, x)'
      BY <1>6, <2>3, <3>1 DEF EntryKnows, RanIsKnown
    <3> QED BY <1>7, <2>0, <3>1, <3>2 DEF Runs, Recalled
  <2> QED BY <2>1, <2>2, <2>3
<1>14. Ended'
  <2> SUFFICES ASSUME NEW c \in Beats, NEW x \in OneOff, sent'[x].by = c, x \in DOMAIN sched'[c],
                      ~sched'[c][x].on, x \notin edited'
               PROVE  rows'[x].status # "on"
    BY DEF Ended
  <2>0. x \in Tasks /\ DOMAIN sched'[c] = DOMAIN sched[c]
    BY <1>3, <1>4 DEF BeatAssumption
  <2>1. x # t
    BY <1>4, <1>5
  <2>2. sent'[x] = sent[x] /\ sched'[c][x] = sched[c][x] /\ x \notin edited
    BY <1>3, <1>4, <1>5, <1>6, <2>0, <2>1
  <2> QED BY <1>7, <2>0, <2>2 DEF Runs, Ended
<1>15. RunsSpaced'
  <2>1. CASE ~TooSoon(t)
    BY <2>1 DEF Runs, RunsSpaced, Dispatch
  <2>2. CASE TooSoon(t)
    <3>1. sent[t].by # None /\ (clock - sent[t].at < Every[t] \/ (t \in OneOff /\ t \notin edited))
      BY <2>2 DEF TooSoon
    <3>2. \/ t \in lost \/ EntryKnows(b, t)
          \/ sent[t].by # b /\ sent[t].by \in readWhile[b]
      BY <1>1, <3>1 DEF Runs, Recalled
    <3>3. EntryKnows(b, t) => between[b] /\ heap[b][t].entry # sched[b][t].last
      <4> SUFFICES ASSUME EntryKnows(b, t), ~(between[b] /\ heap[b][t].entry # sched[b][t].last)
                   PROVE  FALSE
        OBVIOUS
      <4>0. heap[b][t].entry = sched[b][t].last
        BY <1>1 DEF Fresh
      <4>1. sched[b][t].last >= sent[t].at /\ clock - sched[b][t].last >= Every[t] /\ sched[b][t].on
        BY <1>1, <4>0 DEF EntryKnows, RanIsKnown, Due
      <4>2. sched[b][t].last \in Int /\ sent[t].at \in Int /\ Every[t] \in Int /\ clock \in Int
        BY <1>1, <1>9, EntryTypes, RowTypes DEF Times, BeatAssumption
      <4>3. t \in OneOff /\ t \notin edited
        BY <3>1, <4>1, <4>2
      <4>4. sched[b][t].ran
        BY <4>1, <4>3, Zenon DEF EntryKnows, RanIsKnown
      <4> QED BY <1>1, <4>1, <4>3, <4>4 DEF Exhausted
    <3> DEFINE y == [task |-> t, by |-> b, prev |-> sent[t].by, lost |-> t \in lost,
                     met |-> sent[t].by \in readWhile[b],
                     stale |-> between[b] /\ heap[b][t].entry # sched[b][t].last]
    <3>4. y.lost = (t \in lost) /\ y.by = b /\ y.prev = sent[t].by
          /\ y.met = (sent[t].by \in readWhile[b])
          /\ y.stale = (between[b] /\ heap[b][t].entry # sched[b][t].last)
      OBVIOUS
    <3>5. y.lost \/ (y.by # y.prev /\ y.met) \/ y.stale
      BY <3>2, <3>3, <3>4, Zenon
    <3>6. again' = again \cup {y}
      BY <2>2 DEF Dispatch
    <3> HIDE DEF y
    <3> QED BY <3>5, <3>6 DEF Runs, RunsSpaced
  <2> QED BY <2>1, <2>2
<1> QED BY <1>10, <1>11, <1>12, <1>13, <1>14, <1>15 DEF Runs

LEMMA SyncRuns ==
    ASSUME BeatAssumption, Types, Runs, NEW b \in Beats, NEW t \in Tasks,
           SyncSave(b, t) \/ SyncReload(b, t) \/ SyncFails(b, t)
    PROVE  Runs'
<1>1. t \in Pending(b) /\ Pending(b) \subseteq DOMAIN sched[b] /\ Syncing(b)
  BY DEF SyncSave, SyncReload, SyncFails, Pending
<1>2. bpc[b] \notin {"down", "stopped"} /\ AfterSync(b) \in Phases \ {"down", "stopped"}
  BY <1>1 DEF Syncing, AfterSync, Phases
<1>3. CASE SyncSave(b, t)
  <2>1. /\ rows' = Saved(b, {t}) /\ lost' = lost \cup Overwritten(b, {t})
        /\ dirty' = [dirty EXCEPT ![b] = @ \ {t}]
        /\ UNCHANGED <<bpc, sched, edit, sent, edited, readWhile, again>>
    BY <1>3 DEF SyncSave
  <2>2. \A x \in Tasks : rows'[x].status = rows[x].status
    BY <1>1, <2>1, SavedTypes
  <2>3. Memory' /\ Recalled' /\ RunsSpaced'
    BY <2>1 DEF Runs, Memory, Recalled, RunsSpaced, EntryKnows, RanIsKnown
  <2>4. RowLocks'
    BY <2>1, <2>2, RowLocksKept DEF Runs
  <2>5. Traced'
    <3> SUFFICES ASSUME NEW x \in Tasks, sent[x].by # None
                 PROVE  x \in lost' \/ RowKnows(x)' \/ x \in Pending(sent[x].by)'
      BY <2>1 DEF Traced
    <3>1. \/ x \in lost' \/ RowKnows(x)'
          \/ x \in Pending(sent[x].by) /\ (sent[x].by # b \/ x \notin {t})
      BY <1>1, <2>1, SavedKnows
    <3>2. (x \in Pending(sent[x].by) /\ (sent[x].by # b \/ x \notin {t})) => x \in Pending(sent[x].by)'
      BY <2>1, RowTypes DEF Pending, Types, MemoryTypes
    <3> QED BY <3>1, <3>2
  <2>6. Ended'
    BY <2>1, <2>2 DEF Runs, Ended, BeatAssumption
  <2> QED BY <2>3, <2>4, <2>5, <2>6 DEF Runs
<1>4. CASE SyncReload(b, t)
  <2> DEFINE others == Pending(b) \ {t}
             r == Saved(b, others)
  <2>1. rows' = Saved(b, others) /\ Read(b, r) /\ lost' = lost \cup {t} \cup Overwritten(b, others)
    BY <1>4 DEF SyncReload, Reload
  <2>2. r \in Rows /\ \A x \in Tasks : r[x].status = rows[x].status
    BY <1>1, SavedTypes
  <2>3. \A x \in Tasks : sent[x].by # None =>
            x \in lost' \/ RowKnows(x)' \/ (x \in Pending(sent[x].by) /\ sent[x].by # b)
    <3> SUFFICES ASSUME NEW x \in Tasks, sent[x].by # None
                 PROVE  x \in lost' \/ RowKnows(x)' \/ (x \in Pending(sent[x].by) /\ sent[x].by # b)
      OBVIOUS
    <3>1. /\ others \in SUBSET Pending(b) /\ lost \cup Overwritten(b, others) \subseteq lost'
          /\ UNCHANGED <<sent, edited>>
      BY <1>4, <2>1 DEF SyncReload
    <3> HIDE DEF others
    <3>2. \/ x \in lost' \/ RowKnows(x)'
          \/ x \in Pending(sent[x].by) /\ (sent[x].by # b \/ x \notin others)
      BY <2>1, <3>1, SavedKnows
    <3>3. (x \in Pending(b) /\ x \notin others) => x \in lost'
      BY <2>1 DEF others
    <3> QED BY <3>2, <3>3
  <2>4. /\ UNCHANGED <<bpc, edit, sent, edited, again>> /\ lost \subseteq lost'
        /\ \A c \in Beats \ {b} : dirty'[c] = dirty[c]
    BY <1>4, <2>1 DEF SyncReload, Types, MemoryTypes
  <2>5. bpc' \in [Beats -> Phases]
    BY <2>4 DEF Types, MemoryTypes
  <2> HIDE DEF r, others
  <2>6. rows' = r
    BY <2>1 DEF r
  <2> QED BY <1>2, <2>1, <2>2, <2>3, <2>4, <2>5, <2>6, ReloadRuns
<1>5. CASE SyncFails(b, t)
  <2>1. /\ lost' = lost \cup {t} /\ dirty' = [dirty EXCEPT ![b] = @ \ {t}]
        /\ bpc' = [bpc EXCEPT ![b] = AfterSync(b)]
        /\ UNCHANGED <<rows, sched, edit, sent, edited, readWhile, again>>
    BY <1>5 DEF SyncFails
  <2>2. Memory'
    BY <1>2, <2>1 DEF Runs, Memory, Types, MemoryTypes
  <2>3. Traced'
    BY <2>1, RowTypes DEF Runs, Traced, RowKnows, RanIsKnown, Pending, Types, MemoryTypes
  <2>4. RowLocks' /\ Recalled' /\ Ended' /\ RunsSpaced'
    BY <2>1 DEF Runs, RowLocks, Recalled, Ended, RunsSpaced, EntryKnows, RanIsKnown
  <2> QED BY <2>2, <2>3, <2>4 DEF Runs
<1> QED BY <1>3, <1>4, <1>5

\* A process that ends leaves nothing to save, or what it leaves is lost.
LEMMA GoneRuns ==
    ASSUME Types, Runs, NEW b \in Beats, Exit(b) \/ Crash(b) PROVE Runs'
<1>1. /\ bpc' = [bpc EXCEPT ![b] = "stopped"] /\ sched' = [sched EXCEPT ![b] = Empty]
      /\ dirty' = [dirty EXCEPT ![b] = {}]
      /\ UNCHANGED <<rows, edit, sent, edited, readWhile, again>>
      /\ lost \cup Pending(b) \subseteq lost'
  BY DEF Exit, Crash, Gone, runVars, editVars
<1>2. /\ DOMAIN sched'[b] = {} /\ \A c \in Beats \ {b} : sched'[c] = sched[c] /\ dirty'[c] = dirty[c]
  BY <1>1, EmptyTypes DEF Types, MemoryTypes
<1>3. Memory'
  BY <1>1, <1>2 DEF Runs, Memory, Types, MemoryTypes
<1>4. RowLocks'
  BY <1>1 DEF Runs, RowLocks
<1>5. Traced'
  <2> SUFFICES ASSUME NEW x \in Tasks, sent[x].by # None
               PROVE  x \in lost' \/ RowKnows(x)' \/ x \in Pending(sent[x].by)'
    BY <1>1 DEF Traced
  <2>1. RowKnows(x) => RowKnows(x)'
    BY <1>1 DEF RowKnows, RanIsKnown
  <2>2. (x \in Pending(sent[x].by) /\ sent[x].by # b) => x \in Pending(sent[x].by)'
    BY <1>1, <1>2, RowTypes DEF Pending
  <2> QED BY <1>1, <2>1, <2>2 DEF Runs, Traced
<1>6. Recalled'
  BY <1>1, <1>2 DEF Runs, Recalled, EntryKnows, RanIsKnown
<1>7. Ended'
  <2> SUFFICES ASSUME NEW c \in Beats, NEW x \in OneOff, sent[x].by = c, x \in DOMAIN sched'[c],
                      ~sched'[c][x].on, x \notin edited
               PROVE  rows'[x].status # "on"
    BY <1>1 DEF Ended
  <2>1. sched'[c] = sched[c]
    BY <1>2
  <2> QED BY <1>1, <2>1 DEF Runs, Ended
<1>8. RunsSpaced'
  BY <1>1 DEF Runs, RunsSpaced
<1> QED BY <1>3, <1>4, <1>5, <1>6, <1>7, <1>8 DEF Runs

LEMMA EditStepRuns ==
    ASSUME BeatAssumption, Types, Runs, NEW e \in Edits, EditNext(e) PROVE Runs'
<1>0. /\ edit \in [Edits -> EditRecords] /\ rows \in Rows
      /\ \A f \in Edits : edit[f].kind # "idle" <=> edit[f].task \in Tasks
  BY DEF Types, EditTypes, SharedTypes
<1>1. CASE Edit(e)
  <2>1. UNCHANGED <<rows, bpc, sched, dirty, sent, lost, edited, readWhile, again>>
    BY <1>1 DEF Edit, beatVars, runVars
  <2>2. PICK t \in Tasks, k \in {"toggle", "delete"} :
            /\ rows[t].status # "deleted" /\ RowFree(t)
            /\ edit' = [edit EXCEPT ![e].kind = k, ![e].task = t]
    BY <1>1 DEF Edit
  <2>3. /\ edit'[e].task = t /\ edit'[e].committed = edit[e].committed
        /\ \A f \in Edits \ {e} : edit'[f] = edit[f]
    BY <1>0, <2>2 DEF EditRecords
  <2>4. RowLocks'
    <3>1. \A f \in Edits \ {e} : edit[f].task = t => edit[f].committed
      BY <2>2 DEF RowFree
    <3>2. \A f, g \in Edits :
            (edit'[f].task \in Tasks /\ edit'[g].task = edit'[f].task
                /\ ~edit'[f].committed /\ ~edit'[g].committed) => f = g
      BY <2>3, <3>1 DEF Runs, RowLocks
    <3>3. \A f \in Edits :
            (edit'[f].task \in Tasks /\ ~edit'[f].committed) => rows[edit'[f].task].status # "deleted"
      BY <2>2, <2>3 DEF Runs, RowLocks
    <3> QED BY <2>1, <3>2, <3>3 DEF RowLocks
  <2>5. Memory' /\ Traced' /\ Recalled' /\ Ended' /\ RunsSpaced'
    BY <2>1 DEF Runs, Memory, Traced, Recalled, Ended, RunsSpaced, RowKnows, EntryKnows,
                RanIsKnown, Pending
  <2> QED BY <2>4, <2>5 DEF Runs
<1>2. CASE Stamp(e) \/ Announce(e)
  <2>1. UNCHANGED <<rows, bpc, sched, dirty, sent, lost, edited, readWhile, again>>
    BY <1>2 DEF Stamp, Announce, beatVars, runVars
  <2>2. \A f \in Edits : edit'[f].task = edit[f].task /\ edit'[f].committed = edit[f].committed
    <3>1. CASE Stamp(e)
      BY <1>0, <3>1 DEF Stamp, EditRecords
    <3>2. CASE Announce(e)
      BY <1>0, <3>2 DEF Announce, EditRecords
    <3> QED BY <1>2, <3>1, <3>2
  <2>3. RowLocks'
    BY <2>1, <2>2 DEF Runs, RowLocks
  <2>4. Memory' /\ Traced' /\ Recalled' /\ Ended' /\ RunsSpaced'
    BY <2>1 DEF Runs, Memory, Traced, Recalled, Ended, RunsSpaced, RowKnows, EntryKnows,
                RanIsKnown, Pending
  <2> QED BY <2>3, <2>4 DEF Runs
<1>3. CASE Commit(e)
  <2> DEFINE u == edit[e].task
             s == IF edit[e].kind = "delete" THEN "deleted"
                  ELSE IF rows[u].status = "on" THEN "off" ELSE "on"
  <2>1. /\ edit[e].kind # "idle" /\ ~edit[e].committed /\ edited' = edited \cup {u}
        /\ rows' = [rows EXCEPT ![u].status = s]
        /\ edit' = [edit EXCEPT ![e].committed = TRUE]
        /\ UNCHANGED <<bpc, sched, dirty, sent, lost, readWhile, again>>
    BY <1>0, <1>3 DEF Commit, beatVars
  <2>2. u \in Tasks /\ rows[u].status # "deleted"
    BY <1>0, <2>1 DEF Runs, RowLocks
  <2> HIDE DEF s
  <2>3. /\ rows'[u].last = rows[u].last
        /\ \A x \in Tasks \ {u} : rows'[x] = rows[x]
    BY <1>0, <2>1, <2>2 DEF Rows
  <2>4. /\ \A f \in Edits : edit'[f].task = edit[f].task
        /\ edit'[e].committed /\ \A f \in Edits \ {e} : edit'[f].committed = edit[f].committed
    <3>1. edit'[e] = [edit[e] EXCEPT !.committed = TRUE] /\ edit[e] \in EditRecords
      BY <1>0, <2>1
    <3>2. edit'[e].task = edit[e].task /\ edit'[e].committed
      BY <3>1, EditMarked
    <3> QED BY <1>0, <2>1, <3>2
  <2>5. RowLocks'
    BY <2>1, <2>2, <2>3, <2>4 DEF Runs, RowLocks
  <2>6. Memory' /\ RunsSpaced'
    BY <2>1 DEF Runs, Memory, RunsSpaced
  <2>7. Traced'
    <3> SUFFICES ASSUME NEW x \in Tasks, RowKnows(x) PROVE RowKnows(x)'
      BY <2>1 DEF Runs, Traced, Pending
    <3>1. CASE x = u
      BY <2>1, <2>2, <2>3, <3>1 DEF RowKnows, RanIsKnown
    <3>2. CASE x # u
      BY <2>1, <2>3, <3>2 DEF RowKnows, RanIsKnown
    <3> QED BY <3>1, <3>2
  <2>8. Recalled'
    BY <2>1 DEF Runs, Recalled, EntryKnows, RanIsKnown
  <2>9. Ended'
    BY <2>1, <2>3 DEF Runs, Ended, BeatAssumption
  <2> QED BY <2>5, <2>6, <2>7, <2>8, <2>9 DEF Runs
<1> QED BY <1>1, <1>2, <1>3 DEF EditNext

LEMMA BeatStepRuns ==
    ASSUME BeatAssumption, Types, Fresh, Runs, NEW b \in Beats, BeatNext(b) PROVE Runs'
<1>1. CASE Acquire(b) \/ Extend(b) \/ ExtendFails(b) \/ NotDue(b) \/ Wake(b) \/ SyncDone(b)
           \/ FirstTick(b) \/ Check(b) \/ CheckChanged(b)
  BY <1>1, QuietRuns
     DEF Acquire, Extend, ExtendFails, NotDue, Wake, SyncDone, AfterSync, FirstTick, Check,
         CheckChanged, Looks, NextLook, runVars, editVars, Phases
<1>2. CASE Close(b)
  BY <1>2, QuietRuns DEF Close, Alive, runVars, editVars, Phases
<1>3. CASE Build(b)
  <2> DEFINE ended == {t \in DOMAIN sched[b] : Exhausted(b, t)}
  <2>1. /\ Disable(b, ended) /\ bpc' = [bpc EXCEPT ![b] = "due"] /\ bpc[b] # "stopped"
        /\ UNCHANGED <<edit, dirty, sent, edited, readWhile, again>>
    BY <1>3 DEF Build, editVars
  <2>2. ended \in SUBSET DOMAIN sched[b] /\ \A t \in ended : Exhausted(b, t)
    OBVIOUS
  <2>3. "due" \in Phases \ {"down", "stopped"}
    BY DEF Phases
  <2> HIDE DEF ended
  <2> QED BY <2>1, <2>2, <2>3, DisableRuns
<1>4. ASSUME NEW t \in Tasks, EndOneOff(b, t) PROVE Runs'
  <2>1. /\ Disable(b, {t}) /\ bpc' = [bpc EXCEPT ![b] = "rest"] /\ bpc[b] # "stopped"
        /\ UNCHANGED <<edit, dirty, sent, edited, readWhile, again>>
        /\ Exhausted(b, t) /\ t \in DOMAIN sched[b]
    BY <1>4, TopListed DEF EndOneOff, editVars
  <2>2. {t} \in SUBSET DOMAIN sched[b] /\ \A x \in {t} : Exhausted(b, x)
    BY <2>1
  <2>3. "rest" \in Phases \ {"down", "stopped"}
    BY DEF Phases
  <2> QED BY <2>1, <2>2, <2>3, DisableRuns
<1> QED
  BY <1>1, <1>2, <1>3, <1>4, ReadRuns, DispatchRuns, SyncRuns, GoneRuns DEF BeatNext

LEMMA InitRuns == ASSUME BeatAssumption, Init PROVE Runs
<1>1. Empty = [t \in {} |-> None] /\ DOMAIN Empty = {}
  BY EmptyTypes DEF Empty
<1>2. Memory
  BY <1>1 DEF Init, Memory
<1>3. RowLocks
  <2>1. edit \in [Edits -> {Idle, Absent}] /\ None \notin Tasks
    BY DEF Init, BeatAssumption
  <2>2. \A e \in Edits : edit[e].task = None
    BY <2>1 DEF Idle, Absent
  <2> QED BY <2>1, <2>2 DEF RowLocks
<1>4. \A t \in Tasks : sent[t].by = None
  BY DEF Init
<1>5. Traced /\ Recalled
  BY <1>4 DEF Traced, Recalled
<1>6. Ended /\ RunsSpaced
  BY <1>1 DEF Init, Ended, RunsSpaced
<1> QED BY <1>2, <1>3, <1>5, <1>6 DEF Runs

\* The last run of a task is remembered as above in every reachable state.
THEOREM BeatRuns == Spec => []Runs
<1>1. Init => Runs
  BY InitRuns, BeatAssumption
<1>2. Types /\ Fresh /\ Runs /\ [Next]_vars => Runs'
  <2> SUFFICES ASSUME Types, Fresh, Runs, [Next]_vars PROVE Runs'
    OBVIOUS
  <2>1. CASE UNCHANGED vars \/ ClockForward
    <3>1. UNCHANGED <<rows, bpc, sched, dirty, sent, lost, edited, readWhile, again, edit>>
      BY <2>1 DEF vars, ClockForward, beatVars, runVars, editVars
    <3> QED BY <3>1 DEF Runs, Memory, RowLocks, Traced, Recalled, Ended, RunsSpaced, RowKnows,
                        EntryKnows, RanIsKnown, Pending
  <2> QED BY <2>1, BeatAssumption, BeatStepRuns, EditStepRuns DEF Next
<1> QED BY <1>1, <1>2, BeatTypes, BeatFresh, PTL DEF Spec

\* A task is dispatched too soon only if the run before was forgotten or
\* overwritten, or made by another beat that had not ended when the rows were
\* read, or if the heap was built again from entries that do not know the run.
THEOREM BeatRunsSpaced == Spec => []RunsSpaced
<1>1. Runs => RunsSpaced
  BY DEF Runs
<1> QED BY <1>1, BeatRuns, PTL
=============================================================================
