--------------------------- MODULE BeatScheduler ---------------------------
(***************************************************************************)
(* The beat scheduler (app/task/utils/schedulers.py): beat processes that  *)
(* take turns by a lock in Redis, keep the rows of task_scheduler in       *)
(* memory, dispatch what is due and save the run state now and then, while *)
(* administrators edit the rows and announce it in the key last_update.    *)
(*                                                                         *)
(* The loop around tick(), the heap and the moments of sync() are Celery's *)
(* (Service.start, Scheduler.tick); a member of Beats is one life of a     *)
(* beat process.  Time is counted in instants, PerSecond of them in each   *)
(* of the whole seconds in which last_update is written.  A task is an     *)
(* interval task that is not in tasks/beat.py.                             *)
(***************************************************************************)
EXTENDS Integers, FiniteSets

CONSTANTS
    Beats,
    Edits,        \* requests that change a row
    Tasks,
    OneOff,       \* the tasks with one_off set
    Every,        \* Every[t]: the interval of t, in instants
    PerSecond,
    LockTimeout,  \* _DEFAULT_MAX_LOCK_TIMEOUT, in instants
    Casts,        \* bound: sets of beats, edits and tasks that appear in a run
    MaxClock,     \* bound: the clock of a run
    MaxFails,     \* bound: how many saves fail
    None

ASSUME BeatAssumption ==
    /\ OneOff \subseteq Tasks
    /\ Every \in [Tasks -> Nat \ {0}]
    /\ PerSecond \in Nat \ {0}
    /\ LockTimeout \in Nat \ {0}
    /\ Casts \subseteq SUBSET (Beats \cup Edits \cup Tasks)
    /\ MaxClock \in Nat
    /\ MaxFails \in Nat
    /\ None \notin Beats \cup Tasks

VARIABLES
    clock,
    rows,        \* rows[t]: [status, ran, last]; ran is total_run_count > 0
    lastUpdate,  \* the key last_update, NoTime if absent
    holder,      \* whose token the lock key holds
    ttl,         \* instants the lock key has to live
    edit,        \* edit[e]: the request e
    bpc,         \* bpc[b]: where the process b is
    sched,       \* sched[b]: _schedule, by task: [on, ran, last, entry], the first
                 \* three of the model, entry the last_run_at of its entry
    heap,        \* heap[b]: Celery's heap, by task: [time, entry]
    built,       \* built[b]: _heap is not None
    invalid,     \* invalid[b]: _heap_invalidated
    after,       \* after[b]: where the tick goes on after a reload
    dirty,       \* dirty[b]: _dirty
    checked,     \* checked[b]: _last_update, NoTime if None
    fails,       \* history: how many saves failed
    lapsed,      \* history: beats whose lock key expired
    late,        \* history: late[b], dispatches of b while the key was not b's
    sent,        \* history: sent[t], the last dispatch: [by, at]
    lost,        \* history: tasks whose last run neither the rows nor its beat
                 \* know any more
    edited,      \* history: tasks edited since their last dispatch
    readWhile,   \* history: readWhile[b], the beats not ended when b read the rows
    between,     \* history: between[b], b last read the rows for a change it found
                 \* when it was about to build its heap
    again,       \* history: the dispatches that came too soon
    unseen,      \* history: <<b, e>>, e announced since b looked
    missed       \* history: <<b, e>>, announced in a way b cannot notice

beatVars == <<bpc, sched, heap, built, invalid, after, dirty, checked>>
runVars == <<late, sent, lost, edited, readWhile, between, again>>
editVars == <<edit, unseen, missed>>
vars == <<clock, rows, lastUpdate, holder, ttl, fails, lapsed, beatVars, runVars, editVars>>

NoTime == -1
Never == MaxClock + 1
Times == 0..MaxClock

\* to_str drops the fraction of the second.
Trunc(c) == (c \div PerSecond) * PerSecond

EditRecords == [kind: {"idle", "toggle", "delete"}, task: Tasks \cup {None},
                stamp: Times \cup {NoTime}, announced: BOOLEAN, committed: BOOLEAN]

TypeOK ==
    /\ clock \in Times
    /\ rows \in [Tasks -> [status: {"on", "off", "deleted"}, ran: BOOLEAN, last: Times]]
    /\ lastUpdate \in Times \cup {NoTime}
    /\ holder \in Beats \cup {None}
    /\ ttl \in 0..LockTimeout
    /\ (holder = None) <=> (ttl = 0)
    /\ edit \in [Edits -> EditRecords]
    /\ bpc \in [Beats -> {"down", "waiting", "tick", "check", "copy", "populate", "build",
                          "reload", "load", "due", "rest", "sync", "closing", "stopped"}]
    /\ \A b \in Beats :
        /\ DOMAIN sched[b] \subseteq Tasks
        /\ \A t \in DOMAIN sched[b] : sched[b][t] \in
                [on: BOOLEAN, ran: BOOLEAN, last: Times, entry: Times]
        /\ DOMAIN heap[b] \subseteq DOMAIN sched[b]
        /\ \A t \in DOMAIN heap[b] : heap[b][t] \in [time: Nat, entry: Times]
        /\ built[b] \in BOOLEAN /\ invalid[b] \in BOOLEAN
        /\ after[b] \in {"copy", "populate", "build"}
        /\ dirty[b] \subseteq Tasks
        /\ checked[b] \in Times \cup {NoTime}
        /\ late[b] \in Nat
    /\ fails \in 0..MaxFails
    /\ lapsed \subseteq Beats
    /\ sent \in [Tasks -> [by: Beats \cup {None}, at: Times]]
    /\ lost \subseteq Tasks /\ edited \subseteq Tasks
    /\ readWhile \in [Beats -> SUBSET Beats]
    /\ between \in [Beats -> BOOLEAN]
    /\ again \subseteq [task: Tasks, by: Beats, prev: Beats, lost: BOOLEAN, met: BOOLEAN,
                      stale: BOOLEAN]
    /\ unseen \subseteq Beats \X Edits /\ missed \subseteq Beats \X Edits

Idle == [kind |-> "idle", task |-> None, stamp |-> NoTime, announced |-> FALSE, committed |-> FALSE]
Absent == [Idle EXCEPT !.committed = TRUE]

Empty == [t \in {} |-> None]

Init ==
    /\ clock = 0
    /\ lastUpdate = NoTime
    /\ holder = None /\ ttl = 0
    /\ \E cast \in Casts :
        /\ rows = [t \in Tasks |-> [status |-> IF t \in cast THEN "on" ELSE "deleted",
                                    ran |-> FALSE, last |-> 0]]
        /\ bpc = [b \in Beats |-> IF b \in cast THEN "down" ELSE "stopped"]
        /\ edit = [e \in Edits |-> IF e \in cast THEN Idle ELSE Absent]
    /\ sched = [b \in Beats |-> Empty]
    /\ heap = [b \in Beats |-> Empty]
    /\ built = [b \in Beats |-> FALSE]
    /\ invalid = [b \in Beats |-> FALSE]
    /\ after = [b \in Beats |-> "copy"]
    /\ dirty = [b \in Beats |-> {}]
    /\ checked = [b \in Beats |-> NoTime]
    /\ fails = 0
    /\ lapsed = {}
    /\ late = [b \in Beats |-> 0]
    /\ sent = [t \in Tasks |-> [by |-> None, at |-> 0]]
    /\ lost = {} /\ edited = {}
    /\ readWhile = [b \in Beats |-> {}]
    /\ between = [b \in Beats |-> FALSE]
    /\ again = {}
    /\ unseen = {} /\ missed = {}

Alive(b) == bpc[b] \notin {"down", "stopped"}

\* The row is not locked by a transaction that has flushed its change.
RowFree(t) ==
    \A e \in Edits : edit[e].task = t => edit[e].committed

-----------------------------------------------------------------------------
(* What a beat sees and saves.                                             *)

\* get_all_task_schedulers: the enabled rows.
Loaded(r) ==
    [t \in {x \in Tasks : r[x].status = "on"} |->
        [on |-> TRUE, ran |-> r[t].ran, last |-> r[t].last, entry |-> r[t].last]]

\* Mutant: last_update is compared by whole seconds.
ChangedBySecond(b) ==
    checked[b] # NoTime /\ lastUpdate >= checked[b] + PerSecond

\* schedule_changed: something was announced after the last look.
Changed(b) == checked[b] # NoTime /\ lastUpdate > checked[b]

\* The rest of schedule_changed, whatever the answer: the look is remembered;
\* a missing key is written instead.
Look(b) ==
    /\ checked' = [checked EXCEPT ![b] = IF lastUpdate = NoTime THEN @ ELSE clock]
    /\ lastUpdate' = IF lastUpdate = NoTime THEN Trunc(clock) ELSE lastUpdate
    /\ unseen' = {x \in unseen : x[1] # b}

\* ModelEntry.save: the run state of the tasks in S goes to the rows that exist.
Saved(b, S) ==
    [t \in Tasks |->
        IF t \in S /\ rows[t].status # "deleted"
        THEN [rows[t] EXCEPT !.ran = sched[b][t].ran, !.last = sched[b][t].last]
        ELSE rows[t]]

\* Tasks of S whose row knew a run that b does not: a later one, or any if b knows none.
Overwritten(b, S) ==
    {t \in S : rows[t].last > sched[b][t].last \/ (rows[t].ran /\ ~sched[b][t].ran)}

\* The entries b will have to save: a name without an entry stays in _dirty.
Pending(b) == dirty[b] \cap DOMAIN sched[b]

\* The rows r become _schedule.
Read(b, r) ==
    /\ sched' = [sched EXCEPT ![b] = Loaded(r)]
    /\ readWhile' = [readWhile EXCEPT ![b] = {c \in Beats \ {b} : bpc[c] # "stopped"}]

\* Mutant: the heap of the old schedule is kept.
ReloadHeapKept(b, r) ==
    /\ Read(b, r)
    /\ UNCHANGED <<heap, built>>

\* schedule: but for the first time, the heap is emptied.
Reload(b, r) ==
    /\ Read(b, r)
    /\ heap' = [heap EXCEPT ![b] = Empty]
    /\ built' = [built EXCEPT ![b] = TRUE]

-----------------------------------------------------------------------------
(* The life of a beat process.                                             *)

\* setup_schedule, before the lock is asked for: the rows are read for the
\* first time, and update_from_dict looks at last_update.
Setup(b) ==
    /\ bpc[b] = "down"
    /\ Read(b, rows)
    /\ Look(b)
    /\ bpc' = [bpc EXCEPT ![b] = "waiting"]
    /\ UNCHANGED <<clock, rows, holder, ttl, fails, lapsed, heap, built, invalid, after, dirty,
                   late, sent, lost, edited, between, again, edit, missed>>

\* Mutant: the lock is taken without looking.
LockFreeAlways(b) == TRUE

LockFree(b) == holder = None

\* acquire_distributed_beat_lock.
Acquire(b) ==
    /\ bpc[b] = "waiting"
    /\ LockFree(b)
    /\ holder' = b
    /\ ttl' = LockTimeout
    /\ bpc' = [bpc EXCEPT ![b] = "tick"]
    /\ UNCHANGED <<clock, rows, lastUpdate, fails, lapsed, sched, heap, built, invalid, after,
                   dirty, checked, runVars, editVars>>

\* Mutant: extend() does not compare the token.
OwnsAlways(b) == TRUE

Owns(b) == holder = b

\* tick: extend_lock.
Extend(b) ==
    /\ bpc[b] = "tick"
    /\ Owns(b)
    /\ holder' = b
    /\ ttl' = LockTimeout
    /\ bpc' = [bpc EXCEPT ![b] = "check"]
    /\ UNCHANGED <<clock, rows, lastUpdate, fails, lapsed, sched, heap, built, invalid, after,
                   dirty, checked, runVars, editVars>>

\* The key is gone or another's: LockNotOwnedError ends the loop, and close
\* finds nothing to release.
ExtendFails(b) ==
    /\ bpc[b] = "tick"
    /\ ~Owns(b)
    /\ bpc' = [bpc EXCEPT ![b] = "closing"]
    /\ UNCHANGED <<clock, rows, lastUpdate, holder, ttl, fails, lapsed, sched, heap, built,
                   invalid, after, dirty, checked, runVars, editVars>>

-----------------------------------------------------------------------------
(* tick looks at the property schedule three times: to compare it, to copy *)
(* it, and in populate_heap.  Without a change and with a heap that is not *)
(* invalidated, the first look is the only one.                            *)

Looks == {"check", "copy", "populate"}

NextLook(phase) ==
    CASE phase = "check" -> "copy"
      [] phase = "copy" -> "populate"
      [] phase = "populate" -> "build"

\* _heap is None: the schedule is not compared, so not looked at.
FirstTick(b) ==
    /\ bpc[b] = "check"
    /\ ~built[b]
    /\ bpc' = [bpc EXCEPT ![b] = "copy"]
    /\ UNCHANGED <<clock, rows, lastUpdate, holder, ttl, fails, lapsed, sched, heap, built,
                   invalid, after, dirty, checked, runVars, editVars>>

\* A look that changes nothing.  schedules_equal forgets the invalidation.
Check(b) ==
    /\ bpc[b] \in Looks
    /\ bpc[b] = "check" => built[b]
    /\ ~Changed(b)
    /\ Look(b)
    /\ bpc' = [bpc EXCEPT ![b] =
            IF @ = "check" /\ ~invalid[b] THEN "due" ELSE NextLook(@)]
    /\ invalid' = [invalid EXCEPT ![b] = @ /\ bpc[b] # "check"]
    /\ UNCHANGED <<clock, rows, holder, ttl, fails, lapsed, sched, heap, built, after, dirty,
                   runVars, edit, missed>>

\* A look that finds a change: the schedule is saved and read again.
CheckChanged(b) ==
    /\ bpc[b] \in Looks
    /\ bpc[b] = "check" => built[b]
    /\ Changed(b)
    /\ Look(b)
    /\ bpc' = [bpc EXCEPT ![b] = "reload"]
    /\ after' = [after EXCEPT ![b] = NextLook(bpc[b])]
    /\ UNCHANGED <<clock, rows, holder, ttl, fails, lapsed, sched, heap, built, invalid, dirty,
                   runVars, edit, missed>>

\* get_all_task_schedulers after the sync; what could not be saved is lost.  The
\* comparison that found the change forgets the invalidation at once; one of a
\* later look lasts until the next tick, which builds the heap again.
Load(b) ==
    /\ bpc[b] = "load"
    /\ Reload(b, rows)
    /\ lost' = lost \cup Pending(b)
    /\ invalid' = [invalid EXCEPT ![b] = after[b] # "copy"]
    /\ between' = [between EXCEPT ![b] = after[b] # "copy"]
    /\ bpc' = [bpc EXCEPT ![b] = after[b]]
    /\ after' = [after EXCEPT ![b] = "copy"]
    /\ UNCHANGED <<clock, rows, lastUpdate, holder, ttl, fails, lapsed, dirty, checked,
                   late, sent, edited, again, editVars>>

\* A one-off task that has run.
Exhausted(b, t) == t \in OneOff /\ sched[b][t].on /\ sched[b][t].ran

\* is_due of an entry that knows a run at last, of the task t.
Due(b, t, last) == sched[b][t].on /\ clock - last >= Every[t]

\* A disabled entry asks to be looked at in five seconds.
Pause == 5 * PerSecond

\* is_due of the exhausted entries S: each is disabled in memory and, if its row
\* exists, in the rows, which announces the change.
Disable(b, S) ==
    LET row == {t \in S : rows[t].status # "deleted"} IN
    /\ \A t \in S : RowFree(t)
    /\ sched' = [sched EXCEPT ![b] =
            [t \in DOMAIN @ |-> IF t \in S THEN [@[t] EXCEPT !.on = FALSE, !.ran = FALSE] ELSE @[t]]]
    /\ rows' = [t \in Tasks |->
            IF t \in row THEN [status |-> "off", ran |-> FALSE, last |-> sched[b][t].last]
                         ELSE rows[t]]
    /\ lost' = lost \cup Overwritten(b, row)

\* populate_heap: an entry of _schedule knows the run that was last when it was
\* read; reserve leaves it there and puts its successor into the heap.
Build(b) ==
    /\ bpc[b] = "build"
    /\ LET ended == {t \in DOMAIN sched[b] : Exhausted(b, t)}
           When(t) == CASE t \in ended -> Never
                        [] ~sched[b][t].on -> clock + Pause
                        [] Due(b, t, sched[b][t].entry) -> clock
                        [] OTHER -> sched[b][t].entry + Every[t] IN
        /\ Disable(b, ended)
        /\ heap' = [heap EXCEPT ![b] = [t \in DOMAIN sched[b] |->
                [time |-> When(t), entry |-> sched[b][t].entry]]]
        /\ lastUpdate' = IF \E t \in ended : rows[t].status # "deleted"
                         THEN Trunc(clock) ELSE lastUpdate
    /\ built' = [built EXCEPT ![b] = TRUE]
    /\ bpc' = [bpc EXCEPT ![b] = "due"]
    /\ UNCHANGED <<clock, holder, ttl, fails, lapsed, invalid, after, dirty, checked, late,
                   sent, edited, readWhile, between, again, editVars>>

-----------------------------------------------------------------------------
(* One tick serves the first entry of the heap, and no other.              *)

Top(b, t) ==
    /\ t \in DOMAIN heap[b]
    /\ \A x \in DOMAIN heap[b] : heap[b][t].time <= heap[b][x].time

\* Mutant: reserve does not remember the name.
ReservedNot(b, t) == dirty[b]

\* reserve: the name is dirty.
Reserved(b, t) == dirty[b] \cup {t}

\* A dispatch before its time: within the interval, or of a one-off task that
\* nobody has edited since.
TooSoon(t) ==
    /\ sent[t].by # None
    /\ clock - sent[t].at < Every[t] \/ (t \in OneOff /\ t \notin edited)

\* The entry is due: it is reserved and sent, and its successor is pushed.  The
\* model they share notes the run, the entry in _schedule does not.
Dispatch(b, t) ==
    /\ bpc[b] = "due"
    /\ Top(b, t)
    /\ ~Exhausted(b, t)
    /\ Due(b, t, heap[b][t].entry)
    /\ sched' = [sched EXCEPT ![b][t] = [@ EXCEPT !.last = clock, !.ran = TRUE]]
    /\ dirty' = [dirty EXCEPT ![b] = Reserved(b, t)]
    /\ heap' = [heap EXCEPT ![b][t] = [time |-> clock + Every[t], entry |-> clock]]
    /\ sent' = [sent EXCEPT ![t] = [by |-> b, at |-> clock]]
    /\ again' = IF TooSoon(t)
                THEN again \cup {[task |-> t, by |-> b, prev |-> sent[t].by, lost |-> t \in lost,
                                  met |-> sent[t].by \in readWhile[b],
                                  stale |-> between[b] /\ heap[b][t].entry # sched[b][t].last]}
                ELSE again
    /\ lost' = lost \ {t}
    /\ edited' = edited \ {t}
    /\ late' = [late EXCEPT ![b] = IF holder = b THEN @ ELSE @ + 1]
    /\ bpc' = [bpc EXCEPT ![b] = "rest"]
    /\ UNCHANGED <<clock, rows, lastUpdate, holder, ttl, fails, lapsed, built, invalid, after,
                   checked, readWhile, between, editVars>>

\* A one-off task that has run is disabled; its entry stays where it is.
EndOneOff(b, t) ==
    /\ bpc[b] = "due"
    /\ Top(b, t)
    /\ Exhausted(b, t)
    /\ Disable(b, {t})
    /\ lastUpdate' = IF rows[t].status # "deleted" THEN Trunc(clock) ELSE lastUpdate
    /\ bpc' = [bpc EXCEPT ![b] = "rest"]
    /\ UNCHANGED <<clock, holder, ttl, fails, lapsed, heap, built, invalid, after, dirty, checked,
                   late, sent, edited, readWhile, between, again, editVars>>

\* Nothing to do now, or nothing at all.
NotDue(b) ==
    /\ bpc[b] = "due"
    /\ DOMAIN heap[b] # {} =>
        \E t \in DOMAIN heap[b] :
            Top(b, t) /\ ~Exhausted(b, t) /\ ~Due(b, t, heap[b][t].entry)
    /\ bpc' = [bpc EXCEPT ![b] = "rest"]
    /\ UNCHANGED <<clock, rows, lastUpdate, holder, ttl, fails, lapsed, sched, heap, built,
                   invalid, after, dirty, checked, runVars, editVars>>

\* The next tick; should_sync may ask for a sync before it.
Wake(b) ==
    /\ bpc[b] = "rest"
    /\ \E next \in {"tick", "sync"} :
        /\ next = "sync" => Pending(b) # {}
        /\ bpc' = [bpc EXCEPT ![b] = next]
    /\ UNCHANGED <<clock, rows, lastUpdate, holder, ttl, fails, lapsed, sched, heap, built,
                   invalid, after, dirty, checked, runVars, editVars>>

-----------------------------------------------------------------------------
(* sync: before a reload, now and then, and at the end.                    *)

Syncing(b) == bpc[b] \in {"reload", "sync", "closing"}

AfterSync(b) ==
    CASE bpc[b] = "reload" -> "load"
      [] bpc[b] = "sync" -> "tick"
      [] bpc[b] = "closing" -> "closing"

\* A name is popped, a look at schedule changes nothing, the entry is saved.
SyncSave(b, t) ==
    /\ Syncing(b)
    /\ t \in Pending(b)
    /\ ~Changed(b)
    /\ Look(b)
    /\ rows' = Saved(b, {t})
    /\ lost' = lost \cup Overwritten(b, {t})
    /\ dirty' = [dirty EXCEPT ![b] = @ \ {t}]
    /\ UNCHANGED <<clock, holder, ttl, fails, lapsed, bpc, sched, heap, built, invalid, after, late,
                   sent, edited, readWhile, between, again, edit, missed>>

\* The look finds a change: a nested sync saves the other names and the
\* schedule is replaced, so what is saved of t is what was read of it.
SyncReload(b, t) ==
    /\ Syncing(b)
    /\ t \in Pending(b)
    /\ Changed(b)
    /\ Look(b)
    /\ LET others == Pending(b) \ {t} IN
        /\ rows' = Saved(b, others)
        /\ Reload(b, Saved(b, others))
        /\ lost' = lost \cup {t} \cup Overwritten(b, others)
        /\ dirty' = [dirty EXCEPT ![b] =
                (@ \ Pending(b)) \cup ({t} \ DOMAIN Loaded(Saved(b, others)))]
    /\ invalid' = [invalid EXCEPT ![b] = TRUE]
    /\ between' = [between EXCEPT ![b] = FALSE]
    /\ UNCHANGED <<clock, holder, ttl, fails, lapsed, bpc, after, late, sent, edited, again,
                   edit, missed>>

\* The database refuses the save: the sync ends, and the popped name is in
\* neither _dirty nor failed.  The last sync is repeated by the finalizer.
SyncFails(b, t) ==
    /\ Syncing(b)
    /\ t \in Pending(b)
    /\ fails < MaxFails
    /\ ~Changed(b)
    /\ Look(b)
    /\ fails' = fails + 1
    /\ lost' = lost \cup {t}
    /\ dirty' = [dirty EXCEPT ![b] = @ \ {t}]
    /\ bpc' = [bpc EXCEPT ![b] = AfterSync(b)]
    /\ UNCHANGED <<clock, rows, holder, ttl, lapsed, sched, heap, built, invalid, after, late,
                   sent, edited, readWhile, between, again, edit, missed>>

SyncDone(b) ==
    /\ bpc[b] \in {"reload", "sync"}
    /\ Pending(b) = {}
    /\ bpc' = [bpc EXCEPT ![b] = AfterSync(b)]
    /\ UNCHANGED <<clock, rows, lastUpdate, holder, ttl, fails, lapsed, sched, heap, built,
                   invalid, after, dirty, checked, runVars, editVars>>

-----------------------------------------------------------------------------
(* The end of a beat.                                                      *)

\* The process has ended, and its memory with it.
Gone(b) ==
    /\ bpc' = [bpc EXCEPT ![b] = "stopped"]
    /\ sched' = [sched EXCEPT ![b] = Empty]
    /\ heap' = [heap EXCEPT ![b] = Empty]
    /\ built' = [built EXCEPT ![b] = FALSE]
    /\ invalid' = [invalid EXCEPT ![b] = FALSE]
    /\ after' = [after EXCEPT ![b] = "copy"]
    /\ dirty' = [dirty EXCEPT ![b] = {}]
    /\ checked' = [checked EXCEPT ![b] = NoTime]

\* SIGTERM: close releases the lock it owns; only then is the state saved.
Close(b) ==
    /\ Alive(b) /\ bpc[b] \notin {"waiting", "closing"}
    /\ holder' = IF holder = b THEN None ELSE holder
    /\ ttl' = IF holder = b THEN 0 ELSE ttl
    /\ bpc' = [bpc EXCEPT ![b] = "closing"]
    /\ UNCHANGED <<clock, rows, lastUpdate, fails, lapsed, sched, heap, built, invalid, after,
                   dirty, checked, runVars, editVars>>

\* The last sync has saved what it could.
Exit(b) ==
    /\ bpc[b] = "closing"
    /\ Pending(b) = {}
    /\ Gone(b)
    /\ UNCHANGED <<clock, rows, lastUpdate, holder, ttl, fails, lapsed, runVars, editVars>>

\* The process dies; its key stays until it expires.
Crash(b) ==
    /\ Alive(b)
    /\ lost' = lost \cup Pending(b)
    /\ Gone(b)
    /\ UNCHANGED <<clock, rows, lastUpdate, holder, ttl, fails, lapsed, late, sent, edited,
                   readWhile, between, again, editVars>>

ClockForward ==
    /\ clock < MaxClock
    /\ clock' = clock + 1
    /\ ttl' = IF ttl > 0 THEN ttl - 1 ELSE 0
    /\ holder' = IF ttl <= 1 THEN None ELSE holder
    /\ lapsed' = IF ttl = 1 THEN lapsed \cup {holder} ELSE lapsed
    /\ UNCHANGED <<rows, lastUpdate, fails, beatVars, runVars, editVars>>

-----------------------------------------------------------------------------
(* Administrators: update, update_status and delete of a row.              *)

\* The row is read and the change flushed.  The listener announces a change of
\* a row in a task of its own; a logical deletion is no ORM event.
Edit(e) ==
    /\ edit[e].kind = "idle" /\ ~edit[e].committed
    /\ \E t \in Tasks, k \in {"toggle", "delete"} :
        /\ rows[t].status # "deleted"
        /\ RowFree(t)
        /\ edit' = [edit EXCEPT ![e].kind = k, ![e].task = t]
    /\ UNCHANGED <<clock, rows, lastUpdate, holder, ttl, fails, lapsed, beatVars, runVars,
                   unseen, missed>>

\* update_changed_async takes the time ...
Stamp(e) ==
    /\ edit[e].kind = "toggle" /\ edit[e].stamp = NoTime
    /\ edit' = [edit EXCEPT ![e].stamp = Trunc(clock)]
    /\ UNCHANGED <<clock, rows, lastUpdate, holder, ttl, fails, lapsed, beatVars, runVars,
                   unseen, missed>>

\* ... and writes it.  A beat that looked in that second or later, or that reads
\* the row before the commit, misses the change.
Announce(e) ==
    /\ edit[e].stamp # NoTime /\ ~edit[e].announced
    /\ lastUpdate' = edit[e].stamp
    /\ edit' = [edit EXCEPT ![e].announced = TRUE]
    /\ unseen' = unseen \cup (Beats \X {e})
    /\ missed' = missed \cup {x \in unseen \cup (Beats \X {e}) :
            checked[x[1]] = NoTime \/ checked[x[1]] >= edit[e].stamp \/ ~edit[e].committed}
    /\ UNCHANGED <<clock, rows, holder, ttl, fails, lapsed, beatVars, runVars>>

Commit(e) ==
    /\ edit[e].kind # "idle" /\ ~edit[e].committed
    /\ rows' = [rows EXCEPT ![edit[e].task].status =
            IF edit[e].kind = "delete" THEN "deleted" ELSE IF @ = "on" THEN "off" ELSE "on"]
    /\ edit' = [edit EXCEPT ![e].committed = TRUE]
    /\ edited' = edited \cup {edit[e].task}
    /\ UNCHANGED <<clock, lastUpdate, holder, ttl, fails, lapsed, beatVars, late, sent, lost,
                   readWhile, between, again, unseen, missed>>

BeatNext(b) ==
    \/ Setup(b) \/ Acquire(b) \/ Extend(b) \/ ExtendFails(b) \/ FirstTick(b) \/ Check(b)
    \/ CheckChanged(b) \/ Load(b) \/ Build(b) \/ NotDue(b) \/ Wake(b)
    \/ SyncDone(b) \/ Close(b) \/ Exit(b) \/ Crash(b)
    \/ \E t \in Tasks :
        Dispatch(b, t) \/ EndOneOff(b, t) \/ SyncSave(b, t) \/ SyncReload(b, t) \/ SyncFails(b, t)

EditNext(e) == Edit(e) \/ Stamp(e) \/ Announce(e) \/ Commit(e)

Next ==
    \/ \E b \in Beats : BeatNext(b)
    \/ \E e \in Edits : EditNext(e)
    \/ ClockForward

Spec == Init /\ [][Next]_vars

-----------------------------------------------------------------------------
(* Properties.                                                             *)

InTick(b) ==
    bpc[b] \in {"check", "copy", "populate", "build", "reload", "load", "due"}

\* Two beats are inside a tick at once only if the lock of one of them expired
\* while it was held.
LockExclusive ==
    \A b, c \in Beats : (b # c /\ InTick(b) /\ InTick(c)) => b \in lapsed \/ c \in lapsed

\* A beat that has lost the lock, however long it was stalled, dispatches at
\* most one more task: tick extends the lock and serves one entry.
LateDispatch == \A b \in Beats : late[b] <= 1

\* A task is dispatched before its interval is over, or a one-off task again,
\* only if the run before was forgotten by its beat (the save failed, the
\* schedule was replaced under it, the beat died) or overwritten, or was made by
\* another beat that had not ended when this one read the rows, or if the beat,
\* having found a change between the comparison and the building of its heap, built
\* the heap a second time from entries that do not know the run.
RunsSpaced == \A x \in again : x.lost \/ (x.by # x.prev /\ x.met) \/ x.stale

Listed(b, t) == t \in DOMAIN sched[b] /\ sched[b][t].on

\* A beat about to serve its heap knows which interval tasks are enabled, but
\* for edits that are not committed or not announced (deletions never are), edits
\* announced since it looked, and edits announced before they were committed or
\* with a time not after its last look.
ChangesNoticed ==
    \A b \in Beats, t \in Tasks \ OneOff :
        (bpc[b] = "due" /\ Listed(b, t) # (rows[t].status = "on")) =>
            \E e \in Edits :
                /\ edit[e].task = t
                /\ \/ ~(edit[e].committed /\ edit[e].announced)
                   \/ <<b, e>> \in unseen \cup missed

\* The comment in is_due: a disabled one-off task is not checked again for a long
\* time.  Here: its entry does not stand before one that is due.
OneOffLeaves ==
    \A b \in Beats : bpc[b] = "due" =>
        \A t \in DOMAIN heap[b] \cap OneOff, x \in DOMAIN heap[b] :
            (~sched[b][t].on /\ Due(b, x, heap[b][x].entry)) =>
                heap[b][t].time >= heap[b][x].time
=============================================================================
