--------------------------- MODULE OperaLogQueue ---------------------------
(***************************************************************************)
(* The operation log of one process: requests put their log into a bounded *)
(* asyncio.Queue (middleware/opera_log_middleware.py), one consumer task   *)
(* takes them out in batches and stores them (common/queue.py), and the    *)
(* lifespan of the application starts and stops it (core/registrar.py).    *)
(*                                                                         *)
(* Logs are numbered in the order of put_nowait.  A step is what runs      *)
(* between two suspensions of a coroutine: the collector takes all it can  *)
(* without suspending, because queue.get() of a queue that is not empty    *)
(* does not.                                                               *)
(***************************************************************************)
EXTENDS Naturals, Sequences, FiniteSets

CONSTANTS
    MaxQueue,   \* OPERA_LOG_QUEUE_MAXSIZE
    BatchSize,  \* OPERA_LOG_QUEUE_BATCH_CONSUME_SIZE
    MaxLogs     \* bound: the logs of a run

ASSUME QueueAssumption ==
    /\ MaxQueue \in Nat \ {0}
    /\ BatchSize \in Nat \ {0}
    /\ MaxLogs \in Nat

VARIABLES
    lifespan,   \* register_init: "starting", "serving", "stopping" or "ended"
    stop,       \* opera_log_stop_event
    cons,       \* the consumer: "created", "collect", "handle", "exited",
                \* "timedout" (left on an empty-handed timeout) or "cancelled"
    queue,      \* opera_log_queue
    batch,      \* items
    unfinished, \* the queue's count of items without task_done
    next,       \* history: the number of the next log
    stored,     \* history: the logs inserted, in order
    dropped,    \* history: the logs that met a full queue
    lost,       \* history: the logs of failed or cancelled batches
    mark        \* history: next when the stop event was set, 0 before

qVars == <<queue, batch, unfinished>>
logVars == <<stored, dropped, lost>>
vars == <<lifespan, stop, cons, qVars, next, logVars, mark>>

Logs == 1..MaxLogs
Left == {"exited", "timedout", "cancelled"}
Items(s) == {s[i] : i \in 1..Len(s)}

TypeOK ==
    /\ lifespan \in {"starting", "serving", "stopping", "ended"}
    /\ stop \in BOOLEAN
    /\ cons \in {"created", "collect", "handle"} \cup Left
    /\ queue \in Seq(Nat) /\ Len(queue) <= MaxQueue
    /\ batch \in Seq(Nat) /\ Len(batch) <= BatchSize
    /\ cons = "handle" => batch # <<>>
    /\ cons \in Left => batch = <<>>
    /\ unfinished \in Nat
    /\ next \in Nat \ {0}
    /\ stored \in Seq(Nat)
    /\ dropped \subseteq Nat
    /\ lost \subseteq Nat
    /\ mark \in Nat

Init ==
    /\ lifespan = "starting"
    /\ stop = FALSE
    /\ cons = "created"
    /\ queue = <<>>
    /\ batch = <<>>
    /\ unfinished = 0
    /\ next = 1
    /\ stored = <<>>
    /\ dropped = {}
    /\ lost = {}
    /\ mark = 0

-----------------------------------------------------------------------------
(* The requests.                                                           *)

\* Mutant: the queue is not bounded.
FullNever == FALSE

Full == Len(queue) >= MaxQueue

\* dispatch ends: put_nowait.  Requests that are cancelled when the server
\* stops still put their log.
Put ==
    /\ lifespan \in {"serving", "stopping"}
    /\ next <= MaxLogs
    /\ next' = next + 1
    /\ IF Full
       THEN /\ dropped' = dropped \cup {next}
            /\ UNCHANGED <<queue, unfinished>>
       ELSE /\ queue' = Append(queue, next)
            /\ unfinished' = unfinished + 1
            /\ UNCHANGED dropped
    /\ UNCHANGED <<lifespan, stop, cons, batch, stored, lost, mark>>

-----------------------------------------------------------------------------
(* The consumer.                                                           *)

\* consumer(): the stop event is cleared, whoever has set it before.
Start ==
    /\ cons = "created"
    /\ cons' = "collect"
    /\ stop' = FALSE
    /\ UNCHANGED <<lifespan, qVars, next, logVars, mark>>

\* What the collector can take at once.
Taken ==
    IF Len(queue) <= BatchSize - Len(batch) THEN Len(queue) ELSE BatchSize - Len(batch)

\* Mutant: items is a new list whenever the collector wakes.
CollectedAnew == SubSeq(queue, 1, Taken)

Collected == batch \o SubSeq(queue, 1, Taken)

\* Mutant: the queue is not drained before the consumer leaves.
AfterCollectUndrained(n) ==
    IF stop /\ batch = <<>> THEN "exited"
    ELSE IF n = BatchSize THEN "handle" ELSE "collect"

\* batch_dequeue and batch_consume, n items collected: a full batch is
\* handled; when the stop event is set and the queue is empty, so is a
\* smaller one, and the consumer leaves without any; else it waits for more.
AfterCollect(n) ==
    IF n = BatchSize \/ (stop /\ n > 0) THEN "handle"
    ELSE IF stop THEN "exited" ELSE "collect"

\* The collector runs: it starts, an item wakes it, or it wakes to look at
\* the stop event (_STOP_CHECK_INTERVAL).
Collect ==
    /\ cons = "collect"
    /\ batch' = Collected
    /\ queue' = SubSeq(queue, Taken + 1, Len(queue))
    /\ cons' = AfterCollect(Len(batch) + Taken)
    /\ UNCHANGED <<lifespan, stop, unfinished, next, logVars, mark>>

\* Mutant: batch_dequeue waits without a timeout.
TimeoutEndsNever == FALSE

\* An end of the waiting changes something.
TimeoutEnds == batch # <<>> \/ stop

\* The timeout of batch_dequeue cancels the waiting collector.  An item that
\* was put in the same turn of the event loop stays in the queue, and a
\* consumer that holds nothing and finds the stop event set leaves it there.
DequeueTimeout ==
    /\ cons = "collect"
    /\ TimeoutEnds
    /\ cons' = IF batch # <<>> THEN "handle" ELSE "timedout"
    /\ UNCHANGED <<lifespan, stop, qVars, next, logVars, mark>>

\* Mutant: the items of a failed batch are not marked as done.
DoneAfterFailureNone == 0

DoneAfterFailure == Len(batch)

\* The handler has stored the batch, in a transaction of its own.
Handle ==
    /\ cons = "handle"
    /\ stored' = stored \o batch
    /\ batch' = <<>>
    /\ unfinished' = unfinished - Len(batch)
    /\ cons' = "collect"
    /\ UNCHANGED <<lifespan, stop, queue, next, dropped, lost, mark>>

\* The handler fails: the batch is lost, the consumer goes on.
HandleFails ==
    /\ cons = "handle"
    /\ lost' = lost \cup Items(batch)
    /\ batch' = <<>>
    /\ unfinished' = unfinished - DoneAfterFailure
    /\ cons' = "collect"
    /\ UNCHANGED <<lifespan, stop, queue, next, stored, dropped, mark>>

-----------------------------------------------------------------------------
(* The lifespan.                                                           *)

Serve ==
    /\ lifespan = "starting"
    /\ lifespan' = "serving"
    /\ UNCHANGED <<stop, cons, qVars, next, logVars, mark>>

\* The application stops, or a later lifespan hook failed to start:
\* stop_consumer sets the event, unless the task is done.
Stop ==
    /\ lifespan \in {"starting", "serving"}
    /\ lifespan' = "stopping"
    /\ stop' = TRUE
    /\ mark' = next
    /\ UNCHANGED <<cons, qVars, next, logVars>>

\* Mutant: stop_consumer waits without a timeout.
DrainTakesTooLongNever == FALSE

\* Ten seconds are enough for a collector that wakes every second: it is the
\* handler that is slow, or the event was cleared after it had been set.
DrainTakesTooLong == cons = "handle" \/ (cons = "collect" /\ ~stop)

\* OPERA_LOG_QUEUE_DRAIN_TIMEOUT: wait_for cancels the consumer.  A batch in
\* the handler has been committed or is rolled back, and is marked as done; a
\* batch that was being collected is not marked.
DrainTimeout ==
    /\ lifespan = "stopping"
    /\ DrainTakesTooLong
    /\ cons' = "cancelled"
    /\ batch' = <<>>
    /\ \/ /\ cons = "handle"
          /\ unfinished' = unfinished - Len(batch)
          /\ \/ stored' = stored \o batch /\ UNCHANGED lost
             \/ lost' = lost \cup Items(batch) /\ UNCHANGED stored
       \/ /\ cons = "collect"
          /\ lost' = lost \cup Items(batch)
          /\ UNCHANGED <<stored, unfinished>>
    /\ UNCHANGED <<lifespan, stop, queue, next, dropped, mark>>

StopEnds ==
    /\ lifespan = "stopping"
    /\ cons \in Left
    /\ lifespan' = "ended"
    /\ UNCHANGED <<stop, cons, qVars, next, logVars, mark>>

Next ==
    \/ Put \/ Start \/ Collect \/ DequeueTimeout \/ Handle \/ HandleFails
    \/ Serve \/ Stop \/ DrainTimeout \/ StopEnds

\* The event loop runs what is ready and its timers fire; a handler returns
\* or raises.
Fairness ==
    /\ WF_vars(Start)
    /\ WF_vars(Collect)
    /\ WF_vars(DequeueTimeout)
    /\ WF_vars(Handle \/ HandleFails)
    /\ WF_vars(DrainTimeout)
    /\ WF_vars(StopEnds)

Spec == Init /\ [][Next]_vars
FairSpec == Spec /\ Fairness

-----------------------------------------------------------------------------
(* Properties.                                                             *)

\* The queue's own count, which join() waits for, is the logs in it or in the
\* consumer's hands, until a consumer is cancelled while it collects.
Balanced ==
    \/ unfinished = Len(queue) + Len(batch)
    \/ cons = "cancelled" /\ unfinished >= Len(queue)

\* A consumer that leaves when it has drained the queue has settled every log
\* that was put before the stop.
DrainedBeforeExit ==
    cons = "exited" =>
        \A n \in 1..(mark - 1) : n \in Items(stored) \cup dropped \cup lost

\* Logs are settled in order, each once, a batch as a whole.
Implements == INSTANCE LogDelivery WITH pending <- batch \o queue, discarded <- dropped \cup lost
Delivery == Implements!Delivery

\* A log in the queue is stored or lost in the end, however few follow it,
\* while the consumer lives.
EventuallySettled ==
    \A n \in Logs :
        (n \in Items(batch \o queue)) ~> (n \in Items(stored) \cup lost \/ cons \in Left)

\* The application stops in the end, also when its start failed before the
\* consumer ran.
StopTerminates == (lifespan = "stopping") ~> (lifespan = "ended")
=============================================================================
