---------------------------- MODULE LogDelivery ----------------------------
(***************************************************************************)
(* What the operation log promises (abstract specification of              *)
(* OperaLogQueue): logs are numbered in the order in which the requests    *)
(* end; a log is taken on or turned away; what was taken on is settled in  *)
(* that order, a batch at a time, and a batch is stored as a whole or      *)
(* discarded as a whole.                                                   *)
(***************************************************************************)
EXTENDS Naturals, Sequences

CONSTANTS
    BatchSize   \* OPERA_LOG_QUEUE_BATCH_CONSUME_SIZE

VARIABLES
    next,       \* the number of the next log
    pending,    \* the logs taken on and not settled, oldest first
    stored,     \* the logs in the database, in the order of their insertion
    discarded   \* the logs turned away or lost

deliveryVars == <<next, pending, stored, discarded>>

DeliveryInit ==
    /\ next = 1
    /\ pending = <<>>
    /\ stored = <<>>
    /\ discarded = {}

Accept ==
    /\ next' = next + 1
    /\ pending' = Append(pending, next)
    /\ UNCHANGED <<stored, discarded>>

Reject ==
    /\ next' = next + 1
    /\ discarded' = discarded \cup {next}
    /\ UNCHANGED <<pending, stored>>

Rest(k) == SubSeq(pending, k + 1, Len(pending))

Store(k) ==
    /\ stored' = stored \o SubSeq(pending, 1, k)
    /\ pending' = Rest(k)
    /\ UNCHANGED <<next, discarded>>

Discard(k) ==
    /\ discarded' = discarded \cup {pending[i] : i \in 1..k}
    /\ pending' = Rest(k)
    /\ UNCHANGED <<next, stored>>

Settle == \E k \in 1..BatchSize : k <= Len(pending) /\ (Store(k) \/ Discard(k))

DeliveryNext == Accept \/ Reject \/ Settle

Delivery == DeliveryInit /\ [][DeliveryNext]_deliveryVars
=============================================================================
