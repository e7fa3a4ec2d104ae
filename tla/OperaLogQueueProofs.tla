------------------------ MODULE OperaLogQueueProofs ------------------------
(***************************************************************************)
(* Proofs about OperaLogQueue, for every size of the queue and of a batch  *)
(* and every number of logs.                                               *)
(***************************************************************************)
EXTENDS OperaLogQueue, SequenceTheorems, TLAPS

-----------------------------------------------------------------------------
(* Sequences.                                                              *)

\* The elements of a concatenation.
LEMMA ItemsConcat ==
    ASSUME NEW s \in Seq(Nat), NEW t \in Seq(Nat)
    PROVE  Items(s \o t) = Items(s) \cup Items(t)
<1>1. /\ s \o t \in Seq(Nat)
      /\ Len(s \o t) = Len(s) + Len(t)
      /\ \A i \in 1..Len(s) + Len(t) :
            (s \o t)[i] = IF i <= Len(s) THEN s[i] ELSE t[i - Len(s)]
  BY ConcatProperties
<1>2. Len(s) \in Nat /\ Len(t) \in Nat
  BY LenProperties
<1>3. Items(s \o t) \subseteq Items(s) \cup Items(t)
  <2> SUFFICES ASSUME NEW i \in 1..Len(s \o t)
               PROVE  (s \o t)[i] \in Items(s) \cup Items(t)
    BY DEF Items
  <2>1. CASE i <= Len(s)
    BY <1>1, <1>2, <2>1 DEF Items
  <2>2. CASE i > Len(s)
    <3>1. i - Len(s) \in 1..Len(t)
      BY <1>1, <1>2, <2>2
    <3> QED
      BY <1>1, <1>2, <2>2, <3>1 DEF Items
  <2> QED
    BY <1>1, <1>2, <2>1, <2>2
<1>4. Items(s) \subseteq Items(s \o t)
  <2> SUFFICES ASSUME NEW i \in 1..Len(s)
               PROVE  s[i] \in Items(s \o t)
    BY DEF Items
  <2>1. i \in 1..Len(s \o t) /\ (s \o t)[i] = s[i]
    BY <1>1, <1>2
  <2> QED
    BY <2>1 DEF Items
<1>5. Items(t) \subseteq Items(s \o t)
  <2> SUFFICES ASSUME NEW i \in 1..Len(t)
               PROVE  t[i] \in Items(s \o t)
    BY DEF Items
  <2>1. /\ i + Len(s) \in 1..Len(s \o t)
        /\ (s \o t)[i + Len(s)] = t[i]
    BY <1>1, <1>2
  <2> QED
    BY <2>1 DEF Items
<1> QED
  BY <1>3, <1>4, <1>5

\* The elements of a sequence are in its domain's image.
LEMMA ItemsType ==
    ASSUME NEW s \in Seq(Nat)
    PROVE  Items(s) \subseteq Nat
BY ElementOfSeq DEF Items

\* The elements after an Append.
LEMMA ItemsAppend ==
    ASSUME NEW s \in Seq(Nat), NEW e \in Nat
    PROVE  Items(Append(s, e)) = Items(s) \cup {e}
<1>1. /\ Append(s, e) \in Seq(Nat)
      /\ Len(Append(s, e)) = Len(s) + 1
      /\ \A i \in 1..Len(s) : Append(s, e)[i] = s[i]
      /\ Append(s, e)[Len(s) + 1] = e
  BY AppendProperties
<1>2. Len(s) \in Nat
  BY LenProperties
<1>3. 1..Len(Append(s, e)) = (1..Len(s)) \cup {Len(s) + 1}
  BY <1>1, <1>2
<1> QED
  BY <1>1, <1>3 DEF Items

\* A prefix of the queue moved to the batch: the two together stay the same.
LEMMA MoveItems ==
    ASSUME NEW b \in Seq(Nat), NEW q \in Seq(Nat), NEW k \in 0..Len(q)
    PROVE  /\ b \o SubSeq(q, 1, k) \in Seq(Nat)
           /\ Len(b \o SubSeq(q, 1, k)) = Len(b) + k
           /\ SubSeq(q, k + 1, Len(q)) \in Seq(Nat)
           /\ Len(SubSeq(q, k + 1, Len(q))) = Len(q) - k
           /\ (b \o SubSeq(q, 1, k)) \o SubSeq(q, k + 1, Len(q)) = b \o q
<1>1. Len(q) \in Nat /\ Len(b) \in Nat
  BY LenProperties
<1>2. /\ SubSeq(q, 1, k) \in Seq(Nat)
      /\ Len(SubSeq(q, 1, k)) = k
  <2>1. \A i \in 1..k : q[i] \in Nat
    BY <1>1, ElementOfSeq
  <2> QED
    BY <1>1, <2>1, SubSeqProperties
<1>3. /\ SubSeq(q, k + 1, Len(q)) \in Seq(Nat)
      /\ Len(SubSeq(q, k + 1, Len(q))) = Len(q) - k
  <2>1. \A i \in (k + 1)..Len(q) : q[i] \in Nat
    BY <1>1, ElementOfSeq
  <2> QED
    BY <1>1, <2>1, SubSeqProperties
<1>4. SubSeq(q, 1, k) \o SubSeq(q, k + 1, Len(q)) = q
  <2>1. SubSeq(q, 1, k) \o SubSeq(q, k + 1, Len(q)) = SubSeq(q, 1, Len(q))
    <3>1. /\ 1 \in 1..Len(q) + 1
          /\ k \in 1 - 1..Len(q)
          /\ Len(q) \in k..Len(q)
      BY <1>1
    <3> QED
      BY <3>1, ConcatAdjacentSubSeq, Zenon
  <2> QED
    BY <2>1, SubSeqFull
<1>5. /\ b \o SubSeq(q, 1, k) \in Seq(Nat)
      /\ Len(b \o SubSeq(q, 1, k)) = Len(b) + k
  BY <1>2, ConcatProperties
<1>6. (b \o SubSeq(q, 1, k)) \o SubSeq(q, k + 1, Len(q)) = b \o q
  <2> DEFINE S1 == SubSeq(q, 1, k)
             S2 == SubSeq(q, k + 1, Len(q))
  <2>1. S1 \in Seq(Nat) /\ S2 \in Seq(Nat) /\ S1 \o S2 = q
    BY <1>2, <1>3, <1>4
  <2> HIDE DEF S1, S2
  <2>2. (b \o S1) \o S2 = b \o (S1 \o S2)
    <3>1. S1 \in Seq(Nat) /\ S2 \in Seq(Nat)
      BY <2>1
    <3> QED
      BY <3>1
  <2>3. (b \o S1) \o S2 = b \o q
    BY <2>1, <2>2
  <2> QED
    BY <2>3 DEF S1, S2
<1> QED
  BY <1>3, <1>5, <1>6

\* A batch at the head of the pending logs: what is before and after it.
LEMMA HeadOfConcat ==
    ASSUME NEW b \in Seq(Nat), NEW q \in Seq(Nat)
    PROVE  /\ b \o q \in Seq(Nat)
           /\ Len(b \o q) = Len(b) + Len(q)
           /\ SubSeq(b \o q, 1, Len(b)) = b
           /\ SubSeq(b \o q, Len(b) + 1, Len(b \o q)) = q
           /\ {(b \o q)[i] : i \in 1..Len(b)} = Items(b)
<1>1. Len(b) \in Nat /\ Len(q) \in Nat
  BY LenProperties
<1>2. /\ b \o q \in Seq(Nat)
      /\ Len(b \o q) = Len(b) + Len(q)
      /\ \A i \in 1..Len(b) + Len(q) :
            (b \o q)[i] = IF i <= Len(b) THEN b[i] ELSE q[i - Len(b)]
  BY ConcatProperties
<1>3. \A i \in 1..Len(b) : (b \o q)[i] = b[i]
  BY <1>1, <1>2
<1>4. \A i \in 1..Len(b) + Len(q) : (b \o q)[i] \in Nat
  BY <1>2, ElementOfSeq
<1>5. SubSeq(b \o q, 1, Len(b)) = b
  <2>1. /\ SubSeq(b \o q, 1, Len(b)) \in Seq(Nat)
        /\ Len(SubSeq(b \o q, 1, Len(b))) = Len(b)
        /\ \A i \in 1..Len(b) : SubSeq(b \o q, 1, Len(b))[i] = (b \o q)[i]
    <3>1. \A i \in 1..Len(b) : (b \o q)[i] \in Nat
      BY <1>1, <1>4
    <3>2. /\ SubSeq(b \o q, 1, Len(b)) \in Seq(Nat)
          /\ Len(SubSeq(b \o q, 1, Len(b))) = IF 1 <= Len(b) THEN Len(b) - 1 + 1 ELSE 0
          /\ \A i \in 1..Len(b) - 1 + 1 : SubSeq(b \o q, 1, Len(b))[i] = (b \o q)[1 + i - 1]
      BY <1>1, <3>1, SubSeqProperties
    <3> QED
      BY <1>1, <3>2
  <2> QED
    BY <1>3, <2>1, SeqEqual
<1>6. SubSeq(b \o q, Len(b) + 1, Len(b \o q)) = q
  <2>1. \A i \in (Len(b) + 1)..(Len(b) + Len(q)) : (b \o q)[i] \in Nat
    BY <1>1, <1>4
  <2>2. /\ SubSeq(b \o q, Len(b) + 1, Len(b) + Len(q)) \in Seq(Nat)
        /\ Len(SubSeq(b \o q, Len(b) + 1, Len(b) + Len(q))) =
              IF Len(b) + 1 <= Len(b) + Len(q) THEN Len(b) + Len(q) - (Len(b) + 1) + 1 ELSE 0
        /\ \A i \in 1..(Len(b) + Len(q)) - (Len(b) + 1) + 1 :
              SubSeq(b \o q, Len(b) + 1, Len(b) + Len(q))[i] = (b \o q)[Len(b) + 1 + i - 1]
    BY <1>1, <2>1, SubSeqProperties
  <2>3. \A i \in 1..Len(q) : (b \o q)[Len(b) + i] = q[i]
    BY <1>1, <1>2
  <2>4. \A i \in 1..Len(q) : SubSeq(b \o q, Len(b) + 1, Len(b) + Len(q))[i] = q[i]
    BY <1>1, <2>2, <2>3
  <2>5. Len(SubSeq(b \o q, Len(b) + 1, Len(b) + Len(q))) = Len(q)
    BY <1>1, <2>2
  <2> QED
    BY <1>2, <2>2, <2>4, <2>5, SeqEqual
<1>7. {(b \o q)[i] : i \in 1..Len(b)} = Items(b)
  BY <1>3 DEF Items
<1> QED
  BY <1>2, <1>5, <1>6, <1>7

-----------------------------------------------------------------------------
(* Types, the count of unfinished items, and the account of every log.     *)

\* Every log that was put is somewhere, and what was put before the stop is
\* settled when the consumer leaves with the queue drained.
Accounted ==
    /\ mark <= next
    /\ stop => lifespan \in {"stopping", "ended"}
    /\ cons = "exited" => lifespan \in {"stopping", "ended"}
    /\ \A n \in 1..(next - 1) :
          n \in Items(stored) \cup dropped \cup lost \cup Items(batch) \cup Items(queue)
    /\ DrainedBeforeExit

IInv == TypeOK /\ Balanced /\ Accounted

\* What the collector takes at once is a prefix of the queue that fits.
LEMMA TakenFits ==
    ASSUME TypeOK
    PROVE  /\ Taken \in 0..Len(queue)
           /\ Len(batch) + Taken <= BatchSize
           /\ Taken = Len(queue) \/ Len(batch) + Taken = BatchSize
<1>1. Len(queue) \in Nat /\ Len(batch) \in Nat /\ Len(batch) <= BatchSize /\ BatchSize \in Nat
  BY LenProperties, QueueAssumption DEF TypeOK
<1> QED
  BY <1>1 DEF Taken

\* The initial states have the invariant.
LEMMA IInvInit == Init => IInv
<1> SUFFICES ASSUME Init PROVE IInv
  OBVIOUS
<1>1. <<>> \in Seq(Nat) /\ Len(<<>>) = 0
  BY EmptySeq
<1>2. TypeOK
  <2>1. queue \in Seq(Nat) /\ batch \in Seq(Nat) /\ stored \in Seq(Nat)
    BY <1>1 DEF Init
  <2>2. Len(queue) <= MaxQueue /\ Len(batch) <= BatchSize
    BY <1>1, QueueAssumption DEF Init
  <2>3. next \in Nat \ {0} /\ mark \in Nat /\ unfinished \in Nat
    BY DEF Init
  <2> QED
    BY <2>1, <2>2, <2>3 DEF Init, TypeOK, Left
<1>3. Balanced
  BY <1>1 DEF Init, Balanced
<1>4. Accounted
  BY DEF Init, Accounted, DrainedBeforeExit
<1> QED
  BY <1>2, <1>3, <1>4 DEF IInv

\* Every step keeps the types and bounds.
LEMMA TypeNext == IInv /\ [Next]_vars => TypeOK'
<1> SUFFICES ASSUME IInv, [Next]_vars PROVE TypeOK'
  OBVIOUS
<1> USE DEF Left
<1>0. /\ TypeOK /\ Balanced
      /\ Len(queue) \in Nat /\ Len(batch) \in Nat
      /\ <<>> \in Seq(Nat) /\ Len(<<>>) = 0
      /\ BatchSize \in Nat \ {0} /\ MaxQueue \in Nat \ {0}
  BY LenProperties, EmptySeq, QueueAssumption DEF IInv, TypeOK
<1>1. CASE Put
  <2>1. CASE Full
    <3>1. dropped' \subseteq Nat /\ next' \in Nat \ {0}
      <4>1. dropped' = dropped \cup {next} /\ next' = next + 1
        BY <1>1, <2>1 DEF Put
      <4>2. dropped \subseteq Nat /\ next \in Nat \ {0}
        BY <1>0 DEF TypeOK
      <4>3. dropped' \subseteq Nat
        BY <4>1, <4>2
      <4>4. next' \in Nat \ {0}
        BY <4>1, <4>2
      <4> QED
        BY <4>3, <4>4
    <3> QED
      BY <1>0, <1>1, <2>1, <3>1 DEF Put, TypeOK
  <2>2. CASE ~Full
    <3>1. Append(queue, next) \in Seq(Nat) /\ Len(Append(queue, next)) = Len(queue) + 1
      BY <1>0 DEF TypeOK
    <3>2. queue' \in Seq(Nat) /\ Len(queue') <= MaxQueue
      BY <1>0, <1>1, <2>2, <3>1 DEF Put, Full
    <3>3. unfinished' \in Nat /\ next' \in Nat \ {0}
      BY <1>0, <1>1, <2>2 DEF Put, TypeOK
    <3> QED
      BY <1>0, <1>1, <2>2, <3>2, <3>3 DEF Put, TypeOK
  <2> QED
    BY <2>1, <2>2
<1>2. CASE Start
  BY <1>0, <1>2 DEF Start, TypeOK, qVars, logVars
<1>3. CASE Collect
  <2>1. /\ Taken \in 0..Len(queue)
        /\ Len(batch) + Taken <= BatchSize
    BY <1>0, TakenFits
  <2>2. /\ Collected \in Seq(Nat)
        /\ Len(Collected) = Len(batch) + Taken
        /\ SubSeq(queue, Taken + 1, Len(queue)) \in Seq(Nat)
        /\ Len(SubSeq(queue, Taken + 1, Len(queue))) = Len(queue) - Taken
    <3>1. queue \in Seq(Nat) /\ batch \in Seq(Nat)
      BY <1>0 DEF TypeOK
    <3> QED
      BY <2>1, <3>1, MoveItems DEF Collected
  <2>3. batch' = Collected /\ queue' = SubSeq(queue, Taken + 1, Len(queue))
    BY <1>3 DEF Collect
  <2>4. cons' = "handle" => batch' # <<>>
    BY <1>0, <1>3, <2>1, <2>2, <2>3 DEF Collect, AfterCollect
  <2>5. cons' \in {"handle", "exited", "collect"}
    BY <1>3 DEF Collect, AfterCollect
  <2>6. cons' = "exited" => batch' = <<>>
    <3>1. cons' = "exited" => Len(Collected) = 0
      BY <1>0, <1>3, <2>1, <2>2 DEF Collect, AfterCollect
    <3> QED
      BY <2>2, <2>3, <3>1, EmptySeq
  <2> QED
    <3>1. queue' \in Seq(Nat) /\ Len(queue') <= MaxQueue
      <4>1. Len(queue) <= MaxQueue
        BY <1>0 DEF TypeOK
      <4>2. Len(queue') = Len(queue) - Taken /\ queue' \in Seq(Nat)
        BY <2>2, <2>3
      <4> QED
        BY <1>0, <2>1, <4>1, <4>2
    <3>2. batch' \in Seq(Nat) /\ Len(batch') <= BatchSize
      BY <2>1, <2>2, <2>3
    <3> QED
      BY <1>0, <1>3, <2>4, <2>5, <2>6, <3>1, <3>2 DEF Collect, TypeOK, logVars
<1>4. CASE DequeueTimeout
  BY <1>0, <1>4 DEF DequeueTimeout, TypeOK, qVars, logVars
<1>5. unfinished - Len(batch) \in Nat \/ cons # "handle"
  BY <1>0 DEF Balanced
<1>6. CASE Handle
  <2>1. stored \o batch \in Seq(Nat)
    BY <1>0, ConcatProperties DEF TypeOK
  <2> QED
    BY <1>0, <1>5, <1>6, <2>1 DEF Handle, TypeOK
<1>7. Items(batch) \subseteq Nat
  BY <1>0, ItemsType DEF TypeOK
<1>8. CASE HandleFails
  <2>1. lost' \subseteq Nat
    BY <1>0, <1>7, <1>8 DEF HandleFails, TypeOK
  <2>2. unfinished' \in Nat
    BY <1>5, <1>8 DEF HandleFails, DoneAfterFailure
  <2> QED
    BY <1>0, <1>8, <2>1, <2>2 DEF HandleFails, TypeOK
<1>9. CASE Serve
  BY <1>0, <1>9 DEF Serve, TypeOK, qVars, logVars
<1>10. CASE Stop
  BY <1>0, <1>10 DEF Stop, TypeOK, qVars, logVars
<1>11. CASE DrainTimeout
  <2>1. stored \o batch \in Seq(Nat)
    BY <1>0, ConcatProperties DEF TypeOK
  <2>2. lost' \subseteq Nat
    BY <1>0, <1>7, <1>11 DEF DrainTimeout, TypeOK
  <2>3. unfinished' \in Nat
    BY <1>0, <1>5, <1>11 DEF DrainTimeout, TypeOK
  <2>4. stored' \in Seq(Nat)
    BY <1>0, <1>11, <2>1 DEF DrainTimeout, TypeOK
  <2> QED
    BY <1>0, <1>11, <2>2, <2>3, <2>4 DEF DrainTimeout, TypeOK
<1>12. CASE StopEnds
  BY <1>0, <1>12 DEF StopEnds, TypeOK, qVars, logVars
<1>13. CASE UNCHANGED vars
  BY <1>0, <1>13 DEF vars, TypeOK, qVars, logVars
<1> QED
  BY <1>1, <1>2, <1>3, <1>4, <1>6, <1>8, <1>9, <1>10, <1>11, <1>12, <1>13 DEF Next

\* Every step keeps the count of unfinished items.
LEMMA BalancedNext == IInv /\ [Next]_vars => Balanced'
<1> SUFFICES ASSUME IInv, [Next]_vars PROVE Balanced'
  OBVIOUS
<1>0. /\ TypeOK /\ Balanced
      /\ Len(queue) \in Nat /\ Len(batch) \in Nat /\ unfinished \in Nat
      /\ Len(<<>>) = 0
  BY LenProperties, EmptySeq DEF IInv, TypeOK
<1>1. CASE Put
  <2>1. ~Full => Len(queue') = Len(queue) + 1
    BY <1>0, <1>1 DEF Put, TypeOK
  <2>2. /\ cons' = cons /\ batch' = batch
        /\ \/ Full /\ queue' = queue /\ unfinished' = unfinished
           \/ ~Full /\ unfinished' = unfinished + 1
    BY <1>1 DEF Put
  <2> QED
    BY <1>0, <2>1, <2>2 DEF Balanced
<1>2. CASE Collect
  <2>1. Taken \in 0..Len(queue)
    BY <1>0, TakenFits
  <2>2. queue \in Seq(Nat) /\ batch \in Seq(Nat)
    BY <1>0 DEF TypeOK
  <2>3. /\ Len(batch') = Len(batch) + Taken
        /\ Len(queue') = Len(queue) - Taken
    BY <1>2, <2>1, <2>2, MoveItems DEF Collect, Collected
  <2>4. cons = "collect" /\ unfinished' = unfinished
    BY <1>2 DEF Collect
  <2> QED
    BY <1>0, <2>1, <2>3, <2>4 DEF Balanced
<1>3. CASE Handle
  BY <1>0, <1>3 DEF Handle, Balanced
<1>4. CASE HandleFails
  BY <1>0, <1>4 DEF HandleFails, Balanced, DoneAfterFailure
<1>5. CASE DrainTimeout
  <2>1. cons \in {"handle", "collect"}
    BY <1>5 DEF DrainTimeout
  <2>2. unfinished = Len(queue) + Len(batch)
    BY <1>0, <2>1 DEF Balanced
  <2>3. unfinished' >= Len(queue) /\ queue' = queue /\ cons' = "cancelled"
    BY <1>0, <1>5, <2>2 DEF DrainTimeout
  <2> QED
    BY <2>3 DEF Balanced
<1>6. CASE Start \/ DequeueTimeout
  <2>1. cons # "cancelled" /\ UNCHANGED <<queue, batch, unfinished>>
    BY <1>6 DEF Start, DequeueTimeout, qVars
  <2> QED
    BY <1>0, <2>1 DEF Balanced
<1>7. CASE Serve \/ Stop \/ StopEnds \/ UNCHANGED vars
  <2>1. UNCHANGED <<queue, batch, unfinished, cons>>
    BY <1>7 DEF Serve, Stop, StopEnds, qVars, vars
  <2> QED
    BY <1>0, <2>1 DEF Balanced
<1> QED
  BY <1>1, <1>2, <1>3, <1>4, <1>5, <1>6, <1>7 DEF Next

\* The logs that are settled.
Settled == Items(stored) \cup dropped \cup lost

\* Every step keeps the account of every log.
LEMMA AccountedNext == IInv /\ [Next]_vars => Accounted'
<1> SUFFICES ASSUME IInv, [Next]_vars PROVE Accounted'
  OBVIOUS
<1>0. /\ TypeOK /\ Accounted
      /\ queue \in Seq(Nat) /\ batch \in Seq(Nat) /\ stored \in Seq(Nat)
      /\ next \in Nat \ {0} /\ mark \in Nat
      /\ Items(<<>>) = {}
  <2>1. Len(<<>>) = 0
    BY EmptySeq
  <2>2. Items(<<>>) = {}
    BY <2>1 DEF Items
  <2> QED
    BY <2>2 DEF IInv, TypeOK
<1>a. \A n \in 1..(next - 1) : n \in Settled \cup Items(batch) \cup Items(queue)
  BY <1>0 DEF Accounted, Settled
<1>b. cons = "exited" => \A n \in 1..(mark - 1) : n \in Settled
  BY <1>0 DEF Accounted, DrainedBeforeExit, Settled
<1>c. ASSUME mark' <= next',
             stop' => lifespan' \in {"stopping", "ended"},
             cons' = "exited" => lifespan' \in {"stopping", "ended"},
             \A n \in 1..(next' - 1) : n \in Settled' \cup Items(batch)' \cup Items(queue)',
             cons' = "exited" => \A n \in 1..(mark' - 1) : n \in Settled'
      PROVE  Accounted'
  BY <1>c DEF Accounted, DrainedBeforeExit, Settled
<1>d. CASE UNCHANGED <<queue, batch, stored, dropped, lost, next, mark>>
           /\ (cons' = "exited" => cons = "exited")
           /\ (stop' => stop)
           /\ (lifespan' = lifespan \/ (lifespan' = "ended" /\ cons' = cons)
                 \/ lifespan = "starting")
  <2>1. Settled' = Settled /\ Items(batch)' = Items(batch) /\ Items(queue)' = Items(queue)
    BY <1>d DEF Settled, Items
  <2>2. /\ stop' => lifespan' \in {"stopping", "ended"}
        /\ cons' = "exited" => lifespan' \in {"stopping", "ended"}
    BY <1>0, <1>d DEF Accounted
  <2>3. mark' <= next'
    BY <1>0, <1>d DEF Accounted
  <2> QED
    BY <1>a, <1>b, <1>c, <1>d, <2>1, <2>2, <2>3
<1>1. CASE Put
  <2>1. /\ UNCHANGED <<lifespan, stop, cons, batch, stored, lost, mark>>
        /\ next' = next + 1
    BY <1>1 DEF Put
  <2>2. next \in Settled' \cup Items(queue)' /\ Settled \subseteq Settled'
        /\ Items(queue) \subseteq Items(queue)'
    <3>1. CASE Full
      BY <1>1, <3>1 DEF Put, Settled, Items
    <3>2. CASE ~Full
      <4>1. queue' = Append(queue, next) /\ Settled' = Settled
        BY <1>1, <3>2 DEF Put, Settled, Items
      <4>2. Items(Append(queue, next)) = Items(queue) \cup {next}
        BY <1>0, ItemsAppend
      <4>3. Items(queue)' = Items(Append(queue, next))
        BY <4>1 DEF Items
      <4> QED
        BY <4>1, <4>2, <4>3
    <3> QED
      BY <3>1, <3>2
  <2>3. Items(batch)' = Items(batch)
    BY <2>1 DEF Items
  <2>4. \A n \in 1..(next' - 1) : n \in 1..(next - 1) \/ n = next
    BY <1>0, <2>1
  <2>5. mark' <= next'
    BY <1>0, <2>1 DEF Accounted
  <2>6. /\ stop' => lifespan' \in {"stopping", "ended"}
        /\ cons' = "exited" => lifespan' \in {"stopping", "ended"}
    BY <1>0, <2>1 DEF Accounted
  <2>7. \A n \in 1..(next' - 1) : n \in Settled' \cup Items(batch)' \cup Items(queue)'
    BY <1>a, <2>2, <2>3, <2>4
  <2>8. cons' = "exited" => \A n \in 1..(mark' - 1) : n \in Settled'
    BY <1>b, <2>1, <2>2
  <2> QED
    BY <1>c, <2>5, <2>6, <2>7, <2>8
<1>2. CASE Collect
  <2>1. Taken \in 0..Len(queue) /\ Len(queue) \in Nat /\ Len(batch) \in Nat
    BY <1>0, TakenFits, LenProperties
  <2>2. /\ batch' \in Seq(Nat) /\ queue' \in Seq(Nat)
        /\ Len(batch') = Len(batch) + Taken
        /\ Len(queue') = Len(queue) - Taken
        /\ batch' \o queue' = batch \o queue
    BY <1>0, <1>2, <2>1, MoveItems DEF Collect, Collected
  <2>3. /\ UNCHANGED <<lifespan, stop, stored, dropped, lost, next, mark>>
        /\ cons' = AfterCollect(Len(batch) + Taken)
    BY <1>2 DEF Collect, logVars
  <2>4. Items(batch)' \cup Items(queue)' = Items(batch) \cup Items(queue)
    <3>1. Items(batch') \cup Items(queue') = Items(batch' \o queue')
      BY <2>2, ItemsConcat
    <3>2. Items(batch) \cup Items(queue) = Items(batch \o queue)
      BY <1>0, ItemsConcat
    <3>3. Items(batch)' = Items(batch') /\ Items(queue)' = Items(queue')
      BY DEF Items
    <3> QED
      BY <2>2, <3>1, <3>2, <3>3
  <2>5. Settled' = Settled
    BY <2>3 DEF Settled, Items
  <2>6. \A n \in 1..(next' - 1) : n \in Settled' \cup Items(batch)' \cup Items(queue)'
    BY <1>a, <2>3, <2>4, <2>5
  <2>7. cons' = "exited" => stop /\ Len(batch) + Taken = 0
    <3>1. BatchSize \in Nat \ {0}
      BY QueueAssumption
    <3> QED
      BY <2>1, <2>3, <3>1 DEF AfterCollect
  <2>8. cons' = "exited" => Items(batch)' = {} /\ Items(queue)' = {}
    <3> SUFFICES ASSUME cons' = "exited" PROVE Len(batch') = 0 /\ Len(queue') = 0
      BY DEF Items
    <3>1. Taken = Len(queue) \/ Len(batch) + Taken = BatchSize
      BY <1>0, TakenFits
    <3>2. BatchSize \in Nat \ {0}
      BY QueueAssumption
    <3> QED
      BY <2>1, <2>2, <2>7, <3>1, <3>2
  <2>9. cons' = "exited" => \A n \in 1..(mark' - 1) : n \in Settled'
    <3> SUFFICES ASSUME cons' = "exited", NEW n \in 1..(mark' - 1) PROVE n \in Settled'
      OBVIOUS
    <3>1. n \in 1..(next' - 1)
      BY <1>0, <2>3 DEF Accounted
    <3> QED
      BY <2>6, <2>8, <3>1
  <2>10. /\ mark' <= next'
         /\ stop' => lifespan' \in {"stopping", "ended"}
         /\ cons' = "exited" => lifespan' \in {"stopping", "ended"}
    BY <1>0, <2>3, <2>7 DEF Accounted
  <2> QED
    BY <1>c, <2>6, <2>9, <2>10
<1>3. CASE Handle \/ HandleFails \/ DrainTimeout
  <2>1. /\ UNCHANGED <<lifespan, stop, queue, next, dropped, mark>>
        /\ batch' = <<>>
        /\ cons' # "exited"
        /\ \/ stored' = stored \o batch /\ lost' = lost
           \/ lost' = lost \cup Items(batch) /\ stored' = stored
    BY <1>3 DEF Handle, HandleFails, DrainTimeout
  <2>2. Settled' = Settled \cup Items(batch)
    <3>1. Items(stored \o batch) = Items(stored) \cup Items(batch)
      BY <1>0, ItemsConcat
    <3>2. Items(stored)' = Items(stored')
      BY DEF Items
    <3> QED
      BY <2>1, <3>1, <3>2 DEF Settled
  <2>3. Items(queue)' = Items(queue)
    BY <2>1 DEF Items
  <2>4. \A n \in 1..(next' - 1) : n \in Settled' \cup Items(batch)' \cup Items(queue)'
    BY <1>a, <2>1, <2>2, <2>3
  <2>5. mark' <= next' /\ (stop' => lifespan' \in {"stopping", "ended"})
    BY <1>0, <2>1 DEF Accounted
  <2> QED
    BY <1>c, <2>1, <2>4, <2>5
<1>4. CASE Stop
  <2>1. /\ lifespan \in {"starting", "serving"} /\ lifespan' = "stopping"
        /\ mark' = next
        /\ UNCHANGED <<cons, queue, batch, next, stored, dropped, lost>>
    BY <1>4 DEF Stop, qVars, logVars
  <2>2. cons' # "exited"
    BY <1>0, <2>1 DEF Accounted
  <2>3. Settled' = Settled /\ Items(batch)' = Items(batch) /\ Items(queue)' = Items(queue)
    BY <2>1 DEF Settled, Items
  <2>4. mark' <= next'
    BY <1>0, <2>1
  <2> QED
    BY <1>a, <1>c, <2>1, <2>2, <2>3, <2>4
<1>5. CASE Start \/ DequeueTimeout \/ Serve \/ StopEnds \/ UNCHANGED vars
  <2>1. CASE Start
    BY <1>d, <2>1 DEF Start, qVars, logVars
  <2>2. CASE DequeueTimeout
    BY <1>d, <2>2 DEF DequeueTimeout, qVars, logVars
  <2>3. CASE Serve
    BY <1>d, <2>3 DEF Serve, qVars, logVars
  <2>4. CASE StopEnds
    BY <1>d, <2>4 DEF StopEnds, qVars, logVars
  <2>5. CASE UNCHANGED vars
    BY <1>d, <2>5 DEF vars, qVars, logVars
  <2> QED
    BY <1>5, <2>1, <2>2, <2>3, <2>4, <2>5
<1> QED
  BY <1>1, <1>2, <1>3, <1>4, <1>5 DEF Next

\* The invariant is inductive.
LEMMA IInvAlways == Spec => []IInv
<1>1. IInv /\ [Next]_vars => IInv'
  BY TypeNext, BalancedNext, AccountedNext DEF IInv
<1> QED
  BY <1>1, IInvInit, PTL DEF Spec

\* The types and bounds: neither the queue nor a batch outgrows its limit.
THEOREM QueueTypeOK == Spec => []TypeOK
<1>1. IInv => TypeOK
  BY DEF IInv
<1> QED
  BY <1>1, IInvAlways, PTL

\* task_done is called once for every item, unless the consumer is cancelled.
THEOREM QueueBalanced == Spec => []Balanced
<1>1. IInv => Balanced
  BY DEF IInv
<1> QED
  BY <1>1, IInvAlways, PTL

\* A consumer that leaves with the queue drained leaves no log behind that was
\* put before the stop.
THEOREM QueueDrained == Spec => []DrainedBeforeExit
<1>1. IInv => DrainedBeforeExit
  BY DEF IInv, Accounted
<1> QED
  BY <1>1, IInvAlways, PTL

-----------------------------------------------------------------------------
(* The refinement.                                                         *)

\* The concrete steps that settle a batch settle the head of the pending logs.
LEMMA SettleBatch ==
    ASSUME TypeOK, batch # <<>>, batch' = <<>>, queue' = queue, next' = next,
           \/ stored' = stored \o batch /\ UNCHANGED <<dropped, lost>>
           \/ lost' = lost \cup Items(batch) /\ UNCHANGED <<dropped, stored>>
    PROVE  Implements!Settle
<1>1. batch \in Seq(Nat) /\ queue \in Seq(Nat) /\ Len(batch) <= BatchSize
  BY DEF TypeOK
<1>2. /\ Len(batch) \in Nat /\ Len(queue) \in Nat
      /\ Len(batch) # 0
  BY <1>1, LenProperties, EmptySeq
<1>3. Len(batch) \in 1..BatchSize
  BY <1>1, <1>2, QueueAssumption
<1>4. /\ Len(batch \o queue) = Len(batch) + Len(queue)
      /\ SubSeq(batch \o queue, 1, Len(batch)) = batch
      /\ SubSeq(batch \o queue, Len(batch) + 1, Len(batch \o queue)) = queue
      /\ {(batch \o queue)[i] : i \in 1..Len(batch)} = Items(batch)
  BY <1>1, HeadOfConcat
<1>5. Len(batch) <= Len(batch \o queue)
  BY <1>2, <1>4
<1>6. (batch \o queue)' = Implements!Rest(Len(batch))
  <2>1. <<>> \o queue = queue
    BY <1>1
  <2>2. (batch \o queue)' = queue
    BY <2>1
  <2> QED
    BY <1>4, <2>2 DEF Implements!Rest
<1>7. CASE stored' = stored \o batch /\ UNCHANGED <<dropped, lost>>
  <2>1. Implements!Store(Len(batch))
    BY <1>4, <1>6, <1>7 DEF Implements!Store
  <2> QED
    BY <1>3, <1>5, <2>1 DEF Implements!Settle
<1>8. CASE lost' = lost \cup Items(batch) /\ UNCHANGED <<dropped, stored>>
  <2>1. (dropped \cup lost)' = (dropped \cup lost) \cup Items(batch)
    BY <1>8
  <2>2. Implements!Discard(Len(batch))
    BY <1>4, <1>6, <1>8, <2>1 DEF Implements!Discard
  <2> QED
    BY <1>3, <1>5, <2>2 DEF Implements!Settle
<1> QED
  BY <1>7, <1>8

\* The initial states are initial states of LogDelivery.
LEMMA InitImplements == Init => Implements!DeliveryInit
<1> SUFFICES ASSUME Init PROVE Implements!DeliveryInit
  OBVIOUS
<1>1. <<>> \in Seq(Nat) /\ <<>> \o <<>> = <<>>
  OBVIOUS
<1> QED
  BY <1>1 DEF Init, Implements!DeliveryInit

\* Every step is a step of LogDelivery or leaves its variables alone.
LEMMA NextImplements == TypeOK /\ [Next]_vars => [Implements!DeliveryNext]_(Implements!deliveryVars)
<1> SUFFICES ASSUME TypeOK, [Next]_vars
             PROVE  Implements!DeliveryNext \/ UNCHANGED Implements!deliveryVars
  OBVIOUS
<1>0. batch \in Seq(Nat) /\ queue \in Seq(Nat) /\ next \in Nat
  BY DEF TypeOK
<1>1. CASE Put
  <2>1. CASE Full
    <3>1. (dropped \cup lost)' = (dropped \cup lost) \cup {next}
      BY <1>1, <2>1 DEF Put
    <3>2. Implements!Reject
      BY <1>1, <2>1, <3>1 DEF Put, Implements!Reject
    <3> QED
      BY <3>2 DEF Implements!DeliveryNext
  <2>2. CASE ~Full
    <3>1. batch \o Append(queue, next) = Append(batch \o queue, next)
      BY <1>0
    <3>2. (batch \o queue)' = Append(batch \o queue, next)
      BY <1>1, <2>2, <3>1 DEF Put
    <3>3. Implements!Accept
      BY <1>1, <2>2, <3>2 DEF Put, Implements!Accept
    <3> QED
      BY <3>3 DEF Implements!DeliveryNext
  <2> QED
    BY <2>1, <2>2
<1>2. CASE Collect
  <2>1. Taken \in 0..Len(queue)
    BY TakenFits
  <2>2. Collected \o SubSeq(queue, Taken + 1, Len(queue)) = batch \o queue
    BY <1>0, <2>1, MoveItems DEF Collected
  <2>3. (batch \o queue)' = batch \o queue
    BY <1>2, <2>2 DEF Collect
  <2> QED
    BY <1>2, <2>3 DEF Collect, logVars, Implements!deliveryVars
<1>3. CASE Handle \/ HandleFails
  <2>1. batch # <<>>
    BY <1>3 DEF TypeOK, Handle, HandleFails
  <2>2. Implements!Settle
    BY <1>3, <2>1, SettleBatch DEF Handle, HandleFails
  <2> QED
    BY <2>2 DEF Implements!DeliveryNext
<1>4. CASE DrainTimeout
  <2>1. CASE batch = <<>>
    <3>1. cons = "collect"
      BY <1>4, <2>1 DEF DrainTimeout, DrainTakesTooLong, TypeOK
    <3>2. Items(<<>>) = {}
      <4>1. 1..Len(<<>>) = {}
        BY EmptySeq
      <4> QED
        BY <4>1 DEF Items
    <3>3. UNCHANGED <<batch, queue, stored, dropped, lost, next>>
      BY <1>4, <2>1, <3>1, <3>2 DEF DrainTimeout
    <3> QED
      BY <3>3 DEF Implements!deliveryVars
  <2>2. CASE batch # <<>>
    <3>1. Implements!Settle
      BY <1>4, <2>2, SettleBatch DEF DrainTimeout
    <3> QED
      BY <3>1 DEF Implements!DeliveryNext
  <2> QED
    BY <2>1, <2>2
<1>5. CASE Start \/ DequeueTimeout \/ Serve \/ Stop \/ StopEnds \/ UNCHANGED vars
  <2>1. UNCHANGED <<queue, batch, next, stored, dropped, lost>>
    BY <1>5 DEF Start, DequeueTimeout, Serve, Stop, StopEnds, vars, qVars, logVars
  <2> QED
    BY <2>1 DEF Implements!deliveryVars
<1> QED
  BY <1>1, <1>2, <1>3, <1>4, <1>5 DEF Next

\* The queue and its consumer implement LogDelivery: logs are settled in the
\* order in which they were put, each once, a batch as a whole.
THEOREM QueueImplements == Spec => Delivery
<1>1. TypeOK /\ [Next]_vars => [Implements!DeliveryNext]_(Implements!deliveryVars)
  BY NextImplements
<1> QED
  BY <1>1, InitImplements, QueueTypeOK, PTL DEF Spec, Delivery, Implements!Delivery
=============================================================================
