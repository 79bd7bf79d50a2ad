------------------------- MODULE StatusQueueProofs -------------------------
(***************************************************************************)
(* For every number of producers and every queue, batch and retry setting: *)
(* the status queue's types, its ledger, that its shutdown strands no      *)
(* point and closes the client last, and that it implements StatusFeed.    *)
(***************************************************************************)
EXTENDS StatusQueue, FiniteSetTheorems, SequenceTheorems, TLAPS

(* The worker's batch is exactly what is in flight; it is empty when the   *)
(* loop of run starts over, and not yet full while fillBatch runs.         *)
BatchInv ==
    /\ inFlight = Len(batch)
    /\ wpc \in {"take", "wait", "recordDrop", "done"} => batch = <<>>
    /\ wpc \in {"fill", "fillWait"} => Len(batch) < BatchSize
    /\ wpc # "recordDrop" => lost = 0

(* The order in which acceptance, cancellation, the worker and the client  *)
(* come to an end.                                                         *)
StopInv ==
    /\ spc = "idle" => ~canceled
    /\ spc # "idle" => ~accepting
    /\ wpc \in {"dropRemaining", "recordDrop"} => canceled
    /\ wpc \in {"recordDrop", "done"} => size = 0 /\ ~accepting
    /\ spc = "returned" => wpc = "done"
    /\ ~clientOpen => spc = "returned"

(* The inductive invariant.                                                *)
IInv == TypeOK /\ BatchInv /\ StopInv /\ Ledger

-----------------------------------------------------------------------------
(* Every slot index is a slot: % keeps the head inside the ring.           *)
LEMMA SlotAtInSlots ==
    ASSUME RingType, NEW i \in Nat
    PROVE  SlotAt(i) \in Slots
BY ConfigAssumption DEF RingType, SlotAt, Slots

(* The waiting points form a sequence as long as p.size.                   *)
LEMMA WaitingIsSeq ==
    ASSUME RingType
    PROVE  Waiting \in Seq(Nat) /\ Len(Waiting) = size
<1>1. \A i \in 1..size : queue[SlotAt(i - 1)] \in Nat
  BY SlotAtInSlots DEF RingType
<1>2. Waiting \in [1..size -> Nat]
  BY <1>1 DEF Waiting
<1> QED  BY <1>2, ConfigAssumption DEF RingType, Waiting

(* take(max) keeps the types, moves MinOf(max, size) points into the       *)
(* flight and lets the batch grow by exactly as many.                      *)
LEMMA TakeMoves ==
    ASSUME RingType, CounterType, HistoryType, NEW max \in Nat, take(max)
    PROVE  /\ RingType'
           /\ MinOf(max, size) \in 0..size
           /\ size' = size - MinOf(max, size)
           /\ inFlight' = inFlight + MinOf(max, size)
           /\ batch' \in Seq(Nat)
           /\ Len(batch') = Len(batch) + MinOf(max, size)
<1> DEFINE count == MinOf(max, size)
<1>1. count \in 0..size
  BY ConfigAssumption DEF RingType, MinOf
<1>2. SubSeq(Waiting, 1, count) \in Seq(Nat) /\ Len(SubSeq(Waiting, 1, count)) = count
  BY <1>1, WaitingIsSeq
<1>3. batch' = batch \o SubSeq(Waiting, 1, count)
  BY DEF take
<1>4. batch' \in Seq(Nat) /\ Len(batch') = Len(batch) + count
  BY <1>2, <1>3 DEF HistoryType
<1>5. head' \in Slots
  BY <1>1, SlotAtInSlots DEF take, RingType
<1>6. queue' \in [Slots -> Nat]
  BY DEF take, RingType, Nil
<1>7. size' = size - count /\ inFlight' = inFlight + count
  BY DEF take
<1>8. size' \in 0..QueueSize
  BY <1>1, <1>7, ConfigAssumption DEF RingType
<1> QED  BY <1>1, <1>4, <1>5, <1>6, <1>7, <1>8 DEF RingType

(* pushLocked keeps the types; a full ring stays full, another grows by    *)
(* one.                                                                    *)
LEMMA PushGrows ==
    ASSUME RingType, NEW point \in Nat, pushLocked(point)
    PROVE  /\ RingType'
           /\ size' = (IF size = QueueSize THEN size ELSE size + 1)
<1>1. head' \in Slots
  BY SlotAtInSlots DEF pushLocked, RingType
<1>2. queue' \in [Slots -> Nat]
  BY DEF pushLocked, RingType, Nil
<1>3. size' = (IF size = QueueSize THEN size ELSE size + 1)
  BY ConfigAssumption DEF pushLocked, RingType
<1>4. size' \in 0..QueueSize
  BY <1>3, ConfigAssumption DEF RingType
<1> QED  BY <1>1, <1>2, <1>3, <1>4 DEF RingType

(* Unrecorded overflows are a finite set.                                  *)
LEMMA UnrecordedFinite ==
    IsFiniteSet(Unrecorded) /\ Cardinality(Unrecorded) \in Nat
BY ConfigAssumption, FS_Subset, FS_CardinalityType DEF Unrecorded

-----------------------------------------------------------------------------
(* The initial state satisfies the invariant.                              *)
LEMMA InitIInv == Init => IInv
<1> SUFFICES ASSUME Init PROVE IInv
  OBVIOUS
<1> USE ConfigAssumption
<1>1. RingType
  BY DEF Init, RingType, Slots, Nil
<1>2. CounterType
  BY DEF Init, CounterType
<1>3. ControlType
  BY DEF Init, ControlType
<1>4. HistoryType
  BY DEF Init, HistoryType
<1>5. Cardinality(Unrecorded) = 0
  <2>1. Unrecorded = {}
    BY DEF Init, Unrecorded
  <2> QED  BY <2>1, FS_EmptySet
<1>6. Ledger
  BY <1>5 DEF Init, Ledger, Settling
<1>7. BatchInv
  BY DEF Init, BatchInv
<1>8. StopInv
  BY DEF Init, StopInv
<1> QED  BY <1>1, <1>2, <1>3, <1>4, <1>6, <1>7, <1>8 DEF IInv, TypeOK

(* A producer's steps preserve the invariant.                              *)
LEMMA ProducerIInv ==
    ASSUME IInv, NEW p \in Producers, Enqueue(p) \/ ProducerStep(p)
    PROVE  IInv'
<1> USE ConfigAssumption
<1>0. RingType /\ CounterType /\ ControlType /\ HistoryType /\ BatchInv /\ StopInv /\ Ledger
  BY DEF IInv, TypeOK
<1>1. CASE Enqueue(p)
  <2>1. RingType' /\ size' = (IF size = QueueSize THEN size ELSE size + 1)
    <3>1. enqueued + 1 \in Nat /\ pushLocked(enqueued + 1)
      BY <1>0, <1>1 DEF Enqueue, CounterType
    <3> QED  BY <1>0, <3>1, PushGrows
  <2>2. CounterType'
    BY <1>0, <1>1 DEF Enqueue, CounterType
  <2>3. ControlType'
    BY <1>0, <1>1 DEF Enqueue, ControlType
  <2>4. HistoryType'
    BY <1>0, <1>1 DEF Enqueue, HistoryType
  <2>5. BatchInv'
    BY <1>0, <1>1 DEF Enqueue, BatchInv
  <2>6. StopInv'
    BY <1>0, <1>1 DEF Enqueue, StopInv
  <2>a. Settling' = Settling /\ Settling \in Nat
    BY <1>0, <1>1 DEF Enqueue, Settling, HistoryType
  <2>7. ASSUME size = QueueSize PROVE Ledger'
    <3>1. Unrecorded' = Unrecorded \cup {p} /\ p \notin Unrecorded
      BY <1>0, <1>1, <2>7 DEF Enqueue, Unrecorded, ControlType
    <3>2. Cardinality(Unrecorded') = Cardinality(Unrecorded) + 1
      BY <3>1, UnrecordedFinite, FS_AddElement
    <3> QED  BY <1>0, <1>1, <2>1, <2>7, <2>a, <3>2, UnrecordedFinite
             DEF Enqueue, Ledger, RingType, CounterType
  <2>8. ASSUME size # QueueSize PROVE Ledger'
    <3>1. Unrecorded' = Unrecorded
      BY <1>0, <1>1, <2>8 DEF Enqueue, Unrecorded, ControlType
    <3> QED  BY <1>0, <1>1, <2>1, <2>8, <2>a, <3>1, UnrecordedFinite
             DEF Enqueue, Ledger, RingType, CounterType
  <2> QED  BY <2>1, <2>2, <2>3, <2>4, <2>5, <2>6, <2>7, <2>8 DEF IInv, TypeOK
<1>2. CASE RecordOverflow(p)
  <2>1. RingType' /\ CounterType' /\ HistoryType'
    BY <1>0, <1>2 DEF RecordOverflow, ring, worker, RingType, CounterType, HistoryType
  <2>2. ControlType'
    BY <1>0, <1>2 DEF RecordOverflow, worker, ControlType
  <2>3. BatchInv' /\ StopInv'
    BY <1>0, <1>2 DEF RecordOverflow, ring, worker, BatchInv, StopInv
  <2>4. Unrecorded' = Unrecorded \ {p} /\ p \in Unrecorded
    BY <1>0, <1>2 DEF RecordOverflow, Unrecorded, ControlType
  <2>5. Cardinality(Unrecorded') = Cardinality(Unrecorded) - 1
    BY <2>4, UnrecordedFinite, FS_RemoveElement
  <2>6. Ledger'
    BY <1>0, <1>2, <2>5, UnrecordedFinite
    DEF RecordOverflow, ring, worker, Ledger, Settling, RingType, CounterType, HistoryType
  <2> QED  BY <2>1, <2>2, <2>3, <2>6 DEF IInv, TypeOK
<1>3. CASE NotifyEnqueued(p)
  <2>1. RingType' /\ CounterType' /\ HistoryType'
    BY <1>0, <1>3 DEF NotifyEnqueued, ring, metrics, worker, RingType, CounterType, HistoryType
  <2>2. ControlType'
    BY <1>0, <1>3 DEF NotifyEnqueued, notify, worker, ControlType
  <2>3. BatchInv' /\ StopInv'
    BY <1>0, <1>3 DEF NotifyEnqueued, ring, worker, BatchInv, StopInv
  <2>4. Unrecorded' = Unrecorded
    BY <1>0, <1>3 DEF NotifyEnqueued, Unrecorded, ControlType
  <2>5. Ledger'
    BY <1>0, <1>3, <2>4 DEF NotifyEnqueued, ring, metrics, worker, Ledger, Settling
  <2> QED  BY <2>1, <2>2, <2>3, <2>5 DEF IInv, TypeOK
<1> QED  BY <1>1, <1>2, <1>3 DEF ProducerStep

(* The delivery worker's steps preserve the invariant.                     *)
LEMMA WorkerIInv ==
    ASSUME IInv, WorkerStep
    PROVE  IInv'
<1> USE ConfigAssumption
<1>0. RingType /\ CounterType /\ ControlType /\ HistoryType /\ BatchInv /\ StopInv /\ Ledger
  BY DEF IInv, TypeOK
<1>a. ASSUME UNCHANGED ppc PROVE Unrecorded' = Unrecorded
  BY <1>a DEF Unrecorded
<1>1. CASE TakeBatch
  <2>1. BatchSize \in Nat /\ take(BatchSize)
    BY <1>0, <1>1 DEF TakeBatch, BatchInv, HistoryType, ControlType
  <2>2. /\ RingType'
        /\ MinOf(BatchSize, size) \in 0..size
        /\ size' = size - MinOf(BatchSize, size)
        /\ inFlight' = inFlight + MinOf(BatchSize, size)
        /\ batch' \in Seq(Nat)
        /\ Len(batch') = Len(batch) + MinOf(BatchSize, size)
    BY <1>0, <2>1, TakeMoves
  <2>3. CounterType'
    BY <1>0, <1>1, <2>2, SMTT(30) DEF TakeBatch, metrics, CounterType, RingType
  <2>4. ControlType'
    BY <1>0, <1>1 DEF TakeBatch, ControlType
  <2>5. HistoryType'
    BY <1>0, <1>1, <2>2 DEF TakeBatch, HistoryType
  <2>6. BatchInv'
    BY <1>0, <1>1, <2>2 DEF TakeBatch, BatchInv, MinOf, RingType, HistoryType, CounterType
  <2>7. StopInv'
    BY <1>0, <1>1, <2>2 DEF TakeBatch, StopInv, RingType
  <2>a. Settling' = 0 /\ Settling = 0
    BY <1>1 DEF TakeBatch, Settling
  <2>b. Unrecorded' = Unrecorded /\ UNCHANGED <<metrics, lost>>
    BY <1>1, <1>a DEF TakeBatch
  <2>c. size' + inFlight' = size + inFlight
    BY <1>0, <2>2 DEF RingType, CounterType
  <2>8. Ledger'
    <3>1. enqueued + Settling =
             written + failed + dropped + (size + inFlight) + lost + Cardinality(Unrecorded)
      BY <1>0, UnrecordedFinite DEF Ledger, RingType, CounterType
    <3>2. size' \in Nat /\ inFlight' \in Nat
      BY <2>2, <2>3 DEF RingType, CounterType
    <3> QED  BY <1>0, <2>a, <2>b, <2>c, <3>1, <3>2, UnrecordedFinite
             DEF metrics, Ledger, CounterType
  <2> QED  BY <2>2, <2>3, <2>4, <2>5, <2>6, <2>7, <2>8 DEF IInv, TypeOK
<1>2. CASE FillBatch
  <2>1. (BatchSize - Len(batch)) \in Nat /\ take((BatchSize - Len(batch)))
    BY <1>0, <1>2 DEF FillBatch, BatchInv, HistoryType, ControlType
  <2>2. /\ RingType'
        /\ MinOf((BatchSize - Len(batch)), size) \in 0..size
        /\ size' = size - MinOf((BatchSize - Len(batch)), size)
        /\ inFlight' = inFlight + MinOf((BatchSize - Len(batch)), size)
        /\ batch' \in Seq(Nat)
        /\ Len(batch') = Len(batch) + MinOf((BatchSize - Len(batch)), size)
    BY <1>0, <2>1, TakeMoves
  <2>3. CounterType'
    BY <1>0, <1>2, <2>2 DEF FillBatch, metrics, CounterType, RingType
  <2>4. ControlType'
    BY <1>0, <1>2 DEF FillBatch, ControlType
  <2>5. HistoryType'
    BY <1>0, <1>2, <2>2 DEF FillBatch, HistoryType
  <2>6. BatchInv'
    BY <1>0, <1>2, <2>2 DEF FillBatch, BatchInv, MinOf, RingType, HistoryType, CounterType
  <2>7. StopInv'
    BY <1>0, <1>2, <2>2 DEF FillBatch, StopInv, RingType
  <2>a. Settling' = 0 /\ Settling = 0
    BY <1>2 DEF FillBatch, Settling
  <2>b. Unrecorded' = Unrecorded /\ UNCHANGED <<metrics, lost>>
    BY <1>2, <1>a DEF FillBatch
  <2>c. size' + inFlight' = size + inFlight
    BY <1>0, <2>2 DEF RingType, CounterType
  <2>8. Ledger'
    <3>1. enqueued + Settling =
             written + failed + dropped + (size + inFlight) + lost + Cardinality(Unrecorded)
      BY <1>0, UnrecordedFinite DEF Ledger, RingType, CounterType
    <3>2. size' \in Nat /\ inFlight' \in Nat
      BY <2>2, <2>3 DEF RingType, CounterType
    <3> QED  BY <1>0, <2>a, <2>b, <2>c, <3>1, <3>2, UnrecordedFinite
             DEF metrics, Ledger, CounterType
  <2> QED  BY <2>2, <2>3, <2>4, <2>5, <2>6, <2>7, <2>8 DEF IInv, TypeOK
<1>3. CASE WaitForWork
  <2>1. RingType' /\ CounterType' /\ HistoryType'
    BY <1>0, <1>3 DEF WaitForWork, ring, metrics, RingType, CounterType, HistoryType
  <2>2. ControlType'
    BY <1>0, <1>3 DEF WaitForWork, ControlType
  <2>3. BatchInv'
    BY <1>0, <1>3 DEF WaitForWork, BatchInv, HistoryType
  <2>4. StopInv'
    BY <1>0, <1>3 DEF WaitForWork, ring, StopInv
  <2>5. Ledger'
    BY <1>0, <1>3, <1>a, UnrecordedFinite
    DEF WaitForWork, ring, metrics, Ledger, Settling, BatchInv, RingType, CounterType, HistoryType
  <2> QED  BY <2>1, <2>2, <2>3, <2>4, <2>5 DEF IInv, TypeOK
<1>4. CASE FillWait
  <2>1. RingType' /\ CounterType' /\ HistoryType'
    BY <1>0, <1>4 DEF FillWait, ring, metrics, RingType, CounterType, HistoryType
  <2>2. ControlType'
    BY <1>0, <1>4 DEF FillWait, ControlType
  <2>3. BatchInv'
    BY <1>0, <1>4 DEF FillWait, BatchInv, HistoryType
  <2>4. StopInv'
    BY <1>0, <1>4 DEF FillWait, ring, StopInv
  <2>5. Ledger'
    BY <1>0, <1>4, <1>a, UnrecordedFinite
    DEF FillWait, ring, metrics, Ledger, Settling, BatchInv, RingType, CounterType, HistoryType
  <2> QED  BY <2>1, <2>2, <2>3, <2>4, <2>5 DEF IInv, TypeOK
<1>5. CASE WriteOk
  <2>1. RingType' /\ CounterType' /\ HistoryType'
    BY <1>0, <1>5 DEF WriteOk, ring, metrics, RingType, CounterType, HistoryType
  <2>2. ControlType'
    BY <1>0, <1>5 DEF WriteOk, ControlType
  <2>3. BatchInv'
    BY <1>0, <1>5 DEF WriteOk, BatchInv, HistoryType
  <2>4. StopInv'
    BY <1>0, <1>5 DEF WriteOk, ring, StopInv
  <2>5. Ledger'
    BY <1>0, <1>5, <1>a, UnrecordedFinite
    DEF WriteOk, ring, metrics, Ledger, Settling, BatchInv, RingType, CounterType, HistoryType
  <2> QED  BY <2>1, <2>2, <2>3, <2>4, <2>5 DEF IInv, TypeOK
<1>6. CASE WriteErr
  <2>1. RingType' /\ CounterType' /\ HistoryType'
    BY <1>0, <1>6 DEF WriteErr, ring, metrics, RingType, CounterType, HistoryType
  <2>2. ControlType'
    BY <1>0, <1>6 DEF WriteErr, ControlType
  <2>3. BatchInv'
    BY <1>0, <1>6 DEF WriteErr, BatchInv, HistoryType
  <2>4. StopInv'
    BY <1>0, <1>6 DEF WriteErr, ring, StopInv
  <2>5. Ledger'
    BY <1>0, <1>6, <1>a, UnrecordedFinite, SMTT(30)
    DEF WriteErr, ring, metrics, Ledger, Settling, BatchInv, RingType, CounterType, HistoryType
  <2> QED  BY <2>1, <2>2, <2>3, <2>4, <2>5 DEF IInv, TypeOK
<1>7. CASE Backoff
  <2>1. RingType' /\ CounterType' /\ HistoryType'
    BY <1>0, <1>7 DEF Backoff, ring, metrics, RingType, CounterType, HistoryType
  <2>2. ControlType'
    BY <1>0, <1>7 DEF Backoff, ControlType
  <2>3. BatchInv'
    BY <1>0, <1>7 DEF Backoff, BatchInv, HistoryType
  <2>4. StopInv'
    BY <1>0, <1>7 DEF Backoff, ring, StopInv
  <2>5. Ledger'
    BY <1>0, <1>7, <1>a, UnrecordedFinite
    DEF Backoff, ring, metrics, Ledger, Settling, BatchInv, RingType, CounterType, HistoryType
  <2> QED  BY <2>1, <2>2, <2>3, <2>4, <2>5 DEF IInv, TypeOK
<1>8. CASE completeBatch
  <2>1. RingType' /\ CounterType' /\ HistoryType'
    BY <1>0, <1>8 DEF completeBatch, ring, metrics, RingType, CounterType, HistoryType, BatchInv
  <2>2. ControlType'
    BY <1>0, <1>8 DEF completeBatch, ControlType
  <2>3. BatchInv'
    BY <1>0, <1>8 DEF completeBatch, BatchInv, HistoryType
  <2>4. StopInv'
    BY <1>0, <1>8 DEF completeBatch, ring, StopInv
  <2>a. Settling' = 0 /\ Settling = inFlight /\ inFlight' = 0
    BY <1>0, <1>8 DEF completeBatch, Settling, BatchInv, HistoryType, CounterType
  <2>b. Unrecorded' = Unrecorded /\ UNCHANGED <<ring, metrics, lost>>
    BY <1>8, <1>a DEF completeBatch
  <2>5. Ledger'
    BY <1>0, <2>a, <2>b, UnrecordedFinite DEF ring, metrics, Ledger, RingType, CounterType
  <2> QED  BY <2>1, <2>2, <2>3, <2>4, <2>5 DEF IInv, TypeOK
<1>9. CASE dropRemaining
  <2>a. head' \in Slots
    BY <1>0, <1>9, SlotAtInSlots DEF dropRemaining, RingType
  <2>b. RingType'
    BY <1>0, <1>9, <2>a DEF dropRemaining, RingType, Nil
  <2>1. RingType' /\ CounterType' /\ HistoryType'
    BY <1>0, <1>9, <2>b DEF dropRemaining, metrics, RingType, CounterType, HistoryType
  <2>2. ControlType'
    BY <1>0, <1>9 DEF dropRemaining, ControlType
  <2>3. BatchInv'
    BY <1>0, <1>9 DEF dropRemaining, BatchInv, HistoryType
  <2>4. StopInv'
    BY <1>0, <1>9 DEF dropRemaining, ring, StopInv
  <2>5. Ledger'
    BY <1>0, <1>9, <1>a, UnrecordedFinite
    DEF dropRemaining, ring, metrics, Ledger, Settling, BatchInv, RingType, CounterType, HistoryType
  <2> QED  BY <2>1, <2>2, <2>3, <2>4, <2>5 DEF IInv, TypeOK
<1>10. CASE RecordRemaining
  <2>1. RingType' /\ CounterType' /\ HistoryType'
    BY <1>0, <1>10 DEF RecordRemaining, ring, metrics, RingType, CounterType, HistoryType
  <2>2. ControlType'
    BY <1>0, <1>10 DEF RecordRemaining, ControlType
  <2>3. BatchInv'
    BY <1>0, <1>10 DEF RecordRemaining, BatchInv, HistoryType
  <2>4. StopInv'
    BY <1>0, <1>10 DEF RecordRemaining, ring, StopInv
  <2>5. Ledger'
    BY <1>0, <1>10, <1>a, UnrecordedFinite
    DEF RecordRemaining, ring, metrics, Ledger, Settling, BatchInv, RingType, CounterType, HistoryType
  <2> QED  BY <2>1, <2>2, <2>3, <2>4, <2>5 DEF IInv, TypeOK
<1> QED  BY <1>1, <1>2, <1>3, <1>4, <1>5, <1>6, <1>7, <1>8, <1>9, <1>10 DEF WorkerStep

(* The shutdown goroutine's steps preserve the invariant.                  *)
LEMMA ShutdownIInv ==
    ASSUME IInv, ShutdownStep
    PROVE  IInv'
<1> USE ConfigAssumption
<1>0. RingType /\ CounterType /\ ControlType /\ HistoryType /\ BatchInv /\ StopInv /\ Ledger
  BY DEF IInv, TypeOK
<1> USE DEF ShutdownStep, StopAccepting, NotifyStopped, DrainedInTime, DeadlinePassed,
            NotifyCanceled, WorkerGone, CloseClient, notify
<1>1. UNCHANGED <<ring, metrics, worker, inFlight, ppc, delivered>>
  OBVIOUS
<1>2. RingType' /\ CounterType' /\ HistoryType'
  BY <1>0, <1>1 DEF ring, metrics, worker, RingType, CounterType, HistoryType
<1>3. ControlType'
  BY <1>0, <1>1 DEF worker, ControlType
<1>4. BatchInv'
  BY <1>0, <1>1 DEF worker, BatchInv
<1>5. StopInv'
  BY <1>0, <1>1 DEF ring, worker, StopInv
<1>6. Ledger'
  <2>1. Unrecorded' = Unrecorded
    BY <1>1 DEF Unrecorded
  <2> QED  BY <1>0, <1>1, <2>1 DEF ring, metrics, worker, Ledger, Settling
<1> QED  BY <1>2, <1>3, <1>4, <1>5, <1>6 DEF IInv, TypeOK

(* Every step preserves the invariant.                                     *)
LEMMA NextIInv == IInv /\ [Next]_vars => IInv'
<1> SUFFICES ASSUME IInv, [Next]_vars PROVE IInv'
  OBVIOUS
<1>1. CASE \E p \in Producers : Enqueue(p) \/ ProducerStep(p)
  BY <1>1, ProducerIInv
<1>2. CASE WorkerStep
  BY <1>2, WorkerIInv
<1>3. CASE ShutdownStep
  BY <1>3, ShutdownIInv
<1>4. CASE UNCHANGED vars
  <2>1. TypeOK'
    BY <1>4 DEF IInv, vars, TypeOK, RingType, CounterType, ControlType, HistoryType
  <2>2. BatchInv' /\ StopInv'
    BY <1>4 DEF IInv, vars, BatchInv, StopInv
  <2>3. Ledger'
    BY <1>4 DEF IInv, vars, Ledger, Settling, Unrecorded
  <2> QED  BY <2>1, <2>2, <2>3 DEF IInv
<1> QED  BY <1>1, <1>2, <1>3, <1>4 DEF Next

-----------------------------------------------------------------------------
(* In every behaviour of the status queue, whatever its sizes, each        *)
(* variable keeps its type and head and size stay inside the ring.         *)
THEOREM TypeCorrect == Spec => []TypeOK
<1>1. IInv => TypeOK
  BY DEF IInv
<1> QED  BY <1>1, InitIInv, NextIInv, PTL DEF Spec

(* The delivery counters account for every accepted point at every instant *)
(* of every behaviour, overflow, retries and shutdown included.            *)
THEOREM LedgerBalances == Spec => []Ledger
<1>1. IInv => Ledger
  BY DEF IInv
<1> QED  BY <1>1, InitIInv, NextIInv, PTL DEF Spec

(* When the worker of run returns, it leaves no accepted point behind and  *)
(* none can arrive later.                                                  *)
THEOREM WorkerStrandsNothing == Spec => []NothingStranded
<1>1. IInv => NothingStranded
  BY DEF IInv, BatchInv, StopInv, NothingStranded
<1> QED  BY <1>1, InitIInv, NextIInv, PTL DEF Spec

(* The InfluxDB client is closed only after the last call of the writer.   *)
THEOREM ClientClosedLast == Spec => []ClientOutlivesWriter
<1>1. IInv => ClientOutlivesWriter
  BY DEF IInv, StopInv, ClientOutlivesWriter
<1> QED  BY <1>1, InitIInv, NextIInv, PTL DEF Spec

-----------------------------------------------------------------------------
(* The ring is a queue: what a push and a take do to the waiting points.   *)

(* The slot i places after slot h, without the remainder.                  *)
Place(h, i) == (h + i) % QueueSize

LEMMA PlaceIs ==
    ASSUME NEW h \in Slots, NEW i \in 0..QueueSize
    PROVE  Place(h, i) = IF h + i < QueueSize THEN h + i ELSE h + i - QueueSize
<1>1. h \in Nat /\ i \in Nat /\ QueueSize \in Nat \ {0} /\ h < QueueSize /\ i <= QueueSize
  BY ConfigAssumption DEF Slots
<1>2. ASSUME NEW k \in Nat, k < QueueSize
      PROVE  k % QueueSize = k
  BY <1>1, <1>2
<1>3. ASSUME NEW k \in Nat, k >= QueueSize, k < QueueSize + QueueSize
      PROVE  k % QueueSize = k - QueueSize
  BY <1>1, <1>3
<1>4. CASE h + i < QueueSize
  BY <1>1, <1>2, <1>4 DEF Place
<1>5. CASE h + i >= QueueSize
  BY <1>1, <1>3, <1>5 DEF Place
<1> QED  BY <1>1, <1>4, <1>5

LEMMA PlaceInSlots ==
    ASSUME NEW h \in Slots, NEW i \in Nat
    PROVE  Place(h, i) \in Slots
BY ConfigAssumption DEF Place, Slots

LEMMA SlotAtIs ==
    ASSUME RingType, NEW i \in 0..QueueSize
    PROVE  SlotAt(i) = IF head + i < QueueSize THEN head + i ELSE head + i - QueueSize
BY PlaceIs DEF RingType, SlotAt, Place

(* Different places of the ring are different slots.                       *)
LEMMA SlotsDiffer ==
    ASSUME RingType, NEW i \in 0..(QueueSize - 1), NEW j \in 0..(QueueSize - 1), SlotAt(i) = SlotAt(j)
    PROVE  i = j
<1>1. i \in 0..QueueSize /\ j \in 0..QueueSize /\ head \in Nat /\ QueueSize \in Nat /\ head < QueueSize
  BY ConfigAssumption DEF RingType, Slots
<1> QED  BY <1>1, SlotAtIs

(* Waiting[i] is the point i - 1 places after the head.                    *)
LEMMA WaitingAt ==
    ASSUME RingType
    PROVE  \A i \in 1..size : Waiting[i] = queue[SlotAt(i - 1)]
BY DEF Waiting

(* take(max) leaves the points after the first MinOf(max, size) in order.  *)
LEMMA TakeLeavesRest ==
    ASSUME RingType, CounterType, HistoryType, NEW max \in Nat, take(max)
    PROVE  Waiting' = SubSeq(Waiting, MinOf(max, size) + 1, size)
<1>1. PICK c : c = MinOf(max, size) /\ c \in 0..size
  BY TakeMoves
<1>2. /\ head' = SlotAt(c) /\ size' = size - c
      /\ queue' = [s \in Slots |-> IF \E i \in 0..(c - 1) : s = SlotAt(i) THEN Nil ELSE queue[s]]
  BY <1>1 DEF take
<1>3. RingType'
  BY TakeMoves
<1>4. /\ head \in Nat /\ size \in Nat /\ QueueSize \in Nat \ {0} /\ head < QueueSize /\ size <= QueueSize
      /\ head' \in Nat /\ size' \in Nat /\ head' < QueueSize /\ c \in Nat /\ c <= size
  BY <1>1, <1>3, ConfigAssumption DEF RingType, Slots
<1>5. ASSUME NEW i \in 1..size'
      PROVE  Waiting'[i] = Waiting[c + i]
  <2>1. i - 1 \in 0..QueueSize /\ c \in 0..QueueSize /\ c + i - 1 \in 0..(QueueSize - 1) /\ c + i \in 1..size
    BY <1>2, <1>4
  <2>2. Place(head', i - 1) = IF head' + (i - 1) < QueueSize THEN head' + (i - 1) ELSE head' + (i - 1) - QueueSize
    BY <1>3, <2>1, PlaceIs DEF RingType
  <2>3. head' = IF head + c < QueueSize THEN head + c ELSE head + c - QueueSize
    BY <1>2, <2>1, SlotAtIs
  <2>4. SlotAt(c + i - 1) = IF head + (c + i - 1) < QueueSize THEN head + (c + i - 1) ELSE head + (c + i - 1) - QueueSize
    BY <2>1, <1>4, SlotAtIs
  <2>5. Place(head', i - 1) = SlotAt(c + i - 1)
    BY <1>4, <2>1, <2>2, <2>3, <2>4
  <2>6. SlotAt(c + i - 1) \in Slots
    BY <1>4, <2>1, SlotAtInSlots
  <2>7. ~\E j \in 0..(c - 1) : SlotAt(c + i - 1) = SlotAt(j)
    <3> SUFFICES ASSUME NEW j \in 0..(c - 1), SlotAt(c + i - 1) = SlotAt(j)
                 PROVE  FALSE
      OBVIOUS
    <3>1. j \in 0..(QueueSize - 1) /\ j # c + i - 1
      BY <1>4, <2>1
    <3> QED  BY <2>1, <3>1, SlotsDiffer
  <2>8. queue'[SlotAt(c + i - 1)] = queue[SlotAt(c + i - 1)]
    BY <1>2, <2>6, <2>7
  <2>9. Waiting'[i] = queue'[Place(head', i - 1)]
    BY DEF Waiting, SlotAt, Place
  <2>10. Waiting[c + i] = queue[SlotAt(c + i - 1)]
    BY <2>1, WaitingAt
  <2> QED  BY <2>5, <2>8, <2>9, <2>10
<1>6. Waiting \in Seq(Nat) /\ Len(Waiting) = size /\ Waiting' \in Seq(Nat) /\ Len(Waiting') = size'
  <2>1. Waiting \in Seq(Nat) /\ Len(Waiting) = size
    BY WaitingIsSeq
  <2>2. (Waiting \in Seq(Nat) /\ Len(Waiting) = size)'
    <3>1. \A i \in 1..size' : Waiting'[i] \in Nat
      BY <1>2, <1>4, <1>5, <2>1
    <3>2. Waiting' \in [1..size' -> Nat]
      BY <3>1 DEF Waiting
    <3> QED  BY <1>4, <3>2 DEF Waiting
  <2> QED  BY <2>1, <2>2
<1>7. PICK rest : rest = SubSeq(Waiting, c + 1, size)
  OBVIOUS
<1>8. /\ rest \in Seq(Nat) /\ Len(rest) = size' /\ \A i \in 1..size' : rest[i] = Waiting[c + i]
  BY <1>2, <1>4, <1>6, <1>7, SMTT(30)
<1>9. Waiting' = rest
  BY <1>5, <1>6, <1>8, SeqEqual
<1> QED  BY <1>1, <1>7, <1>9

(* pushLocked appends the point, after a full ring has lost its first.     *)
LEMMA PushAppends ==
    ASSUME RingType, NEW point \in Nat, pushLocked(point)
    PROVE  Waiting' = Append(IF Len(Waiting) = QueueSize THEN Tail(Waiting) ELSE Waiting, point)
<1>1. RingType' /\ size' = (IF size = QueueSize THEN size ELSE size + 1)
  BY PushGrows
<1>2. /\ head \in Nat /\ size \in Nat /\ QueueSize \in Nat \ {0} /\ head < QueueSize /\ size <= QueueSize
      /\ head' \in Nat /\ size' \in Nat /\ head' < QueueSize /\ size' <= QueueSize
  BY <1>1, ConfigAssumption DEF RingType, Slots
<1>3. Waiting \in Seq(Nat) /\ Len(Waiting) = size
  BY WaitingIsSeq
<1>4. \A i \in 1..size' : Waiting'[i] = queue'[Place(head', i - 1)]
  BY DEF Waiting, SlotAt, Place
<1>5. \A i \in 0..QueueSize : Place(head', i) = IF head' + i < QueueSize THEN head' + i ELSE head' + i - QueueSize
  BY <1>1, PlaceIs DEF RingType
<1>6. Waiting' \in Seq(Nat) /\ Len(Waiting') = size'
  <2>1. \A i \in 1..size' : Place(head', i - 1) \in Slots
    BY <1>1, <1>2, PlaceInSlots DEF RingType
  <2>2. \A i \in 1..size' : queue'[Place(head', i - 1)] \in Nat
    BY <1>1, <2>1 DEF RingType
  <2>3. Waiting' \in [1..size' -> Nat]
    BY <2>2 DEF Waiting, SlotAt, Place
  <2> QED  BY <1>2, <2>3 DEF Waiting
<1>7. CASE size = QueueSize
  <2>1. /\ head' = SlotAt(1) /\ size' = size
        /\ queue' = [[queue EXCEPT ![head] = Nil] EXCEPT ![(SlotAt(1) + (size - 1)) % QueueSize] = point]
    BY <1>1, <1>7 DEF pushLocked
  <2>2. SlotAt(1) = IF head + 1 < QueueSize THEN head + 1 ELSE head + 1 - QueueSize
    BY <1>2, SlotAtIs
  <2>3. (SlotAt(1) + (size - 1)) % QueueSize = Place(head', size - 1)
    BY <2>1 DEF Place
  <2>4. Place(head', size - 1) = head
    BY <1>2, <1>5, <1>7, <2>1, <2>2
  <2>5. queue' = [queue EXCEPT ![head] = point]
    BY <2>1, <2>3, <2>4 DEF RingType
  <2>6. ASSUME NEW i \in 1..(size - 1)
        PROVE  Waiting'[i] = Waiting[i + 1]
    <3>1. i - 1 \in 0..QueueSize /\ i \in 0..QueueSize /\ i + 1 \in 1..size /\ i \in 1..size'
      BY <1>2, <2>1
    <3>2. SlotAt(i) = IF head + i < QueueSize THEN head + i ELSE head + i - QueueSize
      BY <3>1, SlotAtIs
    <3>3. Place(head', i - 1) = SlotAt(i)
      BY <1>2, <1>5, <2>1, <2>2, <3>1, <3>2
    <3>4. SlotAt(i) # head /\ SlotAt(i) \in Slots
      BY <1>2, <1>7, <3>2 DEF Slots
    <3>5. queue'[SlotAt(i)] = queue[SlotAt(i)]
      BY <2>5, <3>4 DEF RingType
    <3>6. Waiting[i + 1] = queue[SlotAt(i + 1 - 1)]
      BY <3>1, WaitingAt
    <3>7. i + 1 - 1 = i
      BY <3>1
    <3> QED  BY <1>4, <3>1, <3>3, <3>5, <3>6, <3>7
  <2>7. Waiting'[size] = point
    <3>1. size \in 1..size'
      BY <1>2, <1>7, <2>1
    <3>2. queue'[head] = point
      BY <2>5 DEF RingType
    <3> QED  BY <1>4, <2>4, <3>1, <3>2
  <2>8. PICK t : t = Append(Tail(Waiting), point)
    OBVIOUS
  <2>9. Waiting # <<>>
    BY <1>2, <1>3, <1>7
  <2>10. Tail(Waiting) \in Seq(Nat) /\ Len(Tail(Waiting)) = size - 1 /\ \A i \in 1..(size - 1) : Tail(Waiting)[i] = Waiting[i + 1]
    BY <1>2, <1>3, <2>9, HeadTailProperties
  <2>11. /\ t \in Seq(Nat) /\ Len(t) = size /\ t[size] = point
         /\ \A i \in 1..(size - 1) : t[i] = Waiting[i + 1]
    BY <1>2, <2>8, <2>10, AppendProperties
  <2>12. \A i \in 1..size : Waiting'[i] = t[i]
    BY <1>2, <2>6, <2>7, <2>11
  <2>13. Waiting' = t
    BY <1>6, <2>1, <2>11, <2>12, SeqEqual
  <2> QED  BY <1>3, <1>7, <2>8, <2>13
<1>8. CASE size # QueueSize
  <2>1. /\ head' = head /\ size' = size + 1 /\ queue' = [queue EXCEPT ![SlotAt(size)] = point]
    BY <1>1, <1>8 DEF pushLocked, SlotAt
  <2>2. \A i \in 0..QueueSize : Place(head', i) = SlotAt(i)
    BY <2>1 DEF SlotAt, Place
  <2>3. ASSUME NEW i \in 1..size
        PROVE  Waiting'[i] = Waiting[i]
    <3>1. i - 1 \in 0..(QueueSize - 1) /\ size \in 0..(QueueSize - 1) /\ i \in 1..size' /\ i - 1 # size /\ i - 1 \in 0..QueueSize /\ i - 1 \in Nat
      BY <1>2, <1>8, <2>1
    <3>2. SlotAt(i - 1) # SlotAt(size) /\ SlotAt(i - 1) \in Slots
      BY <3>1, SlotsDiffer, SlotAtInSlots
    <3>3. queue'[SlotAt(i - 1)] = queue[SlotAt(i - 1)]
      BY <2>1, <3>2 DEF RingType
    <3> QED  BY <1>4, <2>2, <3>1, <3>3, WaitingAt
  <2>4. Waiting'[size + 1] = point
    <3>1. size + 1 \in 1..size' /\ size + 1 - 1 = size /\ size \in 0..QueueSize
      BY <1>2, <2>1
    <3>2. queue'[SlotAt(size)] = point
      BY <1>2, <2>1, SlotAtInSlots DEF RingType
    <3>3. Waiting'[size + 1] = queue'[Place(head', size + 1 - 1)]
      BY <1>4, <3>1
    <3> QED  BY <2>2, <3>1, <3>2, <3>3
  <2>5. PICK t : t = Append(Waiting, point)
    OBVIOUS
  <2>6. /\ t \in Seq(Nat) /\ Len(t) = size + 1 /\ t[size + 1] = point
        /\ \A i \in 1..size : t[i] = Waiting[i]
    BY <1>2, <1>3, <2>5, AppendProperties
  <2>7. \A i \in 1..(size + 1) : Waiting'[i] = t[i]
    BY <1>2, <2>3, <2>4, <2>6
  <2>8. Waiting' = t
    BY <1>6, <2>1, <2>6, <2>7, SeqEqual
  <2> QED  BY <1>3, <1>8, <2>5, <2>8
<1> QED  BY <1>7, <1>8

-----------------------------------------------------------------------------
(* The processor implements the abstract feed.                             *)

(* Whatever is being filled or written is not empty: every acknowledgement *)
(* and every failure is one of some point.                                 *)
FlightInv == wpc \in {"fill", "fillWait", "write", "backoff"} => batch # <<>>

LEMMA NextFlight ==
    ASSUME IInv, FlightInv, [Next]_vars
    PROVE  FlightInv'
<1> USE ConfigAssumption
<1>0. RingType /\ CounterType /\ ControlType /\ HistoryType /\ BatchInv
  BY DEF IInv, TypeOK
<1>1. CASE TakeBatch
  <2>1. take(BatchSize) /\ wpc = "take" /\ batch = <<>>
    BY <1>0, <1>1 DEF TakeBatch, BatchInv
  <2>2. batch' \in Seq(Nat) /\ Len(batch') = Len(batch) + MinOf(BatchSize, size)
    BY <1>0, <2>1, TakeMoves
  <2>3. CASE size = 0
    BY <1>1, <2>3 DEF TakeBatch, FlightInv
  <2>4. CASE size # 0
    <3>1. MinOf(BatchSize, size) > 0 /\ MinOf(BatchSize, size) \in Nat
      BY <1>0, <2>4 DEF MinOf, RingType
    <3>2. Len(batch') # 0
      BY <2>1, <2>2, <3>1
    <3> QED  BY <2>2, <3>2 DEF FlightInv
  <2> QED  BY <2>3, <2>4
<1>2. CASE FillBatch
  <2>1. BatchSize - Len(batch) \in Nat /\ take(BatchSize - Len(batch)) /\ batch # <<>>
    BY <1>0, <1>2 DEF FillBatch, BatchInv, HistoryType, FlightInv
  <2>2. batch' \in Seq(Nat) /\ Len(batch') = Len(batch) + MinOf(BatchSize - Len(batch), size)
        /\ MinOf(BatchSize - Len(batch), size) \in 0..size
    BY <1>0, <2>1, TakeMoves
  <2>3. Len(batch) \in Nat \ {0}
    BY <1>0, <2>1, EmptySeq DEF HistoryType
  <2>4. Len(batch') # 0
    BY <1>0, <2>2, <2>3 DEF RingType
  <2> QED  BY <2>2, <2>4 DEF FlightInv
<1>3. CASE FillWait \/ WriteErr \/ Backoff
  BY <1>3 DEF FillWait, WriteErr, Backoff, FlightInv
<1>4. CASE WaitForWork \/ WriteOk \/ completeBatch \/ dropRemaining \/ RecordRemaining
  BY <1>4 DEF WaitForWork, WriteOk, completeBatch, dropRemaining, RecordRemaining, FlightInv
<1>5. CASE ShutdownStep
  BY <1>5 DEF ShutdownStep, StopAccepting, NotifyStopped, DrainedInTime, DeadlinePassed,
              NotifyCanceled, WorkerGone, CloseClient, worker, FlightInv
<1>6. CASE \E p \in Producers : Enqueue(p) \/ ProducerStep(p)
  BY <1>6 DEF Enqueue, ProducerStep, RecordOverflow, NotifyEnqueued, worker, FlightInv
<1>7. CASE UNCHANGED vars
  BY <1>7 DEF vars, FlightInv
<1> QED  BY <1>1, <1>2, <1>3, <1>4, <1>5, <1>6, <1>7 DEF Next, WorkerStep

(* A step that leaves the ring alone leaves the waiting points alone.      *)
LEMMA RingUnchanged ==
    ASSUME UNCHANGED ring
    PROVE  Waiting' = Waiting
BY DEF ring, Waiting, SlotAt

LEMMA InitFeed == Init => Feed!Init
<1> SUFFICES ASSUME Init
             PROVE  Feed!Init
  OBVIOUS
<1>1. IInv
  BY InitIInv
<1>2. Waiting \in Seq(Nat) /\ Len(Waiting) = 0
  BY <1>1, WaitingIsSeq DEF IInv, TypeOK, Init
<1>3. Waiting = <<>>
  BY <1>2
<1> QED  BY <1>3 DEF Init, Feed!Init

LEMMA EnqueueAccepts ==
    ASSUME IInv, NEW p \in Producers, Enqueue(p)
    PROVE  Feed!Accept
<1>1. RingType /\ enqueued + 1 \in Nat /\ pushLocked(enqueued + 1)
  BY DEF IInv, TypeOK, CounterType, Enqueue
<1>2. Waiting' = Append(IF Len(Waiting) = QueueSize THEN Tail(Waiting) ELSE Waiting, enqueued + 1)
  BY <1>1, PushAppends
<1>3. /\ accepting /\ enqueued' = enqueued + 1
      /\ UNCHANGED <<accepting, wpc, batch, delivered>>
  BY DEF Enqueue
<1> QED  BY <1>2, <1>3 DEF Feed!Accept

(* take moves a first part of the waiting points behind the claimed ones.  *)
LEMMA TakeClaims ==
    ASSUME IInv, NEW max \in Nat \ {0}, take(max), Len(batch) + max <= BatchSize,
           wpc # "complete", wpc' # "complete", UNCHANGED <<accepting, enqueued, delivered>>
    PROVE  Feed!Claim \/ UNCHANGED Feed!feed
<1>1. RingType /\ CounterType /\ HistoryType
  BY DEF IInv, TypeOK
<1>2. PICK c : c = MinOf(max, size) /\ c \in 0..size /\ c <= max
  BY <1>1, TakeMoves DEF MinOf, RingType
<1>3. Waiting \in Seq(Nat) /\ Len(Waiting) = size
  BY <1>1, WaitingIsSeq
<1>4. Waiting' = SubSeq(Waiting, c + 1, Len(Waiting)) /\ batch' = batch \o SubSeq(Waiting, 1, c)
  BY <1>1, <1>2, <1>3, TakeLeavesRest DEF take
<1>5. size \in Nat /\ BatchSize \in Nat /\ Len(batch) \in Nat
  BY <1>1, ConfigAssumption DEF RingType, HistoryType
<1>6. CASE size = 0
  <2>1. c = 0 /\ Waiting = <<>>
    BY <1>2, <1>3, <1>6
  <2>2. Waiting' = <<>>
    BY <1>4, <2>1
  <2>3. batch' = batch
    BY <1>1, <1>4, <2>1 DEF HistoryType
  <2> QED  BY <2>1, <2>2, <2>3 DEF Feed!feed
<1>7. CASE size # 0
  <2>1. c \in 1..Len(Waiting) /\ Len(batch) + c <= BatchSize
    BY <1>2, <1>3, <1>5, <1>7 DEF MinOf
  <2> QED  BY <1>4, <2>1 DEF Feed!Claim
<1> QED  BY <1>6, <1>7

(* Every step of the processor is a step of the feed or leaves it alone.   *)
LEMMA NextFeed ==
    ASSUME IInv, FlightInv, [Next]_vars
    PROVE  [Feed!Next]_(Feed!feed)
<1> USE ConfigAssumption
<1>0. RingType /\ CounterType /\ ControlType /\ HistoryType /\ BatchInv /\ StopInv
  BY DEF IInv, TypeOK
<1>1. CASE \E p \in Producers : Enqueue(p)
  BY <1>1, EnqueueAccepts DEF Feed!Next
<1>2. CASE \E p \in Producers : ProducerStep(p)
  <2>1. UNCHANGED ring /\ UNCHANGED <<accepting, enqueued, wpc, batch, delivered>>
    BY <1>2 DEF ProducerStep, RecordOverflow, NotifyEnqueued, worker, metrics
  <2> QED  BY <2>1, RingUnchanged DEF Feed!feed
<1>3. CASE TakeBatch
  <2>1. take(BatchSize) /\ batch = <<>> /\ BatchSize \in Nat \ {0} /\ Len(batch) + BatchSize <= BatchSize
    BY <1>0, <1>3 DEF TakeBatch, BatchInv
  <2>2. wpc # "complete" /\ wpc' # "complete" /\ UNCHANGED <<accepting, enqueued, delivered>>
    BY <1>3 DEF TakeBatch, metrics
  <2> QED  BY <2>1, <2>2, TakeClaims DEF Feed!Next
<1>4. CASE FillBatch
  <2>1. take(BatchSize - Len(batch)) /\ BatchSize - Len(batch) \in Nat \ {0}
        /\ Len(batch) + (BatchSize - Len(batch)) <= BatchSize
    BY <1>0, <1>4 DEF FillBatch, BatchInv, HistoryType
  <2>2. wpc # "complete" /\ wpc' # "complete" /\ UNCHANGED <<accepting, enqueued, delivered>>
    BY <1>4 DEF FillBatch, metrics
  <2> QED  BY <2>1, <2>2, TakeClaims DEF Feed!Next
<1>5. CASE WaitForWork \/ FillWait \/ Backoff
  <2>1. UNCHANGED ring /\ UNCHANGED <<accepting, enqueued, batch, delivered>>
        /\ wpc # "complete" /\ wpc' # "complete"
    BY <1>5 DEF WaitForWork, FillWait, Backoff, metrics
  <2> QED  BY <2>1, RingUnchanged DEF Feed!feed
<1>6. CASE WriteOk
  <2>1. /\ UNCHANGED ring /\ UNCHANGED <<accepting, enqueued>> /\ delivered' = delivered \o batch
        /\ wpc = "write" /\ wpc' = "complete" /\ batch # <<>>
    BY <1>6 DEF WriteOk, FlightInv
  <2> QED  BY <2>1, RingUnchanged DEF Feed!Next, Feed!Deliver
<1>7. CASE WriteErr
  <2>1. /\ UNCHANGED ring /\ UNCHANGED <<accepting, enqueued, batch, delivered>>
        /\ wpc = "write" /\ batch # <<>>
    BY <1>7 DEF WriteErr, FlightInv
  <2>2. CASE wpc' = "complete"
    BY <2>1, <2>2, RingUnchanged DEF Feed!Next, Feed!GiveUp
  <2>3. CASE wpc' # "complete"
    BY <2>1, <2>3, RingUnchanged DEF Feed!feed
  <2> QED  BY <2>2, <2>3
<1>8. CASE completeBatch
  <2>1. /\ UNCHANGED ring /\ UNCHANGED <<accepting, enqueued, delivered>>
        /\ wpc = "complete" /\ wpc' = "take" /\ batch' = <<>>
    BY <1>8 DEF completeBatch, metrics
  <2> QED  BY <2>1, RingUnchanged DEF Feed!feed
<1>9. CASE dropRemaining
  <2>1. /\ ~accepting /\ UNCHANGED <<accepting, enqueued, delivered>>
        /\ wpc' = "recordDrop" /\ batch' = <<>> /\ size' = 0
    BY <1>0, <1>9 DEF dropRemaining, metrics, StopInv
  <2>2. Waiting' = <<>>
    <3>1. Waiting' = [i \in 1..0 |-> queue'[SlotAt(i - 1)']]
      BY <2>1 DEF Waiting
    <3>2. Waiting' \in Seq(Nat) /\ Len(Waiting') = 0
      BY <3>1
    <3> QED  BY <3>2
  <2> QED  BY <2>1, <2>2 DEF Feed!Next, Feed!CutOff
<1>10. CASE RecordRemaining
  <2>1. /\ UNCHANGED ring /\ UNCHANGED <<accepting, enqueued, batch, delivered>>
        /\ wpc # "complete" /\ wpc' # "complete"
    BY <1>10 DEF RecordRemaining
  <2> QED  BY <2>1, RingUnchanged DEF Feed!feed
<1>11. CASE StopAccepting
  <2>1. UNCHANGED ring /\ UNCHANGED <<enqueued, wpc, batch, delivered>> /\ accepting' = FALSE
    BY <1>11 DEF StopAccepting, worker, metrics
  <2>2. CASE accepting
    BY <2>1, <2>2, RingUnchanged DEF Feed!Next, Feed!Close
  <2>3. CASE ~accepting
    <3>1. accepting' = accepting
      BY <1>0, <2>1, <2>3 DEF ControlType
    <3> QED  BY <2>1, <3>1, RingUnchanged DEF Feed!feed
  <2> QED  BY <2>2, <2>3
<1>12. CASE NotifyStopped \/ DrainedInTime \/ DeadlinePassed \/ NotifyCanceled \/ WorkerGone \/ CloseClient
  <2>1. UNCHANGED ring /\ UNCHANGED <<accepting, enqueued, wpc, batch, delivered>>
    BY <1>12 DEF NotifyStopped, DrainedInTime, DeadlinePassed, NotifyCanceled, WorkerGone, CloseClient,
                 worker, metrics
  <2> QED  BY <2>1, RingUnchanged DEF Feed!feed
<1>13. CASE UNCHANGED vars
  <2>1. UNCHANGED ring /\ UNCHANGED <<accepting, enqueued, wpc, batch, delivered>>
    BY <1>13 DEF vars, ring
  <2> QED  BY <2>1, RingUnchanged DEF Feed!feed
<1> QED  BY <1>1, <1>2, <1>3, <1>4, <1>5, <1>6, <1>7, <1>8, <1>9, <1>10, <1>11, <1>12, <1>13
         DEF Next, WorkerStep, ShutdownStep

(* The processor implements the feed: whatever the sizes, however          *)
(* producers, worker and shutdown interleave, points are accepted without  *)
(* blocking, the oldest waiting one gives way to an overflow, and what is  *)
(* delivered is delivered in the order of acceptance and once.             *)
THEOREM QueueImplementsFeed == Spec => ImplementsFeed
<1>1. Init => FlightInv
  BY DEF Init, FlightInv
<1>2. IInv /\ FlightInv /\ [Next]_vars => FlightInv'
  BY NextFlight
<1>3. IInv /\ FlightInv /\ [Next]_vars => [Feed!Next]_(Feed!feed)
  BY NextFeed
<1> QED  BY <1>1, <1>2, <1>3, InitIInv, NextIInv, InitFeed, PTL DEF Spec, ImplementsFeed, Feed!Spec
=============================================================================
