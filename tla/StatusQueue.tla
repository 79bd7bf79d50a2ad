---------------------------- MODULE StatusQueue ----------------------------
(***************************************************************************)
(* The server-status delivery queue (internal/influx/status_writer.go):    *)
(* agents and SSH workers enqueue samples into a ring buffer that drops    *)
(* its oldest entry on overflow; one worker takes batches, waits for a     *)
(* batch to fill, writes it with retries and accounts for it; the hub's    *)
(* shutdown stops acceptance, waits for the drain and, past its deadline,  *)
(* cancels the worker before it closes the InfluxDB client.                *)
(*                                                                         *)
(* A step of this module is what one goroutine does between two accesses   *)
(* to shared state: a critical section of p.mu, one atomic counter, one    *)
(* channel operation or the call of the batch writer.                      *)
(***************************************************************************)
EXTENDS Integers, Sequences, FiniteSets

CONSTANTS Producers,      \* goroutines that call enqueue
          QueueSize,      \* len(p.queue)
          BatchSize,      \* p.batchSize
          WriteAttempts,  \* p.writeAttempts
          MaxPoints       \* bound: points accepted in one behaviour

(* newServerStatusProcessor panics unless its sizes are positive.          *)
ASSUME ConfigAssumption ==
    /\ IsFiniteSet(Producers)
    /\ QueueSize \in Nat \ {0}
    /\ BatchSize \in Nat \ {0}
    /\ WriteAttempts \in Nat \ {0}
    /\ MaxPoints \in Nat

VARIABLES queue,      \* the slots of the ring: slot -> point, or Nil
          head,       \* p.head
          size,       \* p.size
          inFlight,   \* p.inFlight
          accepting,  \* p.accepting
          wake,       \* TRUE iff the one-slot channel p.wake holds a token
          canceled,   \* p.ctx is canceled
          enqueued,   \* p.metrics: points accepted,
          written,    \*   acknowledged by InfluxDB,
          failed,     \*   given up after every write attempt,
          dropped,    \*   evicted by overflow or shutdown
          ppc,        \* what each producer does next inside enqueue
          wpc,        \* what the worker does next; "done" is close(p.done)
          batch,      \* the worker's batch
          attempt,    \* writeBatch's attempt
          lost,       \* dropRemaining's count, read under mu, recorded after
          spc,        \* what the goroutine in shutdown does next
          clientOpen, \* shutdownInflux has not yet closed influx.Client
          delivered   \* history: every point the writer acknowledged

ring    == <<queue, head, size>>
metrics == <<enqueued, written, failed, dropped>>
worker  == <<wpc, batch, attempt, lost>>
vars    == <<queue, head, size, inFlight, accepting, wake, canceled, enqueued,
             written, failed, dropped, ppc, wpc, batch, attempt, lost, spc,
             clientOpen, delivered>>

Nil   == 0
Slots == 0..(QueueSize - 1)

(* p.queue[(p.head+i) % len(p.queue)]: the slot i places after the head.   *)
SlotAt(i) == (head + i) % QueueSize

(* The points waiting in the ring, oldest first.                           *)
Waiting == [i \in 1..size |-> queue[SlotAt(i - 1)]]

MinOf(a, b) == IF a <= b THEN a ELSE b

Init ==
    /\ queue = [s \in Slots |-> Nil]
    /\ head = 0
    /\ size = 0
    /\ inFlight = 0
    /\ accepting = TRUE
    /\ wake = FALSE
    /\ canceled = FALSE
    /\ enqueued = 0
    /\ written = 0
    /\ failed = 0
    /\ dropped = 0
    /\ ppc = [p \in Producers |-> "idle"]
    /\ wpc = "take"
    /\ batch = <<>>
    /\ attempt = 0
    /\ lost = 0
    /\ spc = "idle"
    /\ clientOpen = TRUE
    /\ delivered = <<>>

-----------------------------------------------------------------------------
(* Producers.                                                              *)

(* Variant for mutation: overflow does not make room in the count.         *)
pushLockedNoShrink(point) ==
    /\ queue' = [queue EXCEPT ![SlotAt(size)] = point]
    /\ head' = IF size = QueueSize THEN SlotAt(1) ELSE head
    /\ size' = size + 1

(* Variant for mutation: overflow keeps the oldest point and overwrites    *)
(* the newest.                                                             *)
pushLockedDropNewest(point) ==
    LET count == IF size = QueueSize THEN size - 1 ELSE size
    IN  /\ queue' = [queue EXCEPT ![SlotAt(count)] = point]
        /\ size' = count + 1
        /\ UNCHANGED head

(* pushLocked: a full ring first frees its oldest slot.  The pushed point  *)
(* is named by its acceptance number.                                      *)
pushLocked(point) ==
    LET full  == size = QueueSize
        freed == IF full THEN [queue EXCEPT ![head] = Nil] ELSE queue
        first == IF full THEN SlotAt(1) ELSE head
        count == IF full THEN size - 1 ELSE size
    IN  /\ queue' = [freed EXCEPT ![(first + count) % QueueSize] = point]
        /\ head' = first
        /\ size' = count + 1

(* Variant for mutation: only an overflow wakes the worker.                *)
EnqueueWakesWhenFull(p) ==
    /\ ppc[p] = "idle"
    /\ accepting
    /\ enqueued < MaxPoints
    /\ pushLocked(enqueued + 1)
    /\ enqueued' = enqueued + 1
    /\ ppc' = [ppc EXCEPT ![p] = IF size = QueueSize THEN "drop" ELSE "idle"]
    /\ UNCHANGED <<inFlight, accepting, wake, canceled, written, failed, dropped, worker,
                   spc, clientOpen, delivered>>

(* enqueue, the critical section.  A processor that stopped accepting      *)
(* returns ErrServerStatusWriterStopped and changes nothing.               *)
Enqueue(p) ==
    /\ ppc[p] = "idle"
    /\ accepting
    /\ enqueued < MaxPoints
    /\ pushLocked(enqueued + 1)
    /\ enqueued' = enqueued + 1
    /\ ppc' = [ppc EXCEPT ![p] = IF size = QueueSize THEN "drop" ELSE "notify"]
    /\ UNCHANGED <<inFlight, accepting, wake, canceled, written, failed, dropped, wpc, batch, attempt,
                   lost, spc, clientOpen, delivered>>

(* enqueue records an overflow after it has released p.mu.                 *)
RecordOverflow(p) ==
    /\ ppc[p] = "drop"
    /\ dropped' = dropped + 1
    /\ ppc' = [ppc EXCEPT ![p] = "notify"]
    /\ UNCHANGED <<ring, inFlight, accepting, wake, canceled, enqueued, written,
                   failed, worker, spc,
                   clientOpen, delivered>>

(* notify: a non-blocking send to the one-slot wake channel.               *)
notify == wake' = TRUE

NotifyEnqueued(p) ==
    /\ ppc[p] = "notify"
    /\ notify
    /\ ppc' = [ppc EXCEPT ![p] = "idle"]
    /\ UNCHANGED <<ring, inFlight, accepting, canceled, metrics, worker, spc,
                   clientOpen, delivered>>

-----------------------------------------------------------------------------
(* The delivery worker.                                                    *)

(* take(max): moves up to max points from the ring to the batch, leaving   *)
(* nil in their slots, and counts them as in flight.                       *)
take(max) ==
    LET count == MinOf(max, size)
    IN  /\ batch' = batch \o SubSeq(Waiting, 1, count)
        /\ queue' = [s \in Slots |->
                        IF \E i \in 0..(count - 1) : s = SlotAt(i) THEN Nil ELSE queue[s]]
        /\ head' = SlotAt(count)
        /\ size' = size - count
        /\ inFlight' = inFlight + count

(* Variant for mutation: the worker returns as soon as acceptance stops.   *)
TakeBatchQuitsEarly ==
    /\ wpc = "take"
    /\ take(BatchSize)
    /\ wpc' = IF ~accepting THEN "done" ELSE IF size = 0 THEN "wait" ELSE "write"
    /\ attempt' = 1
    /\ UNCHANGED <<accepting, wake, canceled, metrics, ppc, lost, spc, clientOpen, delivered>>

(* The top of run's loop.                                                  *)
TakeBatch ==
    /\ wpc = "take"
    /\ take(BatchSize)
    /\ wpc' = IF size = 0
              THEN IF accepting THEN "wait" ELSE "done"
              ELSE IF size < BatchSize /\ accepting THEN "fill" ELSE "write"
    /\ attempt' = 1
    /\ UNCHANGED <<accepting, wake, canceled, metrics, ppc, lost, spc,
                   clientOpen, delivered>>

(* run's select on an empty queue.                                         *)
WaitForWork ==
    /\ wpc = "wait"
    /\ \/ /\ wake
          /\ wake' = FALSE
          /\ wpc' = "take"
       \/ /\ canceled
          /\ wpc' = "dropRemaining"
          /\ UNCHANGED wake
    /\ UNCHANGED <<ring, inFlight, accepting, canceled, metrics, ppc, batch,
                   attempt, lost, spc, clientOpen, delivered>>

(* fillBatch, the take at the top of its loop.                             *)
FillBatch ==
    /\ wpc = "fill"
    /\ take(BatchSize - Len(batch))
    /\ wpc' = IF Len(batch) + size >= BatchSize \/ ~accepting THEN "write" ELSE "fillWait"
    /\ UNCHANGED <<accepting, wake, canceled, metrics, ppc, attempt, lost, spc,
                   clientOpen, delivered>>

(* fillBatch, its select: more work, the flush timer or cancellation.      *)
FillWait ==
    /\ wpc = "fillWait"
    /\ \/ /\ wake
          /\ wake' = FALSE
          /\ wpc' = "fill"
       \/ /\ wpc' = "write"
          /\ UNCHANGED wake
       \/ /\ canceled
          /\ wpc' = "dropRemaining"
          /\ UNCHANGED wake
    /\ UNCHANGED <<ring, inFlight, accepting, canceled, metrics, ppc, batch,
                   attempt, lost, spc, clientOpen, delivered>>

(* writeBatch, the writer returns without an error.  It may do so even     *)
(* when the context was canceled while the request was under way.          *)
WriteOk ==
    /\ wpc = "write"
    /\ written' = written + Len(batch)
    /\ delivered' = delivered \o batch
    /\ wpc' = "complete"
    /\ UNCHANGED <<ring, inFlight, accepting, wake, canceled, enqueued, failed,
                   dropped, ppc, batch,
                   attempt, lost, spc, clientOpen>>

(* writeBatch, the writer returns an error: a canceled worker abandons the *)
(* batch, the last attempt fails it, any other attempt is repeated.        *)
WriteErr ==
    /\ wpc = "write"
    /\ \/ /\ canceled
          /\ wpc' = "dropRemaining"
          /\ UNCHANGED <<failed, attempt>>
       \/ /\ ~canceled
          /\ attempt = WriteAttempts
          /\ failed' = failed + Len(batch)
          /\ wpc' = "complete"
          /\ UNCHANGED attempt
       \/ /\ ~canceled
          /\ attempt < WriteAttempts
          /\ attempt' = attempt + 1
          /\ wpc' = "backoff"
          /\ UNCHANGED failed
    /\ UNCHANGED <<ring, inFlight, accepting, wake, canceled, enqueued, written,
                   dropped, ppc, batch, lost, spc, clientOpen, delivered>>

(* writeBatch, the delay before a repeated attempt.                        *)
Backoff ==
    /\ wpc = "backoff"
    /\ \/ wpc' = "write"
       \/ canceled /\ wpc' = "dropRemaining"
    /\ UNCHANGED <<ring, inFlight, accepting, wake, canceled, metrics, ppc,
                   batch, attempt, lost, spc, clientOpen, delivered>>

completeBatch ==
    /\ wpc = "complete"
    /\ inFlight' = inFlight - Len(batch)
    /\ batch' = <<>>
    /\ wpc' = "take"
    /\ UNCHANGED <<ring, accepting, wake, canceled, metrics, ppc, attempt, lost,
                   spc, clientOpen, delivered>>

(* Variant for mutation: the batch in flight is not counted as dropped.    *)
dropRemainingQueued ==
    /\ wpc = "dropRemaining"
    /\ lost' = size
    /\ inFlight' = 0
    /\ queue' = [s \in Slots |-> Nil]
    /\ head' = SlotAt(size)
    /\ size' = 0
    /\ batch' = <<>>
    /\ wpc' = "recordDrop"
    /\ UNCHANGED <<accepting, wake, canceled, metrics, ppc, attempt, spc, clientOpen, delivered>>

(* dropRemaining, the critical section: empty the ring and the flight.     *)
dropRemaining ==
    /\ wpc = "dropRemaining"
    /\ lost' = inFlight + size
    /\ inFlight' = 0
    /\ queue' = [s \in Slots |->
                    IF \E i \in 0..(size - 1) : s = SlotAt(i) THEN Nil ELSE queue[s]]
    /\ head' = SlotAt(size)
    /\ size' = 0
    /\ batch' = <<>>
    /\ wpc' = "recordDrop"
    /\ UNCHANGED <<accepting, wake, canceled, metrics, ppc, attempt, spc,
                   clientOpen, delivered>>

(* recordDrop for the remainder, after which run returns.                  *)
RecordRemaining ==
    /\ wpc = "recordDrop"
    /\ dropped' = dropped + lost
    /\ lost' = 0
    /\ wpc' = "done"
    /\ UNCHANGED <<ring, inFlight, accepting, wake, canceled, enqueued, written,
                   failed, ppc, batch,
                   attempt, spc, clientOpen, delivered>>

-----------------------------------------------------------------------------
(* Shutdown.  abort, which replaces a processor, takes the same steps with *)
(* a deadline that has already passed.                                     *)

StopAccepting ==
    /\ spc = "idle"
    /\ accepting' = FALSE
    /\ spc' = "notify"
    /\ UNCHANGED <<ring, inFlight, wake, canceled, metrics, ppc, worker,
                   clientOpen, delivered>>

(* Variant for mutation: stopAccepting does not wake the worker.           *)
NotifyStoppedSilent ==
    /\ spc = "notify"
    /\ spc' = "drain"
    /\ UNCHANGED <<ring, inFlight, accepting, wake, canceled, metrics, ppc, worker,
                   clientOpen, delivered>>

NotifyStopped ==
    /\ spc = "notify"
    /\ notify
    /\ spc' = "drain"
    /\ UNCHANGED <<ring, inFlight, accepting, canceled, metrics, ppc, worker,
                   clientOpen, delivered>>

(* The worker drained the queue before the deadline.                       *)
DrainedInTime ==
    /\ spc = "drain"
    /\ wpc = "done"
    /\ canceled' = TRUE
    /\ spc' = "returned"
    /\ UNCHANGED <<ring, inFlight, accepting, wake, metrics, ppc, worker,
                   clientOpen, delivered>>

(* Variant for mutation: shutdown cancels the worker and does not wait.    *)
DeadlinePassedNoWait ==
    /\ spc = "drain"
    /\ canceled' = TRUE
    /\ spc' = "returned"
    /\ UNCHANGED <<ring, inFlight, accepting, wake, metrics, ppc, worker, clientOpen, delivered>>

(* The caller's context ends first: cancel the worker ...                  *)
DeadlinePassed ==
    /\ spc = "drain"
    /\ canceled' = TRUE
    /\ spc' = "notifyCanceled"
    /\ UNCHANGED <<ring, inFlight, accepting, wake, metrics, ppc, worker,
                   clientOpen, delivered>>

NotifyCanceled ==
    /\ spc = "notifyCanceled"
    /\ notify
    /\ spc' = "await"
    /\ UNCHANGED <<ring, inFlight, accepting, canceled, metrics, ppc, worker,
                   clientOpen, delivered>>

(* ... and wait for it.                                                    *)
WorkerGone ==
    /\ spc = "await"
    /\ wpc = "done"
    /\ spc' = "returned"
    /\ UNCHANGED <<ring, inFlight, accepting, wake, canceled, metrics, ppc,
                   worker, clientOpen, delivered>>

(* shutdownInflux closes the client once its shutdown calls returned.      *)
CloseClient ==
    /\ spc = "returned"
    /\ clientOpen
    /\ clientOpen' = FALSE
    /\ UNCHANGED <<ring, inFlight, accepting, wake, canceled, metrics, ppc,
                   worker, spc, delivered>>

-----------------------------------------------------------------------------
WorkerStep ==
    \/ TakeBatch \/ WaitForWork \/ FillBatch \/ FillWait \/ WriteOk \/ WriteErr
    \/ Backoff \/ completeBatch \/ dropRemaining \/ RecordRemaining

ProducerStep(p) == RecordOverflow(p) \/ NotifyEnqueued(p)

ShutdownStep ==
    \/ StopAccepting \/ NotifyStopped \/ DrainedInTime \/ DeadlinePassed
    \/ NotifyCanceled \/ WorkerGone \/ CloseClient

Next ==
    \/ \E p \in Producers : Enqueue(p) \/ ProducerStep(p)
    \/ WorkerStep
    \/ ShutdownStep

Spec == Init /\ [][Next]_vars

(* The Go scheduler runs every runnable goroutine; the writer returns,     *)
(* since each call carries p.writeTimeout; timers fire.  Nothing obliges a *)
(* producer to enqueue, the hub to shut down or the deadline to pass.      *)
Fairness ==
    /\ WF_vars(WorkerStep)
    /\ \A p \in Producers : WF_vars(ProducerStep(p))
    /\ WF_vars(NotifyStopped \/ DrainedInTime \/ NotifyCanceled \/ WorkerGone)

FairSpec == Spec /\ Fairness

-----------------------------------------------------------------------------
(* Properties.                                                             *)

RingType ==
    /\ queue \in [Slots -> Nat]
    /\ head \in Slots
    /\ size \in 0..QueueSize

CounterType ==
    /\ inFlight \in Nat
    /\ enqueued \in Nat
    /\ written \in Nat
    /\ failed \in Nat
    /\ dropped \in Nat
    /\ lost \in Nat
    /\ attempt \in 0..WriteAttempts

ControlType ==
    /\ accepting \in BOOLEAN
    /\ wake \in BOOLEAN
    /\ canceled \in BOOLEAN
    /\ clientOpen \in BOOLEAN
    /\ ppc \in [Producers -> {"idle", "drop", "notify"}]
    /\ wpc \in {"take", "wait", "fill", "fillWait", "write", "backoff",
                "complete", "dropRemaining", "recordDrop", "done"}
    /\ spc \in {"idle", "notify", "drain", "notifyCanceled", "await", "returned"}

HistoryType == batch \in Seq(Nat) /\ delivered \in Seq(Nat)

(* Every variable holds a value of its kind: above all, the head and the   *)
(* size of the ring stay inside it through every push, take and drop.      *)
TypeOK == RingType /\ CounterType /\ ControlType /\ HistoryType

(* Overflows that enqueue has not recorded yet.                            *)
Unrecorded == {p \in Producers : ppc[p] = "drop"}

(* Points counted as written or failed that completeBatch has not yet      *)
(* taken out of the flight.                                                *)
Settling == IF wpc = "complete" THEN Len(batch) ELSE 0

(* The counters that ServerStatusQueueStats reports account for every      *)
(* accepted point: it is written, failed, dropped or still pending; the    *)
(* only differences are a drop whose enqueue has not recorded it, the      *)
(* remainder the stopping worker has not recorded, and a batch counted as  *)
(* settled an instant before it leaves the flight.                         *)
Ledger ==
    enqueued + Settling =
        written + failed + dropped + size + inFlight + lost + Cardinality(Unrecorded)

(* Once the worker has returned, no accepted point is left behind in the   *)
(* ring or in the flight, and none can be accepted any more.               *)
NothingStranded ==
    wpc = "done" => size = 0 /\ inFlight = 0 /\ ~accepting

(* "shutdown waits for the active writer before closing the InfluxDB       *)
(* client": the client is open whenever the worker can still call it.      *)
ClientOutlivesWriter == ~clientOpen => wpc = "done"

(* The processor implements the abstract feed: drop-oldest acceptance that *)
(* never blocks, first-in first-out delivery, and no point twice.          *)
Feed == INSTANCE StatusFeed WITH
            open     <- accepting,
            accepted <- enqueued,
            waiting  <- Waiting,
            claimed  <- IF wpc = "complete" THEN <<>> ELSE batch

ImplementsFeed == Feed!Spec

(* No wake-up is lost: a waiting point always leaves the ring, although    *)
(* the wake channel holds one token and the worker reads the ring and      *)
(* waits in two steps.                                                     *)
WaitingPointLeaves == size > 0 ~> size = 0

(* Shutdown returns even if its deadline never passes: the drain itself    *)
(* comes to an end and the stop notification reaches a sleeping worker.    *)
ShutdownReturns == spc # "idle" ~> spc = "returned"
=============================================================================
