------------------------------- MODULE Queue -------------------------------
(***************************************************************************)
(* The event queue of pkg/queue: handler goroutines Enqueue, a pool of     *)
(* worker goroutines batches the channel into a Writer, Stop drains.       *)
(*                                                                         *)
(* One action is one access to state whose interleaving another goroutine  *)
(* can tell: a channel operation, the read lock, a load of len(q.ch), a    *)
(* store of the gauge, an access to inFlight, a call into the writer.      *)
(* Taking a lock is folded into the access after it, releasing it into the *)
(* access before it, and an add to a counter that no goroutine reads into  *)
(* the step it follows.                                                    *)
(*                                                                         *)
(* An event is the number of its acceptance: the n-th event the channel    *)
(* takes is n.  An event the queue refuses is never numbered, only counted.*)
(*                                                                         *)
(* A definition marked FAULT is no part of Next: it is a mistake that the  *)
(* definition after it could have had, kept to show which property notices.*)
(***************************************************************************)
EXTENDS Integers, Sequences, FiniteSets, Functions

CONSTANTS
  Producers,   \* goroutines that call Enqueue (HTTP handlers)
  Workers,     \* drain goroutines, Config.Workers of them
  Stoppers,    \* goroutines that call Stop
  Capacity,    \* Config.Capacity, the depth of the channel
  MaxBatch,    \* Config.MaxBatch
  MaxOffers,   \* bound: how many times Enqueue is called in a behaviour
  NoOne        \* nobody holds, or waits for, the write lock

ASSUME QueueAssumption ==
  /\ IsFiniteSet(Producers) /\ IsFiniteSet(Workers) /\ IsFiniteSet(Stoppers)
  /\ Workers # {}
  /\ Capacity \in Nat \ {0}
  /\ MaxBatch \in Nat \ {0}
  /\ MaxOffers \in Nat
  /\ NoOne \notin Stoppers

VARIABLES
  (* Queue *)
  ch,             \* q.ch, the buffered channel
  closed,         \* q.closed and close(q.ch), which Stop does together under the lock
  readers,        \* producers holding q.mu for reading
  lockWriter,     \* the stopper holding q.mu, or waiting for its readers to leave
  started,        \* Start has run
  writeCancelled, \* writeCancel has been called
  writerClosed,   \* q.writer.Close has been called
  inFlight,       \* q.inFlight
  pcP, lenP,                           \* Enqueue: control point, the length it read
  pcW, batch, more, lenW,              \* work, nextBatch, writeBatch: control point, locals
  pcS, done, timedOut, undrained,      \* Stop: control point, locals
  (* metrics.M *)
  EventsWrittenTotal, EventsDroppedTotal, WriterErrorsTotal,
  WriterBatchesTotal, WriterBatchErrorsTotal, queueDepth,
  (* history: what happened to the events, whatever the counters say *)
  offered,        \* number of Enqueue calls begun
  accepted,       \* number of events the channel has taken
  written,        \* events of the batches for which WriteBatch returned nil
  failed          \* events of the batches for which WriteBatch returned an error

lifeVars     == <<started, writeCancelled, writerClosed>>
producerVars == <<pcP, lenP>>
workerVars   == <<pcW, batch, more, lenW>>
stopperVars  == <<pcS, done, timedOut, undrained>>
resultTotals == <<EventsWrittenTotal, WriterErrorsTotal, WriterBatchErrorsTotal>>
vars == <<ch, closed, readers, lockWriter, lifeVars, inFlight, producerVars, workerVars,
          stopperVars, resultTotals, WriterBatchesTotal, EventsDroppedTotal, queueDepth,
          offered, accepted, written, failed>>

ProducerPc == {"idle", "rlock", "send", "readLen", "setDepth"}
WorkerPc   == {"new", "first", "more", "readLen", "enter", "write", "leave", "exited"}
StopperPc  == {"idle", "critical", "drain", "grace", "readInFlight", "close", "returned",
               "alreadyStopped"}

ToP(p, l) == pcP' = [pcP EXCEPT ![p] = l]
ToW(w, l) == pcW' = [pcW EXCEPT ![w] = l]
ToS(s, l) == pcS' = [pcS EXCEPT ![s] = l]

----------------------------------------------------------------------------
(* New has built the queue and nothing has been called on it.              *)
Init ==
  /\ ch = <<>> /\ closed = FALSE /\ readers = {} /\ lockWriter = NoOne
  /\ started = FALSE /\ writeCancelled = FALSE /\ writerClosed = FALSE /\ inFlight = 0
  /\ pcP = [p \in Producers |-> "idle"] /\ lenP = [p \in Producers |-> 0]
  /\ pcW = [w \in Workers |-> "new"] /\ batch = [w \in Workers |-> <<>>]
  /\ more = [w \in Workers |-> TRUE] /\ lenW = [w \in Workers |-> 0]
  /\ pcS = [s \in Stoppers |-> "idle"] /\ done = [s \in Stoppers |-> FALSE]
  /\ timedOut = [s \in Stoppers |-> FALSE] /\ undrained = [s \in Stoppers |-> 0]
  /\ EventsWrittenTotal = 0 /\ WriterErrorsTotal = 0 /\ WriterBatchesTotal = 0
  /\ WriterBatchErrorsTotal = 0 /\ EventsDroppedTotal = 0 /\ queueDepth = 0
  /\ offered = 0 /\ accepted = 0 /\ written = {} /\ failed = {}

(* Start launches the workers; its caller has let nobody call Stop yet.    *)
Start ==
  /\ ~started
  /\ \A s \in Stoppers : pcS[s] = "idle"
  /\ started' = TRUE
  /\ pcW' = [w \in Workers |-> "first"]
  /\ UNCHANGED <<ch, closed, readers, lockWriter, writeCancelled, writerClosed, inFlight,
                 producerVars, batch, more, lenW, stopperVars, resultTotals, WriterBatchesTotal,
                 EventsDroppedTotal, queueDepth, offered, accepted, written, failed>>

----------------------------------------------------------------------------
(* Enqueue                                                                 *)

beyondEnqueue == <<closed, lockWriter, lifeVars, inFlight, workerVars, stopperVars,
                   resultTotals, WriterBatchesTotal, written, failed>>

EnqueueCall(p) ==
  /\ pcP[p] = "idle" /\ offered < MaxOffers
  /\ offered' = offered + 1
  /\ ToP(p, "rlock")
  /\ UNCHANGED <<beyondEnqueue, ch, accepted, readers, lenP, EventsDroppedTotal, queueDepth>>

(* RLock: sync.RWMutex turns new readers away once a writer has announced
   itself.  Then the check of q.closed. *)
EnqueueOpen(p) ==
  /\ pcP[p] = "rlock" /\ lockWriter = NoOne /\ ~closed
  /\ readers' = readers \cup {p}
  /\ ToP(p, "send")
  /\ UNCHANGED <<beyondEnqueue, ch, accepted, offered, lenP, EventsDroppedTotal, queueDepth>>

(* FAULT: an event refused because of Stop is not counted. *)
EnqueueClosedUncounted(p) ==
  /\ pcP[p] = "rlock" /\ lockWriter = NoOne /\ closed
  /\ ToP(p, "idle")
  /\ UNCHANGED <<beyondEnqueue, EventsDroppedTotal, ch, accepted, offered, readers, lenP,
                 queueDepth>>

EnqueueClosed(p) ==
  /\ pcP[p] = "rlock" /\ lockWriter = NoOne /\ closed
  /\ EventsDroppedTotal' = EventsDroppedTotal + 1
  /\ ToP(p, "idle")
  /\ UNCHANGED <<beyondEnqueue, ch, accepted, offered, readers, lenP, queueDepth>>

(* FAULT: the channel has no bound. *)
EnqueueSendUnbounded(p) ==
  /\ pcP[p] = "send"
  /\ ch' = Append(ch, accepted + 1) /\ accepted' = accepted + 1
  /\ ToP(p, "readLen")
  /\ UNCHANGED <<beyondEnqueue, offered, readers, lenP, EventsDroppedTotal, queueDepth>>

(* select { case q.ch <- e: ... default: ... }: never a blocking send.     *)
EnqueueSend(p) ==
  /\ pcP[p] = "send" /\ Len(ch) < Capacity
  /\ ch' = Append(ch, accepted + 1) /\ accepted' = accepted + 1
  /\ ToP(p, "readLen")
  /\ UNCHANGED <<beyondEnqueue, offered, readers, lenP, EventsDroppedTotal, queueDepth>>

EnqueueFull(p) ==
  /\ pcP[p] = "send" /\ Len(ch) >= Capacity
  /\ EventsDroppedTotal' = EventsDroppedTotal + 1
  /\ readers' = readers \ {p}
  /\ ToP(p, "idle")
  /\ UNCHANGED <<beyondEnqueue, ch, accepted, offered, lenP, queueDepth>>

(* metrics.M.SetQueueDepth(len(q.ch)) reads the length, then stores it.    *)
EnqueueReadLen(p) ==
  /\ pcP[p] = "readLen"
  /\ lenP' = [lenP EXCEPT ![p] = Len(ch)]
  /\ ToP(p, "setDepth")
  /\ UNCHANGED <<beyondEnqueue, ch, accepted, offered, readers, EventsDroppedTotal, queueDepth>>

EnqueueSetDepth(p) ==
  /\ pcP[p] = "setDepth"
  /\ queueDepth' = lenP[p] /\ lenP' = [lenP EXCEPT ![p] = 0]
  /\ readers' = readers \ {p}
  /\ ToP(p, "idle")
  /\ UNCHANGED <<beyondEnqueue, ch, accepted, offered, EventsDroppedTotal>>

Enqueue(p) ==
  \/ EnqueueCall(p) \/ EnqueueOpen(p) \/ EnqueueClosed(p)
  \/ EnqueueSend(p) \/ EnqueueFull(p)
  \/ EnqueueReadLen(p) \/ EnqueueSetDepth(p)

----------------------------------------------------------------------------
(* work: nextBatch, then writeBatch, until nextBatch saw the channel close *)

beyondWork == <<closed, readers, lockWriter, lifeVars, producerVars, stopperVars,
                EventsDroppedTotal, offered, accepted>>
outside    == <<inFlight, resultTotals, WriterBatchesTotal, queueDepth, written, failed>>

(* first, ok := <-q.ch: blocks until there is an event or the channel is closed. *)
NextBatchFirst(w) ==
  /\ pcW[w] = "first" /\ ch # <<>>
  /\ batch' = [batch EXCEPT ![w] = <<Head(ch)>>] /\ ch' = Tail(ch)
  /\ ToW(w, IF MaxBatch = 1 THEN "readLen" ELSE "more")
  /\ UNCHANGED <<beyondWork, outside, more, lenW>>

NextBatchClosed(w) ==
  /\ pcW[w] = "first" /\ ch = <<>> /\ closed
  /\ more' = [more EXCEPT ![w] = FALSE]
  /\ ToW(w, "exited")
  /\ UNCHANGED <<beyondWork, outside, ch, batch, lenW>>

(* FAULT: a batch is filled from the wrong end. *)
NextBatchMorePrepends(w) ==
  /\ pcW[w] = "more" /\ ch # <<>>
  /\ batch' = [batch EXCEPT ![w] = <<Head(ch)>> \o @] /\ ch' = Tail(ch)
  /\ ToW(w, IF Len(batch[w]) + 1 < MaxBatch THEN "more" ELSE "readLen")
  /\ UNCHANGED <<beyondWork, outside, more, lenW>>

(* The select of the loop: another event, the closed channel, or the timer. *)
NextBatchMore(w) ==
  /\ pcW[w] = "more" /\ ch # <<>>
  /\ batch' = [batch EXCEPT ![w] = Append(@, Head(ch))] /\ ch' = Tail(ch)
  /\ ToW(w, IF Len(batch[w]) + 1 < MaxBatch THEN "more" ELSE "readLen")
  /\ UNCHANGED <<beyondWork, outside, more, lenW>>

(* FAULT: the partial batch is dropped when the channel closes. *)
NextBatchLastDiscards(w) ==
  /\ pcW[w] = "more" /\ ch = <<>> /\ closed
  /\ more' = [more EXCEPT ![w] = FALSE] /\ batch' = [batch EXCEPT ![w] = <<>>]
  /\ ToW(w, "exited")
  /\ UNCHANGED <<beyondWork, outside, ch, lenW>>

NextBatchLast(w) ==
  /\ pcW[w] = "more" /\ ch = <<>> /\ closed
  /\ more' = [more EXCEPT ![w] = FALSE]
  /\ ToW(w, "readLen")
  /\ UNCHANGED <<beyondWork, outside, ch, batch, lenW>>

(* FAULT: a partial batch waits for more events until the queue stops. *)
NextBatchTimeoutAtStop(w) ==
  /\ pcW[w] = "more" /\ closed
  /\ ToW(w, "readLen")
  /\ UNCHANGED <<beyondWork, outside, ch, batch, more, lenW>>

NextBatchTimeout(w) ==
  /\ pcW[w] = "more"
  /\ ToW(w, "readLen")
  /\ UNCHANGED <<beyondWork, outside, ch, batch, more, lenW>>

WriteBatchReadLen(w) ==
  /\ pcW[w] = "readLen"
  /\ lenW' = [lenW EXCEPT ![w] = Len(ch)]
  /\ ToW(w, "enter")
  /\ UNCHANGED <<beyondWork, outside, ch, batch, more>>

(* The gauge is stored, the batch counted and added to inFlight; the worker
   is then inside q.writer.WriteBatch. *)
WriteBatchEnter(w) ==
  /\ pcW[w] = "enter"
  /\ queueDepth' = lenW[w] /\ lenW' = [lenW EXCEPT ![w] = 0]
  /\ WriterBatchesTotal' = WriterBatchesTotal + 1
  /\ inFlight' = inFlight + Len(batch[w])
  /\ ToW(w, "write")
  /\ UNCHANGED <<beyondWork, resultTotals, written, failed, ch, batch, more>>

(* FAULT: the event counters advance by one for each batch. *)
WriteBatchReturnsOne(w) ==
  /\ pcW[w] = "write"
  /\ written' = written \cup Range(batch[w])
  /\ EventsWrittenTotal' = EventsWrittenTotal + 1
  /\ ToW(w, "leave")
  /\ UNCHANGED <<beyondWork, failed, WriterErrorsTotal, WriterBatchErrorsTotal, inFlight,
                 WriterBatchesTotal, queueDepth, ch, batch, more, lenW>>

(* q.writer.WriteBatch returns nil or an error, and the outcome is counted. *)
WriteBatchReturns(w) ==
  /\ pcW[w] = "write"
  /\ \/ /\ written' = written \cup Range(batch[w])
        /\ EventsWrittenTotal' = EventsWrittenTotal + Len(batch[w])
        /\ UNCHANGED <<failed, WriterErrorsTotal, WriterBatchErrorsTotal>>
     \/ /\ failed' = failed \cup Range(batch[w])
        /\ WriterErrorsTotal' = WriterErrorsTotal + Len(batch[w])
        /\ WriterBatchErrorsTotal' = WriterBatchErrorsTotal + 1
        /\ UNCHANGED <<written, EventsWrittenTotal>>
  /\ ToW(w, "leave")
  /\ UNCHANGED <<beyondWork, inFlight, WriterBatchesTotal, queueDepth, ch, batch, more, lenW>>

(* The deferred q.inFlight.Add(-n), after which work loops or returns. *)
WriteBatchLeave(w) ==
  /\ pcW[w] = "leave"
  /\ inFlight' = inFlight - Len(batch[w])
  /\ batch' = [batch EXCEPT ![w] = <<>>]
  /\ ToW(w, IF more[w] THEN "first" ELSE "exited")
  /\ UNCHANGED <<beyondWork, resultTotals, WriterBatchesTotal, queueDepth, written, failed,
                 ch, more, lenW>>

work(w) ==
  \/ NextBatchFirst(w) \/ NextBatchClosed(w)
  \/ NextBatchMore(w) \/ NextBatchLast(w) \/ NextBatchTimeout(w)
  \/ WriteBatchReadLen(w) \/ WriteBatchEnter(w) \/ WriteBatchReturns(w) \/ WriteBatchLeave(w)

----------------------------------------------------------------------------
(* Stop                                                                    *)

beyondStop == <<ch, readers, inFlight, producerVars, workerVars, started, resultTotals,
                WriterBatchesTotal, queueDepth, offered, accepted, written, failed>>

(* q.mu.Lock announces the writer, then waits for the readers to leave. *)
StopLock(s) ==
  /\ pcS[s] = "idle" /\ lockWriter = NoOne
  /\ lockWriter' = s
  /\ ToS(s, "critical")
  /\ UNCHANGED <<beyondStop, closed, writeCancelled, writerClosed, done, timedOut, undrained,
                 EventsDroppedTotal>>

(* FAULT: the channel is closed under the producers that hold the lock. *)
StopCloseChannelUnlocked(s) ==
  /\ pcS[s] = "critical"
  /\ closed' = TRUE /\ lockWriter' = NoOne
  /\ ToS(s, IF closed THEN "alreadyStopped" ELSE "drain")
  /\ UNCHANGED <<beyondStop, writeCancelled, writerClosed, done, timedOut, undrained,
                 EventsDroppedTotal>>

(* FAULT: the early return of a second Stop leaves the lock held. *)
StopCloseChannelKeepsLock(s) ==
  /\ pcS[s] = "critical" /\ readers = {}
  /\ closed' = TRUE /\ lockWriter' = IF closed THEN lockWriter ELSE NoOne
  /\ ToS(s, IF closed THEN "alreadyStopped" ELSE "drain")
  /\ UNCHANGED <<beyondStop, writeCancelled, writerClosed, done, timedOut, undrained,
                 EventsDroppedTotal>>

(* The critical section: a second Stop returns, the first closes the channel. *)
StopCloseChannel(s) ==
  /\ pcS[s] = "critical" /\ readers = {}
  /\ closed' = TRUE /\ lockWriter' = NoOne
  /\ ToS(s, IF closed THEN "alreadyStopped" ELSE "drain")
  /\ UNCHANGED <<beyondStop, writeCancelled, writerClosed, done, timedOut, undrained,
                 EventsDroppedTotal>>

(* s is the Stop that closed the channel: it owns a done channel.           *)
Drains(s) == pcS[s] \notin {"idle", "critical", "alreadyStopped"}

(* FAULT: only the workers inside a write are waited for. *)
WaitGroupOfWriters == \A w \in Workers : pcW[w] # "write"

WaitGroupIsZero == \A w \in Workers : pcW[w] \in {"new", "exited"}

(* The goroutine that closes done when wg.Wait returns. *)
StopWaiter(s) ==
  /\ Drains(s) /\ ~done[s] /\ WaitGroupIsZero
  /\ done' = [done EXCEPT ![s] = TRUE]
  /\ UNCHANGED <<beyondStop, closed, lockWriter, writeCancelled, writerClosed, pcS, timedOut,
                 undrained, EventsDroppedTotal>>

(* FAULT: the drain is over before the workers are. *)
StopDrainedAtOnce(s) ==
  /\ pcS[s] = "drain"
  /\ writeCancelled' = started
  /\ ToS(s, "close")
  /\ UNCHANGED <<beyondStop, closed, lockWriter, writerClosed, done, timedOut, undrained,
                 EventsDroppedTotal>>

(* writeCancel follows the wait, and is nil when Start was never called.   *)
StopDrained(s) ==
  /\ pcS[s] = "drain" /\ done[s]
  /\ writeCancelled' = started
  /\ ToS(s, "close")
  /\ UNCHANGED <<beyondStop, closed, lockWriter, writerClosed, done, timedOut, undrained,
                 EventsDroppedTotal>>

StopDrainTimeout(s) ==
  /\ pcS[s] = "drain"
  /\ timedOut' = [timedOut EXCEPT ![s] = TRUE] /\ writeCancelled' = started
  /\ ToS(s, "grace")
  /\ UNCHANGED <<beyondStop, closed, lockWriter, writerClosed, done, undrained,
                 EventsDroppedTotal>>

(* The grace ends, with done or with its timer.  The report is
   undrained := len(q.ch) + int(q.inFlight.Load()), two reads.             *)
StopReadLen(s) ==
  /\ pcS[s] = "grace"
  /\ undrained' = [undrained EXCEPT ![s] = Len(ch)]
  /\ ToS(s, "readInFlight")
  /\ UNCHANGED <<beyondStop, closed, lockWriter, writeCancelled, writerClosed, done, timedOut,
                 EventsDroppedTotal>>

StopReadInFlight(s) ==
  /\ pcS[s] = "readInFlight"
  /\ undrained' = [undrained EXCEPT ![s] = @ + inFlight]
  /\ EventsDroppedTotal' = EventsDroppedTotal + undrained[s] + inFlight
  /\ ToS(s, "close")
  /\ UNCHANGED <<beyondStop, closed, lockWriter, writeCancelled, writerClosed, done, timedOut>>

(* FAULT: the writer is closed without asking whether a worker is in it. *)
StopCloseWriterAlways(s) ==
  /\ pcS[s] = "close"
  /\ writerClosed' = TRUE
  /\ ToS(s, "returned")
  /\ UNCHANGED <<beyondStop, closed, lockWriter, writeCancelled, done, timedOut, undrained,
                 EventsDroppedTotal>>

(* select { case <-done: writer.Close() default: skip } *)
StopCloseWriter(s) ==
  /\ pcS[s] = "close"
  /\ writerClosed' = (writerClosed \/ done[s])
  /\ ToS(s, "returned")
  /\ UNCHANGED <<beyondStop, closed, lockWriter, writeCancelled, done, timedOut, undrained,
                 EventsDroppedTotal>>

Stop(s) ==
  \/ StopLock(s) \/ StopCloseChannel(s) \/ StopWaiter(s)
  \/ StopDrained(s) \/ StopDrainTimeout(s) \/ StopReadLen(s) \/ StopReadInFlight(s)
  \/ StopCloseWriter(s)

----------------------------------------------------------------------------
Next ==
  \/ Start
  \/ \E p \in Producers : Enqueue(p)
  \/ \E w \in Workers : work(w)
  \/ \E s \in Stoppers : Stop(s)

Spec == Init /\ [][Next]_vars
============================================================================
