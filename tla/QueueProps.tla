----------------------------- MODULE QueueProps -----------------------------
(***************************************************************************)
(* What the queue has to guarantee, and the fairness under which.          *)
(***************************************************************************)
EXTENDS Queue

(* Every event a behaviour can accept. *)
Events == 1..MaxOffers

(* Events that worker w holds and has not yet got an answer for. *)
InHand(w) ==
  IF pcW[w] \in {"more", "readLen", "enter", "write"}
    THEN Range(batch[w]) ELSE {}

InHands == UNION {InHand(w) : w \in Workers}

Settled   == written \cup failed
Unsettled == (1..accepted) \ Settled

(* Number of events in the batches of the workers at these control points. *)
Held(points) == SumFunctionOnSet([w \in Workers |-> Len(batch[w])],
                                 {w \in Workers : pcW[w] \in points})

----------------------------------------------------------------------------
(* The types of all variables; the channel never holds more than Capacity. *)
TypeOK ==
  /\ ch \in Seq(Nat) /\ Len(ch) <= Capacity
  /\ closed \in BOOLEAN /\ started \in BOOLEAN
  /\ writeCancelled \in BOOLEAN /\ writerClosed \in BOOLEAN
  /\ readers \subseteq Producers
  /\ lockWriter \in Stoppers \cup {NoOne}
  /\ inFlight \in Int
  /\ pcP \in [Producers -> ProducerPc] /\ lenP \in [Producers -> Nat]
  /\ pcW \in [Workers -> WorkerPc] /\ batch \in [Workers -> Seq(Nat)]
  /\ more \in [Workers -> BOOLEAN] /\ lenW \in [Workers -> Nat]
  /\ pcS \in [Stoppers -> StopperPc] /\ done \in [Stoppers -> BOOLEAN]
  /\ timedOut \in [Stoppers -> BOOLEAN] /\ undrained \in [Stoppers -> Int]
  /\ EventsWrittenTotal \in Nat /\ WriterErrorsTotal \in Nat /\ WriterBatchesTotal \in Nat
  /\ WriterBatchErrorsTotal \in Nat /\ EventsDroppedTotal \in Int /\ queueDepth \in Nat
  /\ offered \in Nat /\ accepted \in Nat
  /\ written \subseteq Nat /\ failed \subseteq Nat

(* q.mu: a producer that has seen q.closed false and is about to send never
   meets a closed channel (a send on it would panic), and two Stops never both
   go on to close it. *)
NoSendOnClosedChannel ==
  /\ \A p \in Producers : pcP[p] = "send" => ~closed
  /\ \A s, t \in Stoppers : Drains(s) /\ Drains(t) => s = t

(* The writer is closed only when no worker can still enter it, and when the
   workers ran, only after every accepted event went through it. *)
CloseFollowsEveryWrite ==
  writerClosed =>
    /\ \A w \in Workers : pcW[w] \in {"new", "exited"}
    /\ started => Settled = 1..accepted

(* Every accepted event is in exactly one place: the channel, the hands of one
   worker, or settled one way.  nextBatch and Stop neither lose nor copy one. *)
Custody ==
  /\ 1..accepted = Range(ch) \cup InHands \cup Settled
  /\ IsInjective(ch) /\ \A w \in Workers : IsInjective(batch[w])
  /\ \A w \in Workers :
       /\ InHand(w) \cap (Range(ch) \cup Settled) = {}
       /\ \A v \in Workers \ {w} : InHand(w) \cap InHand(v) = {}
  /\ Range(ch) \cap Settled = {}
  /\ written \cap failed = {}

(* Events reach a WriteBatch call in the order the channel accepted them, and
   nothing still in the channel is older than an event taken out of it. *)
BatchesKeepOrder ==
  /\ \A w \in Workers : \A i, j \in DOMAIN batch[w] : i < j => batch[w][i] < batch[w][j]
  /\ \A e \in Range(ch) : \A f \in (1..accepted) \ Range(ch) : f < e

(* No WriteBatch call is empty or larger than MaxBatch: between them the
   completed calls account for at least one event each, and at most MaxBatch. *)
BatchBounds ==
  LET completed == WriterBatchesTotal - Cardinality({w \in Workers : pcW[w] = "write"})
      events    == EventsWrittenTotal + WriterErrorsTotal
  IN  /\ completed <= events /\ events <= MaxBatch * completed
      /\ WriterBatchErrorsTotal <= completed

(* The counters say what happened to the events, at every instant: inFlight
   covers the batches between its add and its deferred subtraction, a drop is an
   event Enqueue refused or one that Stop reported, and the batches are bounded. *)
CountersMatchEvents ==
  /\ EventsWrittenTotal = Cardinality(written)
  /\ WriterErrorsTotal = Cardinality(failed)
  /\ inFlight = Held({"write", "leave"})
  /\ EventsDroppedTotal =
       (offered - accepted - Cardinality({p \in Producers : pcP[p] \in {"rlock", "send"}}))
         + SumFunctionOnSet(undrained, {s \in Stoppers : pcS[s] \in {"close", "returned"}})
  /\ BatchBounds

(* A Stop that did not time out leaves nothing unaccounted for: once no call
   is in progress, written + errors + dropped is every event ever offered. *)
CleanStopBalances ==
  (/\ \E s \in Stoppers : pcS[s] = "returned" /\ ~timedOut[s]
   /\ started
   /\ \A p \in Producers : pcP[p] = "idle")
  => EventsWrittenTotal + WriterErrorsTotal + EventsDroppedTotal = offered

(* Stop's own writes are never cancelled by Stop: writeCancel fires only after
   the last worker has gone or the drain deadline has passed. *)
CancelOnlyAfterDrain ==
  writeCancelled =>
    (\A w \in Workers : pcW[w] = "exited") \/ (\E s \in Stoppers : timedOut[s])

----------------------------------------------------------------------------
(* Fairness.  Goroutines that can run do; timers fire; nothing is assumed of
   the environment (calls of Enqueue, Start and Stop) nor of the writer. *)
ProducersRun == \A p \in Producers : WF_vars(Enqueue(p) /\ pcP[p] # "idle")
WorkersRun   == \A w \in Workers : WF_vars(work(w) /\ pcW[w] \notin {"more", "write"})
TimersFire   == /\ \A w \in Workers : WF_vars(NextBatchTimeout(w))
                /\ \A s \in Stoppers : WF_vars(StopDrainTimeout(s))
StoppersRun  == \A s \in Stoppers : WF_vars(Stop(s) /\ pcS[s] # "idle")

FairSpec == Spec /\ ProducersRun /\ WorkersRun /\ TimersFire /\ StoppersRun

(* The writers bound every write with a deadline, so a WriteBatch call returns. *)
WritesReturn == \A w \in Workers : WF_vars(WriteBatchReturns(w))

(* Stop returns within its deadlines even if a worker is stuck in the writer, and
   Enqueue never blocks for good, whatever the writer and Stop do. *)
CallsReturn ==
  /\ \A s \in Stoppers : pcS[s] # "idle" ~> pcS[s] \in {"returned", "alreadyStopped"}
  /\ \A p \in Producers : pcP[p] = "rlock" ~> pcP[p] = "idle"

----------------------------------------------------------------------------
(* The queue implements the ledger.  An event is pending while the channel or
   a worker holds it. *)
Ledger == INSTANCE EventLedger WITH
  Event     <- Events,
  accepting <- ~closed,
  launched  <- started,
  pending   <- Range(ch) \cup InHands,
  open      <- ~writerClosed

(* Every step of the queue is a step of the ledger or changes nothing in it. *)
ImplementsLedger == Ledger!Spec

(* If writes return, every accepted event is settled: no partial batch is
   stranded waiting for more events, or by the closing of the channel. *)
AcceptedIsSettled == WritesReturn => Ledger!PendingSettles

----------------------------------------------------------------------------
(* Stated by the source and not kept by it.                                *)

(* queue.go, Config.DrainTimeout and Queue.inFlight: the events a timed-out
   drain leaves unwritten are all in the count that Stop reports. *)
ReportCoversUndrained ==
  \A s \in Stoppers :
    timedOut[s] /\ pcS[s] \in {"close", "returned"}
      => undrained[s] >= Cardinality(Unsettled)
============================================================================
