---------------------------- MODULE QueueProofs ----------------------------
(***************************************************************************)
(* Proofs about the queue for every number of goroutines, every capacity   *)
(* and every batch size.                                                   *)
(***************************************************************************)
EXTENDS QueueProps, TLAPS, SumTheorems

----------------------------------------------------------------------------
(* Types.                                                                  *)

LEMMA InitTypes == Init => TypeOK
<1> SUFFICES ASSUME Init PROVE TypeOK
  OBVIOUS
<1>1. ch \in Seq(Nat) /\ Len(ch) <= Capacity
  BY QueueAssumption DEF Init
<1>2. batch \in [Workers -> Seq(Nat)]
  BY DEF Init
<1>3. /\ pcP \in [Producers -> ProducerPc] /\ pcW \in [Workers -> WorkerPc]
      /\ pcS \in [Stoppers -> StopperPc]
  BY DEF Init, ProducerPc, WorkerPc, StopperPc
<1>4. /\ lenP \in [Producers -> Nat] /\ lenW \in [Workers -> Nat]
      /\ more \in [Workers -> BOOLEAN]
      /\ done \in [Stoppers -> BOOLEAN] /\ timedOut \in [Stoppers -> BOOLEAN]
      /\ undrained \in [Stoppers -> Int]
  BY DEF Init
<1>5. /\ closed \in BOOLEAN /\ started \in BOOLEAN
      /\ writeCancelled \in BOOLEAN /\ writerClosed \in BOOLEAN
      /\ readers \subseteq Producers /\ lockWriter \in Stoppers \cup {NoOne}
  BY DEF Init
<1>6. /\ inFlight \in Int /\ EventsDroppedTotal \in Int /\ queueDepth \in Nat
      /\ EventsWrittenTotal \in Nat /\ WriterErrorsTotal \in Nat
      /\ WriterBatchesTotal \in Nat /\ WriterBatchErrorsTotal \in Nat
      /\ offered \in Nat /\ accepted \in Nat
      /\ written \subseteq Nat /\ failed \subseteq Nat
  BY DEF Init
<1>. QED  BY <1>1, <1>2, <1>3, <1>4, <1>5, <1>6 DEF TypeOK

LEMMA StartTypes == TypeOK /\ Start => TypeOK'
BY DEF TypeOK, Start, lifeVars, producerVars, stopperVars, resultTotals, WorkerPc

LEMMA EnqueueTypes ==
  ASSUME TypeOK, NEW p \in Producers, Enqueue(p)
  PROVE  TypeOK'
<1> USE QueueAssumption
    DEF TypeOK, beyondEnqueue, lifeVars, workerVars, stopperVars, resultTotals, ProducerPc, ToP
<1>1. CASE EnqueueCall(p)     BY <1>1 DEF EnqueueCall
<1>2. CASE EnqueueOpen(p)     BY <1>2 DEF EnqueueOpen
<1>3. CASE EnqueueClosed(p)   BY <1>3 DEF EnqueueClosed
<1>4. CASE EnqueueSend(p)     BY <1>4 DEF EnqueueSend
<1>5. CASE EnqueueFull(p)     BY <1>5 DEF EnqueueFull
<1>6. CASE EnqueueReadLen(p)  BY <1>6 DEF EnqueueReadLen
<1>7. CASE EnqueueSetDepth(p) BY <1>7 DEF EnqueueSetDepth
<1>. QED  BY <1>1, <1>2, <1>3, <1>4, <1>5, <1>6, <1>7 DEF Enqueue

LEMMA WorkTypes ==
  ASSUME TypeOK, NEW w \in Workers, work(w)
  PROVE  TypeOK'
<1> USE QueueAssumption
    DEF TypeOK, beyondWork, outside, lifeVars, producerVars, stopperVars, resultTotals,
        WorkerPc, ToW
<1>1. CASE NextBatchFirst(w)
  <2>1. Head(ch) \in Nat /\ Tail(ch) \in Seq(Nat) /\ Len(Tail(ch)) <= Capacity
    BY <1>1 DEF NextBatchFirst
  <2>2. ch' \in Seq(Nat) /\ Len(ch') <= Capacity
    BY <1>1, <2>1 DEF NextBatchFirst
  <2>3. batch' \in [Workers -> Seq(Nat)]
    BY <1>1, <2>1 DEF NextBatchFirst
  <2>4. pcW' \in [Workers -> WorkerPc]
    BY <1>1 DEF NextBatchFirst
  <2>. QED  BY <1>1, <2>2, <2>3, <2>4 DEF NextBatchFirst
<1>2. CASE NextBatchClosed(w)  BY <1>2 DEF NextBatchClosed
<1>3. CASE NextBatchMore(w)
  <2>1. Head(ch) \in Nat /\ Tail(ch) \in Seq(Nat) /\ Len(Tail(ch)) <= Capacity
    BY <1>3 DEF NextBatchMore
  <2>2. ch' \in Seq(Nat) /\ Len(ch') <= Capacity
    BY <1>3, <2>1 DEF NextBatchMore
  <2>3. batch' \in [Workers -> Seq(Nat)]
    BY <1>3, <2>1 DEF NextBatchMore
  <2>4. pcW' \in [Workers -> WorkerPc]
    BY <1>3 DEF NextBatchMore
  <2>. QED  BY <1>3, <2>2, <2>3, <2>4 DEF NextBatchMore
<1>4. CASE NextBatchLast(w)    BY <1>4 DEF NextBatchLast
<1>5. CASE NextBatchTimeout(w) BY <1>5 DEF NextBatchTimeout
<1>6. CASE WriteBatchReadLen(w) BY <1>6 DEF WriteBatchReadLen
<1>7. CASE WriteBatchEnter(w)  BY <1>7 DEF WriteBatchEnter
<1>8. CASE WriteBatchReturns(w)
  <2>1. Range(batch[w]) \subseteq Nat /\ Len(batch[w]) \in Nat
    BY DEF Range
  <2>2. written' \subseteq Nat /\ failed' \subseteq Nat
    BY <1>8, <2>1, Zenon DEF WriteBatchReturns
  <2>3. /\ EventsWrittenTotal' \in Nat /\ WriterErrorsTotal' \in Nat
        /\ WriterBatchErrorsTotal' \in Nat
    BY <1>8, <2>1, SMT DEF WriteBatchReturns
  <2>4. pcW' \in [Workers -> WorkerPc]
    BY <1>8 DEF WriteBatchReturns
  <2>. QED  BY <1>8, <2>2, <2>3, <2>4 DEF WriteBatchReturns
<1>9. CASE WriteBatchLeave(w)  BY <1>9 DEF WriteBatchLeave
<1>. QED  BY <1>1, <1>2, <1>3, <1>4, <1>5, <1>6, <1>7, <1>8, <1>9 DEF work

LEMMA StopTypes ==
  ASSUME TypeOK, NEW s \in Stoppers, Stop(s)
  PROVE  TypeOK'
<1> USE QueueAssumption
    DEF TypeOK, beyondStop, lifeVars, producerVars, workerVars, resultTotals, StopperPc, ToS
<1>1. CASE StopLock(s)         BY <1>1 DEF StopLock
<1>2. CASE StopCloseChannel(s) BY <1>2 DEF StopCloseChannel
<1>3. CASE StopWaiter(s)       BY <1>3 DEF StopWaiter
<1>4. CASE StopDrained(s)      BY <1>4 DEF StopDrained
<1>5. CASE StopDrainTimeout(s) BY <1>5 DEF StopDrainTimeout
<1>6. CASE StopReadLen(s)      BY <1>6 DEF StopReadLen
<1>7. CASE StopReadInFlight(s)
  <2>1. EventsDroppedTotal' \in Int
    BY <1>7 DEF StopReadInFlight
  <2>2. undrained' \in [Stoppers -> Int]
    BY <1>7 DEF StopReadInFlight
  <2>3. pcS' \in [Stoppers -> StopperPc]
    BY <1>7 DEF StopReadInFlight
  <2>. QED  BY <1>7, <2>1, <2>2, <2>3 DEF StopReadInFlight
<1>8. CASE StopCloseWriter(s)  BY <1>8 DEF StopCloseWriter
<1>. QED  BY <1>1, <1>2, <1>3, <1>4, <1>5, <1>6, <1>7, <1>8 DEF Stop

(* Every variable of the queue keeps its type, and the channel never holds
   more than Capacity events, whatever Enqueue, the workers and Stop do. *)
THEOREM TypeCorrect == Spec => []TypeOK
<1>1. TypeOK /\ [Next]_vars => TypeOK'
  <2> SUFFICES ASSUME TypeOK, [Next]_vars PROVE TypeOK'
    OBVIOUS
  <2>1. CASE Start  BY <2>1, StartTypes
  <2>2. CASE \E p \in Producers : Enqueue(p)  BY <2>2, EnqueueTypes
  <2>3. CASE \E w \in Workers : work(w)  BY <2>3, WorkTypes
  <2>4. CASE \E s \in Stoppers : Stop(s)  BY <2>4, StopTypes
  <2>5. CASE UNCHANGED vars
    BY <2>5 DEF vars, TypeOK, lifeVars, producerVars, workerVars, stopperVars, resultTotals
  <2>. QED  BY <2>1, <2>2, <2>3, <2>4, <2>5 DEF Next
<1>. QED  BY InitTypes, <1>1, PTL DEF Spec

----------------------------------------------------------------------------
(* The lock.  readers is exactly the set of producers between RLock and      *)
(* RUnlock, so the stopper that found it empty closes the channel under      *)
(* nobody; and only the stopper that found q.closed false goes on to drain.  *)

ReadersHoldLock ==
  \A p \in Producers : pcP[p] \in {"send", "readLen", "setDepth"} => p \in readers

DrainFollowsClose == \A s \in Stoppers : Drains(s) => closed

LockInv == ReadersHoldLock /\ DrainFollowsClose /\ NoSendOnClosedChannel

LEMMA InitLock == Init => LockInv
BY DEF Init, LockInv, ReadersHoldLock, DrainFollowsClose, NoSendOnClosedChannel, Drains

LEMMA EnqueueLock ==
  ASSUME TypeOK, LockInv, NEW p \in Producers, Enqueue(p)
  PROVE  LockInv'
<1>1. pcP \in [Producers -> ProducerPc]
  BY DEF TypeOK
<1>2. UNCHANGED <<closed, pcS>>
  BY DEF Enqueue, EnqueueCall, EnqueueOpen, EnqueueClosed, EnqueueSend, EnqueueFull,
         EnqueueReadLen, EnqueueSetDepth, beyondEnqueue, stopperVars
<1>3. ReadersHoldLock' /\ \A q \in Producers : pcP'[q] = "send" => ~closed
  <2> USE <1>1 DEF LockInv, ReadersHoldLock, NoSendOnClosedChannel, ToP
  <2>1. CASE EnqueueCall(p)     BY <2>1 DEF EnqueueCall
  <2>2. CASE EnqueueOpen(p)     BY <2>2 DEF EnqueueOpen
  <2>3. CASE EnqueueClosed(p)   BY <2>3 DEF EnqueueClosed
  <2>4. CASE EnqueueSend(p)     BY <2>4 DEF EnqueueSend
  <2>5. CASE EnqueueFull(p)     BY <2>5 DEF EnqueueFull
  <2>6. CASE EnqueueReadLen(p)  BY <2>6 DEF EnqueueReadLen
  <2>7. CASE EnqueueSetDepth(p) BY <2>7 DEF EnqueueSetDepth
  <2>. QED  BY <2>1, <2>2, <2>3, <2>4, <2>5, <2>6, <2>7 DEF Enqueue
<1>. QED  BY <1>2, <1>3 DEF LockInv, DrainFollowsClose, NoSendOnClosedChannel, Drains

LEMMA StopLockInv ==
  ASSUME TypeOK, LockInv, NEW s \in Stoppers, Stop(s)
  PROVE  LockInv'
<1>1. pcS \in [Stoppers -> StopperPc]
  BY DEF TypeOK
<1>2. UNCHANGED <<pcP, readers>>
  BY DEF Stop, StopLock, StopCloseChannel, StopWaiter, StopDrained, StopDrainTimeout,
         StopReadLen, StopReadInFlight, StopCloseWriter, beyondStop, producerVars
<1>3. CASE StopCloseChannel(s)
  <2>1. \A p \in Producers : pcP[p] # "send"
    BY <1>3 DEF StopCloseChannel, LockInv, ReadersHoldLock
  <2>2. closed'
    BY <1>3 DEF StopCloseChannel
  <2>3. \A t \in Stoppers \ {s} : pcS'[t] = pcS[t]
    BY <1>1, <1>3 DEF StopCloseChannel, ToS
  <2>4. CASE closed
    <3>. ~Drains(s)'
      BY <1>1, <1>3, <2>4 DEF StopCloseChannel, ToS, Drains
    <3>. QED  BY <1>2, <2>1, <2>2, <2>3
              DEF LockInv, ReadersHoldLock, DrainFollowsClose, NoSendOnClosedChannel, Drains
  <2>5. CASE ~closed
    BY <1>2, <2>1, <2>2, <2>3, <2>5
    DEF LockInv, ReadersHoldLock, DrainFollowsClose, NoSendOnClosedChannel, Drains
  <2>. QED  BY <2>4, <2>5
<1>4. CASE ~StopCloseChannel(s)
  <2> USE <1>1, <1>4 DEF Drains, ToS
  <2>1. closed' = closed /\ \A t \in Stoppers : Drains(t)' <=> Drains(t)
    <3>1. CASE StopLock(s)         BY <3>1 DEF StopLock
    <3>2. CASE StopWaiter(s)       BY <3>2 DEF StopWaiter
    <3>3. CASE StopDrained(s)      BY <3>3 DEF StopDrained
    <3>4. CASE StopDrainTimeout(s) BY <3>4 DEF StopDrainTimeout
    <3>5. CASE StopReadLen(s)      BY <3>5 DEF StopReadLen
    <3>6. CASE StopReadInFlight(s) BY <3>6 DEF StopReadInFlight
    <3>7. CASE StopCloseWriter(s)  BY <3>7 DEF StopCloseWriter
    <3>. QED  BY <3>1, <3>2, <3>3, <3>4, <3>5, <3>6, <3>7 DEF Stop
  <2>. QED  BY <1>2, <2>1
            DEF LockInv, ReadersHoldLock, DrainFollowsClose, NoSendOnClosedChannel
<1>. QED  BY <1>3, <1>4

LEMMA WorkLeavesLock ==
  ASSUME NEW w \in Workers, work(w)
  PROVE  UNCHANGED <<closed, readers, lockWriter, lifeVars, producerVars, stopperVars, offered,
                     accepted>>
BY DEF work, NextBatchFirst, NextBatchClosed, NextBatchMore, NextBatchLast, NextBatchTimeout,
       WriteBatchReadLen, WriteBatchEnter, WriteBatchReturns, WriteBatchLeave, beyondWork

LEMMA LockInvariant == Spec => []LockInv
<1>1. TypeOK /\ LockInv /\ [Next]_vars => LockInv'
  <2> SUFFICES ASSUME TypeOK, LockInv, [Next]_vars PROVE LockInv'
    OBVIOUS
  <2> USE DEF LockInv, ReadersHoldLock, DrainFollowsClose, NoSendOnClosedChannel, Drains
  <2>1. CASE Start
    BY <2>1 DEF Start, producerVars, stopperVars
  <2>2. CASE \E p \in Producers : Enqueue(p)
    BY <2>2, EnqueueLock
  <2>3. CASE \E w \in Workers : work(w)
    BY <2>3, WorkLeavesLock DEF producerVars, stopperVars
  <2>4. CASE \E s \in Stoppers : Stop(s)
    BY <2>4, StopLockInv
  <2>5. CASE UNCHANGED vars
    BY <2>5 DEF vars, producerVars, stopperVars
  <2>. QED  BY <2>1, <2>2, <2>3, <2>4, <2>5 DEF Next
<1>. QED  BY InitLock, TypeCorrect, <1>1, PTL DEF Spec

(* No producer sends on the closed channel, and only one Stop drains, for any
   number of handlers and any number of concurrent Stops. *)
THEOREM SendsPrecedeClose == Spec => []NoSendOnClosedChannel
<1>1. LockInv => NoSendOnClosedChannel
  BY DEF LockInv
<1>. QED  BY LockInvariant, <1>1, PTL

----------------------------------------------------------------------------
(* Where the events are: no event is lost, copied or reordered, and the     *)
(* writer is closed, and its context cancelled, only after the work is done.*)

(* The events accepted so far that have left the channel are 1..Taken. *)
Taken == accepted - Len(ch)

(* The channel holds the youngest events, oldest first. *)
ChannelIsSuffix ==
  /\ Taken \in Nat
  /\ \A i \in 1..Len(ch) : ch[i] = Taken + i

(* Each batch is taken from the others, in order; a worker that is not
   between nextBatch and the end of writeBatch has none. *)
BatchesAreTaken ==
  \A w \in Workers :
    /\ \A i \in 1..Len(batch[w]) : batch[w][i] \in 1..Taken
    /\ \A i, j \in 1..Len(batch[w]) : i < j => batch[w][i] < batch[w][j]
    /\ pcW[w] \in {"new", "first", "exited"} => batch[w] = <<>>

(* What was taken is in the hands of one worker, or settled one way. *)
TakenIsHeldOrSettled ==
  /\ \A e \in 1..Taken : e \in Settled \/ \E w \in Workers : e \in InHand(w)
  /\ Settled \subseteq 1..Taken
  /\ \A w \in Workers : InHand(w) \subseteq 1..Taken /\ InHand(w) \cap Settled = {}
  /\ \A v, w \in Workers : v # w => InHand(v) \cap InHand(w) = {}
  /\ written \cap failed = {}

CustodyInv == ChannelIsSuffix /\ BatchesAreTaken /\ TakenIsHeldOrSettled

(* The workers exist once Start has run, and not before. *)
WorkersExist == \A w \in Workers : started <=> pcW[w] # "new"

(* A worker returns only from the closed and empty channel; done is closed
   once the workers have all returned. *)
WorkersEnd ==
  /\ \A w \in Workers : pcW[w] = "exited" \/ ~more[w] => closed /\ ch = <<>>
  /\ \A s \in Stoppers : done[s] => Drains(s) /\ WaitGroupIsZero
  /\ writerClosed => \E s \in Stoppers : done[s]

DrainInv == WorkersEnd /\ CancelOnlyAfterDrain

----------------------------------------------------------------------------
(* Who touches the worker variables.                                       *)

LEMMA EnqueueLeavesWork ==
  ASSUME NEW p \in Producers, Enqueue(p)
  PROVE  /\ UNCHANGED <<closed, lifeVars, workerVars, stopperVars, written, failed>>
         /\ ~EnqueueSend(p) => UNCHANGED <<ch, accepted>>
BY DEF Enqueue, EnqueueCall, EnqueueOpen, EnqueueClosed, EnqueueSend, EnqueueFull,
       EnqueueReadLen, EnqueueSetDepth, beyondEnqueue

LEMMA StopLeavesWork ==
  ASSUME NEW s \in Stoppers, Stop(s)
  PROVE  UNCHANGED <<ch, accepted, workerVars, started, written, failed>>
BY DEF Stop, StopLock, StopCloseChannel, StopWaiter, StopDrained, StopDrainTimeout,
       StopReadLen, StopReadInFlight, StopCloseWriter, beyondStop

(* work never leaves "new", where Start has not been, and never enters it. *)
LEMMA WorkMoves ==
  ASSUME TypeOK, NEW w \in Workers, work(w)
  PROVE  /\ pcW[w] \notin {"new", "exited"} /\ pcW'[w] # "new"
         /\ \A v \in Workers \ {w} : pcW'[v] = pcW[v] /\ more'[v] = more[v]
<1> USE DEF TypeOK, ToW
<1>1. CASE NextBatchFirst(w)    BY <1>1 DEF NextBatchFirst
<1>2. CASE NextBatchClosed(w)   BY <1>2 DEF NextBatchClosed
<1>3. CASE NextBatchMore(w)     BY <1>3 DEF NextBatchMore
<1>4. CASE NextBatchLast(w)     BY <1>4 DEF NextBatchLast
<1>5. CASE NextBatchTimeout(w)  BY <1>5 DEF NextBatchTimeout
<1>6. CASE WriteBatchReadLen(w) BY <1>6 DEF WriteBatchReadLen
<1>7. CASE WriteBatchEnter(w)   BY <1>7 DEF WriteBatchEnter
<1>8. CASE WriteBatchReturns(w) BY <1>8 DEF WriteBatchReturns
<1>9. CASE WriteBatchLeave(w)   BY <1>9 DEF WriteBatchLeave
<1>. QED  BY <1>1, <1>2, <1>3, <1>4, <1>5, <1>6, <1>7, <1>8, <1>9 DEF work

LEMMA WorkersExistInvariant == Spec => []WorkersExist
<1>1. Init => WorkersExist
  BY DEF Init, WorkersExist
<1>2. TypeOK /\ WorkersExist /\ [Next]_vars => WorkersExist'
  <2> SUFFICES ASSUME TypeOK, WorkersExist, [Next]_vars PROVE WorkersExist'
    OBVIOUS
  <2> USE DEF WorkersExist
  <2>1. CASE Start
    BY <2>1 DEF Start
  <2>2. CASE \E p \in Producers : Enqueue(p)
    BY <2>2, EnqueueLeavesWork DEF lifeVars, workerVars
  <2>3. CASE \E w \in Workers : work(w)
    BY <2>3, WorkMoves, WorkLeavesLock DEF lifeVars
  <2>4. CASE \E s \in Stoppers : Stop(s)
    BY <2>4, StopLeavesWork DEF workerVars
  <2>5. CASE UNCHANGED vars
    BY <2>5 DEF vars, lifeVars, workerVars
  <2>. QED  BY <2>1, <2>2, <2>3, <2>4, <2>5 DEF Next
<1>. QED  BY <1>1, <1>2, TypeCorrect, PTL DEF Spec

----------------------------------------------------------------------------
(* Custody.                                                                *)

LEMMA InitCustody == Init => CustodyInv
<1> SUFFICES ASSUME Init PROVE CustodyInv
  OBVIOUS
<1>1. ch = <<>> /\ Taken = 0
  <2>1. ch = <<>> /\ Len(ch) = 0 /\ accepted = 0
    BY DEF Init
  <2>2. Taken = 0
    BY <2>1, 0 - 0 = 0 DEF Taken
  <2>. QED  BY <2>1, <2>2
<1>2. \A w \in Workers : batch[w] = <<>> /\ pcW[w] = "new"
  BY DEF Init
<1>3. \A w \in Workers : InHand(w) = {}
  BY <1>2 DEF InHand
<1>4. Settled = {} /\ written \cap failed = {}
  BY DEF Init, Settled
<1>. QED  BY <1>1, <1>2, <1>3, <1>4 DEF CustodyInv, ChannelIsSuffix, BatchesAreTaken,
          TakenIsHeldOrSettled

(* A step that moves no event keeps the invariant. *)
LEMMA CustodyFrame ==
  ASSUME CustodyInv, UNCHANGED <<ch, accepted, batch, written, failed>>,
         \A w \in Workers : InHand(w)' = InHand(w),
         \A w \in Workers : pcW'[w] \in {"new", "first", "exited"} => batch[w] = <<>>
  PROVE  CustodyInv'
<1>1. Taken' = Taken /\ Settled' = Settled
  BY DEF Taken, Settled
<1>2. ChannelIsSuffix'
  BY <1>1 DEF CustodyInv, ChannelIsSuffix
<1>3. BatchesAreTaken'
  BY <1>1 DEF CustodyInv, BatchesAreTaken
<1>4. TakenIsHeldOrSettled'
  BY <1>1 DEF CustodyInv, TakenIsHeldOrSettled
<1>. QED  BY <1>2, <1>3, <1>4 DEF CustodyInv

(* Enqueue appends the next number, and takes nothing. *)
LEMMA SendCustody ==
  ASSUME TypeOK, CustodyInv, NEW p \in Producers, EnqueueSend(p)
  PROVE  CustodyInv'
<1>1. /\ ch \in Seq(Nat) /\ accepted \in Nat
      /\ ch' = Append(ch, accepted + 1) /\ accepted' = accepted + 1
      /\ UNCHANGED <<pcW, batch, written, failed>>
  BY DEF TypeOK, EnqueueSend, beyondEnqueue, workerVars
<1>2. Taken' = Taken /\ Settled' = Settled /\ \A w \in Workers : InHand(w)' = InHand(w)
  BY <1>1 DEF Taken, Settled, InHand
<1>3. ChannelIsSuffix'
  BY <1>1, <1>2 DEF CustodyInv, ChannelIsSuffix, Taken
<1>4. BatchesAreTaken'
  BY <1>1, <1>2 DEF CustodyInv, BatchesAreTaken
<1>5. TakenIsHeldOrSettled'
  BY <1>1, <1>2 DEF CustodyInv, TakenIsHeldOrSettled
<1>. QED  BY <1>3, <1>4, <1>5 DEF CustodyInv

LEMMA EnqueueCustody ==
  ASSUME TypeOK, CustodyInv, NEW p \in Producers, Enqueue(p)
  PROVE  CustodyInv'
<1>1. CASE EnqueueSend(p)  BY <1>1, SendCustody
<1>2. CASE ~EnqueueSend(p)
  <2>1. UNCHANGED <<ch, accepted, pcW, batch, written, failed>>
    BY <1>2, EnqueueLeavesWork DEF workerVars
  <2>2. \A w \in Workers : InHand(w)' = InHand(w)
    BY <2>1 DEF InHand
  <2>. QED  BY <2>1, <2>2, CustodyFrame DEF CustodyInv, BatchesAreTaken
<1>. QED  BY <1>1, <1>2

(* Appending a new largest element to an increasing sequence. *)
LEMMA AppendIncreases ==
  ASSUME NEW b \in Seq(Nat), NEW t \in Nat,
         \A i \in 1..Len(b) : b[i] \in 1..t,
         \A i, j \in 1..Len(b) : i < j => b[i] < b[j]
  PROVE  /\ \A i \in 1..Len(Append(b, t + 1)) : Append(b, t + 1)[i] \in 1..t + 1
         /\ \A i, j \in 1..Len(Append(b, t + 1)) :
              i < j => Append(b, t + 1)[i] < Append(b, t + 1)[j]
<1> DEFINE c == Append(b, t + 1)
           n == Len(b)
<1>1. /\ n \in Nat /\ Len(c) = n + 1 /\ c[n + 1] = t + 1
      /\ \A i \in 1..n : c[i] = b[i]
  OBVIOUS
<1>2. \A i \in 1..n : c[i] \in 1..t
  BY <1>1
<1>3. \A i, j \in 1..n : i < j => c[i] < c[j]
  BY <1>1
<1> HIDE DEF c, n
<1>4. \A i \in 1..Len(c) : c[i] \in 1..t + 1
  BY <1>1, <1>2
<1>5. ASSUME NEW i \in 1..Len(c), NEW j \in 1..Len(c), i < j
      PROVE  c[i] < c[j]
  <2>1. i \in 1..n /\ (j \in 1..n \/ j = n + 1)
    BY <1>1, <1>5
  <2>2. CASE j \in 1..n   BY <1>3, <1>5, <2>1, <2>2
  <2>3. CASE j = n + 1
    BY <1>1, <1>2, <2>1, <2>3
  <2>. QED  BY <2>1, <2>2, <2>3
<1>. QED  BY <1>4, <1>5 DEF c

(* nextBatch takes the oldest event of the channel, which is Taken + 1. *)
LEMMA TakeCustody ==
  ASSUME TypeOK, CustodyInv, NEW w \in Workers, NextBatchFirst(w) \/ NextBatchMore(w)
  PROVE  CustodyInv'
<1> DEFINE b == batch[w]
           e == Taken + 1
<1>1. /\ ch \in Seq(Nat) /\ ch # <<>> /\ accepted \in Nat /\ Len(ch) \in Nat \ {0}
      /\ b \in Seq(Nat) /\ pcW \in [Workers -> WorkerPc] /\ batch \in [Workers -> Seq(Nat)]
      /\ Taken \in Nat
  BY DEF TypeOK, NextBatchFirst, NextBatchMore, CustodyInv, ChannelIsSuffix
<1>2. /\ ch' = Tail(ch) /\ UNCHANGED <<accepted, written, failed>>
      /\ \A v \in Workers \ {w} : pcW'[v] = pcW[v] /\ batch'[v] = batch[v]
  BY <1>1 DEF NextBatchFirst, NextBatchMore, beyondWork, outside, ToW
<1>3. Head(ch) = e
  BY <1>1 DEF CustodyInv, ChannelIsSuffix
<1>4. batch'[w] = Append(b, e)
  <2>1. CASE NextBatchFirst(w)
    <3>1. b = <<>>
      BY <2>1 DEF NextBatchFirst, CustodyInv, BatchesAreTaken
    <3>. QED  BY <1>1, <1>3, <2>1, <3>1 DEF NextBatchFirst
  <2>2. CASE NextBatchMore(w)
    BY <1>1, <1>3, <2>2 DEF NextBatchMore
  <2>. QED  BY <2>1, <2>2
<1>5. Taken' = Taken + 1 /\ Settled' = Settled
  BY <1>1, <1>2 DEF Taken, Settled
<1>6. pcW'[w] \in {"more", "readLen"}
  BY <1>1 DEF NextBatchFirst, NextBatchMore, ToW
<1>7. InHand(w) = Range(b)
  <2>1. CASE NextBatchFirst(w)
    BY <2>1 DEF NextBatchFirst, InHand, Range, CustodyInv, BatchesAreTaken
  <2>2. CASE NextBatchMore(w)
    BY <2>2 DEF NextBatchMore, InHand
  <2>. QED  BY <2>1, <2>2
<1>8. InHand(w)' = InHand(w) \cup {e}
  <2>1. InHand(w)' = Range(Append(b, e))
    BY <1>4, <1>6 DEF InHand
  <2>2. /\ Append(b, e) \in Seq(Nat) /\ Len(Append(b, e)) = Len(b) + 1
        /\ \A i \in 1..Len(b) : Append(b, e)[i] = b[i]
        /\ Append(b, e)[Len(b) + 1] = e
    BY <1>1
  <2>3. Range(Append(b, e)) = Range(b) \cup {e}
    <3>1. Range(b) = {b[i] : i \in 1..Len(b)}
      BY <1>1 DEF Range
    <3>2. Range(Append(b, e)) = {Append(b, e)[i] : i \in 1..Len(b) + 1}
      BY <2>2 DEF Range
    <3>3. Range(Append(b, e)) \subseteq Range(b) \cup {e}
      BY <1>1, <2>2, <3>1, <3>2
    <3>4. Range(b) \cup {e} \subseteq Range(Append(b, e))
      BY <1>1, <2>2, <3>1, <3>2
    <3>. QED  BY <3>3, <3>4
  <2>. QED  BY <1>7, <2>1, <2>3
<1>9. \A v \in Workers \ {w} : InHand(v)' = InHand(v)
  BY <1>2 DEF InHand
<1>10. ChannelIsSuffix'
  BY <1>1, <1>2, <1>5 DEF CustodyInv, ChannelIsSuffix
<1>11. BatchesAreTaken'
  <2> SUFFICES ASSUME NEW v \in Workers
               PROVE  /\ \A i \in 1..Len(batch'[v]) : batch'[v][i] \in 1..Taken + 1
                      /\ \A i, j \in 1..Len(batch'[v]) : i < j => batch'[v][i] < batch'[v][j]
                      /\ pcW'[v] \in {"new", "first", "exited"} => batch'[v] = <<>>
    BY <1>5 DEF BatchesAreTaken
  <2>1. CASE v = w
    <3>1. /\ \A i \in 1..Len(b) : b[i] \in 1..Taken
          /\ \A i, j \in 1..Len(b) : i < j => b[i] < b[j]
      BY DEF CustodyInv, BatchesAreTaken
    <3>. QED  BY <1>1, <1>4, <1>6, <2>1, <3>1, AppendIncreases
  <2>2. CASE v # w
    <3>1. batch'[v] = batch[v] /\ pcW'[v] = pcW[v]
      BY <1>2, <2>2
    <3>2. /\ \A i \in 1..Len(batch[v]) : batch[v][i] \in 1..Taken
          /\ \A i, j \in 1..Len(batch[v]) : i < j => batch[v][i] < batch[v][j]
          /\ pcW[v] \in {"new", "first", "exited"} => batch[v] = <<>>
      BY DEF CustodyInv, BatchesAreTaken
    <3>3. 1..Taken \subseteq 1..Taken + 1
      BY <1>1
    <3>. QED  BY <3>1, <3>2, <3>3, Zenon
  <2>. QED  BY <2>1, <2>2
<1>12. TakenIsHeldOrSettled'
  <2>1. /\ \A n \in 1..Taken : n \in Settled \/ \E v \in Workers : n \in InHand(v)
        /\ Settled \subseteq 1..Taken
        /\ \A v \in Workers : InHand(v) \subseteq 1..Taken /\ InHand(v) \cap Settled = {}
        /\ \A u, v \in Workers : u # v => InHand(u) \cap InHand(v) = {}
        /\ written \cap failed = {}
    BY DEF CustodyInv, TakenIsHeldOrSettled
  <2>2. 1..Taken' = (1..Taken) \cup {e} /\ e \notin 1..Taken
    BY <1>1, <1>5
  <2>3. \A n \in 1..Taken' : n \in Settled' \/ \E v \in Workers : n \in InHand(v)'
    BY <1>5, <1>8, <1>9, <2>1, <2>2
  <2>4. /\ Settled' \subseteq 1..Taken'
        /\ \A v \in Workers : InHand(v)' \subseteq 1..Taken' /\ InHand(v)' \cap Settled' = {}
    BY <1>5, <1>8, <1>9, <2>1, <2>2
  <2>5. \A u, v \in Workers : u # v => InHand(u)' \cap InHand(v)' = {}
    BY <1>8, <1>9, <2>1, <2>2
  <2>. QED  BY <1>2, <2>1, <2>3, <2>4, <2>5 DEF TakenIsHeldOrSettled
<1>. QED  BY <1>10, <1>11, <1>12 DEF CustodyInv

(* The writer's answer settles the whole batch, and the worker lets go of it. *)
LEMMA ReturnsCustody ==
  ASSUME TypeOK, CustodyInv, NEW w \in Workers, WriteBatchReturns(w)
  PROVE  CustodyInv'
<1>1. /\ pcW \in [Workers -> WorkerPc] /\ pcW[w] = "write" /\ pcW' = [pcW EXCEPT ![w] = "leave"]
      /\ UNCHANGED <<ch, accepted, batch>>
  BY DEF TypeOK, WriteBatchReturns, ToW, beyondWork
<1>2. Taken' = Taken
  BY <1>1 DEF Taken
<1>3. InHand(w) = Range(batch[w]) /\ InHand(w)' = {}
  BY <1>1 DEF InHand
<1>4. \A v \in Workers \ {w} : InHand(v)' = InHand(v)
  BY <1>1 DEF InHand
<1>5. \/ written' = written \cup InHand(w) /\ failed' = failed
      \/ failed' = failed \cup InHand(w) /\ written' = written
  BY <1>3, Zenon DEF WriteBatchReturns
<1>6. Settled' = Settled \cup InHand(w)
  BY <1>5 DEF Settled
<1>7. ChannelIsSuffix'
  BY <1>1, <1>2 DEF CustodyInv, ChannelIsSuffix
<1>8. BatchesAreTaken'
  BY <1>1, <1>2 DEF CustodyInv, BatchesAreTaken
<1>9. TakenIsHeldOrSettled'
  <2>1. /\ \A n \in 1..Taken : n \in Settled \/ \E v \in Workers : n \in InHand(v)
        /\ Settled \subseteq 1..Taken
        /\ \A v \in Workers : InHand(v) \subseteq 1..Taken /\ InHand(v) \cap Settled = {}
        /\ \A u, v \in Workers : u # v => InHand(u) \cap InHand(v) = {}
        /\ written \cap failed = {}
    BY DEF CustodyInv, TakenIsHeldOrSettled
  <2>2. \A n \in 1..Taken' : n \in Settled' \/ \E v \in Workers : n \in InHand(v)'
    BY <1>2, <1>4, <1>6, <2>1
  <2>3. /\ Settled' \subseteq 1..Taken'
        /\ \A v \in Workers : InHand(v)' \subseteq 1..Taken' /\ InHand(v)' \cap Settled' = {}
    <3>1. Settled' \subseteq 1..Taken'
      BY <1>2, <1>6, <2>1
    <3>2. ASSUME NEW v \in Workers
          PROVE  InHand(v)' \subseteq 1..Taken' /\ InHand(v)' \cap Settled' = {}
      <4>1. CASE v = w  BY <1>3, <4>1
      <4>2. CASE v # w
        <5>1. InHand(v)' = InHand(v)
          BY <1>4, <4>2
        <5>2. InHand(v) \cap InHand(w) = {} /\ InHand(v) \cap Settled = {}
          BY <2>1, <4>2
        <5>. QED  BY <1>2, <1>6, <2>1, <5>1, <5>2
      <4>. QED  BY <4>1, <4>2
    <3>. QED  BY <3>1, <3>2
  <2>5. \A u, v \in Workers : u # v => InHand(u)' \cap InHand(v)' = {}
    BY <1>3, <1>4, <2>1
  <2>4. written' \cap failed' = {}
    BY <1>5, <2>1 DEF Settled
  <2>. QED  BY <2>2, <2>3, <2>4, <2>5 DEF TakenIsHeldOrSettled
<1>. QED  BY <1>7, <1>8, <1>9 DEF CustodyInv

(* The worker forgets a batch that has been settled. *)
LEMMA LeaveCustody ==
  ASSUME TypeOK, CustodyInv, NEW w \in Workers, WriteBatchLeave(w)
  PROVE  CustodyInv'
<1>1. /\ pcW \in [Workers -> WorkerPc] /\ batch \in [Workers -> Seq(Nat)]
      /\ pcW[w] = "leave" /\ pcW'[w] \in {"first", "exited"} /\ batch'[w] = <<>>
      /\ \A v \in Workers \ {w} : pcW'[v] = pcW[v] /\ batch'[v] = batch[v]
      /\ UNCHANGED <<ch, accepted, written, failed>>
  BY DEF TypeOK, WriteBatchLeave, ToW, beyondWork
<1>2. Taken' = Taken /\ Settled' = Settled
  BY <1>1 DEF Taken, Settled
<1>3. \A v \in Workers : InHand(v)' = InHand(v)
  BY <1>1 DEF InHand
<1>4. ChannelIsSuffix'
  BY <1>1, <1>2 DEF CustodyInv, ChannelIsSuffix
<1>5. BatchesAreTaken'
  BY <1>1, <1>2 DEF CustodyInv, BatchesAreTaken
<1>6. TakenIsHeldOrSettled'
  BY <1>1, <1>2, <1>3 DEF CustodyInv, TakenIsHeldOrSettled
<1>. QED  BY <1>4, <1>5, <1>6 DEF CustodyInv

LEMMA WorkCustody ==
  ASSUME TypeOK, CustodyInv, NEW w \in Workers, work(w)
  PROVE  CustodyInv'
<1>1. CASE NextBatchFirst(w) \/ NextBatchMore(w)  BY <1>1, TakeCustody
<1>2. CASE WriteBatchReturns(w)  BY <1>2, ReturnsCustody
<1>3. CASE WriteBatchLeave(w)    BY <1>3, LeaveCustody
<1>4. CASE \/ NextBatchClosed(w) \/ NextBatchLast(w) \/ NextBatchTimeout(w)
           \/ WriteBatchReadLen(w) \/ WriteBatchEnter(w)
  <2>1. pcW \in [Workers -> WorkerPc]
    BY DEF TypeOK
  <2>2. UNCHANGED <<ch, accepted, batch, written, failed>>
    BY <1>4 DEF NextBatchClosed, NextBatchLast, NextBatchTimeout, WriteBatchReadLen,
                WriteBatchEnter, beyondWork, outside
  <2>3. \A v \in Workers \ {w} : pcW'[v] = pcW[v]
    BY <1>4, <2>1 DEF NextBatchClosed, NextBatchLast, NextBatchTimeout, WriteBatchReadLen,
                WriteBatchEnter, ToW
  <2>4. \/ pcW[w] = "first" /\ pcW'[w] = "exited"
        \/ /\ pcW[w] \in {"more", "readLen", "enter"}
           /\ pcW'[w] \in {"readLen", "enter", "write"}
    BY <1>4, <2>1 DEF NextBatchClosed, NextBatchLast, NextBatchTimeout, WriteBatchReadLen,
                WriteBatchEnter, ToW
  <2>5. \A v \in Workers : InHand(v)' = InHand(v)
    BY <2>2, <2>3, <2>4 DEF InHand
  <2>6. \A v \in Workers : pcW'[v] \in {"new", "first", "exited"} => batch[v] = <<>>
    BY <2>3, <2>4 DEF CustodyInv, BatchesAreTaken
  <2>. QED  BY <2>2, <2>5, <2>6, CustodyFrame
<1>. QED  BY <1>1, <1>2, <1>3, <1>4 DEF work

LEMMA CustodyInvariant == Spec => []CustodyInv
<1>1. TypeOK /\ WorkersExist /\ CustodyInv /\ [Next]_vars => CustodyInv'
  <2> SUFFICES ASSUME TypeOK, WorkersExist, CustodyInv, [Next]_vars PROVE CustodyInv'
    OBVIOUS
  <2>1. CASE Start
    <3>1. /\ UNCHANGED <<ch, accepted, batch, written, failed>>
          /\ \A w \in Workers : pcW[w] = "new" /\ pcW'[w] = "first"
      BY <2>1 DEF Start, WorkersExist
    <3>2. \A w \in Workers : InHand(w)' = InHand(w)
      BY <3>1 DEF InHand
    <3>. QED  BY <3>1, <3>2, CustodyFrame DEF CustodyInv, BatchesAreTaken
  <2>2. CASE \E p \in Producers : Enqueue(p)
    BY <2>2, EnqueueCustody
  <2>3. CASE \E w \in Workers : work(w)
    BY <2>3, WorkCustody
  <2>4. CASE (\E s \in Stoppers : Stop(s)) \/ UNCHANGED vars
    <3>1. UNCHANGED <<ch, accepted, pcW, batch, written, failed>>
      BY <2>4, StopLeavesWork DEF workerVars, vars
    <3>2. \A w \in Workers : InHand(w)' = InHand(w)
      BY <3>1 DEF InHand
    <3>. QED  BY <3>1, <3>2, CustodyFrame DEF CustodyInv, BatchesAreTaken
  <2>. QED  BY <2>1, <2>2, <2>3, <2>4 DEF Next
<1>. QED  BY InitCustody, TypeCorrect, WorkersExistInvariant, <1>1, PTL DEF Spec

(* The channel holds Taken + 1 .. accepted. *)
LEMMA ChannelRange ==
  ASSUME TypeOK, CustodyInv
  PROVE  /\ Range(ch) = (Taken + 1)..accepted
         /\ IsInjective(ch)
<1>1. /\ ch \in Seq(Nat) /\ Len(ch) \in Nat /\ accepted \in Nat /\ Taken \in Nat
      /\ accepted = Taken + Len(ch) /\ \A i \in 1..Len(ch) : ch[i] = Taken + i
  BY DEF TypeOK, CustodyInv, ChannelIsSuffix, Taken
<1>2. Range(ch) = {ch[i] : i \in 1..Len(ch)} /\ DOMAIN ch = 1..Len(ch)
  BY <1>1 DEF Range
<1>3. Range(ch) \subseteq (Taken + 1)..accepted
  BY <1>1, <1>2
<1>4. ASSUME NEW e \in (Taken + 1)..accepted
      PROVE  e \in Range(ch)
  <2>1. e - Taken \in 1..Len(ch) /\ ch[e - Taken] = e
    BY <1>1
  <2>. QED  BY <1>2, <2>1
<1>. QED  BY <1>1, <1>2, <1>3, <1>4 DEF IsInjective

(* Every event the channel has accepted is in the channel, held by one worker
   or settled one way, for any number of workers, capacity and batch size. *)
THEOREM EventsInCustody == Spec => []Custody
<1>1. TypeOK /\ CustodyInv => Custody
  <2> SUFFICES ASSUME TypeOK, CustodyInv PROVE Custody
    OBVIOUS
  <2>1. /\ Taken \in Nat /\ accepted \in Nat /\ Taken <= accepted
        /\ Range(ch) = (Taken + 1)..accepted /\ IsInjective(ch)
    BY ChannelRange DEF TypeOK, CustodyInv, ChannelIsSuffix, Taken
  <2>2. 1..accepted = Range(ch) \cup 1..Taken /\ Range(ch) \cap 1..Taken = {}
    <3>1. /\ 1..accepted = ((Taken + 1)..accepted) \cup 1..Taken
          /\ ((Taken + 1)..accepted) \cap 1..Taken = {}
      BY <2>1
    <3>. QED  BY <2>1, <3>1
  <2>3. 1..Taken = InHands \cup Settled
    <3>1. /\ \A e \in 1..Taken : e \in Settled \/ \E w \in Workers : e \in InHand(w)
          /\ Settled \subseteq 1..Taken
          /\ \A w \in Workers : InHand(w) \subseteq 1..Taken
      BY DEF CustodyInv, TakenIsHeldOrSettled
    <3>2. \A e : e \in InHands <=> \E w \in Workers : e \in InHand(w)
      BY Zenon DEF InHands
    <3>. QED  BY <3>1, <3>2, Zenon
  <2>4. ASSUME NEW w \in Workers
        PROVE  IsInjective(batch[w])
    <3>1. /\ batch[w] \in Seq(Nat) /\ DOMAIN batch[w] = 1..Len(batch[w])
          /\ \A i, j \in 1..Len(batch[w]) : i < j => batch[w][i] < batch[w][j]
      BY DEF TypeOK, CustodyInv, BatchesAreTaken
    <3>2. \A i \in 1..Len(batch[w]) : batch[w][i] \in Nat
      BY <3>1
    <3>. QED  BY <3>1, <3>2 DEF IsInjective
  <2>5. \A w \in Workers :
          /\ InHand(w) \cap (Range(ch) \cup Settled) = {}
          /\ \A v \in Workers \ {w} : InHand(w) \cap InHand(v) = {}
    BY <2>2 DEF CustodyInv, TakenIsHeldOrSettled
  <2>6. Range(ch) \cap Settled = {} /\ written \cap failed = {}
    BY <2>2 DEF CustodyInv, TakenIsHeldOrSettled
  <2>. QED  BY <2>1, <2>2, <2>3, <2>4, <2>5, <2>6 DEF Custody
<1>. QED  BY CustodyInvariant, TypeCorrect, <1>1, PTL

(* A batch holds events in the order of their acceptance, and no event in the
   channel is older than one that has left it. *)
THEOREM EventsInOrder == Spec => []BatchesKeepOrder
<1>1. TypeOK /\ CustodyInv => BatchesKeepOrder
  <2> SUFFICES ASSUME TypeOK, CustodyInv PROVE BatchesKeepOrder
    OBVIOUS
  <2>1. \A w \in Workers : \A i, j \in DOMAIN batch[w] : i < j => batch[w][i] < batch[w][j]
    <3>1. \A w \in Workers : DOMAIN batch[w] = 1..Len(batch[w])
      BY DEF TypeOK
    <3>. QED  BY <3>1 DEF CustodyInv, BatchesAreTaken
  <2>2. \A e \in Range(ch) : \A f \in (1..accepted) \ Range(ch) : f < e
    BY ChannelRange DEF TypeOK, CustodyInv, ChannelIsSuffix
  <2>. QED  BY <2>1, <2>2 DEF BatchesKeepOrder
<1>. QED  BY CustodyInvariant, TypeCorrect, <1>1, PTL

----------------------------------------------------------------------------
(* The end of the workers, and what Stop does after it.                    *)

LEMMA InitDrain == Init => DrainInv
BY QueueAssumption DEF Init, DrainInv, WorkersEnd, CancelOnlyAfterDrain

LEMMA StartDrain ==
  ASSUME TypeOK, WorkersExist, DrainInv, Start
  PROVE  DrainInv'
<1>1. /\ \A s \in Stoppers : pcS[s] = "idle" /\ done[s] = FALSE
      /\ \A w \in Workers : pcW[w] = "new" /\ pcW'[w] = "first"
      /\ UNCHANGED <<ch, closed, more, writeCancelled, writerClosed, pcS, done, timedOut>>
  BY DEF Start, TypeOK, WorkersExist, DrainInv, WorkersEnd, Drains, stopperVars
<1>2. WorkersEnd'
  BY <1>1 DEF DrainInv, WorkersEnd
<1>3. CancelOnlyAfterDrain'
  BY <1>1, QueueAssumption DEF DrainInv, CancelOnlyAfterDrain
<1>. QED  BY <1>2, <1>3 DEF DrainInv

LEMMA EnqueueDrain ==
  ASSUME TypeOK, LockInv, DrainInv, NEW p \in Producers, Enqueue(p)
  PROVE  DrainInv'
<1>1. UNCHANGED <<closed, pcW, more, writeCancelled, writerClosed, pcS, done, timedOut>>
  BY EnqueueLeavesWork DEF lifeVars, workerVars, stopperVars
<1>2. closed => ch' = ch
  BY EnqueueLeavesWork DEF EnqueueSend, LockInv, NoSendOnClosedChannel
<1>. QED  BY <1>1, <1>2 DEF DrainInv, WorkersEnd, CancelOnlyAfterDrain, Drains, WaitGroupIsZero

LEMMA WorkDrain ==
  ASSUME TypeOK, DrainInv, NEW w \in Workers, work(w)
  PROVE  DrainInv'
<1>1. UNCHANGED <<closed, writeCancelled, writerClosed, pcS, done, timedOut>>
  BY WorkLeavesLock DEF lifeVars, stopperVars
<1>2. /\ pcW[w] \notin {"new", "exited"}
      /\ \A v \in Workers \ {w} : pcW'[v] = pcW[v] /\ more'[v] = more[v]
  BY WorkMoves
<1>3. \A s \in Stoppers : ~done[s]
  BY <1>2 DEF DrainInv, WorkersEnd, WaitGroupIsZero
<1>4. \A v \in Workers : pcW'[v] = "exited" \/ ~more'[v] => closed /\ ch' = <<>>
  <2> USE DEF TypeOK, DrainInv, WorkersEnd, ToW
  <2>1. CASE NextBatchFirst(w) \/ NextBatchMore(w)
    BY <1>2, <2>1 DEF NextBatchFirst, NextBatchMore
  <2>2. CASE NextBatchClosed(w) \/ NextBatchLast(w)
    BY <1>2, <2>2 DEF NextBatchClosed, NextBatchLast
  <2>3. CASE \/ NextBatchTimeout(w) \/ WriteBatchReadLen(w) \/ WriteBatchEnter(w)
             \/ WriteBatchReturns(w)
    <3>1. ch' = ch /\ more' = more /\ pcW'[w] # "exited"
      BY <2>3 DEF NextBatchTimeout, WriteBatchReadLen, WriteBatchEnter, WriteBatchReturns,
                  beyondWork
    <3>. QED  BY <1>2, <3>1
  <2>4. CASE WriteBatchLeave(w)
    BY <1>2, <2>4 DEF WriteBatchLeave
  <2>. QED  BY <2>1, <2>2, <2>3, <2>4 DEF work
<1>5. WorkersEnd'
  BY <1>1, <1>3, <1>4 DEF DrainInv, WorkersEnd
<1>6. CancelOnlyAfterDrain'
  BY <1>1, <1>2 DEF DrainInv, CancelOnlyAfterDrain
<1>. QED  BY <1>5, <1>6 DEF DrainInv

LEMMA StopDrain ==
  ASSUME TypeOK, WorkersExist, DrainInv, NEW s \in Stoppers, Stop(s)
  PROVE  DrainInv'
<1>1. /\ UNCHANGED <<ch, started, pcW, more>>
      /\ pcS \in [Stoppers -> StopperPc] /\ done \in [Stoppers -> BOOLEAN]
      /\ timedOut \in [Stoppers -> BOOLEAN]
  BY StopLeavesWork DEF workerVars, TypeOK
<1>2. closed => closed'
  BY DEF Stop, StopLock, StopCloseChannel, StopWaiter, StopDrained, StopDrainTimeout,
         StopReadLen, StopReadInFlight, StopCloseWriter
<1>3. \A t \in Stoppers : done'[t] => Drains(t)' /\ WaitGroupIsZero'
  <2> USE <1>1 DEF DrainInv, WorkersEnd, Drains, WaitGroupIsZero, ToS
  <2>1. CASE StopLock(s)         BY <2>1 DEF StopLock
  <2>2. CASE StopCloseChannel(s) BY <2>2 DEF StopCloseChannel
  <2>3. CASE StopWaiter(s)       BY <2>3 DEF StopWaiter
  <2>4. CASE StopDrained(s)      BY <2>4 DEF StopDrained
  <2>5. CASE StopDrainTimeout(s) BY <2>5 DEF StopDrainTimeout
  <2>6. CASE StopReadLen(s)      BY <2>6 DEF StopReadLen
  <2>7. CASE StopReadInFlight(s) BY <2>7 DEF StopReadInFlight
  <2>8. CASE StopCloseWriter(s)  BY <2>8 DEF StopCloseWriter
  <2>. QED  BY <2>1, <2>2, <2>3, <2>4, <2>5, <2>6, <2>7, <2>8 DEF Stop
<1>4. (\E t \in Stoppers : done[t]) => \E t \in Stoppers : done'[t]
  BY <1>1 DEF Stop, StopLock, StopCloseChannel, StopWaiter, StopDrained, StopDrainTimeout,
         StopReadLen, StopReadInFlight, StopCloseWriter
<1>5. writerClosed' => \E t \in Stoppers : done'[t]
  BY <1>1, <1>4 DEF Stop, StopLock, StopCloseChannel, StopWaiter, StopDrained, StopDrainTimeout,
         StopReadLen, StopReadInFlight, StopCloseWriter, DrainInv, WorkersEnd
<1>6. CancelOnlyAfterDrain'
  <2>1. CASE StopDrained(s)
    <3>1. WaitGroupIsZero
      BY <2>1 DEF StopDrained, DrainInv, WorkersEnd
    <3>. QED  BY <1>1, <2>1, <3>1
              DEF StopDrained, CancelOnlyAfterDrain, WaitGroupIsZero, WorkersExist
  <2>2. CASE StopDrainTimeout(s)
    BY <1>1, <2>2 DEF StopDrainTimeout, CancelOnlyAfterDrain
  <2>3. CASE ~StopDrained(s) /\ ~StopDrainTimeout(s)
    <3>1. UNCHANGED <<writeCancelled, timedOut>>
      BY <2>3 DEF Stop, StopLock, StopCloseChannel, StopWaiter, StopReadLen, StopReadInFlight,
                  StopCloseWriter
    <3>. QED  BY <1>1, <3>1 DEF DrainInv, CancelOnlyAfterDrain
  <2>. QED  BY <2>1, <2>2, <2>3
<1>. QED  BY <1>1, <1>2, <1>3, <1>5, <1>6 DEF DrainInv, WorkersEnd

LEMMA DrainInvariant == Spec => []DrainInv
<1>1. TypeOK /\ LockInv /\ WorkersExist /\ DrainInv /\ [Next]_vars => DrainInv'
  <2> SUFFICES ASSUME TypeOK, LockInv, WorkersExist, DrainInv, [Next]_vars PROVE DrainInv'
    OBVIOUS
  <2>1. CASE Start  BY <2>1, StartDrain
  <2>2. CASE \E p \in Producers : Enqueue(p)  BY <2>2, EnqueueDrain
  <2>3. CASE \E w \in Workers : work(w)  BY <2>3, WorkDrain
  <2>4. CASE \E s \in Stoppers : Stop(s)  BY <2>4, StopDrain
  <2>5. CASE UNCHANGED vars
    BY <2>5 DEF vars, lifeVars, workerVars, stopperVars, DrainInv, WorkersEnd,
                CancelOnlyAfterDrain, Drains, WaitGroupIsZero
  <2>. QED  BY <2>1, <2>2, <2>3, <2>4, <2>5 DEF Next
<1>. QED  BY InitDrain, TypeCorrect, LockInvariant, WorkersExistInvariant, <1>1, PTL DEF Spec

(* writeCancel comes after the last worker has returned or the drain deadline
   has passed, for any number of workers and of concurrent Stops. *)
THEOREM WritesAreNotCutShort == Spec => []CancelOnlyAfterDrain
<1>1. DrainInv => CancelOnlyAfterDrain
  BY DEF DrainInv
<1>. QED  BY DrainInvariant, <1>1, PTL

(* The writer is closed only when no worker can enter it any more and every
   event accepted by a queue that was started has been settled. *)
THEOREM CloseComesLast == Spec => []CloseFollowsEveryWrite
<1>1. TypeOK /\ WorkersExist /\ CustodyInv /\ DrainInv => CloseFollowsEveryWrite
  <2> SUFFICES ASSUME TypeOK, WorkersExist, CustodyInv, DrainInv, writerClosed
               PROVE  /\ WaitGroupIsZero
                      /\ started => Settled = 1..accepted
    BY DEF CloseFollowsEveryWrite, WaitGroupIsZero
  <2>1. WaitGroupIsZero
    BY DEF DrainInv, WorkersEnd
  <2>2. ASSUME started
        PROVE  Settled = 1..accepted
    <3>1. \A w \in Workers : pcW[w] = "exited"
      BY <2>1, <2>2 DEF WaitGroupIsZero, WorkersExist
    <3>2. ch = <<>>
      BY <3>1, QueueAssumption DEF DrainInv, WorkersEnd
    <3>3. Taken = accepted
      BY <3>2 DEF Taken, TypeOK
    <3>4. \A w \in Workers : InHand(w) = {}
      BY <3>1 DEF InHand
    <3>. QED  BY <3>3, <3>4 DEF CustodyInv, TakenIsHeldOrSettled
  <2>. QED  BY <2>1, <2>2
<1>. QED  BY TypeCorrect, WorkersExistInvariant, CustodyInvariant, DrainInvariant, <1>1, PTL

----------------------------------------------------------------------------
(***************************************************************************)
(* The queue implements EventLedger, for any number of handlers, workers   *)
(* and Stops, any capacity and any batch limit: every step of a goroutine  *)
(* is a step of the ledger or leaves the ledger as it is.  And its         *)
(* counters say at every instant what happened to the events.              *)
(***************************************************************************)

Pending == Range(ch) \cup InHands

(* By custody, what is pending is what was accepted and not settled. *)
LEMMA PendingIsUnsettled == Custody => Pending = Unsettled
<1> SUFFICES ASSUME Custody PROVE Pending = Unsettled
  OBVIOUS
<1>1. 1..accepted = Range(ch) \cup InHands \cup Settled /\ Range(ch) \cap Settled = {}
  BY DEF Custody
<1>2. \A e : e \in InHands <=> \E w \in Workers : e \in InHand(w)
  BY Zenon DEF InHands
<1>3. InHands \cap Settled = {}
  BY <1>2, Zenon DEF Custody
<1>. QED  BY <1>1, <1>3, Zenon DEF Pending, Unsettled

----------------------------------------------------------------------------
(* What the ledger asks for beyond custody: batches are neither empty nor   *)
(* too long, and the numbers of the events stay within the offers.          *)

BatchSizes ==
  \A w \in Workers :
    /\ pcW[w] = "more" => Len(batch[w]) \in 1..(MaxBatch - 1)
    /\ pcW[w] \in {"readLen", "enter", "write"} => Len(batch[w]) \in 1..MaxBatch

(* nextBatch stops at MaxBatch and never hands over an empty batch. *)
LEMMA WorkSizes ==
  ASSUME TypeOK, BatchSizes, NEW w \in Workers, work(w)
  PROVE  BatchSizes'
<1> USE DEF ToW
<1>1. /\ batch[w] \in Seq(Nat) /\ Len(batch[w]) \in Nat /\ ch \in Seq(Nat)
      /\ pcW \in [Workers -> WorkerPc] /\ batch \in [Workers -> Seq(Nat)]
      /\ MaxBatch \in Nat \ {0}
  BY QueueAssumption DEF TypeOK
<1> DEFINE Sized(l, n) == /\ l = "more" => n \in 1..(MaxBatch - 1)
                          /\ l \in {"readLen", "enter", "write"} => n \in 1..MaxBatch
<1>2. Sized(pcW[w], Len(batch[w]))
  BY DEF BatchSizes
<1>3. ASSUME Sized(pcW'[w], Len(batch'[w])),
             \A v \in Workers \ {w} : pcW'[v] = pcW[v] /\ batch'[v] = batch[v]
      PROVE  BatchSizes'
  BY <1>3 DEF BatchSizes
<1>4. CASE NextBatchFirst(w)
  <2>1. batch'[w] = <<Head(ch)>> /\ pcW'[w] = IF MaxBatch = 1 THEN "readLen" ELSE "more"
    BY <1>1, <1>4 DEF NextBatchFirst
  <2>2. Len(batch'[w]) = 1
    BY <2>1
  <2>3. Sized(pcW'[w], Len(batch'[w]))
    BY <1>1, <2>1, <2>2
  <2>. QED  BY <1>1, <1>3, <1>4, <2>3 DEF NextBatchFirst
<1>5. CASE NextBatchMore(w)
  <2>1. /\ batch'[w] = Append(batch[w], Head(ch)) /\ pcW[w] = "more"
        /\ pcW'[w] = IF Len(batch[w]) + 1 < MaxBatch THEN "more" ELSE "readLen"
    BY <1>1, <1>5 DEF NextBatchMore
  <2>2. Len(batch'[w]) = Len(batch[w]) + 1
    BY <1>1, <2>1
  <2>3. Sized(pcW'[w], Len(batch'[w]))
    BY <1>1, <1>2, <2>1, <2>2
  <2>. QED  BY <1>1, <1>3, <1>5, <2>3 DEF NextBatchMore
<1>6. CASE \/ NextBatchClosed(w) \/ NextBatchLast(w) \/ NextBatchTimeout(w)
           \/ WriteBatchReadLen(w) \/ WriteBatchEnter(w) \/ WriteBatchReturns(w)
  <2>1. /\ UNCHANGED batch
        /\ \/ pcW'[w] \in {"exited", "leave"}
           \/ pcW[w] = "more" /\ pcW'[w] = "readLen"
           \/ pcW[w] \in {"readLen", "enter"} /\ pcW'[w] \in {"enter", "write"}
        /\ \A v \in Workers \ {w} : pcW'[v] = pcW[v]
    BY <1>1, <1>6 DEF NextBatchClosed, NextBatchLast, NextBatchTimeout, WriteBatchReadLen,
       WriteBatchEnter, WriteBatchReturns
  <2>2. Sized(pcW'[w], Len(batch'[w]))
    BY <1>1, <1>2, <2>1
  <2>. QED  BY <1>3, <2>1, <2>2
<1>7. CASE WriteBatchLeave(w)
  <2>1. /\ pcW'[w] \in {"first", "exited"}
        /\ \A v \in Workers \ {w} : pcW'[v] = pcW[v] /\ batch'[v] = batch[v]
    BY <1>1, <1>7 DEF WriteBatchLeave
  <2>. QED  BY <1>3, <2>1
<1>. QED  BY <1>4, <1>5, <1>6, <1>7 DEF work

LEMMA SizesInvariant == Spec => []BatchSizes
<1>1. Init => BatchSizes
  BY DEF Init, BatchSizes
<1>2. TypeOK /\ BatchSizes /\ [Next]_vars => BatchSizes'
  <2> SUFFICES ASSUME TypeOK, BatchSizes, [Next]_vars PROVE BatchSizes'
    OBVIOUS
  <2>1. CASE Start
    BY <2>1 DEF Start, BatchSizes
  <2>2. CASE \E w \in Workers : work(w)
    BY <2>2, WorkSizes
  <2>3. CASE \/ \E p \in Producers : Enqueue(p)
             \/ \E s \in Stoppers : Stop(s)
             \/ UNCHANGED vars
    <3>1. UNCHANGED <<pcW, batch>>
      BY <2>3, EnqueueLeavesWork, StopLeavesWork DEF workerVars, vars
    <3>. QED  BY <3>1 DEF BatchSizes
  <2>. QED  BY <2>1, <2>2, <2>3 DEF Next
<1>. QED  BY <1>1, <1>2, TypeCorrect, PTL DEF Spec

(* The calls of Enqueue whose event may still be accepted. *)
Calling == {p \in Producers : pcP[p] \in {"rlock", "send"}}

OffersBound == offered <= MaxOffers /\ accepted + Cardinality(Calling) <= offered

LEMMA EnqueueOffers ==
  ASSUME TypeOK, OffersBound, NEW p \in Producers, Enqueue(p)
  PROVE  OffersBound'
<1> USE DEF ToP
<1>1. /\ pcP \in [Producers -> ProducerPc] /\ offered \in Nat /\ accepted \in Nat
      /\ MaxOffers \in Nat
  BY QueueAssumption DEF TypeOK
<1>2. IsFiniteSet(Calling) /\ Cardinality(Calling) \in Nat
  BY QueueAssumption, FS_Subset, FS_CardinalityType DEF Calling
<1>3. CASE EnqueueCall(p)
  <2>1. Calling' = Calling \cup {p} /\ p \notin Calling
    BY <1>1, <1>3 DEF EnqueueCall, Calling
  <2>2. Cardinality(Calling') = Cardinality(Calling) + 1
    BY <1>2, <2>1, FS_AddElement
  <2>3. offered < MaxOffers /\ offered' = offered + 1 /\ accepted' = accepted
    BY <1>3 DEF EnqueueCall
  <2>. QED  BY <1>1, <1>2, <2>2, <2>3 DEF OffersBound
<1>4. CASE EnqueueOpen(p)
  <2>1. Calling' = Calling /\ offered' = offered /\ accepted' = accepted
    BY <1>1, <1>4 DEF EnqueueOpen, Calling
  <2>. QED  BY <2>1 DEF OffersBound
<1>5. CASE EnqueueClosed(p) \/ EnqueueSend(p) \/ EnqueueFull(p)
  <2>1. Calling' = Calling \ {p} /\ p \in Calling
    BY <1>1, <1>5 DEF EnqueueClosed, EnqueueSend, EnqueueFull, Calling
  <2>2. Cardinality(Calling') = Cardinality(Calling) - 1
    BY <1>2, <2>1, FS_RemoveElement
  <2>3. offered' = offered /\ accepted' \in {accepted, accepted + 1}
    BY <1>5 DEF EnqueueClosed, EnqueueSend, EnqueueFull
  <2>. QED  BY <1>1, <1>2, <2>2, <2>3 DEF OffersBound
<1>6. CASE EnqueueReadLen(p) \/ EnqueueSetDepth(p)
  <2>1. Calling' = Calling /\ offered' = offered /\ accepted' = accepted
    BY <1>1, <1>6 DEF EnqueueReadLen, EnqueueSetDepth, Calling
  <2>. QED  BY <2>1 DEF OffersBound
<1>. QED  BY <1>3, <1>4, <1>5, <1>6 DEF Enqueue

LEMMA OffersInvariant == Spec => []OffersBound
<1>1. Init => OffersBound
  <2> SUFFICES ASSUME Init PROVE OffersBound
    OBVIOUS
  <2>1. Calling = {} /\ offered = 0 /\ accepted = 0
    BY DEF Init, Calling
  <2>2. Cardinality(Calling) = 0
    BY <2>1, FS_EmptySet
  <2>. QED  BY <2>1, <2>2, QueueAssumption DEF OffersBound
<1>2. TypeOK /\ OffersBound /\ [Next]_vars => OffersBound'
  <2> SUFFICES ASSUME TypeOK, OffersBound, [Next]_vars PROVE OffersBound'
    OBVIOUS
  <2>1. CASE \E p \in Producers : Enqueue(p)
    BY <2>1, EnqueueOffers
  <2>2. CASE \/ Start \/ (\E w \in Workers : work(w)) \/ (\E s \in Stoppers : Stop(s))
             \/ UNCHANGED vars
    <3>1. UNCHANGED <<pcP, offered, accepted>>
      <4>1. Start => UNCHANGED <<pcP, offered, accepted>>
        BY DEF Start, producerVars
      <4>2. ASSUME NEW w \in Workers, work(w) PROVE UNCHANGED <<pcP, offered, accepted>>
        BY <4>2 DEF work, NextBatchFirst, NextBatchClosed, NextBatchMore, NextBatchLast,
           NextBatchTimeout, WriteBatchReadLen, WriteBatchEnter, WriteBatchReturns,
           WriteBatchLeave, beyondWork, producerVars
      <4>3. ASSUME NEW s \in Stoppers, Stop(s) PROVE UNCHANGED <<pcP, offered, accepted>>
        BY <4>3 DEF Stop, StopLock, StopCloseChannel, StopWaiter, StopDrained,
           StopDrainTimeout, StopReadLen, StopReadInFlight, StopCloseWriter, beyondStop,
           producerVars
      <4>. QED  BY <2>2, <4>1, <4>2, <4>3 DEF vars, producerVars
    <3>. QED  BY <3>1 DEF OffersBound, Calling
  <2>. QED  BY <2>1, <2>2 DEF Next
<1>. QED  BY <1>1, <1>2, TypeCorrect, PTL DEF Spec

----------------------------------------------------------------------------
(* The refinement.                                                         *)

(* A batch of n events is a set of at most n. *)
LEMMA RangeIsSmall ==
  ASSUME NEW b \in Seq(Nat)
  PROVE  Cardinality(Range(b)) <= Len(b)
<1>1. Len(b) \in Nat /\ DOMAIN b = 1..Len(b)
  OBVIOUS
<1>2. b \in Surjection(1..Len(b), Range(b))
  BY <1>1 DEF Surjection, Range
<1>3. ExistsSurjection(1..Len(b), Range(b))
  BY <1>2, Zenon DEF ExistsSurjection
<1>. QED  BY <1>1, <1>3, FS_SurjCardinalityBound

(* What the ledger sees of a state. *)
Seen == <<closed, started, Pending, written, failed, writerClosed>>

LEMMA SendAccepts ==
  ASSUME TypeOK, Custody, Custody', LockInv, OffersBound,
         NEW p \in Producers, EnqueueSend(p)
  PROVE  \E e \in Events : Ledger!Accept(e)
<1> DEFINE e == accepted + 1
<1>1. accepted \in Nat /\ offered \in Nat /\ MaxOffers \in Nat
  BY QueueAssumption DEF TypeOK
<1>2. pcP[p] = "send" /\ accepted' = e /\ UNCHANGED <<closed, lifeVars, written, failed>>
  BY DEF EnqueueSend, beyondEnqueue
<1>3. ~closed
  BY <1>2 DEF LockInv, NoSendOnClosedChannel
<1>4. e \in Events
  <2>1. p \in Calling
    BY <1>2 DEF Calling
  <2>2. IsFiniteSet(Calling)
    BY QueueAssumption, FS_Subset DEF Calling
  <2>3. Cardinality(Calling) \in Nat /\ Cardinality(Calling) # 0
    BY <2>1, <2>2, FS_CardinalityType, FS_EmptySet
  <2>. QED  BY <1>1, <2>3 DEF OffersBound, Events
<1>5. Pending = Unsettled /\ (Pending = Unsettled)'
  BY PendingIsUnsettled, PTL
<1>6. Settled' = Settled /\ Settled \subseteq 1..accepted
  BY <1>2 DEF Settled, Custody
<1>7. Pending' = Pending \cup {e} /\ e \notin Pending \cup written \cup failed
  BY <1>1, <1>2, <1>5, <1>6 DEF Unsettled, Settled
<1>8. Ledger!Accept(e)
  BY <1>2, <1>3, <1>7 DEF Ledger!Accept, Pending, lifeVars
<1>. QED  BY <1>4, <1>8

LEMMA ReturnSettles ==
  ASSUME TypeOK, Custody, Custody', WorkersExist, BatchSizes, CloseFollowsEveryWrite,
         accepted <= MaxOffers, NEW w \in Workers, WriteBatchReturns(w)
  PROVE  \E B \in SUBSET Events : Ledger!Settle(B)
<1> DEFINE B == Range(batch[w])
<1>1. /\ pcW[w] = "write" /\ UNCHANGED <<closed, lifeVars, accepted>>
      /\ \/ written' = written \cup B /\ failed' = failed
         \/ failed' = failed \cup B /\ written' = written
  BY DEF WriteBatchReturns, beyondWork
<1>2. started /\ ~writerClosed
  BY <1>1 DEF WorkersExist, CloseFollowsEveryWrite
<1>3. /\ batch[w] \in Seq(Nat) /\ Len(batch[w]) \in 1..MaxBatch /\ MaxBatch \in Nat
      /\ DOMAIN batch[w] = 1..Len(batch[w]) /\ accepted \in Nat /\ MaxOffers \in Nat
  BY <1>1, QueueAssumption DEF TypeOK, BatchSizes
<1>4. B # {}
  <2>1. 1 \in DOMAIN batch[w]
    BY <1>3
  <2>. QED  BY <2>1 DEF Range
<1>5. Cardinality(B) <= MaxBatch
  <2>1. Cardinality(B) <= Len(batch[w])
    BY <1>3, RangeIsSmall
  <2>2. IsFiniteSet(B)
    <3>1. B \subseteq 1..accepted /\ IsFiniteSet(1..accepted)
      <4>1. InHand(w) = B
        BY <1>1 DEF InHand
      <4>2. InHand(w) \subseteq InHands
        BY Zenon DEF InHands
      <4>. QED  BY <1>3, <4>1, <4>2, FS_Interval DEF Custody
    <3>. QED  BY <3>1, FS_Subset
  <2>3. Cardinality(B) \in Nat
    BY <2>2, FS_CardinalityType
  <2>. QED  BY <1>3, <2>1, <2>3
<1>6. InHand(w) = B /\ InHand(w) \subseteq InHands
  <2>1. InHand(w) = B
    BY <1>1 DEF InHand
  <2>2. InHand(w) \subseteq InHands
    BY Zenon DEF InHands
  <2>. QED  BY <2>1, <2>2
<1>7. B \subseteq Pending /\ B \subseteq 1..accepted
  BY <1>6 DEF Pending, Custody
<1>8. Pending = Unsettled /\ (Pending = Unsettled)'
  BY PendingIsUnsettled, PTL
<1>9. Settled' = Settled \cup B
  BY <1>1 DEF Settled
<1>10. Pending' = Pending \ B
  BY <1>1, <1>8, <1>9 DEF Unsettled
<1>11. B \in SUBSET Events
  BY <1>3, <1>7 DEF Events
<1>12. Ledger!Settle(B)
  <2>1. UNCHANGED <<~closed, started, ~writerClosed>>
    BY <1>1 DEF lifeVars
  <2>2. /\ B \subseteq Range(ch) \cup InHands
        /\ (Range(ch) \cup InHands)' = (Range(ch) \cup InHands) \ B
    BY <1>7, <1>10 DEF Pending
  <2> HIDE DEF B
  <2>3. Ledger!Cardinality(B) = Cardinality(B)
    BY DEF Ledger!Cardinality, Cardinality
  <2>4. CASE written' = written \cup B /\ failed' = failed
    BY <1>2, <1>4, <1>5, <2>1, <2>2, <2>3, <2>4 DEF Ledger!Settle
  <2>5. CASE failed' = failed \cup B /\ written' = written
    BY <1>2, <1>4, <1>5, <2>1, <2>2, <2>3, <2>5 DEF Ledger!Settle
  <2>. QED  BY <1>1, <2>4, <2>5
<1>. QED  BY <1>11, <1>12

(* Every step of the queue is a step of the ledger, or the ledger stays. *)
LEMMA LedgerStep ==
  ASSUME TypeOK, Custody, Custody', LockInv, WorkersExist, BatchSizes, OffersBound,
         CloseFollowsEveryWrite, CloseFollowsEveryWrite', [Next]_vars
  PROVE  Ledger!Next \/ UNCHANGED Seen
<1>1. Pending = Unsettled /\ (Pending = Unsettled)'
  BY PendingIsUnsettled, PTL
<1>2. UNCHANGED <<accepted, written, failed>> => Pending' = Pending
  BY <1>1 DEF Unsettled, Settled
<1>3. CASE Start
  <2>1. /\ ~started /\ started' = TRUE
        /\ UNCHANGED <<closed, writerClosed, accepted, written, failed>>
    BY <1>3 DEF Start
  <2>2. Ledger!Launch
    BY <1>2, <2>1 DEF Ledger!Launch, Pending
  <2>. QED  BY <2>2 DEF Ledger!Next
<1>4. ASSUME NEW p \in Producers, Enqueue(p) PROVE Ledger!Next \/ UNCHANGED Seen
  <2>1. CASE EnqueueSend(p)
    BY <2>1, SendAccepts DEF Ledger!Next
  <2>2. CASE ~EnqueueSend(p)
    <3>1. UNCHANGED <<closed, started, writerClosed, accepted, written, failed>>
      BY <1>4, <2>2, EnqueueLeavesWork DEF lifeVars
    <3>. QED  BY <1>2, <3>1 DEF Seen
  <2>. QED  BY <2>1, <2>2
<1>5. ASSUME NEW w \in Workers, work(w) PROVE Ledger!Next \/ UNCHANGED Seen
  <2>1. CASE WriteBatchReturns(w)
    <3>1. accepted <= MaxOffers
      <4>1. accepted \in Nat /\ offered \in Nat /\ MaxOffers \in Nat
        BY QueueAssumption DEF TypeOK
      <4>2. Cardinality(Calling) \in Nat
        BY QueueAssumption, FS_Subset, FS_CardinalityType DEF Calling
      <4>. QED  BY <4>1, <4>2 DEF OffersBound
    <3>. QED  BY <2>1, <3>1, ReturnSettles DEF Ledger!Next
  <2>2. CASE ~WriteBatchReturns(w)
    <3>1. UNCHANGED <<closed, started, writerClosed, accepted, written, failed>>
      BY <1>5, <2>2 DEF work, NextBatchFirst, NextBatchClosed, NextBatchMore, NextBatchLast,
         NextBatchTimeout, WriteBatchReadLen, WriteBatchEnter, WriteBatchLeave, beyondWork,
         outside, lifeVars
    <3>. QED  BY <1>2, <3>1 DEF Seen
  <2>. QED  BY <2>1, <2>2
<1>6. ASSUME NEW s \in Stoppers, Stop(s) PROVE Ledger!Next \/ UNCHANGED Seen
  <2>0. UNCHANGED <<accepted, started, written, failed>> /\ Pending' = Pending
    BY <1>2, <1>6, StopLeavesWork
  <2>1. CASE StopCloseChannel(s)
    <3>1. closed' = TRUE /\ UNCHANGED writerClosed
      BY <2>1 DEF StopCloseChannel
    <3>2. CASE closed
      <4>1. closed' = closed
        BY <3>1, <3>2 DEF TypeOK
      <4>. QED  BY <2>0, <3>1, <4>1 DEF Seen
    <3>3. CASE ~closed
      <4>1. Ledger!Close
        BY <2>0, <3>1, <3>3 DEF Ledger!Close, Pending
      <4>. QED  BY <4>1 DEF Ledger!Next
    <3>. QED  BY <3>2, <3>3
  <2>2. CASE StopCloseWriter(s)
    <3>1. /\ pcS[s] = "close" /\ writerClosed' = (writerClosed \/ done[s])
          /\ UNCHANGED closed
      BY <2>2 DEF StopCloseWriter
    <3>2. CASE writerClosed \/ ~done[s]
      <4>1. writerClosed' = writerClosed
        BY <3>1, <3>2, Zenon DEF TypeOK
      <4>. QED  BY <2>0, <3>1, <4>1 DEF Seen
    <3>3. CASE ~writerClosed /\ done[s]
      <4>1. closed
        BY <3>1 DEF LockInv, DrainFollowsClose, Drains
      <4>2. writerClosed'
        BY <3>1, <3>3, Zenon
      <4>3. started => Pending = {}
        <5>1. started => Settled' = 1..accepted'
          BY <2>0, <4>2 DEF CloseFollowsEveryWrite
        <5>. QED  BY <1>1, <2>0, <5>1 DEF Unsettled, Settled
      <4>4. Ledger!CloseWriter
        BY <2>0, <3>1, <3>3, <4>1, <4>2, <4>3, Zenon DEF Ledger!CloseWriter, Pending
      <4>. QED  BY <4>4 DEF Ledger!Next
    <3>. QED  BY <3>2, <3>3
  <2>3. CASE ~StopCloseChannel(s) /\ ~StopCloseWriter(s)
    <3>1. UNCHANGED <<closed, writerClosed>>
      BY <1>6, <2>3 DEF Stop, StopLock, StopWaiter, StopDrained, StopDrainTimeout,
         StopReadLen, StopReadInFlight
    <3>. QED  BY <2>0, <3>1 DEF Seen
  <2>. QED  BY <2>1, <2>2, <2>3
<1>7. CASE UNCHANGED vars
  BY <1>2, <1>7 DEF vars, lifeVars, Seen
<1>. QED  BY <1>3, <1>4, <1>5, <1>6, <1>7 DEF Next

(* The queue implements the ledger: what is accepted is settled exactly once, in
   batches within the limit, nothing is accepted after Stop has closed the queue,
   and the writer of started workers is closed over no pending event. *)
THEOREM QueueRefinesLedger == Spec => ImplementsLedger
<1>1. Init => Ledger!Init
  <2> SUFFICES ASSUME Init PROVE Ledger!Init
    OBVIOUS
  <2>1. Range(ch) = {} /\ \A w \in Workers : InHand(w) = {}
    BY DEF Init, Range, InHand
  <2>2. Range(ch) \cup InHands = {}
    BY <2>1, Zenon DEF InHands
  <2>3. ~closed /\ ~started /\ ~writerClosed /\ started = FALSE /\ written = {} /\ failed = {}
    BY DEF Init
  <2>. QED  BY <2>2, <2>3, Zenon DEF Ledger!Init
<1>2. /\ TypeOK /\ Custody /\ Custody' /\ LockInv /\ WorkersExist /\ BatchSizes
      /\ OffersBound /\ CloseFollowsEveryWrite /\ CloseFollowsEveryWrite' /\ [Next]_vars
      => [Ledger!Next]_(Ledger!ledgerVars)
  <2>1. UNCHANGED Seen => UNCHANGED Ledger!ledgerVars
    BY DEF Seen, Ledger!ledgerVars, Pending
  <2>. QED  BY LedgerStep, <2>1
<1>. QED  BY <1>1, <1>2, TypeCorrect, EventsInCustody, LockInvariant, WorkersExistInvariant,
          SizesInvariant, OffersInvariant, CloseComesLast, PTL
          DEF Spec, ImplementsLedger, Ledger!Spec
----------------------------------------------------------------------------
(* The counters: events written and failed.                                *)

(* A batch that repeats no event has as many events as entries. *)
LEMMA InjectiveRange ==
  ASSUME NEW b \in Seq(Nat), IsInjective(b)
  PROVE  IsFiniteSet(Range(b)) /\ Cardinality(Range(b)) = Len(b)
<1>1. Len(b) \in Nat /\ DOMAIN b = 1..Len(b)
  OBVIOUS
<1>2. b \in Bijection(1..Len(b), Range(b))
  BY <1>1 DEF Bijection, Injection, Surjection, Range, IsInjective
<1>3. ExistsBijection(1..Len(b), Range(b))
  BY <1>2, Zenon DEF ExistsBijection
<1>4. IsFiniteSet(1..Len(b)) /\ Cardinality(1..Len(b)) = Len(b)
  <2>1. /\ IsFiniteSet(1..Len(b))
        /\ Cardinality(1..Len(b)) = IF 1 > Len(b) THEN 0 ELSE Len(b) - 1 + 1
    BY <1>1, FS_Interval
  <2>. QED  BY <1>1, <2>1
<1>. QED  BY <1>3, <1>4, FS_Bijection

(* Only the return of WriteBatch settles events and counts them. *)
LEMMA OnlyReturnsSettle ==
  ASSUME [Next]_vars, \A w \in Workers : ~WriteBatchReturns(w)
  PROVE  UNCHANGED <<written, failed, resultTotals>>
<1>1. ASSUME NEW p \in Producers, Enqueue(p) PROVE UNCHANGED <<written, failed, resultTotals>>
  BY <1>1 DEF Enqueue, EnqueueCall, EnqueueOpen, EnqueueClosed, EnqueueSend, EnqueueFull,
     EnqueueReadLen, EnqueueSetDepth, beyondEnqueue
<1>2. ASSUME NEW w \in Workers, work(w) PROVE UNCHANGED <<written, failed, resultTotals>>
  BY <1>2 DEF work, NextBatchFirst, NextBatchClosed, NextBatchMore, NextBatchLast,
     NextBatchTimeout, WriteBatchReadLen, WriteBatchEnter, WriteBatchLeave, outside
<1>3. ASSUME NEW s \in Stoppers, Stop(s) PROVE UNCHANGED <<written, failed, resultTotals>>
  BY <1>3 DEF Stop, StopLock, StopCloseChannel, StopWaiter, StopDrained, StopDrainTimeout,
     StopReadLen, StopReadInFlight, StopCloseWriter, beyondStop
<1>. QED  BY <1>1, <1>2, <1>3 DEF Next, Start, vars

(* What WriteBatch returns for is new to both sets, and as many events as the
   batch has entries. *)
LEMMA BatchIsFresh ==
  ASSUME TypeOK, Custody, BatchSizes, NEW w \in Workers, pcW[w] = "write"
  PROVE  /\ IsFiniteSet(Range(batch[w])) /\ Cardinality(Range(batch[w])) = Len(batch[w])
         /\ Len(batch[w]) \in 1..MaxBatch
         /\ Range(batch[w]) \cap written = {} /\ Range(batch[w]) \cap failed = {}
         /\ IsFiniteSet(written) /\ IsFiniteSet(failed)
<1>1. batch[w] \in Seq(Nat) /\ IsInjective(batch[w]) /\ accepted \in Nat
  BY DEF TypeOK, Custody
<1>2. InHand(w) = Range(batch[w])
  BY DEF InHand
<1>3. Range(batch[w]) \cap Settled = {}
  BY <1>2 DEF Custody
<1>4. IsFiniteSet(1..accepted) /\ written \in SUBSET (1..accepted)
      /\ failed \in SUBSET (1..accepted)
  BY <1>1, FS_Interval DEF Custody, Settled
<1>5. IsFiniteSet(written) /\ IsFiniteSet(failed)
  BY <1>4, FS_Subset
<1>. QED  BY <1>1, <1>3, <1>5, InjectiveRange DEF Settled, BatchSizes

OutcomesCounted ==
  EventsWrittenTotal = Cardinality(written) /\ WriterErrorsTotal = Cardinality(failed)

(* The union of a set of events with a batch of new ones. *)
LEMMA FreshUnion ==
  ASSUME NEW S, IsFiniteSet(S), NEW T, IsFiniteSet(T), T \cap S = {}
  PROVE  Cardinality(S \cup T) = Cardinality(S) + Cardinality(T)
<1>1. Cardinality(S) \in Nat /\ Cardinality(T) \in Nat
  BY FS_CardinalityType
<1>2. S \cap T = {} /\ Cardinality({}) = 0
  BY FS_EmptySet
<1>3. Cardinality(S \cap T) = 0
  BY <1>2
<1>4. Cardinality(S \cup T) = Cardinality(S) + Cardinality(T) - Cardinality(S \cap T)
  BY FS_Union
<1>. QED  BY <1>1, <1>3, <1>4

LEMMA OutcomesInvariant == Spec => []OutcomesCounted
<1>1. Init => OutcomesCounted
  BY FS_EmptySet DEF Init, OutcomesCounted
<1>2. TypeOK /\ Custody /\ BatchSizes /\ OutcomesCounted /\ [Next]_vars => OutcomesCounted'
  <2> SUFFICES ASSUME TypeOK, Custody, BatchSizes, OutcomesCounted, [Next]_vars
               PROVE  OutcomesCounted'
    OBVIOUS
  <2>1. ASSUME NEW w \in Workers, WriteBatchReturns(w) PROVE OutcomesCounted'
    <3> DEFINE B == Range(batch[w])
    <3>1. pcW[w] = "write"
      BY <2>1 DEF WriteBatchReturns
    <3>2. /\ Cardinality(written \cup B) = Cardinality(written) + Len(batch[w])
          /\ Cardinality(failed \cup B) = Cardinality(failed) + Len(batch[w])
      BY <3>1, BatchIsFresh, FreshUnion
    <3> HIDE DEF B
    <3>3. \/ /\ written' = written \cup B /\ UNCHANGED <<failed, WriterErrorsTotal>>
             /\ EventsWrittenTotal' = EventsWrittenTotal + Len(batch[w])
          \/ /\ failed' = failed \cup B /\ UNCHANGED <<written, EventsWrittenTotal>>
             /\ WriterErrorsTotal' = WriterErrorsTotal + Len(batch[w])
      BY <2>1 DEF WriteBatchReturns, B
    <3>. QED  BY <3>2, <3>3 DEF OutcomesCounted
  <2>2. CASE \A w \in Workers : ~WriteBatchReturns(w)
    BY <2>2, OnlyReturnsSettle DEF OutcomesCounted, resultTotals
  <2>. QED  BY <2>1, <2>2
<1>. QED  BY <1>1, <1>2, TypeCorrect, EventsInCustody, SizesInvariant, PTL DEF Spec

----------------------------------------------------------------------------
(* The counters: events inside the writer.                                 *)

Inside == {w \in Workers : pcW[w] \in {"write", "leave"}}
InFlightCounted == inFlight = Held({"write", "leave"})

LEMMA InFlightWork ==
  ASSUME TypeOK, InFlightCounted, NEW w \in Workers, work(w)
  PROVE  InFlightCounted'
<1> DEFINE L == [v \in Workers |-> Len(batch[v])]
<1>1. /\ IsFiniteSet(Inside) /\ IsFiniteSet(Inside')
      /\ \A v \in Workers : L[v] \in Int /\ L'[v] = Len(batch'[v])
  <2>1. IsFiniteSet(Inside) /\ IsFiniteSet(Inside')
    BY QueueAssumption, FS_Subset DEF Inside
  <2>. QED  BY <2>1 DEF TypeOK
<1>2. inFlight = SumFunctionOnSet(L, Inside) /\ inFlight \in Int
  BY DEF InFlightCounted, Held, Inside, TypeOK
<1>3. InFlightCounted' <=> inFlight' = SumFunctionOnSet(L', Inside')
  BY DEF InFlightCounted, Held, Inside
<1> USE DEF ToW
<1>4. CASE NextBatchFirst(w) \/ NextBatchMore(w)
  <2>1. Inside' = Inside /\ inFlight' = inFlight /\ \A v \in Inside : batch'[v] = batch[v]
    BY <1>4 DEF NextBatchFirst, NextBatchMore, outside, TypeOK, Inside
  <2>2. \A v \in Inside : L[v] \in Int /\ L[v] = L'[v]
    BY <1>1, <2>1 DEF Inside
  <2> HIDE DEF L
  <2>3. SumFunctionOnSet(L, Inside) = SumFunctionOnSet(L', Inside)
    BY <1>1, <2>2, SumAgrees
  <2>. QED  BY <1>2, <1>3, <2>1, <2>3
<1>5. CASE \/ NextBatchClosed(w) \/ NextBatchLast(w) \/ NextBatchTimeout(w)
           \/ WriteBatchReadLen(w) \/ WriteBatchReturns(w)
  <2>1. Inside' = Inside /\ inFlight' = inFlight /\ batch' = batch
    BY <1>5 DEF NextBatchClosed, NextBatchLast, NextBatchTimeout, WriteBatchReadLen,
       WriteBatchReturns, outside, TypeOK, Inside
  <2>2. L' = L
    BY <2>1
  <2>. QED  BY <1>2, <1>3, <2>1, <2>2
<1>6. CASE WriteBatchEnter(w)
  <2>1. /\ Inside' = Inside \cup {w} /\ w \notin Inside /\ inFlight' = inFlight + L[w]
        /\ batch' = batch
    BY <1>6 DEF WriteBatchEnter, TypeOK, Inside
  <2>2. L' = L
    BY <2>1
  <2>3. \A v \in Inside \cup {w} : L[v] \in Int
    BY <1>1 DEF Inside
  <2> HIDE DEF L
  <2>4. SumFunctionOnSet(L, Inside \cup {w}) = SumFunctionOnSet(L, Inside) + L[w]
    BY <1>1, <2>1, <2>3, SumAdd
  <2>. QED  BY <1>2, <1>3, <2>1, <2>2, <2>4
<1>7. CASE WriteBatchLeave(w)
  <2>1. /\ Inside' = Inside \ {w} /\ w \in Inside /\ inFlight' = inFlight - L[w]
        /\ \A v \in Inside \ {w} : batch'[v] = batch[v]
    BY <1>7 DEF WriteBatchLeave, TypeOK, Inside
  <2>2. \A v \in Inside \ {w} : L[v] \in Int /\ L[v] = L'[v]
    BY <1>1, <2>1 DEF Inside
  <2>3. L[w] \in Int /\ \A v \in Inside : L[v] \in Int
    BY <1>1 DEF Inside
  <2> HIDE DEF L
  <2>4. /\ SumFunctionOnSet(L, Inside) = L[w] + SumFunctionOnSet(L, Inside \ {w})
        /\ SumFunctionOnSet(L, Inside \ {w}) = SumFunctionOnSet(L', Inside \ {w})
        /\ SumFunctionOnSet(L, Inside \ {w}) \in Int
    <3>1. IsFiniteSet(Inside \ {w})
      BY <1>1, FS_Subset
    <3>. QED  BY <1>1, <2>1, <2>2, <2>3, <3>1, SumRemove, SumAgrees
  <2>. QED  BY <1>2, <1>3, <2>1, <2>3, <2>4
<1>. QED  BY <1>4, <1>5, <1>6, <1>7 DEF work

LEMMA InFlightInvariant == Spec => []InFlightCounted
<1>1. Init => InFlightCounted
  <2> SUFFICES ASSUME Init PROVE InFlightCounted
    OBVIOUS
  <2>1. {w \in Workers : pcW[w] \in {"write", "leave"}} = {} /\ inFlight = 0
    BY DEF Init
  <2>. QED  BY <2>1, SumEmpty, Zenon DEF InFlightCounted, Held
<1>2. TypeOK /\ WorkersExist /\ InFlightCounted /\ [Next]_vars => InFlightCounted'
  <2> SUFFICES ASSUME TypeOK, WorkersExist, InFlightCounted, [Next]_vars
               PROVE  InFlightCounted'
    OBVIOUS
  <2>1. CASE Start
    <3>1. Inside = {} /\ Inside' = {} /\ inFlight' = inFlight
      BY <2>1 DEF Start, Inside, WorkersExist
    <3>2. inFlight = 0
      BY <3>1, SumEmpty, Zenon DEF InFlightCounted, Held, Inside
    <3>. QED  BY <3>1, <3>2, SumEmpty, Zenon DEF InFlightCounted, Held, Inside
  <2>2. CASE \E w \in Workers : work(w)
    BY <2>2, InFlightWork
  <2>3. CASE \/ \E p \in Producers : Enqueue(p)
             \/ \E s \in Stoppers : Stop(s)
             \/ UNCHANGED vars
    <3>1. UNCHANGED <<pcW, batch, inFlight>>
      <4>1. ASSUME NEW p \in Producers, Enqueue(p) PROVE UNCHANGED inFlight
        BY <4>1 DEF Enqueue, EnqueueCall, EnqueueOpen, EnqueueClosed, EnqueueSend, EnqueueFull,
           EnqueueReadLen, EnqueueSetDepth, beyondEnqueue
      <4>2. ASSUME NEW s \in Stoppers, Stop(s) PROVE UNCHANGED inFlight
        BY <4>2 DEF Stop, StopLock, StopCloseChannel, StopWaiter, StopDrained, StopDrainTimeout,
           StopReadLen, StopReadInFlight, StopCloseWriter, beyondStop
      <4>. QED  BY <2>3, <4>1, <4>2, EnqueueLeavesWork, StopLeavesWork DEF workerVars, vars
    <3>. QED  BY <3>1, Zenon DEF InFlightCounted, Held
  <2>. QED  BY <2>1, <2>2, <2>3 DEF Next
<1>. QED  BY <1>1, <1>2, TypeCorrect, WorkersExistInvariant, PTL DEF Spec
----------------------------------------------------------------------------
(* The counters: events dropped by Enqueue and reported by Stop.           *)

(* Stop reports after a timeout only; without one it has seen its workers
   return, and closes the writer. *)
ReportInv ==
  \A s \in Stoppers :
    /\ pcS[s] \notin {"readInFlight", "close", "returned"} => undrained[s] = 0
    /\ pcS[s] \in {"grace", "readInFlight"} => timedOut[s]
    /\ ~timedOut[s] => undrained[s] = 0
    /\ pcS[s] = "close" => timedOut[s] \/ done[s]
    /\ pcS[s] = "returned" => timedOut[s] \/ writerClosed

LEMMA ReportInvariant == Spec => []ReportInv
<1>1. Init => ReportInv
  BY DEF Init, ReportInv
<1>2. TypeOK /\ ReportInv /\ [Next]_vars => ReportInv'
  <2> SUFFICES ASSUME TypeOK, ReportInv, [Next]_vars PROVE ReportInv'
    OBVIOUS
  <2>1. CASE UNCHANGED <<stopperVars, writerClosed>>
    BY <2>1 DEF ReportInv, stopperVars
  <2>2. ASSUME NEW s \in Stoppers, Stop(s) PROVE ReportInv'
    <3> USE DEF ReportInv, TypeOK, ToS
    <3>1. CASE StopLock(s)         BY <3>1 DEF StopLock
    <3>2. CASE StopCloseChannel(s) BY <3>2 DEF StopCloseChannel
    <3>3. CASE StopWaiter(s)       BY <3>3 DEF StopWaiter
    <3>4. CASE StopDrained(s)      BY <3>4 DEF StopDrained
    <3>5. CASE StopDrainTimeout(s) BY <3>5 DEF StopDrainTimeout
    <3>6. CASE StopReadLen(s)      BY <3>6 DEF StopReadLen
    <3>7. CASE StopReadInFlight(s) BY <3>7 DEF StopReadInFlight
    <3>8. CASE StopCloseWriter(s)  BY <3>8 DEF StopCloseWriter
    <3>. QED  BY <2>2, <3>1, <3>2, <3>3, <3>4, <3>5, <3>6, <3>7, <3>8 DEF Stop
  <2>3. \/ Start \/ (\E p \in Producers : Enqueue(p)) \/ (\E w \in Workers : work(w))
        \/ UNCHANGED vars
        => UNCHANGED <<stopperVars, writerClosed>>
    <3>1. Start => UNCHANGED <<stopperVars, writerClosed>>
      BY DEF Start
    <3>. QED  BY <3>1, EnqueueLeavesWork, WorkLeavesLock DEF lifeVars, vars
  <2>. QED  BY <2>1, <2>2, <2>3 DEF Next
<1>. QED  BY <1>1, <1>2, TypeCorrect, PTL DEF Spec

Reported == {s \in Stoppers : pcS[s] \in {"close", "returned"}}

Refused == offered - accepted - Cardinality(Calling)

DropsCounted == EventsDroppedTotal = Refused + SumFunctionOnSet(undrained, Reported)

(* Enqueue counts a drop for each call it ends without an event accepted. *)
LEMMA EnqueueDrops ==
  ASSUME TypeOK, NEW p \in Producers, Enqueue(p)
  PROVE  EventsDroppedTotal' - EventsDroppedTotal = Refused' - Refused
<1> USE DEF ToP
<1>1. /\ pcP \in [Producers -> ProducerPc] /\ offered \in Int /\ accepted \in Int
      /\ EventsDroppedTotal \in Int
  BY DEF TypeOK
<1>2. IsFiniteSet(Calling) /\ Cardinality(Calling) \in Int
  BY QueueAssumption, FS_Subset, FS_CardinalityType DEF Calling
<1>3. CASE EnqueueCall(p)
  <2>1. Calling' = Calling \cup {p} /\ p \notin Calling
    BY <1>1, <1>3 DEF EnqueueCall, Calling
  <2>2. Cardinality(Calling') = Cardinality(Calling) + 1
    BY <1>2, <2>1, FS_AddElement
  <2>3. UNCHANGED <<EventsDroppedTotal, accepted>> /\ offered' = offered + 1
    BY <1>3 DEF EnqueueCall
  <2>. QED  BY <1>1, <1>2, <2>2, <2>3 DEF Refused
<1>4. CASE EnqueueOpen(p) \/ EnqueueReadLen(p) \/ EnqueueSetDepth(p)
  <2>1. Calling' = Calling /\ UNCHANGED <<EventsDroppedTotal, accepted, offered>>
    BY <1>1, <1>4 DEF EnqueueOpen, EnqueueReadLen, EnqueueSetDepth, Calling
  <2>. QED  BY <1>1, <1>2, <2>1 DEF Refused
<1>5. CASE EnqueueClosed(p) \/ EnqueueSend(p) \/ EnqueueFull(p)
  <2>1. Calling' = Calling \ {p} /\ p \in Calling
    BY <1>1, <1>5 DEF EnqueueClosed, EnqueueSend, EnqueueFull, Calling
  <2>2. Cardinality(Calling') = Cardinality(Calling) - 1
    BY <1>2, <2>1, FS_RemoveElement
  <2>3. /\ offered' = offered
        /\ \/ accepted' = accepted + 1 /\ EventsDroppedTotal' = EventsDroppedTotal
           \/ accepted' = accepted /\ EventsDroppedTotal' = EventsDroppedTotal + 1
    BY <1>5 DEF EnqueueClosed, EnqueueSend, EnqueueFull
  <2>. QED  BY <1>1, <1>2, <2>2, <2>3 DEF Refused
<1>. QED  BY <1>3, <1>4, <1>5 DEF Enqueue

(* Stop adds to the counter what it reports, when it reports it. *)
LEMMA StopDrops ==
  ASSUME TypeOK, ReportInv, DropsCounted, NEW s \in Stoppers, Stop(s)
  PROVE  DropsCounted'
<1> USE DEF ToS
<1>1. /\ pcS \in [Stoppers -> StopperPc] /\ \A t \in Stoppers : undrained[t] \in Int
      /\ EventsDroppedTotal \in Int /\ inFlight \in Int
  BY DEF TypeOK
<1>2. IsFiniteSet(Reported)
  BY QueueAssumption, FS_Subset DEF Reported
<1>3. Refused' = Refused
  BY DEF Stop, StopLock, StopCloseChannel, StopWaiter, StopDrained, StopDrainTimeout,
     StopReadLen, StopReadInFlight, StopCloseWriter, beyondStop, producerVars, Refused, Calling
<1>4. CASE \/ StopLock(s) \/ StopCloseChannel(s) \/ StopWaiter(s) \/ StopDrainTimeout(s)
           \/ StopCloseWriter(s)
  <2>1. Reported' = Reported /\ UNCHANGED <<undrained, EventsDroppedTotal>>
    BY <1>1, <1>4 DEF StopLock, StopCloseChannel, StopWaiter, StopDrainTimeout,
       StopCloseWriter, Reported
  <2>. QED  BY <1>3, <2>1 DEF DropsCounted
<1> DEFINE Told == SumFunctionOnSet(undrained, Reported)
<1>5. \A t \in Reported : undrained[t] \in Int
  BY <1>1 DEF Reported
<1>6. Told \in Int
  BY <1>2, <1>5, SumRemove
<1>7. EventsDroppedTotal = Refused + Told
  BY DEF DropsCounted
<1>8. Refused \in Int
  <2>1. Cardinality(Calling) \in Int
    BY QueueAssumption, FS_Subset, FS_CardinalityType DEF Calling
  <2>. QED  BY <2>1 DEF Refused, TypeOK
<1>9. CASE StopReadLen(s)
  <2>1. /\ Reported' = Reported /\ s \notin Reported /\ EventsDroppedTotal' = EventsDroppedTotal
        /\ \A t \in Reported : undrained'[t] = undrained[t]
    BY <1>1, <1>9 DEF StopReadLen, Reported, TypeOK
  <2>2. SumFunctionOnSet(undrained', Reported) = Told
    BY <1>2, <1>5, <2>1, SumAgrees
  <2>. QED  BY <1>3, <1>7, <2>1, <2>2 DEF DropsCounted
<1>10. CASE StopDrained(s)
  <2>1. /\ Reported' = Reported \cup {s} /\ s \notin Reported /\ undrained' = undrained
        /\ EventsDroppedTotal' = EventsDroppedTotal /\ undrained[s] = 0
    BY <1>1, <1>10 DEF StopDrained, Reported, ReportInv
  <2>2. \A t \in Reported \cup {s} : undrained[t] \in Int
    BY <1>1, <1>5
  <2>3. SumFunctionOnSet(undrained, Reported \cup {s}) = Told + undrained[s]
    BY <1>2, <2>1, <2>2, SumAdd
  <2> HIDE DEF Told
  <2>4. SumFunctionOnSet(undrained', Reported') = Told
    BY <1>6, <2>1, <2>3
  <2>. QED  BY <1>3, <1>7, <2>1, <2>4 DEF DropsCounted
<1>11. CASE StopReadInFlight(s)
  <2>1. /\ Reported' = Reported \cup {s} /\ s \notin Reported
        /\ EventsDroppedTotal' = EventsDroppedTotal + undrained[s] + inFlight
        /\ undrained'[s] = undrained[s] + inFlight
        /\ \A t \in Reported : undrained'[t] = undrained[t]
    BY <1>1, <1>11 DEF StopReadInFlight, Reported, TypeOK
  <2>2. \A t \in Reported \cup {s} : undrained'[t] \in Int
    BY <1>1, <1>5, <2>1
  <2>3. SumFunctionOnSet(undrained', Reported \cup {s})
          = SumFunctionOnSet(undrained', Reported) + undrained'[s]
    BY <1>2, <2>1, <2>2, SumAdd
  <2>4. SumFunctionOnSet(undrained', Reported) = Told
    BY <1>2, <1>5, <2>1, SumAgrees
  <2> HIDE DEF Told
  <2>5. EventsDroppedTotal' = Refused + SumFunctionOnSet(undrained', Reported')
    BY <1>1, <1>6, <1>7, <1>8, <2>1, <2>3, <2>4
  <2>. QED  BY <1>3, <2>5 DEF DropsCounted
<1>. QED  BY <1>4, <1>9, <1>10, <1>11 DEF Stop

LEMMA DropsInvariant == Spec => []DropsCounted
<1>1. Init => DropsCounted
  <2> SUFFICES ASSUME Init PROVE DropsCounted
    OBVIOUS
  <2>1. Calling = {} /\ Reported = {} /\ offered = 0 /\ accepted = 0 /\ EventsDroppedTotal = 0
    BY DEF Init, Calling, Reported
  <2>2. Cardinality(Calling) = 0 /\ SumFunctionOnSet(undrained, Reported) = 0
    BY <2>1, FS_EmptySet, SumEmpty
  <2>. QED  BY <2>1, <2>2 DEF DropsCounted, Refused
<1>2. TypeOK /\ TypeOK' /\ ReportInv /\ DropsCounted /\ [Next]_vars => DropsCounted'
  <2> SUFFICES ASSUME TypeOK, TypeOK', ReportInv, DropsCounted, [Next]_vars
               PROVE  DropsCounted'
    OBVIOUS
  <2>1. ASSUME NEW p \in Producers, Enqueue(p) PROVE DropsCounted'
    <3>1. UNCHANGED <<undrained, Reported>>
      BY <2>1, EnqueueLeavesWork DEF stopperVars, Reported
    <3>2. EventsDroppedTotal' - EventsDroppedTotal = Refused' - Refused
      BY <2>1, EnqueueDrops
    <3>3. EventsDroppedTotal \in Int /\ EventsDroppedTotal' \in Int
      BY DEF TypeOK
    <3>4. Refused \in Int /\ Refused' \in Int
      <4>1. Cardinality(Calling) \in Int /\ Cardinality(Calling') \in Int
        BY QueueAssumption, FS_Subset, FS_CardinalityType DEF Calling
      <4>2. offered \in Int /\ offered' \in Int /\ accepted \in Int /\ accepted' \in Int
        BY DEF TypeOK
      <4>. QED  BY <4>1, <4>2 DEF Refused
    <3>5. SumFunctionOnSet(undrained, Reported) \in Int
      <4>1. IsFiniteSet(Reported) /\ \A t \in Reported : undrained[t] \in Int
        BY QueueAssumption, FS_Subset DEF Reported, TypeOK
      <4>. QED  BY <4>1, SumRemove
    <3>. QED  BY <3>1, <3>2, <3>3, <3>4, <3>5 DEF DropsCounted
  <2>2. ASSUME NEW s \in Stoppers, Stop(s) PROVE DropsCounted'
    BY <2>2, StopDrops
  <2>3. CASE Start \/ (\E w \in Workers : work(w)) \/ UNCHANGED vars
    <3>1. UNCHANGED <<pcP, pcS, undrained, offered, accepted, EventsDroppedTotal>>
      <4>1. Start => UNCHANGED <<pcP, pcS, undrained, offered, accepted, EventsDroppedTotal>>
        BY DEF Start, producerVars, stopperVars
      <4>2. ASSUME NEW w \in Workers, work(w)
            PROVE  UNCHANGED <<pcP, pcS, undrained, offered, accepted, EventsDroppedTotal>>
        BY <4>2 DEF work, NextBatchFirst, NextBatchClosed, NextBatchMore, NextBatchLast,
           NextBatchTimeout, WriteBatchReadLen, WriteBatchEnter, WriteBatchReturns,
           WriteBatchLeave, beyondWork, producerVars, stopperVars
      <4>. QED  BY <2>3, <4>1, <4>2 DEF vars, producerVars, stopperVars
    <3>. QED  BY <3>1 DEF DropsCounted, Refused, Calling, Reported
  <2>. QED  BY <2>1, <2>2, <2>3 DEF Next
<1>. QED  BY <1>1, <1>2, TypeCorrect, ReportInvariant, PTL DEF Spec
----------------------------------------------------------------------------
(* The counters: batches.                                                  *)

Writing   == {w \in Workers : pcW[w] = "write"}
Completed == WriterBatchesTotal - Cardinality(Writing)

LEMMA WritingIsFinite == IsFiniteSet(Writing) /\ Cardinality(Writing) \in Nat
BY QueueAssumption, FS_Subset, FS_CardinalityType DEF Writing

(* A completed batch adds between 1 and MaxBatch events. *)
LEMMA ReturnsBounds ==
  ASSUME TypeOK, BatchSizes, BatchBounds, NEW w \in Workers, WriteBatchReturns(w)
  PROVE  BatchBounds'
<1>1. /\ Writing' = Writing \ {w} /\ w \in Writing /\ pcW[w] = "write"
      /\ WriterBatchesTotal' = WriterBatchesTotal
  BY DEF WriteBatchReturns, Writing, ToW, TypeOK
<1>2. Cardinality(Writing') = Cardinality(Writing) - 1 /\ Cardinality(Writing) \in Nat
  BY <1>1, WritingIsFinite, FS_RemoveElement
<1> DEFINE n == Len(batch[w])
           c == Completed
           e == EventsWrittenTotal + WriterErrorsTotal
<1>3. n \in Int /\ 1 <= n /\ n <= MaxBatch /\ MaxBatch \in Nat
  BY <1>1, QueueAssumption DEF BatchSizes
<1>4. /\ EventsWrittenTotal \in Int /\ WriterErrorsTotal \in Int
      /\ WriterBatchErrorsTotal \in Int /\ WriterBatchesTotal \in Int
  BY DEF TypeOK
<1>5. c \in Int /\ Completed' = c + 1
  BY <1>1, <1>2, <1>4 DEF Completed
<1>6. c <= e /\ e <= MaxBatch * c /\ WriterBatchErrorsTotal <= c
  BY DEF BatchBounds, Completed, Writing
<1>7. /\ (EventsWrittenTotal + WriterErrorsTotal)' = e + n
      /\ WriterBatchErrorsTotal' \in {WriterBatchErrorsTotal, WriterBatchErrorsTotal + 1}
  BY <1>3, <1>4 DEF WriteBatchReturns
<1>8. e \in Int
  BY <1>4
<1> HIDE DEF n, c, e
<1>9. MaxBatch * (c + 1) = MaxBatch * c + MaxBatch /\ MaxBatch * c \in Int
  BY <1>3, <1>5
<1>10. c + 1 <= e + n /\ e + n <= MaxBatch * (c + 1) /\ WriterBatchErrorsTotal' <= c + 1
  BY <1>3, <1>4, <1>5, <1>6, <1>7, <1>8, <1>9
<1>. QED  BY <1>5, <1>7, <1>10 DEF BatchBounds, Completed, Writing

LEMMA BoundsInvariant == Spec => []BatchBounds
<1>1. Init => BatchBounds
  <2> SUFFICES ASSUME Init PROVE BatchBounds
    OBVIOUS
  <2>1. /\ {w \in Workers : pcW[w] = "write"} = {} /\ WriterBatchesTotal = 0
        /\ EventsWrittenTotal = 0 /\ WriterErrorsTotal = 0 /\ WriterBatchErrorsTotal = 0
    BY DEF Init
  <2>2. Cardinality({w \in Workers : pcW[w] = "write"}) = 0
    BY <2>1, FS_EmptySet
  <2>3. MaxBatch * (0 - 0) = 0
    BY QueueAssumption
  <2>. QED  BY <2>1, <2>2, <2>3 DEF BatchBounds
<1>2. TypeOK /\ WorkersExist /\ BatchSizes /\ BatchBounds /\ [Next]_vars => BatchBounds'
  <2> SUFFICES ASSUME TypeOK, WorkersExist, BatchSizes, BatchBounds, [Next]_vars
               PROVE  BatchBounds'
    OBVIOUS
  <2>0. ASSUME Completed' = Completed, UNCHANGED resultTotals PROVE BatchBounds'
    BY <2>0 DEF BatchBounds, Completed, Writing, resultTotals
  <2>1. ASSUME NEW w \in Workers, work(w) PROVE BatchBounds'
    <3>1. CASE WriteBatchReturns(w)
      BY <3>1, ReturnsBounds
    <3>2. CASE WriteBatchEnter(w)
      <4>1. /\ Writing' = Writing \cup {w} /\ w \notin Writing
            /\ WriterBatchesTotal' = WriterBatchesTotal + 1 /\ UNCHANGED resultTotals
        BY <3>2 DEF WriteBatchEnter, Writing, ToW, TypeOK
      <4>2. Cardinality(Writing') = Cardinality(Writing) + 1 /\ Cardinality(Writing) \in Nat
        BY <4>1, WritingIsFinite, FS_AddElement
      <4>3. Completed' = Completed
        BY <4>1, <4>2 DEF Completed, TypeOK
      <4>. QED  BY <2>0, <4>1, <4>3
    <3>3. CASE ~WriteBatchReturns(w) /\ ~WriteBatchEnter(w)
      <4>1. Writing' = Writing /\ UNCHANGED <<WriterBatchesTotal, resultTotals>>
        BY <2>1, <3>3 DEF work, NextBatchFirst, NextBatchClosed, NextBatchMore, NextBatchLast,
           NextBatchTimeout, WriteBatchReadLen, WriteBatchLeave, outside, Writing, ToW, TypeOK
      <4>. QED  BY <2>0, <4>1 DEF Completed
    <3>. QED  BY <3>1, <3>2, <3>3
  <2>2. CASE Start
    <3>1. /\ Writing = {} /\ Writing' = {} /\ UNCHANGED <<WriterBatchesTotal, resultTotals>>
      BY <2>2 DEF Start, Writing, WorkersExist
    <3>. QED  BY <2>0, <3>1 DEF Completed
  <2>3. CASE \/ \E p \in Producers : Enqueue(p)
             \/ \E s \in Stoppers : Stop(s)
             \/ UNCHANGED vars
    <3>1. UNCHANGED <<pcW, WriterBatchesTotal, resultTotals>>
      <4>1. ASSUME NEW p \in Producers, Enqueue(p)
            PROVE  UNCHANGED <<WriterBatchesTotal, resultTotals>>
        BY <4>1 DEF Enqueue, EnqueueCall, EnqueueOpen, EnqueueClosed, EnqueueSend, EnqueueFull,
           EnqueueReadLen, EnqueueSetDepth, beyondEnqueue
      <4>2. ASSUME NEW s \in Stoppers, Stop(s)
            PROVE  UNCHANGED <<WriterBatchesTotal, resultTotals>>
        BY <4>2 DEF Stop, StopLock, StopCloseChannel, StopWaiter, StopDrained, StopDrainTimeout,
           StopReadLen, StopReadInFlight, StopCloseWriter, beyondStop
      <4>. QED  BY <2>3, <4>1, <4>2, EnqueueLeavesWork, StopLeavesWork DEF workerVars, vars
    <3>. QED  BY <2>0, <3>1 DEF Completed, Writing
  <2>. QED  BY <2>1, <2>2, <2>3 DEF Next
<1>. QED  BY <1>1, <1>2, TypeCorrect, WorkersExistInvariant, SizesInvariant, PTL DEF Spec

----------------------------------------------------------------------------

(* The counters of metrics.M and q.inFlight say what happened to the events, at every
   instant and however the goroutines interleave. *)
THEOREM CountersAreExact == Spec => []CountersMatchEvents
<1>1. /\ OutcomesCounted /\ InFlightCounted /\ DropsCounted /\ BatchBounds
      => CountersMatchEvents
  BY DEF OutcomesCounted, InFlightCounted, DropsCounted, Refused, Calling, Reported,
     CountersMatchEvents
<1>. QED  BY <1>1, OutcomesInvariant, InFlightInvariant, DropsInvariant, BoundsInvariant, PTL

(* After a Stop that did not time out, written, failed and dropped events add up to
   the calls of Enqueue. *)
THEOREM NothingUnaccounted == Spec => []CleanStopBalances
<1>1. /\ TypeOK /\ LockInv /\ Custody /\ CloseFollowsEveryWrite /\ ReportInv
      /\ OutcomesCounted /\ DropsCounted
      => CleanStopBalances
  <2> SUFFICES ASSUME TypeOK, LockInv, Custody, CloseFollowsEveryWrite, ReportInv,
                      OutcomesCounted, DropsCounted,
                      NEW s \in Stoppers, pcS[s] = "returned", ~timedOut[s], started,
                      \A p \in Producers : pcP[p] = "idle"
               PROVE  EventsWrittenTotal + WriterErrorsTotal + EventsDroppedTotal = offered
    BY DEF CleanStopBalances
  <2>1. Settled = 1..accepted /\ accepted \in Nat /\ offered \in Nat
    BY DEF ReportInv, CloseFollowsEveryWrite, TypeOK
  <2>2. Cardinality(written) + Cardinality(failed) = accepted
    <3>1. IsFiniteSet(1..accepted) /\ Cardinality(1..accepted) = accepted
      <4>1. /\ IsFiniteSet(1..accepted)
            /\ Cardinality(1..accepted) = IF 1 > accepted THEN 0 ELSE accepted - 1 + 1
        BY <2>1, FS_Interval
      <4>. QED  BY <2>1, <4>1
    <3>2. IsFiniteSet(written) /\ IsFiniteSet(failed)
      BY <2>1, <3>1, FS_Subset DEF Settled
    <3>3. failed \cap written = {} /\ written \cup failed = 1..accepted
      BY <2>1 DEF Custody, Settled
    <3>4. Cardinality(written \cup failed) = Cardinality(written) + Cardinality(failed)
      BY <3>2, <3>3, FreshUnion
    <3>. QED  BY <3>1, <3>3, <3>4
  <2>3. Reported = {s}
    BY DEF Reported, LockInv, NoSendOnClosedChannel, Drains
  <2>4. SumFunctionOnSet(undrained, Reported) = 0
    <3>1. IsFiniteSet(Reported) /\ \A t \in Reported : undrained[t] = 0
      BY <2>3, FS_Singleton DEF ReportInv
    <3>. QED  BY <3>1, SumZero
  <2>5. Cardinality(Calling) = 0
    <3>1. Calling = {}
      BY DEF Calling
    <3>. QED  BY <3>1, FS_EmptySet
  <2>6. EventsDroppedTotal = offered - accepted
    BY <2>1, <2>4, <2>5 DEF DropsCounted, Refused
  <2>7. EventsWrittenTotal \in Int /\ WriterErrorsTotal \in Int
    BY DEF TypeOK
  <2>. QED  BY <2>1, <2>2, <2>6, <2>7 DEF OutcomesCounted
<1>. QED  BY <1>1, TypeCorrect, LockInvariant, EventsInCustody, CloseComesLast, ReportInvariant,
          OutcomesInvariant, DropsInvariant, PTL
============================================================================
