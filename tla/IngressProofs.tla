--------------------------- MODULE IngressProofs ---------------------------
(***************************************************************************)
(* The semaphore of the CEPA handler, the accounting of acknowledged       *)
(* events and the balance of the counters, proved for any number of        *)
(* handlers, slots and requests.                                           *)
(***************************************************************************)
EXTENDS IngressProps, SumTheorems, SequenceTheorems, TLAPS

(* The variables that the two arguments are about. *)
Types ==
  /\ slots \in Int /\ waiters \in Seq(Handlers)
  /\ pc \in [Handlers -> Pc] /\ req \in [Handlers -> RequestType]
  /\ slot \in [Handlers -> BOOLEAN] /\ DOMAIN reply = Handlers
  /\ left \in [Handlers -> Int] /\ took \in [Handlers -> Int] /\ lost \in [Handlers -> Int]

----------------------------------------------------------------------------
(* Types                                                                   *)

LEMMA InitTypes == Init => Types
BY DEF Init, Types, NoRequest, RequestType, Dialects, None, Pc, BadPayload

LEMMA BranchesKeepTypes ==
  ASSUME Types, NEW h \in Handlers
  PROVE  /\ \A r \in Requests : MethodNotAllowed(h, r) \/ Receive(h, r) => Types'
         /\ ReadProbe(h) \/ ProbeFails(h) => Types'
         /\ AcquireSlotThrottled(h) => Types'
         /\ ReadBody(h) \/ ReadBodyFails(h) => Types'
         /\ Undecodable(h) \/ RegisterRequest(h) \/ CheckFileHeartbeat(h) => Types'
         /\ HeartBeatRequest(h) \/ CheckFileEvent(h) \/ CheckEventRequest(h) => Types'
         /\ ParseAcknowledged(h) \/ ParseFails(h) => Types'
         /\ Events(h) \/ Enqueue(h) => Types'
<1> USE DEF Types, To, slotVars, Pc, Respond
<1>0. req[h].events \in Int
  BY DEF RequestType, BadPayload
<1>1. ASSUME NEW r \in Requests
      PROVE  MethodNotAllowed(h, r) \/ Receive(h, r) => Types'
  <2>1. r \in RequestType
    BY IngressAssumption
  <2>2. Arrives(h, r) => /\ req' \in [Handlers -> RequestType]
                         /\ took' \in [Handlers -> Int] /\ lost' \in [Handlers -> Int]
                         /\ UNCHANGED <<slots, waiters, slot, left>>
    BY <2>1 DEF Arrives
  <2>3. MethodNotAllowed(h, r) =>
          Arrives(h, r) /\ pc' \in [Handlers -> Pc] /\ DOMAIN reply' = Handlers
    BY DEF MethodNotAllowed
  <2>4. Receive(h, r) => Arrives(h, r) /\ pc' \in [Handlers -> Pc] /\ DOMAIN reply' = Handlers
    BY DEF Receive
  <2> QED
    BY <2>2, <2>3, <2>4
<1>2. ReadProbe(h) => Types'
  BY DEF ReadProbe
<1>3. ProbeFails(h) => Types'
  BY DEF ProbeFails, AnswerUnreadableBody
<1>4. AcquireSlotThrottled(h) => Types'
  BY DEF AcquireSlotThrottled, beyondSlot
<1>5. ReadBody(h) => Types'
  BY DEF ReadBody, beyondSlot
<1>6. ReadBodyFails(h) => Types'
  BY <1>0 DEF ReadBodyFails, AnswerUnreadableBody
<1>7. Undecodable(h) => Types'
  BY <1>0 DEF Undecodable, AtDialect, beyondBranch, noEvents
<1>8. RegisterRequest(h) => Types'
  BY <1>0 DEF RegisterRequest, AtDialect, beyondBranch, noEvents
<1>9. CheckFileHeartbeat(h) => Types'
  BY <1>0 DEF CheckFileHeartbeat, AtDialect, beyondBranch, noEvents
<1>10. HeartBeatRequest(h) => Types'
  BY <1>0 DEF HeartBeatRequest, AtDialect, beyondBranch, noEvents
<1>11. CheckFileEvent(h) => Types'
  BY <1>0 DEF CheckFileEvent, AtDialect, beyondBranch, noEvents
<1>12. CheckEventRequest(h) => Types'
  BY <1>0 DEF CheckEventRequest, AtDialect, beyondBranch, noEvents
<1>13. ParseAcknowledged(h) => Types'
  BY <1>0 DEF ParseAcknowledged, EnqueueBatch, beyondBranch
<1>14. ParseFails(h) => Types'
  BY DEF ParseFails, beyondBranch
<1>15. Events(h) => Types'
  <2>1. Events(h) => /\ UNCHANGED <<slots, waiters, req, slot, took, lost>>
                     /\ DOMAIN reply' = Handlers
    BY DEF Events, beyondBranch
  <2>2. Events(h) => pc' \in [Handlers -> Pc]
    <3>1. Events(h) => \/ pc' = [pc EXCEPT ![h] = "return"]
                       \/ pc' = [pc EXCEPT ![h] = "enqueue"]
      BY DEF Events, EnqueueBatch
    <3> QED
      BY <3>1
  <2>3. Events(h) => left' \in [Handlers -> Int]
    BY <1>0 DEF Events, EnqueueBatch
  <2> QED
    BY <2>1, <2>2, <2>3
<1>16. Enqueue(h) => Types'
  BY DEF Enqueue
<1> QED
  BY <1>1, <1>2, <1>3, <1>4, <1>5, <1>6, <1>7, <1>8, <1>9, <1>10, <1>11, <1>12, <1>13, <1>14,
     <1>15, <1>16, Zenon

(* acquireSlot and releaseSlot, which hand the semaphore on. *)
LEMMA SlotStepsKeepTypes ==
  ASSUME Types, SlotsBalance, NEW h \in Handlers
  PROVE  AcquireSlotFree(h) \/ AcquireSlotBlocking(h) \/ Return(h) => Types'
<1> USE DEF Types, To, Pc, None
<1>1. AcquireSlotFree(h) => Types'
  BY DEF AcquireSlotFree, beyondSlot
<1>2. AcquireSlotBlocking(h) => Types'
  <2>1. Append(waiters, h) \in Seq(Handlers)
    BY AppendProperties
  <2>2. AcquireSlotBlocking(h) =>
          slots' \in Int /\ (waiters' = waiters \/ waiters' = Append(waiters, h))
    BY DEF AcquireSlotBlocking
  <2>4. AcquireSlotBlocking(h) => slot' \in [Handlers -> BOOLEAN]
    BY DEF AcquireSlotBlocking
  <2>5. AcquireSlotBlocking(h) => pc' \in [Handlers -> Pc]
    BY DEF AcquireSlotBlocking
  <2>3. AcquireSlotBlocking(h) => UNCHANGED <<req, reply, left, took, lost>>
    BY DEF AcquireSlotBlocking, beyondSlot
  <2> QED
    BY <2>1, <2>2, <2>3, <2>4, <2>5
<1>3. Return(h) => Types'
  <2>1. waiters # <<>> => Head(waiters) \in Handlers /\ Tail(waiters) \in Seq(Handlers)
    BY HeadTailProperties
  <2>2. Return(h) => UNCHANGED <<req, left, took, lost>> /\ DOMAIN reply' = Handlers
    BY DEF Return
  <2>3. Return(h) => slots' \in Int /\ waiters' \in Seq(Handlers)
    <3>1. Return(h) => /\ slots' = slots \/ slots' = slots - 1
                       /\ waiters' = waiters \/ (waiters # <<>> /\ waiters' = Tail(waiters))
      BY DEF Return
    <3>2. Return(h) => slots' \in Int
      BY <3>1
    <3>3. Return(h) => waiters' \in Seq(Handlers)
      BY <2>1, <3>1, Zenon
    <3> QED
      BY <3>2, <3>3
  <2>4. Return(h) => slot' \in [Handlers -> BOOLEAN]
    <3>1. Return(h) => \/ slot' = slot
                       \/ slot' = [slot EXCEPT ![h] = FALSE]
                       \/ slot' = [slot EXCEPT ![h] = FALSE, ![Head(waiters)] = TRUE]
      BY DEF Return
    <3>2. [slot EXCEPT ![h] = FALSE] \in [Handlers -> BOOLEAN]
      OBVIOUS
    <3>3. [slot EXCEPT ![h] = FALSE, ![Head(waiters)] = TRUE] \in [Handlers -> BOOLEAN]
      OBVIOUS
    <3> QED
      BY <3>1, <3>2, <3>3
  <2>5. Return(h) => pc' \in [Handlers -> Pc]
    <3>1. Return(h) => \/ pc' = [pc EXCEPT ![h] = "idle"]
                       \/ pc' = [pc EXCEPT ![h] = "idle", ![Head(waiters)] = "body"]
      BY DEF Return
    <3>2. [pc EXCEPT ![h] = "idle", ![Head(waiters)] = "body"] \in [Handlers -> Pc]
      OBVIOUS
    <3> QED
      BY <3>1, <3>2
  <2> QED
    BY <2>2, <2>3, <2>4, <2>5
<1> QED
  BY <1>1, <1>2, <1>3, Zenon

----------------------------------------------------------------------------
(* The semaphore                                                           *)

Holding == {h \in Handlers : slot[h]}
HoldPoints == {"body", "dispatch", "parse", "enqueue", "return"}

(* A handler of event traffic, from its slot to the end of its work. *)
Works(l, r) ==
  l \in {"body", "parse", "enqueue"} \/ (l = "dispatch" /\ ~(Complete(r) /\ Liveness(r)))

(* The work on event payloads is done with a slot. *)
WorkersHold == \A h \in Handlers : Works(pc[h], req[h]) => slot[h]

SlotInv == Types /\ SlotsBalance /\ slots <= MaxConcurrentRequests /\ WorkersHold

(* A step of one handler that leaves the semaphore and the waiters alone. *)
Quiet(h) ==
  /\ pc[h] # "waiting" /\ pc'[h] # "waiting"
  /\ UNCHANGED <<slots, waiters, slot>>
  /\ \A k \in Handlers \ {h} : pc'[k] = pc[k] /\ req'[k] = req[k]
  /\ slot[h] => pc'[h] \in HoldPoints
  /\ Works(pc'[h], req'[h]) => slot[h]

LEMMA QuietKeepsSlots ==
  ASSUME SlotInv, Types', NEW h \in Handlers, Quiet(h)
  PROVE  SlotInv'
<1>1. At({"waiting"})' = At({"waiting"})
  BY DEF At, SlotInv, Types, Quiet
<1>2. \A k \in Handlers : slot'[k] => pc'[k] \in HoldPoints
  BY DEF SlotInv, Types, SlotsBalance, HoldPoints, Quiet
<1>3. slots' = slots /\ waiters' = waiters /\ slot' = slot
  BY DEF Quiet
<1>4. SlotsBalance
  BY DEF SlotInv
<1>5. SlotsBalance'
  <2>1. IsInjective(waiters)'
    BY <1>3, <1>4 DEF SlotsBalance, IsInjective
  <2>2. Range(waiters)' = Range(waiters)
    BY <1>3 DEF Range
  <2> QED
    BY <1>1, <1>2, <1>3, <1>4, <2>1, <2>2 DEF SlotsBalance, HoldPoints
<1>6. WorkersHold'
  <2> SUFFICES ASSUME NEW k \in Handlers, Works(pc'[k], req'[k]) PROVE slot'[k]
    BY Zenon DEF WorkersHold, Works, Complete, Liveness
  <2>1. CASE k = h
    BY <2>1, <1>3 DEF Quiet
  <2>2. CASE k # h
    BY <2>2, <1>3 DEF Quiet, SlotInv, WorkersHold
  <2> QED
    BY <2>1, <2>2
<1> QED
  BY <1>3, <1>5, <1>6 DEF SlotInv

(* Everything but acquireSlot and releaseSlot is such a step: no branch of ServeHTTP
   forgets its slot, and none works without. *)
LEMMA BranchesAreQuiet ==
  ASSUME SlotInv, NEW h \in Handlers
  PROVE  /\ \A r \in Requests : MethodNotAllowed(h, r) \/ Receive(h, r) => Quiet(h)
         /\ ReadProbe(h) \/ ProbeFails(h) => Quiet(h)
         /\ AcquireSlotThrottled(h) => Quiet(h)
         /\ ReadBody(h) \/ ReadBodyFails(h) => Quiet(h)
         /\ Undecodable(h) \/ RegisterRequest(h) \/ CheckFileHeartbeat(h) => Quiet(h)
         /\ HeartBeatRequest(h) \/ CheckFileEvent(h) \/ CheckEventRequest(h) => Quiet(h)
         /\ ParseAcknowledged(h) \/ ParseFails(h) => Quiet(h)
         /\ Events(h) \/ Enqueue(h) => Quiet(h)
<1> USE DEF SlotInv, Types, SlotsBalance, WorkersHold, Quiet, Works, HoldPoints, To, slotVars
<1>1. ASSUME NEW r \in Requests
      PROVE  MethodNotAllowed(h, r) \/ Receive(h, r) => Quiet(h)
  BY DEF MethodNotAllowed, Receive, Arrives
<1>2. ReadProbe(h) => Quiet(h)
  BY DEF ReadProbe
<1>3. ProbeFails(h) => Quiet(h)
  BY DEF ProbeFails, AnswerUnreadableBody
<1>4. AcquireSlotThrottled(h) => Quiet(h)
  BY DEF AcquireSlotThrottled, beyondSlot
<1>5. ReadBody(h) => Quiet(h)
  BY DEF ReadBody, beyondSlot
<1>6. ReadBodyFails(h) => Quiet(h)
  BY DEF ReadBodyFails, AnswerUnreadableBody
<1>7. Undecodable(h) => Quiet(h)
  BY DEF Undecodable, AtDialect, beyondBranch
<1>8. RegisterRequest(h) => Quiet(h)
  BY DEF RegisterRequest, AtDialect, beyondBranch
<1>9. CheckFileHeartbeat(h) => Quiet(h)
  BY DEF CheckFileHeartbeat, AtDialect, beyondBranch
<1>10. HeartBeatRequest(h) => Quiet(h)
  BY DEF HeartBeatRequest, AtDialect, beyondBranch
<1>11. CheckFileEvent(h) => Quiet(h)
  BY DEF CheckFileEvent, AtDialect, beyondBranch, Liveness
<1>12. CheckEventRequest(h) => Quiet(h)
  BY DEF CheckEventRequest, AtDialect, beyondBranch, Liveness
<1>13. ParseAcknowledged(h) => Quiet(h)
  BY DEF ParseAcknowledged, EnqueueBatch, beyondBranch
<1>14. ParseFails(h) => Quiet(h)
  BY DEF ParseFails, beyondBranch
<1>15. Events(h) => Quiet(h)
  BY DEF Events, EnqueueBatch, AtDialect, beyondBranch, Liveness
<1>16. Enqueue(h) => Quiet(h)
  BY DEF Enqueue
<1> QED
  BY <1>1, <1>2, <1>3, <1>4, <1>5, <1>6, <1>7, <1>8, <1>9, <1>10, <1>11, <1>12, <1>13, <1>14,
     <1>15, <1>16, Zenon
(* A free slot is taken: acquireSlot without waiting. *)
LEMMA GrantKeepsSlots ==
  ASSUME SlotInv, Types', NEW h \in Handlers, pc[h] \in {"acquire", "park"},
         slots < MaxConcurrentRequests, slots' = slots + 1, UNCHANGED <<waiters, req>>,
         slot' = [slot EXCEPT ![h] = TRUE], To(h, "body")
  PROVE  SlotInv'
<1> USE DEF SlotInv, Types, To
<1>1. ~slot[h] /\ waiters = <<>>
  <2>1. ~slot[h]
    BY DEF SlotsBalance
  <2>2. slots # MaxConcurrentRequests
    BY IngressAssumption
  <2> QED
    BY <2>1, <2>2, Zenon DEF SlotsBalance
<1>2. IsFiniteSet(Holding)
  BY IngressAssumption, FS_Subset DEF Holding
<1>3. Holding' = Holding \cup {h}
  BY DEF Holding
<1>4. slots' = Cardinality(Holding')
  <2>1. h \notin Holding /\ slots = Cardinality(Holding)
    BY <1>1 DEF Holding, SlotsBalance
  <2>2. Cardinality(Holding \cup {h}) = Cardinality(Holding) + 1
    BY <1>2, <2>1, FS_AddElement
  <2> QED
    BY <1>3, <2>1, <2>2
<1>5. At({"waiting"})' = At({"waiting"})
  BY DEF At
<1>6. \A k \in Handlers : slot'[k] => pc'[k] \in HoldPoints
  BY DEF SlotsBalance, HoldPoints
<1>7. IsInjective(waiters)' /\ Range(waiters)' = Range(waiters)
  BY DEF SlotsBalance, IsInjective, Range
<1>8. SlotsBalance'
  BY <1>1, <1>4, <1>5, <1>6, <1>7 DEF SlotsBalance, HoldPoints, Holding
<1>9. WorkersHold'
  BY DEF WorkersHold, Works, Complete, Liveness
<1>10. (slots <= MaxConcurrentRequests)'
  BY IngressAssumption
<1> QED
  BY <1>8, <1>9, <1>10

(* The slots are taken: the handler queues up behind those who wait. *)
LEMMA ParkKeepsSlots ==
  ASSUME SlotInv, Types', NEW h \in Handlers, pc[h] = "park",
         ~(slots < MaxConcurrentRequests), waiters' = Append(waiters, h),
         To(h, "waiting"), UNCHANGED <<slots, slot, req>>
  PROVE  SlotInv'
<1> USE DEF SlotInv, Types, To
<1>1. slots = MaxConcurrentRequests
  BY IngressAssumption
<1>2. /\ Len(waiters') = Len(waiters) + 1 /\ waiters'[Len(waiters) + 1] = h
      /\ \A i \in 1..Len(waiters) : waiters'[i] = waiters[i]
  BY AppendProperties
<1>3. /\ DOMAIN waiters = 1..Len(waiters) /\ Len(waiters) \in Nat
      /\ DOMAIN waiters' = 1..(Len(waiters) + 1)
  BY <1>2, LenProperties
<1>4. Range(waiters)' = Range(waiters) \cup {h}
  <2>1. ASSUME NEW x \in Range(waiters)' PROVE x \in Range(waiters) \cup {h}
    <3>1. PICK i \in 1..(Len(waiters) + 1) : x = waiters'[i]
      BY <2>1, <1>3 DEF Range
    <3>2. CASE i \in 1..Len(waiters)
      BY <1>2, <1>3, <3>1, <3>2 DEF Range
    <3>3. CASE i = Len(waiters) + 1
      BY <1>2, <3>1, <3>3
    <3> QED
      BY <1>3, <3>2, <3>3
  <2>2. ASSUME NEW x \in Range(waiters) PROVE x \in Range(waiters)'
    <3>1. PICK i \in 1..Len(waiters) : x = waiters[i]
      BY <2>2, <1>3 DEF Range
    <3>2. x = waiters'[i] /\ i \in 1..(Len(waiters) + 1)
      BY <1>2, <1>3, <3>1
    <3> QED
      BY <1>3, <3>2 DEF Range
  <2>3. h \in Range(waiters)'
    <3>1. Len(waiters) + 1 \in DOMAIN waiters'
      BY <1>3
    <3> QED
      BY <1>2, <3>1 DEF Range
  <2> QED
    BY <2>1, <2>2, <2>3
<1>5. h \notin Range(waiters)
  BY DEF SlotsBalance, At
<1>6. \A i \in 1..Len(waiters) : waiters[i] # h
  BY <1>3, <1>5 DEF Range
<1>7. IsInjective(waiters)'
  <2> SUFFICES ASSUME NEW i \in 1..(Len(waiters) + 1), NEW j \in 1..(Len(waiters) + 1),
                      waiters'[i] = waiters'[j]
               PROVE  i = j
    BY <1>3 DEF IsInjective
  <2>1. CASE i \in 1..Len(waiters) /\ j \in 1..Len(waiters)
    <3>1. waiters[i] = waiters[j]
      BY <1>2, <2>1
    <3> QED
      BY <1>3, <2>1, <3>1 DEF IsInjective, SlotsBalance
  <2>2. CASE i \in 1..Len(waiters) /\ j = Len(waiters) + 1
    BY <1>2, <1>6, <2>2
  <2>3. CASE i = Len(waiters) + 1 /\ j \in 1..Len(waiters)
    BY <1>2, <1>6, <2>3
  <2> QED
    BY <1>3, <2>1, <2>2, <2>3
<1>8. At({"waiting"})' = At({"waiting"}) \cup {h}
  BY DEF At
<1>9. \A k \in Handlers : slot'[k] => pc'[k] \in HoldPoints
  BY DEF SlotsBalance, HoldPoints
<1>10. SlotsBalance'
  BY <1>1, <1>4, <1>7, <1>8, <1>9 DEF SlotsBalance, HoldPoints
<1>11. WorkersHold'
  BY DEF WorkersHold, Works, Complete, Liveness
<1> QED
  BY <1>10, <1>11

(* releaseSlot with nobody waiting. *)
LEMMA ReleaseKeepsSlots ==
  ASSUME SlotInv, Types', NEW h \in Handlers, pc[h] = "return", slot[h], waiters = <<>>,
         slots' = slots - 1, slot' = [slot EXCEPT ![h] = FALSE], To(h, "idle"),
         UNCHANGED <<waiters, req>>
  PROVE  SlotInv'
<1> USE DEF SlotInv, Types, To
<1>1. IsFiniteSet(Holding)
  BY IngressAssumption, FS_Subset DEF Holding
<1>2. Holding' = Holding \ {h}
  BY DEF Holding
<1>3. slots' = Cardinality(Holding')
  <2>1. h \in Holding /\ slots = Cardinality(Holding)
    BY DEF Holding, SlotsBalance
  <2>2. Cardinality(Holding \ {h}) = Cardinality(Holding) - 1
    BY <1>1, <2>1, FS_RemoveElement
  <2> QED
    BY <1>2, <2>1, <2>2
<1>4. At({"waiting"})' = At({"waiting"})
  BY DEF At
<1>5. \A k \in Handlers : slot'[k] => pc'[k] \in HoldPoints
  BY DEF SlotsBalance, HoldPoints
<1>6. IsInjective(waiters)' /\ Range(waiters)' = Range(waiters)
  BY DEF SlotsBalance, IsInjective, Range
<1>7. SlotsBalance'
  BY <1>3, <1>4, <1>5, <1>6 DEF SlotsBalance, HoldPoints, Holding
<1>8. WorkersHold'
  BY DEF WorkersHold, Works, Complete, Liveness
<1>9. (slots <= MaxConcurrentRequests)'
  BY IngressAssumption
<1> QED
  BY <1>7, <1>8, <1>9

(* releaseSlot hands its place to the handler that waits longest. *)
LEMMA HandOverKeepsSlots ==
  ASSUME SlotInv, Types', NEW h \in Handlers, pc[h] = "return", slot[h], waiters # <<>>,
         slot' = [slot EXCEPT ![h] = FALSE, ![Head(waiters)] = TRUE],
         pc' = [pc EXCEPT ![h] = "idle", ![Head(waiters)] = "body"],
         waiters' = Tail(waiters), UNCHANGED <<slots, req>>
  PROVE  SlotInv'
<1> DEFINE k == Head(waiters)
<1> USE DEF SlotInv, Types
<1>1. /\ k \in Handlers /\ k = waiters[1] /\ Len(waiters) \in Nat \ {0}
      /\ DOMAIN waiters = 1..Len(waiters)
      /\ Len(waiters') = Len(waiters) - 1 /\ DOMAIN waiters' = 1..(Len(waiters) - 1)
      /\ \A i \in 1..(Len(waiters) - 1) : waiters'[i] = waiters[i + 1]
  BY HeadTailProperties, LenProperties, EmptySeq
<1>2. k \in Range(waiters)
  <2>1. 1 \in DOMAIN waiters
    BY <1>1
  <2> QED
    BY <1>1, <2>1 DEF Range
<1>3. pc[k] = "waiting" /\ ~slot[k] /\ k # h
  BY <1>1, <1>2 DEF SlotsBalance, At
<1>4. ASSUME NEW i \in 2..Len(waiters) PROVE waiters[i] # k
  <2>0. 1 \in 1..Len(waiters) /\ i \in 1..Len(waiters) /\ i # 1
    <3> HIDE DEF SlotInv, Types
    <3>1. Len(waiters) \in Int
      BY <1>1
    <3>2. i \in Int /\ 2 <= i /\ i <= Len(waiters)
      BY <1>4, <3>1
    <3> QED
      BY <3>1, <3>2
  <2>1. 1 \in DOMAIN waiters /\ i \in DOMAIN waiters /\ i # 1
    BY <1>1, <2>0
  <2> QED
    BY <1>1, <2>1 DEF SlotsBalance, IsInjective
<1>5. Range(waiters)' = Range(waiters) \ {k}
  <2>1. ASSUME NEW x \in Range(waiters)' PROVE x \in Range(waiters) \ {k}
    <3>1. PICK i \in 1..(Len(waiters) - 1) : x = waiters'[i]
      BY <2>1, <1>1 DEF Range
    <3>2. x = waiters[i + 1] /\ i + 1 \in 2..Len(waiters) /\ i + 1 \in DOMAIN waiters
      BY <1>1, <3>1
    <3> QED
      BY <3>2, <1>4 DEF Range
  <2>2. ASSUME NEW x \in Range(waiters) \ {k} PROVE x \in Range(waiters)'
    <3>1. PICK i \in 1..Len(waiters) : x = waiters[i]
      BY <2>2, <1>1 DEF Range
    <3>2. i # 1
      BY <3>1, <2>2, <1>1
    <3>3. i - 1 \in 1..(Len(waiters) - 1) /\ x = waiters'[i - 1]
      BY <3>1, <3>2, <1>1
    <3> QED
      BY <3>3, <1>1 DEF Range
  <2> QED
    BY <2>1, <2>2
<1>6. IsInjective(waiters)'
  <2> SUFFICES ASSUME NEW i \in 1..(Len(waiters) - 1), NEW j \in 1..(Len(waiters) - 1),
                      waiters'[i] = waiters'[j]
               PROVE  i = j
    BY <1>1 DEF IsInjective
  <2>1. waiters[i + 1] = waiters[j + 1] /\ i + 1 \in DOMAIN waiters /\ j + 1 \in DOMAIN waiters
    BY <1>1
  <2>2. i + 1 = j + 1
    BY <2>1 DEF SlotsBalance, IsInjective
  <2> QED
    BY <2>2
<1>7. At({"waiting"})' = At({"waiting"}) \ {k}
  BY <1>1, <1>3 DEF At
<1>8. Holding' = (Holding \ {h}) \cup {k}
  BY <1>1, <1>3 DEF Holding
<1>9. slots' = Cardinality(Holding')
  <2>1. IsFiniteSet(Holding)
    BY IngressAssumption, FS_Subset DEF Holding
  <2>2. h \in Holding /\ k \notin Holding \ {h} /\ slots = Cardinality(Holding)
    BY <1>3 DEF Holding, SlotsBalance
  <2>3. IsFiniteSet(Holding \ {h}) /\ Cardinality(Holding \ {h}) = Cardinality(Holding) - 1
    BY <2>1, <2>2, FS_RemoveElement
  <2>4. Cardinality((Holding \ {h}) \cup {k}) = Cardinality(Holding \ {h}) + 1
    BY <2>2, <2>3, FS_AddElement
  <2> QED
    BY <1>8, <2>2, <2>3, <2>4
<1>10. \A m \in Handlers : slot'[m] => pc'[m] \in HoldPoints
  BY <1>1, <1>3 DEF SlotsBalance, HoldPoints
<1>11. SlotsBalance'
  BY <1>5, <1>6, <1>7, <1>9, <1>10 DEF SlotsBalance, HoldPoints, Holding
<1>12. WorkersHold'
  BY <1>1, <1>3 DEF WorkersHold, Works, Complete, Liveness
<1> QED
  BY <1>11, <1>12
LEMMA SlotStep == SlotInv /\ [Next]_vars => SlotInv'
<1> SUFFICES ASSUME SlotInv, [Next]_vars PROVE SlotInv'
  OBVIOUS
<1>0. Types /\ SlotsBalance
  BY DEF SlotInv
<1>1. CASE UNCHANGED <<slots, waiters, slot, pc, req, reply, left, took, lost>>
  <2>1. SlotsBalance'
    BY <1>0, <1>1 DEF SlotsBalance, At, IsInjective, Range
  <2>2. WorkersHold'
    BY <1>1 DEF SlotInv, WorkersHold, Works, Complete, Liveness
  <2> QED
    BY <1>1, <2>1, <2>2 DEF SlotInv, Types
<1>2. ASSUME NEW h \in Handlers, ServeHTTP(h) PROVE SlotInv'
  <2>1. Quiet(h) /\ Types' => SlotInv'
    BY QuietKeepsSlots
  <2>2. (\/ \E r \in Requests : MethodNotAllowed(h, r) \/ Receive(h, r)
         \/ ReadProbe(h) \/ ProbeFails(h) \/ AcquireSlotThrottled(h)
         \/ ReadBody(h) \/ ReadBodyFails(h) \/ Undecodable(h) \/ RegisterRequest(h)
         \/ CheckFileHeartbeat(h) \/ HeartBeatRequest(h) \/ CheckFileEvent(h)
         \/ CheckEventRequest(h) \/ ParseAcknowledged(h) \/ ParseFails(h) \/ Events(h)
         \/ Enqueue(h)) => SlotInv'
    BY <1>0, <2>1, BranchesKeepTypes, BranchesAreQuiet, Zenon
  <2>3. AcquireSlotFree(h) \/ AcquireSlotBlocking(h) \/ Return(h) => Types'
    BY <1>0, SlotStepsKeepTypes
  <2>4. CASE AcquireSlotFree(h)
    BY <2>3, <2>4, GrantKeepsSlots DEF AcquireSlotFree, beyondSlot
  <2>5. CASE AcquireSlotBlocking(h)
    <3>1. CASE slots < MaxConcurrentRequests
      BY <2>3, <2>5, <3>1, GrantKeepsSlots DEF AcquireSlotBlocking, beyondSlot
    <3>2. CASE ~(slots < MaxConcurrentRequests)
      BY <2>3, <2>5, <3>2, ParkKeepsSlots DEF AcquireSlotBlocking, beyondSlot
    <3> QED
      BY <3>1, <3>2
  <2>6. CASE Return(h)
    <3>1. pc[h] = "return" /\ UNCHANGED req
      BY <2>6 DEF Return
    <3>2. CASE ~slot[h] /\ To(h, "idle") /\ UNCHANGED <<slots, slot, waiters>>
      <4>1. Quiet(h)
        BY <1>0, <3>1, <3>2 DEF Quiet, Works, To, Types
      <4> QED
        BY <2>1, <2>3, <2>6, <4>1
    <3>3. CASE /\ slot[h] /\ waiters = <<>>
               /\ slots' = slots - 1 /\ slot' = [slot EXCEPT ![h] = FALSE]
               /\ To(h, "idle") /\ UNCHANGED waiters
      BY <2>3, <2>6, <3>1, <3>3, ReleaseKeepsSlots
    <3>4. CASE /\ slot[h] /\ waiters # <<>>
               /\ slot' = [slot EXCEPT ![h] = FALSE, ![Head(waiters)] = TRUE]
               /\ pc' = [pc EXCEPT ![h] = "idle", ![Head(waiters)] = "body"]
               /\ waiters' = Tail(waiters) /\ UNCHANGED slots
      BY <2>3, <2>6, <3>1, <3>4, HandOverKeepsSlots
    <3> QED
      BY <2>6, <3>2, <3>3, <3>4, Zenon DEF Return
  <2> QED
    BY <1>2, <2>2, <2>4, <2>5, <2>6 DEF ServeHTTP
<1>3. Drain \/ Stop \/ UNCHANGED vars =>
        UNCHANGED <<slots, waiters, slot, pc, req, reply, left, took, lost>>
  BY DEF Drain, Stop, vars, beyondQueue, handlerVars, slotVars
<1> QED
  BY <1>1, <1>2, <1>3 DEF Next

LEMMA SlotInvariant == Spec => []SlotInv
<1>1. Init => SlotInv
  <2> SUFFICES ASSUME Init PROVE SlotInv
    OBVIOUS
  <2>1. Types
    BY InitTypes
  <2>2. {h \in Handlers : slot[h]} = {} /\ At({"waiting"}) = {}
    BY DEF Init, At
  <2>3. IsInjective(waiters) /\ Range(waiters) = {}
    BY DEF Init, IsInjective, Range
  <2>4. slots = Cardinality({h \in Handlers : slot[h]}) /\ slots <= MaxConcurrentRequests
    <3>1. slots = 0 /\ Cardinality({}) = 0 /\ 0 <= MaxConcurrentRequests
      BY FS_EmptySet, IngressAssumption DEF Init
    <3> QED
      BY <2>2, <3>1
  <2>5. SlotsBalance
    BY <2>2, <2>3, <2>4 DEF Init, SlotsBalance
  <2>6. WorkersHold
    BY DEF Init, WorkersHold, Works
  <2> QED
    BY <2>1, <2>4, <2>5, <2>6 DEF SlotInv
<1> QED
  BY <1>1, SlotStep, PTL DEF Spec

(* The semaphore of acquireSlot and releaseSlot balances: every slot is held by
   a handler that will release it, and a handler waits only while all are held. *)
THEOREM SemaphoreBalances == Spec => []SlotsBalance
<1>1. SlotInv => SlotsBalance
  BY DEF SlotInv
<1> QED
  BY <1>1, SlotInvariant, PTL

(* However many requests ServeHTTP runs at once, at most MaxConcurrentRequests of
   them hold a long body or the events parsed from one. *)
THEOREM BodiesAreBounded == Spec => []BodiesBounded
<1>1. SlotInv => BodiesBounded
  <2> SUFFICES ASSUME SlotInv PROVE BodiesBounded
    OBVIOUS
  <2> DEFINE S == At({"parse", "enqueue"}) \cup {h \in At({"dispatch"}) : ~Complete(req[h])}
  <2>1. S \subseteq Holding
    BY DEF SlotInv, WorkersHold, Works, Holding, At
  <2>2. IsFiniteSet(Holding)
    BY IngressAssumption, FS_Subset DEF Holding
  <2>3. Cardinality(S) <= Cardinality(Holding) /\ Cardinality(S) \in Nat
    BY <2>1, <2>2, FS_Subset, FS_CardinalityType
  <2>4. Cardinality(Holding) = slots /\ slots <= MaxConcurrentRequests
    BY DEF SlotInv, SlotsBalance, Holding
  <2>5. Cardinality(S) <= MaxConcurrentRequests
    BY <2>2, <2>3, <2>4, FS_CardinalityType, IngressAssumption
  <2> QED
    BY <2>5 DEF BodiesBounded
<1> QED
  BY <1>1, SlotInvariant, PTL
----------------------------------------------------------------------------
(* Acknowledged events                                                     *)

(* What became of the events of a request so far, by its place in ServeHTTP:
   nothing before they are parsed, nothing is parsed unless its reply was
   written, and the loop of enqueue has decided on all but what is left. *)
Account(h) ==
  /\ pc[h] \in {"probe", "acquire", "park", "waiting", "body", "dispatch", "parse"}
       => took[h] = 0 /\ lost[h] = 0
  /\ pc[h] \in {"parse", "enqueue"} => reply[h] # None
  /\ pc[h] = "enqueue" => took[h] + lost[h] + left[h] = req[h].events
  /\ pc[h] = "return" =>
       /\ reply[h] # None /\ req[h].dialect \in {"CheckFileEvent", "CheckEventRequest"}
                          /\ req[h].method # "GET"
            => took[h] + lost[h] = req[h].events \/ (took[h] = 0 /\ lost[h] = 1)
       /\ reply[h] = None => took[h] = 0

Accounts == \A h \in Handlers : Account(h)

(* What a step of another handler leaves alone. *)
Same(k) ==
  /\ pc'[k] = pc[k] /\ req'[k] = req[k] /\ reply'[k] = reply[k]
  /\ left'[k] = left[k] /\ took'[k] = took[k] /\ lost'[k] = lost[k]

LEMMA SameAccount ==
  ASSUME NEW k \in Handlers, Account(k), Same(k)
  PROVE  Account(k)'
BY DEF Account, Same, None

(* Every step of ServeHTTP but the release of a slot moves one handler only. *)
LEMMA OthersStay ==
  ASSUME Types, NEW h \in Handlers, NEW k \in Handlers \ {h}
  PROVE  /\ \A r \in Requests : MethodNotAllowed(h, r) \/ Receive(h, r) => Same(k)
         /\ ReadProbe(h) \/ ProbeFails(h) => Same(k)
         /\ AcquireSlotFree(h) \/ AcquireSlotThrottled(h) \/ AcquireSlotBlocking(h) => Same(k)
         /\ ReadBody(h) \/ ReadBodyFails(h) => Same(k)
         /\ Undecodable(h) \/ RegisterRequest(h) \/ CheckFileHeartbeat(h) => Same(k)
         /\ HeartBeatRequest(h) \/ CheckFileEvent(h) \/ CheckEventRequest(h) => Same(k)
         /\ ParseAcknowledged(h) \/ ParseFails(h) => Same(k)
         /\ Events(h) \/ Enqueue(h) => Same(k)
<1> USE DEF Types, To, Same, Respond
<1>1. ASSUME NEW r \in Requests
      PROVE  MethodNotAllowed(h, r) \/ Receive(h, r) => Same(k)
  BY DEF MethodNotAllowed, Receive, Arrives
<1>2. ReadProbe(h) => Same(k)
  BY DEF ReadProbe
<1>3. ProbeFails(h) => Same(k)
  BY DEF ProbeFails, AnswerUnreadableBody
<1>4. AcquireSlotFree(h) => Same(k)
  BY DEF AcquireSlotFree, beyondSlot
<1>5. AcquireSlotThrottled(h) => Same(k)
  BY DEF AcquireSlotThrottled, beyondSlot
<1>6. AcquireSlotBlocking(h) => Same(k)
  BY DEF AcquireSlotBlocking, beyondSlot
<1>7. ReadBody(h) => Same(k)
  BY DEF ReadBody, beyondSlot
<1>8. ReadBodyFails(h) => Same(k)
  BY DEF ReadBodyFails, AnswerUnreadableBody
<1>9. Undecodable(h) => Same(k)
  BY DEF Undecodable, AtDialect, beyondBranch, noEvents
<1>10. RegisterRequest(h) => Same(k)
  BY DEF RegisterRequest, AtDialect, beyondBranch, noEvents
<1>11. CheckFileHeartbeat(h) => Same(k)
  BY DEF CheckFileHeartbeat, AtDialect, beyondBranch, noEvents
<1>12. HeartBeatRequest(h) => Same(k)
  BY DEF HeartBeatRequest, AtDialect, beyondBranch, noEvents
<1>13. CheckFileEvent(h) => Same(k)
  BY DEF CheckFileEvent, AtDialect, beyondBranch, noEvents, Responded
<1>14. CheckEventRequest(h) => Same(k)
  BY DEF CheckEventRequest, AtDialect, beyondBranch, noEvents, Responded
<1>15. ParseAcknowledged(h) => Same(k)
  BY DEF ParseAcknowledged, EnqueueBatch, beyondBranch
<1>16. ParseFails(h) => Same(k)
  BY DEF ParseFails, beyondBranch
<1>17. Events(h) => Same(k)
  BY DEF Events, EnqueueBatch, AtDialect, beyondBranch
<1>01. Enqueue(h) => Same(k)
  BY DEF Enqueue
<1> QED
  BY <1>1, <1>2, <1>3, <1>4, <1>5, <1>6, <1>7, <1>8, <1>9, <1>10, <1>11, <1>12, <1>13, <1>14,
     <1>15, <1>16, <1>17, <1>01, Zenon

LEMMA ArrivalAccounts ==
  ASSUME Types, Accounts, NEW h \in Handlers, NEW r \in Requests
  PROVE  MethodNotAllowed(h, r) \/ Receive(h, r) => Account(h)'
<1>1. r \in RequestType
  BY IngressAssumption
<1>2. r.method \notin {"PUT", "POST"} => r.method = "GET"
  BY <1>1 DEF RequestType
<1>3. Arrives(h, r) => took'[h] = 0 /\ lost'[h] = 0 /\ req'[h] = r
  BY DEF Arrives, Types
<1>4. MethodNotAllowed(h, r) => pc'[h] = "return" /\ Arrives(h, r) /\ r.method = "GET"
  BY <1>2 DEF MethodNotAllowed, To, Types
<1>5. Receive(h, r) => pc'[h] = "probe" /\ Arrives(h, r)
  BY DEF Receive, To, Types
<1> QED
  BY <1>3, <1>4, <1>5 DEF Account

(* Each branch of ServeHTTP leaves the account of its own request in order. *)
LEMMA BranchesAccount ==
  ASSUME Types, Accounts, NEW h \in Handlers
  PROVE  /\ ReadProbe(h) \/ ProbeFails(h) => Account(h)'
         /\ AcquireSlotFree(h) \/ AcquireSlotThrottled(h) => Account(h)'
         /\ AcquireSlotBlocking(h) => Account(h)'
         /\ ReadBody(h) \/ ReadBodyFails(h) => Account(h)'
         /\ Undecodable(h) \/ RegisterRequest(h) \/ CheckFileHeartbeat(h) => Account(h)'
         /\ HeartBeatRequest(h) \/ CheckFileEvent(h) \/ CheckEventRequest(h) => Account(h)'
         /\ ParseAcknowledged(h) \/ ParseFails(h) => Account(h)'
         /\ Events(h) \/ Enqueue(h) => Account(h)'
<1> USE DEF Types, To, Account, Respond
<1>01. req[h].events \in Int
  BY DEF RequestType, BadPayload
<1>0. Account(h)
  BY DEF Accounts
<1>1. ReadProbe(h) => Account(h)'
  BY <1>0 DEF ReadProbe
<1>2. ProbeFails(h) => Account(h)'
  BY <1>0 DEF ProbeFails, AnswerUnreadableBody
<1>3. AcquireSlotFree(h) => Account(h)'
  BY <1>0 DEF AcquireSlotFree, beyondSlot
<1>4. AcquireSlotThrottled(h) => Account(h)'
  BY <1>0 DEF AcquireSlotThrottled, beyondSlot
<1>5. AcquireSlotBlocking(h) => Account(h)'
  BY <1>0 DEF AcquireSlotBlocking, beyondSlot
<1>6. ReadBody(h) => Account(h)'
  BY <1>0 DEF ReadBody, beyondSlot
<1>7. ReadBodyFails(h) => Account(h)'
  BY <1>0 DEF ReadBodyFails, AnswerUnreadableBody
<1>8. Undecodable(h) => Account(h)'
  BY <1>0 DEF Undecodable, AtDialect, beyondBranch, noEvents
<1>9. RegisterRequest(h) => Account(h)'
  BY <1>0 DEF RegisterRequest, AtDialect, beyondBranch, noEvents
<1>10. CheckFileHeartbeat(h) => Account(h)'
  BY <1>0 DEF CheckFileHeartbeat, AtDialect, beyondBranch, noEvents
<1>11. HeartBeatRequest(h) => Account(h)'
  BY <1>0 DEF HeartBeatRequest, AtDialect, beyondBranch, noEvents
<1>12. CheckFileEvent(h) => Account(h)'
  BY <1>0 DEF CheckFileEvent, AtDialect, beyondBranch, noEvents, Responded
<1>13. CheckEventRequest(h) => Account(h)'
  BY <1>0 DEF CheckEventRequest, AtDialect, beyondBranch, noEvents, Responded
<1>14. ParseAcknowledged(h) => Account(h)'
  <2> SUFFICES ASSUME ParseAcknowledged(h) PROVE Account(h)'
    OBVIOUS
  <2>1. /\ pc[h] = "parse" /\ UNCHANGED <<req, took, lost, reply>>
        /\ left'[h] = req[h].events
        /\ pc'[h] = IF req[h].events = 0 THEN "return" ELSE "enqueue"
    BY DEF ParseAcknowledged, EnqueueBatch, beyondBranch
  <2>2. took'[h] = 0 /\ lost'[h] = 0 /\ reply'[h] # None
    BY <1>0, <2>1
  <2>3. 0 + 0 + req[h].events = req[h].events
    BY <1>01
  <2> QED
    BY <2>1, <2>2, <2>3
<1>15. ParseFails(h) => Account(h)'
  BY <1>0 DEF ParseFails, beyondBranch
<1>16. Events(h) => Account(h)'
  <2> SUFFICES ASSUME Events(h) PROVE Account(h)'
    OBVIOUS
  <2>1. /\ pc[h] = "dispatch" /\ req[h].dialect = "Events" /\ UNCHANGED <<req, took, lost>>
        /\ reply'[h] = [doc |-> "emptyOK", utf16 |-> FALSE]
    BY DEF Events, AtDialect, beyondBranch
  <2>2. took'[h] = 0 /\ lost'[h] = 0
    BY <1>0, <2>1
  <2>3. reply'[h] # None
    BY <2>1 DEF None
  <2>4. \/ pc'[h] = "return"
        \/ pc'[h] = "enqueue" /\ left'[h] = req[h].events
    BY DEF Events, EnqueueBatch
  <2>5. 0 + 0 + req[h].events = req[h].events
    BY <1>01
  <2> QED
    BY <2>1, <2>2, <2>3, <2>4, <2>5
<1>17. Enqueue(h) => Account(h)'
  <2> SUFFICES ASSUME Enqueue(h) PROVE Account(h)'
    OBVIOUS
  <2>1. pc[h] = "enqueue" /\ UNCHANGED <<req, reply>> /\ left'[h] = left[h] - 1
    BY DEF Enqueue
  <2>2. \/ took'[h] = took[h] + 1 /\ lost'[h] = lost[h]
        \/ took'[h] = took[h] /\ lost'[h] = lost[h] + 1
    BY DEF Enqueue
  <2>3. pc'[h] = IF left[h] = 1 THEN "return" ELSE "enqueue"
    BY DEF Enqueue
  <2>4. took[h] + lost[h] + left[h] = req[h].events /\ reply[h] # None
    BY <1>0, <2>1
  <2>5. took[h] \in Int /\ lost[h] \in Int /\ left[h] \in Int
    OBVIOUS
  <2>6. took'[h] + lost'[h] + left'[h] = req[h].events
    <3> HIDE DEF Types, Account, To, Respond
    <3> QED
      BY <1>01, <2>1, <2>2, <2>4, <2>5
  <2>7. left[h] = 1 => took'[h] + lost'[h] = req[h].events
    <3> HIDE DEF Types, Account, To, Respond
    <3> QED
      BY <1>01, <2>1, <2>2, <2>4, <2>5
  <2> QED
    BY <2>1, <2>3, <2>4, <2>6, <2>7
<1> QED
  BY <1>1, <1>2, <1>3, <1>4, <1>5, <1>6, <1>7, <1>8, <1>9, <1>10, <1>11, <1>12, <1>13, <1>14,
     <1>15, <1>16, <1>17, Zenon

LEMMA AccountStep == SlotInv /\ Accounts /\ [Next]_vars => Accounts'
<1> SUFFICES ASSUME SlotInv, Accounts, [Next]_vars PROVE Accounts'
  OBVIOUS
<1>0. Types /\ SlotsBalance
  BY DEF SlotInv
<1>1. CASE UNCHANGED <<pc, req, reply, left, took, lost>>
  <2>1. \A k \in Handlers : Same(k)
    BY <1>1 DEF Same
  <2> QED
    BY <2>1, SameAccount DEF Accounts
<1>2. ASSUME NEW h \in Handlers, ServeHTTP(h) PROVE Accounts'
  <2>1. (\A k \in Handlers \ {h} : Same(k)) /\ Account(h)' => Accounts'
    BY SameAccount DEF Accounts
  <2>2. \A r \in Requests : MethodNotAllowed(h, r) \/ Receive(h, r) => Accounts'
    BY <1>0, <2>1, OthersStay, ArrivalAccounts, Zenon
  <2>3. (\/ ReadProbe(h) \/ ProbeFails(h) \/ AcquireSlotFree(h) \/ AcquireSlotThrottled(h)
         \/ AcquireSlotBlocking(h) \/ ReadBody(h) \/ ReadBodyFails(h) \/ Undecodable(h)
         \/ RegisterRequest(h) \/ CheckFileHeartbeat(h) \/ HeartBeatRequest(h)
         \/ CheckFileEvent(h) \/ CheckEventRequest(h) \/ ParseAcknowledged(h)
         \/ ParseFails(h) \/ Events(h) \/ Enqueue(h)) => Accounts'
    BY <1>0, <2>1, OthersStay, BranchesAccount, Zenon
  <2>4. CASE Return(h)
    <3>1. UNCHANGED <<req, left, took, lost>> /\ \A k \in Handlers \ {h} : reply'[k] = reply[k]
      BY <1>0, <2>4 DEF Return, Types
    <3>2. CASE To(h, "idle")
      <4>1. \A k \in Handlers \ {h} : Same(k)
        BY <1>0, <3>1, <3>2 DEF Same, To, Types
      <4>2. Account(h)'
        BY <1>0, <3>2 DEF Account, To, Types
      <4> QED
        BY <2>1, <4>1, <4>2
    <3>3. CASE /\ waiters # <<>>
               /\ pc' = [pc EXCEPT ![h] = "idle", ![Head(waiters)] = "body"]
      <4>0. PICK w \in Handlers : w = Head(waiters)
        BY <1>0, <3>3, HeadTailProperties DEF Types
      <4>1. w \in Handlers /\ pc[w] = "waiting"
        <5>1. w = waiters[1] /\ w \in Handlers /\ 1 \in DOMAIN waiters
          BY <1>0, <3>3, <4>0, HeadTailProperties, LenProperties, EmptySeq DEF Types
        <5>2. w \in Range(waiters)
          BY <5>1 DEF Range
        <5> QED
          BY <1>0, <5>1, <5>2 DEF SlotsBalance, At
      <4>2. pc[h] = "return"
        BY <2>4 DEF Return
      <4>3. w # h
        BY <4>1, <4>2
      <4>4. Account(w)'
        <5>1. pc'[w] = "body" /\ took'[w] = 0 /\ lost'[w] = 0
          BY <1>0, <3>1, <3>3, <4>0, <4>1, <4>3 DEF Accounts, Account, Types
        <5> QED
          BY <5>1 DEF Account
      <4>5. Account(h)'
        <5>1. pc'[h] = "idle"
          BY <1>0, <3>3, <4>0, <4>1, <4>3 DEF Types
        <5> QED
          BY <5>1 DEF Account
      <4>6. \A k \in Handlers \ {h, w} : Same(k)
        BY <1>0, <3>1, <3>3, <4>0, <4>1 DEF Same, Types
      <4> QED
        BY <4>4, <4>5, <4>6, SameAccount DEF Accounts
    <3> QED
      BY <2>4, <3>2, <3>3, Zenon DEF Return
  <2> QED
    BY <1>2, <2>2, <2>3, <2>4 DEF ServeHTTP
<1>3. Drain \/ Stop \/ UNCHANGED vars => UNCHANGED <<pc, req, reply, left, took, lost>>
  BY DEF Drain, Stop, vars, beyondQueue, handlerVars
<1> QED
  BY <1>1, <1>2, <1>3 DEF Next

(* Each event that ServeHTTP has acknowledged is on the queue or was counted as
   dropped, and nothing of a batch whose reply failed is on the queue. *)
THEOREM AcknowledgedEvents == Spec => []AcknowledgedIsAccounted
<1>1. Init => Accounts
  BY DEF Init, Accounts, Account
<1>2. Accounts => AcknowledgedIsAccounted
  BY DEF Accounts, Account, AcknowledgedIsAccounted, At
<1> QED
  BY <1>1, <1>2, AccountStep, SlotInvariant, PTL DEF Spec
----------------------------------------------------------------------------
(* Counters                                                                *)

dropVars == <<EventsDroppedTotal, unreadable, onefsUnhandled, ceeUnhandled, refused>>
Counts ==
  /\ EventsReceivedTotal \in Int /\ breakdown \in Int
  /\ EventsDroppedTotal \in Int /\ unreadable \in Int /\ onefsUnhandled \in Int
  /\ ceeUnhandled \in Int /\ refused \in Int

(* Events are left only to a handler inside the loop of enqueue. *)
LoopsOnly == \A h \in Handlers : pc[h] # "enqueue" => left[h] = 0

CounterInv == Counts /\ LoopsOnly /\ CountersBalance

(* A step counts no drop, or one and its cause. *)
DropStep ==
  \/ UNCHANGED dropVars
  \/ /\ EventsDroppedTotal' = EventsDroppedTotal + 1
     /\ \/ unreadable' = unreadable + 1 /\ UNCHANGED <<onefsUnhandled, ceeUnhandled, refused>>
        \/ onefsUnhandled' = onefsUnhandled + 1 /\ UNCHANGED <<unreadable, ceeUnhandled, refused>>
        \/ ceeUnhandled' = ceeUnhandled + 1 /\ UNCHANGED <<unreadable, onefsUnhandled, refused>>
        \/ refused' = refused + 1 /\ UNCHANGED <<unreadable, onefsUnhandled, ceeUnhandled>>

(* A step leaves the loops alone, starts one, or takes one round. *)
LoopsStay ==
  /\ UNCHANGED <<left, EventsReceivedTotal, breakdown>>
  /\ \A k \in Handlers : pc'[k] # "enqueue" => pc[k] # "enqueue"

LoopStarts(h) ==
  /\ pc[h] # "enqueue" /\ UNCHANGED breakdown
  /\ left' = [left EXCEPT ![h] = req[h].events]
  /\ EventsReceivedTotal' = EventsReceivedTotal + req[h].events
  /\ \A k \in Handlers : pc'[k] # "enqueue" /\ k # h => pc[k] # "enqueue"
  /\ pc'[h] # "enqueue" => req[h].events = 0

LoopTurns(h) ==
  /\ pc[h] = "enqueue" /\ breakdown' = breakdown + 1 /\ UNCHANGED EventsReceivedTotal
  /\ left' = [left EXCEPT ![h] = @ - 1]
  /\ \A k \in Handlers : pc'[k] # "enqueue" /\ k # h => pc[k] # "enqueue"
  /\ pc'[h] # "enqueue" => left[h] = 1

LoopStep == LoopsStay \/ \E h \in Handlers : LoopStarts(h) \/ LoopTurns(h)

(* The sum over the loops follows the counters. *)
LEMMA CountersFollow ==
  ASSUME Types, CounterInv, DropStep, LoopStep
  PROVE  CounterInv'
<1> DEFINE Left == SumFunctionOnSet(left, Handlers)
<1>1. IsFiniteSet(Handlers) /\ (\A h \in Handlers : left[h] \in Int) /\ Left \in Int
  BY IngressAssumption, SumRemove DEF Types
<1>2. /\ EventsDroppedTotal' = unreadable' + onefsUnhandled' + ceeUnhandled' + refused'
      /\ EventsDroppedTotal' \in Int /\ unreadable' \in Int /\ onefsUnhandled' \in Int
      /\ ceeUnhandled' \in Int /\ refused' \in Int
  <2>1. CASE UNCHANGED dropVars
    BY <2>1 DEF dropVars, CounterInv, Counts, CountersBalance
  <2>2. CASE ~ UNCHANGED dropVars
    BY <2>2 DEF DropStep, CounterInv, Counts, CountersBalance
  <2> QED
    BY <2>1, <2>2
<1>3. EventsReceivedTotal = breakdown + Left /\ EventsReceivedTotal \in Int /\ breakdown \in Int
  BY DEF CounterInv, Counts, CountersBalance
<1>4. CASE LoopsStay
  <2>1. LoopsOnly'
    BY <1>4 DEF LoopsStay, LoopsOnly, CounterInv
  <2> QED
    BY <1>2, <1>3, <1>4, <2>1 DEF LoopsStay, CounterInv, Counts, CountersBalance
<1>5. ASSUME NEW h \in Handlers, LoopStarts(h) PROVE CounterInv'
  <2>1. req[h].events \in Int
    BY DEF Types, RequestType, BadPayload
  <2>2. left[h] = 0
    BY <1>5 DEF LoopStarts, CounterInv, LoopsOnly
  <2>3. left'[h] = req[h].events /\ \A k \in Handlers \ {h} : left'[k] = left[k]
    BY <1>5 DEF LoopStarts, Types
  <2>4. SumFunctionOnSet(left', Handlers) = Left + left'[h] - left[h]
    BY <1>1, <2>1, <2>3, SumUpdate
  <2>5. EventsReceivedTotal' = EventsReceivedTotal + req[h].events /\ breakdown' = breakdown
    BY <1>5 DEF LoopStarts
  <2>6. /\ EventsReceivedTotal' = breakdown' + SumFunctionOnSet(left', Handlers)
        /\ EventsReceivedTotal' \in Int /\ breakdown' \in Int
    <3> HIDE DEF Left
    <3> QED
      BY <1>1, <1>3, <2>1, <2>2, <2>3, <2>4, <2>5
  <2>7. LoopsOnly'
    BY <1>5, <2>3 DEF LoopStarts, LoopsOnly, CounterInv
  <2> QED
    BY <1>2, <2>6, <2>7 DEF CounterInv, Counts, CountersBalance
<1>6. ASSUME NEW h \in Handlers, LoopTurns(h) PROVE CounterInv'
  <2>1. left'[h] = left[h] - 1 /\ \A k \in Handlers \ {h} : left'[k] = left[k]
    BY <1>6 DEF LoopTurns, Types
  <2>2. SumFunctionOnSet(left', Handlers) = Left + left'[h] - left[h]
    BY <1>1, <2>1, SumUpdate
  <2>3. EventsReceivedTotal' = EventsReceivedTotal /\ breakdown' = breakdown + 1
    BY <1>6 DEF LoopTurns
  <2>4. /\ EventsReceivedTotal' = breakdown' + SumFunctionOnSet(left', Handlers)
        /\ EventsReceivedTotal' \in Int /\ breakdown' \in Int
    <3> HIDE DEF Left
    <3> QED
      BY <1>1, <1>3, <2>1, <2>2, <2>3
  <2>5. LoopsOnly'
    BY <1>6, <2>1 DEF LoopTurns, LoopsOnly, CounterInv
  <2> QED
    BY <1>2, <2>4, <2>5 DEF CounterInv, Counts, CountersBalance
<1> QED
  BY <1>4, <1>5, <1>6 DEF LoopStep

(* What each branch of ServeHTTP does to the loops and the drops. *)
LEMMA BranchesCount ==
  ASSUME Types, NEW h \in Handlers
  PROVE  /\ \A r \in Requests : MethodNotAllowed(h, r) \/ Receive(h, r) => LoopStep /\ DropStep
         /\ ReadProbe(h) \/ ProbeFails(h) => LoopStep /\ DropStep
         /\ AcquireSlotFree(h) \/ AcquireSlotThrottled(h) => LoopStep /\ DropStep
         /\ AcquireSlotBlocking(h) => LoopStep /\ DropStep
         /\ ReadBody(h) \/ ReadBodyFails(h) => LoopStep /\ DropStep
         /\ Undecodable(h) \/ RegisterRequest(h) => LoopStep /\ DropStep
         /\ CheckFileHeartbeat(h) \/ HeartBeatRequest(h) => LoopStep /\ DropStep
         /\ CheckFileEvent(h) \/ CheckEventRequest(h) => LoopStep /\ DropStep
         /\ ParseAcknowledged(h) \/ ParseFails(h) => LoopStep /\ DropStep
         /\ Events(h) \/ Enqueue(h) => LoopStep /\ DropStep
<1> USE DEF Types, To, DropStep, dropVars
<1>0. LoopsStay => LoopStep
  BY DEF LoopStep
<1>1. ASSUME NEW r \in Requests
      PROVE  MethodNotAllowed(h, r) \/ Receive(h, r) => LoopsStay /\ DropStep
  BY DEF MethodNotAllowed, Receive, Arrives, LoopsStay, eventVars, failVars, queueVars
<1>2. ReadProbe(h) => LoopsStay /\ DropStep
  BY DEF ReadProbe, LoopsStay, eventVars, failVars, queueVars
<1>3. ProbeFails(h) => LoopsStay /\ DropStep
  BY DEF ProbeFails, AnswerUnreadableBody, LoopsStay, queueVars
<1>4. AcquireSlotFree(h) \/ AcquireSlotThrottled(h) => LoopsStay /\ DropStep
  BY DEF AcquireSlotFree, AcquireSlotThrottled, beyondSlot, LoopsStay, eventVars, failVars,
         queueVars
<1>5. AcquireSlotBlocking(h) => LoopsStay /\ DropStep
  BY DEF AcquireSlotBlocking, beyondSlot, LoopsStay, eventVars, failVars, queueVars
<1>6. ReadBody(h) => LoopsStay /\ DropStep
  BY DEF ReadBody, beyondSlot, LoopsStay, eventVars, failVars, queueVars
<1>7. ReadBodyFails(h) => LoopsStay /\ DropStep
  BY DEF ReadBodyFails, AnswerUnreadableBody, LoopsStay, queueVars
<1>8. Undecodable(h) \/ RegisterRequest(h) => LoopsStay /\ DropStep
  BY DEF Undecodable, RegisterRequest, AtDialect, beyondBranch, noEvents, LoopsStay, queueVars
<1>9. CheckFileHeartbeat(h) \/ HeartBeatRequest(h) => LoopsStay /\ DropStep
  BY DEF CheckFileHeartbeat, HeartBeatRequest, AtDialect, beyondBranch, noEvents, LoopsStay,
         queueVars
<1>10. CheckFileEvent(h) \/ CheckEventRequest(h) => LoopsStay /\ DropStep
  BY DEF CheckFileEvent, CheckEventRequest, AtDialect, beyondBranch, noEvents, LoopsStay,
         queueVars
<1>11. ParseAcknowledged(h) => LoopStarts(h) /\ DropStep
  BY DEF ParseAcknowledged, EnqueueBatch, beyondBranch, LoopStarts, queueVars
<1>12. ParseFails(h) => LoopsStay /\ DropStep
  BY DEF ParseFails, beyondBranch, LoopsStay, queueVars
<1>13. Events(h) => (LoopsStay \/ LoopStarts(h)) /\ DropStep
  <2>1. Events(h) /\ req[h].events = BadPayload => LoopsStay
    BY DEF Events, AtDialect, beyondBranch, LoopsStay
  <2>2. Events(h) /\ req[h].events # BadPayload => LoopStarts(h)
    BY DEF Events, AtDialect, EnqueueBatch, beyondBranch, LoopStarts
  <2>3. Events(h) => DropStep
    BY DEF Events, beyondBranch, queueVars
  <2> QED
    BY <2>1, <2>2, <2>3
<1>14. Enqueue(h) => LoopTurns(h) /\ DropStep
  <2>1. Enqueue(h) => LoopTurns(h)
    BY DEF Enqueue, LoopTurns
  <2>2. Enqueue(h) => DropStep
    BY DEF Enqueue, failVars
  <2> QED
    BY <2>1, <2>2
<1>15. LoopStarts(h) \/ LoopTurns(h) => LoopStep
  BY DEF LoopStep
<1> QED
  BY <1>0, <1>1, <1>2, <1>3, <1>4, <1>5, <1>6, <1>7, <1>8, <1>9, <1>10, <1>11, <1>12, <1>13,
     <1>14, <1>15, Zenon

LEMMA CounterStep == SlotInv /\ CounterInv /\ [Next]_vars => CounterInv'
<1> SUFFICES ASSUME SlotInv, CounterInv, [Next]_vars PROVE CounterInv'
  OBVIOUS
<1>0. Types /\ SlotsBalance
  BY DEF SlotInv
<1>1. SUFFICES LoopStep /\ DropStep
  BY <1>0, CountersFollow
<1>2. ASSUME NEW h \in Handlers, ServeHTTP(h) PROVE LoopStep /\ DropStep
  <2>1. CASE Return(h)
    <3>1. UNCHANGED <<left, EventsReceivedTotal, breakdown>> /\ DropStep
      BY <2>1 DEF Return, eventVars, failVars, queueVars, DropStep, dropVars
    <3>2. \A k \in Handlers : pc'[k] # "enqueue" => pc[k] # "enqueue"
      <4>0. pc[h] = "return"
        BY <2>1 DEF Return
      <4>1. CASE To(h, "idle")
        BY <1>0, <4>0, <4>1 DEF To, Types
      <4>2. CASE /\ waiters # <<>>
                 /\ pc' = [pc EXCEPT ![h] = "idle", ![Head(waiters)] = "body"]
        <5>0. PICK w \in Handlers : w = Head(waiters)
          BY <1>0, <4>2, HeadTailProperties DEF Types
        <5>1. w = waiters[1] /\ 1 \in DOMAIN waiters
          BY <1>0, <4>2, <5>0, HeadTailProperties, LenProperties, EmptySeq DEF Types
        <5>2. w \in Range(waiters)
          BY <5>1 DEF Range
        <5>3. pc[w] = "waiting"
          BY <1>0, <5>2 DEF SlotsBalance, At
        <5> QED
          BY <1>0, <4>0, <4>2, <5>0, <5>3 DEF Types
      <4> QED
        BY <2>1, <4>1, <4>2, Zenon DEF Return
    <3> QED
      BY <3>1, <3>2 DEF LoopStep, LoopsStay
  <2> QED
    BY <1>0, <1>2, <2>1, BranchesCount, Zenon DEF ServeHTTP
<1>3. Drain \/ Stop \/ UNCHANGED vars => LoopStep /\ DropStep
  BY DEF Drain, Stop, vars, beyondQueue, handlerVars, eventVars, failVars, queueVars,
         LoopStep, LoopsStay, DropStep, dropVars
<1> QED
  BY <1>2, <1>3 DEF Next

(* The counters that ServeHTTP keeps agree at every moment: EventsReceivedTotal is
   ahead of the breakdown by exactly what the running loops still hold, and every
   drop is counted once more, under its cause. *)
THEOREM IngressCountersBalance == Spec => []CountersBalance
<1>1. Init => CounterInv
  <2> SUFFICES ASSUME Init PROVE CounterInv
    OBVIOUS
  <2>1. \A h \in Handlers : left[h] = 0
    BY DEF Init
  <2>2. SumFunctionOnSet(left, Handlers) = 0
    BY <2>1, IngressAssumption, SumZero
  <2> QED
    BY <2>1, <2>2 DEF Init, CounterInv, Counts, LoopsOnly, CountersBalance
<1>2. CounterInv => CountersBalance
  BY DEF CounterInv
<1> QED
  BY <1>1, <1>2, CounterStep, SlotInvariant, PTL DEF Spec
=============================================================================
