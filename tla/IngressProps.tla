---------------------------- MODULE IngressProps ----------------------------
(***************************************************************************)
(* What the CEPA handler has to guarantee, and the fairness under which.   *)
(***************************************************************************)
EXTENDS Ingress, Functions

(* Handlers at one of these points. *)
At(points) == {h \in Handlers : pc[h] \in points}

(* The semaphore: its length is the number of handlers that still have to
   release it, none of them idle, and a handler is parked only while it is
   full, so that no release is lost on the way to the next waiter. *)
SlotsBalance ==
  /\ slots = Cardinality({h \in Handlers : slot[h]})
  /\ \A h \in Handlers : slot[h] => pc[h] \in {"body", "dispatch", "parse", "enqueue", "return"}
  /\ IsInjective(waiters) /\ Range(waiters) = At({"waiting"})
  /\ waiters # <<>> => slots = MaxConcurrentRequests

(* Parsing and queueing event payloads, where the memory of a request goes, is
   done by at most MaxConcurrentRequests handlers; so is holding a long body. *)
BodiesBounded ==
  Cardinality(At({"parse", "enqueue"})
                \cup {h \in At({"dispatch"}) : ~Complete(req[h])}) <= MaxConcurrentRequests

(* Once OneFS or Dell CEE has its acknowledgement it forgets the events.  Each
   is then on the queue or in the drop counter; a payload that could not be
   read or parsed is at least one drop.  A publisher whose reply could not be
   written sends the batch again: nothing of it is on the queue already. *)
AcknowledgedIsAccounted ==
  \A h \in At({"return"}) :
    /\ reply[h] # None /\ req[h].dialect \in {"CheckFileEvent", "CheckEventRequest"}
                       /\ req[h].method # "GET"
         => took[h] + lost[h] = req[h].events \/ (took[h] = 0 /\ lost[h] = 1)
    /\ reply[h] = None => took[h] = 0

(* The counters of one ingress agree with each other: the breakdown lags the
   total by the loops still running, and every drop has one of four causes. *)
CountersBalance ==
  /\ EventsReceivedTotal = breakdown + SumFunctionOnSet(left, Handlers)
  /\ EventsDroppedTotal = unreadable + onefsUnhandled + ceeUnhandled + refused

----------------------------------------------------------------------------
(* Fairness: a handler that can go on does.  The read of the rest of a body is
   left out: a publisher may stall it. *)
HandlersRun ==
  \A h \in Handlers : WF_vars(ServeHTTP(h) /\ pc[h] \notin {"idle", "body"})

FairSpec == Spec /\ HandlersRun

(* ReadTimeout ends every read, so a body is read or fails. *)
BodiesEnd == \A h \in Handlers : WF_vars(ReadBody(h) \/ ReadBodyFails(h))

(* Liveness traffic is answered even while every slot is held by a stalled body. *)
LivenessIsAnswered ==
  \A h \in Handlers :
    (pc[h] = "probe" /\ Complete(req[h]) /\ Liveness(req[h])) ~> pc[h] = "idle"

(* If bodies end, no request waits for a slot for ever: none is leaked, and
   the waiters are served in turn. *)
EveryRequestEnds == BodiesEnd => \A h \in Handlers : pc[h] = "acquire" ~> pc[h] = "idle"

----------------------------------------------------------------------------
(* Stated by the source and not kept by it.                                *)

(* server.go, enqueue: its callers have replied, and the acknowledgement does
   not wait on queue work. *)
AckPrecedesQueueWork == \A h \in At({"enqueue"}) : sent[h]
=============================================================================
