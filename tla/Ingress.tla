------------------------------ MODULE Ingress ------------------------------
(***************************************************************************)
(* The CEPA HTTP handler of pkg/server: concurrent calls of ServeHTTP, the *)
(* semaphore that bounds the bodies in memory, the reply each dialect gets *)
(* and the events each request puts on the queue.                          *)
(*                                                                         *)
(* A handler is one goroutine of net/http serving one request at a time.   *)
(* Bodies are lengths and dialects, not bytes.  The queue is what Queue    *)
(* promises its callers: Enqueue accepts, or refuses and counts a drop.    *)
(* net/http buffers a short reply until the handler flushes it or returns. *)
(*                                                                         *)
(* A definition marked FAULT is no part of Next: it is a mistake that the  *)
(* definition after it could have had, kept to show which property notices.*)
(***************************************************************************)
EXTENDS Integers, Sequences, FiniteSets

CONSTANTS
  Handlers,               \* goroutines that run ServeHTTP
  Requests,               \* the requests that publishers send
  MaxConcurrentRequests,  \* LimitsConfig.MaxConcurrentRequests
  ProbeBytes,             \* handshakeProbeBytes
  MaxBodyBytes,           \* LimitsConfig.maxBodyBytes
  Capacity,               \* depth of the event queue
  MaxRequests             \* bound: how many requests arrive in a behaviour

(* What Classify can say of a body; "undecodable" stands for its error, and
   DialectCheckFileRequest is two dialects, told apart by the action. *)
Dialects == {"RegisterRequest", "HeartBeatRequest", "CheckFileHeartbeat", "CheckFileEvent",
             "CheckEventRequest", "Events", "undecodable"}

(* events is what parsing the payload returns, or BadPayload if it fails. *)
BadPayload == -1
RequestType == [method : {"PUT", "POST", "GET"}, dialect : Dialects, size : Nat,
                utf16 : BOOLEAN, events : Nat \cup {BadPayload}]

ASSUME IngressAssumption ==
  /\ IsFiniteSet(Handlers)
  /\ Requests \subseteq RequestType
  /\ MaxConcurrentRequests \in Nat \ {0}
  /\ ProbeBytes \in Nat /\ MaxBodyBytes \in Nat /\ ProbeBytes < MaxBodyBytes
  /\ Capacity \in Nat \ {0} /\ MaxRequests \in Nat

Docs == {"registerReply", "checkFileResponse", "heartbeatReply", "checkEventResponse",
         "emptyOK", "methodNotAllowed"}
None == [doc |-> "none", utf16 |-> FALSE]

VARIABLES
  slots,       \* len(h.slots)
  waiters,     \* handlers parked on the send to h.slots, first come first served
  pc,          \* where ServeHTTP is
  req,         \* the request being served
  slot,        \* the deferred releaseSlot is pending
  reply,       \* what was written to the ResponseWriter, None before or if that failed
  sent,        \* the reply has left the buffer of net/http
  left,        \* events of the batch not yet given to Enqueue
  queued,      \* the queue: events in its channel
  stopped,     \* the queue: Stop has closed it
  EventsReceivedTotal, EventsDroppedTotal, RequestsThrottledTotal, breakdown,
  peerRequests, peerRegistrations, peerHeartbeats,   \* totals over all peers
  onefsUnhandled, ceeUnhandled,
  (* history *)
  served,      \* number of requests that arrived
  unreadable,  \* number of bodies that could not be read
  took, lost,  \* events of the current request that the queue took; drops it was charged
  refused      \* number of events the queue refused

handlerVars == <<pc, req, slot, reply, sent, left, took, lost>>
slotVars    == <<slots, waiters, RequestsThrottledTotal>>
queueVars   == <<queued, stopped, refused>>
peerVars    == <<peerRequests, peerRegistrations, peerHeartbeats>>
eventVars   == <<EventsReceivedTotal, EventsDroppedTotal, breakdown>>
failVars    == <<onefsUnhandled, ceeUnhandled, unreadable>>
vars == <<handlerVars, slotVars, queueVars, peerVars, eventVars, failVars, served>>

Pc == {"idle", "probe", "acquire", "park", "waiting", "body", "dispatch", "parse", "enqueue",
       "return"}

NoRequest == [method |-> "GET", dialect |-> "undecodable", size |-> 0, utf16 |-> FALSE,
              events |-> 0]

Init ==
  /\ slots = 0 /\ waiters = <<>> /\ RequestsThrottledTotal = 0
  /\ pc = [h \in Handlers |-> "idle"] /\ req = [h \in Handlers |-> NoRequest]
  /\ slot = [h \in Handlers |-> FALSE] /\ reply = [h \in Handlers |-> None]
  /\ sent = [h \in Handlers |-> FALSE] /\ left = [h \in Handlers |-> 0]
  /\ took = [h \in Handlers |-> 0] /\ lost = [h \in Handlers |-> 0]
  /\ queued = 0 /\ stopped = FALSE /\ refused = 0
  /\ peerRequests = 0 /\ peerRegistrations = 0 /\ peerHeartbeats = 0
  /\ EventsReceivedTotal = 0 /\ EventsDroppedTotal = 0 /\ breakdown = 0
  /\ onefsUnhandled = 0 /\ ceeUnhandled = 0 /\ unreadable = 0
  /\ served = 0

To(h, l) == pc' = [pc EXCEPT ![h] = l]

----------------------------------------------------------------------------
(* A request arrives: the method, the peer's time stamp, the bounded probe *)

Arrives(h, r) ==
  /\ pc[h] = "idle" /\ served < MaxRequests
  /\ served' = served + 1
  /\ req' = [req EXCEPT ![h] = r]
  /\ took' = [took EXCEPT ![h] = 0] /\ lost' = [lost EXCEPT ![h] = 0]
  /\ UNCHANGED <<slot, sent, left, slotVars, queueVars, eventVars, failVars,
                 peerRegistrations, peerHeartbeats>>

MethodNotAllowed(h, r) ==
  /\ r.method \notin {"PUT", "POST"}
  /\ Arrives(h, r)
  /\ reply' = [reply EXCEPT ![h] = [doc |-> "methodNotAllowed", utf16 |-> FALSE]]
  /\ To(h, "return")
  /\ UNCHANGED peerRequests

Receive(h, r) ==
  /\ r.method \in {"PUT", "POST"}
  /\ Arrives(h, r)
  /\ peerRequests' = peerRequests + 1
  /\ To(h, "probe")
  /\ UNCHANGED reply

Complete(r) == r.size <= ProbeBytes

(* FAULT: OneFS events, which share the element, pass for its heartbeat. *)
LivenessByRootElement(r) ==
  r.dialect \in {"RegisterRequest", "HeartBeatRequest", "CheckFileHeartbeat", "CheckFileEvent"}

(* isLivenessDialect *)
Liveness(r) == r.dialect \in {"RegisterRequest", "HeartBeatRequest", "CheckFileHeartbeat"}

(* FAULT: every request takes a slot. *)
ReadProbeSlotForAll(h) ==
  /\ pc[h] = "probe"
  /\ To(h, "acquire")
  /\ UNCHANGED <<req, slot, reply, sent, left, took, lost, slotVars, queueVars, peerVars, eventVars,
                 failVars, served>>

ReadProbe(h) ==
  /\ pc[h] = "probe"
  /\ To(h, IF Complete(req[h]) /\ Liveness(req[h]) THEN "dispatch" ELSE "acquire")
  /\ UNCHANGED <<req, slot, reply, sent, left, took, lost, slotVars, queueVars, peerVars, eventVars,
                 failVars, served>>

----------------------------------------------------------------------------
(* Replies                                                                 *)

(* respond: the reply is written in the encoding of the bytes it is shown, or
   the write fails. *)
Respond(h, doc, utf16) ==
  \/ reply' = [reply EXCEPT ![h] = [doc |-> doc, utf16 |-> utf16]]
  \/ reply' = [reply EXCEPT ![h] = None]

Responded(h) == reply'[h] # None

(* answerUnreadableBody; shown says whether the bytes it got are UTF-16. *)
AnswerUnreadableBody(h, shown) ==
  /\ EventsDroppedTotal' = EventsDroppedTotal + 1
  /\ unreadable' = unreadable + 1 /\ lost' = [lost EXCEPT ![h] = @ + 1]
  /\ Respond(h, "checkEventResponse", shown)
  /\ To(h, "return")
  /\ UNCHANGED <<req, slot, sent, left, took, slotVars, queueVars, peerVars,
                 EventsReceivedTotal, breakdown, onefsUnhandled, ceeUnhandled, served>>

(* readProbe returns no bytes with its error. *)
ProbeFails(h) ==
  /\ pc[h] = "probe"
  /\ AnswerUnreadableBody(h, FALSE)

----------------------------------------------------------------------------
(* The concurrency slot                                                    *)

beyondSlot == <<req, reply, sent, left, took, lost, queueVars, peerVars, eventVars, failVars, served>>

(* acquireSlot: first a send that does not block ... *)
AcquireSlotFree(h) ==
  /\ pc[h] = "acquire" /\ slots < MaxConcurrentRequests
  /\ slots' = slots + 1 /\ slot' = [slot EXCEPT ![h] = TRUE]
  /\ To(h, "body")
  /\ UNCHANGED <<beyondSlot, waiters, RequestsThrottledTotal>>

AcquireSlotThrottled(h) ==
  /\ pc[h] = "acquire" /\ slots = MaxConcurrentRequests
  /\ RequestsThrottledTotal' = RequestsThrottledTotal + 1
  /\ To(h, "park")
  /\ UNCHANGED <<beyondSlot, slots, waiters, slot>>

(* ... then one that does.  A sender parks behind those already parked. *)
AcquireSlotBlocking(h) ==
  /\ pc[h] = "park"
  /\ IF slots < MaxConcurrentRequests
       THEN /\ slots' = slots + 1 /\ slot' = [slot EXCEPT ![h] = TRUE]
            /\ To(h, "body") /\ UNCHANGED waiters
       ELSE /\ waiters' = Append(waiters, h)
            /\ To(h, "waiting") /\ UNCHANGED <<slots, slot>>
  /\ UNCHANGED <<beyondSlot, RequestsThrottledTotal>>

(* FAULT: the slot is not given back by a request whose body was unreadable. *)
ReturnLeaks(h) ==
  /\ pc[h] = "return"
  /\ IF slot[h] /\ reply[h].doc # "checkEventResponse"
       THEN slots' = slots - 1 /\ slot' = [slot EXCEPT ![h] = FALSE]
       ELSE UNCHANGED <<slots, slot>>
  /\ To(h, "idle")
  /\ reply' = [reply EXCEPT ![h] = None] /\ sent' = [sent EXCEPT ![h] = FALSE]
  /\ UNCHANGED <<req, left, took, lost, waiters, RequestsThrottledTotal, queueVars, peerVars, eventVars,
                 failVars, served>>

(* ServeHTTP returns: net/http sends what is buffered, and the deferred
   releaseSlot receives from h.slots, whose place the first waiter takes. *)
Return(h) ==
  /\ pc[h] = "return"
  /\ reply' = [reply EXCEPT ![h] = None] /\ sent' = [sent EXCEPT ![h] = FALSE]
  /\ \/ /\ ~slot[h]
        /\ To(h, "idle") /\ UNCHANGED <<slots, slot, waiters>>
     \/ /\ slot[h] /\ waiters = <<>>
        /\ slots' = slots - 1 /\ slot' = [slot EXCEPT ![h] = FALSE]
        /\ To(h, "idle") /\ UNCHANGED waiters
     \/ /\ slot[h] /\ waiters # <<>>
        /\ slot' = [slot EXCEPT ![h] = FALSE, ![Head(waiters)] = TRUE]
        /\ pc' = [pc EXCEPT ![h] = "idle", ![Head(waiters)] = "body"]
        /\ waiters' = Tail(waiters) /\ UNCHANGED slots
  /\ UNCHANGED <<req, left, took, lost, RequestsThrottledTotal, queueVars, peerVars, eventVars,
                 failVars, served>>

----------------------------------------------------------------------------
(* The rest of the body                                                    *)

ReadBody(h) ==
  /\ pc[h] = "body" /\ req[h].size <= MaxBodyBytes
  /\ To(h, "dispatch")
  /\ UNCHANGED <<beyondSlot, slot, slotVars>>

(* The body is over the cap, or the read fails or times out.  The bytes of
   the probe are shown to respond. *)
ReadBodyFails(h) ==
  /\ pc[h] = "body" /\ ~Complete(req[h])
  /\ AnswerUnreadableBody(h, req[h].utf16)

----------------------------------------------------------------------------
(* One branch of ServeHTTP for each dialect                                *)

AtDialect(h, d) == pc[h] = "dispatch" /\ req[h].dialect = d

beyondBranch == <<req, slot, took, slotVars, queueVars, unreadable, served>>
noEvents     == <<left, lost, EventsReceivedTotal, EventsDroppedTotal, breakdown, onefsUnhandled,
                  ceeUnhandled>>

Undecodable(h) ==
  /\ AtDialect(h, "undecodable")
  /\ Respond(h, "checkEventResponse", req[h].utf16)
  /\ To(h, "return")
  /\ UNCHANGED <<beyondBranch, noEvents, sent, peerVars>>

RegisterRequest(h) ==
  /\ AtDialect(h, "RegisterRequest")
  /\ peerRegistrations' = peerRegistrations + 1
  /\ Respond(h, "registerReply", req[h].utf16)
  /\ To(h, "return")
  /\ UNCHANGED <<beyondBranch, noEvents, sent, peerRequests, peerHeartbeats>>

CheckFileHeartbeat(h) ==
  /\ AtDialect(h, "CheckFileHeartbeat")
  /\ peerHeartbeats' = peerHeartbeats + 1
  /\ Respond(h, "checkFileResponse", req[h].utf16)
  /\ To(h, "return")
  /\ UNCHANGED <<beyondBranch, noEvents, sent, peerRequests, peerRegistrations>>

HeartBeatRequest(h) ==
  /\ AtDialect(h, "HeartBeatRequest")
  /\ peerHeartbeats' = peerHeartbeats + 1
  /\ Respond(h, "heartbeatReply", req[h].utf16)
  /\ To(h, "return")
  /\ UNCHANGED <<beyondBranch, noEvents, sent, peerRequests, peerRegistrations>>

(* The reply of a OneFS event is written first, and not flushed. *)
CheckFileEvent(h) ==
  /\ AtDialect(h, "CheckFileEvent")
  /\ Respond(h, "checkFileResponse", req[h].utf16)
  /\ To(h, IF Responded(h) THEN "parse" ELSE "return")
  /\ UNCHANGED <<beyondBranch, noEvents, sent, peerVars>>

CheckEventRequest(h) ==
  /\ AtDialect(h, "CheckEventRequest")
  /\ Respond(h, "checkEventResponse", req[h].utf16)
  /\ sent' = [sent EXCEPT ![h] = Responded(h)]
  /\ To(h, IF Responded(h) THEN "parse" ELSE "return")
  /\ UNCHANGED <<beyondBranch, noEvents, peerVars>>

(* What enqueue(events) does before its loop. *)
EnqueueBatch(h) ==
  /\ EventsReceivedTotal' = EventsReceivedTotal + req[h].events
  /\ left' = [left EXCEPT ![h] = req[h].events]
  /\ To(h, IF req[h].events = 0 THEN "return" ELSE "enqueue")

ParseAcknowledged(h) ==
  /\ pc[h] = "parse" /\ req[h].events # BadPayload
  /\ EnqueueBatch(h)
  /\ UNCHANGED <<beyondBranch, reply, sent, peerVars, lost, EventsDroppedTotal,
                 breakdown, onefsUnhandled, ceeUnhandled>>

(* FAULT: an acknowledged payload that does not parse is only logged. *)
ParseFailsUncounted(h) ==
  /\ pc[h] = "parse" /\ req[h].events = BadPayload
  /\ To(h, "return")
  /\ UNCHANGED <<beyondBranch, noEvents, reply, sent, peerVars>>

(* The payload was acknowledged and cannot be parsed. *)
ParseFails(h) ==
  /\ pc[h] = "parse" /\ req[h].events = BadPayload
  /\ EventsDroppedTotal' = EventsDroppedTotal + 1 /\ lost' = [lost EXCEPT ![h] = @ + 1]
  /\ IF req[h].dialect = "CheckFileEvent"
       THEN onefsUnhandled' = onefsUnhandled + 1 /\ UNCHANGED ceeUnhandled
       ELSE ceeUnhandled' = ceeUnhandled + 1 /\ UNCHANGED onefsUnhandled
  /\ To(h, "return")
  /\ UNCHANGED <<beyondBranch, left, reply, sent, peerVars, EventsReceivedTotal,
                 breakdown>>

(* An event payload of no other dialect is parsed before it is answered, with
   an empty 200 that goes out at once if the payload was good. *)
Events(h) ==
  /\ AtDialect(h, "Events")
  /\ reply' = [reply EXCEPT ![h] = [doc |-> "emptyOK", utf16 |-> FALSE]]
  /\ IF req[h].events = BadPayload
       THEN To(h, "return") /\ UNCHANGED <<left, sent, EventsReceivedTotal>>
       ELSE EnqueueBatch(h) /\ sent' = [sent EXCEPT ![h] = TRUE]
  /\ UNCHANGED <<beyondBranch, peerVars, lost, EventsDroppedTotal, breakdown,
                 onefsUnhandled, ceeUnhandled>>

----------------------------------------------------------------------------
(* The loop of enqueue: the breakdown is counted, then the queue takes the
   event or refuses it. *)

(* FAULT: the breakdown counts only what the queue took. *)
EnqueueCountsTaken(h) ==
  /\ pc[h] = "enqueue"
  /\ IF ~stopped /\ queued < Capacity
       THEN /\ queued' = queued + 1 /\ took' = [took EXCEPT ![h] = @ + 1]
            /\ breakdown' = breakdown + 1
            /\ UNCHANGED <<refused, lost, EventsDroppedTotal>>
       ELSE /\ refused' = refused + 1 /\ lost' = [lost EXCEPT ![h] = @ + 1]
            /\ EventsDroppedTotal' = EventsDroppedTotal + 1
            /\ UNCHANGED <<queued, took, breakdown>>
  /\ left' = [left EXCEPT ![h] = @ - 1]
  /\ To(h, IF left[h] = 1 THEN "return" ELSE "enqueue")
  /\ UNCHANGED <<req, slot, reply, sent, slotVars, stopped, peerVars, failVars, served,
                 EventsReceivedTotal>>

Enqueue(h) ==
  /\ pc[h] = "enqueue"
  /\ breakdown' = breakdown + 1
  /\ IF ~stopped /\ queued < Capacity
       THEN /\ queued' = queued + 1 /\ took' = [took EXCEPT ![h] = @ + 1]
            /\ UNCHANGED <<refused, lost, EventsDroppedTotal>>
       ELSE /\ refused' = refused + 1 /\ lost' = [lost EXCEPT ![h] = @ + 1]
            /\ EventsDroppedTotal' = EventsDroppedTotal + 1
            /\ UNCHANGED <<queued, took>>
  /\ left' = [left EXCEPT ![h] = @ - 1]
  /\ To(h, IF left[h] = 1 THEN "return" ELSE "enqueue")
  /\ UNCHANGED <<req, slot, reply, sent, slotVars, stopped, peerVars, failVars, served,
                 EventsReceivedTotal>>

ServeHTTP(h) ==
  \/ \E r \in Requests : MethodNotAllowed(h, r) \/ Receive(h, r)
  \/ ReadProbe(h) \/ ProbeFails(h)
  \/ AcquireSlotFree(h) \/ AcquireSlotThrottled(h) \/ AcquireSlotBlocking(h)
  \/ ReadBody(h) \/ ReadBodyFails(h)
  \/ Undecodable(h) \/ RegisterRequest(h) \/ CheckFileHeartbeat(h) \/ HeartBeatRequest(h)
  \/ CheckFileEvent(h) \/ CheckEventRequest(h) \/ ParseAcknowledged(h) \/ ParseFails(h)
  \/ Events(h) \/ Enqueue(h) \/ Return(h)

----------------------------------------------------------------------------
(* The queue's workers, and Stop, which leaves the handlers running.       *)

beyondQueue == <<handlerVars, slotVars, peerVars, eventVars, failVars, served>>

Drain ==
  /\ queued > 0 /\ queued' = queued - 1
  /\ UNCHANGED <<beyondQueue, stopped, refused>>

Stop ==
  /\ ~stopped /\ stopped' = TRUE
  /\ UNCHANGED <<beyondQueue, queued, refused>>

Next == Drain \/ Stop \/ \E h \in Handlers : ServeHTTP(h)

Spec == Init /\ [][Next]_vars
=============================================================================
