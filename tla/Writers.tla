------------------------------ MODULE Writers ------------------------------
(***************************************************************************)
(* The output backends of pkg/evtx, as the queue's workers use them:       *)
(* concurrent calls of WriteBatch on one writer, which is a backend or a   *)
(* MultiWriter that hands the batch to several backends in turn.           *)
(*                                                                         *)
(*   "tcp"     GELF or syslog over TCP: one write for the whole batch      *)
(*   "udp"     GELF or syslog over UDP: one datagram for each event        *)
(*   "beats"   Lumberjack: one window for the batch, acknowledged          *)
(*   "serial"  EVTX file or Windows Event Log: one record at a time        *)
(*                                                                         *)
(* The transport is external.  A write on an open connection is taken      *)
(* whole, or fails after some of its events were taken; a dial succeeds    *)
(* or fails; whether the far end keeps what it took is beyond the model.   *)
(*                                                                         *)
(* A definition marked FAULT is no part of Next: it is a mistake that the  *)
(* definition after it could have had, kept to show which property notices.*)
(***************************************************************************)
EXTENDS Integers, Sequences, FiniteSets, Functions

CONSTANTS
  Workers,         \* goroutines that call WriteBatch
  Configurations,  \* sequences of backends that [output] may configure
  MaxBatch,        \* the largest batch a worker brings
  MaxEvents,       \* bound: events written in a behaviour
  NoOne            \* nobody holds the mutex

Protocols == {"tcp", "udp", "beats", "serial"}

ASSUME WritersAssumption ==
  /\ IsFiniteSet(Workers) /\ NoOne \notin Workers
  /\ Configurations \subseteq Seq(Protocols) \ {<<>>}
  /\ MaxBatch \in Nat \ {0} /\ MaxEvents \in Nat

VARIABLES
  targets,   \* MultiWriter.writers, or the one writer
  mu,        \* who holds w.mu of a backend
  conn,      \* w.conn or w.client of a backend: the number of the connection
  open,      \* connections of a backend that this program has not closed
  dialled,   \* number of connections a backend has made
  closed,    \* the queue has called Close
  pc, batch, \* WriteBatch of a worker: control point, argument
  at,        \* the backend it has reached
  frames,    \* writes still to be made there, each a sequence of events
  failed,    \* some error has been joined to the result
  (* history *)
  calls,     \* events brought so far
  taken,     \* what each backend's transport took, in order
  tried,     \* events a backend was asked to write, or found impossible to encode
  resent     \* events of a write that was made a second time

callVars  == <<pc, batch, at, frames, failed>>
connVars  == <<conn, open, dialled>>
history   == <<calls, taken, tried, resent>>
vars == <<targets, mu, connVars, closed, callVars, history>>

Pc == {"idle", "build", "lock", "send", "reconnect", "resend", "unlock", "record", "return"}

Backends == DOMAIN targets

To(w, l) == pc' = [pc EXCEPT ![w] = l]

(* The events of w's batch that are not in the set bad, in order: payloads after
   each turn of the loop that encodes them. *)
Encoded(w, bad) ==
  LET payloads[i \in 0..Len(batch[w])] ==
        IF i = 0 THEN <<>>
        ELSE IF batch[w][i] \in bad THEN payloads[i - 1]
        ELSE Append(payloads[i - 1], batch[w][i])
  IN payloads[Len(batch[w])]

Tried(w, evs) == tried' = [tried EXCEPT ![at[w]] = @ \cup evs]
Take(w, evs)  == taken' = [taken EXCEPT ![at[w]] = @ \o evs]

(* Every constructor dials before the queue starts; a file has no connection. *)
Init ==
  /\ targets \in Configurations
  /\ mu = [t \in Backends |-> NoOne]
  /\ conn = [t \in Backends |-> 1] /\ dialled = [t \in Backends |-> 1]
  /\ open = [t \in Backends |-> {1}]
  /\ closed = FALSE
  /\ pc = [w \in Workers |-> "idle"] /\ batch = [w \in Workers |-> <<>>]
  /\ at = [w \in Workers |-> 1] /\ frames = [w \in Workers |-> <<>>]
  /\ failed = [w \in Workers |-> FALSE]
  /\ calls = 0 /\ taken = [t \in Backends |-> <<>>]
  /\ tried = [t \in Backends |-> {}] /\ resent = [t \in Backends |-> {}]

----------------------------------------------------------------------------
(* A worker brings a batch of events nobody has brought before.            *)
Call(w) ==
  /\ pc[w] = "idle" /\ ~closed
  /\ \E n \in 1..MaxBatch :
       /\ calls + n <= MaxEvents
       /\ calls' = calls + n
       /\ batch' = [batch EXCEPT ![w] = [i \in 1..n |-> calls + i]]
  /\ at' = [at EXCEPT ![w] = 1] /\ failed' = [failed EXCEPT ![w] = FALSE]
  /\ To(w, "build")
  /\ UNCHANGED <<targets, mu, connVars, closed, frames, taken, tried, resent>>

Protocol(w) == targets[at[w]]

(* The next backend of MultiWriter.WriteBatch, or the end of its loop. *)
NextTarget(w) ==
  IF at[w] = Len(targets)
    THEN To(w, "return") /\ UNCHANGED at
    ELSE To(w, "build") /\ at' = [at EXCEPT ![w] = @ + 1]

----------------------------------------------------------------------------
(* GELF and syslog encode before they lock; an event that cannot be encoded
   is an error and the others go on. *)

(* FAULT: one event that cannot be encoded is left out without an error. *)
BuildSkipsSilently(w) ==
  /\ pc[w] = "build" /\ Protocol(w) \in {"tcp", "udp"}
  /\ \E bad \in SUBSET Range(batch[w]) :
       LET good == Encoded(w, bad) IN
       /\ good # <<>>
       /\ Tried(w, bad)
       /\ frames' = [frames EXCEPT ![w] =
                       IF Protocol(w) = "tcp" THEN <<good>> ELSE [i \in 1..Len(good) |-> <<good[i]>>]]
  /\ To(w, "lock")
  /\ UNCHANGED <<targets, mu, connVars, closed, batch, at, failed, calls, taken, resent>>

Build(w) ==
  /\ pc[w] = "build" /\ Protocol(w) \in {"tcp", "udp"}
  /\ \E bad \in SUBSET Range(batch[w]) :
       LET good == Encoded(w, bad) IN
       /\ good # <<>>
       /\ Tried(w, bad)
       /\ failed' = [failed EXCEPT ![w] = @ \/ bad # {}]
       /\ frames' = [frames EXCEPT ![w] =
                       IF Protocol(w) = "tcp" THEN <<good>> ELSE [i \in 1..Len(good) |-> <<good[i]>>]]
  /\ To(w, "lock")
  /\ UNCHANGED <<targets, mu, connVars, closed, batch, at, calls, taken, resent>>

(* No event can be encoded: the early return before the lock. *)
BuildNothing(w) ==
  /\ pc[w] = "build" /\ Protocol(w) \in {"tcp", "udp"}
  /\ Tried(w, Range(batch[w]))
  /\ failed' = [failed EXCEPT ![w] = TRUE]
  /\ NextTarget(w)
  /\ UNCHANGED <<targets, mu, connVars, closed, batch, frames, calls, taken, resent>>

BuildWindow(w) ==
  /\ pc[w] = "build" /\ Protocol(w) = "beats"
  /\ frames' = [frames EXCEPT ![w] = <<batch[w]>>]
  /\ To(w, "lock")
  /\ UNCHANGED <<targets, mu, connVars, closed, batch, at, failed, history>>

----------------------------------------------------------------------------
(* w.mu, then every frame through sendWithRetry                            *)

(* FAULT: the mutex is not taken. *)
LockNever(w) ==
  /\ pc[w] = "lock"
  /\ To(w, "send")
  /\ UNCHANGED <<targets, mu, connVars, closed, batch, at, frames, failed, history>>

Lock(w) ==
  /\ pc[w] = "lock" /\ mu[at[w]] = NoOne
  /\ mu' = [mu EXCEPT ![at[w]] = w]
  /\ To(w, "send")
  /\ UNCHANGED <<targets, connVars, closed, batch, at, frames, failed, history>>

Usable(w) == conn[at[w]] \in open[at[w]]

(* How many events of a failed write its transport may have taken: on TCP a
   write fails before its last byte; a Lumberjack window can arrive whole and
   its acknowledgement be lost; a datagram goes or does not. *)
TakenByFailure(w, frame) ==
  IF ~Usable(w) \/ Protocol(w) = "udp" THEN {0}
  ELSE IF Protocol(w) = "tcp" THEN 0..Len(frame) - 1
  ELSE 0..Len(frame)

(* FAULT: a failed datagram ends the batch. *)
NextFrameUnlessFailed(w) ==
  /\ frames' = [frames EXCEPT ![w] = Tail(@)]
  /\ To(w, IF Len(frames[w]) = 1 \/ failed'[w] THEN "unlock" ELSE "send")

(* After a frame: the next one, or the deferred unlock. *)
NextFrame(w) ==
  /\ frames' = [frames EXCEPT ![w] = Tail(@)]
  /\ To(w, IF Len(frames[w]) = 1 THEN "unlock" ELSE "send")

(* A send that succeeds, the first or the second time. *)
SendTaken(w) ==
  /\ pc[w] \in {"send", "resend"} /\ Usable(w)
  /\ Take(w, Head(frames[w])) /\ Tried(w, Range(Head(frames[w])))
  /\ failed' = failed
  /\ NextFrame(w)
  /\ UNCHANGED <<targets, mu, connVars, closed, batch, at, calls, resent>>

SendFails(w) ==
  /\ pc[w] = "send"
  /\ \E n \in TakenByFailure(w, Head(frames[w])) : Take(w, SubSeq(Head(frames[w]), 1, n))
  /\ Tried(w, Range(Head(frames[w])))
  /\ To(w, "reconnect")
  /\ UNCHANGED <<targets, mu, connVars, closed, batch, at, frames, failed, calls, resent>>

(* FAULT: connect forgets the connection it replaces. *)
ReconnectLeaks(w) ==
  LET t == at[w] IN
  /\ pc[w] = "reconnect"
  /\ dialled' = [dialled EXCEPT ![t] = @ + 1]
  /\ conn' = [conn EXCEPT ![t] = dialled[t] + 1]
  /\ open' = [open EXCEPT ![t] = @ \cup {dialled[t] + 1}]
  /\ resent' = [resent EXCEPT ![t] = @ \cup Range(Head(frames[w]))]
  /\ To(w, "resend")
  /\ UNCHANGED <<targets, mu, closed, batch, at, frames, failed, calls, taken, tried>>

(* A dial that succeeds replaces and closes the old connection. *)
Reconnect(w) ==
  LET t == at[w] IN
  /\ pc[w] = "reconnect"
  /\ dialled' = [dialled EXCEPT ![t] = @ + 1]
  /\ conn' = [conn EXCEPT ![t] = dialled[t] + 1]
  /\ open' = [open EXCEPT ![t] = (@ \ {conn[t]}) \cup {dialled[t] + 1}]
  /\ resent' = [resent EXCEPT ![t] = @ \cup Range(Head(frames[w]))]
  /\ To(w, "resend")
  /\ UNCHANGED <<targets, mu, closed, batch, at, frames, failed, calls, taken, tried>>

(* GELF and syslog dial first and keep the old connection when that fails;
   Beats has closed its client before it dials, and keeps it closed. *)
ReconnectFails(w) ==
  /\ pc[w] = "reconnect"
  /\ open' = [open EXCEPT ![at[w]] = IF Protocol(w) = "beats" THEN @ \ {conn[at[w]]} ELSE @]
  /\ failed' = [failed EXCEPT ![w] = TRUE]
  /\ NextFrame(w)
  /\ UNCHANGED <<targets, mu, conn, dialled, closed, batch, at, history>>

(* FAULT: a failed second send dials and sends once more. *)
ResendFailsAgain(w) ==
  /\ pc[w] = "resend"
  /\ \E n \in TakenByFailure(w, Head(frames[w])) : Take(w, SubSeq(Head(frames[w]), 1, n))
  /\ To(w, "reconnect")
  /\ UNCHANGED <<targets, mu, connVars, closed, batch, at, frames, failed, calls, tried, resent>>

ResendFails(w) ==
  /\ pc[w] = "resend"
  /\ \E n \in TakenByFailure(w, Head(frames[w])) : Take(w, SubSeq(Head(frames[w]), 1, n))
  /\ failed' = [failed EXCEPT ![w] = TRUE]
  /\ NextFrame(w)
  /\ UNCHANGED <<targets, mu, connVars, closed, batch, at, calls, tried, resent>>

Unlock(w) ==
  /\ pc[w] = "unlock"
  /\ mu' = [mu EXCEPT ![at[w]] = NoOne]
  /\ NextTarget(w)
  /\ UNCHANGED <<targets, connVars, closed, batch, frames, failed, history>>

----------------------------------------------------------------------------
(* writeBatchSerially: every record is attempted, whatever became of those
   before it; the API serialises the records, not the batches. *)
BuildSerial(w) ==
  /\ pc[w] = "build" /\ Protocol(w) = "serial"
  /\ frames' = [frames EXCEPT ![w] = [i \in 1..Len(batch[w]) |-> <<batch[w][i]>>]]
  /\ To(w, "record")
  /\ UNCHANGED <<targets, mu, connVars, closed, batch, at, failed, history>>

Record(w) ==
  /\ pc[w] = "record" /\ frames[w] # <<>>
  /\ Tried(w, Range(Head(frames[w])))
  /\ \/ Take(w, Head(frames[w])) /\ UNCHANGED failed
     \/ failed' = [failed EXCEPT ![w] = TRUE] /\ UNCHANGED taken
  /\ frames' = [frames EXCEPT ![w] = Tail(@)]
  /\ UNCHANGED <<targets, mu, connVars, closed, pc, batch, at, calls, resent>>

RecordsEnd(w) ==
  /\ pc[w] = "record" /\ frames[w] = <<>>
  /\ NextTarget(w)
  /\ UNCHANGED <<targets, mu, connVars, closed, batch, frames, failed, history>>

----------------------------------------------------------------------------
(* The joined errors are returned to the worker. *)
Return(w) ==
  /\ pc[w] = "return"
  /\ batch' = [batch EXCEPT ![w] = <<>>] /\ frames' = [frames EXCEPT ![w] = <<>>]
  /\ failed' = [failed EXCEPT ![w] = FALSE] /\ at' = [at EXCEPT ![w] = 1]
  /\ To(w, "idle")
  /\ UNCHANGED <<targets, mu, connVars, closed, history>>

WriteBatch(w) ==
  \/ Build(w) \/ BuildNothing(w) \/ BuildWindow(w) \/ BuildSerial(w)
  \/ Lock(w) \/ SendTaken(w) \/ SendFails(w) \/ Reconnect(w) \/ ReconnectFails(w)
  \/ ResendFails(w) \/ Unlock(w) \/ Record(w) \/ RecordsEnd(w) \/ Return(w)

(* The queue closes the writer once, when no worker can be inside it or come
   back (QueueProofs, CloseComesLast); every backend is closed. *)
Close ==
  /\ ~closed /\ \A w \in Workers : pc[w] = "idle"
  /\ closed' = TRUE
  /\ open' = [t \in Backends |-> open[t] \ {conn[t]}]
  /\ UNCHANGED <<targets, mu, conn, dialled, callVars, history>>

Next == Close \/ \E w \in Workers : Call(w) \/ WriteBatch(w)

Spec == Init /\ [][Next]_vars
=============================================================================
