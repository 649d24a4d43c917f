-------------------------- MODULE LifecycleProps --------------------------
(***************************************************************************)
(* What starting, rotating and ending the process have to guarantee, and   *)
(* one statement of the documents that the Windows service does not keep.  *)
(***************************************************************************)
EXTENDS Lifecycle

(* The HTTP server is shut down before the queue is stopped: if neither
   runs into its deadline, no event that a publisher delivered is refused, none is
   left when run returns, and the writer is closed. *)
OrderlyShutdownLosesNothing ==
  run = "returned" /\ ~httpTimedOut /\ ~drainTimedOut => refused = 0 /\ pending = 0 /\ closed

(* The only ways in which the process can end with accepted events unsettled and
   no report of them: an error of the HTTP server (main.go, os.Exit in the Serve
   goroutine), the service manager of Windows, and a signal after the server has
   started and before signal.Notify. *)
ExitsThatLoseEvents ==
  ~Alive /\ pending > 0 /\ ~drainTimedOut =>
    exit \in {"serve", "service"} \/ (exit = "signal" /\ run = "listening")

(* Goroutines that can run do, and timers fire.  Nothing is assumed of handlers,
   of the workers of the queue, or of the world outside. *)
Fairness ==
  /\ WF_vars(StartUp) /\ WF_vars(Shutdown) /\ WF_vars(MainReturns)
  /\ WF_vars(Rotation) /\ WF_vars(ServiceRunReturns)

FairSpec == Spec /\ Fairness

(* A SIGTERM, or a stop of the service, ends the process, although handlers and
   writer may hang. *)
StopEndsProcess == (sig \/ ctxDone) ~> ~Alive

(* A SIGHUP reaches every .evtx backend, also behind a MultiWriter and also when
   it comes during the rotation that an earlier one asked for. *)
HangupRotates == (due # {}) ~> (due = {} \/ ~Alive)

(* ADR-013: zero events are lost on graceful shutdown; main.go: the cancellation
   of the context by the service manager is a graceful shutdown. *)
ServiceStopDrains == exit = "service" => pending = 0 \/ drainTimedOut
=============================================================================
