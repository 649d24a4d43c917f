----------------------------- MODULE Lifecycle -----------------------------
(***************************************************************************)
(* The life of the process: run of cmd/cee-exporter from its configuration *)
(* to its last line, the signals, the HTTP server, SIGHUP rotation and, on *)
(* Windows, the service manager.                                           *)
(*                                                                         *)
(* The queue is what Queue promises: until Stop it accepts events, and it  *)
(* settles them (written or counted as failed) in its own time; Stop waits *)
(* for them up to a deadline.  The HTTP server, os/signal, the rotation of *)
(* go-evtx and the service library are external.                           *)
(*                                                                         *)
(* A definition marked FAULT is no part of Next: it is a mistake that the  *)
(* definition after it could have had, kept to show which property notices.*)
(***************************************************************************)
EXTENDS Integers, Sequences, FiniteSets

CONSTANTS
  Platforms,   \* subset of {"unix", "windows"}
  Settings,    \* [output] sections: type, targets, and whether the evtx fields are valid
  Handlers,    \* goroutines of the HTTP server
  MaxEvents,   \* bound: requests in a behaviour, each with one event
  MaxHups      \* bound: SIGHUPs in a behaviour

(* A backend is an .evtx file, a socket, or of a type nobody knows. *)
Kinds == {"evtx", "socket", "unknown"}

ASSUME LifecycleAssumption ==
  /\ Platforms \subseteq {"unix", "windows"} /\ IsFiniteSet(Handlers)
  /\ Settings \subseteq [type : Kinds \cup {"multi"}, targets : Seq(Kinds), valid : BOOLEAN]
  /\ MaxEvents \in Nat /\ MaxHups \in Nat

VARIABLES
  platform, output,      \* the build, cfg.Output
  run,                   \* control point of run
  built,                 \* backends that buildWriter has opened
  exit,                  \* why the process ended, or "no"
  serving,               \* the listener accepts connections
  active,                \* handlers inside ServeHTTP
  open,                  \* the queue accepts events
  pending,               \* events it accepted and has not settled
  closed,                \* the writer is closed
  sig,                   \* a SIGTERM or SIGINT is in its channel
  hup,                   \* a SIGHUP is in its channel
  rotating,              \* backends the SIGHUP goroutine has still to visit
  ctxDone,               \* the service manager has called Stop
  (* history *)
  accepted, refused,     \* events the queue took, or refused because it was stopped
  httpTimedOut, drainTimedOut,
  due,                   \* .evtx backends not asked to rotate since the last SIGHUP
  events, hups

httpVars  == <<serving, active>>
queueVars == <<open, pending, accepted, refused>>
hupVars   == <<hup, rotating, due, hups>>
timeouts  == <<httpTimedOut, drainTimedOut>>
vars == <<platform, output, run, built, exit, httpVars, queueVars, closed, sig, hupVars,
          ctxDone, timeouts, events>>

RunPc == {"config", "build", "built", "installed", "started", "listening", "ready", "shutdown",
          "stop", "draining", "returned"}

(* run has come to this point, or is past it. *)
Order == <<"config", "build", "built", "installed", "started", "listening", "ready", "shutdown",
           "stop", "draining", "returned">>
Position(l) == CHOOSE i \in DOMAIN Order : Order[i] = l
Reached(l)  == Position(run) >= Position(l)

Alive == exit = "no"

(* The leaves of the configured writer. *)
Backends == IF output.type = "multi" THEN output.targets ELSE <<output.type>>

Init ==
  /\ platform \in Platforms /\ output \in Settings
  /\ run = "config" /\ built = 0 /\ exit = "no"
  /\ serving = FALSE /\ active = {}
  /\ open = FALSE /\ pending = 0 /\ accepted = 0 /\ refused = 0 /\ closed = FALSE
  /\ sig = FALSE /\ hup = FALSE /\ rotating = <<>> /\ ctxDone = FALSE
  /\ httpTimedOut = FALSE /\ drainTimedOut = FALSE
  /\ due = {} /\ events = 0 /\ hups = 0

beyondRun == <<platform, output, httpVars, queueVars, closed, sig, hupVars, ctxDone, timeouts,
               events>>

Exit(why) == exit' = why

----------------------------------------------------------------------------
(* Start-up                                                                *)

(* validateOutputConfig looks at the evtx fields of type "evtx" only. *)
Configure ==
  /\ Alive /\ run = "config"
  /\ IF output.type = "evtx" /\ ~output.valid
       THEN Exit("config") /\ UNCHANGED run
       ELSE run' = "build" /\ UNCHANGED exit
  /\ UNCHANGED <<built, beyondRun>>

(* buildWriter opens the backends in order; the first that fails ends the process. *)
BuildWriter ==
  /\ Alive /\ run = "build"
  /\ \/ /\ built < Len(Backends) /\ Backends[built + 1] # "unknown"
        /\ built' = built + 1
        /\ UNCHANGED <<run, exit>>
     \/ /\ built < Len(Backends)
        /\ Exit("build")
        /\ UNCHANGED <<run, built>>
     \/ /\ built = Len(Backends)
        /\ run' = "built"
        /\ UNCHANGED <<built, exit>>
  /\ UNCHANGED beyondRun

InstallSIGHUP ==
  /\ Alive /\ run = "built"
  /\ run' = "installed"
  /\ UNCHANGED <<built, exit, beyondRun>>

StartQueue ==
  /\ Alive /\ run = "installed"
  /\ run' = "started" /\ open' = TRUE
  /\ UNCHANGED <<platform, output, built, exit, httpVars, pending, accepted, refused, closed, sig,
                 hupVars, ctxDone, timeouts, events>>

(* TLS and the listener, each of which may end the process; then the server. *)
Listen ==
  /\ Alive /\ run = "started"
  /\ \/ run' = "listening" /\ serving' = TRUE /\ UNCHANGED exit
     \/ Exit("setup") /\ UNCHANGED <<run, serving>>
  /\ UNCHANGED <<platform, output, built, active, queueVars, closed, sig, hupVars, ctxDone,
                 timeouts, events>>

Notify ==
  /\ Alive /\ run = "listening"
  /\ run' = "ready"
  /\ UNCHANGED <<built, exit, beyondRun>>

StartUp == Configure \/ BuildWriter \/ InstallSIGHUP \/ StartQueue \/ Listen \/ Notify

----------------------------------------------------------------------------
(* Shutdown: first the HTTP server, with a deadline, then the queue, with its own. *)

(* FAULT: the queue is stopped before the HTTP server is. *)
ShutdownBeginsWithQueue ==
  /\ Alive /\ run = "ready" /\ (sig \/ ctxDone)
  /\ run' = "shutdown" /\ open' = FALSE
  /\ UNCHANGED <<platform, output, built, exit, httpVars, pending, accepted, refused, closed, sig,
                 hupVars, ctxDone, timeouts, events>>

ShutdownBegins ==
  /\ Alive /\ run = "ready" /\ (sig \/ ctxDone)
  /\ run' = "shutdown" /\ serving' = FALSE
  /\ UNCHANGED <<platform, output, built, exit, active, queueVars, closed, sig, hupVars, ctxDone,
                 timeouts, events>>

HTTPDrained ==
  /\ Alive /\ run = "shutdown" /\ active = {}
  /\ run' = "stop"
  /\ UNCHANGED <<built, exit, beyondRun>>

(* FAULT: Shutdown gets a context without a deadline. *)
HTTPNoTimeout ==
  /\ Alive /\ run = "shutdown" /\ active = {}
  /\ run' = "stop" /\ httpTimedOut' = TRUE
  /\ UNCHANGED <<platform, output, built, exit, httpVars, queueVars, closed, sig, hupVars, ctxDone,
                 drainTimedOut, events>>

(* The deadline of 30 s: the handlers still inside go on. *)
HTTPTimeout ==
  /\ Alive /\ run = "shutdown" /\ active # {}
  /\ run' = "stop" /\ httpTimedOut' = TRUE
  /\ UNCHANGED <<platform, output, built, exit, httpVars, queueVars, closed, sig, hupVars, ctxDone,
                 drainTimedOut, events>>

StopQueue ==
  /\ Alive /\ run = "stop"
  /\ run' = "draining" /\ open' = FALSE
  /\ UNCHANGED <<platform, output, built, exit, httpVars, pending, accepted, refused, closed, sig,
                 hupVars, ctxDone, timeouts, events>>

(* Every accepted event is settled: Stop closes the writer and run returns. *)
Drained ==
  /\ Alive /\ run = "draining" /\ pending = 0
  /\ run' = "returned" /\ closed' = TRUE
  /\ UNCHANGED <<platform, output, built, exit, httpVars, queueVars, sig, hupVars, ctxDone,
                 timeouts, events>>

(* The drain deadline and the grace pass: Stop reports what is left and leaves
   the writer open. *)
DrainTimeout ==
  /\ Alive /\ run = "draining" /\ pending > 0
  /\ run' = "returned" /\ drainTimedOut' = TRUE
  /\ UNCHANGED <<platform, output, built, exit, httpVars, queueVars, closed, sig, hupVars, ctxDone,
                 httpTimedOut, events>>

Shutdown ==
  ShutdownBegins \/ HTTPDrained \/ HTTPTimeout \/ StopQueue \/ Drained \/ DrainTimeout

(* runWithServiceManager without a service manager: main returns with run. *)
MainReturns ==
  /\ Alive /\ run = "returned" /\ platform = "unix"
  /\ Exit("return")
  /\ UNCHANGED <<run, built, beyondRun>>

----------------------------------------------------------------------------
(* The HTTP server and the queue's workers                                 *)

Accept(h) ==
  /\ Alive /\ serving /\ h \notin active /\ events < MaxEvents
  /\ events' = events + 1
  /\ active' = active \cup {h}
  /\ UNCHANGED <<platform, output, run, built, exit, serving, queueVars, closed, sig, hupVars,
                 ctxDone, timeouts>>

(* ServeHTTP has replied; its event is taken, or refused by a stopped queue. *)
Enqueue(h) ==
  /\ Alive /\ h \in active
  /\ active' = active \ {h}
  /\ IF open THEN pending' = pending + 1 /\ accepted' = accepted + 1 /\ UNCHANGED refused
             ELSE refused' = refused + 1 /\ UNCHANGED <<pending, accepted>>
  /\ UNCHANGED <<platform, output, run, built, exit, serving, open, closed, sig, hupVars, ctxDone,
                 timeouts, events>>

Settle ==
  /\ Alive /\ pending > 0
  /\ pending' = pending - 1
  /\ UNCHANGED <<platform, output, run, built, exit, httpVars, open, accepted, refused, closed, sig,
                 hupVars, ctxDone, timeouts, events>>

(* Serve returns an error other than ErrServerClosed: os.Exit in its goroutine. *)
ServeFails ==
  /\ Alive /\ serving
  /\ Exit("serve")
  /\ UNCHANGED <<run, built, beyondRun>>

Traffic == Settle \/ ServeFails \/ \E h \in Handlers : Accept(h) \/ Enqueue(h)

----------------------------------------------------------------------------
(* Signals.  Before signal.Notify the default action ends the process.     *)

(* FAULT: only the first signal is caught, the second ends the process. *)
TerminateTwice ==
  /\ Alive /\ platform = "unix"
  /\ IF Reached("ready") /\ ~sig THEN sig' = TRUE /\ UNCHANGED exit
                                 ELSE Exit("signal") /\ UNCHANGED sig
  /\ UNCHANGED <<platform, output, run, built, httpVars, queueVars, closed, hupVars, ctxDone,
                 timeouts, events>>

Terminate ==
  /\ Alive /\ platform = "unix" /\ ~sig
  /\ IF Reached("ready") THEN sig' = TRUE /\ UNCHANGED exit
                         ELSE Exit("signal") /\ UNCHANGED sig
  /\ UNCHANGED <<platform, output, run, built, httpVars, queueVars, closed, hupVars, ctxDone,
                 timeouts, events>>

EvtxBackends == {b \in DOMAIN Backends : Backends[b] = "evtx"}

(* FAULT: a channel without a buffer, into which nothing fits during a rotation. *)
HangupUnbuffered ==
  /\ Alive /\ platform = "unix" /\ hups < MaxHups
  /\ hups' = hups + 1
  /\ IF Reached("installed")
       THEN hup' = (rotating = <<>>) /\ due' = EvtxBackends /\ UNCHANGED exit
       ELSE Exit("signal") /\ UNCHANGED <<hup, due>>
  /\ UNCHANGED <<platform, output, run, built, httpVars, queueVars, closed, sig, rotating, ctxDone,
                 timeouts, events>>

(* The channel holds one signal; another that comes meanwhile is dropped. *)
Hangup ==
  /\ Alive /\ platform = "unix" /\ hups < MaxHups
  /\ hups' = hups + 1
  /\ IF Reached("installed")
       THEN hup' = TRUE /\ due' = EvtxBackends /\ UNCHANGED exit
       ELSE Exit("signal") /\ UNCHANGED <<hup, due>>
  /\ UNCHANGED <<platform, output, run, built, httpVars, queueVars, closed, sig, rotating, ctxDone,
                 timeouts, events>>

(* The goroutine of installSIGHUP takes a signal and asks the writer to rotate. *)
TakeHangup ==
  /\ Alive /\ hup /\ rotating = <<>>
  /\ hup' = FALSE
  /\ rotating' = [b \in DOMAIN Backends |-> b]
  /\ UNCHANGED <<platform, output, run, built, exit, httpVars, queueVars, closed, sig, due, hups,
                 ctxDone, timeouts, events>>

(* MultiWriter.Rotate: a backend that can rotate does, whatever it returns; the
   others are skipped. *)
RotateNext ==
  /\ Alive /\ rotating # <<>>
  /\ rotating' = Tail(rotating)
  /\ due' = IF Backends[Head(rotating)] = "evtx" THEN due \ {Head(rotating)} ELSE due
  /\ UNCHANGED <<platform, output, run, built, exit, httpVars, queueVars, closed, sig, hup, hups,
                 ctxDone, timeouts, events>>

Rotation == TakeHangup \/ RotateNext

----------------------------------------------------------------------------
(* The Windows service manager                                             *)

(* svcProgram.Stop cancels the context of run and returns. *)
ServiceStop ==
  /\ Alive /\ platform = "windows" /\ ~ctxDone
  /\ ctxDone' = TRUE
  /\ UNCHANGED <<platform, output, run, built, exit, httpVars, queueVars, closed, sig, hupVars,
                 timeouts, events>>

(* service.Run returns after Stop, and main with it. *)
ServiceRunReturns ==
  /\ Alive /\ platform = "windows" /\ ctxDone
  /\ Exit("service")
  /\ UNCHANGED <<run, built, beyondRun>>

Next ==
  \/ StartUp \/ Shutdown \/ MainReturns
  \/ Traffic
  \/ Terminate \/ Hangup \/ Rotation
  \/ ServiceStop \/ ServiceRunReturns

Spec == Init /\ [][Next]_vars
=============================================================================
