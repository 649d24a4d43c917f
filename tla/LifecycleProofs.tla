-------------------------- MODULE LifecycleProofs --------------------------
(***************************************************************************)
(* Which ends of the process lose events, proved for any number of         *)
(* handlers, events and SIGHUPs, any output section and both platforms.    *)
(***************************************************************************)
EXTENDS LifecycleProps, TLAPS

Early == {"config", "build", "built", "installed", "started"}

(* What run, the server and the queue hold at each control point. *)
Types ==
  /\ run \in RunPc /\ pending \in Nat /\ refused \in Nat
  /\ open \in BOOLEAN /\ closed \in BOOLEAN /\ serving \in BOOLEAN
  /\ httpTimedOut \in BOOLEAN /\ drainTimedOut \in BOOLEAN

(* Requests are accepted between the start of the server and its shutdown. *)
ServesAfterNotBefore ==
  /\ serving => run \in {"listening", "ready"}
  /\ run \in Early => active = {} /\ pending = 0

(* The queue is open for as long as handlers may come, if none is late. *)
OpenWhileServing ==
  run \in {"started", "listening", "ready", "shutdown", "stop"} => open

(* The queue closes behind the last handler. *)
NobodyIsLate ==
  ~httpTimedOut => /\ run \in {"stop", "draining", "returned"} => active = {}
                   /\ refused = 0

(* run returns with nothing pending, and for good. *)
ReturnsDrained ==
  /\ run \in {"draining", "returned"} => ~open
  /\ run = "returned" /\ ~drainTimedOut => pending = 0 /\ closed

(* Where each end of the process is taken. *)
EndsWhere ==
  /\ exit \in {"no", "config", "build", "setup", "serve", "signal", "return", "service"}
  /\ exit \in {"config", "build", "setup"} => run \in Early
  /\ exit = "signal" => run \in Early \cup {"listening"}
  /\ exit = "return" => run = "returned"

Inv ==
  /\ Types /\ ServesAfterNotBefore /\ OpenWhileServing /\ NobodyIsLate /\ ReturnsDrained
  /\ EndsWhere

----------------------------------------------------------------------------
(* A control point is at one place in the order of run. *)
LEMMA PositionsAreUnique ==
  /\ \A i \in 1..11 : Position(Order[i]) = i
  /\ \A l \in RunPc : \E i \in 1..11 : Order[i] = l
<1>1. DOMAIN Order = 1..11
  BY DEF Order
<1>2. \A i, j \in 1..11 : Order[i] = Order[j] => i = j
  BY DEF Order
<1>3. ASSUME NEW i \in 1..11
      PROVE  Position(Order[i]) = i
  <2>1. \E j \in DOMAIN Order : Order[j] = Order[i]
    BY <1>1, <1>3
  <2>2. /\ Position(Order[i]) \in DOMAIN Order
        /\ Order[Position(Order[i])] = Order[i]
    BY <2>1, Zenon DEF Position
  <2> QED
    BY <1>1, <1>2, <2>2, <1>3, Zenon
<1>4. \A l \in RunPc : \E i \in 1..11 : Order[i] = l
  BY DEF RunPc, Order
<1> QED
  BY <1>3, <1>4

(* Before signal.Notify run has not come further than the start of the server. *)
LEMMA NotReached ==
  ASSUME run \in RunPc
  PROVE  /\ ~Reached("ready") => run \in Early \cup {"listening"}
         /\ ~Reached("installed") => run \in Early
<1>1. PICK i \in 1..11 : Order[i] = run
  BY PositionsAreUnique
<1>2. Position(run) = i
  BY <1>1, PositionsAreUnique
<1>3. Order[7] = "ready" /\ Order[4] = "installed"
  BY DEF Order
<1>4. Position("ready") = 7 /\ Position("installed") = 4
  BY <1>3, PositionsAreUnique
<1>5. i < 7 => run \in Early \cup {"listening"}
  BY <1>1 DEF Order, Early
<1>6. i < 4 => run \in Early
  BY <1>1 DEF Order, Early
<1> QED
  BY <1>2, <1>4, <1>5, <1>6 DEF Reached

----------------------------------------------------------------------------
LEMMA InitInv == Init => Inv
<1> SUFFICES ASSUME Init PROVE Inv
  OBVIOUS
<1>1. /\ ~serving /\ serving \in BOOLEAN /\ ~open /\ open \in BOOLEAN /\ closed \in BOOLEAN
      /\ httpTimedOut \in BOOLEAN /\ drainTimedOut \in BOOLEAN
  BY Zenon DEF Init
<1>2. run = "config" /\ exit = "no" /\ active = {} /\ pending = 0 /\ refused = 0
  BY Zenon DEF Init
<1> QED
  BY <1>1, <1>2 DEF Inv, Types, ServesAfterNotBefore, OpenWhileServing, NobodyIsLate, ReturnsDrained,
                    EndsWhere, RunPc, Early

(* Start-up opens the queue first and the listener after it. *)
LEMMA StartUpKeepsInv == Inv /\ StartUp => Inv'
<1> USE DEF Inv, Types, ServesAfterNotBefore, OpenWhileServing, NobodyIsLate, ReturnsDrained,
            EndsWhere, RunPc, Early, Alive, Exit, beyondRun, httpVars, queueVars, timeouts
<1>1. Inv /\ Configure => Inv'
  BY DEF Configure
<1>2. Inv /\ BuildWriter => Inv'
  BY DEF BuildWriter
<1>3. Inv /\ InstallSIGHUP => Inv'
  BY DEF InstallSIGHUP
<1>4. Inv /\ StartQueue => Inv'
  <2> SUFFICES ASSUME Inv, StartQueue PROVE Inv'
    OBVIOUS
  <2>1. open' /\ open' \in BOOLEAN
    BY Zenon DEF StartQueue
  <2>2. /\ run = "installed" /\ run' = "started" /\ exit = "no"
        /\ UNCHANGED <<exit, serving, active, pending, refused, closed, timeouts>>
    BY Zenon DEF StartQueue
  <2> QED
    BY <2>1, <2>2
<1>5. Inv /\ Listen => Inv'
  <2> SUFFICES ASSUME Inv, Listen PROVE Inv'
    OBVIOUS
  <2>1. /\ run = "started" /\ exit = "no"
        /\ UNCHANGED <<active, open, pending, refused, closed, timeouts>>
    BY Zenon DEF Listen
  <2>2. \/ run' = "listening" /\ serving' /\ serving' \in BOOLEAN /\ exit' = exit
        \/ exit' = "setup" /\ run' = run /\ serving' = serving
    BY Zenon DEF Listen
  <2> QED
    BY <2>1, <2>2
<1>6. Inv /\ Notify => Inv'
  BY DEF Notify
<1> QED
  BY <1>1, <1>2, <1>3, <1>4, <1>5, <1>6, Zenon DEF StartUp

(* Shutdown closes the listener, waits for the handlers, and then stops the queue. *)
LEMMA ShutdownKeepsInv == Inv /\ (Shutdown \/ MainReturns) => Inv'
<1> USE DEF Inv, Types, ServesAfterNotBefore, OpenWhileServing, NobodyIsLate, ReturnsDrained,
            EndsWhere, RunPc, Early, Alive, Exit, beyondRun, httpVars, queueVars, timeouts
<1>1. Inv /\ ShutdownBegins => Inv'
  <2> SUFFICES ASSUME Inv, ShutdownBegins PROVE Inv'
    OBVIOUS
  <2>1. ~serving' /\ serving' \in BOOLEAN
    BY Zenon DEF ShutdownBegins
  <2>2. /\ run = "ready" /\ run' = "shutdown" /\ exit = "no"
        /\ UNCHANGED <<exit, active, open, pending, refused, closed, timeouts>>
    BY Zenon DEF ShutdownBegins
  <2> QED
    BY <2>1, <2>2
<1>2. Inv /\ HTTPDrained => Inv'
  BY DEF HTTPDrained
<1>3. Inv /\ HTTPTimeout => Inv'
  BY DEF HTTPTimeout
<1>4. Inv /\ StopQueue => Inv'
  <2> SUFFICES ASSUME Inv, StopQueue PROVE Inv'
    OBVIOUS
  <2>1. ~open' /\ open' \in BOOLEAN
    BY Zenon DEF StopQueue
  <2>2. /\ run = "stop" /\ run' = "draining" /\ exit = "no"
        /\ UNCHANGED <<exit, serving, active, pending, refused, closed, timeouts>>
    BY Zenon DEF StopQueue
  <2> QED
    BY <2>1, <2>2
<1>5. Inv /\ Drained => Inv'
  BY DEF Drained
<1>6. Inv /\ DrainTimeout => Inv'
  BY DEF DrainTimeout
<1>7. Inv /\ MainReturns => Inv'
  BY DEF MainReturns
<1> QED
  BY <1>1, <1>2, <1>3, <1>4, <1>5, <1>6, <1>7, Zenon DEF Shutdown

(* Handlers and workers; an event meets a closed queue only if its handler is late. *)
LEMMA TrafficKeepsInv == Inv /\ Traffic => Inv'
<1> USE DEF Inv, Types, ServesAfterNotBefore, OpenWhileServing, NobodyIsLate, ReturnsDrained,
            EndsWhere, RunPc, Early, Alive, Exit, beyondRun, httpVars, queueVars, timeouts
<1>1. Inv /\ Settle => Inv'
  BY DEF Settle
<1>2. Inv /\ ServeFails => Inv'
  BY DEF ServeFails
<1>3. ASSUME NEW h \in Handlers
      PROVE  Inv /\ Accept(h) => Inv'
  BY DEF Accept
<1>4. ASSUME NEW h \in Handlers
      PROVE  Inv /\ Enqueue(h) => Inv'
  BY DEF Enqueue
<1> QED
  BY <1>1, <1>2, <1>3, <1>4, Zenon DEF Traffic

(* Signals and the service manager end the process or leave a note for it. *)
LEMMA SignalsKeepInv ==
  Inv /\ (Terminate \/ Hangup \/ Rotation \/ ServiceStop \/ ServiceRunReturns) => Inv'
<1> USE DEF Inv, Types, ServesAfterNotBefore, OpenWhileServing, NobodyIsLate, ReturnsDrained,
            EndsWhere, RunPc, Early, Alive, Exit, beyondRun, httpVars, queueVars, timeouts
<1>1. Inv /\ Terminate => Inv'
  BY NotReached DEF Terminate
<1>2. Inv /\ Hangup => Inv'
  BY NotReached DEF Hangup
<1>3. Inv /\ Rotation => Inv'
  BY DEF Rotation, TakeHangup, RotateNext
<1>4. Inv /\ ServiceStop => Inv'
  BY DEF ServiceStop
<1>5. Inv /\ ServiceRunReturns => Inv'
  BY DEF ServiceRunReturns
<1> QED
  BY <1>1, <1>2, <1>3, <1>4, <1>5, Zenon

LEMMA StutterKeepsInv == Inv /\ UNCHANGED vars => Inv'
BY DEF vars, httpVars, queueVars, timeouts, Inv, Types, ServesAfterNotBefore, OpenWhileServing,
       NobodyIsLate, ReturnsDrained, EndsWhere

LEMMA InvHolds == Spec => []Inv
<1>1. Inv /\ [Next]_vars => Inv'
  BY StartUpKeepsInv, ShutdownKeepsInv, TrafficKeepsInv, SignalsKeepInv, StutterKeepsInv, Zenon
     DEF Next
<1> QED
  BY InitInv, <1>1, PTL DEF Spec

----------------------------------------------------------------------------
(* main.go shuts the HTTP server down before it stops the queue: unless one of the
   two deadlines passed, run returns with every event taken and settled and the
   writer closed, whatever arrived and whenever. *)
THEOREM OrderlyShutdown == Spec => []OrderlyShutdownLosesNothing
<1>1. Inv => OrderlyShutdownLosesNothing
  BY DEF Inv, NobodyIsLate, ReturnsDrained, OrderlyShutdownLosesNothing
<1> QED
  BY InvHolds, <1>1, PTL

(* The process ends with unsettled events that nobody reported only by the os.Exit
   of the Serve goroutine, by the service manager, or by a signal in the window
   between the start of the server and signal.Notify. *)
THEOREM LosingExits == Spec => []ExitsThatLoseEvents
<1>1. Inv => ExitsThatLoseEvents
  BY DEF Inv, Types, ServesAfterNotBefore, ReturnsDrained, EndsWhere, ExitsThatLoseEvents, Alive,
         Early
<1> QED
  BY InvHolds, <1>1, PTL
=============================================================================
