-------------------------------- MODULE Vfkit --------------------------------
(***************************************************************************)
(* The life of one vfkit process: the main goroutine (root.go, main.go),   *)
(* the goroutine that waits for the VM to stop, the goroutine that handles *)
(* SIGINT and SIGTERM, and the RESTful service, around one VzMachine.      *)
(*                                                                         *)
(* Simplifications:                                                        *)
(*  - the process is configured correctly or fails as a whole in one of    *)
(*    the set-up steps; what the steps leave on the host is not modelled;  *)
(*  - SIGPIPE, which waitForVMState ignores, is left out;                  *)
(*  - a 5 second timer fires at any time, except that a receiver with a    *)
(*    notification at hand takes it first, and main calls Start before:    *)
(*    no goroutine is held up for 5s by nothing;                           *)
(*  - the user sends at most MaxSignals signals and MaxRequests requests.  *)
(***************************************************************************)
EXTENDS VzMachine

CONSTANTS
  MaxSignals,    \* bound: signals sent to the process
  MaxRequests,   \* bound: POST /vm/state requests
  Requests,      \* the state changes clients ask for
  RestEnabled,   \* --restful-uri is not none://
  UseGUI         \* --gui with a virtio-gpu device

ASSUME BoundsAssumption == MaxSignals \in Nat /\ MaxRequests \in Nat
ASSUME RequestsAssumption == Requests \subseteq {"Pause", "Resume", "Stop", "HardStop"}
ASSUME OptionsAssumption == RestEnabled \in BOOLEAN /\ UseGUI \in BOOLEAN

VARIABLES
  main,         \* where the main goroutine is
  mainErr,      \* RunE returned an error
  waiter,       \* the goroutine that waits for Stopped, main.go:275
  errCh,        \* what it has sent to main
  sig,          \* where the signal goroutine is
  sigPending,   \* signals in sigChan
  sigSent,      \* signals sent so far
  rest,         \* the RESTful service runs
  requested,    \* requests served so far
  seen,         \* newState, the last notification each receiver took
  cleaned,      \* how many times ExecuteExitHandlers ran to its end
  status        \* how the process ended, or "none"

mainVars == <<main, mainErr>>
waiterVars == <<waiter, errCh>>
sigVars == <<sig, sigPending, sigSent>>
restVars == <<rest, requested>>
vars == <<vzVars, mainVars, waiterVars, sigVars, restVars, seen, cleaned, status>>

Receiver == {"main", "waiter", "shutdown"}

Alive == status = "none"

SigChanCap == 2

TypeOK ==
  /\ VzTypeOK
  /\ main \in {"configure", "create", "serveRest", "trapSignals", "start", "starting", "waitRunning",
               "expose", "gui", "waitStopped", "cleanup", "exit"}
  /\ mainErr \in BOOLEAN
  /\ waiter \in {"none", "waiting", "done"}
  /\ errCh \in {"empty", "nil", "err"}
  /\ sig \in {"off", "idle", "requestStop", "waitStopped", "forceStop", "stopping"}
  /\ sigPending \in 0 .. SigChanCap
  /\ sigSent \in 0 .. MaxSignals
  /\ rest \in BOOLEAN
  /\ requested \in 0 .. MaxRequests
  /\ seen \in [Receiver -> VMState \cup {"none"}]
  /\ cleaned \in 0 .. 1
  /\ status \in {"none", "ok", "err", "fatal", "killed"}

Init ==
  /\ VzInit
  /\ main = "configure" /\ mainErr = FALSE
  /\ waiter = "none" /\ errCh = "empty"
  /\ sig = "off" /\ sigPending = 0 /\ sigSent = 0
  /\ rest = FALSE /\ requested = 0
  /\ seen = [r \in Receiver |-> "none"]
  /\ cleaned = 0
  /\ status = "none"

------------------------------------------------------------------------------
\* waitForVMState: take the oldest notification, or let the timer fire.

\* Slip: an error of the hypervisor ends the wait like the awaited state.
Verdict_ErrorIsEnd(target, newState) ==
  IF newState \in {target, "Error"} THEN "reached" ELSE "again"

\* What the loop makes of a notification when it waits for target.
Verdict(target, newState) ==
  IF newState = target THEN "reached"
  ELSE IF newState = "Error" THEN "failed"
  ELSE "again"

Receive(r) ==
  /\ notify # <<>>
  /\ seen' = [seen EXCEPT ![r] = Head(notify)]
  /\ notify' = Tail(notify)
  /\ UNCHANGED <<vm, startResult>>

TimerFires ==
  /\ notify = <<>>
  /\ main # "start"
  /\ UNCHANGED <<vzVars, seen>>

------------------------------------------------------------------------------
\* The main goroutine.

At(place) == Alive /\ main = place

Goto(from, to) == At(from) /\ main' = to

\* RunE returns: its deferred ExecuteExitHandlers is next.
Return(err) ==
  /\ main' = "cleanup"
  /\ mainErr' = err

\* Only the main goroutine moves, and nothing it shares changes.
MainOnly == UNCHANGED <<waiterVars, sigVars, restVars, cleaned, status>>

\* newVMConfiguration
Configure ==
  /\ At("configure")
  /\ \/ Goto("configure", "create") /\ UNCHANGED mainErr
     \/ Return(TRUE)
  /\ MainOnly /\ UNCHANGED <<vzVars, seen>>

\* vf.NewVirtualMachine
Create ==
  /\ At("create")
  /\ \/ Goto("create", "serveRest") /\ UNCHANGED mainErr
     \/ Return(TRUE)
  /\ MainOnly /\ UNCHANGED <<vzVars, seen>>

\* rest.NewServer and Start, unless the URI is the default one
ServeRest ==
  /\ At("serveRest")
  /\ \/ /\ Goto("serveRest", "trapSignals")
        /\ rest' = RestEnabled
        /\ UNCHANGED mainErr
     \/ RestEnabled /\ Return(TRUE) /\ UNCHANGED rest
  /\ UNCHANGED <<vzVars, seen, waiterVars, sigVars, requested, cleaned, status>>

\* util.SetupExitSignalHandling
TrapSignals ==
  /\ Goto("trapSignals", "start")
  /\ sig' = "idle"
  /\ UNCHANGED <<vzVars, seen, mainErr, waiterVars, sigPending, sigSent, restVars, cleaned, status>>

\* vm.Start() is called, ...
Start ==
  /\ Goto("start", "starting")
  /\ StartCalled
  /\ MainOnly /\ UNCHANGED <<mainErr, seen>>

\* ... and returns.
Started ==
  /\ At("starting")
  /\ \/ startResult = "ok" /\ Goto("starting", "waitRunning") /\ UNCHANGED mainErr
     \/ startResult = "err" /\ Return(TRUE)
  /\ MainOnly /\ UNCHANGED <<vzVars, seen>>

\* waitForVMState(vm, Running, 5s)
WaitRunning ==
  /\ At("waitRunning")
  /\ \/ /\ Receive("main")
        /\ CASE Verdict("Running", Head(notify)) = "reached" -> main' = "expose" /\ UNCHANGED mainErr
             [] Verdict("Running", Head(notify)) = "failed" -> Return(TRUE)
             [] OTHER -> UNCHANGED mainVars
     \/ TimerFires /\ Return(TRUE)
  /\ MainOnly

\* vsock ports, network block devices and time synchronisation are set up (only
\* the block devices can fail the process), the waiter starts, the GUI opens.
Expose ==
  /\ At("expose")
  /\ \/ /\ Goto("expose", IF UseGUI THEN "gui" ELSE "waitStopped")
        /\ waiter' = "waiting"
        /\ UNCHANGED <<mainErr, errCh>>
     \/ Return(TRUE) /\ UNCHANGED waiterVars
  /\ UNCHANGED <<vzVars, seen, sigVars, restVars, cleaned, status>>

\* StartGraphicApplication returns: the window is closed, or it fails.
GuiReturns ==
  /\ At("gui")
  /\ \/ Goto("gui", "waitStopped") /\ UNCHANGED mainErr
     \/ Return(TRUE)
  /\ MainOnly /\ UNCHANGED <<vzVars, seen>>

\* Slip: what the waiter sent is not looked at.
WaitStopped_DropsError ==
  /\ At("waitStopped")
  /\ errCh # "empty"
  /\ errCh' = "empty"
  /\ Return(FALSE)
  /\ UNCHANGED <<vzVars, seen, waiter, sigVars, restVars, cleaned, status>>

\* return <-errCh
WaitStopped ==
  /\ At("waitStopped")
  /\ errCh # "empty"
  /\ errCh' = "empty"
  /\ Return(errCh = "err")
  /\ UNCHANGED <<vzVars, seen, waiter, sigVars, restVars, cleaned, status>>

\* defer util.ExecuteExitHandlers()
Cleanup ==
  /\ Goto("cleanup", "exit")
  /\ cleaned' = cleaned + 1
  /\ UNCHANGED <<vzVars, seen, mainErr, waiterVars, sigVars, restVars, status>>

\* Execute: os.Exit(1) after an error, else main returns
Exit ==
  /\ At("exit")
  /\ status' = IF mainErr THEN "err" ELSE "ok"
  /\ UNCHANGED <<vzVars, seen, mainVars, waiterVars, sigVars, restVars, cleaned>>

MainStep ==
  \/ Configure \/ Create \/ ServeRest \/ TrapSignals \/ Start \/ Started \/ WaitRunning
  \/ Expose \/ GuiReturns \/ WaitStopped \/ Cleanup \/ Exit

------------------------------------------------------------------------------
\* The goroutine that waits for the VM to stop, without a timeout.

\* Slips: an error is sent as nil, or ends the goroutine with nothing sent, or
\* is logged only.
WaiterReceives_SendsNil ==
  /\ Alive /\ waiter = "waiting"
  /\ Receive("waiter")
  /\ IF Head(notify) \in Terminal THEN waiter' = "done" /\ errCh' = "nil" ELSE UNCHANGED waiterVars
  /\ UNCHANGED <<mainVars, sigVars, restVars, cleaned, status>>

WaiterReceives_SendsNothing ==
  /\ Alive /\ waiter = "waiting"
  /\ Receive("waiter")
  /\ CASE Head(notify) = "Stopped" -> waiter' = "done" /\ errCh' = "nil"
       [] Head(notify) = "Error" -> waiter' = "done" /\ UNCHANGED errCh
       [] OTHER -> UNCHANGED waiterVars
  /\ UNCHANGED <<mainVars, sigVars, restVars, cleaned, status>>

WaiterReceives_LogsError ==
  /\ Alive /\ waiter = "waiting"
  /\ Receive("waiter")
  /\ IF Head(notify) = "Stopped" THEN waiter' = "done" /\ errCh' = "nil" ELSE UNCHANGED waiterVars
  /\ UNCHANGED <<mainVars, sigVars, restVars, cleaned, status>>

WaiterReceives ==
  /\ Alive /\ waiter = "waiting"
  /\ Receive("waiter")
  /\ CASE Verdict("Stopped", Head(notify)) = "reached" -> waiter' = "done" /\ errCh' = "nil"
       [] Verdict("Stopped", Head(notify)) = "failed" -> waiter' = "done" /\ errCh' = "err"
       [] OTHER -> UNCHANGED waiterVars
  /\ UNCHANGED <<mainVars, sigVars, restVars, cleaned, status>>

------------------------------------------------------------------------------
\* SIGINT and SIGTERM.

SignalOnly == UNCHANGED <<mainVars, waiterVars, sigSent, restVars, cleaned, status>>

\* Slip: the channel is not bounded.
SignalArrives_Unbounded ==
  /\ Alive /\ sigSent < MaxSignals
  /\ sigSent' = sigSent + 1
  /\ sig # "off"
  /\ sigPending' = sigPending + 1
  /\ UNCHANGED <<vzVars, seen, mainVars, waiterVars, sig, restVars, cleaned, status>>

\* A signal arrives: before signal.Notify it kills the process, after it it is
\* queued in sigChan, or dropped when sigChan is full.
SignalArrives ==
  /\ Alive /\ sigSent < MaxSignals
  /\ sigSent' = sigSent + 1
  /\ \/ sig = "off" /\ status' = "killed" /\ UNCHANGED sigPending
     \/ /\ sig # "off"
        /\ sigPending' = IF sigPending < SigChanCap THEN sigPending + 1 ELSE sigPending
        /\ UNCHANGED status
  /\ UNCHANGED <<vzVars, seen, mainVars, waiterVars, sig, restVars, cleaned>>

\* for sig := range sigChan
TakeSignal ==
  /\ Alive /\ sig = "idle" /\ sigPending > 0
  /\ sig' = "requestStop"
  /\ sigPending' = sigPending - 1
  /\ SignalOnly /\ UNCHANGED <<vzVars, seen>>

\* vfVM.RequestStop(): an error or a refusal is only logged
RequestStop ==
  /\ Alive /\ sig = "requestStop"
  /\ sig' = "waitStopped"
  /\ SignalOnly /\ UNCHANGED <<vzVars, seen, sigPending>>

\* Slip: the wait for the guest has no timeout.
ShutdownWaits_Forever ==
  /\ Alive /\ sig = "waitStopped"
  /\ Receive("shutdown")
  /\ sig' = CASE Verdict("Stopped", Head(notify)) = "reached" -> "idle"
              [] Verdict("Stopped", Head(notify)) = "failed" -> "forceStop"
              [] OTHER -> sig
  /\ SignalOnly /\ UNCHANGED sigPending

\* waitForVMState(vfVM, Stopped, 5s)
ShutdownWaits ==
  /\ Alive /\ sig = "waitStopped"
  /\ \/ /\ Receive("shutdown")
        /\ sig' = CASE Verdict("Stopped", Head(notify)) = "reached" -> "idle"
                    [] Verdict("Stopped", Head(notify)) = "failed" -> "forceStop"
                    [] OTHER -> sig
     \/ TimerFires /\ sig' = "forceStop"
  /\ SignalOnly /\ UNCHANGED sigPending

\* vfVM.Stop(): an error is only logged
ForceStop ==
  /\ Alive /\ sig = "forceStop"
  /\ \/ Stop /\ sig' = "stopping"
     \/ ~CanStop /\ sig' = "idle" /\ UNCHANGED vzVars
  /\ SignalOnly /\ UNCHANGED <<seen, sigPending>>

ForceStopReturns ==
  /\ Alive /\ sig = "stopping"
  /\ vm # "Stopping"
  /\ sig' = "idle"
  /\ SignalOnly /\ UNCHANGED <<vzVars, seen, sigPending>>

SignalStep == TakeSignal \/ RequestStop \/ ShutdownWaits \/ ForceStop \/ ForceStopReturns

------------------------------------------------------------------------------
\* The RESTful service.

\* ChangeState: what an accepted request does to the machine
ChangeState(newState) ==
  \/ newState = "Pause" /\ Pause
  \/ newState = "Resume" /\ Resume
  \/ newState = "HardStop" /\ Stop

\* ChangeState of a request that only presses the power button, or is refused
NoChange(newState) ==
  /\ \/ newState = "Pause" /\ ~CanPause
     \/ newState = "Resume" /\ ~CanResume
     \/ newState = "HardStop" /\ ~CanStop
     \/ newState = "Stop"
  /\ UNCHANGED vzVars

\* POST /vm/state
SetVMState ==
  /\ Alive /\ rest
  /\ requested < MaxRequests
  /\ requested' = requested + 1
  /\ \E newState \in Requests : ChangeState(newState) \/ NoChange(newState)
  /\ UNCHANGED <<mainVars, waiterVars, sigVars, rest, seen, cleaned, status>>

\* The service cannot listen, or stops: logrus.Fatal
RestFails ==
  /\ Alive /\ rest
  /\ status' = "fatal"
  /\ UNCHANGED <<vzVars, mainVars, waiterVars, sigVars, restVars, seen, cleaned>>

------------------------------------------------------------------------------
\* The virtual machine runs inside the process.
VmStep ==
  /\ Alive /\ MachineStep
  /\ UNCHANGED <<mainVars, waiterVars, sigVars, restVars, seen, cleaned, status>>

\* A process that has ended does nothing more.
Ended == ~Alive /\ UNCHANGED vars

Next ==
  \/ MainStep
  \/ WaiterReceives
  \/ SignalArrives \/ SignalStep
  \/ SetVMState \/ RestFails
  \/ VmStep
  \/ Ended

\* Goroutines are scheduled, timers fire, an operation of the machine that was
\* accepted completes, and the window does not outlive the machine. Nothing
\* makes the guest power off, the window close before, or the service fail.
MachineAnswers == VmStep /\ vm \in {"Starting", "Pausing", "Resuming", "Stopping"}

GoExits == GuiReturns /\ vm \in Terminal

MainRuns ==
  \/ Configure \/ Create \/ ServeRest \/ TrapSignals \/ Start \/ Started \/ WaitRunning
  \/ Expose \/ WaitStopped \/ Cleanup \/ Exit

Fairness ==
  /\ WF_vars(MainRuns)
  /\ WF_vars(GoExits)
  /\ WF_vars(WaiterReceives)
  /\ WF_vars(SignalStep)
  /\ WF_vars(MachineAnswers)

SafeSpec == Init /\ [][Next]_vars

Spec == SafeSpec /\ Fairness

------------------------------------------------------------------------------
\* Correctness.

\* Exit status 0 means that the machine was stopped: no order of
\* notifications, signals and requests makes main return nil while the machine
\* runs, is paused, or has failed.
OkMeansStopped ==
  (status = "ok" \/ (main \in {"cleanup", "exit"} /\ ~mainErr)) => vm = "Stopped"

\* When main returned what the waiter sent it, the process reports an error
\* exactly when the hypervisor failed; a clean stop is never an error.
OutcomeReported ==
  (main \in {"cleanup", "exit"} /\ waiter = "done" /\ errCh = "empty")
    => (mainErr <=> vm = "Error")

\* The final state of the machine is announced once, on a channel that three
\* loops read. As long as shutdownFunc has not taken it, it is still there for
\* the goroutine that ends the process.
FinalStateReachesWaiter ==
  (waiter = "waiting" /\ vm \in Terminal /\ seen["shutdown"] \notin Terminal)
    => (notify # <<>> /\ notify[Len(notify)] = vm)

\* The exit handlers ran and the process ended, unless the service killed it.
Finished == (status \in {"ok", "err"} /\ cleaned = 1) \/ status \in {"fatal", "killed"}

\* When the machine has stopped or failed the process runs its exit handlers
\* and ends.
StopEndsProcess == (startResult # "none" /\ vm \in Terminal) ~> Finished

\* It does so unless shutdownFunc takes the notification, whatever clients and
\* signals do, before the machine is served, behind a window, and after.
NeverTaken == [](seen["shutdown"] \notin Terminal)

StopEndsProcessUnlessTaken == NeverTaken => StopEndsProcess

\* A signal that finds the machine running ends it, whether the guest obeys or
\* not, unless a client pauses the machine meanwhile.
NeverPaused == [](vm \notin {"Pausing", "Paused", "Resuming"})

SignalStopsRunningVM ==
  NeverPaused => ((sig = "requestStop" /\ vm = "Running") ~> (vm \in Terminal \/ ~Alive))

\* A signal that was caught ends the machine or the process, whatever the
\* machine is doing when it comes.
SignalEndsMachine ==
  (sigPending > 0) ~> ((startResult # "none" /\ vm \in Terminal) \/ ~Alive)

\* The session a process offers, as seen from outside.
SessionMachine ==
  CASE startResult = "none" -> "off"
    [] startResult # "none" /\ vm = "Stopped" -> "stopped"
    [] startResult # "none" /\ vm = "Error" -> "failed"
    [] OTHER -> "live"

SessionOutcome == IF status \in {"fatal", "killed"} THEN "aborted" ELSE status

\* main returned although the waiter did not tell it to: the window failed.
WindowLost ==
  main \in {"cleanup", "exit"} /\ waiter # "none" /\ ~(waiter = "done" /\ errCh = "empty")

Session == INSTANCE VmSession WITH
  HasWindow <- UseGUI,
  machine <- SessionMachine,
  served <- waiter # "none",
  lost <- WindowLost,
  outcome <- SessionOutcome

\* Every step of the process is a step of a session, and, unless shutdownFunc
\* takes the notification, it does not outlive its machine.
SessionSteps == Session!SafeSpec
SessionPromises == NeverTaken => Session!Ends
==============================================================================
