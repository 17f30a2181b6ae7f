----------------------------- MODULE Vfkit_proofs -----------------------------
(***************************************************************************)
(* Theorems about Vfkit, for every number of signals and requests, every   *)
(* set of requests and both values of the options.                         *)
(***************************************************************************)
EXTENDS Vfkit, TLAPS

------------------------------------------------------------------------------
\* The inductive invariant.

\* Before the one call to Start the machine has announced nothing.
BeforeStart ==
  /\ main \in {"configure", "create", "serveRest", "trapSignals", "start"} => startResult = "none"
  /\ startResult = "none" => vm = "Stopped" /\ notify = <<>> /\ seen["main"] = "none"

\* A final state is announced once, as the last notification, and is the state
\* of the machine from then on.
FinalIsLast ==
  \A i \in 1 .. Len(notify) :
    notify[i] \in Terminal => i = Len(notify) /\ notify[i] = vm /\ startResult # "none"

\* Whoever took a final state took the last notification.
FinalTaken ==
  \A r \in Receiver :
    seen[r] \in Terminal => notify = <<>> /\ seen[r] = vm /\ startResult # "none"

\* A final state is never lost: it is in the channel, or a receiver took it.
FinalAccounted ==
  (startResult # "none" /\ vm \in Terminal)
    => \/ notify # <<>> /\ notify[Len(notify)] = vm
       \/ \E r \in Receiver : seen[r] \in Terminal

\* How far the receivers are tells what they took.
MainProgress ==
  (main \in {"expose", "gui", "waitStopped"} \/ waiter # "none") => seen["main"] = "Running"

WaiterProgress ==
  /\ main \in {"gui", "waitStopped"} => waiter # "none"
  /\ main \notin {"gui", "waitStopped", "cleanup", "exit"} => waiter = "none"
  /\ waiter = "done" <=> seen["waiter"] \in Terminal
  /\ errCh = "nil" => seen["waiter"] = "Stopped"
  /\ errCh = "err" => seen["waiter"] = "Error"
  /\ (waiter = "done" /\ errCh = "empty") => main \in {"cleanup", "exit"}

\* main returns nil after it received nil.
MainReturned ==
  /\ main = "gui" => UseGUI
  /\ (main \in {"cleanup", "exit"} /\ ~mainErr) => waiter = "done" /\ errCh = "empty"
  /\ status \in {"ok", "err"} => main = "exit" /\ (status = "ok" <=> ~mainErr)

\* ExecuteExitHandlers runs in one place.
CleanedOnce == cleaned = IF main = "exit" THEN 1 ELSE 0

IInv ==
  /\ TypeOK
  /\ BeforeStart
  /\ FinalIsLast
  /\ FinalTaken
  /\ FinalAccounted
  /\ MainProgress
  /\ WaiterProgress
  /\ MainReturned
  /\ OutcomeReported
  /\ CleanedOnce

------------------------------------------------------------------------------
\* The channel of notifications.

\* A machine that announces a new state, having announced no final one, leaves
\* the channel and the receivers consistent.
LEMMA EnterKeepsChannel ==
  ASSUME VzTypeOK, FinalIsLast, FinalTaken, BeforeStart,
         vm \notin Terminal \/ startResult = "none",
         NEW s \in VMState, Enter(s),
         startResult' # "none", seen' = seen
  PROVE  FinalIsLast' /\ FinalTaken' /\ FinalAccounted'
<1>1. notify' = Append(notify, s) /\ vm' = s /\ notify \in Seq(VMState)
  BY DEF Enter, VzTypeOK
<1>2. \A i \in 1 .. Len(notify) : notify[i] \notin Terminal
  BY DEF FinalIsLast, BeforeStart
<1>3. \A r \in Receiver : seen[r] \notin Terminal
  BY DEF FinalTaken, BeforeStart
<1>4. FinalIsLast'
  BY <1>1, <1>2 DEF FinalIsLast
<1>5. FinalTaken'
  BY <1>3 DEF FinalTaken
<1>6. FinalAccounted'
  BY <1>1 DEF FinalAccounted
<1> QED
  BY <1>4, <1>5, <1>6

\* A receiver that takes the oldest notification leaves them consistent too.
LEMMA ReceiveKeepsChannel ==
  ASSUME TypeOK, FinalIsLast, FinalTaken, FinalAccounted,
         NEW r \in Receiver, Receive(r)
  PROVE  /\ Head(notify) \in VMState
         /\ FinalIsLast' /\ FinalTaken' /\ FinalAccounted'
         /\ Head(notify) \in Terminal => Head(notify) = vm
<1>1. notify \in Seq(VMState) /\ notify # <<>> /\ notify' = Tail(notify)
  BY DEF Receive, TypeOK, VzTypeOK
<1>2. /\ Len(notify) \in Nat \ {0}
      /\ Len(notify') = Len(notify) - 1
      /\ \A i \in 1 .. Len(notify') : notify'[i] = notify[i + 1]
      /\ Head(notify) = notify[1]
      /\ Head(notify) \in VMState
  BY <1>1
<1>3. /\ seen \in [Receiver -> VMState \cup {"none"}]
      /\ seen' = [seen EXCEPT ![r] = notify[1]]
      /\ vm' = vm /\ startResult' = startResult
  BY <1>2 DEF Receive, TypeOK
<1>4. \A q \in Receiver : seen[q] \notin Terminal
  BY <1>1 DEF FinalTaken
<1>5. FinalIsLast'
  BY <1>2, <1>3 DEF FinalIsLast
<1>6. notify[1] \in Terminal => Len(notify) = 1 /\ notify[1] = vm /\ startResult # "none"
  BY <1>2 DEF FinalIsLast
<1>7. Len(notify) = 1 => notify' = <<>>
  BY <1>1, <1>2
<1>8. FinalTaken'
  BY <1>3, <1>4, <1>6, <1>7 DEF FinalTaken
<1>9. FinalAccounted'
  <2> SUFFICES ASSUME startResult # "none", vm \in Terminal
               PROVE  \/ notify' # <<>> /\ notify'[Len(notify')] = vm
                      \/ \E q \in Receiver : seen'[q] \in Terminal
    BY <1>3 DEF FinalAccounted
  <2>1. notify[Len(notify)] = vm
    BY <1>4 DEF FinalAccounted
  <2>2. CASE Len(notify) = 1
    BY <2>1, <2>2, <1>3
  <2>3. CASE Len(notify) # 1
    <3>1. Len(notify') \in 1 .. Len(notify') /\ Len(notify') + 1 = Len(notify)
      BY <1>2, <2>3
    <3>2. notify'[Len(notify')] = vm
      BY <1>2, <2>1, <3>1
    <3>3. notify' # <<>>
      <4> SUFFICES ASSUME notify' = <<>> PROVE FALSE
        OBVIOUS
      <4>1. Len(notify') = 0
        OBVIOUS
      <4> QED
        BY <3>1, <4>1
    <3> QED
      BY <3>2, <3>3
  <2> QED
    BY <2>2, <2>3
<1> QED
  BY <1>2, <1>5, <1>6, <1>8, <1>9

------------------------------------------------------------------------------
\* The inductive invariant holds at first and is kept by every step.

LEMMA InitEstablishes == Init => IInv
<1> SUFFICES ASSUME Init PROVE IInv
  OBVIOUS
<1> USE DEF Init, VzInit
<1>1. TypeOK
  <2>1. VzTypeOK
    BY DEF VzTypeOK, VMState, Terminal
  <2>2. /\ sigSent \in 0 .. MaxSignals /\ requested \in 0 .. MaxRequests
        /\ sigPending \in 0 .. SigChanCap /\ cleaned \in 0 .. 1
    BY BoundsAssumption DEF SigChanCap
  <2>3. seen \in [Receiver -> VMState \cup {"none"}]
    OBVIOUS
  <2> QED
    BY <2>1, <2>2, <2>3 DEF TypeOK
<1> USE DEF Terminal, Receiver
<1>2. BeforeStart /\ FinalIsLast /\ FinalTaken /\ FinalAccounted
  BY DEF BeforeStart, FinalIsLast, FinalTaken, FinalAccounted
<1>3. MainProgress /\ WaiterProgress /\ MainReturned /\ OutcomeReported /\ CleanedOnce
  BY DEF MainProgress, WaiterProgress, MainReturned, OutcomeReported, CleanedOnce
<1> QED
  BY <1>1, <1>2, <1>3 DEF IInv

\* What the machine and its callers do to it keeps its type.
LEMMA EnterKeepsType ==
  ASSUME VzTypeOK, NEW s \in VMState, Enter(s)
  PROVE  vm' \in VMState /\ notify' \in Seq(VMState)
BY DEF Enter, VzTypeOK

LEMMA ReceiveKeepsType ==
  ASSUME TypeOK, NEW r \in Receiver, Receive(r)
  PROVE  VzTypeOK' /\ seen' \in [Receiver -> VMState \cup {"none"}]
<1>1. notify \in Seq(VMState) /\ notify # <<>> /\ notify' = Tail(notify)
  BY DEF Receive, TypeOK, VzTypeOK
<1>2. notify' \in Seq(VMState) /\ Head(notify) \in VMState
  BY <1>1
<1>3. VzTypeOK'
  BY <1>2 DEF Receive, TypeOK, VzTypeOK
<1>4. seen' \in [Receiver -> VMState \cup {"none"}]
  BY <1>2 DEF Receive, TypeOK
<1> QED
  BY <1>3, <1>4

\* A machine that moves by itself is on its way to, or from, a live state.
LEMMA MachineStepEnters ==
  ASSUME VzTypeOK, BeforeStart, MachineStep
  PROVE  /\ \E s \in VMState : Enter(s)
         /\ vm \notin Terminal
         /\ startResult # "none"
         /\ startResult' \in {"pending", "ok", "err"}
BY DEF MachineStep, StartSucceeds, StartFails, OperationCompletes, GuestPowersOff,
       HypervisorFails, VMState, Terminal, BeforeStart, VzTypeOK

\* So does a machine that accepts a request.
LEMMA RequestEnters ==
  ASSUME VzTypeOK, BeforeStart,
         Stop \/ \E newState \in Requests : ChangeState(newState)
  PROVE  /\ \E s \in VMState : Enter(s)
         /\ vm \notin Terminal
         /\ startResult # "none"
         /\ startResult' = startResult
BY DEF ChangeState, Pause, Resume, Stop, CanPause, CanResume, CanStop, VMState, Terminal, BeforeStart

\* A step that leaves the machine and the receivers alone.
LEMMA ChannelUntouched ==
  ASSUME TypeOK, FinalIsLast, FinalTaken, FinalAccounted, UNCHANGED <<vzVars, seen>>
  PROVE  /\ VzTypeOK' /\ seen' \in [Receiver -> VMState \cup {"none"}]
         /\ FinalIsLast' /\ FinalTaken' /\ FinalAccounted'
<1>1. vm' = vm /\ notify' = notify /\ startResult' = startResult /\ seen' = seen
  BY DEF vzVars
<1> QED
  BY <1>1 DEF TypeOK, VzTypeOK, FinalIsLast, FinalTaken, FinalAccounted

\* The steps of main in which it neither calls Start nor receives.
LEMMA MainMovesKeeps ==
  ASSUME IInv, Alive,
         Configure \/ Create \/ ServeRest \/ TrapSignals \/ Started \/ Expose \/ GuiReturns
  PROVE  IInv'
<1> USE DEF IInv, At, Goto, Return, MainOnly, mainVars, waiterVars, sigVars, restVars, vzVars
<1>1. UNCHANGED <<vzVars, seen, cleaned, status, errCh, sigPending, sigSent, requested>>
  BY DEF Configure, Create, ServeRest, TrapSignals, Started, Expose, GuiReturns
<1>2. VzTypeOK' /\ seen' \in [Receiver -> VMState \cup {"none"}] /\ FinalIsLast' /\ FinalTaken' /\ FinalAccounted'
  BY <1>1, ChannelUntouched
<1>3. TypeOK'
  <2>1. mainErr' \in BOOLEAN /\ rest' \in BOOLEAN
    BY OptionsAssumption, Zenon DEF Configure, Create, ServeRest, TrapSignals, Started, Expose, GuiReturns, TypeOK
  <2> QED
    BY <1>1, <1>2, <2>1 DEF Configure, Create, ServeRest, TrapSignals, Started, Expose, GuiReturns, TypeOK
<1>4. BeforeStart'
  BY <1>1 DEF Configure, Create, ServeRest, TrapSignals, Started, Expose, GuiReturns, BeforeStart
<1>5. MainProgress' /\ WaiterProgress'
  BY <1>1 DEF Configure, Create, ServeRest, TrapSignals, Started, Expose, GuiReturns, MainProgress, WaiterProgress
<1>6. MainReturned' /\ OutcomeReported' /\ CleanedOnce'
  BY <1>1 DEF Configure, Create, ServeRest, TrapSignals, Started, Expose, GuiReturns,
              MainReturned, OutcomeReported, CleanedOnce, WaiterProgress, Alive
<1> QED
  BY <1>2, <1>3, <1>4, <1>5, <1>6

\* The steps of main that end the process, and its receipt from errCh.
LEMMA MainEndsKeeps ==
  ASSUME IInv, Alive, WaitStopped \/ Cleanup \/ Exit
  PROVE  IInv'
<1> USE DEF IInv, At, Goto, Return, mainVars, waiterVars, sigVars, restVars, vzVars
<1>1. UNCHANGED <<vzVars, seen, waiter, sigVars, restVars>>
  BY DEF WaitStopped, Cleanup, Exit
<1>2. VzTypeOK' /\ seen' \in [Receiver -> VMState \cup {"none"}] /\ FinalIsLast' /\ FinalTaken' /\ FinalAccounted'
  BY <1>1, ChannelUntouched
<1>3. mainErr' \in BOOLEAN
  BY Zenon DEF WaitStopped, Cleanup, Exit, TypeOK
<1>4. cleaned' \in 0 .. 1 /\ CleanedOnce'
  BY DEF WaitStopped, Cleanup, Exit, CleanedOnce
<1>5. TypeOK'
  BY <1>1, <1>2, <1>3, <1>4 DEF WaitStopped, Cleanup, Exit, TypeOK
<1>6. BeforeStart' /\ MainProgress' /\ WaiterProgress'
  BY <1>1 DEF WaitStopped, Cleanup, Exit, BeforeStart, MainProgress, WaiterProgress
<1>7. MainReturned' /\ OutcomeReported'
  <2>1. CASE WaitStopped
    <3>1. main' = "cleanup" /\ waiter' = "done" /\ errCh' = "empty" /\ status' = "none" /\ vm' = vm
      BY <2>1 DEF WaitStopped, Alive, TypeOK, WaiterProgress, Terminal
    <3>2. CASE errCh = "err"
      <4>1. vm = "Error" /\ mainErr'
        BY <2>1, <3>2 DEF WaitStopped, WaiterProgress, FinalTaken, Terminal, Receiver
      <4> QED
        BY <3>1, <4>1 DEF MainReturned, OutcomeReported
    <3>3. CASE errCh = "nil"
      <4>1. vm = "Stopped" /\ ~mainErr'
        BY <2>1, <3>3 DEF WaitStopped, WaiterProgress, FinalTaken, Terminal, Receiver
      <4> QED
        BY <3>1, <4>1 DEF MainReturned, OutcomeReported
    <3> QED
      BY <2>1, <3>2, <3>3 DEF WaitStopped, TypeOK
  <2>2. CASE Cleanup
    BY <2>2 DEF Cleanup, MainReturned, OutcomeReported, Alive
  <2>3. CASE Exit
    BY <2>3 DEF Exit, MainReturned, OutcomeReported
  <2> QED
    BY <2>1, <2>2, <2>3
<1> QED
  BY <1>2, <1>4, <1>5, <1>6, <1>7

\* The steps that take a notification, or let a timer fire.
LEMMA ReceiversKeep ==
  ASSUME IInv, Alive, WaitRunning \/ WaiterReceives \/ ShutdownWaits
  PROVE  IInv'
<1> USE DEF IInv, At, Return, MainOnly, SignalOnly, mainVars, waiterVars, sigVars, restVars
<1>1. CASE WaitRunning /\ Receive("main")
  <2>1. /\ VzTypeOK' /\ seen' \in [Receiver -> VMState \cup {"none"}]
        /\ FinalIsLast' /\ FinalTaken' /\ FinalAccounted'
    BY <1>1, ReceiveKeepsType, ReceiveKeepsChannel DEF Receiver
  <2>2. /\ main = "waitRunning" /\ waiter = "none"
        /\ UNCHANGED <<vm, startResult, waiter, errCh, sig, sigPending, sigSent, rest, requested, cleaned, status>>
    BY <1>1 DEF WaitRunning, Receive, WaiterProgress
  <2>3. seen'["waiter"] = seen["waiter"] /\ seen'["main"] = Head(notify) /\ startResult # "none"
    BY <1>1 DEF Receive, TypeOK, Receiver, BeforeStart
  <2>4. \/ main' = "expose" /\ mainErr' = mainErr /\ Head(notify) = "Running"
        \/ main' = "cleanup" /\ mainErr' = TRUE
        \/ main' = "waitRunning" /\ mainErr' = mainErr
    BY <1>1 DEF WaitRunning, Verdict
  <2>5. TypeOK'
    <3>1. mainErr' \in BOOLEAN
      BY <2>4, Zenon DEF TypeOK
    <3> QED
      BY <2>1, <2>2, <2>4, <3>1 DEF TypeOK
  <2>6. BeforeStart' /\ CleanedOnce'
    BY <2>2, <2>3, <2>4 DEF BeforeStart, CleanedOnce
  <2>7. MainProgress' /\ WaiterProgress'
    BY <2>2, <2>3, <2>4 DEF MainProgress, WaiterProgress
  <2>8. MainReturned' /\ OutcomeReported'
    BY <2>2, <2>4 DEF MainReturned, OutcomeReported, Alive
  <2> QED
    BY <2>1, <2>5, <2>6, <2>7, <2>8
<1>2. CASE WaitRunning /\ TimerFires
  <2>1. /\ main = "waitRunning" /\ waiter = "none" /\ main' = "cleanup" /\ mainErr' = TRUE
        /\ UNCHANGED <<vzVars, seen, waiter, errCh, sig, sigPending, sigSent, rest, requested, cleaned, status>>
    BY <1>2 DEF WaitRunning, TimerFires, WaiterProgress, Receive
  <2>2. VzTypeOK' /\ seen' \in [Receiver -> VMState \cup {"none"}] /\ FinalIsLast' /\ FinalTaken' /\ FinalAccounted'
    BY <2>1, ChannelUntouched
  <2>3. TypeOK' /\ BeforeStart' /\ CleanedOnce'
    BY <2>1, <2>2 DEF TypeOK, BeforeStart, CleanedOnce, vzVars
  <2>4. MainProgress' /\ WaiterProgress' /\ MainReturned' /\ OutcomeReported'
    BY <2>1 DEF MainProgress, WaiterProgress, MainReturned, OutcomeReported, Alive
  <2> QED
    BY <2>2, <2>3, <2>4
<1>3. CASE WaiterReceives
  <2>1. /\ VzTypeOK' /\ seen' \in [Receiver -> VMState \cup {"none"}]
        /\ FinalIsLast' /\ FinalTaken' /\ FinalAccounted' /\ Head(notify) \in VMState
    BY <1>3, ReceiveKeepsType, ReceiveKeepsChannel DEF Receiver, WaiterReceives
  <2>2. /\ waiter = "waiting"
        /\ UNCHANGED <<vm, startResult, main, mainErr, sig, sigPending, sigSent, rest, requested, cleaned, status>>
    BY <1>3 DEF WaiterReceives, Receive
  <2>3. seen'["waiter"] = Head(notify) /\ seen'["main"] = seen["main"] /\ startResult # "none"
    BY <1>3 DEF WaiterReceives, Receive, TypeOK, Receiver, BeforeStart
  <2>4. \/ waiter' = "done" /\ errCh' = "nil" /\ Head(notify) = "Stopped"
        \/ waiter' = "done" /\ errCh' = "err" /\ Head(notify) = "Error"
        \/ waiter' = "waiting" /\ errCh' = errCh /\ Head(notify) \notin Terminal
    BY <1>3 DEF WaiterReceives, Verdict, Terminal
  <2>5. TypeOK' /\ BeforeStart' /\ CleanedOnce'
    BY <2>1, <2>2, <2>3, <2>4 DEF TypeOK, BeforeStart, CleanedOnce
  <2>6. MainProgress' /\ WaiterProgress'
    BY <2>2, <2>3, <2>4 DEF MainProgress, WaiterProgress, Terminal
  <2>7. MainReturned' /\ OutcomeReported'
    BY <2>2, <2>4 DEF MainReturned, OutcomeReported, Alive, WaiterProgress
  <2> QED
    BY <2>1, <2>5, <2>6, <2>7
<1>4. CASE ShutdownWaits /\ Receive("shutdown")
  <2>1. /\ VzTypeOK' /\ seen' \in [Receiver -> VMState \cup {"none"}]
        /\ FinalIsLast' /\ FinalTaken' /\ FinalAccounted'
    BY <1>4, ReceiveKeepsType, ReceiveKeepsChannel DEF Receiver
  <2>2. UNCHANGED <<vm, startResult, main, mainErr, waiter, errCh, sigPending, sigSent, rest, requested, cleaned, status>>
    BY <1>4 DEF ShutdownWaits, Receive
  <2>3. seen'["waiter"] = seen["waiter"] /\ seen'["main"] = seen["main"] /\ startResult # "none"
    BY <1>4 DEF Receive, TypeOK, Receiver, BeforeStart
  <2>4. sig' \in {"idle", "forceStop", "waitStopped"}
    BY <1>4 DEF ShutdownWaits
  <2>5. TypeOK' /\ BeforeStart' /\ CleanedOnce'
    BY <2>1, <2>2, <2>3, <2>4 DEF TypeOK, BeforeStart, CleanedOnce
  <2>6. MainProgress' /\ WaiterProgress' /\ MainReturned' /\ OutcomeReported'
    BY <2>2, <2>3 DEF MainProgress, WaiterProgress, MainReturned, OutcomeReported
  <2> QED
    BY <2>1, <2>5, <2>6
<1>5. CASE ShutdownWaits /\ TimerFires
  <2>1. /\ sig' = "forceStop"
        /\ UNCHANGED <<vzVars, seen, main, mainErr, waiter, errCh, sigPending, sigSent, rest, requested, cleaned, status>>
    BY <1>5 DEF ShutdownWaits, TimerFires, Receive
  <2>2. VzTypeOK' /\ seen' \in [Receiver -> VMState \cup {"none"}] /\ FinalIsLast' /\ FinalTaken' /\ FinalAccounted'
    BY <2>1, ChannelUntouched
  <2>3. TypeOK' /\ BeforeStart' /\ CleanedOnce'
    BY <2>1, <2>2 DEF TypeOK, BeforeStart, CleanedOnce, vzVars
  <2>4. MainProgress' /\ WaiterProgress' /\ MainReturned' /\ OutcomeReported'
    BY <2>1 DEF MainProgress, WaiterProgress, MainReturned, OutcomeReported, vzVars
  <2> QED
    BY <2>2, <2>3, <2>4
<1> QED
  BY <1>1, <1>2, <1>3, <1>4, <1>5 DEF WaitRunning, ShutdownWaits

\* The steps in which the machine announces a new state.
LEMMA MachineKeeps ==
  ASSUME IInv, Alive,
         Start \/ VmStep \/ (ForceStop /\ Stop) \/ (SetVMState /\ \E newState \in Requests : ChangeState(newState))
  PROVE  IInv'
<1> USE DEF IInv, At, MainOnly, SignalOnly, Goto, mainVars, waiterVars, sigVars, restVars
<1>1. \E s \in VMState : Enter(s)
  BY MachineStepEnters, RequestEnters DEF Start, StartCalled, VmStep, TypeOK, VMState
<1>2. /\ vm \notin Terminal \/ startResult = "none"
      /\ startResult' \in {"pending", "ok", "err"}
  <2>1. CASE Start
    BY <2>1 DEF Start, StartCalled, BeforeStart
  <2>2. CASE ~Start
    BY <2>2, MachineStepEnters, RequestEnters DEF VmStep, TypeOK, VzTypeOK
  <2> QED
    BY <2>1, <2>2
<1>3. /\ UNCHANGED <<seen, mainErr, waiter, errCh, sigPending, sigSent, rest, cleaned, status>>
      /\ requested' \in 0 .. MaxRequests
      /\ sig' = sig \/ sig' = "stopping"
  BY BoundsAssumption DEF Start, VmStep, ForceStop, SetVMState, TypeOK, Stop
<1>4. main' = main \/ (main = "start" /\ main' = "starting")
  BY DEF Start, VmStep, ForceStop, SetVMState
<1>5. VzTypeOK' /\ FinalIsLast' /\ FinalTaken' /\ FinalAccounted'
  BY <1>1, <1>2, <1>3, EnterKeepsChannel, EnterKeepsType DEF TypeOK, VzTypeOK
<1>6. TypeOK'
  BY <1>3, <1>4, <1>5 DEF TypeOK
<1>7. BeforeStart'
  <2>1. main' = "starting" \/ (main' = main /\ startResult # "none")
    BY <1>4, MachineStepEnters, RequestEnters DEF Start, VmStep, ForceStop, SetVMState, TypeOK
  <2> QED
    BY <1>2, <2>1 DEF BeforeStart
<1>8. MainProgress' /\ WaiterProgress' /\ CleanedOnce'
  BY <1>3, <1>4 DEF MainProgress, WaiterProgress, CleanedOnce
<1>9. MainReturned' /\ OutcomeReported'
  <2>1. MainReturned'
    BY <1>3, <1>4 DEF MainReturned
  <2>2. OutcomeReported'
    <3> SUFFICES ASSUME main' \in {"cleanup", "exit"}, waiter' = "done", errCh' = "empty"
                 PROVE  FALSE
      BY DEF OutcomeReported
    <3>1. main = main' /\ main # "start" /\ waiter = "done"
      BY <1>3, <1>4
    <3>2. seen["waiter"] \in Terminal
      BY <3>1 DEF WaiterProgress
    <3>3. vm \in Terminal /\ startResult # "none"
      BY <3>2 DEF FinalTaken, Receiver
    <3> QED
      BY <1>2, <3>3
  <2> QED
    BY <2>1, <2>2
<1> QED
  BY <1>3, <1>5, <1>6, <1>7, <1>8, <1>9

\* The steps of the signal goroutine and of the service that leave the machine
\* and main alone.
LEMMA OthersKeep ==
  ASSUME IInv, Alive,
         \/ SignalArrives \/ TakeSignal \/ RequestStop \/ ForceStopReturns \/ RestFails
         \/ (ForceStop /\ UNCHANGED vzVars)
         \/ (SetVMState /\ UNCHANGED vzVars)
  PROVE  IInv'
<1> USE DEF IInv, SignalOnly, mainVars, waiterVars, sigVars, restVars
<1>1. UNCHANGED <<vzVars, seen, main, mainErr, waiter, errCh, rest, cleaned>>
  BY DEF SignalArrives, TakeSignal, RequestStop, ForceStop, ForceStopReturns, RestFails, SetVMState
<1>2. VzTypeOK' /\ seen' \in [Receiver -> VMState \cup {"none"}] /\ FinalIsLast' /\ FinalTaken' /\ FinalAccounted'
  BY <1>1, ChannelUntouched
<1>3. status' \in {"none", "fatal", "killed"}
  BY DEF SignalArrives, TakeSignal, RequestStop, ForceStop, ForceStopReturns, RestFails, SetVMState, Alive
<1>4. /\ sig' \in {"off", "idle", "requestStop", "waitStopped", "forceStop", "stopping"}
      /\ sigPending' \in 0 .. SigChanCap /\ sigSent' \in 0 .. MaxSignals /\ requested' \in 0 .. MaxRequests
  BY BoundsAssumption
     DEF SignalArrives, TakeSignal, RequestStop, ForceStop, ForceStopReturns, RestFails, SetVMState, Stop,
         TypeOK, SigChanCap
<1>5. TypeOK' /\ BeforeStart' /\ CleanedOnce'
  BY <1>1, <1>2, <1>3, <1>4 DEF TypeOK, BeforeStart, CleanedOnce, vzVars
<1>6. MainProgress' /\ WaiterProgress' /\ MainReturned' /\ OutcomeReported'
  BY <1>1, <1>3 DEF MainProgress, WaiterProgress, MainReturned, OutcomeReported, vzVars
<1> QED
  BY <1>2, <1>5, <1>6

\* A process that has ended does nothing more.
LEMMA DeadStaysDead == ~Alive /\ [Next]_vars => UNCHANGED vars
BY DEF Next, MainStep, Configure, Create, ServeRest, TrapSignals, Start, Started, WaitRunning, Expose, GuiReturns,
       WaitStopped, Cleanup, Exit, WaiterReceives, SignalArrives, SignalStep, TakeSignal, RequestStop, ShutdownWaits,
       ForceStop, ForceStopReturns, SetVMState, RestFails, VmStep, Ended, At, Goto

LEMMA StepKeeps == IInv /\ [Next]_vars => IInv'
<1> SUFFICES ASSUME IInv, [Next]_vars PROVE IInv'
  OBVIOUS
<1>1. CASE Alive /\ Next
  <2>1. MainStep => IInv'
    BY <1>1, MainMovesKeeps, MainEndsKeeps, ReceiversKeep, MachineKeeps DEF MainStep
  <2>2. WaiterReceives \/ SignalArrives \/ RestFails \/ VmStep => IInv'
    BY <1>1, ReceiversKeep, MachineKeeps, OthersKeep
  <2>3. SignalStep => IInv'
    <3>1. ForceStop => Stop \/ UNCHANGED vzVars
      BY DEF ForceStop
    <3> QED
      BY <1>1, <3>1, ReceiversKeep, MachineKeeps, OthersKeep DEF SignalStep
  <2>4. SetVMState => IInv'
    <3>1. SetVMState => UNCHANGED vzVars \/ \E newState \in Requests : ChangeState(newState)
      BY DEF SetVMState, NoChange
    <3> QED
      BY <1>1, <3>1, MachineKeeps, OthersKeep
  <2> QED
    BY <1>1, <2>1, <2>2, <2>3, <2>4 DEF Next, Ended
<1>2. CASE UNCHANGED vars
  <2>1. UNCHANGED <<vm, notify, startResult, main, mainErr, waiter, errCh, sig, sigPending, sigSent,
                    rest, requested, seen, cleaned, status>>
    BY <1>2 DEF vars, vzVars, mainVars, waiterVars, sigVars, restVars
  <2> QED
    BY <2>1 DEF IInv, TypeOK, VzTypeOK, BeforeStart, FinalIsLast, FinalTaken, FinalAccounted, MainProgress,
                WaiterProgress, MainReturned, OutcomeReported, CleanedOnce
<1> QED
  BY <1>1, <1>2, DeadStaysDead

------------------------------------------------------------------------------
\* The theorems.

\* In every reachable state the invariant holds.
THEOREM Invariance == SafeSpec => []IInv
<1>1. Init => IInv
  BY InitEstablishes
<1>2. IInv /\ [Next]_vars => IInv'
  BY StepKeeps
<1> QED
  BY <1>1, <1>2, PTL DEF SafeSpec

\* Every variable of the process keeps its type; sigChan never holds more than
\* two signals, and the exit handlers run at most once.
THEOREM TypeCorrect == SafeSpec => []TypeOK
<1>1. IInv => TypeOK
  BY DEF IInv
<1> QED
  BY <1>1, Invariance, PTL

\* Exit status 0 is only reported for a machine that was stopped.
THEOREM OkOnlyAfterStop == SafeSpec => []OkMeansStopped
<1>1. IInv => OkMeansStopped
  <2> SUFFICES ASSUME IInv, main \in {"cleanup", "exit"}, ~mainErr
               PROVE  vm = "Stopped"
    BY DEF OkMeansStopped, IInv, MainReturned
  <2>1. waiter = "done" /\ errCh = "empty"
    BY DEF IInv, MainReturned
  <2>2. vm # "Error"
    BY <2>1 DEF IInv, OutcomeReported
  <2>3. seen["waiter"] \in Terminal
    BY <2>1 DEF IInv, WaiterProgress
  <2>4. vm \in Terminal
    BY <2>3 DEF IInv, FinalTaken, Receiver
  <2> QED
    BY <2>2, <2>4 DEF Terminal
<1> QED
  BY <1>1, Invariance, PTL

\* A process that ends with what the waiter sent reports exactly the failures
\* of the hypervisor.
THEOREM OutcomeIsReported == SafeSpec => []OutcomeReported
<1>1. IInv => OutcomeReported
  BY DEF IInv
<1> QED
  BY <1>1, Invariance, PTL

\* The waiter can only miss the final state of the machine because
\* shutdownFunc took it.
THEOREM FinalStateIsThere == SafeSpec => []FinalStateReachesWaiter
<1>1. IInv => FinalStateReachesWaiter
  <2> SUFFICES ASSUME IInv, waiter = "waiting", vm \in Terminal, seen["shutdown"] \notin Terminal
               PROVE  notify # <<>> /\ notify[Len(notify)] = vm
    BY DEF FinalStateReachesWaiter
  <2>1. seen["main"] = "Running" /\ seen["waiter"] \notin Terminal
    BY DEF IInv, MainProgress, WaiterProgress
  <2>2. \A r \in Receiver : seen[r] \notin Terminal
    BY <2>1 DEF Receiver, Terminal
  <2>3. startResult # "none"
    BY <2>1 DEF IInv, BeforeStart
  <2> QED
    BY <2>2, <2>3 DEF IInv, FinalAccounted
<1> QED
  BY <1>1, Invariance, PTL

------------------------------------------------------------------------------
\* The process implements a session.

LEMMA SessionInit == Init => Session!Init
BY DEF Init, VzInit, Session!Init, SessionMachine, SessionOutcome, WindowLost

\* What a step does to the machine of the session.
LEMMA EnterMapsToSession ==
  ASSUME vm \notin Terminal, startResult # "none", startResult' # "none", NEW s \in VMState, Enter(s)
  PROVE  SessionMachine = "live" /\ SessionMachine' \in {"live", "stopped", "failed"}
BY DEF Enter, SessionMachine, Terminal

\* The window of the session is lost in one place only: where main returns from
\* the window with an error.
LEMMA WindowKept == IInv /\ [Next]_vars /\ ~GuiReturns => WindowLost' = WindowLost
<1> SUFFICES ASSUME IInv, [Next]_vars, ~GuiReturns PROVE WindowLost' = WindowLost
  OBVIOUS
<1> USE DEF mainVars, waiterVars, sigVars, restVars
<1>1. CASE UNCHANGED <<main, waiter, errCh>>
  BY <1>1 DEF WindowLost
<1>2. CASE Configure \/ Create \/ ServeRest \/ TrapSignals \/ Start \/ Started \/ WaitRunning
  <2>1. main \notin {"gui", "waitStopped", "cleanup", "exit"} /\ waiter' = waiter
    BY <1>2 DEF Configure, Create, ServeRest, TrapSignals, Start, Started, WaitRunning, At, Goto, MainOnly
  <2>2. waiter = "none"
    BY <2>1 DEF IInv, WaiterProgress
  <2> QED
    BY <2>1, <2>2 DEF WindowLost
<1>3. CASE Expose
  <2>1. main = "expose" /\ (main' \in {"gui", "waitStopped"} \/ waiter' = waiter)
    BY <1>3 DEF Expose, At, Goto
  <2>2. waiter = "none"
    BY <2>1 DEF IInv, WaiterProgress
  <2> QED
    BY <2>1, <2>2 DEF WindowLost
<1>4. CASE WaitStopped
  <2>1. main = "waitStopped" /\ errCh # "empty" /\ errCh' = "empty" /\ waiter' = waiter
    BY <1>4 DEF WaitStopped, At
  <2>2. waiter = "done"
    BY <2>1 DEF IInv, WaiterProgress, TypeOK, Terminal
  <2> QED
    BY <2>1, <2>2 DEF WindowLost
<1>5. CASE Cleanup
  BY <1>5 DEF Cleanup, Goto, At, WindowLost
<1>6. CASE WaiterReceives
  <2>1. waiter = "waiting" /\ main' = main /\ waiter' # "none" /\ ~(waiter' = "done" /\ errCh' = "empty")
    BY <1>6 DEF WaiterReceives
  <2> QED
    BY <2>1 DEF WindowLost
<1>7. Exit \/ SignalArrives \/ SignalStep \/ SetVMState \/ RestFails \/ VmStep \/ Ended \/ UNCHANGED vars
        => UNCHANGED <<main, waiter, errCh>>
  BY DEF Exit, SignalArrives, SignalStep, TakeSignal, RequestStop, ShutdownWaits, ForceStop, ForceStopReturns,
         SignalOnly, SetVMState, RestFails, VmStep, Ended, vars
<1> QED
  BY <1>1, <1>2, <1>3, <1>4, <1>5, <1>6, <1>7 DEF Next, MainStep

\* A step of the process is a step of the session or leaves it alone.
LEMMA SessionStep == IInv /\ IInv' /\ [Next]_vars => [Session!Next]_(Session!vars)
<1> SUFFICES ASSUME IInv, IInv', [Next]_vars, Alive \/ UNCHANGED vars
             PROVE  [Session!Next]_(Session!vars)
  BY DeadStaysDead
<1>0. ~GuiReturns => WindowLost' = WindowLost
  BY WindowKept
<1> USE DEF At, Session!vars, Session!Next, SessionOutcome, mainVars, waiterVars, sigVars, restVars, vzVars
<1>1. CASE Alive /\ Start
  <2>1. SessionMachine = "off" /\ SessionMachine' = "live"
    BY <1>1 DEF Start, Goto, StartCalled, Enter, IInv, BeforeStart, SessionMachine
  <2>2. WindowLost' = WindowLost
    BY <1>0, <1>1 DEF Start, Goto, GuiReturns
  <2> QED
    BY <1>1, <2>1, <2>2 DEF Start, MainOnly, Alive, Session!PowerOn
<1>2. CASE Alive /\ (VmStep \/ (ForceStop /\ Stop) \/ (SetVMState /\ \E newState \in Requests : ChangeState(newState)))
  <2>1. SessionMachine = "live" /\ SessionMachine' \in {"live", "stopped", "failed"}
    BY <1>2, EnterMapsToSession, MachineStepEnters, RequestEnters DEF IInv, TypeOK, VzTypeOK, VmStep
  <2>2. waiter' = waiter /\ status' = status /\ status = "none"
    BY <1>2 DEF VmStep, ForceStop, SignalOnly, SetVMState, Alive
  <2>3. WindowLost' = WindowLost
    BY <1>2 DEF VmStep, ForceStop, SignalOnly, SetVMState, WindowLost
  <2> QED
    BY <2>1, <2>2, <2>3 DEF Session!PowerOff
<1>3. CASE Alive /\ Expose
  <2>1. startResult # "none" /\ waiter = "none" /\ UNCHANGED <<vm, startResult, status>> /\ status = "none"
    BY <1>3 DEF Expose, IInv, MainProgress, WaiterProgress, BeforeStart, Alive
  <2>2. SessionMachine # "off" /\ SessionMachine' = SessionMachine
    BY <2>1 DEF SessionMachine
  <2>3. WindowLost' = WindowLost
    BY <1>0, <1>3 DEF Expose, GuiReturns
  <2>4. CASE waiter' = waiter
    BY <1>3, <2>1, <2>2, <2>3, <2>4 DEF Expose
  <2>5. CASE waiter' = "waiting"
    BY <1>3, <2>1, <2>2, <2>3, <2>5 DEF Expose, Session!Serve
  <2> QED
    BY <1>3, <2>4, <2>5 DEF Expose
<1>4. CASE Alive /\ Exit
  <2>1. main = "exit" /\ UNCHANGED <<vm, startResult, waiter, mainErr, errCh>> /\ status = "none"
    BY <1>4 DEF Exit, Alive
  <2>2. SessionMachine' = SessionMachine
    BY <2>1 DEF SessionMachine
  <2>3. WindowLost' = WindowLost
    BY <2>1, <1>4 DEF Exit, WindowLost
  <2>4. CASE mainErr
    <3>1. vm = "Error" \/ waiter = "none" \/ WindowLost
      BY <2>1, <2>4 DEF IInv, OutcomeReported, WindowLost
    <3>2. SessionMachine = "failed" \/ waiter = "none" \/ WindowLost
      BY <3>1 DEF SessionMachine, IInv, BeforeStart
    <3> QED
      BY <1>4, <2>1, <2>2, <2>3, <2>4, <3>2 DEF Exit, Session!Finish
  <2>5. CASE ~mainErr
    <3>1. waiter = "done" /\ seen["waiter"] \in Terminal
      BY <2>1, <2>5 DEF IInv, MainReturned, WaiterProgress
    <3>2. startResult # "none" /\ vm = "Stopped"
      BY <2>1, <2>5, <3>1 DEF IInv, FinalTaken, Receiver, OutcomeReported, MainReturned, Terminal
    <3>3. SessionMachine = "stopped"
      BY <3>2 DEF SessionMachine
    <3> QED
      BY <1>4, <2>1, <2>2, <2>3, <2>5, <3>1, <3>3 DEF Exit, Session!Finish
  <2> QED
    BY <2>4, <2>5
<1>5. CASE Alive /\ (RestFails \/ SignalArrives)
  <2>1. UNCHANGED <<vm, startResult, waiter>> /\ status' \in {"none", "fatal", "killed"} /\ status = "none"
    BY <1>5 DEF RestFails, SignalArrives, Alive
  <2>2. SessionMachine' = SessionMachine
    BY <2>1 DEF SessionMachine
  <2>3. WindowLost' = WindowLost
    BY <1>5 DEF RestFails, SignalArrives, WindowLost
  <2> QED
    BY <2>1, <2>2, <2>3 DEF Session!Abort
<1>6. CASE UNCHANGED <<vm, startResult, status>> /\ (waiter = "none" <=> waiter' = "none") /\ WindowLost' = WindowLost
  <2>1. SessionMachine' = SessionMachine
    BY <1>6 DEF SessionMachine
  <2> QED
    BY <1>6, <2>1
<1>7. CASE Alive /\ MainStep /\ ~Start /\ ~Expose /\ ~Exit
  <2>1. UNCHANGED <<vm, startResult, status, waiter>> /\ status = "none"
    BY <1>7 DEF MainStep, Configure, Create, ServeRest, TrapSignals, Started, WaitRunning, Receive, TimerFires,
                GuiReturns, WaitStopped, Cleanup, MainOnly, Alive
  <2>2. CASE ~GuiReturns
    BY <1>0, <1>6, <2>1, <2>2
  <2>3. CASE GuiReturns
    <3>1. UseGUI /\ waiter # "none" /\ ~WindowLost
      BY <2>3 DEF GuiReturns, IInv, MainReturned, WaiterProgress, WindowLost
    <3>2. SessionMachine' = SessionMachine
      BY <2>1 DEF SessionMachine
    <3>3. CASE WindowLost'
      BY <2>1, <3>1, <3>2, <3>3 DEF Session!LoseWindow
    <3>4. CASE ~WindowLost'
      <4>1. WindowLost' = WindowLost
        BY <3>1, <3>4 DEF WindowLost
      <4> QED
        BY <1>6, <2>1, <4>1
    <3> QED
      BY <3>3, <3>4
  <2> QED
    BY <2>2, <2>3
<1>8. CASE Alive /\ (WaiterReceives \/ TakeSignal \/ RequestStop \/ ShutdownWaits \/ ForceStopReturns)
  <2>1. UNCHANGED <<vm, startResult, status>> /\ (waiter = "none" <=> waiter' = "none")
    BY <1>8 DEF WaiterReceives, TakeSignal, RequestStop, ShutdownWaits, ForceStopReturns, Receive, TimerFires, SignalOnly
  <2>2. main' = main
    BY <1>8 DEF WaiterReceives, TakeSignal, RequestStop, ShutdownWaits, ForceStopReturns, SignalOnly
  <2>3. WindowLost' = WindowLost
    BY <1>0, <2>2 DEF GuiReturns, Goto, Return
  <2> QED
    BY <1>6, <2>1, <2>3
<1>9. CASE Alive /\ (ForceStop \/ SetVMState) /\ UNCHANGED vzVars
  <2>1. UNCHANGED <<vm, startResult, status, waiter>>
    BY <1>9 DEF ForceStop, SetVMState, SignalOnly
  <2>2. WindowLost' = WindowLost
    BY <1>9 DEF ForceStop, SetVMState, SignalOnly, WindowLost
  <2> QED
    BY <1>6, <2>1, <2>2
<1>10. CASE UNCHANGED vars
  BY <1>6, <1>10 DEF vars, WindowLost
<1>11. ForceStop => Stop \/ UNCHANGED vzVars
  BY DEF ForceStop
<1>12. SetVMState => UNCHANGED vzVars \/ \E newState \in Requests : ChangeState(newState)
  BY DEF SetVMState, NoChange
<1> QED
  BY <1>1, <1>2, <1>3, <1>4, <1>5, <1>7, <1>8, <1>9, <1>10, <1>11, <1>12 DEF Next, SignalStep, Ended

\* For every number of signals and requests the process is a session: it serves
\* one machine that was started, ends well only after a clean stop, and ends
\* with an error only when the machine failed, was never served, or the window
\* failed.
THEOREM ProcessIsSession == SafeSpec => SessionSteps
<1>1. Init => Session!Init
  BY SessionInit
<1>2. IInv /\ IInv' /\ [Next]_vars => [Session!Next]_(Session!vars)
  BY SessionStep
<1> QED
  BY <1>1, <1>2, Invariance, PTL DEF SafeSpec, SessionSteps, Session!SafeSpec
===============================================================================
