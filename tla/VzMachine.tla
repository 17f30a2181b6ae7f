------------------------------ MODULE VzMachine ------------------------------
(***************************************************************************)
(* One macOS virtual machine as vfkit sees it through Code-Hex/vz: the     *)
(* state of the VM, the single channel on which every state change is      *)
(* announced, and the result of the one call to Start that vfkit makes.    *)
(* The library is not part of the repository; the operators here are what  *)
(* cmd/vfkit/main.go and pkg/rest/vf rely on:                              *)
(*  - StateChangedNotify() returns the same unbounded FIFO channel to every*)
(*    caller, so a notification is delivered to one receiver only;         *)
(*  - Start, Pause, Resume and Stop are refused unless the matching CanX   *)
(*    holds, and otherwise return when the operation has completed;        *)
(*  - RequestStop only presses the power button: the guest may ignore it;  *)
(*  - vfkit starts the machine once, so Stopped and Error are final after. *)
(***************************************************************************)
EXTENDS Naturals, Sequences

VARIABLES
  vm,           \* state of the virtual machine
  notify,       \* state changes nobody has received yet, oldest first
  startResult   \* what the call to Start returned, or how far it is

vzVars == <<vm, notify, startResult>>

Terminal == {"Stopped", "Error"}

VMState == Terminal \cup {"Starting", "Running", "Pausing", "Paused", "Resuming", "Stopping"}

CanStart == vm \in Terminal
CanPause == vm = "Running"
CanResume == vm = "Paused"
CanStop == vm \in {"Running", "Paused"}

VzTypeOK ==
  /\ vm \in VMState
  /\ notify \in Seq(VMState)
  /\ startResult \in {"none", "pending", "ok", "err"}

VzInit ==
  /\ vm = "Stopped"
  /\ notify = <<>>
  /\ startResult = "none"

\* Every state change is queued for the receivers of StateChangedNotify().
Enter(s) ==
  /\ vm' = s
  /\ notify' = Append(notify, s)

\* The call to Start begins.
StartCalled ==
  /\ CanStart
  /\ Enter("Starting")
  /\ startResult' = "pending"

\* The machine boots: Start returns nil.
StartSucceeds ==
  /\ vm = "Starting"
  /\ Enter("Running")
  /\ startResult' = "ok"

\* The machine cannot be started: Start returns an error.
StartFails ==
  /\ vm = "Starting"
  /\ \E s \in Terminal : Enter(s)
  /\ startResult' = "err"

\* A Pause, Resume or Stop that was accepted completes.
OperationCompletes ==
  /\ \/ vm = "Pausing" /\ Enter("Paused")
     \/ vm = "Resuming" /\ Enter("Running")
     \/ vm = "Stopping" /\ Enter("Stopped")
  /\ UNCHANGED startResult

\* The guest powers off, by itself or because of RequestStop.
GuestPowersOff ==
  /\ vm = "Running"
  /\ Enter("Stopped")
  /\ UNCHANGED startResult

\* The hypervisor reports an error of a machine that was started.
HypervisorFails ==
  /\ vm \in VMState \ (Terminal \cup {"Starting"})
  /\ Enter("Error")
  /\ UNCHANGED startResult

\* The operations a caller can ask of a started machine: what is accepted
\* takes effect, what the machine cannot do now is an error that changes nothing.
Pause == CanPause /\ Enter("Pausing") /\ UNCHANGED startResult
Resume == CanResume /\ Enter("Resuming") /\ UNCHANGED startResult
Stop == CanStop /\ Enter("Stopping") /\ UNCHANGED startResult

\* What the machine does by itself.
MachineStep ==
  \/ StartSucceeds
  \/ StartFails
  \/ OperationCompletes
  \/ GuestPowersOff
  \/ HypervisorFails
==============================================================================
