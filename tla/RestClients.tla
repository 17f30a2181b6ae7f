------------------------------ MODULE RestClients ------------------------------
(***************************************************************************)
(* Clients of the RESTful service that ask for the state of the machine    *)
(* and change it, all at once (pkg/rest/vf). GET /vm/state reads the state *)
(* and then five predicates, one after the other, of a machine that goes   *)
(* on meanwhile. POST /vm/state calls the machine and answers when the     *)
(* call returns, which is when the operation is over.                      *)
(*                                                                         *)
(* vfkit starts the machine once, after the service; no signal stops it,   *)
(* which Vfkit is about. Nobody receives the notifications here: the       *)
(* channel holds any number of them.                                       *)
(***************************************************************************)
EXTENDS VzMachine

CONSTANTS
  Client,
  MaxRequests   \* bound: POST requests

ASSUME MaxRequestsAssumption == MaxRequests \in Nat

VARIABLES
  handler,    \* what the service does for each client
  answer,     \* the state and the predicates that its GET has read
  early,      \* it read the state before the machine was started
  change,     \* what it asked for with POST
  latest,     \* no POST was served since
  caller,     \* whose operation the machine carries out, as a set of at most one
  requested   \* POST requests so far

clientVars == <<handler, answer, early, change, latest>>
vars == <<vzVars, clientVars, caller, requested>>

\* What a client may ask for; "other" is a body that is no JSON or no known state.
Changes == {"Pause", "Resume", "Stop", "HardStop", "other"}

\* CanRequestStop: there is a guest to press the button of.
CanRequestStop == vm = "Running"

\* The predicates in the order they are read in.
Predicates == <<"canStart", "canPause", "canResume", "canStop", "canHardStop">>

Holds(predicate) ==
  CASE predicate = "canStart"    -> CanStart
    [] predicate = "canPause"    -> CanPause
    [] predicate = "canResume"   -> CanResume
    [] predicate = "canStop"     -> CanRequestStop
    [] predicate = "canHardStop" -> CanStop

NoAnswer == [state |-> "none", read |-> 0, offers |-> {}]

Init ==
  /\ VzInit
  /\ handler = [c \in Client |-> "idle"]
  /\ answer = [c \in Client |-> NoAnswer]
  /\ early = [c \in Client |-> FALSE]
  /\ change = [c \in Client |-> "none"]
  /\ latest = [c \in Client |-> FALSE]
  /\ caller = {} /\ requested = 0

------------------------------------------------------------------------------
\* GET /vm/state: the state, ...
GetVMState(c) ==
  /\ handler[c] = "idle"
  /\ handler' = [handler EXCEPT ![c] = "reading"]
  /\ answer' = [answer EXCEPT ![c].state = vm]
  /\ early' = [early EXCEPT ![c] = startResult = "none"]
  /\ UNCHANGED <<vzVars, change, latest, caller, requested>>

\* Slip: the state is read after the predicates.
ReadPredicate_StateLast(c) ==
  /\ handler[c] = "reading"
  /\ answer[c].read < Len(Predicates)
  /\ LET next == Predicates[answer[c].read + 1]
     IN  answer' = [answer EXCEPT ![c] = [state  |-> vm,
                                          read   |-> @.read + 1,
                                          offers |-> @.offers \cup {p \in {next} : Holds(p)}]]
  /\ UNCHANGED <<vzVars, handler, early, change, latest, caller, requested>>

\* ... each predicate, ...
ReadPredicate(c) ==
  /\ handler[c] = "reading"
  /\ answer[c].read < Len(Predicates)
  /\ LET next == Predicates[answer[c].read + 1]
     IN  answer' = [answer EXCEPT ![c] = [state  |-> @.state,
                                          read   |-> @.read + 1,
                                          offers |-> @.offers \cup {p \in {next} : Holds(p)}]]
  /\ UNCHANGED <<vzVars, handler, early, change, latest, caller, requested>>

\* ... and the answer.
AnswerState(c) ==
  /\ handler[c] = "reading"
  /\ answer[c].read = Len(Predicates)
  /\ handler' = [handler EXCEPT ![c] = "answered"]
  /\ UNCHANGED <<vzVars, answer, early, change, latest, caller, requested>>

------------------------------------------------------------------------------
\* POST /vm/state.

Operation(newState) ==
  \/ newState = "Pause" /\ Pause
  \/ newState = "Resume" /\ Resume
  \/ newState = "HardStop" /\ Stop

Refused(newState) ==
  \/ newState = "Pause" /\ ~CanPause
  \/ newState = "Resume" /\ ~CanResume
  \/ newState = "HardStop" /\ ~CanStop
  \/ newState = "Stop" /\ ~CanRequestStop
  \/ newState = "other"

\* Slip: an operation is answered when it has begun.
SetVMState_AtOnce(c, newState) ==
  /\ handler[c] = "idle" /\ requested < MaxRequests
  /\ requested' = requested + 1
  /\ change' = [change EXCEPT ![c] = newState]
  /\ latest' = [b \in Client |-> b = c]
  /\ Operation(newState)
  /\ handler' = [handler EXCEPT ![c] = "accepted"]
  /\ UNCHANGED <<answer, early, caller>>

\* ChangeState: an operation that begins is waited for; RequestStop and a refusal
\* return at once.
SetVMState(c, newState) ==
  /\ handler[c] = "idle" /\ requested < MaxRequests
  /\ requested' = requested + 1
  /\ change' = [change EXCEPT ![c] = newState]
  /\ latest' = [b \in Client |-> b = c]
  /\ \/ /\ Operation(newState)
        /\ handler' = [handler EXCEPT ![c] = "changing"]
        /\ caller' = {c}
     \/ /\ Refused(newState)
        /\ handler' = [handler EXCEPT ![c] = "failed"]
        /\ UNCHANGED <<vzVars, caller>>
     \/ /\ newState = "Stop" /\ CanRequestStop
        /\ handler' = [handler EXCEPT ![c] = "accepted"]
        /\ UNCHANGED <<vzVars, caller>>
  /\ UNCHANGED <<answer, early>>

\* The client has its answer.
Done(c) ==
  /\ handler[c] \in {"answered", "accepted", "failed"}
  /\ handler' = [handler EXCEPT ![c] = "idle"]
  /\ answer' = [answer EXCEPT ![c] = NoAnswer]
  /\ early' = [early EXCEPT ![c] = FALSE]
  /\ change' = [change EXCEPT ![c] = "none"]
  /\ latest' = [latest EXCEPT ![c] = FALSE]
  /\ UNCHANGED <<vzVars, caller, requested>>

------------------------------------------------------------------------------
\* The machine.

\* vfkit starts it.
Start ==
  /\ startResult = "none" /\ StartCalled
  /\ UNCHANGED <<clientVars, caller, requested>>

\* The call of the client returns.
Returns(outcome) ==
  /\ handler' = [c \in Client |-> IF c \in caller THEN outcome ELSE handler[c]]
  /\ caller' = {}

Completes == OperationCompletes /\ Returns("accepted") /\ UNCHANGED <<answer, early, change, latest, requested>>

\* Slip: a call is not returned from when the machine fails.
Fails_Hangs == HypervisorFails /\ caller' = {} /\ UNCHANGED <<clientVars, requested>>

\* Slip: the error that the call returns is dropped.
Fails_ErrorDropped == HypervisorFails /\ Returns("accepted") /\ UNCHANGED <<answer, early, change, latest, requested>>

Fails == HypervisorFails /\ Returns("failed") /\ UNCHANGED <<answer, early, change, latest, requested>>

MachineAlone ==
  /\ StartSucceeds \/ StartFails \/ GuestPowersOff
  /\ UNCHANGED <<clientVars, caller, requested>>

Next ==
  \/ \E c \in Client : GetVMState(c) \/ ReadPredicate(c) \/ AnswerState(c) \/ Done(c)
  \/ \E c \in Client, newState \in Changes : SetVMState(c, newState)
  \/ Start \/ Completes \/ Fails \/ MachineAlone

\* Handlers run, and an operation that the machine began ends.
Fairness ==
  /\ \A c \in Client : WF_vars(ReadPredicate(c)) /\ WF_vars(AnswerState(c))
  /\ WF_vars(Completes)

Spec == Init /\ [][Next]_vars /\ Fairness

------------------------------------------------------------------------------
\* Correctness.

\* An answer that says that the machine has ended offers what that machine offers
\* and nothing else, although the predicates are read later than the state: only
\* an answer about a machine that was not started yet, or that still runs, may mix
\* two states of it.
EndIsConsistent ==
  \A c \in Client :
    handler[c] = "answered" /\ answer[c].state \in Terminal /\ ~early[c] => answer[c].offers = {"canStart"}

Result ==
  [Pause |-> {"Paused", "Error"}, Resume |-> {"Running", "Stopped", "Error"}, HardStop |-> {"Stopped"},
   Stop |-> {"Running", "Stopped", "Error"}, other |-> {}]

\* A client that is told that its change was accepted finds it made, as long as
\* nobody asks for another one, however many asked before and at the same time.
AcceptedIsDone ==
  \A c \in Client : handler[c] = "accepted" /\ latest[c] => vm \in Result[change[c]]

\* An operation that has begun is over when the call to the machine returns.
MachineForClients ==
  CASE vm = "Stopped" -> IF startResult = "none" THEN "off" ELSE "stopped"
    [] vm = "Starting" -> "off"
    [] vm \in {"Running", "Pausing"} -> "running"
    [] vm \in {"Paused", "Resuming"} -> "paused"
    [] vm = "Stopping" -> "closing"
    [] vm = "Error" -> "failed"

Posting(c) == handler[c] \in {"changing", "accepted", "failed"}

Atomic == INSTANCE AtomicChanges WITH
  machine <- MachineForClients,
  request <- [c \in Client |-> IF Posting(c) THEN change[c] ELSE "none"],
  reply <- [c \in Client |-> IF Posting(c) THEN handler[c] ELSE "idle"]

\* The requests of all clients take effect one after the other: what is accepted is
\* made when its client is told, nobody else's change comes between, and what is
\* refused, for another change or for the state of the machine, changes nothing.
\* The service has no lock for this; it relies on the call to the machine to return
\* when the operation is over, and on CanPause, CanResume and CanStop until then.
ChangesAreAtomic == Atomic!Spec

\* Every request is answered, also when the machine fails while it is served.
Answered ==
  \A c \in Client : handler[c] \in {"reading", "changing"} ~> handler[c] \notin {"reading", "changing"}
================================================================================
