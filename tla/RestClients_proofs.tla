--------------------------- MODULE RestClients_proofs ---------------------------
(***************************************************************************)
(* Theorems about the clients of the RESTful service, for every set of     *)
(* clients and every number of requests.                                   *)
(***************************************************************************)
EXTENDS RestClients, TLAPS

Handlers == {"idle", "reading", "answered", "changing", "accepted", "failed"}

Offered == {"canStart", "canPause", "canResume", "canStop", "canHardStop"}

TypeOK ==
  /\ vm \in VMState
  /\ startResult \in {"none", "pending", "ok", "err"}
  /\ handler \in [Client -> Handlers]
  /\ answer \in [Client -> [state : VMState \cup {"none"}, read : 0 .. 5, offers : SUBSET Offered]]
  /\ early \in [Client -> BOOLEAN]
  /\ change \in [Client -> Changes \cup {"none"}]
  /\ latest \in [Client -> BOOLEAN]
  /\ caller \subseteq Client

\* The machine is Stopped until it is started, and nothing was accepted before.
Untouched ==
  startResult = "none" =>
    /\ vm = "Stopped"
    /\ \A c \in Client : handler[c] \notin {"changing", "accepted"}

\* A GET that read a final state finds the machine in a final state, and so all
\* that it has read so far is of that state.
ReadsTheEnd ==
  \A c \in Client :
    handler[c] \in {"reading", "answered"} /\ answer[c].state \in Terminal /\ ~early[c] =>
      /\ vm \in Terminal /\ startResult # "none"
      /\ answer[c].offers = IF answer[c].read = 0 THEN {} ELSE {"canStart"}

\* An answer is complete, and one that was not begun is empty.
ReadsAll ==
  \A c \in Client :
    /\ handler[c] = "answered" => answer[c].read = 5
    /\ handler[c] \notin {"reading", "answered"} => answer[c] = NoAnswer

\* The operation that the machine carries out is the one its caller asked for.
Carries ==
  /\ \A c \in Client : c \in caller <=> handler[c] = "changing"
  /\ \A c, d \in caller : c = d
  /\ \A c \in caller :
       \/ change[c] = "Pause" /\ vm = "Pausing"
       \/ change[c] = "Resume" /\ vm = "Resuming"
       \/ change[c] = "HardStop" /\ vm = "Stopping"
  /\ vm \in {"Pausing", "Resuming", "Stopping"} => caller # {}
  /\ \A c \in Client : handler[c] \in {"changing", "accepted", "failed"} => change[c] \in Changes

IInv == TypeOK /\ Untouched /\ ReadsTheEnd /\ ReadsAll /\ Carries /\ AcceptedIsDone

LEMMA InitEstablishes == Init => IInv
BY DEF Init, VzInit, IInv, TypeOK, Untouched, ReadsTheEnd, ReadsAll, Carries, AcceptedIsDone, NoAnswer,
       Handlers, VMState, Terminal

\* A GET reads the machine and changes nothing but its answer.
LEMMA GetKeeps ==
  ASSUME IInv, NEW c \in Client, GetVMState(c) \/ ReadPredicate(c) \/ AnswerState(c) \/ Done(c)
  PROVE  IInv'
<1> USE DEF IInv
<1>1. UNCHANGED <<vm, startResult, caller>>
  BY DEF GetVMState, ReadPredicate, AnswerState, Done, vzVars
<1>2. Len(Predicates) = 5 /\ Predicates[1] = "canStart"
  BY DEF Predicates
<1>3. CASE GetVMState(c)
  <2> DEFINE isNone == startResult = "none"
  <2>a. isNone \in BOOLEAN
    OBVIOUS
  <2>b. early' = [early EXCEPT ![c] = isNone]
    BY <1>3 DEF GetVMState
  <2> HIDE DEF isNone
  <2>c. early' \in [Client -> BOOLEAN]
    BY <2>a, <2>b DEF TypeOK
  <2>d. answer'[c] = [answer[c] EXCEPT !.state = vm] /\ \A b \in Client \ {c} : answer'[b] = answer[b]
    BY <1>3 DEF GetVMState, TypeOK
  <2>e. answer' \in [Client -> [state : VMState \cup {"none"}, read : 0 .. 5, offers : SUBSET Offered]]
    BY <1>3 DEF GetVMState, TypeOK
  <2>1. TypeOK' /\ ReadsAll'
    <3>1. TypeOK'
      BY <1>1, <1>3, <2>c, <2>e DEF GetVMState, TypeOK, Handlers
    <3>2. ReadsAll'
      BY <1>3, <2>d DEF GetVMState, TypeOK, ReadsAll
    <3> QED
      BY <3>1, <3>2
  <2>2. Untouched' /\ Carries' /\ AcceptedIsDone'
    BY <1>1, <1>3 DEF GetVMState, TypeOK, Untouched, Carries, AcceptedIsDone
  <2>3. ReadsTheEnd'
    <3> SUFFICES ASSUME NEW b \in Client,
                        (handler[b] \in {"reading", "answered"} /\ answer[b].state \in Terminal /\ ~early[b])'
                 PROVE  /\ vm \in Terminal /\ startResult # "none"
                        /\ answer'[b].offers = IF answer'[b].read = 0 THEN {} ELSE {"canStart"}
      BY <1>1 DEF ReadsTheEnd
    <3>1. CASE b # c
      BY <1>1, <1>3, <2>d, <3>1 DEF GetVMState, TypeOK, ReadsTheEnd
    <3>2. CASE b = c
      <4>1. answer'[c].state = vm /\ answer'[c].read = answer[c].read /\ answer'[c].offers = answer[c].offers
        BY <2>d DEF TypeOK
      <4>2. answer[c].read = 0 /\ answer[c].offers = {}
        BY <1>3 DEF GetVMState, ReadsAll, NoAnswer
      <4>3. early'[c] = isNone
        BY <2>b DEF TypeOK
      <4>4. startResult # "none"
        BY <3>2, <4>3 DEF isNone
      <4> QED
        BY <3>2, <4>1, <4>2, <4>4
    <3> QED
      BY <3>1, <3>2
  <2> QED
    BY <2>1, <2>2, <2>3
<1>4. CASE ReadPredicate(c)
  <2> DEFINE next == Predicates[answer[c].read + 1]
  <2> DEFINE offers == answer[c].offers \cup {p \in {next} : Holds(p)}
  <2>1. /\ handler[c] = "reading" /\ answer[c].read \in 0 .. 4
        /\ answer' = [answer EXCEPT ![c] = [state |-> answer[c].state, read |-> answer[c].read + 1, offers |-> offers]]
        /\ UNCHANGED <<handler, early, change, latest>>
    BY <1>2, <1>4 DEF ReadPredicate, TypeOK
  <2>2. next \in Offered
    BY <2>1 DEF Predicates, Offered
  <2>a. Holds(next) => offers = answer[c].offers \cup {next}
    OBVIOUS
  <2>b. ~Holds(next) => offers = answer[c].offers
    OBVIOUS
  <2> HIDE DEF next
  <2>c. offers \in SUBSET Offered /\ answer[c].read + 1 \in 0 .. 5
    BY <2>1, <2>2 DEF TypeOK
  <2> HIDE DEF offers
  <2>3. TypeOK'
    BY <1>1, <2>1, <2>c DEF TypeOK
  <2>4. Untouched' /\ Carries' /\ AcceptedIsDone'
    BY <1>1, <2>1 DEF Untouched, Carries, AcceptedIsDone
  <2>5. ReadsAll'
    BY <2>1 DEF TypeOK, ReadsAll
  <2>6. ReadsTheEnd'
    <3>1. vm \in Terminal => (Holds(next) <=> next = "canStart")
      BY <2>2 DEF Holds, Offered, Terminal, CanStart, CanPause, CanResume, CanRequestStop, CanStop
    <3>2. answer[c].read = 0 => next = "canStart"
      BY <1>2 DEF next
    <3>3. answer[c].read # 0 => next # "canStart"
      BY <2>1 DEF next, Predicates
    <3>4. answer'[c].state = answer[c].state /\ answer'[c].read # 0 /\ answer'[c].offers = offers
      BY <2>1 DEF TypeOK
    <3>5. \A b \in Client \ {c} : answer'[b] = answer[b]
      BY <2>1 DEF TypeOK
    <3> SUFFICES ASSUME NEW b \in Client,
                        (handler[b] \in {"reading", "answered"} /\ answer[b].state \in Terminal /\ ~early[b])'
                 PROVE  /\ vm \in Terminal /\ startResult # "none"
                        /\ answer'[b].offers = IF answer'[b].read = 0 THEN {} ELSE {"canStart"}
      BY <1>1 DEF ReadsTheEnd
    <3>6. CASE b # c
      BY <2>1, <3>5, <3>6 DEF ReadsTheEnd
    <3>7. CASE b = c
      <4>1. /\ vm \in Terminal /\ startResult # "none"
            /\ answer[c].offers = IF answer[c].read = 0 THEN {} ELSE {"canStart"}
        BY <2>1, <3>4, <3>7 DEF ReadsTheEnd
      <4>2. offers = {"canStart"}
        BY <2>a, <2>b, <3>1, <3>2, <3>3, <4>1
      <4> QED
        BY <3>4, <3>7, <4>1, <4>2
    <3> QED
      BY <3>6, <3>7
  <2> QED
    BY <2>3, <2>4, <2>5, <2>6
<1>5. CASE AnswerState(c)
  BY <1>1, <1>2, <1>5 DEF AnswerState, TypeOK, Handlers, Untouched, ReadsTheEnd, ReadsAll, Carries, AcceptedIsDone
<1>6. CASE Done(c)
  <2>1. TypeOK' /\ ReadsAll'
    BY <1>1, <1>6 DEF Done, TypeOK, Handlers, ReadsAll, NoAnswer
  <2>2. Untouched' /\ ReadsTheEnd' /\ Carries' /\ AcceptedIsDone'
    BY <1>1, <1>6 DEF Done, TypeOK, Untouched, ReadsTheEnd, Carries, AcceptedIsDone
  <2> QED
    BY <2>1, <2>2
<1> QED
  BY <1>3, <1>4, <1>5, <1>6

\* A POST is the latest, and its operation the only one.
LEMMA PostKeeps ==
  ASSUME IInv, NEW c \in Client, NEW newState \in Changes, SetVMState(c, newState)
  PROVE  IInv'
<1> USE DEF IInv
<1>1. /\ handler[c] = "idle"
      /\ change' = [change EXCEPT ![c] = newState]
      /\ latest' = [b \in Client |-> b = c]
      /\ UNCHANGED <<answer, early>>
  BY DEF SetVMState
<1>2. CASE Operation(newState) /\ handler' = [handler EXCEPT ![c] = "changing"] /\ caller' = {c}
  <2>1. /\ vm \in {"Running", "Paused"} /\ UNCHANGED startResult /\ caller = {}
        /\ \/ newState = "Pause" /\ vm' = "Pausing"
           \/ newState = "Resume" /\ vm' = "Resuming"
           \/ newState = "HardStop" /\ vm' = "Stopping"
    BY <1>2 DEF Operation, Pause, Resume, Stop, CanPause, CanResume, CanStop, Enter, Carries
  <2>2. TypeOK'
    BY <1>1, <1>2, <2>1 DEF TypeOK, Handlers, VMState, Changes
  <2>3. Untouched' /\ ReadsTheEnd' /\ ReadsAll'
    BY <1>1, <1>2, <2>1 DEF TypeOK, Untouched, ReadsTheEnd, ReadsAll, Terminal
  <2>4. Carries'
    BY <1>1, <1>2, <2>1 DEF TypeOK, Carries, Changes
  <2>5. AcceptedIsDone'
    BY <1>1, <1>2 DEF TypeOK, AcceptedIsDone
  <2> QED
    BY <2>2, <2>3, <2>4, <2>5
<1>3. CASE /\ \/ handler' = [handler EXCEPT ![c] = "failed"]
              \/ handler' = [handler EXCEPT ![c] = "accepted"] /\ newState = "Stop" /\ CanRequestStop
           /\ UNCHANGED <<vzVars, caller>>
  <2>1. TypeOK'
    BY <1>1, <1>3 DEF TypeOK, Handlers, vzVars
  <2>2. Untouched' /\ ReadsTheEnd' /\ ReadsAll'
    BY <1>1, <1>3 DEF TypeOK, Untouched, ReadsTheEnd, ReadsAll, CanRequestStop, vzVars
  <2>3. Carries'
    BY <1>1, <1>3 DEF TypeOK, Carries, vzVars
  <2>4. AcceptedIsDone'
    BY <1>1, <1>3 DEF TypeOK, AcceptedIsDone, Result, CanRequestStop, vzVars
  <2> QED
    BY <2>1, <2>2, <2>3, <2>4
<1> QED
  BY <1>2, <1>3 DEF SetVMState

\* No change has been made while the machine carries one out.
LEMMA NoOperationIsAResult ==
  \A newState \in Changes : Result[newState] \cap {"Pausing", "Resuming", "Stopping"} = {}
BY DEF Changes, Result

\* Whatever the machine does, it does not leave a final state.
LEMMA MachineKeeps ==
  ASSUME IInv, Start \/ Completes \/ Fails \/ MachineAlone
  PROVE  IInv'
<1> USE DEF IInv, Enter
<1>1. UNCHANGED <<answer, early, change, latest>>
  BY DEF Start, Completes, Fails, MachineAlone, clientVars
<1>2. CASE Start
  <2>1. vm' = "Starting" /\ startResult' = "pending" /\ startResult = "none" /\ UNCHANGED <<handler, caller>>
    BY <1>2 DEF Start, StartCalled, clientVars
  <2> QED
    BY <1>1, <2>1 DEF TypeOK, Untouched, ReadsTheEnd, ReadsAll, Carries, AcceptedIsDone, VMState, Terminal
<1>3. CASE MachineAlone
  <2>1. /\ UNCHANGED <<handler, caller>>
        /\ \/ vm = "Starting" /\ vm' \in Terminal \cup {"Running"} /\ startResult' \in {"ok", "err"}
           \/ vm = "Running" /\ vm' = "Stopped" /\ UNCHANGED startResult
    BY <1>3 DEF MachineAlone, StartSucceeds, StartFails, GuestPowersOff, clientVars
  <2>2. TypeOK' /\ Untouched' /\ ReadsAll' /\ Carries'
    BY <1>1, <2>1 DEF TypeOK, Untouched, ReadsAll, Carries, VMState, Terminal
  <2>3. ReadsTheEnd'
    BY <1>1, <2>1 DEF TypeOK, ReadsTheEnd, Terminal
  <2>4. AcceptedIsDone'
    BY <1>1, <2>1 DEF TypeOK, AcceptedIsDone, Carries, Result, Changes
  <2> QED
    BY <2>2, <2>3, <2>4
<1>4. ASSUME NEW outcome \in {"accepted", "failed"}, Returns(outcome), UNCHANGED startResult, startResult # "none",
             vm \notin Terminal, vm' \in VMState, vm' \notin {"Pausing", "Resuming", "Stopping"},
             \A c \in Client : handler'[c] = "accepted" /\ latest[c] => vm' \in Result[change[c]]
      PROVE  IInv'
  <2>1. TypeOK' /\ Untouched' /\ ReadsAll' /\ Carries'
    BY <1>1, <1>4 DEF Returns, TypeOK, Untouched, ReadsAll, Carries, Handlers
  <2>2. ReadsTheEnd'
    BY <1>1, <1>4 DEF Returns, TypeOK, ReadsTheEnd, Carries
  <2>3. AcceptedIsDone'
    BY <1>1, <1>4 DEF AcceptedIsDone
  <2> QED
    BY <2>1, <2>2, <2>3
<1>5. CASE Completes
  <2>1. /\ Returns("accepted") /\ UNCHANGED startResult
        /\ \/ vm = "Pausing" /\ vm' = "Paused"
           \/ vm = "Resuming" /\ vm' = "Running"
           \/ vm = "Stopping" /\ vm' = "Stopped"
    BY <1>5 DEF Completes, OperationCompletes
  <2>2. startResult # "none" /\ vm \notin Terminal /\ vm' \in VMState /\ vm' \notin {"Pausing", "Resuming", "Stopping"}
    BY <2>1 DEF Untouched, Terminal, VMState
  <2>3. ASSUME NEW c \in Client, handler'[c] = "accepted", latest[c] PROVE vm' \in Result[change[c]]
    <3>1. CASE c \in caller
      BY <2>1, <3>1 DEF Carries, Result
    <3>2. CASE c \notin caller
      <4>1. handler[c] = "accepted"
        BY <2>1, <2>3, <3>2 DEF Returns
      <4>2. vm \in Result[change[c]] /\ change[c] \in Changes
        BY <2>3, <4>1 DEF AcceptedIsDone, Carries
      <4> QED
        BY <2>1, <4>2, NoOperationIsAResult
    <3> QED
      BY <3>1, <3>2
  <2> QED
    BY <1>4, <2>1, <2>2, <2>3
<1>6. CASE Fails
  <2>1. /\ Returns("failed") /\ UNCHANGED startResult /\ vm' = "Error"
        /\ vm \in VMState \ (Terminal \cup {"Starting"})
    BY <1>6 DEF Fails, HypervisorFails
  <2>2. startResult # "none" /\ vm \notin Terminal /\ vm' \in VMState /\ vm' \notin {"Pausing", "Resuming", "Stopping"}
    BY <2>1 DEF Untouched, Terminal, VMState
  <2>3. ASSUME NEW c \in Client, handler'[c] = "accepted", latest[c] PROVE vm' \in Result[change[c]]
    BY <2>1, <2>3 DEF Returns, TypeOK, AcceptedIsDone, Carries, Result, Changes, VMState, Terminal
  <2> QED
    BY <1>4, <2>1, <2>2, <2>3
<1> QED
  BY <1>2, <1>3, <1>5, <1>6

LEMMA StepKeeps == IInv /\ [Next]_vars => IInv'
<1> SUFFICES ASSUME IInv, [Next]_vars PROVE IInv'
  OBVIOUS
<1>1. CASE UNCHANGED vars
  BY <1>1 DEF vars, vzVars, clientVars, IInv, TypeOK, Untouched, ReadsTheEnd, ReadsAll, Carries, AcceptedIsDone
<1>2. CASE Next
  BY <1>2, GetKeeps, PostKeeps, MachineKeeps DEF Next
<1> QED
  BY <1>1, <1>2

LEMMA Invariance == Spec => []IInv
<1>1. Init => IInv
  BY InitEstablishes
<1>2. IInv /\ [Next]_vars => IInv'
  BY StepKeeps
<1> QED
  BY <1>1, <1>2, PTL DEF Spec

\* An answer of GET /vm/state that says that the machine has ended is consistent,
\* although its parts are read one after the other (vm_config.go:28-36).
THEOREM EndsAreConsistent == Spec => []EndIsConsistent
<1>1. IInv => EndIsConsistent
  BY DEF IInv, ReadsTheEnd, ReadsAll, EndIsConsistent
<1> QED
  BY <1>1, Invariance, PTL

\* A change that was accepted last has been made (state_change.go).
THEOREM AcceptedChangesAreDone == Spec => []AcceptedIsDone
<1>1. IInv => AcceptedIsDone
  BY DEF IInv
<1> QED
  BY <1>1, Invariance, PTL

------------------------------------------------------------------------------
\* The refinement of AtomicChanges.

Reply(c) == IF Posting(c) THEN handler[c] ELSE "idle"
Request(c) == IF Posting(c) THEN change[c] ELSE "none"

\* The abstract variables, and what each step says of them, client by client.
LEMMA AtomicMeans ==
  /\ Atomic!vars = <<MachineForClients, [c \in Client |-> Request(c)], [c \in Client |-> Reply(c)]>>
  /\ Atomic!Busy <=> \E c \in Client : handler[c] = "changing"
<1>1. \A c \in Client : Reply(c) = "changing" <=> handler[c] = "changing"
  BY DEF Reply, Posting
<1> QED
  BY <1>1 DEF Atomic!vars, Atomic!Busy, Reply, Request, Posting

LEMMA AtomicInit == Init => Atomic!Init
<1> SUFFICES ASSUME Init PROVE Atomic!Init
  OBVIOUS
<1>1. \A c \in Client : ~Posting(c)
  BY DEF Init, Posting
<1>2. MachineForClients = "off"
  BY DEF Init, VzInit, MachineForClients
<1> QED
  BY <1>1, <1>2 DEF Atomic!Init

\* The machine as the clients see it, state by state.
LEMMA MachineIs ==
  /\ vm = "Stopped" => MachineForClients = IF startResult = "none" THEN "off" ELSE "stopped"
  /\ vm = "Starting" => MachineForClients = "off"
  /\ vm \in {"Running", "Pausing"} => MachineForClients = "running"
  /\ vm \in {"Paused", "Resuming"} => MachineForClients = "paused"
  /\ vm = "Stopping" => MachineForClients = "closing"
  /\ vm = "Error" => MachineForClients = "failed"
BY DEF MachineForClients

LEMMA MachineWillBe ==
  /\ vm' = "Stopped" => MachineForClients' = IF startResult' = "none" THEN "off" ELSE "stopped"
  /\ vm' = "Starting" => MachineForClients' = "off"
  /\ vm' \in {"Running", "Pausing"} => MachineForClients' = "running"
  /\ vm' \in {"Paused", "Resuming"} => MachineForClients' = "paused"
  /\ vm' = "Stopping" => MachineForClients' = "closing"
  /\ vm' = "Error" => MachineForClients' = "failed"
BY DEF MachineForClients

\* A step that leaves the machine and the POST requests alone is none of AtomicChanges.
LEMMA AtomicStutters ==
  ASSUME UNCHANGED <<vm, startResult>>,
         \A c \in Client : Reply(c)' = Reply(c) /\ Request(c)' = Request(c)
  PROVE  UNCHANGED Atomic!vars
<1>1. MachineForClients' = MachineForClients
  BY DEF MachineForClients
<1>2. /\ [c \in Client |-> Request(c)]' = [c \in Client |-> Request(c)]
      /\ [c \in Client |-> Reply(c)]' = [c \in Client |-> Reply(c)]
  OBVIOUS
<1> QED
  BY <1>1, <1>2 DEF Atomic!vars, Request, Reply

\* A GET is no change, and a client that has its answer leaves.
LEMMA GetIsNoChange ==
  ASSUME IInv, NEW c \in Client, GetVMState(c) \/ ReadPredicate(c) \/ AnswerState(c)
  PROVE  UNCHANGED Atomic!vars
<1>1. UNCHANGED <<vm, startResult, change>>
  BY DEF GetVMState, ReadPredicate, AnswerState, vzVars
<1>2. ASSUME NEW b \in Client PROVE (Posting(b)' <=> Posting(b)) /\ (Posting(b) => handler'[b] = handler[b])
  BY DEF IInv, TypeOK, GetVMState, ReadPredicate, AnswerState, Posting
<1>3. \A b \in Client : Reply(b)' = Reply(b) /\ Request(b)' = Request(b)
  BY <1>1, <1>2 DEF Reply, Request
<1> QED
  BY <1>1, <1>3, AtomicStutters

\* What AtomicChanges says of one client, from what the service does for it.
LEMMA OneClient ==
  ASSUME TypeOK, NEW c \in Client, NEW h \in Handlers, NEW w,
         handler' = [handler EXCEPT ![c] = h], change' = [change EXCEPT ![c] = w]
  PROVE  /\ h \in {"changing", "accepted", "failed"} =>
              /\ [b \in Client |-> Reply(b)]' = [[b \in Client |-> Reply(b)] EXCEPT ![c] = h]
              /\ [b \in Client |-> Request(b)]' = [[b \in Client |-> Request(b)] EXCEPT ![c] = w]
         /\ h = "idle" =>
              /\ [b \in Client |-> Reply(b)]' = [[b \in Client |-> Reply(b)] EXCEPT ![c] = "idle"]
              /\ [b \in Client |-> Request(b)]' = [[b \in Client |-> Request(b)] EXCEPT ![c] = "none"]
<1>1. /\ h \in {"changing", "accepted", "failed"} => Reply(c)' = h /\ Request(c)' = w
      /\ h = "idle" => Reply(c)' = "idle" /\ Request(c)' = "none"
  BY DEF TypeOK, Reply, Request, Posting
<1>2. \A b \in Client \ {c} : Reply(b)' = Reply(b) /\ Request(b)' = Request(b)
  BY DEF TypeOK, Reply, Request, Posting
<1>3. ASSUME NEW x, Reply(c)' = x
      PROVE  [b \in Client |-> Reply(b)]' = [[b \in Client |-> Reply(b)] EXCEPT ![c] = x]
  BY <1>2, <1>3
<1>4. ASSUME NEW x, Request(c)' = x
      PROVE  [b \in Client |-> Request(b)]' = [[b \in Client |-> Request(b)] EXCEPT ![c] = x]
  BY <1>2, <1>4
<1> QED
  BY <1>1, <1>3, <1>4

LEMMA DoneLeaves ==
  ASSUME IInv, NEW c \in Client, Done(c)
  PROVE  [Atomic!Next]_(Atomic!vars)
<1>1. UNCHANGED <<vm, startResult>>
  BY DEF Done, vzVars
<1>2. MachineForClients' = MachineForClients
  BY <1>1 DEF MachineForClients
<1>3. CASE handler[c] = "answered"
  <2>1. \A b \in Client : Reply(b)' = Reply(b) /\ Request(b)' = Request(b)
    BY <1>3 DEF IInv, TypeOK, Done, Reply, Request, Posting
  <2> QED
    BY <1>1, <2>1, AtomicStutters
<1>4. CASE handler[c] \in {"accepted", "failed"}
  <2>1. Reply(c) \in {"accepted", "failed"}
    BY <1>4 DEF Reply, Posting
  <2>2. /\ [b \in Client |-> Reply(b)]' = [[b \in Client |-> Reply(b)] EXCEPT ![c] = "idle"]
        /\ [b \in Client |-> Request(b)]' = [[b \in Client |-> Request(b)] EXCEPT ![c] = "none"]
    BY OneClient DEF Done, IInv, Handlers
  <2>3. Atomic!Leave(c)
    BY <1>2, <2>1, <2>2 DEF Atomic!Leave, Atomic!Tell, Reply, Request
  <2> QED
    BY <2>3 DEF Atomic!Next
<1> QED
  BY <1>3, <1>4 DEF Done

\* A POST begins a change that nobody else's is in the way of, or is refused.
LEMMA PostAsks ==
  ASSUME IInv, NEW c \in Client, NEW newState \in Changes, SetVMState(c, newState)
  PROVE  Atomic!Next
<1>1. handler[c] = "idle" /\ change' = [change EXCEPT ![c] = newState] /\ Reply(c) = "idle"
  BY DEF SetVMState, Reply, Posting
<1>2. vm \in {"Running", "Paused"} => ~Atomic!Busy
  BY AtomicMeans DEF IInv, Carries
<1>3. vm \in {"Pausing", "Resuming", "Stopping"} => Atomic!Busy
  BY AtomicMeans DEF IInv, TypeOK, Carries
<1>4. CASE Operation(newState) /\ handler' = [handler EXCEPT ![c] = "changing"]
  <2>1. /\ ~Atomic!Busy /\ newState \in DOMAIN Atomic!Made /\ Atomic!Allowed(newState)
        /\ MachineForClients' = IF newState = "HardStop" THEN "closing" ELSE MachineForClients
    <3>1. /\ vm \in {"Running", "Paused"}
          /\ \/ newState = "Pause" /\ vm = "Running" /\ vm' = "Pausing"
             \/ newState = "Resume" /\ vm = "Paused" /\ vm' = "Resuming"
             \/ newState = "HardStop" /\ vm' = "Stopping"
      BY <1>4 DEF Operation, Pause, Resume, Stop, CanPause, CanResume, CanStop, Enter
    <3> QED
      BY <1>2, <3>1, MachineIs, MachineWillBe DEF Atomic!Made, Atomic!Allowed
  <2>2. /\ [b \in Client |-> Reply(b)]' = [[b \in Client |-> Reply(b)] EXCEPT ![c] = "changing"]
        /\ [b \in Client |-> Request(b)]' = [[b \in Client |-> Request(b)] EXCEPT ![c] = newState]
    BY <1>1, <1>4, OneClient DEF IInv, Handlers
  <2>3. Atomic!Begin(c, newState)
    BY <1>1, <2>1, <2>2 DEF Atomic!Begin, Atomic!Ask, Atomic!Tell, Reply, Request
  <2> QED
    BY <2>3 DEF Atomic!Next, Changes
<1>5. CASE Refused(newState) /\ handler' = [handler EXCEPT ![c] = "failed"] /\ UNCHANGED vzVars
  <2>1. MachineForClients' = MachineForClients
    BY <1>5 DEF vzVars, MachineForClients
  <2>2. Atomic!Busy \/ ~Atomic!Allowed(newState)
    <3>1. \/ newState \in {"Pause", "Stop"} /\ vm # "Running"
          \/ newState = "Resume" /\ vm # "Paused"
          \/ newState = "HardStop" /\ vm \notin {"Running", "Paused"}
          \/ newState = "other"
      BY <1>5 DEF Refused, CanPause, CanResume, CanStop, CanRequestStop
    <3> QED
      BY <1>3, <3>1, MachineIs DEF Atomic!Allowed, IInv, TypeOK, VMState, Terminal
  <2>3. /\ [b \in Client |-> Reply(b)]' = [[b \in Client |-> Reply(b)] EXCEPT ![c] = "failed"]
        /\ [b \in Client |-> Request(b)]' = [[b \in Client |-> Request(b)] EXCEPT ![c] = newState]
    BY <1>1, <1>5, OneClient DEF IInv, Handlers
  <2>4. Atomic!Refuse(c, newState)
    BY <1>1, <2>1, <2>2, <2>3 DEF Atomic!Refuse, Atomic!Ask, Atomic!Tell, Reply, Request
  <2> QED
    BY <2>4 DEF Atomic!Next, Changes
<1>6. CASE newState = "Stop" /\ CanRequestStop /\ handler' = [handler EXCEPT ![c] = "accepted"] /\ UNCHANGED vzVars
  <2>1. MachineForClients' = MachineForClients
    BY <1>6 DEF vzVars, MachineForClients
  <2>2. ~Atomic!Busy /\ Atomic!Allowed("Stop")
    BY <1>2, <1>6, MachineIs DEF CanRequestStop, Atomic!Allowed
  <2>3. /\ [b \in Client |-> Reply(b)]' = [[b \in Client |-> Reply(b)] EXCEPT ![c] = "accepted"]
        /\ [b \in Client |-> Request(b)]' = [[b \in Client |-> Request(b)] EXCEPT ![c] = "Stop"]
    BY <1>1, <1>6, OneClient DEF IInv, Handlers
  <2>4. Atomic!PressButton(c)
    BY <1>1, <2>1, <2>2, <2>3 DEF Atomic!PressButton, Atomic!Ask, Atomic!Tell, Reply, Request
  <2> QED
    BY <2>4 DEF Atomic!Next
<1> QED
  BY <1>4, <1>5, <1>6 DEF SetVMState

\* A change is made when the call of its client returns.
LEMMA CompletionMakes ==
  ASSUME IInv, Completes
  PROVE  Atomic!Next
<1>1. /\ vm \in {"Pausing", "Resuming", "Stopping"} /\ UNCHANGED <<startResult, change>> /\ Returns("accepted")
      /\ vm = "Pausing" => vm' = "Paused"
      /\ vm = "Resuming" => vm' = "Running"
      /\ vm = "Stopping" => vm' = "Stopped"
  BY DEF Completes, OperationCompletes, Enter
<1>2. startResult # "none"
  BY <1>1 DEF IInv, Untouched
<1>3. PICK c \in caller : TRUE
  BY <1>1 DEF IInv, Carries
<1>4. c \in Client /\ caller = {c} /\ handler[c] = "changing"
  BY <1>3 DEF IInv, Carries, TypeOK
<1>5. MachineForClients' = Atomic!Made[change[c]]
  <2>1. \/ change[c] = "Pause" /\ vm' = "Paused"
        \/ change[c] = "Resume" /\ vm' = "Running"
        \/ change[c] = "HardStop" /\ vm' = "Stopped"
    BY <1>1, <1>3 DEF IInv, Carries
  <2> QED
    BY <1>1, <1>2, <2>1, MachineWillBe DEF Atomic!Made
<1>6. /\ handler' = [handler EXCEPT ![c] = "accepted"]
      /\ change' = [change EXCEPT ![c] = change[c]]
  BY <1>1, <1>4 DEF Returns, IInv, TypeOK
<1>7. Reply(c) = "changing" /\ Request(c) = change[c]
  BY <1>4 DEF Reply, Request, Posting
<1>8. PICK w : w = change[c]
  OBVIOUS
<1>9. /\ [b \in Client |-> Reply(b)]' = [[b \in Client |-> Reply(b)] EXCEPT ![c] = "accepted"]
      /\ [b \in Client |-> Request(b)]' = [[b \in Client |-> Request(b)] EXCEPT ![c] = w]
  BY <1>4, <1>6, <1>8, OneClient DEF IInv, Handlers
<1>10. [b \in Client |-> Request(b)]' = [b \in Client |-> Request(b)]
  BY <1>4, <1>7, <1>8, <1>9
<1>11. Atomic!Make(c)
  BY <1>4, <1>5, <1>7, <1>9, <1>10 DEF Atomic!Make, Atomic!Tell, Reply, Request
<1> QED
  BY <1>4, <1>11 DEF Atomic!Next

\* A machine that fails fails the change that it was carrying out.
LEMMA FailureBreaks ==
  ASSUME IInv, Fails
  PROVE  Atomic!Next
<1>1. /\ vm \in VMState \ (Terminal \cup {"Starting"}) /\ vm' = "Error" /\ UNCHANGED change /\ Returns("failed")
  BY DEF Fails, HypervisorFails, Enter
<1>2. Atomic!Up /\ MachineForClients' = "failed"
  BY <1>1, MachineIs, MachineWillBe DEF Atomic!Up, VMState, Terminal
<1>3. ASSUME NEW c \in Client
      PROVE  /\ Reply(c)' = IF Reply(c) = "changing" THEN "failed" ELSE Reply(c)
             /\ Request(c)' = Request(c)
  BY <1>1 DEF Returns, IInv, Carries, Reply, Request, Posting
<1>4. /\ [c \in Client |-> Reply(c)]'
           = [c \in Client |-> IF [b \in Client |-> Reply(b)][c] = "changing" THEN "failed" ELSE [b \in Client |-> Reply(b)][c]]
      /\ [c \in Client |-> Request(c)]' = [c \in Client |-> Request(c)]
  BY <1>3
<1>5. Atomic!Break
  BY <1>2, <1>4 DEF Atomic!Break, Reply, Request
<1> QED
  BY <1>5 DEF Atomic!Next

\* What the machine does on its own is to go on or off.
LEMMA MachineGoesOnOrOff ==
  ASSUME IInv, Start \/ MachineAlone
  PROVE  [Atomic!Next]_(Atomic!vars)
<1>1. UNCHANGED <<handler, change>>
  BY DEF Start, MachineAlone, clientVars
<1>2. \A c \in Client : Reply(c)' = Reply(c) /\ Request(c)' = Request(c)
  BY <1>1 DEF Reply, Request, Posting
<1>3. /\ [c \in Client |-> Reply(c)]' = [c \in Client |-> Reply(c)]
      /\ [c \in Client |-> Request(c)]' = [c \in Client |-> Request(c)]
  BY <1>2
<1>4. CASE Start
  <2>1. MachineForClients = "off" /\ MachineForClients' = "off"
    BY <1>4, MachineIs, MachineWillBe DEF Start, StartCalled, Enter, IInv, Untouched
  <2> QED
    BY <1>3, <2>1 DEF Atomic!vars, Reply, Request
<1>5. CASE StartSucceeds \/ StartFails
  <2>1. MachineForClients = "off" /\ MachineForClients' \in {"running", "stopped", "failed"}
    BY <1>5, MachineIs, MachineWillBe DEF StartSucceeds, StartFails, Enter, Terminal
  <2>2. Atomic!PowerOn
    BY <1>3, <2>1 DEF Atomic!PowerOn, Reply, Request
  <2> QED
    BY <2>2 DEF Atomic!Next
<1>6. CASE GuestPowersOff
  <2>1. vm = "Running" /\ vm' = "Stopped" /\ UNCHANGED startResult /\ startResult # "none"
    BY <1>6 DEF GuestPowersOff, Enter, IInv, Untouched
  <2>2. MachineForClients = "running" /\ MachineForClients' = "stopped"
    BY <2>1, MachineIs, MachineWillBe
  <2>3. ~Atomic!Busy
    BY <2>1, AtomicMeans DEF IInv, Carries
  <2>4. Atomic!PowerOff
    BY <1>3, <2>2, <2>3 DEF Atomic!PowerOff, Reply, Request
  <2> QED
    BY <2>4 DEF Atomic!Next
<1> QED
  BY <1>4, <1>5, <1>6 DEF MachineAlone

\* Every step is one of clients whose changes are atomic, or none.
LEMMA AtomicStep == IInv /\ [Next]_vars => [Atomic!Next]_(Atomic!vars)
<1> SUFFICES ASSUME IInv, [Next]_vars PROVE [Atomic!Next]_(Atomic!vars)
  OBVIOUS
<1>1. CASE UNCHANGED vars
  BY <1>1, AtomicStutters DEF vars, vzVars, clientVars, Reply, Request, Posting
<1>2. CASE Next
  BY <1>2, GetIsNoChange, DoneLeaves, PostAsks, CompletionMakes, FailureBreaks, MachineGoesOnOrOff DEF Next
<1> QED
  BY <1>1, <1>2

\* For every set of clients, the changes that they ask for with POST take effect one
\* at a time, each when its client is told, and refused ones never (state_change.go).
THEOREM ChangesTakeEffectAtomically == Spec => ChangesAreAtomic
<1>1. Init => Atomic!Init
  BY AtomicInit
<1>2. IInv /\ [Next]_vars => [Atomic!Next]_(Atomic!vars)
  BY AtomicStep
<1> QED
  BY <1>1, <1>2, Invariance, PTL DEF Spec, ChangesAreAtomic, Atomic!Spec
=================================================================================
