-------------------------- MODULE SocketFiles_proofs --------------------------
(***************************************************************************)
(* Theorems about the socket files that processes share, for every set of  *)
(* processes, paths and addresses.                                         *)
(***************************************************************************)
EXTENDS SocketFiles, TLAPS

ListensAt(p, a) == At(p, "listening") /\ uri[p].scheme = "unix" /\ uri[p].at = a

Started(p) == main[p] \in {"starting", "exposing", "closed", "cleaned"}

BeforeExit(p) == main[p] \in {"new", "starting", "exposing", "closed"}

\* What the place of main tells of the rest of a process: it has ports open only
\* while it serves, its handlers ran only when it is cleaned or has ended, and
\* only a service of a unix socket registers a handler.
Places ==
  \A p \in Process :
    /\ open[p] # {} => main[p] = "exposing"
    /\ BeforeExit(p) <=> (Alive(p) /\ atExit[p] = "none")
    /\ service[p] # "off" => Started(p)
    /\ service[p] = "registered" => uri[p].scheme = "unix"

\* Before the exit handlers run, a file is that of a port or of a service that
\* listens.
Owned ==
  \A p \in Process, a \in Path :
    (BeforeExit(p) /\ file[a] = p) => (a \in open[p] \/ ListensAt(p, a))

\* After they ran, a file is that of a service that came to listen later, which
\* one that was off or listened already does not.
Late ==
  \A p \in Process :
    main[p] \in {"cleaned", "exited"} =>
      /\ \A a \in Path : file[a] = p => atExit[p] \in {"spawned", "registered"}
      /\ atExit[p] = "off" => service[p] = "off"
      /\ atExit[p] = "listening" => service[p] \in {"off", "listening"}

NoIntruder == \A q \in Process : ~Intruder(q)

\* A process does not listen twice at one path.
Distinct ==
  NoIntruder =>
    \A p \in Process : \A a \in open[p] : ~(ListensAt(p, a) /\ atExit[p] = "none")

IInv ==
  /\ TypeOK
  /\ Places
  /\ Owned
  /\ Late
  /\ Distinct
  /\ LiveSocketKept

------------------------------------------------------------------------------
LEMMA InitEstablishes == Init => IInv
BY NoneAssumption
   DEF Init, IInv, TypeOK, Places, Owned, Late, Distinct, LiveSocketKept, NoIntruder, Intruder,
       ListensAt, Started, BeforeExit, At, Alive, Running, Ended, ServiceState

\* A unix URI has a path.
LEMMA UnixHasPath == ASSUME TypeOK, NEW p \in Process, uri[p].scheme = "unix" PROVE uri[p].at \in Path
BY DEF TypeOK, URI

\* Types.
LEMMA TypeKept == IInv /\ Next => TypeOK'
<1> SUFFICES ASSUME IInv, Next PROVE TypeOK'
  OBVIOUS
<1> USE NoneAssumption DEF IInv, TypeOK, Without, ServiceState, Goto, At, Alive, Running, Ended, request
<1>1. ASSUME NEW p \in Process, StartService(p) PROVE TypeOK'
  BY <1>1, UnixHasPath DEF StartService, ServiceGoes
<1>2. ASSUME NEW p \in Process, StartMachine(p) PROVE TypeOK'
  BY <1>2, UnixHasPath DEF StartMachine
<1>3. ASSUME NEW p \in Process, NEW a \in Path, Expose(p, a) PROVE TypeOK'
  BY <1>3, UnixHasPath DEF Expose
<1>4. ASSUME NEW p \in Process, Return(p) PROVE TypeOK'
  BY <1>4, UnixHasPath DEF Return
<1>5. ASSUME NEW p \in Process, Cleanup(p) PROVE TypeOK'
  BY <1>5, UnixHasPath DEF Cleanup, HandlerPaths
<1>6. ASSUME NEW p \in Process, Exit(p) \/ Killed(p) \/ Fatal(p) PROVE TypeOK'
  BY <1>6, UnixHasPath DEF Exit, Killed, Fatal, End
<1>7. ASSUME NEW p \in Process, Register(p) PROVE TypeOK'
  BY <1>7, UnixHasPath DEF Register, ServiceGoes
<1>8. ASSUME NEW p \in Process, Listen(p) PROVE TypeOK'
  BY <1>8, UnixHasPath DEF Listen, ServiceGoes
<1>9. ASSUME UNCHANGED vars PROVE TypeOK'
  BY <1>9 DEF vars, request
<1> QED
  BY <1>1, <1>2, <1>3, <1>4, <1>5, <1>6, <1>7, <1>8, <1>9 DEF Next, ServiceStep, MainStep

\* The places of main and of the service go together.
LEMMA PlacesKept == IInv /\ Next => Places'
<1> SUFFICES ASSUME IInv, Next PROVE Places'
  OBVIOUS
<1> USE NoneAssumption DEF IInv, TypeOK, Places, Started, BeforeExit, ServiceState, Goto, At, Alive, Running, Ended, request
<1>1. ASSUME NEW p \in Process, StartService(p) PROVE Places'
  BY <1>1 DEF StartService, ServiceGoes
<1>2. ASSUME NEW p \in Process, StartMachine(p) PROVE Places'
  BY <1>2 DEF StartMachine
<1>3. ASSUME NEW p \in Process, NEW a \in Path, Expose(p, a) PROVE Places'
  BY <1>3 DEF Expose
<1>4. ASSUME NEW p \in Process, Return(p) PROVE Places'
  BY <1>4 DEF Return
<1>5. ASSUME NEW p \in Process, Cleanup(p) PROVE Places'
  BY <1>5 DEF Cleanup, HandlerPaths
<1>6. ASSUME NEW p \in Process, Exit(p) \/ Killed(p) \/ Fatal(p) PROVE Places'
  BY <1>6 DEF Exit, Killed, Fatal, End
<1>7. ASSUME NEW p \in Process, Register(p) PROVE Places'
  BY <1>7 DEF Register, ServiceGoes
<1>8. ASSUME NEW p \in Process, Listen(p) PROVE Places'
  BY <1>8 DEF Listen, ServiceGoes
<1>9. ASSUME UNCHANGED vars PROVE Places'
  BY <1>9 DEF vars, request
<1> QED
  BY <1>1, <1>2, <1>3, <1>4, <1>5, <1>6, <1>7, <1>8, <1>9 DEF Next, ServiceStep, MainStep

\* Before the exit handlers run, files belong to listeners.
LEMMA OwnedKept == IInv /\ Next => Owned'
<1> SUFFICES ASSUME IInv, Next PROVE Owned'
  OBVIOUS
<1> USE NoneAssumption DEF IInv, TypeOK, Places, Owned, ListensAt, Started, BeforeExit, Without, Goto, At, Alive, Running, Ended, request
<1>1. ASSUME NEW p \in Process, StartService(p) PROVE Owned'
  BY <1>1, UnixHasPath DEF StartService, ServiceGoes
<1>2. ASSUME NEW p \in Process, StartMachine(p) PROVE Owned'
  BY <1>2, UnixHasPath DEF StartMachine
<1>3. ASSUME NEW p \in Process, NEW a \in Path, Expose(p, a) PROVE Owned'
  BY <1>3, UnixHasPath DEF Expose
<1>4. ASSUME NEW p \in Process, Return(p) PROVE Owned'
  BY <1>4, UnixHasPath DEF Return
<1>5. ASSUME NEW p \in Process, Cleanup(p) PROVE Owned'
  BY <1>5, UnixHasPath DEF Cleanup, HandlerPaths
<1>6. ASSUME NEW p \in Process, Exit(p) \/ Killed(p) \/ Fatal(p) PROVE Owned'
  BY <1>6, UnixHasPath DEF Exit, Killed, Fatal, End
<1>7. ASSUME NEW p \in Process, Register(p) PROVE Owned'
  BY <1>7, UnixHasPath DEF Register, ServiceGoes
<1>8. ASSUME NEW p \in Process, Listen(p) PROVE Owned'
  BY <1>8, UnixHasPath DEF Listen, ServiceGoes
<1>9. ASSUME UNCHANGED vars PROVE Owned'
  BY <1>9 DEF vars, request
<1> QED
  BY <1>1, <1>2, <1>3, <1>4, <1>5, <1>6, <1>7, <1>8, <1>9 DEF Next, ServiceStep, MainStep

\* After that, to services that came late.
LEMMA LateKept == IInv /\ Next => Late'
<1> SUFFICES ASSUME IInv, Next PROVE Late'
  OBVIOUS
<1> USE NoneAssumption DEF IInv, TypeOK, Places, Owned, Late, ListensAt, Started, BeforeExit, Without, Goto, At, Alive, Running, Ended, request
<1>1. ASSUME NEW p \in Process, StartService(p) PROVE Late'
  BY <1>1, UnixHasPath DEF StartService, ServiceGoes
<1>2. ASSUME NEW p \in Process, StartMachine(p) PROVE Late'
  BY <1>2, UnixHasPath DEF StartMachine
<1>3. ASSUME NEW p \in Process, NEW a \in Path, Expose(p, a) PROVE Late'
  BY <1>3, UnixHasPath DEF Expose
<1>4. ASSUME NEW p \in Process, Return(p) PROVE Late'
  BY <1>4, UnixHasPath DEF Return
<1>5. ASSUME NEW p \in Process, Cleanup(p) PROVE Late'
  BY <1>5, UnixHasPath DEF Cleanup, HandlerPaths
<1>6. ASSUME NEW p \in Process, Exit(p) \/ Killed(p) \/ Fatal(p) PROVE Late'
  BY <1>6, UnixHasPath DEF Exit, Killed, Fatal, End
<1>7. ASSUME NEW p \in Process, Register(p) PROVE Late'
  BY <1>7, UnixHasPath DEF Register, ServiceGoes
<1>8. ASSUME NEW p \in Process, Listen(p) PROVE Late'
  BY <1>8, UnixHasPath DEF Listen, ServiceGoes, ServiceState
<1>9. ASSUME UNCHANGED vars PROVE Late'
  BY <1>9 DEF vars, request
<1> QED
  BY <1>1, <1>2, <1>3, <1>4, <1>5, <1>6, <1>7, <1>8, <1>9 DEF Next, ServiceStep, MainStep

\* No process listens twice at a path, ...
LEMMA DistinctKept == IInv /\ Next => Distinct'
<1> SUFFICES ASSUME IInv, Next PROVE Distinct'
  OBVIOUS
<1> USE NoneAssumption DEF IInv, TypeOK, Places, Distinct, LiveSocketKept, NoIntruder, Intruder, ListensAt, Started, BeforeExit, Goto, At, Alive, Running, Ended, request
<1>1. ASSUME NEW p \in Process, StartService(p) PROVE Distinct'
  BY <1>1, UnixHasPath DEF StartService, ServiceGoes
<1>2. ASSUME NEW p \in Process, StartMachine(p) PROVE Distinct'
  BY <1>2, UnixHasPath DEF StartMachine
<1>3. ASSUME NEW p \in Process, NEW a \in Path, Expose(p, a) PROVE Distinct'
  BY <1>3, UnixHasPath DEF Expose
<1>4. ASSUME NEW p \in Process, Return(p) PROVE Distinct'
  BY <1>4, UnixHasPath DEF Return
<1>5. ASSUME NEW p \in Process, Cleanup(p) PROVE Distinct'
  BY <1>5, UnixHasPath DEF Cleanup, HandlerPaths
<1>6. ASSUME NEW p \in Process, Exit(p) \/ Killed(p) \/ Fatal(p) PROVE Distinct'
  BY <1>6, UnixHasPath DEF Exit, Killed, Fatal, End
<1>7. ASSUME NEW p \in Process, Register(p) PROVE Distinct'
  BY <1>7, UnixHasPath DEF Register, ServiceGoes
<1>8. ASSUME NEW p \in Process, Listen(p) PROVE Distinct'
  BY <1>8, UnixHasPath DEF Listen, ServiceGoes
<1>9. ASSUME UNCHANGED vars PROVE Distinct'
  BY <1>9 DEF vars, request
<1> QED
  BY <1>1, <1>2, <1>3, <1>4, <1>5, <1>6, <1>7, <1>8, <1>9 DEF Next, ServiceStep, MainStep

\* ... and what listens keeps its file.
LEMMA LiveKept == IInv /\ Next => LiveSocketKept'
<1> SUFFICES ASSUME IInv, Next PROVE LiveSocketKept'
  OBVIOUS
<1> USE NoneAssumption DEF IInv, TypeOK, Places, Distinct, LiveSocketKept, NoIntruder, Intruder, ListensAt, Started, BeforeExit, Without, Goto, At, Alive, Running, Ended, request
<1>1. ASSUME NEW p \in Process, StartService(p) PROVE LiveSocketKept'
  BY <1>1, UnixHasPath DEF StartService, ServiceGoes
<1>2. ASSUME NEW p \in Process, StartMachine(p) PROVE LiveSocketKept'
  BY <1>2, UnixHasPath DEF StartMachine
<1>3. ASSUME NEW p \in Process, NEW a \in Path, Expose(p, a) PROVE LiveSocketKept'
  BY <1>3, UnixHasPath DEF Expose
<1>4. ASSUME NEW p \in Process, Return(p) PROVE LiveSocketKept'
  BY <1>4, UnixHasPath DEF Return
<1>5. ASSUME NEW p \in Process, Cleanup(p) PROVE LiveSocketKept'
  BY <1>5, UnixHasPath DEF Cleanup, HandlerPaths
<1>6. ASSUME NEW p \in Process, Exit(p) \/ Killed(p) \/ Fatal(p) PROVE LiveSocketKept'
  BY <1>6, UnixHasPath DEF Exit, Killed, Fatal, End
<1>7. ASSUME NEW p \in Process, Register(p) PROVE LiveSocketKept'
  BY <1>7, UnixHasPath DEF Register, ServiceGoes
<1>8. ASSUME NEW p \in Process, Listen(p) PROVE LiveSocketKept'
  BY <1>8, UnixHasPath DEF Listen, ServiceGoes
<1>9. ASSUME UNCHANGED vars PROVE LiveSocketKept'
  BY <1>9 DEF vars, request
<1> QED
  BY <1>1, <1>2, <1>3, <1>4, <1>5, <1>6, <1>7, <1>8, <1>9 DEF Next, ServiceStep, MainStep

LEMMA StepKeeps == IInv /\ [Next]_vars => IInv'
<1>1. ASSUME IInv, Next PROVE IInv'
  BY <1>1, TypeKept, PlacesKept, OwnedKept, LateKept, DistinctKept, LiveKept DEF IInv
<1>2. ASSUME IInv, UNCHANGED vars PROVE IInv'
  BY <1>2 DEF IInv, TypeOK, Places, Owned, Late, Distinct, LiveSocketKept, NoIntruder, Intruder,
              ListensAt, Started, BeforeExit, At, Alive, vars, request
<1> QED
  BY <1>1, <1>2

LEMMA Invariance == SafeSpec => []IInv
BY InitEstablishes, StepKeeps, PTL DEF SafeSpec

\* A service or a port that listens keeps its file as long as no process that
\* failed early removes it (rest.go:76), for every set of processes and paths.
THEOREM LiveSocketsAreKept == SafeSpec => []LiveSocketKept
<1>1. IInv => LiveSocketKept
  BY DEF IInv
<1> QED
  BY <1>1, Invariance, PTL

\* A process that ended by itself leaves a socket only if its service came to
\* listen after the exit handlers had run.
THEOREM CleanExitsLeaveNothing == SafeSpec => []CleanExitLeavesNothing
<1>1. IInv => CleanExitLeavesNothing
  BY DEF IInv, Late, CleanExitLeavesNothing
<1> QED
  BY <1>1, Invariance, PTL

------------------------------------------------------------------------------
\* The refinement of PathOwners.

\* At first no path is taken and nobody ended or intruded.
LEMMA OwnersInit == Init => Owners!Init
BY DEF Init, Owners!Init, Intruder, Alive, Running

\* A step that leaves main and the record of the handlers alone leaves alone who
\* ended and who intruded.
LEMMA SameProcesses ==
  ASSUME UNCHANGED atExit, \A q \in Process : Alive(q)' <=> Alive(q)
  PROVE  /\ {q \in Process : ~Alive(q)}' = {q \in Process : ~Alive(q)}
         /\ {q \in Process : Intruder(q)}' = {q \in Process : Intruder(q)}
BY DEF Intruder

\* The end of a process is its end and nothing else.
LEMMA EndIsEnd ==
  ASSUME IInv, NEW p \in Process, Alive(p), NEW how \in Ended, End(p, how)
  PROVE  Owners!Next
<1>1. {q \in Process : ~Alive(q)}' = {q \in Process : ~Alive(q)} \cup {p}
  BY DEF IInv, TypeOK, End, Alive, Running, Ended
<1>2. {q \in Process : Intruder(q)}' = {q \in Process : Intruder(q)} /\ UNCHANGED file
  BY DEF End, Intruder
<1>3. Owners!EndOf(p)
  BY <1>1, <1>2 DEF Owners!EndOf
<1> QED
  BY <1>3 DEF Owners!Next

\* Binding an address takes its path, if it has one.
LEMMA ListenTakes ==
  ASSUME IInv, NEW p \in Process, Listen(p)
  PROVE  Owners!Next \/ UNCHANGED Owners!vars
<1>1. Alive(p) /\ UNCHANGED <<main, atExit>>
  BY DEF Listen, At
<1>2. /\ {q \in Process : ~Alive(q)}' = {q \in Process : ~Alive(q)}
      /\ {q \in Process : Intruder(q)}' = {q \in Process : Intruder(q)}
  BY <1>1, SameProcesses DEF Alive
<1>3. CASE UNCHANGED file
  BY <1>2, <1>3 DEF Owners!vars
<1>4. CASE At(p, "registered") /\ file[uri[p].at] = None /\ file' = [file EXCEPT ![uri[p].at] = p]
  <2>1. uri[p].at \in Path
    BY <1>4, UnixHasPath DEF IInv, Places, At
  <2>2. Owners!Take(p, uri[p].at)
    BY <1>2, <1>4 DEF Owners!Take
  <2> QED
    BY <1>1, <2>1, <2>2 DEF Owners!Next
<1> QED
  BY <1>3, <1>4 DEF Listen

\* Exposing a port takes its path, if it is free.
LEMMA ExposeTakes ==
  ASSUME IInv, NEW p \in Process, NEW a \in Path, Expose(p, a)
  PROVE  Owners!Next \/ UNCHANGED Owners!vars
<1>1. Alive(p) /\ UNCHANGED <<main, atExit>>
  BY DEF Expose, Alive, Running
<1>2. /\ {q \in Process : ~Alive(q)}' = {q \in Process : ~Alive(q)}
      /\ {q \in Process : Intruder(q)}' = {q \in Process : Intruder(q)}
  BY <1>1, SameProcesses DEF Alive
<1>3. CASE file[a] = None
  <2>1. Owners!Take(p, a)
    BY <1>2, <1>3 DEF Expose, Owners!Take
  <2> QED
    BY <1>1, <2>1 DEF Owners!Next
<1>4. CASE file[a] # None
  BY <1>2, <1>4 DEF Expose, Owners!vars
<1> QED
  BY <1>3, <1>4

\* What is removed after main returned is of ports of the process itself.
LEMMA ReturnGivesUp ==
  ASSUME IInv, NEW p \in Process, Return(p)
  PROVE  Owners!Next
<1>1. Alive(p) /\ UNCHANGED atExit /\ \A q \in Process : Alive(q)' <=> Alive(q)
  BY DEF Return, Goto, Alive, Running, IInv, TypeOK
<1>2. /\ {q \in Process : ~Alive(q)}' = {q \in Process : ~Alive(q)}
      /\ {q \in Process : Intruder(q)}' = {q \in Process : Intruder(q)}
  BY <1>1, SameProcesses
<1>3. open[p] \in SUBSET Path
  BY DEF IInv, TypeOK
<1>4. {q \in Process : Intruder(q)} = {} => \A a \in open[p] : file[a] = p
  BY <1>1 DEF IInv, LiveSocketKept
<1>5. file' = [a \in Path |-> IF a \in open[p] THEN None ELSE file[a]]
  BY DEF Return, Without
<1>6. Owners!GiveUp(p, open[p])
  BY <1>2, <1>4, <1>5 DEF Owners!GiveUp, Owners!Remove
<1> QED
  BY <1>1, <1>3, <1>6 DEF Owners!Next

\* The exit handlers remove the socket of their own service, unless it is only
\* registered: then they intrude.
LEMMA CleanupGivesUp ==
  ASSUME IInv, NEW p \in Process, Cleanup(p)
  PROVE  Owners!Next
<1>1. Alive(p) /\ atExit[p] = "none" /\ \A q \in Process : Alive(q)' <=> Alive(q)
  BY DEF Cleanup, Goto, Alive, Running, IInv, TypeOK, Places, BeforeExit
<1>2. {q \in Process : ~Alive(q)}' = {q \in Process : ~Alive(q)}
  BY <1>1
<1>3. file' = [a \in Path |-> IF a \in HandlerPaths(p) THEN None ELSE file[a]]
  BY DEF Cleanup, Without
<1>4. HandlerPaths(p) \in SUBSET Path
  BY UnixHasPath DEF IInv, HandlerPaths
<1>5. atExit' = [atExit EXCEPT ![p] = service[p]] /\ atExit \in [Process -> ServiceState \cup {"none"}]
  BY DEF Cleanup, IInv, TypeOK
<1>6. CASE service[p] = "registered"
  <2>1. uri[p].at \in Path /\ HandlerPaths(p) = {uri[p].at}
    BY <1>6, UnixHasPath DEF IInv, Places, HandlerPaths
  <2>2. {q \in Process : Intruder(q)}' = {q \in Process : Intruder(q)} \cup {p}
    BY <1>5, <1>6 DEF Intruder
  <2>3. Owners!Intrude(p, uri[p].at)
    BY <1>2, <1>3, <2>1, <2>2 DEF Owners!Intrude, Owners!Remove
  <2> QED
    BY <1>1, <2>1, <2>3 DEF Owners!Next
<1>7. CASE service[p] # "registered"
  <2>1. {q \in Process : Intruder(q)}' = {q \in Process : Intruder(q)}
    BY <1>1, <1>5, <1>7 DEF Intruder
  <2>2. {q \in Process : Intruder(q)} = {} => \A a \in HandlerPaths(p) : file[a] = p
    BY <1>1, <1>7 DEF HandlerPaths, IInv, LiveSocketKept, At
  <2>3. Owners!GiveUp(p, HandlerPaths(p))
    BY <1>2, <1>3, <2>1, <2>2 DEF Owners!GiveUp, Owners!Remove
  <2> QED
    BY <1>1, <1>4, <2>3 DEF Owners!Next
<1> QED
  BY <1>6, <1>7

\* Every step is a step of processes that share paths, or changes nothing of them.
LEMMA OwnersStep == IInv /\ [Next]_vars => [Owners!Next]_(Owners!vars)
<1> SUFFICES ASSUME IInv, [Next]_vars PROVE Owners!Next \/ UNCHANGED Owners!vars
  OBVIOUS
<1>1. ASSUME NEW p \in Process, StartService(p) \/ StartMachine(p) \/ Register(p)
      PROVE  UNCHANGED Owners!vars
  <2>1. UNCHANGED <<file, atExit>> /\ \A q \in Process : Alive(q)' <=> Alive(q)
    BY <1>1 DEF StartService, StartMachine, Register, Goto, Alive, Running, IInv, TypeOK
  <2> QED
    BY <2>1, SameProcesses DEF Owners!vars
<1>2. ASSUME NEW p \in Process, Exit(p) PROVE Owners!Next
  BY <1>2, EndIsEnd DEF Exit, Alive, Running, Ended
<1>3. ASSUME NEW p \in Process, Killed(p) PROVE Owners!Next
  BY <1>3, EndIsEnd DEF Killed, Ended
<1>4. ASSUME NEW p \in Process, Fatal(p) PROVE Owners!Next
  BY <1>4, EndIsEnd DEF Fatal, CannotListen, At, Ended
<1>5. CASE UNCHANGED vars
  BY <1>5 DEF vars, Owners!vars, Alive, Intruder
<1> QED
  BY <1>1, <1>2, <1>3, <1>4, <1>5, ListenTakes, ExposeTakes, ReturnGivesUp, CleanupGivesUp
     DEF Next, ServiceStep, MainStep

\* For every set of processes, paths and ports, vfkit's processes own their paths:
\* bind takes only free ones, and Close and the exit handlers remove only their own
\* until one that failed early intrudes (rest.go:76).
THEOREM PathsAreOwned == SafeSpec => PathsOwned
<1>1. Init => Owners!Init
  BY OwnersInit
<1>2. IInv /\ [Next]_vars => [Owners!Next]_(Owners!vars)
  BY OwnersStep
<1> QED
  BY <1>1, <1>2, Invariance, PTL DEF SafeSpec, PathsOwned, Owners!Spec
================================================================================
