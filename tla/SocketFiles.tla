------------------------------ MODULE SocketFiles ------------------------------
(***************************************************************************)
(* The sockets that vfkit processes make on their host: the one of the     *)
(* RESTful service (pkg/rest), and those of the vsock ports that the host  *)
(* connects to (pkg/vf/vsock.go). A socket file outlives the process that  *)
(* does not remove it, and no socket can be bound where there is a file.   *)
(*                                                                         *)
(* In each process the goroutine of the service runs beside main, which    *)
(* starts the machine, exposes its ports, waits, and cleans up: it closes  *)
(* the ports, then runs the exit handlers.                                 *)
(*                                                                         *)
(* Ports the guest connects to make no socket on the host. Nobody but      *)
(* vfkit touches the files, and a listener that listens goes on to.        *)
(***************************************************************************)
EXTENDS Naturals

CONSTANTS
  Process,   \* every vfkit process that is ever started
  Path,      \* paths of sockets
  Port,      \* TCP addresses
  None       \* no process, no address

ASSUME NoneAssumption == None \notin Process

VARIABLES
  uri,       \* --restful-uri of each process
  ports,     \* the paths of its vsock ports, with connect
  main,      \* where its main goroutine is, or how it ended
  service,   \* where the goroutine of its RESTful service is
  todo,      \* ports that are not yet exposed
  open,      \* ports that are
  atExit,    \* where the service was when the exit handlers ran
  file       \* who made the socket file at each path

request == <<uri, ports>>
vars == <<request, main, service, todo, open, atExit, file>>

\* "default" is the literal none://, which starts no service; "none" is any
\* other URI of that scheme.
URI ==
  [scheme : {"default", "none"}, at : {None}]
    \cup [scheme : {"unix"}, at : Path] \cup [scheme : {"tcp"}, at : Port]

Running == {"new", "starting", "exposing", "closed", "cleaned"}
Ended == {"exited", "aborted", "killed"}

ServiceState == {"off", "spawned", "registered", "listening"}

TypeOK ==
  /\ uri \in [Process -> URI]
  /\ ports \in [Process -> SUBSET Path]
  /\ main \in [Process -> Running \cup Ended]
  /\ service \in [Process -> ServiceState]
  /\ todo \in [Process -> SUBSET Path]
  /\ open \in [Process -> SUBSET Path]
  /\ atExit \in [Process -> ServiceState \cup {"none"}]
  /\ file \in [Path -> Process \cup {None}]

Init ==
  /\ uri \in [Process -> URI]
  /\ ports \in [Process -> SUBSET Path]
  /\ main = [p \in Process |-> "new"]
  /\ service = [p \in Process |-> "off"]
  /\ todo = [p \in Process |-> {}]
  /\ open = [p \in Process |-> {}]
  /\ atExit = [p \in Process |-> "none"]
  /\ file = [a \in Path |-> None]

Alive(p) == main[p] \in Running

Goto(p, from, to) ==
  /\ main[p] = from
  /\ main' = [main EXCEPT ![p] = to]

\* The process ends, and its goroutines and listeners with it.
End(p, how) ==
  /\ main' = [main EXCEPT ![p] = how]
  /\ service' = [service EXCEPT ![p] = "off"]
  /\ todo' = [todo EXCEPT ![p] = {}]
  /\ open' = [open EXCEPT ![p] = {}]
  /\ UNCHANGED <<request, atExit, file>>

\* What is removed is what is found at the path, whoever made it.
Without(paths) == [a \in Path |-> IF a \in paths THEN None ELSE file[a]]

------------------------------------------------------------------------------
\* The goroutine of the RESTful service.

At(p, place) == Alive(p) /\ service[p] = place

ServiceGoes(p, to) == service' = [service EXCEPT ![p] = to]

\* RegisterExitHandler, which is not called before the goroutine runs
Register(p) ==
  /\ At(p, "spawned") /\ uri[p].scheme = "unix"
  /\ ServiceGoes(p, "registered")
  /\ UNCHANGED <<request, main, todo, open, atExit, file>>

TakenPort(a) == \E q \in Process : At(q, "listening") /\ uri[q].at = a

\* Slip: a file that is in the way is removed.
Listen_RemovesFile(p) ==
  /\ \/ /\ At(p, "registered")
        /\ file' = [file EXCEPT ![uri[p].at] = p]
     \/ /\ At(p, "spawned") /\ uri[p].scheme = "tcp" /\ ~TakenPort(uri[p].at)
        /\ UNCHANGED file
  /\ ServiceGoes(p, "listening")
  /\ UNCHANGED <<request, main, todo, open, atExit>>

\* RunUnix and Run bind the address.
Listen(p) ==
  /\ \/ /\ At(p, "registered") /\ file[uri[p].at] = None
        /\ file' = [file EXCEPT ![uri[p].at] = p]
     \/ /\ At(p, "spawned") /\ uri[p].scheme = "tcp" /\ ~TakenPort(uri[p].at)
        /\ UNCHANGED file
  /\ ServiceGoes(p, "listening")
  /\ UNCHANGED <<request, main, todo, open, atExit>>

\* The address is taken, or the scheme has no case.
CannotListen(p) ==
  \/ At(p, "registered") /\ file[uri[p].at] # None
  \/ At(p, "spawned") /\ uri[p].scheme = "tcp" /\ TakenPort(uri[p].at)
  \/ At(p, "spawned") /\ uri[p].scheme = "none"

\* Slip: the error is logged, and the goroutine ends.
Fatal_Logs(p) ==
  /\ CannotListen(p)
  /\ ServiceGoes(p, "off")
  /\ UNCHANGED <<request, main, todo, open, atExit, file>>

\* logrus.Fatal: the process ends, with none of its handlers run
Fatal(p) ==
  CannotListen(p) /\ End(p, "aborted")

------------------------------------------------------------------------------
\* The main goroutine.

\* NewServer and Start, unless the configuration failed before
StartService(p) ==
  /\ \/ /\ Goto(p, "new", "starting")
        /\ ServiceGoes(p, IF uri[p].scheme = "default" THEN "off" ELSE "spawned")
     \/ Goto(p, "new", "closed") /\ UNCHANGED service
  /\ UNCHANGED <<request, todo, open, atExit, file>>

\* The machine runs, or it could not be started.
StartMachine(p) ==
  /\ \/ /\ Goto(p, "starting", "exposing")
        /\ todo' = [todo EXCEPT ![p] = ports[p]]
     \/ Goto(p, "starting", "closed") /\ UNCHANGED todo
  /\ UNCHANGED <<request, service, open, atExit, file>>

\* ExposeVsock of one port: when its proxy cannot listen, main warns and goes on
Expose(p, a) ==
  /\ main[p] = "exposing" /\ a \in todo[p]
  /\ todo' = [todo EXCEPT ![p] = @ \ {a}]
  /\ IF file[a] = None
     THEN /\ file' = [file EXCEPT ![a] = p]
          /\ open' = [open EXCEPT ![p] = @ \cup {a}]
     ELSE UNCHANGED <<file, open>>
  /\ UNCHANGED <<request, main, service, atExit>>

\* Slip: nothing closes the ports.
Return_KeepsPorts(p) ==
  /\ Goto(p, "exposing", "closed") /\ todo[p] = {}
  /\ UNCHANGED <<request, service, todo, open, atExit, file>>

\* The machine ended, or another step failed: the deferred Close of each proxy
\* removes its file.
Return(p) ==
  /\ Goto(p, "exposing", "closed") /\ todo[p] = {}
  /\ file' = Without(open[p])
  /\ open' = [open EXCEPT ![p] = {}]
  /\ UNCHANGED <<request, service, todo, atExit>>

\* Slip: the handler is registered when the service is made.
HandlerPaths_FromStart(p) == IF service[p] # "off" /\ uri[p].scheme = "unix" THEN {uri[p].at} ELSE {}

\* The handler of the service, if it is registered.
HandlerPaths(p) == IF service[p] \in {"registered", "listening"} /\ uri[p].scheme = "unix"
                   THEN {uri[p].at} ELSE {}

\* ExecuteExitHandlers
Cleanup(p) ==
  /\ Goto(p, "closed", "cleaned")
  /\ file' = Without(HandlerPaths(p))
  /\ atExit' = [atExit EXCEPT ![p] = service[p]]
  /\ UNCHANGED <<request, service, todo, open>>

Exit(p) == main[p] = "cleaned" /\ End(p, "exited")

Killed(p) == Alive(p) /\ End(p, "killed")

------------------------------------------------------------------------------
ServiceStep(p) == Register(p) \/ Listen(p) \/ Fatal(p)

MainStep(p) ==
  \/ StartService(p) \/ StartMachine(p) \/ \E a \in Path : Expose(p, a)
  \/ Return(p) \/ Cleanup(p) \/ Exit(p)

Next ==
  \/ \E p \in Process : ServiceStep(p) \/ MainStep(p) \/ Killed(p)
  \/ (\A p \in Process : ~Alive(p)) /\ UNCHANGED vars

\* A goroutine that can run does. Nothing makes main return: the machine may
\* run for ever, and so may the service.
Fairness == \A p \in Process : WF_vars(ServiceStep(p))

SafeSpec == Init /\ [][Next]_vars

Spec == SafeSpec /\ Fairness

------------------------------------------------------------------------------
\* Correctness.

\* A process that failed so early that its exit handlers ran between the
\* registration of the service's handler and the binding of its socket removes
\* what it finds at that path, the socket of another process.
Intruder(p) == atExit[p] = "registered"

\* A service or port that listens and was not closed has its file: as long as
\* nobody intrudes no other process removes or replaces it, so that a path has
\* one listener, and who connects to it reaches that one.
LiveSocketKept ==
  (\A q \in Process : ~Intruder(q)) =>
    \A p \in Process :
      /\ (At(p, "listening") /\ atExit[p] = "none" /\ uri[p].scheme = "unix") => file[uri[p].at] = p
      /\ Alive(p) => \A a \in open[p] : file[a] = p

\* The socket of a process that ended by itself is gone and in nobody's way,
\* wherever its start failed, unless its service came to listen only after the
\* exit handlers ran. Other sockets without a process were left by a crash.
CleanExitLeavesNothing ==
  \A a \in Path : \A p \in Process :
    (file[a] = p /\ main[p] = "exited") => atExit[p] \in {"spawned", "registered"}

Owners == INSTANCE PathOwners WITH
  owner <- file,
  gone <- {p \in Process : ~Alive(p)},
  intruders <- {p \in Process : Intruder(p)}

\* Every step is one of processes that share paths: bind takes a path only when it
\* is free, the Close of a proxy and the exit handler of the service remove only
\* what their process made, until one intrudes, and nobody clears up after a process
\* that ended.
PathsOwned == Owners!Spec

\* No process runs on without the service it was asked for: it comes to listen,
\* or the process ends.
ServedOrEnded ==
  \A p \in Process : (service[p] = "spawned") ~> (service[p] = "listening" \/ ~Alive(p))
================================================================================
