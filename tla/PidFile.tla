-------------------------------- MODULE PidFile --------------------------------
(***************************************************************************)
(* The pid file of vfkit and the package that other programs find and      *)
(* signal a vfkit process with (pkg/process), around the processes and     *)
(* pids of CloudInitISO.                                                   *)
(*                                                                         *)
(* A tool reads a pid, looks that process up, compares its name and the    *)
(* path of its program, and signals the pid. Processes end and pids are    *)
(* used again between any two of these steps. The name and the path are    *)
(* those of vfkit for every vfkit process, and for no other program; the   *)
(* path is looked up last and implies the name, so they are one step.      *)
(* Two numbers written over each other are the later one.                  *)
(***************************************************************************)
EXTENDS CloudInitISO

CONSTANTS
  WithPidFile   \* the processes started with --pidfile, all with the same one

ASSUME WithPidFileAssumption == WithPidFile \subseteq Process

VARIABLES
  pidFile,   \* "missing", "empty" or a pid
  writing,   \* processes that are writing it
  wrote,     \* processes that have begun to
  tool,      \* "idle", "looking" or "found"
  read,      \* the pid the tool read
  found,     \* the process it found, as a set of at most one
  hit        \* who had the pid when the tool signalled it last

toolVars == <<tool, read, found, hit>>
fileVars == <<pidFile, writing, wrote>>
pfVars == <<fileVars, toolVars>>

NoFile == "missing"
Empty == "empty"

PfInit ==
  /\ Init
  /\ pidFile = NoFile /\ writing = {} /\ wrote = {}
  /\ tool = "idle" /\ read = NoPid /\ found = {} /\ hit = "nobody"

\* Who runs under a pid.
Holders(i) == {p \in Process : Live(p) /\ pid[p] = i}

------------------------------------------------------------------------------
\* WritePidFile: os.WriteFile truncates the file, ...
Truncate(p) ==
  /\ pc[p] = "use" /\ p \in WithPidFile \ wrote
  /\ pidFile' = Empty
  /\ writing' = writing \cup {p}
  /\ wrote' = wrote \cup {p}
  /\ UNCHANGED <<vars, toolVars>>

\* ... and writes the pid.
WritePid(p) ==
  /\ pc[p] = "use" /\ p \in writing
  /\ pidFile' = pid[p]
  /\ writing' = writing \ {p}
  /\ UNCHANGED <<vars, wrote, toolVars>>

\* No file, or one without a number, is an error.
ReadPidFile ==
  /\ tool = "idle" /\ pidFile \in Pid
  /\ tool' = "looking" /\ read' = pidFile
  /\ found' = {} /\ hit' = "nobody"
  /\ UNCHANGED <<vars, fileVars>>

\* Slip: any process that has the pid is taken for the one.
FindProcess_AnyProgram ==
  /\ tool = "looking"
  /\ found' = Holders(read)
  /\ tool' = IF read \in PidsInUse THEN "found" ELSE "idle"
  /\ UNCHANGED <<vars, fileVars, read, hit>>

\* findProcess: only a vfkit process has the name and the path.
FindProcess ==
  /\ tool = "looking"
  /\ found' = Holders(read)
  /\ tool' = IF found' # {} THEN "found" ELSE "idle"
  /\ UNCHANGED <<vars, fileVars, read, hit>>

\* The signal goes to whoever has the pid now; Exists sends none.
Recipient == IF read \in others THEN "other" ELSE IF Holders(read) # {} THEN "vfkit" ELSE "nobody"

Exists ==
  /\ tool = "found"
  /\ tool' = "idle"
  /\ UNCHANGED <<vars, fileVars, read, found, hit>>

\* Terminate: vfkit stops its machine when it gets to it.
Terminate ==
  /\ tool = "found"
  /\ tool' = "idle" /\ hit' = Recipient
  /\ UNCHANGED <<vars, fileVars, read, found>>

Kill ==
  /\ tool = "found"
  /\ tool' = "idle" /\ hit' = Recipient
  /\ IF Recipient = "vfkit" THEN \E p \in Holders(read) : Killed(p) ELSE UNCHANGED vars
  /\ UNCHANGED <<fileVars, read, found>>

PfNext ==
  \/ Next /\ UNCHANGED pfVars
  \/ \E p \in Process : Truncate(p) \/ WritePid(p)
  \/ ReadPidFile \/ FindProcess \/ Exists \/ Terminate \/ Kill

PfSpec == PfInit /\ [][PfNext]_<<vars, pfVars>>

------------------------------------------------------------------------------
\* Correctness.

\* A signal reaches another program only when the vfkit process it was meant for
\* ended after it was found and its pid was given to that program: a stale pid
\* file alone never makes a tool signal a stranger.
StrangersSpared ==
  hit = "other" => found # {} /\ \A p \in found : pc[p] \in Gone
================================================================================
