----------------------------- MODULE CloudInitISO -----------------------------
(***************************************************************************)
(* The cloud-init images in $TMPDIR/vfkit-cloudinit, shared by all vfkit   *)
(* processes of a host (pkg/util/credtemp.go, root.go, main.go).           *)
(*                                                                         *)
(* A process first removes the images whose creator is gone, told by the   *)
(* pid in the name, then creates its own image, uses it, and removes it in *)
(* an exit handler. A process that is killed leaves its image behind.      *)
(*                                                                         *)
(* Every process creates at most one image, so an image is named by the    *)
(* process that created it: CreateTemp never gives a name twice. Files and *)
(* directories that do not have such a name are skipped, and left out.     *)
(***************************************************************************)
EXTENDS FiniteSets

CONSTANTS
  Process,   \* every vfkit process that is ever started
  Pid,       \* process identifiers, which the host uses again
  NoPid      \* the pid of a process that is not running

ASSUME NoPidAssumption == NoPid \notin Pid

VARIABLES
  pc,        \* where each process is
  pid,       \* the pid it runs under
  born,      \* the pid in the name of its image
  others,    \* pids in use by programs that are not vfkit
  dir,       \* images in the directory
  listed,    \* what each cleaner found in the directory
  entries,   \* entries it has still to look at
  target,    \* the image a cleaner found stale, as a set of at most one
  kept       \* entries it left alone, because their pid was in use or unknown

vars == <<pc, pid, born, others, dir, listed, entries, target, kept>>

Running == {"read", "clean", "remove", "config", "create", "use", "exit"}

Gone == {"done", "killed"}

Live(p) == pc[p] \in Running

PidsInUse == others \cup {pid[p] : p \in {q \in Process : Live(q)}}

TypeOK ==
  /\ pc \in [Process -> Running \cup Gone \cup {"new"}]
  /\ pid \in [Process -> Pid \cup {NoPid}]
  /\ born \in [Process -> Pid \cup {NoPid}]
  /\ others \subseteq Pid
  /\ dir \subseteq Process
  /\ listed \in [Process -> SUBSET Process]
  /\ entries \in [Process -> SUBSET Process]
  /\ target \in [Process -> SUBSET Process]
  /\ kept \in [Process -> SUBSET Process]

Init ==
  /\ pc = [p \in Process |-> "new"]
  /\ pid = [p \in Process |-> NoPid]
  /\ born = [p \in Process |-> NoPid]
  /\ others = {}
  /\ dir = {}
  /\ listed = [p \in Process |-> {}]
  /\ entries = [p \in Process |-> {}]
  /\ target = [p \in Process |-> {}]
  /\ kept = [p \in Process |-> {}]

Goto(p, from, to) ==
  /\ pc[p] = from
  /\ pc' = [pc EXCEPT ![p] = to]

\* The host starts the process under a pid nobody uses.
Launch(p) ==
  /\ Goto(p, "new", "read")
  /\ \E i \in Pid \ PidsInUse : pid' = [pid EXCEPT ![p] = i]
  /\ UNCHANGED <<born, others, dir, listed, entries, target, kept>>

\* os.ReadDir, a snapshot; a directory that cannot be read is no entry
ReadDir(p) ==
  /\ Goto(p, "read", "clean")
  /\ \E found \in {dir, {}} :
       /\ listed' = [listed EXCEPT ![p] = found]
       /\ entries' = [entries EXCEPT ![p] = found]
  /\ UNCHANGED <<pid, born, others, dir, target, kept>>

\* The entry of f belongs to a process that may run: leave it.
Keep(p, f) ==
  /\ kept' = [kept EXCEPT ![p] = @ \cup {f}]
  /\ UNCHANGED <<pc, target>>

\* The creator of f is gone: remove it next.
Condemn(p, f) ==
  /\ pc' = [pc EXCEPT ![p] = "remove"]
  /\ target' = [target EXCEPT ![p] = {f}]
  /\ UNCHANGED kept

\* Slips: only the cleaner's own pid counts as in use; the loop ends at the
\* first entry whose pid is in use.
CheckPid_OwnOnly(p, f) ==
  /\ pc[p] = "clean" /\ f \in entries[p]
  /\ entries' = [entries EXCEPT ![p] = @ \ {f}]
  /\ IF born[f] = pid[p] THEN Keep(p, f) ELSE Condemn(p, f)
  /\ UNCHANGED <<pid, born, others, dir, listed>>

CheckPid_Stops(p, f) ==
  /\ pc[p] = "clean" /\ f \in entries[p]
  /\ IF born[f] \in PidsInUse
     THEN entries' = [entries EXCEPT ![p] = {}] /\ Keep(p, f)
     ELSE entries' = [entries EXCEPT ![p] = @ \ {f}] /\ Condemn(p, f)
  /\ UNCHANGED <<pid, born, others, dir, listed>>

\* process.PidExists of the next entry; one that fails keeps the entry
CheckPid(p, f) ==
  /\ pc[p] = "clean" /\ f \in entries[p]
  /\ entries' = [entries EXCEPT ![p] = @ \ {f}]
  /\ Keep(p, f) \/ (born[f] \notin PidsInUse /\ Condemn(p, f))
  /\ UNCHANGED <<pid, born, others, dir, listed>>

\* os.Remove; another cleaner may have been faster, and the error ends the loop
Remove(p) ==
  /\ pc[p] = "remove"
  /\ target' = [target EXCEPT ![p] = {}]
  /\ dir' = dir \ target[p]
  /\ pc' = [pc EXCEPT ![p] = IF target[p] \subseteq dir THEN "clean" ELSE "config"]
  /\ UNCHANGED <<pid, born, others, listed, entries, kept>>

\* The loop ends.
CleanupEnds(p) ==
  /\ Goto(p, "clean", "config")
  /\ entries[p] = {}
  /\ UNCHANGED <<pid, born, others, dir, listed, entries, target, kept>>

\* newVMConfiguration asks for an image, or does not, or fails before
Configure(p) ==
  /\ \E to \in {"create", "use", "exit"} : Goto(p, "config", to)
  /\ UNCHANGED <<pid, born, others, dir, listed, entries, target, kept>>

\* createCloudInitISO: the file is created and its exit handler registered, and
\* then written; or it cannot be created
Create(p) ==
  /\ \/ /\ Goto(p, "create", "use") \/ Goto(p, "create", "exit")
        /\ dir' = dir \cup {p}
        /\ born' = [born EXCEPT ![p] = pid[p]]
     \/ Goto(p, "create", "exit") /\ UNCHANGED <<dir, born>>
  /\ UNCHANGED <<pid, others, listed, entries, target, kept>>

\* The machine ends, or a later step of the start fails.
Finish(p) ==
  /\ Goto(p, "use", "exit")
  /\ UNCHANGED <<pid, born, others, dir, listed, entries, target, kept>>

\* Slip: the handler is forgotten.
Exit_KeepsImage(p) ==
  /\ Goto(p, "exit", "done")
  /\ pid' = [pid EXCEPT ![p] = NoPid]
  /\ UNCHANGED <<born, others, dir, listed, entries, target, kept>>

\* The exit handler removes the image, and the process ends.
Exit(p) ==
  /\ Goto(p, "exit", "done")
  /\ dir' = dir \ {p}
  /\ pid' = [pid EXCEPT ![p] = NoPid]
  /\ UNCHANGED <<born, others, listed, entries, target, kept>>

\* The process is killed, or ends itself with logrus.Fatal: no handler runs.
Killed(p) ==
  /\ Live(p)
  /\ pc' = [pc EXCEPT ![p] = "killed"]
  /\ pid' = [pid EXCEPT ![p] = NoPid]
  /\ UNCHANGED <<born, others, dir, listed, entries, target, kept>>

\* Other programs of the host come and go.
OthersChange ==
  /\ \/ \E i \in Pid \ PidsInUse : others' = others \cup {i}
     \/ \E i \in others : others' = others \ {i}
  /\ UNCHANGED <<pc, pid, born, dir, listed, entries, target, kept>>

Next ==
  \/ \E p \in Process :
       \/ Launch(p) \/ ReadDir(p) \/ Remove(p) \/ CleanupEnds(p)
       \/ \E f \in Process : CheckPid(p, f)
       \/ Configure(p) \/ Create(p) \/ Finish(p) \/ Exit(p) \/ Killed(p)
  \/ OthersChange

Spec == Init /\ [][Next]_vars

------------------------------------------------------------------------------
\* Correctness.

HasImage(p) == born[p] # NoPid

\* The image a running process gave to its machine is there until the process
\* removes it: no cleaner of another process takes it, although pids are used
\* again and the check and the removal are two steps.
LiveImageKept == \A p \in Process : (Live(p) /\ HasImage(p)) => p \in dir

\* A cleanup that looked at all entries leaves none of them, except those whose
\* creator it could not tell to be gone, whatever other cleaners do meanwhile.
CleanupLeavesNoStale ==
  \A p \in Process :
    (pc[p] \in {"config", "create", "use", "exit"} /\ entries[p] = {})
      => listed[p] \cap dir \subseteq kept[p]

\* What is left in the directory was left by processes that were killed, or
\* belongs to one that runs.
OnlyKilledLeaveImages == \A f \in dir : Live(f) \/ pc[f] = "killed"
===============================================================================
