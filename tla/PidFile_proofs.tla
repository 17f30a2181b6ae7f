---------------------------- MODULE PidFile_proofs ----------------------------
(***************************************************************************)
(* Theorems about the shared image directory and about the tools that      *)
(* signal a vfkit process through its pid file, for every set of processes *)
(* and of pids. The second rest on the invariant of the first, whose       *)
(* processes and pids they are about.                                      *)
(***************************************************************************)
EXTENDS PidFile, TLAPS

------------------------------------------------------------------------------
\* The image directory (CloudInitISO).

\* A process runs under the pid in the name of its image.
Names ==
  \A p \in Process :
    /\ Live(p) => pid[p] \in Pid
    /\ (Live(p) /\ HasImage(p)) => born[p] = pid[p]
    /\ HasImage(p) => pc[p] \in {"use", "exit", "done", "killed"}

\* Whatever is in the directory, or was seen there, is an image of somebody.
Images ==
  /\ \A f \in dir : HasImage(f)
  /\ \A p \in Process : \A f \in listed[p] : HasImage(f)
  /\ \A p \in Process : entries[p] \subseteq listed[p]

\* What a cleaner is about to remove is an image of a process that is gone,
\* and a process that is gone does not come back.
Condemned == \A p \in Process : \A f \in target[p] : pc[f] \in Gone

\* What a cleaner has found is kept, still to be looked at, about to be removed,
\* or no longer there.
Progress ==
  \A p \in Process :
    pc[p] \notin {"new", "read", "killed"} =>
      listed[p] \cap dir \subseteq kept[p] \cup entries[p] \cup (IF pc[p] = "remove" THEN target[p] ELSE {})

IInv ==
  /\ TypeOK
  /\ Names
  /\ Images
  /\ Condemned
  /\ Progress
  /\ LiveImageKept
  /\ OnlyKilledLeaveImages

------------------------------------------------------------------------------
LEMMA InitEstablishes == Init => IInv
BY NoPidAssumption
   DEF Init, IInv, TypeOK, Names, Images, Condemned, Progress, LiveImageKept, OnlyKilledLeaveImages,
       HasImage, Live, Running, Gone

\* The check of a pid tells a gone creator.
LEMMA UnusedPidIsGone ==
  ASSUME IInv, NEW f \in Process, HasImage(f), born[f] \notin PidsInUse
  PROVE  pc[f] \in Gone
BY DEF IInv, Names, PidsInUse, Live, Running, Gone

LEMMA TypeKept == IInv /\ Next => TypeOK'
<1> SUFFICES ASSUME IInv, Next PROVE TypeOK'
  OBVIOUS
<1> USE DEF IInv, TypeOK, Goto, Running, Gone
<1>1. ASSUME NEW p \in Process, Launch(p) \/ ReadDir(p) \/ CleanupEnds(p) \/ Configure(p) \/ Finish(p) PROVE TypeOK'
  BY <1>1 DEF Launch, ReadDir, CleanupEnds, Configure, Finish
<1>2. ASSUME NEW p \in Process, Remove(p) \/ Create(p) \/ Exit(p) \/ Killed(p) PROVE TypeOK'
  BY <1>2 DEF Remove, Create, Exit, Killed
<1>3. ASSUME NEW p \in Process, NEW f \in Process, CheckPid(p, f) PROVE TypeOK'
  BY <1>3 DEF CheckPid, Keep, Condemn
<1>4. ASSUME OthersChange PROVE TypeOK'
  BY <1>4 DEF OthersChange
<1> QED
  BY <1>1, <1>2, <1>3, <1>4 DEF Next

\* The pids and names of the processes.
LEMMA NamesKept == IInv /\ Next => Names'
<1> SUFFICES ASSUME IInv, Next PROVE Names'
  OBVIOUS
<1> USE NoPidAssumption DEF IInv, TypeOK, Names, HasImage, Live, Running, Gone, Goto
<1>1. ASSUME NEW p \in Process, Launch(p) \/ ReadDir(p) \/ CleanupEnds(p) \/ Configure(p) \/ Finish(p) PROVE Names'
  BY <1>1 DEF Launch, ReadDir, CleanupEnds, Configure, Finish
<1>2. ASSUME NEW p \in Process, Remove(p) \/ Create(p) \/ Exit(p) \/ Killed(p) PROVE Names'
  BY <1>2 DEF Remove, Create, Exit, Killed
<1>3. ASSUME NEW p \in Process, NEW f \in Process, CheckPid(p, f) PROVE Names'
  BY <1>3 DEF CheckPid, Keep, Condemn
<1>4. ASSUME OthersChange PROVE Names'
  BY <1>4 DEF OthersChange
<1> QED
  BY <1>1, <1>2, <1>3, <1>4 DEF Next

\* What is in the directory, listed, or condemned.
LEMMA ImagesKept == IInv /\ Next => Images' /\ Condemned'
<1> SUFFICES ASSUME IInv, Next PROVE Images' /\ Condemned'
  OBVIOUS
<1> USE NoPidAssumption DEF IInv, TypeOK, Images, Condemned, Names, HasImage, Live, Running, Gone, Goto
<1>1. ASSUME NEW p \in Process, Launch(p) \/ ReadDir(p) \/ CleanupEnds(p) \/ Configure(p) \/ Finish(p)
      PROVE  Images' /\ Condemned'
  BY <1>1 DEF Launch, ReadDir, CleanupEnds, Configure, Finish
<1>2. ASSUME NEW p \in Process, Remove(p) \/ Create(p) \/ Exit(p) \/ Killed(p) PROVE Images' /\ Condemned'
  BY <1>2 DEF Remove, Create, Exit, Killed
<1>3. ASSUME NEW p \in Process, NEW f \in Process, CheckPid(p, f) PROVE Images' /\ Condemned'
  <2>1. HasImage(f)
    BY <1>3 DEF CheckPid
  <2>2. Condemn(p, f) => pc[f] \in Gone /\ pc[p] \notin Gone /\ f # p
    BY <1>3, <2>1, UnusedPidIsGone DEF CheckPid, Condemn, Keep
  <2> QED
    BY <1>3, <2>1, <2>2 DEF CheckPid, Keep, Condemn
<1>4. ASSUME OthersChange PROVE Images' /\ Condemned'
  BY <1>4 DEF OthersChange
<1> QED
  BY <1>1, <1>2, <1>3, <1>4 DEF Next

\* The cleaners.
LEMMA ProgressKept == IInv /\ Next => Progress'
<1> SUFFICES ASSUME IInv, Next PROVE Progress'
  OBVIOUS
<1> USE NoPidAssumption DEF IInv, TypeOK, Images, Names, Progress, HasImage, Live, Running, Gone, Goto
<1>1. ASSUME NEW p \in Process, Launch(p) \/ ReadDir(p) \/ CleanupEnds(p) \/ Configure(p) \/ Finish(p)
      PROVE  Progress'
  <2>1. CASE ReadDir(p)
    BY <2>1 DEF ReadDir
  <2>2. CASE ~ReadDir(p)
    <3>1. UNCHANGED <<dir, listed, entries, target, kept>>
      BY <1>1, <2>2 DEF Launch, CleanupEnds, Configure, Finish
    <3>2. (pc[p] \in {"clean", "config", "use"} \/ pc'[p] = "read") /\ \A q \in Process : q # p => pc'[q] = pc[q]
      BY <1>1, <2>2 DEF Launch, CleanupEnds, Configure, Finish
    <3> QED
      BY <3>1, <3>2
  <2> QED
    BY <2>1, <2>2
<1>2. ASSUME NEW p \in Process, Remove(p) \/ Create(p) \/ Exit(p) \/ Killed(p) PROVE Progress'
  <2>1. CASE Remove(p)
    <3>1. /\ UNCHANGED <<listed, entries, kept>> /\ dir' = dir \ target[p] /\ pc[p] = "remove" /\ pc'[p] # "remove"
          /\ \A q \in Process : q # p => pc'[q] = pc[q] /\ target'[q] = target[q]
      BY <2>1 DEF Remove
    <3> QED
      BY <3>1
  <2>2. CASE Create(p)
    <3>1. /\ UNCHANGED <<listed, entries, kept, target>> /\ dir' \subseteq dir \cup {p}
          /\ pc[p] = "create" /\ pc'[p] \notin {"remove", "read"}
          /\ \A q \in Process : q # p => pc'[q] = pc[q]
      BY <2>2 DEF Create
    <3>2. \A q \in Process : p \notin listed[q]
      BY <3>1
    <3> QED
      BY <3>1, <3>2
  <2>3. CASE Exit(p) \/ Killed(p)
    <3>1. /\ UNCHANGED <<listed, entries, kept, target>> /\ dir' \subseteq dir
          /\ pc[p] = "exit" \/ pc'[p] = "killed"
          /\ \A q \in Process : q # p => pc'[q] = pc[q]
      BY <2>3 DEF Exit, Killed
    <3> QED
      BY <3>1
  <2> QED
    BY <1>2, <2>1, <2>2, <2>3
<1>3. ASSUME NEW p \in Process, NEW f \in Process, CheckPid(p, f) PROVE Progress'
  BY <1>3 DEF CheckPid, Keep, Condemn
<1>4. ASSUME OthersChange PROVE Progress'
  BY <1>4 DEF OthersChange
<1> QED
  BY <1>1, <1>2, <1>3, <1>4 DEF Next

\* The images.
LEMMA DirectoryKept == IInv /\ Next => LiveImageKept' /\ OnlyKilledLeaveImages'
<1> SUFFICES ASSUME IInv, Next PROVE LiveImageKept' /\ OnlyKilledLeaveImages'
  OBVIOUS
<1> USE NoPidAssumption
    DEF IInv, TypeOK, Images, Names, Condemned, LiveImageKept, OnlyKilledLeaveImages, HasImage, Live, Running, Gone, Goto
<1>1. ASSUME NEW p \in Process, Launch(p) \/ ReadDir(p) \/ CleanupEnds(p) \/ Configure(p) \/ Finish(p)
      PROVE  LiveImageKept' /\ OnlyKilledLeaveImages'
  BY <1>1 DEF Launch, ReadDir, CleanupEnds, Configure, Finish
<1>2. ASSUME NEW p \in Process, Remove(p) \/ Create(p) \/ Exit(p) \/ Killed(p)
      PROVE  LiveImageKept' /\ OnlyKilledLeaveImages'
  BY <1>2 DEF Remove, Create, Exit, Killed
<1>3. ASSUME NEW p \in Process, NEW f \in Process, CheckPid(p, f) PROVE LiveImageKept' /\ OnlyKilledLeaveImages'
  BY <1>3 DEF CheckPid, Keep, Condemn
<1>4. ASSUME OthersChange PROVE LiveImageKept' /\ OnlyKilledLeaveImages'
  BY <1>4 DEF OthersChange
<1> QED
  BY <1>1, <1>2, <1>3, <1>4 DEF Next

LEMMA StepKeeps == IInv /\ [Next]_vars => IInv'
<1>1. IInv /\ Next => IInv'
  BY TypeKept, NamesKept, ImagesKept, ProgressKept, DirectoryKept DEF IInv
<1>2. IInv /\ UNCHANGED vars => IInv'
  BY DEF IInv, vars, TypeOK, Names, Images, Condemned, Progress, LiveImageKept, OnlyKilledLeaveImages, HasImage, Live
<1> QED
  BY <1>1, <1>2

------------------------------------------------------------------------------
THEOREM Invariance == Spec => []IInv
<1> QED
  BY InitEstablishes, StepKeeps, PTL DEF Spec

\* No cleaner ever removes the image of a process that runs, for any number of
\* processes and pids, however often pids are used again.
THEOREM LiveImagesAreKept == Spec => []LiveImageKept
<1>1. IInv => LiveImageKept
  BY DEF IInv
<1> QED
  BY <1>1, Invariance, PTL

\* A cleanup that looked at all it listed leaves nothing it could tell stale.
THEOREM CleanupIsComplete == Spec => []CleanupLeavesNoStale
<1>1. IInv => CleanupLeavesNoStale
  BY DEF IInv, Progress, CleanupLeavesNoStale
<1> QED
  BY <1>1, Invariance, PTL

\* A process that ends by itself leaves no image behind.
THEOREM ImagesAreAccountedFor == Spec => []OnlyKilledLeaveImages
<1>1. IInv => OnlyKilledLeaveImages
  BY DEF IInv
<1> QED
  BY <1>1, Invariance, PTL

------------------------------------------------------------------------------
\* The tools that read the pid file (PidFile).

\* No pid is used twice.
Apart == \A p \in Process : Live(p) => pid[p] \notin others

\* What was found has the pid that was read, or is gone; nothing was signalled
\* before the tool is done with it.
Followed ==
  /\ found \subseteq Process
  /\ \A p \in found : (Live(p) /\ pid[p] = read) \/ pc[p] \in Gone
  /\ tool = "found" => found # {}
  /\ tool \in {"looking", "found"} => hit = "nobody"

PfInv ==
  /\ IInv
  /\ Apart
  /\ Followed
  /\ StrangersSpared

\* The processes go on, whatever the tool does.
LEMMA ProcessesMove ==
  ASSUME PfInv, [Next]_vars
  PROVE  /\ IInv'
         /\ Apart'
         /\ \A p \in Process : pc[p] \in Gone => pc'[p] \in Gone
         /\ \A p \in Process : Live(p) => (Live(p)' /\ pid'[p] = pid[p]) \/ pc'[p] \in Gone
<1> USE DEF PfInv
<1>1. IInv'
  BY StepKeeps
<1> USE DEF IInv, TypeOK, Apart, Live, Running, Gone, PidsInUse, Goto
<1>2. ASSUME NEW p \in Process, Launch(p)
      PROVE  /\ Apart'
             /\ \A q \in Process : pc[q] \in Gone => pc'[q] \in Gone
             /\ \A q \in Process : Live(q) => (Live(q)' /\ pid'[q] = pid[q]) \/ pc'[q] \in Gone
  BY <1>2 DEF Launch
<1>3. ASSUME NEW p \in Process, ReadDir(p) \/ CleanupEnds(p) \/ Configure(p) \/ Finish(p) \/ Remove(p) \/ Create(p)
      PROVE  /\ Apart'
             /\ \A q \in Process : pc[q] \in Gone => pc'[q] \in Gone
             /\ \A q \in Process : Live(q) => (Live(q)' /\ pid'[q] = pid[q]) \/ pc'[q] \in Gone
  BY <1>3 DEF ReadDir, CleanupEnds, Configure, Finish, Remove, Create
<1>4. ASSUME NEW p \in Process, Exit(p) \/ Killed(p)
      PROVE  /\ Apart'
             /\ \A q \in Process : pc[q] \in Gone => pc'[q] \in Gone
             /\ \A q \in Process : Live(q) => (Live(q)' /\ pid'[q] = pid[q]) \/ pc'[q] \in Gone
  BY <1>4 DEF Exit, Killed
<1>5. ASSUME NEW p \in Process, NEW f \in Process, CheckPid(p, f)
      PROVE  /\ Apart'
             /\ \A q \in Process : pc[q] \in Gone => pc'[q] \in Gone
             /\ \A q \in Process : Live(q) => (Live(q)' /\ pid'[q] = pid[q]) \/ pc'[q] \in Gone
  BY <1>5 DEF CheckPid, Keep, Condemn
<1>6. ASSUME OthersChange
      PROVE  /\ Apart'
             /\ \A q \in Process : pc[q] \in Gone => pc'[q] \in Gone
             /\ \A q \in Process : Live(q) => (Live(q)' /\ pid'[q] = pid[q]) \/ pc'[q] \in Gone
  BY <1>6 DEF OthersChange
<1>7. CASE UNCHANGED vars
  BY <1>1, <1>7 DEF vars
<1> QED
  BY <1>1, <1>2, <1>3, <1>4, <1>5, <1>6, <1>7 DEF Next

\* A tool that waits loses what it found only to a process that ended.
LEMMA ToolWaits ==
  ASSUME PfInv, [Next]_vars, UNCHANGED toolVars
  PROVE  Followed'
<1>1. /\ \A p \in Process : pc[p] \in Gone => pc'[p] \in Gone
      /\ \A p \in Process : Live(p) => (Live(p)' /\ pid'[p] = pid[p]) \/ pc'[p] \in Gone
  BY ProcessesMove
<1> QED
  BY <1>1 DEF PfInv, Followed, toolVars

LEMMA PfInitEstablishes == PfInit => PfInv
<1> SUFFICES ASSUME PfInit PROVE PfInv
  OBVIOUS
<1>1. IInv
  BY InitEstablishes DEF PfInit
<1> QED
  BY <1>1 DEF PfInit, Init, PfInv, Apart, Followed, StrangersSpared, Live, Running

LEMMA KillIsAStep == Kill => [Next]_vars
BY DEF Kill, Next, Holders

LEMMA PfStepKeeps == PfInv /\ [PfNext]_<<vars, pfVars>> => PfInv'
<1> SUFFICES ASSUME PfInv, [PfNext]_<<vars, pfVars>> PROVE PfInv'
  OBVIOUS
<1> USE DEF PfInv
<1>1. ASSUME [Next]_vars, UNCHANGED toolVars PROVE PfInv'
  <2>1. IInv' /\ Apart' /\ \A p \in Process : pc[p] \in Gone => pc'[p] \in Gone
    BY <1>1, ProcessesMove
  <2>2. Followed'
    BY <1>1, ToolWaits
  <2>3. StrangersSpared'
    BY <1>1, <2>1 DEF StrangersSpared, Followed, toolVars
  <2> QED
    BY <2>1, <2>2, <2>3
<1>2. ASSUME UNCHANGED vars, ReadPidFile \/ FindProcess \/ Exists \/ Terminate PROVE PfInv'
  <2>1. IInv' /\ Apart' /\ \A p \in Process : pc'[p] = pc[p]
    BY <1>2, ProcessesMove DEF vars
  <2>2. CASE ReadPidFile
    BY <1>2, <2>1, <2>2 DEF ReadPidFile, Followed, StrangersSpared
  <2>3. CASE FindProcess
    <3>1. Followed'
      BY <1>2, <2>3 DEF FindProcess, Followed, Holders, Live, vars
    <3>2. hit' = hit /\ found' = Holders(read) /\ tool = "looking"
      BY <2>3 DEF FindProcess
    <3> QED
      BY <1>2, <2>1, <3>1, <3>2 DEF StrangersSpared, Followed
  <2>4. CASE Exists
    BY <1>2, <2>1, <2>4 DEF Exists, Followed, StrangersSpared, Live, vars
  <2>5. CASE Terminate
    BY <1>2, <2>1, <2>5 DEF Terminate, Recipient, Apart, Followed, StrangersSpared, Live, vars
  <2> QED
    BY <1>2, <2>2, <2>3, <2>4, <2>5
<1>3. ASSUME Kill PROVE PfInv'
  <2>1. [Next]_vars
    BY <1>3, KillIsAStep
  <2>2. IInv' /\ Apart' /\ \A p \in Process : pc[p] \in Gone => pc'[p] \in Gone
    BY <2>1, ProcessesMove
  <2>3. ASSUME NEW p \in found PROVE (Live(p)' /\ pid'[p] = read) \/ pc'[p] \in Gone
    BY <2>1, <2>2, ProcessesMove DEF Followed
  <2>4. Followed'
    BY <1>3, <2>3 DEF Kill, Followed
  <2>5. StrangersSpared'
    BY <1>3, <2>2 DEF Kill, Recipient, Apart, Followed, StrangersSpared
  <2> QED
    BY <2>2, <2>4, <2>5
<1>4. ASSUME NEW p \in Process, Truncate(p) \/ WritePid(p) PROVE PfInv'
  BY <1>1, <1>4 DEF Truncate, WritePid
<1>5. CASE Next /\ UNCHANGED pfVars
  BY <1>1, <1>5 DEF pfVars
<1>6. CASE UNCHANGED <<vars, pfVars>>
  BY <1>1, <1>6 DEF pfVars
<1>7. ASSUME ReadPidFile \/ FindProcess \/ Exists \/ Terminate PROVE PfInv'
  BY <1>2, <1>7 DEF ReadPidFile, FindProcess, Exists, Terminate
<1> QED
  BY <1>3, <1>4, <1>5, <1>6, <1>7 DEF PfNext

\* A tool signals a program that is not vfkit only when the process it found
\* ended after it was found (process.go:107), for every set of processes and pids.
THEOREM StrangersAreSpared == PfSpec => []StrangersSpared
<1>1. PfSpec => []PfInv
  BY PfInitEstablishes, PfStepKeeps, PTL DEF PfSpec
<1>2. PfInv => StrangersSpared
  BY DEF PfInv
<1> QED
  BY <1>1, <1>2, PTL
================================================================================
