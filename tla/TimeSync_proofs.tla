---------------------------- MODULE TimeSync_proofs ----------------------------
(***************************************************************************)
(* Theorems about TimeSync, for every number of sleeps and crashes.        *)
(***************************************************************************)
EXTENDS TimeSync, TLAPS

\* A request or its answer is under way only while the goroutine reads, the
\* request on a connection that works; a time that grew old, or an answer to it,
\* has a notification behind it.
OldTimesAreFollowed ==
  /\ awake <= wakes
  /\ request # "none" => pc = "read" /\ reply = "none" /\ conn = "open"
  /\ request = "old" => awake > 0
  /\ reply # "none" => pc = "read"
  /\ (reply = "ok" /\ awake = 0) => clock = "right"

IInv == TypeOK /\ OldTimesAreFollowed /\ SyncedIsRight

LEMMA InitEstablishes == Init => IInv
<1> SUFFICES ASSUME Init PROVE IInv
  OBVIOUS
<1>1. synced \in BOOLEAN /\ ~synced
  BY Zenon DEF Init
<1> QED
  BY <1>1, BoundsAssumption DEF Init, IInv, TypeOK, OldTimesAreFollowed, SyncedIsRight

\* The goroutine.
LEMMA GoroutineKeeps == IInv /\ Goroutine => IInv'
<1> SUFFICES ASSUME IInv, Goroutine PROVE IInv'
  OBVIOUS
<1> USE BoundsAssumption DEF IInv, TypeOK, OldTimesAreFollowed, SyncedIsRight, hostVars, guestVars
<1>1. CASE Awake
  BY <1>1 DEF Awake
<1>2. CASE Connect
  BY <1>2 DEF Connect
<1>3. CASE Write
  BY <1>3 DEF Write
<1>4. CASE Read
  <2>1. synced' \in BOOLEAN
    BY <1>4, Zenon DEF Read
  <2>2. synced' <=> reply = "ok"
    BY <1>4, Zenon DEF Read
  <2>3. SyncedIsRight'
    BY <1>4, <2>2 DEF Read
  <2>4. TypeOK'
    BY <1>4, <2>1 DEF Read
  <2>5. OldTimesAreFollowed'
    BY <1>4 DEF Read
  <2> QED
    BY <2>3, <2>4, <2>5
<1> QED
  BY <1>1, <1>2, <1>3, <1>4 DEF Goroutine

\* The host and the guest.
LEMMA OthersKeep == IInv /\ (HostSleeps \/ AgentAnswers \/ AgentStops \/ AgentStarts) => IInv'
<1> SUFFICES ASSUME IInv, HostSleeps \/ AgentAnswers \/ AgentStops \/ AgentStarts PROVE IInv'
  OBVIOUS
<1> USE BoundsAssumption DEF IInv, TypeOK, OldTimesAreFollowed, SyncedIsRight, hostVars, guestVars
<1>1. CASE HostSleeps
  <2>1. awake < MaxWakes
    BY <1>1 DEF HostSleeps
  <2> QED
    BY <1>1, <2>1 DEF HostSleeps
<1>2. CASE AgentAnswers
  BY <1>2 DEF AgentAnswers
<1>3. CASE AgentStops
  BY <1>3 DEF AgentStops
<1>4. CASE AgentStarts
  BY <1>4 DEF AgentStarts
<1> QED
  BY <1>1, <1>2, <1>3, <1>4

LEMMA Invariance == Spec => []IInv
<1>1. IInv /\ [Next]_vars => IInv'
  <2>1. IInv /\ UNCHANGED vars => IInv'
    BY DEF IInv, TypeOK, OldTimesAreFollowed, SyncedIsRight, vars, hostVars, guestVars
  <2> QED
    BY <2>1, GoroutineKeeps, OthersKeep DEF Next, Rest
<1> QED
  BY <1>1, InitEstablishes, PTL DEF Spec

\* Every variable keeps its type, and no more notifications are pending than the
\* host may send (watchWakeupNotifications).
THEOREM TypeCorrect == Spec => []TypeOK
<1>1. IInv => TypeOK
  BY DEF IInv
<1> QED
  BY <1>1, Invariance, PTL

\* A good answer with nothing left to handle means that the guest clock is
\* right, however often the host sleeps and the agent crashes.
THEOREM AnswersCanBeTrusted == Spec => []SyncedIsRight
<1>1. IInv => SyncedIsRight
  BY DEF IInv
<1> QED
  BY <1>1, Invariance, PTL
===============================================================================
