------------------------------- MODULE TimeSync -------------------------------
(***************************************************************************)
(* Setting the guest clock after the host slept (timesync.go). One         *)
(* goroutine takes the notifications that the host is awake again, keeps   *)
(* one vsock connection to the qemu-guest-agent and sends it the time.     *)
(*                                                                         *)
(* The guest agent is not part of the repository: it answers one request   *)
(* at a time, may refuse one, and may be restarted, which breaks its       *)
(* connections. The content of messages is left out, but not their age: a  *)
(* request that was written before the host slept carries an old time.     *)
(***************************************************************************)
EXTENDS Naturals

CONSTANTS
  MaxWakes,     \* bound: times the host sleeps and wakes
  MaxCrashes    \* bound: times the agent stops

ASSUME BoundsAssumption == MaxWakes \in Nat /\ MaxCrashes \in Nat

VARIABLES
  pc,        \* where the goroutine is
  conn,      \* its connection: "none", "open" or "broken"
  request,   \* the time on its way to the agent: "none", "fresh" or "old"
  reply,     \* the answer on its way back: "none", "ok" or "refused"
  synced,    \* the last synchronisation ended with a good answer
  clock,     \* the guest clock: "right" or "late"
  awake,     \* notifications the goroutine has not taken
  wakes,     \* times the host slept so far
  agent,     \* the agent: "up" or "down"
  crashes    \* times it stopped so far

guestVars == <<clock, agent, crashes>>
hostVars == <<awake, wakes>>
vars == <<pc, conn, request, reply, synced, guestVars, hostVars>>

TypeOK ==
  /\ pc \in {"wait", "connect", "write", "read", "ended"}
  /\ conn \in {"none", "open", "broken"}
  /\ request \in {"none", "fresh", "old"}
  /\ reply \in {"none", "ok", "refused"}
  /\ synced \in BOOLEAN
  /\ clock \in {"right", "late"}
  /\ awake \in 0 .. MaxWakes
  /\ wakes \in 0 .. MaxWakes
  /\ agent \in {"up", "down"}
  /\ crashes \in 0 .. MaxCrashes

Init ==
  /\ pc = "wait" /\ conn = "none" /\ request = "none" /\ reply = "none"
  /\ synced = FALSE
  /\ clock = "right"
  /\ awake = 0 /\ wakes = 0
  /\ agent \in {"up", "down"}
  /\ crashes = 0

------------------------------------------------------------------------------
\* The goroutine: watchWakeupNotifications and syncGuestTime.

\* Slip: a receive that yields nothing is taken for a notification.
Awake_Unasked ==
  /\ pc = "wait"
  /\ awake' = awake - 1
  /\ pc' = IF conn = "none" THEN "connect" ELSE "write"
  /\ UNCHANGED <<conn, request, reply, synced, wakes, guestVars>>

\* The host is awake: connect, unless there is a connection, and send the time.
Awake ==
  /\ pc = "wait" /\ awake > 0
  /\ awake' = awake - 1
  /\ pc' = IF conn = "none" THEN "connect" ELSE "write"
  /\ UNCHANGED <<conn, request, reply, synced, wakes, guestVars>>

\* Slip: the first notification only opens the connection.
Connect_Only ==
  /\ pc = "connect"
  /\ \/ agent = "up" /\ conn' = "open" /\ pc' = "wait"
     \/ agent = "down" /\ pc' = "ended" /\ UNCHANGED conn
  /\ UNCHANGED <<request, reply, synced, hostVars, guestVars>>

\* vf.ConnectVsockSync; an error ends the goroutine
Connect ==
  /\ pc = "connect"
  /\ \/ agent = "up" /\ conn' = "open" /\ pc' = "write"
     \/ agent = "down" /\ pc' = "ended" /\ UNCHANGED conn
  /\ UNCHANGED <<request, reply, synced, hostVars, guestVars>>

\* The time is written; an error is logged, and the connection kept.
Write ==
  /\ pc = "write"
  /\ \/ conn = "open" /\ request' = "fresh" /\ pc' = "read" /\ UNCHANGED synced
     \/ conn = "broken" /\ pc' = "wait" /\ synced' = FALSE /\ UNCHANGED request
  /\ UNCHANGED <<conn, reply, hostVars, guestVars>>

\* Slip: the wait for the answer has a timeout.
Read_GivesUp ==
  /\ pc = "read"
  /\ pc' = "wait"
  /\ synced' = (reply = "ok")
  /\ reply' = "none"
  /\ UNCHANGED <<conn, request, hostVars, guestVars>>

\* ReadString waits for a line as long as the connection lasts.
Read ==
  /\ pc = "read"
  /\ reply # "none" \/ conn = "broken"
  /\ pc' = "wait"
  /\ synced' = (reply = "ok")
  /\ reply' = "none"
  /\ UNCHANGED <<conn, request, hostVars, guestVars>>

Goroutine == Awake \/ Connect \/ Write \/ Read

------------------------------------------------------------------------------
\* The host, the guest and its agent.

\* The host sleeps and wakes: the guest clock is late, a request under way is old.
HostSleeps ==
  /\ wakes < MaxWakes
  /\ wakes' = wakes + 1
  /\ awake' = awake + 1
  /\ clock' = "late"
  /\ request' = IF request = "fresh" THEN "old" ELSE request
  /\ UNCHANGED <<pc, conn, reply, synced, agent, crashes>>

\* guest-set-time is executed, or refused.
AgentAnswers ==
  /\ agent = "up" /\ conn = "open" /\ request # "none"
  /\ request' = "none"
  /\ \/ reply' = "ok" /\ clock' = IF request = "fresh" THEN "right" ELSE "late"
     \/ reply' = "refused" /\ UNCHANGED clock
  /\ UNCHANGED <<pc, conn, synced, hostVars, agent, crashes>>

\* The agent stops; its request is lost, and perhaps its answer.
AgentStops ==
  /\ agent = "up" /\ crashes < MaxCrashes
  /\ agent' = "down"
  /\ crashes' = crashes + 1
  /\ conn' = IF conn = "open" THEN "broken" ELSE conn
  /\ request' = "none" /\ reply' \in {reply, "none"}
  /\ UNCHANGED <<pc, synced, clock, hostVars>>

AgentStarts ==
  /\ agent = "down"
  /\ agent' = "up"
  /\ UNCHANGED <<pc, conn, request, reply, synced, clock, hostVars, crashes>>

\* Nothing happens any more.
Rest == wakes = MaxWakes /\ UNCHANGED vars

Next == Goroutine \/ HostSleeps \/ AgentAnswers \/ AgentStops \/ AgentStarts \/ Rest

\* The goroutine is scheduled; an agent that runs answers, and one that does not
\* run is started again.
Fairness ==
  /\ WF_vars(Goroutine)
  /\ WF_vars(AgentAnswers)
  /\ WF_vars(AgentStarts)

Spec == Init /\ [][Next]_vars /\ Fairness

------------------------------------------------------------------------------
\* Correctness.

\* A good answer that was read, with no notification left to handle, means that
\* the guest clock is right: a time that grew old on its way is always followed
\* by another one.
SyncedIsRight == (synced /\ awake = 0 /\ pc = "wait") => clock = "right"

WakeSetsClock == (awake > 0) ~> (clock = "right")

NeverRefuses == [](reply # "refused")

\* With an agent that always runs and never refuses, the clock is set after
\* every sleep.
ReliableAgentSetsClock == ([](agent = "up") /\ NeverRefuses) => WakeSetsClock
===============================================================================
