----------------------------- MODULE AtomicChanges -----------------------------
(***************************************************************************)
(* What clients that change the state of a machine may rely on, however    *)
(* many there are: only one change is made at a time, and a client that    *)
(* asks meanwhile, or for what the machine cannot do, is refused and has   *)
(* changed nothing; a change is made at one moment, which is when its      *)
(* client is told so; and one that the machine fails during fails.         *)
(***************************************************************************)
CONSTANT Client

VARIABLES
  machine,   \* "off", "running", "paused", "closing", "stopped" or "failed"
  request,   \* the change that each client asked for
  reply      \* how far it is: "idle", "changing", "accepted" or "failed"

vars == <<machine, request, reply>>

Init ==
  /\ machine = "off"
  /\ request = [c \in Client |-> "none"]
  /\ reply = [c \in Client |-> "idle"]

Up == machine \in {"running", "paused", "closing"}

Busy == \E c \in Client : reply[c] = "changing"

Allowed(change) ==
  \/ change \in {"Pause", "Stop"} /\ machine = "running"
  \/ change = "Resume" /\ machine = "paused"
  \/ change = "HardStop" /\ machine \in {"running", "paused"}

Made == [Pause |-> "paused", Resume |-> "running", HardStop |-> "stopped"]

Tell(c, answer) == reply' = [reply EXCEPT ![c] = answer]

Ask(c, change) ==
  /\ reply[c] = "idle"
  /\ request' = [request EXCEPT ![c] = change]

\* A machine that is being stopped is of no use to anybody from then on.
Begin(c, change) ==
  /\ change \in DOMAIN Made /\ ~Busy /\ Allowed(change)
  /\ Ask(c, change) /\ Tell(c, "changing")
  /\ machine' = IF change = "HardStop" THEN "closing" ELSE machine

\* Stop leaves it to the guest to do something about it.
PressButton(c) ==
  /\ ~Busy /\ Allowed("Stop")
  /\ Ask(c, "Stop") /\ Tell(c, "accepted")
  /\ UNCHANGED machine

Refuse(c, change) ==
  /\ Busy \/ ~Allowed(change)
  /\ Ask(c, change) /\ Tell(c, "failed")
  /\ UNCHANGED machine

Make(c) ==
  /\ reply[c] = "changing"
  /\ machine' = Made[request[c]]
  /\ Tell(c, "accepted")
  /\ UNCHANGED request

Leave(c) ==
  /\ reply[c] \in {"accepted", "failed"}
  /\ Tell(c, "idle")
  /\ request' = [request EXCEPT ![c] = "none"]
  /\ UNCHANGED machine

PowerOn ==
  /\ machine = "off"
  /\ machine' \in {"running", "stopped", "failed"}
  /\ UNCHANGED <<request, reply>>

PowerOff ==
  /\ machine = "running" /\ ~Busy
  /\ machine' = "stopped"
  /\ UNCHANGED <<request, reply>>

Break ==
  /\ Up
  /\ machine' = "failed"
  /\ reply' = [c \in Client |-> IF reply[c] = "changing" THEN "failed" ELSE reply[c]]
  /\ UNCHANGED request

Next ==
  \/ \E c \in Client : PressButton(c) \/ Make(c) \/ Leave(c)
  \/ \E c \in Client, change \in {"Pause", "Resume", "Stop", "HardStop", "other"} :
       Begin(c, change) \/ Refuse(c, change)
  \/ PowerOn \/ PowerOff \/ Break

Spec == Init /\ [][Next]_vars
================================================================================
