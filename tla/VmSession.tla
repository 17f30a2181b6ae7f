------------------------------ MODULE VmSession ------------------------------
(***************************************************************************)
(* What vfkit promises to whoever starts it: one virtual machine per       *)
(* process, a process that stays as long as the machine runs and ends when *)
(* it stops, and an exit status that tells how the machine ended.          *)
(***************************************************************************)

CONSTANT HasWindow   \* the session has a window, whose failure ends it

VARIABLES
  machine,   \* "off", "live", "stopped" or "failed"
  served,    \* the machine was seen running and its services were set up
  lost,      \* the window failed
  outcome    \* "none", "ok", "err" or "aborted"

vars == <<machine, served, lost, outcome>>

Down == machine \in {"stopped", "failed"}

Init == machine = "off" /\ served = FALSE /\ lost = FALSE /\ outcome = "none"

PowerOn ==
  /\ machine = "off"
  /\ machine' = "live"
  /\ UNCHANGED <<served, lost, outcome>>

PowerOff ==
  /\ machine = "live"
  /\ machine' \in {"stopped", "failed"}
  /\ UNCHANGED <<served, lost, outcome>>

Serve ==
  /\ machine # "off" /\ ~served
  /\ served' = TRUE
  /\ UNCHANGED <<machine, lost, outcome>>

LoseWindow ==
  /\ HasWindow /\ served /\ ~lost
  /\ lost' = TRUE
  /\ UNCHANGED <<machine, served, outcome>>

\* A session that served ends well after a machine that stopped, and with an
\* error after one that failed; one that never served, or lost its window, ends
\* with an error.
Finish ==
  /\ \/ served /\ machine = "stopped" /\ outcome' = "ok"
     \/ (machine = "failed" \/ ~served \/ lost) /\ outcome' = "err"
  /\ UNCHANGED <<machine, served, lost>>

\* The process is killed, or kills itself.
Abort == outcome' = "aborted" /\ UNCHANGED <<machine, served, lost>>

Next == outcome = "none" /\ (PowerOn \/ PowerOff \/ Serve \/ LoseWindow \/ Finish \/ Abort)

SafeSpec == Init /\ [][Next]_vars

\* A session does not outlive its machine.
Ends == WF_vars(outcome = "none" /\ Down /\ Finish)

Spec == SafeSpec /\ Ends
==============================================================================
