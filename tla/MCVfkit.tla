------------------------------- MODULE MCVfkit -------------------------------
(* Sets of requests for the instances of Vfkit that TLC checks.             *)
EXTENDS Vfkit

AllRequests == {"Pause", "Resume", "Stop", "HardStop"}
StopRequests == {"Stop", "HardStop"}
==============================================================================
