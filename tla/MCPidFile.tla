------------------------------ MODULE MCPidFile ------------------------------
(* Symmetry of the instance of PidFile, and of the image directory below it, *)
(* that TLC checks.                                                          *)
EXTENDS PidFile, TLC

Symmetry == Permutations(WithPidFile) \cup Permutations(Process \ WithPidFile) \cup Permutations(Pid)
==============================================================================
