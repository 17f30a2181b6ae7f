--------------------------- MODULE MCIgnitionServer ---------------------------
(* Symmetry of the instances of IgnitionServer that TLC checks.              *)
EXTENDS IgnitionServer, TLC

Symmetry == Permutations(Request)
===============================================================================
