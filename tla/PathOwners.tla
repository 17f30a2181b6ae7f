------------------------------ MODULE PathOwners ------------------------------
(***************************************************************************)
(* What processes that make files at shared paths promise each other: a    *)
(* path is taken only when it is free, only the process that took it gives *)
(* it up, and one that ended does neither, so that what it left stays. The *)
(* promise to leave the others' paths alone ends with the first intrusion. *)
(***************************************************************************)
CONSTANTS
  Process,   \* the processes
  Path,      \* the paths
  None       \* the owner of a path that is free

VARIABLES
  owner,     \* the process that made the file at each path
  gone,      \* processes that ended
  intruders  \* processes that removed what was at a path they never took

vars == <<owner, gone, intruders>>

Init == owner = [a \in Path |-> None] /\ gone = {} /\ intruders = {}

Remove(paths) == owner' = [a \in Path |-> IF a \in paths THEN None ELSE owner[a]]

Take(p, a) ==
  /\ owner[a] = None
  /\ owner' = [owner EXCEPT ![a] = p]
  /\ UNCHANGED <<gone, intruders>>

GiveUp(p, paths) ==
  /\ intruders = {} => \A a \in paths : owner[a] = p
  /\ Remove(paths)
  /\ UNCHANGED <<gone, intruders>>

Intrude(p, a) ==
  /\ Remove({a})
  /\ intruders' = intruders \cup {p}
  /\ UNCHANGED gone

EndOf(p) ==
  /\ gone' = gone \cup {p}
  /\ UNCHANGED <<owner, intruders>>

Next ==
  \E p \in Process \ gone :
    \/ \E a \in Path : Take(p, a) \/ Intrude(p, a)
    \/ \E paths \in SUBSET Path : GiveUp(p, paths)
    \/ EndOf(p)

Spec == Init /\ [][Next]_vars
===============================================================================
