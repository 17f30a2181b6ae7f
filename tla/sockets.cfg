SPECIFICATION Spec
CONSTANTS
  Process = {p1, p2}
  Path = {x, y}
  Port = {t}
  None = None
INVARIANTS LiveSocketKept CleanExitLeavesNothing
PROPERTIES  PathsOwned
