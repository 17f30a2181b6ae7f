SPECIFICATION Spec
CONSTANTS
  Request = {r1, r2}
  Chunks = 2
INVARIANTS EveryResponseIsTheFile
