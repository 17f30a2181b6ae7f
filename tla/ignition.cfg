SPECIFICATION Spec
CONSTANTS
  Request = {r1, r2, r3}
  Chunks = 2
SYMMETRY Symmetry
INVARIANTS TypeOK WholeWhenAlone 
