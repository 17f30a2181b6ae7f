SPECIFICATION Spec
CONSTANTS
  Client = {c1, c2}
  MaxRequests = 3
INVARIANTS EndIsConsistent AcceptedIsDone
PROPERTIES ChangesAreAtomic Answered
