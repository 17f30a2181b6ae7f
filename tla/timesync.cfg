SPECIFICATION Spec
CONSTANTS
  MaxWakes = 3
  MaxCrashes = 2
INVARIANTS TypeOK SyncedIsRight
PROPERTIES ReliableAgentSetsClock
