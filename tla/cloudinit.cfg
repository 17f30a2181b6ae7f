SPECIFICATION PfSpec
CONSTANTS
  Process = {p1, p2, p3}
  Pid = {i1, i2, i3}
  NoPid = NoPid
  WithPidFile = {p1, p2}
SYMMETRY Symmetry
INVARIANTS LiveImageKept CleanupLeavesNoStale OnlyKilledLeaveImages StrangersSpared
