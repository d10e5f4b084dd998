SPECIFICATION Spec

CONSTANTS
  Workers = {w1, w2}
  Retain = 1
  None = None
  LastSecond = 1
  LastId = 3
  Faults = {"disk"}
  Mishaps = 1

SYMMETRY Symmetry

INVARIANT ArchivesAreWhole

\* The workload is bounded by the ids that are left.
CHECK_DEADLOCK FALSE
