SPECIFICATION Spec

CONSTANTS
  Workers = {w1, w2}
  Retain = 1
  None = None
  LastSecond = 1
  LastId = 3
  Faults = {"db", "disk"}
  Mishaps = 2

SYMMETRY Symmetry

INVARIANT TypeOK
INVARIANT ArchivesMatchRecords
INVARIANT RetentionHolds
PROPERTY RetentionKeepsNewest

\* The workload is bounded by the ids that are left.
CHECK_DEADLOCK FALSE
