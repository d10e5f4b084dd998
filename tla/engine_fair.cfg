SPECIFICATION FairSpec

CONSTANTS
  Apps = {a1}
  Deploys = {d1, d2}
  Handlers = {h1}
  Images = {i1}
  Built = {b1, b2}
  None = None
  Broken = Broken
  TalosBuilt = {a1}
  External = FALSE
  Modes = {"domain", "port"}
  Ops = {"deploy", "rollback"}
  CoarseClock = FALSE
  Faults = {"stop", "route"}
  MaxPort = 1
  MaxCrashes = 0

INVARIANT RollbackRunsSameImage
INVARIANT InProgressIsBacked
PROPERTY DeployEnds

\* The workload is bounded by the deploy ids that are left.
CHECK_DEADLOCK FALSE
