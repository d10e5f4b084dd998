SPECIFICATION FairSpec

CONSTANTS
  Apps = {a1}
  Deploys = {d1, d2}
  Handlers = {h1, h2}
  Images = {i1}
  Built = {}
  None = None
  Broken = Broken
  TalosBuilt = {}
  External = FALSE
  Modes = {"domain"}
  Ops = {"deploy", "rollback"}
  CoarseClock = TRUE
  Faults = {"db"}
  MaxPort = 0
  MaxCrashes = 1

PROPERTY DeploysExclude

\* The workload is bounded by the deploy ids that are left.
CHECK_DEADLOCK FALSE
