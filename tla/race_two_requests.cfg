SPECIFICATION Spec

CONSTANTS
  Apps = {a1}
  Deploys = {d1, d2}
  Handlers = {h1, h2}
  Images = {i1}
  Built = {}
  None = None
  Broken = Broken
  TalosBuilt = {}
  External = FALSE
  Modes = {"domain"}
  Ops = {"deploy"}
  CoarseClock = FALSE
  Faults = {}
  MaxPort = 0
  MaxCrashes = 0

SYMMETRY Symmetry

INVARIANT OneDeployPerApp

\* The workload is bounded by the deploy ids that are left.
CHECK_DEADLOCK FALSE
