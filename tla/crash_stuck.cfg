SPECIFICATION Spec

CONSTANTS
  Apps = {a1}
  Deploys = {d1, d2, d3}
  Handlers = {h1}
  Images = {i1}
  Built = {}
  None = None
  Broken = Broken
  TalosBuilt = {}
  External = FALSE
  Modes = {"domain"}
  Ops = {"deploy"}
  CoarseClock = FALSE
  Faults = {}
  MaxPort = 0
  MaxCrashes = 1

SYMMETRY Symmetry

INVARIANT InProgressIsBacked

\* The workload is bounded by the deploy ids that are left.
CHECK_DEADLOCK FALSE
