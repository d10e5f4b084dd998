SPECIFICATION Spec

CONSTANTS
  Apps = {a1}
  Deploys = {d1, d2, d3}
  Handlers = {h1, h2}
  Images = {i1}
  Built = {}
  None = None
  Broken = Broken
  TalosBuilt = {}
  External = FALSE
  Modes = {"domain"}
  Ops = {"deploy", "rollback", "update"}
  CoarseClock = FALSE
  Faults = {"route"}
  MaxPort = 0
  MaxCrashes = 0

SYMMETRY Symmetry

INVARIANT TypeOK
INVARIANT RouteServed
PROPERTY ZeroDowntime

\* The workload is bounded by the deploy ids that are left.
CHECK_DEADLOCK FALSE
