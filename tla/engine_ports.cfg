SPECIFICATION Spec

CONSTANTS
  Apps = {a1, a2}
  Deploys = {d1, d2}
  Handlers = {h1}
  Images = {i1}
  Built = {}
  None = None
  Broken = Broken
  TalosBuilt = {}
  External = TRUE
  Modes = {"domain", "port"}
  Ops = {"deploy", "rollback", "update"}
  CoarseClock = FALSE
  Faults = {"db", "stop"}
  MaxPort = 2
  MaxCrashes = 1

SYMMETRY Symmetry

INVARIANT LiveIsFinished
PROPERTY ImplementsBlueGreen
PROPERTY SuccessorStops

\* The workload is bounded by the deploy ids that are left.
CHECK_DEADLOCK FALSE
