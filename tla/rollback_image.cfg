SPECIFICATION Spec

CONSTANTS
  Apps = {a1}
  Deploys = {d1, d2, d3}
  Handlers = {h1}
  Images = {i1}
  Built = {b1}
  None = None
  Broken = Broken
  TalosBuilt = {a1}
  External = FALSE
  Modes = {"domain"}
  Ops = {"deploy", "rollback"}
  CoarseClock = FALSE
  Faults = {}
  MaxPort = 0
  MaxCrashes = 0

SYMMETRY Symmetry

INVARIANT RollbackKeepsImage

\* The workload is bounded by the deploy ids that are left.
CHECK_DEADLOCK FALSE
