SPECIFICATION Spec

CONSTANTS
  Services = {s1, s2}
  Names = {s3, ui}
  Garage = {s3}
  UI = ui
  WebUI <- MCWebUI
  Handlers = {h1, h2}
  None = None
  Ops = {"stop", "start", "delete", "bucket"}
  Faults = {"docker", "db", "disk"}
  MayCrash = TRUE

SYMMETRY Symmetry

INVARIANT TypeOK
INVARIANT ActiveRuns
PROPERTY NeverProvisionedAgain
PROPERTY CredentialsKept

\* The workload is bounded by the ids that are left.
CHECK_DEADLOCK FALSE
