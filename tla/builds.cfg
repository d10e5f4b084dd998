SPECIFICATION Spec
CONSTANTS
  a1 = a1
  w1 = w1
  w2 = w2
  Apps <- MCApps
  Workers = {w1, w2}
  Names = {"api", "admin", "deep", "vendor", "server"}
  LastCommit = 2
  Scenarios <- MCScenarios
  Crashes = 1
  None = None
SYMMETRY Symmetry
INVARIANTS
  TypeOK
  ImagesAreOfTheirCommit
  OnlyCrashesLeaveDirectories
  RecipesFit
CHECK_DEADLOCK TRUE
