SPECIFICATION Spec

CONSTANTS
  a1 = a1
  app = app
  web = web
  Apps = {a1}
  Repos = {app, web}
  Url <- MCUrl
  Contains <- MCContains
  Installations = {i1}
  Secret = FALSE
  Handlers = {h1}
  LastCommit <- MCLastCommit
  MaxEvents = 2
  None = None

INVARIANT EveryPushDeploys
