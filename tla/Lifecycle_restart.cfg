SPECIFICATION FairSpec
CONSTANTS
  db = db
  api = api
  job = job
  Proc = {db, api}
  DependsOn <- FreeDeps
  Mode <- FreeMode
  Restart <- FreeRestart
  MaxRestarts <- FreeMax
  ReadyWhen <- FreeReady
  HealthRestart = {}
  Faulty = {}
  HasIPC = TRUE
  HasHandoff = FALSE
  MaxRequests = 1
PROPERTIES
  AcknowledgedRestart
