SPECIFICATION Spec
CONSTANTS
  db = db
  api = api
  job = job
  Proc = {db, job}
  DependsOn <- ChainDeps
  Mode <- ChainMode
  Restart <- FreeRestart
  MaxRestarts <- FreeMax
  ReadyWhen <- FreeReady
  HealthRestart = {}
  Faulty = {}
  HasIPC = TRUE
  HasHandoff = FALSE
  MaxRequests = 0
INVARIANTS
  StopFailsNobody
