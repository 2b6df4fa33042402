SPECIFICATION FairSpec
CONSTANTS
  db = db
  api = api
  job = job
  Proc = {api, job}
  DependsOn <- JobDeps
  Mode <- JobMode
  Restart <- JobRestart
  MaxRestarts <- JobMax
  ReadyWhen <- JobReady
  HealthRestart = {api}
  Faulty = {api}
  HasIPC = TRUE
  HasHandoff = TRUE
  MaxRequests = 0
INVARIANTS
  ReadyIsCurrent
PROPERTIES
  WaitersReleased
  CancelEndsRun
  IdleStackStops
