SPECIFICATION Spec
CONSTANTS
  db = db
  api = api
  job = job
  Proc = {db, api}
  DependsOn <- PairDeps
  Mode <- PairMode
  Restart <- PairRestart
  MaxRestarts <- PairMax
  ReadyWhen <- PairReady
  HealthRestart = {}
  Faulty = {db}
  HasIPC = TRUE
  HasHandoff = FALSE
  MaxRequests = 1
INVARIANTS
  TypeOK
  DependencyOrder
  EndedIsSettled
  OverIsOver
  PendingKeepsAlive
  RestartsBounded
PROPERTIES
  VerdictsFinal
