SPECIFICATION FairSpec
CONSTANTS
  stop1 = stop1
  other = other
  svc = svc
  job = job
  td = td
  Client = {stop1, other}
  Wants <- WantsOf
  Proc = {svc, job, td}
  Mode <- Modes
  Managed = {svc, job}
  Teardown <- OneTeardown
  Files <- AllFiles
  CmdCap = 1
INVARIANTS
  ToldTheTruth
  TeardownIsCurrent
  ReloadHonest
PROPERTIES
  KeepsPromise
  CancelledExits
CHECK_DEADLOCK FALSE
