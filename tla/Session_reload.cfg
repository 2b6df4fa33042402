INIT ReloadInit
NEXT Next
CONSTANTS
  NameOrder <- Sorted
  MaxPort = 3
  DefaultPort = 3
  Supervisor = {"one", "two"}
  SessionName = {"A", "B"}
  Resource = {"db"}
  Identity <- Spelled
  MaxTries = 3
  MaxOutside = 1
  Reloads <- ReloadChoices
  AttemptID <- IDs
  Retained = 1
  MaxGen = 2
  Runs <- CheckRuns
  Repeats = {1, 2}
  Cap = 2
INVARIANT
  UpstreamsPinned
CHECK_DEADLOCK FALSE
