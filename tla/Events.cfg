SPECIFICATION Spec
CONSTANTS
  Observers <- AllObservers
  api = api
  db = db
  Names <- TwoNames
  Metrics = metrics
  MaxSize = 1
  MaxFiles = 2
  Limit = 2
  Attempts = 2
  History = 2
  QueueCap = 1
  MaxEvents <- EventsOf
  MaxRuns = 2
  MaxChanges <- ChangesOf
  MaxTicks = 1
  MaxLogs = 3
  PageRows = 1
  MaxOffset = 2
INVARIANTS
  JournalWhole
  PagesExact
  StreamExact
  WaiterSound
PROPERTIES
  ViewSteady
CHECK_DEADLOCK FALSE
