SPECIFICATION Spec
CONSTANTS
  first = first
  second = second
  NoExec = NoExec
  Exec = {first, second}
  Name <- OneName
  Check = {}
  HasHandoff = TRUE
  EnumFails = FALSE
  ObserveFails = FALSE
  WriteFails = FALSE
INVARIANTS
  TypeOK
  SignalsReachOwn
  RecordCoversLive
  SweepIsLast
