SPECIFICATION Spec
CONSTANTS
  first = first
  second = second
  NoExec = NoExec
  Exec = {first}
  Name <- OneName
  Check = {first}
  HasHandoff = TRUE
  EnumFails = TRUE
  ObserveFails = TRUE
  WriteFails = TRUE
INVARIANTS
  KilledBeforeSealed
  VerdictSound
  EscapesReported
