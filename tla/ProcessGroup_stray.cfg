SPECIFICATION Spec
CONSTANTS
  first = first
  second = second
  NoExec = NoExec
  Exec = {first}
  Name <- OneName
  Check = {first}
  HasHandoff = TRUE
  EnumFails = FALSE
  ObserveFails = FALSE
  WriteFails = FALSE
INVARIANTS
  NoStraySignal
