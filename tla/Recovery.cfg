INIT MCInit
NEXT MCNext
CONSTANTS
  lead = lead
  kid = kid
  late = late
  heir = heir
  squatter = squatter
  NoProc = NoProc
  Own = {lead, kid, late}
  Stranger = {heir, squatter}
  PidOf <- Pids
  EnumFails = TRUE
INVARIANTS
  OnlyOwnSignalled
  SuccessMeansGone
  NobodyForgotten
  OwnerProven
  ForeignRefused
CHECK_DEADLOCK FALSE
