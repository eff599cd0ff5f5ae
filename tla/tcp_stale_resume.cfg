SPECIFICATION Spec
CONSTANTS
  a = a
  b = b
  c = c
  None = None
  Ops = {b}
  Sockets = {c1, c2}
  Kind <- KindOf
  WithTables = {}
  QueryTimeout = TRUE
  StaleResume = TRUE
  MayStall = FALSE
  Chatter = {"Data"}
  MaxChatter = 1
  MaxBatches = 1
INVARIANT SuccessorUntouched
CHECK_DEADLOCK FALSE
