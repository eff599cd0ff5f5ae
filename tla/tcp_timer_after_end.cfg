SPECIFICATION Spec
CONSTANTS
  a = a
  b = b
  c = c
  None = None
  Ops = {a}
  Sockets = {c1}
  Kind <- KindOf
  WithTables = {}
  QueryTimeout = TRUE
  StaleResume = FALSE
  MayStall = FALSE
  Chatter = {"Data"}
  MaxChatter = 1
  MaxBatches = 1
PROPERTY TimersSpareFinished
CHECK_DEADLOCK FALSE
