SPECIFICATION FairSpec
CONSTANTS
  a = a
  b = b
  c = c
  None = None
  Ops = {a, b}
  Sockets = {c1}
  Kind <- KindOf
  WithTables = {}
  QueryTimeout = TRUE
  StaleResume = FALSE
  MayStall = TRUE
  Chatter = {"Data"}
  MaxChatter = 1
  MaxBatches = 1
PROPERTIES TimedQueryEnds DrainEnds BusyEnds
CHECK_DEADLOCK FALSE
