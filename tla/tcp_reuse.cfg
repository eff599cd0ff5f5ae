SPECIFICATION Spec
CONSTANTS
  a = a
  b = b
  c = c
  None = None
  Ops = {a, b, c}
  Sockets = {c1}
  Kind <- KindOf
  WithTables <- OnlyA
  QueryTimeout = TRUE
  StaleResume = FALSE
  MayStall = TRUE
  Chatter = {"Data", "Progress", "TimezoneUpdate", "TableColumns"}
  MaxChatter = 1
  MaxBatches = 1
INVARIANTS TypeOK CleanReuse OwnPackets CancelOwn
CHECK_DEADLOCK FALSE
