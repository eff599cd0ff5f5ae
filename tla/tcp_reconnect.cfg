SPECIFICATION Spec
CONSTANTS
  a = a
  b = b
  c = c
  None = None
  Ops = {a, b, c}
  Sockets = {c1, c2}
  Kind <- KindOf
  WithTables = {}
  QueryTimeout = TRUE
  StaleResume = FALSE
  MayStall = FALSE
  Chatter = {"Data"}
  MaxChatter = 1
  MaxBatches = 1
INVARIANTS OneOwner SuccessorUntouched NoLeakedSocket
PROPERTIES StaleEndsQuietly ImplementsSession
CHECK_DEADLOCK FALSE
