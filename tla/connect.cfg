SPECIFICATION FairSpec
CONSTANTS
  a1 = a1
  a2 = a2
  a3 = a3
  None = None
  Attempts <- Three
  Overlap = "given up"
INVARIANTS WholeOrNothing NoOrphan
PROPERTIES ResolvedIsUsable ConnectReturns
CHECK_DEADLOCK FALSE
