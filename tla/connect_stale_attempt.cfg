SPECIFICATION Spec
CONSTANTS
  a1 = a1
  a2 = a2
  a3 = a3
  None = None
  Attempts <- Three
  Overlap = "given up"
PROPERTY AttemptsKeepApart
CHECK_DEADLOCK FALSE
