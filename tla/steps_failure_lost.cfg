SPECIFICATION Spec
CONSTANTS
  n1 = n1
  n2 = n2
  n3 = n3
  None = None
  StepNames = {n1, n2, n3}
  Body <- Units
  Statements = 2
  LastExecution = 2
  Overlap = FALSE
  Budget <- NoEvents
INVARIANTS
  FailureKept
CHECK_DEADLOCK FALSE
