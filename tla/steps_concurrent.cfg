SPECIFICATION FairSpec
CONSTANTS
  n1 = n1
  n2 = n2
  n3 = n3
  None = None
  StepNames = {n1, n2, n3}
  Body <- Concurrent
  Statements = 5
  LastExecution = 2
  Overlap = FALSE
  Budget <- OneCrash
INVARIANTS
  AnswersOnRecord
  NobodyStuck
PROPERTIES
  NeverOverwritten
  ExecutionsEnd
CHECK_DEADLOCK FALSE
