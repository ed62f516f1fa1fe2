SPECIFICATION Spec
CONSTANTS
  n1 = n1
  n2 = n2
  n3 = n3
  None = None
  StepNames = {n1, n2, n3}
  Body <- Sequential
  Statements = 4
  LastExecution = 2
  Overlap = TRUE
  Budget <- AllEvents
INVARIANTS TypeOK NoUnexpectedStep
PROPERTIES RecordedNotRerun RowsKeepTheirCall DurableOutcomes
CHECK_DEADLOCK FALSE
