CONSTANTS
  None = None
  Workflows = {w1}
  Names = {n1, n2}
  ExecutorIds = {e1}
  Executions = {x1, x2, x3}
  Queues = {}
  DedupIds = {}
  MaxTime = 0
  Backends = {"postgres", "turso"}
  Ops <- AllOps
  Related = 2
  Faults = 2
SPECIFICATION Spec
SYMMETRY Interchangeable
INVARIANTS ClaimAnswers OneHistory ImportIsWhole
PROPERTY AtomicStatements
CHECK_DEADLOCK FALSE
