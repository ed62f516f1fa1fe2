CONSTANTS
  None = None
  p1 = p1  p2 = p2  e1 = e1  e2 = e2  n1 = n1  n2 = n2  q1 = q1  d1 = d1
  Workflows = {w1, w2}
  Names = {n1}
  ExecutorIds = {e1}
  Executions = {x1, x2}
  Queues = {q1}
  DedupIds = {d1}
  MaxTime = 0
  Processes = {p1}
  IdOf <- OneId
  Handles <- AllHandle
  Polled <- AllPoll
  BatchSize = 1
  Requests <- Deduplicated
  Clients = {c1}
  Budget <- ManageBudget
SPECIFICATION Spec
INVARIANTS DedupUnique
SYMMETRY Interchangeable
CHECK_DEADLOCK FALSE
