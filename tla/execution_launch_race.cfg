CONSTANTS
  None = None
  p1 = p1  p2 = p2  e1 = e1  e2 = e2  n1 = n1  n2 = n2  q1 = q1  d1 = d1
  Workflows = {w1}
  Names = {n1}
  ExecutorIds = {e1}
  Executions = {x1, x2, x3}
  Queues = {q1}
  DedupIds = {}
  MaxTime = 0
  Processes = {p1}
  IdOf <- OneId
  Handles <- AllHandle
  Polled <- AllPoll
  BatchSize = 1
  Requests <- Queued
  Clients = {c1}
  Budget <- OneSubmit
SPECIFICATION Spec
INVARIANTS NoDuplicateExecution
