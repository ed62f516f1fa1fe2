CONSTANTS
  None = None
  p1 = p1  p2 = p2  e1 = e1  e2 = e2  n1 = n1  n2 = n2  q1 = q1  d1 = d1
  Workflows = {w1}
  Names = {n1, n2}
  ExecutorIds = {e1, e2}
  Executions = {x1, x2}
  Queues = {}
  DedupIds = {}
  MaxTime = 0
  Processes = {p1, p2}
  IdOf <- OwnIds
  Handles <- FirstLacksOne
  Polled <- AllPoll
  BatchSize = 1
  Requests <- AnyName
  Clients = {c1}
  Budget <- CrashBudget
SPECIFICATION Spec
INVARIANTS TypeOK GrantsBounded ExclusiveExecution NoForgottenClaim
