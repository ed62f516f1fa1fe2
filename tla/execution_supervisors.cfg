CONSTANTS
  None = None
  p1 = p1  p2 = p2  e1 = e1  e2 = e2  n1 = n1  n2 = n2  q1 = q1  d1 = d1
  Workflows = {w1}
  Names = {n1}
  ExecutorIds = {e1, e2}
  Executions = {x1}
  Queues = {q1}
  DedupIds = {}
  MaxTime = 2
  Processes = {p1, p2}
  IdOf <- OwnIds
  Handles <- AllHandle
  Polled <- AllPoll
  BatchSize = 1
  Requests <- DelayedQueued
  Clients = {c1, c2}
  Budget <- SupervisorsBudget
SPECIFICATION Spec
INVARIANTS NotBeforeDue
CHECK_DEADLOCK FALSE
