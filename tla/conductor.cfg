CONSTANTS
  None = None
  Tasks = {k1, k2}
  Requests = {r1, r2}
  Ids = {i1, i2}
  r1 = r1  r2 = r2  i1 = i1  i2 = i2
  Batch <- TwoBatches
  Bad = {r2}
  MaxSends = 2
  Budget <- Troubled
SPECIFICATION Spec
INVARIANTS TypeOK OkMeansAll OncePerSending NoneForgotten NothingAfterShutdown
PROPERTIES ShutdownReturns Reconnects
CHECK_DEADLOCK FALSE
