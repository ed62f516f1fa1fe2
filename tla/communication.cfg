CONSTANTS
  None = None
  Backends = {"memory", "sql"}
  Senders = {s1, s2}
  s1 = s1  s2 = s2
  Plans <- AnyPlan
  Wanted = 2
  LastExecution = 2
  Overlap <- Crossing
  Followed <- Reading
  Budget <- OneOfEach
  MaxTime = 2
SPECIFICATION Spec
INVARIANTS TypeOK ReceivedOnce SenderOrder NotLost StreamAgrees ReaderPrefix EventAnswered
CHECK_DEADLOCK FALSE
