CONSTANTS
  None = None
  Schedules = {d1}
  d1 = d1
  Supervisors = {p1, p2}
  Users = {u1}
  MaxTime = 3
  Ranges <- FromOne
  Cron <- OneSchedule
  Budget = 2
SPECIFICATION Spec
INVARIANTS TypeOK FiredOnce NoGap StopHolds BackfillWhole
PROPERTY CaughtUp
CHECK_DEADLOCK FALSE
