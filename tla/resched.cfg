SPECIFICATION ReschedFairSpec
CONSTANTS
  NULL = NULL
  Self = r
  Nodes = {r, n1}
  Delays = {0, 1}
  CanDestroy = TRUE
  Events = {}
  MaxTasks = 2
  Periods = {0}
  Offsets = {0}
  Iterations = {}
  Calls = {"oneShot"}
  IsIdle = FALSE
  MaxLag = 1
  TimeMod = 10
INVARIANTS ScheduledIsTrue DestroyedIsUnlisted ReschedulesInTime
PROPERTIES ReschedRuns
