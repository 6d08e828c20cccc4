SPECIFICATION ReschedSpec
CONSTANTS
  NULL = NULL
  Self = r
  Nodes = {r}
  Delays = {0}
  CanDestroy = TRUE
  Events = {}
  MaxTasks = 1
  Periods = {0}
  Offsets = {1}
  Iterations = {}
  Calls = {"oneShot"}
  IsIdle = FALSE
  MaxLag = 1
  TimeMod = 10
PROPERTIES LocksBalanced
