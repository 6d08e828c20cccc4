SPECIFICATION FairSpec
CONSTANTS
  NULL = NULL
  Nodes = {n1, n2}
  Events = {}
  MaxTasks = 1
  Periods = {0}
  Offsets = {1}
  Iterations = {}
  Calls = {"idlePoller"}
  IsIdle = TRUE
  MaxLag = 1
  TimeMod = 12
PROPERTIES IdlePollerRuns
