SPECIFICATION LiveSpec
CONSTANTS
  NULL = NULL
  n1 = n1
  Nodes = {n1, n2}
  Events = {0, 1}
  MaxTasks = 1
  Periods = {0}
  Offsets = {1}
  Iterations = {}
  Calls = {"oneShot", "timer", "event", "control"}
  IsIdle = FALSE
  MaxLag = 1
  TimeMod = 12
INVARIANTS WakeInv
PROPERTIES NoEventLost CollectKeepsExecutions AllServed
