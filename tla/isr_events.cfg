SPECIFICATION Spec
CONSTANTS
  NULL = NULL
  Nodes = {n1}
  Events = {0}
  MaxTasks = 1
  Periods = {0}
  Offsets = {1}
  Iterations = {}
  Calls = {"isr"}
  IsIdle = FALSE
  MaxLag = 1
  TimeMod = 10
PROPERTIES NoEventLost
