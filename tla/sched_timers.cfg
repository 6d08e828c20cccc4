SPECIFICATION BothSpec
CONSTANTS
  NULL = NULL
  Nodes = {n1, n2}
  Events = {0}
  MaxTasks = 2
  Periods = {0, 1}
  Offsets = {0, 1}
  Iterations = {2}
  Calls = {"oneShot", "timer", "cancel", "isr"}
  IsIdle = FALSE
  MaxLag = 1
  TimeMod = 14
SYMMETRY Symmetry
INVARIANTS TypeOK ListsInOrder EarliestTimerCovered
PROPERTIES PeriodicStaysScheduled
