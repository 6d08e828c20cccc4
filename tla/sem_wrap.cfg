SPECIFICATION Spec
CONSTANTS
  NoThread = NoThread
  Threads = {t1}
  InitialValue = 0
  MaxValue = 1
  Counts = {1}
  Timeouts = {2}
  TimeMod = 8
  StopTime = 8
  MaxLag = 2
PROPERTIES TimedWaitKeepsTime
