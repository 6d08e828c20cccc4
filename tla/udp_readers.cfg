SPECIFICATION Spec
CONSTANTS
  NoTrans = NoTrans
  Infinite = Infinite
  HeapTrans = {t1}
  PoolTrans = {p1}
  Length = 2
  HalfRange = 2
  Timeouts = {1, Infinite}
  Readers = {r1, r2}
  DriverDirs = {"TX"}
  PurgedDevices = {"serial"}
  MaxOutstanding = 2
INVARIANT BufferOwned

