SPECIFICATION Spec
CONSTANTS
  NoTrans = NoTrans
  Infinite = Infinite
  HeapTrans = {t1}
  PoolTrans = {p1}
  Length = 2
  HalfRange = 2
  Timeouts = {1, Infinite}
  Readers = {r1}
  DriverDirs = {"TX"}
  PurgedDevices = {"serial", "udp"}
  MaxOutstanding = 1
INVARIANTS OwnedOnce ExpiryExact CommitsOwn
PROPERTIES IsTransferQueue EventuallyReturned

