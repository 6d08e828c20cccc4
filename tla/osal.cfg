SPECIFICATION MCSpec
CONSTANTS
  a = a
  b = b
  c = c
  Threads = {a, b, c}
  NoThread = NoThread
  InitialValue = 1
  MaxValue = 2
  Counts = {1, 2}
  Timeouts = {2}
  TimeMod = 8
  StopTime = 1
  MaxLag = 1
  Pool = {p1, p2}
  Heap = {h1}
  Clients = {a, b}
  NoBlock = NoBlock
  Ids = {0, 1}
  RndThreads = {a, b}
  RndNone = NoThread
  BlockSize = 2
  CacheSize = 3
  ReadSizes = {1, 4}
  ReseedSize = 4
  TextSizes = {1, 4}
  TextQSize = 3
  LogThreads = {a, b}
  NumFreeEvents = 2
  RingSize = 6
  LineLens = {1, 2, 3, 4}
  PayloadMod = 3
  TiTasks = {a, b}
  TiNone = NoThread
  TiMaxDepth = 2
  TiMaxCnt = 2
  TiMaxInc = 2
  TiMaxDisables = 2
  Tasks = {a, b, c}
  ThreadIds = {i1, i2}
  NoId = NoId
  Ports = {"posix", "win32", "freertos", "tirtos"}
  IdsReused = TRUE
  MxThreads = {a, b, c}
  MxNobody = NoThread
  MxPorts = {"posix", "win32", "freertos"}
  MxTimeouts = {0, 2}
  MxForever = 3
  MxDelete = 3
  MxMaxDepth = 2
  SlPorts = {"posix", "win32", "freertos"}
  SlTimes = {0, 1, 3}
  SlStarts = {0, 7, 14, 15}
  SlMod = 16
  SlLate = 2
  WinThreads = {a, b}
  WinNone = NoThread
  WinMaxDepth = 2
  WinMaxTime = 4
  WinMaxHooks = 3
  BufLenWords = 3
  WordBytes = 4
  AllocSizes = {1, 4, 5, 8}
  PoolBlocks = {p1, p2}
  SfThreads = {a, b}
  SfNobody = NoThread
  NumTasks = 1
  NumIsrEvents = 2
  EvtMod = 4
  PrioMod = 4
  SfTriggers = {o1, o2}
  SfFns = {f, g}
  SfHeap = {h1}
  SfOwn = {h2}
  PsTasks = {a, b}
  PsPorts = {"win32", "freertos"}
  PsInitial = 1
  PsMax = 2
  PsCounts = {2}
  MmThreads = {a, b}
  MmNobody = NoThread
  MmNodes = {p1, p2}
  MmHandles = {h1, h2, h3}
  MmNull = NoBlock
  TmMod = 8
  TmDelays <- MCDelays
  PxThreads = {a, b, c}
  PxNobody = NoThread
  PxMaxDepth = 2
INVARIANTS
  SemaphoresHonest SectionExclusive WinCriticalExclusive TiMutexExclusive
  TimeKept HandedOutOnce ReadsUseNewSeed LogKeepsLines TasksKeepTheirOwn FrontConsistent
PROPERTIES
  IsCountingSemaphore DestroyedUnheld CallsReturn
CHECK_DEADLOCK FALSE
