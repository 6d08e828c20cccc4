SPECIFICATION MCSpec
CONSTANTS
  a = a
  b = b
  Size = 2
  Values = {a, b}
  MaxLen = 3
  Readers = {r}
  WrCntProt = TRUE
  RdCntProt = TRUE
  UIntMod = 16
  RingBytes = 4
  ItemBytes = 2
  RingValues = {0, 1}
  Nodes = {1, 2, 3}
  Lists = {L, M}
  TmpList = T
  Null = null
  Key <- MCKey
  AfterLast = FALSE
  Chars = {1, 2}
  InitialSize = 2
  Texts <- MCTexts
  MaxText = 5
  LastYear = 2099
  SecondsOfDay = {0, 86399}
  w1 = w1
  w2 = w2
  Waves = {w1, w2}
  NoWave = none
  WaveId <- MCWaveId
  MaxSets = 3
  Columns = 5
  Rows = 4
  XMax = 4
  YMax = 3
  Curves <- MCCurves
  MaxPoints = 3
  PointXs = {1, 2, 4}
  PointYs = {0, 3}
  GdLimits <- MCLimits
  GdUnits = {2, 4}
  GdParts = 2
  GdExponents = 5
  HexBytes = {0, 171, 16}
  MaxHexBytes = 3
  MaxHexText = 4
  BufSizes = {1, 2, 3, 4, 5, 6, 7, 8, 9}
  Delims <- MCDelims
  UuidGroups <- MCGroups
  NumMod = 65536
  NumValues <- MCNumbers
  NumSizes = {3, 4, 5, 32}
  DstSizes = {1, 2, 3, 4, 8}
  Words <- MCWords
  CrcBytes <- MCCrcBytes
  MaxCrcBytes = 4
  Hosts = {"LE", "BE"}
  Widths = {2, 4, 8}
  WordBytesOf = {0, 1}
  SplitLens = {0, 1, 2, 3, 4, 5, 6, 7, 8}
  LineSizes = {1, 2, 3}
INVARIANTS
  DataInv RingHoldsLast ListsHoldSequences StringsHoldText
  DatesRight CodesReadBack TextFits PlotShows
PROPERTIES
  IsByteFifo RedrawReturns
CHECK_DEADLOCK FALSE
