SPECIFICATION Spec
CONSTANTS
  Size = 3
  Values = {a}
  MaxLen = 1
  Readers = {r1, r2}
  WrCntProt = TRUE
  RdCntProt = TRUE
  UIntMod = 16
INVARIANT CountWithinBuffer
