-------------------------------- MODULE Crc ----------------------------------
(***************************************************************************)
(* The checksums of crc.cpp.  A word is the set of the numbers of its bits *)
(* that are one, so that shifts move and exclusive or compares; a sum can  *)
(* be continued as data arrive, which is how the state goes on.            *)
(***************************************************************************)
EXTENDS Integers, Sequences, SequencesExt, FiniteSets

CONSTANTS CrcBytes,    \* bytes of the data, as sets of bits
          MaxCrcBytes  \* bound: length of the data

ASSUME CrcAssumption == CrcBytes \subseteq SUBSET (0 .. 7) /\ MaxCrcBytes \in Nat

VARIABLES
  crcData,     \* the bytes so far
  crcSums      \* the sums that were continued byte by byte

crcVars == <<crcData, crcSums>>

Xor(a, b) == (a \ b) \cup (b \ a)
Shr(a, k) == {i - k : i \in {j \in a : j >= k}}
Shl(a, k) == {i + k : i \in a}
Low(a, width) == a \cap 0 .. width - 1
Ones(width) == 0 .. width - 1

------------------------------------------------------------------------------
\* x ^= x >> 4 and three shifts do eight steps of 0x1021 at once.  The sum is an
\* unsigned int: what is shifted out of 16 bits stays until the return.
Step16_Shift11(crc, b) ==  \* (variant: 12 and 4 instead of 12 and 5)
  LET x0 == Low(Xor(Shr(crc, 8), b), 8)
      x == Xor(x0, Shr(x0, 4))
  IN Low(Xor(Xor(Xor(Shl(crc, 8), Low(Shl(x, 12), 16)), Low(Shl(x, 4), 16)), x), 32)
Step16(crc, b) ==
  LET x0 == Low(Xor(Shr(crc, 8), b), 8)
      x == Xor(x0, Shr(x0, 4))
  IN Low(Xor(Xor(Xor(Shl(crc, 8), Low(Shl(x, 12), 16)), Low(Shl(x, 5), 16)), x), 32)
AllSteps16(data, crc16) ==
  LET crc[k \in 0 .. Len(data)] == IF k = 0 THEN crc16 ELSE Step16(crc[k - 1], data[k])
  IN crc[Len(data)]
CRC_16_CONT(data, crc16) == Low(AllSteps16(data, crc16), 16)
CRC_16(data) == Low(AllSteps16(data, Ones(16)), 16)

poly == {31, 30, 29, 27, 26, 24, 23, 21, 20, 19, 15, 9, 8, 5} \* 0xEDB88320
EightSteps(temp) ==
  LET step[i \in 0 .. 8] == IF i = 0 THEN temp
                            ELSE IF 0 \in step[i - 1] THEN Xor(Shr(step[i - 1], 1), poly)
                            ELSE Shr(step[i - 1], 1)
  IN step[8]
CRC_32_CONT(data, crc32) ==
  LET crc[k \in 0 .. Len(data)] ==
        IF k = 0 THEN crc32
        ELSE Xor(Shr(crc[k - 1], 8), EightSteps(Low(Xor(crc[k - 1], data[k]), 8)))
  IN crc[Len(data)]
CRC_32_CONT_FINISH(crc) == Xor(crc, Ones(32))
CRC_32(data) == CRC_32_CONT_FINISH(CRC_32_CONT(data, Ones(32)))

\* Eight of the 256 entries; an entry is the sum of those of its index's bits.
tablePowers == <<
  {30, 29, 28, 26, 25, 24, 18, 17, 16, 13, 12, 7, 4, 2, 1},  \* [1] = 0x77073096
  {31, 30, 29, 27, 26, 25, 19, 18, 17, 14, 13, 8, 5, 3, 2},  \* [2] = 0xEE0E612C
  {26, 25, 24, 22, 21, 19, 18, 16, 15, 14, 10, 4, 3, 0},  \* [4] = 0x076DC419
  {27, 26, 25, 23, 22, 20, 19, 17, 16, 15, 11, 5, 4, 1},  \* [8] = 0x0EDB8832
  {28, 27, 26, 24, 23, 21, 20, 18, 17, 16, 12, 6, 5, 2},  \* [16] = 0x1DB71064
  {29, 28, 27, 25, 24, 22, 21, 19, 18, 17, 13, 7, 6, 3},  \* [32] = 0x3B6E20C8
  {30, 29, 28, 26, 25, 23, 22, 20, 19, 18, 14, 8, 7, 4},  \* [64] = 0x76DC4190
  {31, 30, 29, 27, 26, 24, 23, 21, 20, 19, 15, 9, 8, 5}>>  \* [128] = 0xEDB88320
crc32table(i) ==
  LET sum[k \in 0 .. 8] == IF k = 0 THEN {}
                            ELSE IF k - 1 \in i THEN Xor(sum[k - 1], tablePowers[k]) ELSE sum[k - 1]
  IN sum[8]
CRC_32_FAST(data, crc32, finish) ==
  LET crc[k \in 0 .. Len(data)] ==
        IF k = 0 THEN crc32
        ELSE Xor(crc32table(Low(Xor(crc[k - 1], data[k]), 8)), Shr(crc[k - 1], 8))
  IN IF finish THEN Xor(crc[Len(data)], Ones(32)) ELSE crc[Len(data)]

------------------------------------------------------------------------------
\* The reference: the remainder of the bits, first bit first, divided by the
\* polynomial x^16 + x^12 + x^5 + 1.
CcittBit(crc, bit) ==
  LET shifted == Low(Shl(crc, 1), 16)
  IN IF bit # (15 \in crc) THEN Xor(shifted, {12, 5, 0}) ELSE shifted
CcittByte(crc, b) ==
  LET after[k \in 0 .. 8] == IF k = 0 THEN crc ELSE CcittBit(after[k - 1], (8 - k) \in b)
  IN after[8]
Ccitt(data) ==
  LET crc[k \in 0 .. Len(data)] == IF k = 0 THEN Ones(16) ELSE CcittByte(crc[k - 1], data[k])
  IN crc[Len(data)]

CrcInit == crcData = <<>> /\ crcSums = [c16 |-> Ones(16), c32 |-> Ones(32), fast |-> Ones(32)]
CrcNext ==
  /\ Len(crcData) < MaxCrcBytes
  /\ \E b \in CrcBytes :
       /\ crcData' = Append(crcData, b)
       /\ crcSums' = [c16 |-> CRC_16_CONT(<<b>>, crcSums.c16),
                      c32 |-> CRC_32_CONT(<<b>>, crcSums.c32),
                      fast |-> CRC_32_FAST(<<b>>, crcSums.fast, FALSE)]

\* A sum continued byte by byte is the sum of the whole data, for all three; the
\* 16-bit one is CRC16-CCITT, and the table of CRC_32_FAST gives the sum of CRC_32
\* when it starts and ends as that does.
CrcSumsAgree ==
  /\ crcSums.c16 = CRC_16(crcData)
  /\ crcSums.c16 = Ccitt(crcData)
  /\ CRC_32_CONT_FINISH(crcSums.c32) = CRC_32(crcData)
  /\ CRC_32_FAST(crcData, Ones(32), TRUE) = CRC_32(crcData)
  /\ crcSums.fast = crcSums.c32
=============================================================================
