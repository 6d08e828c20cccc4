----------------------------- MODULE ByteQProofs -----------------------------
(***************************************************************************)
(* Proofs about ByteQ with one reader and both sides protected, and about  *)
(* the ring of RingAccess, which one thread uses alone.                    *)
(***************************************************************************)
EXTENDS ByteQ, RingAccess, SequenceTheorems, TLAPS

\* What the queue is made for: one reader, and both changes of the count protected.
OneReader == WrCntProt /\ RdCntProt /\ \E r : Readers = {r}

LEMMA AdvanceType ==
  ASSUME NEW i \in Cells, NEW n \in 0 .. Size
  PROVE  Advance(i, n) \in Cells
BY ByteQAssumption DEF Advance, Cells

LEMMA AdvanceTwice ==
  ASSUME NEW i \in Cells, NEW m \in Nat, NEW n \in Nat, m + n <= Size
  PROVE  Advance(Advance(i, m), n) = Advance(i, m + n)
BY ByteQAssumption DEF Advance, Cells

LEMMA InsertType ==
  ASSUME NEW buf \in [Cells -> Values], NEW i \in Cells, NEW block \in Seq(Values)
  PROVE  Insert(buf, i, block) \in [Cells -> Values]
<1> SUFFICES ASSUME NEW c \in Cells, Behind(i, c) < Len(block)
             PROVE  block[Behind(i, c) + 1] \in Values
    BY DEF Insert
<1>1. Behind(i, c) + 1 \in 1 .. Len(block)
    BY ByteQAssumption DEF Behind, Cells
<1> QED BY <1>1

LEMMA StoredType ==
  ASSUME NEW buf \in [Cells -> Values], NEW i \in Cells, NEW n \in 0 .. Size
  PROVE  Stored(buf, i, n) \in Seq(Values) /\ Len(Stored(buf, i, n)) = n
<1>1. \A k \in 1 .. n : buf[Advance(i, k - 1)] \in Values
    BY AdvanceType, ByteQAssumption
<1> QED BY <1>1 DEF Stored

\* The remainder of the division by Size, of which the provers know little when Size is
\* not a number: it is unique, and the same one lap further on.
LEMMA ModMeans ==
  ASSUME NEW a \in Int
  PROVE  a % Size \in Cells /\ a \div Size \in Int /\ a = Size * (a \div Size) + (a % Size)
BY ByteQAssumption DEF Cells

LEMMA ModSmall ==
  ASSUME NEW a \in Cells
  PROVE  a % Size = a
BY ByteQAssumption DEF Cells

LEMMA RemainderUnique ==
  ASSUME NEW q1 \in Int, NEW q2 \in Int, NEW r1 \in Cells, NEW r2 \in Cells,
         Size * q1 + r1 = Size * q2 + r2
  PROVE  r1 = r2
<1>1. ASSUME NEW d \in Int, d >= 1 PROVE Size * d >= Size
    BY <1>1, ByteQAssumption
<1>2. Size * (q1 - q2) = r2 - r1 /\ Size * (q2 - q1) = r1 - r2
    BY ByteQAssumption DEF Cells
<1>3. CASE q1 = q2
    BY <1>2, <1>3, ByteQAssumption DEF Cells
<1>4. CASE q1 - q2 >= 1
    <2> DEFINE d == q1 - q2
    <2>1. Size * d >= Size
        BY <1>1, <1>4
    <2> QED BY <2>1, <1>2, ByteQAssumption DEF Cells
<1>5. CASE q2 - q1 >= 1
    <2> DEFINE d == q2 - q1
    <2>1. Size * d >= Size
        BY <1>1, <1>5
    <2> QED BY <2>1, <1>2, ByteQAssumption DEF Cells
<1> QED BY <1>3, <1>4, <1>5

LEMMA ModShift ==
  ASSUME NEW a \in Int
  PROVE  (a + Size) % Size = a % Size
<1> DEFINE b == a + Size  q == a \div Size  r == a % Size  q2 == b \div Size  r2 == b % Size
<1>1. a = Size * q + r /\ q \in Int /\ r \in Cells
    BY ModMeans
<1>2. b \in Int /\ b = a + Size
    BY ByteQAssumption
<1> HIDE DEF b
<1>3. b = Size * q2 + r2 /\ q2 \in Int /\ r2 \in Cells
    BY <1>2, ModMeans
<1> HIDE DEF q, r, q2, r2
<1>4. Size * (q + 1) = Size * q + Size
    BY <1>1, ByteQAssumption
<1>5. Size * (q + 1) + r = Size * q2 + r2
    BY <1>1, <1>2, <1>3, <1>4, ByteQAssumption DEF Cells
<1>6. q + 1 \in Int
    BY <1>1
<1>7. r = r2
    BY <1>1, <1>3, <1>5, <1>6, RemainderUnique
<1> QED BY <1>7 DEF r, r2, b

-----------------------------------------------------------------------------
Inv == TypeOK /\ IndexInv

LEMMA InvInit == ASSUME OneReader PROVE Init => Inv
<1> SUFFICES ASSUME Init PROVE Inv
    OBVIOUS
<1>1. 0 \in Cells /\ Advance(0, 0) = 0
    BY ByteQAssumption DEF Cells, Advance
<1>2. TypeOK
    BY <1>1, ByteQAssumption DEF Init, TypeOK
<1>3. IndexInv
    BY <1>1, ByteQAssumption
    DEF Init, IndexInv, CritHeld, CountLoaded, RoomForWrite, BytesForRead, IndicesAgree,
        Coming, Going
<1> QED BY <1>2, <1>3 DEF Inv

LEMMA BlockType ==
  ASSUME NEW block \in Blocks
  PROVE  block \in Seq(Values) /\ Len(block) \in 1 .. MaxLen
BY ByteQAssumption DEF Blocks

LEMMA WriterType ==
  ASSUME OneReader, Inv,
         \/ \E block \in Blocks : BeginWrite(block) \/ BeginFill(block)
         \/ CopyIn \/ LoadWrCount \/ StoreWrCount
  PROVE  TypeOK'
<1> USE ByteQAssumption DEF OneReader, Inv, TypeOK, buffer, writer, reader
<1>1. ASSUME NEW block \in Blocks, BeginWrite(block) \/ BeginFill(block) PROVE TypeOK'
    <2>1. toWrite' = block \/ toWrite' = << >>
        BY <1>1 DEF BeginWrite, BeginFill
    <2>2. block \in Seq(Values) /\ << >> \in Seq(Values)
        BY BlockType
    <2>3. toWrite' \in Seq(Values)
        BY <2>1, <2>2
    <2> QED BY <1>1, <2>3 DEF BeginWrite, BeginFill
<1>2. ASSUME CopyIn PROVE TypeOK'
    <2>1. Len(toWrite) \in 0 .. Size
        BY DEF IndexInv, RoomForWrite
    <2>2. nWrIdx' \in Cells
        BY <1>2, <2>1, AdvanceType DEF CopyIn
    <2>3. pfBuf' \in [Cells -> Values]
        BY <1>2, InsertType DEF CopyIn
    <2> QED BY <1>2, <2>2, <2>3 DEF CopyIn
<1>3. ASSUME LoadWrCount PROVE TypeOK'
    BY <1>3 DEF LoadWrCount
<1>4. ASSUME StoreWrCount PROVE TypeOK'
    <2>1. Plus(wCount, Len(toWrite)) \in 0 .. (UIntMod - 1)
        BY <1>4 DEF StoreWrCount, IndexInv, CountLoaded, RoomForWrite, Plus
    <2> QED BY <1>4, <2>1 DEF StoreWrCount
<1> QED BY <1>1, <1>2, <1>3, <1>4

LEMMA WriterIndex ==
  ASSUME OneReader, Inv,
         \/ \E block \in Blocks : BeginWrite(block) \/ BeginFill(block)
         \/ CopyIn \/ LoadWrCount \/ StoreWrCount
  PROVE  IndexInv'
<1> USE ByteQAssumption DEF OneReader, Inv, TypeOK, IndexInv, CritHeld, CountLoaded, RoomForWrite,
        BytesForRead, IndicesAgree, Coming, Going, buffer, writer, reader
<1>1. ASSUME NEW block \in Blocks, BeginWrite(block) \/ BeginFill(block) PROVE IndexInv'
    <2>1. Len(block) <= Minus(Size, nCount) => nCount + Len(block) <= Size
        BY BlockType DEF Minus
    <2>2. RoomForWrite'
        BY <1>1, <2>1, BlockType DEF BeginWrite, BeginFill
    <2>3. CritHeld' /\ CountLoaded'
        BY <1>1 DEF BeginWrite, BeginFill
    <2>4. BytesForRead' /\ IndicesAgree'
        BY <1>1 DEF BeginWrite, BeginFill
    <2> QED BY <2>2, <2>3, <2>4
<1>2. ASSUME CopyIn PROVE IndexInv'
    <2>1. IndicesAgree'
        <3> SUFFICES ASSUME NEW r \in Readers
                     PROVE  nWrIdx' = Advance(nRdIdx, nCount + Len(toWrite) - Going(r))
            BY <1>2 DEF CopyIn
        <3>1. nWrIdx = Advance(nRdIdx, nCount - Going(r)) /\ nCount - Going(r) \in Nat
            BY <1>2 DEF CopyIn
        <3>2. Len(toWrite) \in Nat /\ nCount - Going(r) + Len(toWrite) <= Size
            BY <3>1
        <3>3. nWrIdx' = Advance(nRdIdx, nCount - Going(r) + Len(toWrite))
            BY <1>2, <3>1, <3>2, AdvanceTwice DEF CopyIn
        <3> QED BY <3>1, <3>2, <3>3
    <2> QED BY <1>2, <2>1 DEF CopyIn
<1>3. ASSUME LoadWrCount PROVE IndexInv'
    BY <1>3 DEF LoadWrCount
<1>4. ASSUME StoreWrCount PROVE IndexInv'
    BY <1>4 DEF StoreWrCount, Plus
<1> QED BY <1>1, <1>2, <1>3, <1>4

LEMMA ReaderType ==
  ASSUME OneReader, Inv, NEW r \in Readers,
         \/ \E n \in 1 .. MaxLen : Read(r, n) \/ Peek(r, n) \/ CommitRead(r, n)
         \/ CopyOut(r) \/ CopyPeek(r) \/ LoadRdCount(r) \/ StoreRdCount(r)
  PROVE  TypeOK'
<1> USE ByteQAssumption DEF OneReader, Inv, TypeOK, buffer, writer, reader
<1>1. ASSUME NEW n \in 1 .. MaxLen, Read(r, n) \/ Peek(r, n) \/ CommitRead(r, n)
      PROVE  TypeOK'
    <2>1. Least(nCount, n) \in Nat
        BY DEF Least
    <2> QED BY <1>1, <2>1 DEF Read, Peek, CommitRead, BeginRead
<1>2. rpc[r] # "idle" => toRead[r] \in 0 .. Size
    BY DEF IndexInv, RoomForWrite, BytesForRead
<1>3. rpc[r] # "idle" => Bytes(r) \in Seq(Values)
    BY <1>2, StoredType DEF Bytes
<1>4. ASSUME CopyOut(r) PROVE TypeOK'
    <2>1. nRdIdx' \in Cells
        BY <1>2, <1>4, AdvanceType DEF CopyOut
    <2> QED BY <1>3, <1>4, <2>1 DEF CopyOut
<1>5. ASSUME CopyPeek(r) PROVE TypeOK'
    <2>1. 0 \in Cells /\ << >> \in Seq(Values)
        BY DEF Cells
    <2> QED BY <1>3, <1>5, <2>1 DEF CopyPeek, EndRead
<1>6. ASSUME LoadRdCount(r) PROVE TypeOK'
    BY <1>6 DEF LoadRdCount
<1>7. ASSUME StoreRdCount(r) PROVE TypeOK'
    <2>1. 0 \in Cells /\ << >> \in Seq(Values)
        BY DEF Cells
    <2>2. nCount' \in 0 .. (UIntMod - 1)
        BY <1>7 DEF StoreRdCount, IndexInv, CountLoaded, BytesForRead, Minus
    <2> QED BY <1>7, <2>1, <2>2 DEF StoreRdCount, EndRead
<1> QED BY <1>1, <1>4, <1>5, <1>6, <1>7

LEMMA ReaderIndex ==
  ASSUME OneReader, Inv, NEW r \in Readers,
         \/ \E n \in 1 .. MaxLen : Read(r, n) \/ Peek(r, n) \/ CommitRead(r, n)
         \/ CopyOut(r) \/ CopyPeek(r) \/ LoadRdCount(r) \/ StoreRdCount(r)
  PROVE  IndexInv'
<1> USE ByteQAssumption DEF OneReader, Inv, TypeOK, IndexInv, CritHeld, CountLoaded, RoomForWrite,
        BytesForRead, IndicesAgree, Coming, Going, buffer, writer, reader
<1>0. Readers = {r}
    OBVIOUS
<1>1. ASSUME NEW n \in 1 .. MaxLen, Read(r, n) \/ Peek(r, n) \/ CommitRead(r, n)
      PROVE  IndexInv'
    <2>1. Least(nCount, n) <= nCount
        BY DEF Least
    <2> QED BY <1>0, <1>1, <2>1 DEF Read, Peek, CommitRead, BeginRead
<1>2. ASSUME CopyOut(r) PROVE IndexInv'
    <2>1. nRdIdx' = Advance(nRdIdx, toRead[r]) /\ rdIdx[r] = nRdIdx
        BY <1>2 DEF CopyOut
    <2>2. nWrIdx = Advance(nRdIdx, nCount + Coming)
        BY <1>2 DEF CopyOut
    <2> DEFINE rest == nCount + Coming - toRead[r]
    <2>3. Coming \in Nat /\ nCount + Coming <= Size
        OBVIOUS
    <2>4. toRead[r] \in Nat /\ toRead[r] <= nCount /\ nCount \in Nat
        BY <1>2 DEF CopyOut
    <2> HIDE DEF Coming
    <2>5. rest \in Nat /\ toRead[r] + rest = nCount + Coming /\ toRead[r] + rest <= Size
        BY <2>3, <2>4, SMTT(30)
    <2>6. nWrIdx = Advance(nRdIdx', rest)
        BY <2>1, <2>2, <2>4, <2>5, AdvanceTwice
    <2> USE DEF Coming
    <2> QED BY <1>0, <1>2, <2>1, <2>6 DEF CopyOut
<1>3. ASSUME CopyPeek(r) PROVE IndexInv'
    BY <1>0, <1>3 DEF CopyPeek, EndRead
<1>4. ASSUME LoadRdCount(r) PROVE IndexInv'
    BY <1>0, <1>4 DEF LoadRdCount
<1>5. ASSUME StoreRdCount(r) PROVE IndexInv'
    BY <1>0, <1>5 DEF StoreRdCount, EndRead, Minus
<1> QED BY <1>1, <1>2, <1>3, <1>4, <1>5

\* The remainder is what Advance computes, for a distance of at most one lap.
LEMMA ModAdvance ==
  ASSUME NEW i \in Cells, NEW n \in 0 .. Size
  PROVE  (i + n) % Size = Advance(i, n)
<1> DEFINE x == i + n - Size
<1>1. i \in Int /\ n \in Int /\ Size \in Int /\ x \in Int /\ i + n = x + Size
    BY ByteQAssumption DEF Cells
<1>2. CASE i + n < Size
    <2>1. i + n \in Cells
        BY <1>2, ByteQAssumption DEF Cells
    <2>2. (i + n) % Size = i + n
        BY <2>1, ModSmall
    <2>3. Advance(i, n) = i + n
        BY <1>1, <1>2 DEF Advance
    <2> QED BY <2>2, <2>3
<1>3. CASE i + n >= Size
    <2>1. x \in Cells
        BY <1>3, ByteQAssumption DEF Cells
    <2>2. Advance(i, n) = x
        BY <1>3, ByteQAssumption DEF Advance
    <2> HIDE DEF x
    <2>3. (i + n) % Size = x % Size
        BY <1>1, ModShift
    <2> QED BY <2>1, <2>2, <2>3, ModSmall
<1> QED BY <1>1, <1>2, <1>3

\* A forced write, as it fits, as it pushes out bytes of the queue, and as it goes
\* round the whole buffer: then both indices are the same.
Fits(block) ==
  /\ nRdIdx' = nRdIdx /\ nCount' = nCount + Len(block)
  /\ pfBuf' = Insert(pfBuf, nWrIdx, block) /\ nWrIdx' = Advance(nWrIdx, Len(block))
PushesOut(block, n) ==
  /\ nRdIdx' = Advance(nRdIdx, n) /\ nCount' = Size
  /\ pfBuf' = Insert(pfBuf, nWrIdx, block) /\ nWrIdx' = Advance(nWrIdx, Len(block))
GoesRound(kept, i) ==
  /\ nRdIdx' = i /\ nCount' = Size
  /\ pfBuf' = Insert(pfBuf, i, kept) /\ nWrIdx' = i

LEMMA ForcePlaces ==
  ASSUME OneReader, Inv, NEW block \in Blocks, ForceWrite(block),
         NEW diff, diff = Len(block) - (Size - nCount), NEW over, over = Len(block) - Size
  PROVE  /\ diff <= 0 => Fits(block)
         /\ diff > 0 /\ over <= 0 => PushesOut(block, diff)
         /\ over > 0 => \E i \in Cells : GoesRound(SubSeq(block, over + 1, Len(block)), i)
<1> USE ByteQAssumption DEF OneReader, Inv
<1>1. block \in Seq(Values) /\ Len(block) \in Nat
    BY BlockType
<1>2. PICK r : Readers = {r}
    OBVIOUS
<1>3. nWrIdx \in Cells /\ nRdIdx \in Cells /\ nCount \in 0 .. Size
    BY DEF TypeOK, IndexInv, RoomForWrite
<1>4. nWrIdx = Advance(nRdIdx, nCount)
    BY <1>2, <1>3 DEF IndexInv, IndicesAgree, Coming, Going, ForceWrite, Quiet
<1>5. over \in Int /\ diff \in Int /\ diff = over + nCount
    BY <1>1, <1>3
<1>6. ASSUME diff <= 0 PROVE Fits(block)
    BY <1>1, <1>3, <1>5, <1>6 DEF ForceWrite, Fits
<1>7. ASSUME diff > 0, over <= 0 PROVE PushesOut(block, diff)
    <2>1. diff \in 0 .. Size
        BY <1>3, <1>5, <1>7
    <2>2. nRdIdx' = Advance(nRdIdx, diff)
        BY <1>3, <1>7, <2>1, ModAdvance DEF ForceWrite
    <2> QED BY <1>1, <1>3, <1>5, <1>7, <2>2 DEF ForceWrite, PushesOut
<1>8. ASSUME over > 0
      PROVE  \E i \in Cells : GoesRound(SubSeq(block, over + 1, Len(block)), i)
    <2> DEFINE kept == SubSeq(block, over + 1, Len(block))  i == (nWrIdx + over) % Size
    <2>1. nWrIdx \in Int /\ nRdIdx \in Int /\ nWrIdx + over \in Int /\ nRdIdx + diff \in Int
        BY <1>3, <1>5 DEF Cells
    <2>2. i \in Cells
        BY <2>1, ModMeans
    <2>3. Len(kept) = Size
        BY <1>1, <1>8
    <2>4. nRdIdx' = (nRdIdx + diff) % Size
        BY <1>3, <1>5, <1>8 DEF ForceWrite
    <2>5. nRdIdx + diff = nWrIdx + over \/ nRdIdx + diff = (nWrIdx + over) + Size
        BY <1>3, <1>4, <1>5 DEF Advance, Cells
    <2>6. nRdIdx' = i
        BY <2>1, <2>4, <2>5, ModShift
    <2>7. pfBuf' = Insert(pfBuf, i, kept) /\ nWrIdx' = Advance(i, Len(kept))
        BY <1>8 DEF ForceWrite
    <2>8. nCount' = Size
        BY <1>1, <1>3, <1>5, <1>8 DEF ForceWrite
    <2> HIDE DEF i, kept
    <2>9. Advance(i, Len(kept)) = i
        BY <2>2, <2>3 DEF Advance, Cells
    <2> QED BY <2>2, <2>6, <2>7, <2>8, <2>9 DEF GoesRound, kept
<1> QED BY <1>6, <1>7, <1>8

LEMMA ForceStep ==
  ASSUME OneReader, Inv, NEW block \in Blocks, ForceWrite(block)
  PROVE  Inv'
<1> USE ByteQAssumption DEF OneReader, Inv
<1> DEFINE diff == Len(block) - (Size - nCount)  over == Len(block) - Size
           kept == SubSeq(block, over + 1, Len(block))
<1>1. block \in Seq(Values) /\ Len(block) \in Nat
    BY BlockType
<1>2. PICK r : Readers = {r}
    OBVIOUS
<1>3. /\ pfBuf \in [Cells -> Values] /\ nWrIdx \in Cells /\ nRdIdx \in Cells
      /\ nCount \in 0 .. Size
    BY DEF TypeOK, IndexInv, RoomForWrite
<1>4. nWrIdx = Advance(nRdIdx, nCount)
    BY <1>2, <1>3 DEF IndexInv, IndicesAgree, Coming, Going, ForceWrite, Quiet
<1>5. diff \in Int /\ over \in Int /\ diff = over + nCount
    BY <1>1, <1>3
<1>6. over > 0 => kept \in Seq(Values)
    BY <1>1
<1>7. /\ diff <= 0 => Fits(block)
      /\ diff > 0 /\ over <= 0 => PushesOut(block, diff)
      /\ over > 0 => \E i \in Cells : GoesRound(kept, i)
    BY ForcePlaces
<1> HIDE DEF kept
<1>8. /\ pfBuf' \in [Cells -> Values] /\ nWrIdx' \in Cells /\ nRdIdx' \in Cells
      /\ nCount' \in 0 .. Size /\ nWrIdx' = Advance(nRdIdx', nCount')
    <2>1. CASE diff <= 0
        <3>1. Fits(block) /\ Len(block) \in 0 .. Size /\ nCount + Len(block) <= Size
            BY <1>1, <1>3, <1>7, <2>1
        <3>2. pfBuf' \in [Cells -> Values] /\ nWrIdx' \in Cells /\ nRdIdx' = nRdIdx
            BY <1>1, <1>3, <3>1, InsertType, AdvanceType DEF Fits
        <3>3. nCount' = nCount + Len(block) /\ nCount' \in 0 .. Size
            BY <1>1, <1>3, <3>1 DEF Fits
        <3>4. nWrIdx' = Advance(nRdIdx, nCount + Len(block))
            BY <1>1, <1>3, <1>4, <3>1, AdvanceTwice DEF Fits
        <3> QED BY <1>3, <3>2, <3>3, <3>4
    <2>2. CASE diff > 0 /\ over <= 0
        <3>1. PushesOut(block, diff) /\ diff \in 0 .. Size /\ Len(block) \in 0 .. Size
            BY <1>1, <1>3, <1>5, <1>7, <2>2
        <3>2. nRdIdx' \in Cells /\ nWrIdx' \in Cells
            BY <1>3, <3>1, AdvanceType DEF PushesOut
        <3>3. Advance(nRdIdx', nCount') = nRdIdx'
            BY <3>1, <3>2 DEF PushesOut, Advance, Cells
        <3>4. nWrIdx' = nRdIdx'
            BY <1>3, <1>4, <1>5, <2>2, <3>1 DEF PushesOut, Advance, Cells
        <3> QED BY <1>1, <1>3, <3>1, <3>2, <3>3, <3>4, InsertType DEF PushesOut
    <2>3. CASE over > 0
        <3>1. PICK i \in Cells : GoesRound(kept, i)
            BY <1>7, <2>3
        <3>2. Advance(i, Size) = i
            BY DEF Advance, Cells
        <3> QED BY <1>3, <1>6, <2>3, <3>1, <3>2, InsertType DEF GoesRound
    <2> QED BY <1>5, <2>1, <2>2, <2>3
<1>9. TypeOK'
    BY <1>1, <1>8 DEF ForceWrite, TypeOK, reader
<1>10. IndexInv'
    BY <1>2, <1>8
    DEF ForceWrite, Quiet, TypeOK, IndexInv, CritHeld, CountLoaded, RoomForWrite,
        BytesForRead, IndicesAgree, Coming, Going, reader
<1> QED BY <1>9, <1>10

LEMMA FlushStep ==
  ASSUME OneReader, Inv, Flush
  PROVE  Inv'
<1>1. 0 \in Cells /\ Advance(0, 0) = 0
    BY ByteQAssumption DEF Cells, Advance
<1>2. toWrite' = toWrite /\ Len(toWrite) \in 0 .. Size
    BY ByteQAssumption DEF Flush, writer, Inv, TypeOK, IndexInv, RoomForWrite
<1>3. TypeOK'
    BY <1>1, ByteQAssumption DEF Flush, writer, reader, Inv, TypeOK
<1>4. IndexInv'
    BY <1>1, <1>2, ByteQAssumption
    DEF Flush, Quiet, writer, reader, OneReader, Inv, TypeOK, IndexInv, CritHeld, CountLoaded,
        RoomForWrite, BytesForRead, IndicesAgree, Coming, Going
<1> QED BY <1>3, <1>4 DEF Inv

LEMMA InvStep ==
  ASSUME OneReader
  PROVE  Inv /\ [Next]_vars => Inv'
<1> SUFFICES ASSUME Inv, [Next]_vars PROVE Inv'
    OBVIOUS
<1>1. CASE \/ \E block \in Blocks : BeginWrite(block) \/ BeginFill(block)
           \/ CopyIn \/ LoadWrCount \/ StoreWrCount
    BY <1>1, WriterType, WriterIndex DEF Inv
<1>2. ASSUME NEW r \in Readers,
             \/ \E n \in 1 .. MaxLen : Read(r, n) \/ Peek(r, n) \/ CommitRead(r, n)
             \/ CopyOut(r) \/ CopyPeek(r) \/ LoadRdCount(r) \/ StoreRdCount(r)
      PROVE  Inv'
    BY <1>2, ReaderType, ReaderIndex DEF Inv
<1>3. ASSUME NEW block \in Blocks, ForceWrite(block) PROVE Inv'
    BY <1>3, ForceStep
<1>4. CASE Flush
    BY <1>4, FlushStep
<1>5. CASE UNCHANGED vars
    BY <1>5 DEF vars, buffer, writer, reader, Inv, TypeOK, IndexInv, CritHeld, CountLoaded,
        RoomForWrite, BytesForRead, IndicesAgree, Coming, Going
<1> QED BY <1>1, <1>2, <1>3, <1>4, <1>5 DEF Next

\* With one reader and both changes of the count protected, the indices and the count
\* agree at every moment, for every size of the buffer and every block written.
THEOREM IndicesCorrect ==
  ASSUME OneReader
  PROVE  Spec => [](TypeOK /\ IndexInv)
<1>1. Init => Inv
    BY InvInit
<1>2. Inv /\ [Next]_vars => Inv'
    BY InvStep
<1>3. Inv => TypeOK /\ IndexInv
    BY DEF Inv
<1> QED BY <1>1, <1>2, <1>3, PTL DEF Spec

-----------------------------------------------------------------------------
(* What is stored.                                                          *)

LEMMA StoredAt ==
  ASSUME NEW buf, NEW i, NEW n \in Nat, NEW k \in 1 .. n
  PROVE  Stored(buf, i, n)[k] = buf[Advance(i, k - 1)]
BY DEF Stored

\* Where the cells behind the first m ones are.
LEMMA AdvanceBy ==
  ASSUME NEW i \in Cells, NEW m \in Nat, NEW n \in Nat, m + n <= Size, NEW k \in 1 .. n
  PROVE  Advance(Advance(i, m), k - 1) = Advance(i, (m + k) - 1)
<1>1. k - 1 \in Nat /\ m + (k - 1) <= Size /\ m + (k - 1) = (m + k) - 1
    BY ByteQAssumption
<1> QED BY <1>1, AdvanceTwice

\* What a concatenation consists of.
LEMMA ConcatIs ==
  ASSUME NEW S, NEW s \in Seq(S), NEW s1 \in Seq(S), NEW s2 \in Seq(S),
         Len(s) = Len(s1) + Len(s2),
         \A k \in 1 .. Len(s1) : s[k] = s1[k],
         \A k \in 1 .. Len(s2) : s[Len(s1) + k] = s2[k]
  PROVE  s = s1 \o s2
<1> DEFINE c == s1 \o s2
<1>1. /\ c \in Seq(S)
      /\ Len(c) = Len(s1) + Len(s2)
      /\ \A k \in 1 .. Len(s1) + Len(s2) :
           c[k] = IF k <= Len(s1) THEN s1[k] ELSE s2[k - Len(s1)]
    BY ConcatProperties, Zenon
<1> HIDE DEF c
<1>2. ASSUME NEW k \in 1 .. Len(s) PROVE s[k] = c[k]
    <2>1. Len(s1) \in Nat /\ Len(s2) \in Nat
        OBVIOUS
    <2>2. CASE k <= Len(s1)
        <3>1. k \in 1 .. Len(s1) /\ k \in 1 .. Len(s1) + Len(s2)
            BY <2>1, <2>2
        <3>2. c[k] = s1[k]
            BY <1>1, <2>2, <3>1
        <3> QED BY <3>1, <3>2
    <2>3. CASE k > Len(s1)
        <3> DEFINE i == k - Len(s1)
        <3>1. i \in 1 .. Len(s2) /\ Len(s1) + i = k /\ k \in 1 .. Len(s1) + Len(s2)
            BY <2>1, <2>3
        <3>2. c[k] = s2[i]
            BY <1>1, <2>1, <2>3, <3>1
        <3> HIDE DEF i
        <3>3. s[k] = s2[i]
            BY <3>1
        <3> QED BY <3>2, <3>3
    <2>4. k <= Len(s1) \/ k > Len(s1)
        BY <2>1
    <2> QED BY <2>2, <2>3, <2>4
<1>3. s = c
    BY <1>1, <1>2, SeqEqual
<1> QED BY <1>3 DEF c

LEMMA StoredConcat ==
  ASSUME NEW buf \in [Cells -> Values], NEW i \in Cells, NEW m \in Nat, NEW n \in Nat,
         m + n <= Size
  PROVE  Stored(buf, i, m + n) = Stored(buf, i, m) \o Stored(buf, Advance(i, m), n)
<1> DEFINE j == Advance(i, m)
           s == Stored(buf, i, m + n)  s1 == Stored(buf, i, m)  s2 == Stored(buf, j, n)
<1>1. m \in 0 .. Size /\ n \in 0 .. Size /\ m + n \in 0 .. Size
    BY ByteQAssumption
<1>2. j \in Cells
    BY <1>1, AdvanceType
<1>3. /\ s \in Seq(Values) /\ Len(s) = m + n
      /\ s1 \in Seq(Values) /\ Len(s1) = m
      /\ s2 \in Seq(Values) /\ Len(s2) = n
    BY <1>1, <1>2, StoredType
<1>4. ASSUME NEW k \in 1 .. m PROVE s[k] = s1[k]
    <2>1. k \in 1 .. m + n
        OBVIOUS
    <2>2. s[k] = buf[Advance(i, k - 1)]
        BY <1>1, <2>1, StoredAt
    <2>3. s1[k] = buf[Advance(i, k - 1)]
        BY StoredAt
    <2> QED BY <2>2, <2>3
<1>5. ASSUME NEW k \in 1 .. n PROVE s[m + k] = s2[k]
    <2>1. m + k \in 1 .. m + n
        OBVIOUS
    <2>2. s[m + k] = buf[Advance(i, (m + k) - 1)]
        BY <1>1, <2>1, StoredAt
    <2>3. s2[k] = buf[Advance(j, k - 1)]
        BY StoredAt
    <2>4. Advance(j, k - 1) = Advance(i, (m + k) - 1)
        BY AdvanceBy
    <2> QED BY <2>2, <2>3, <2>4
<1> HIDE DEF s, s1, s2
<1>6. s = s1 \o s2
    BY <1>3, <1>4, <1>5, ConcatIs
<1> QED BY <1>6 DEF s, s1, s2

\* Cells next to those a block is put into keep their bytes.
LEMMA InsertKeeps ==
  ASSUME NEW buf \in [Cells -> Values], NEW i \in Cells, NEW block \in Seq(Values),
         NEW m \in Nat, NEW n \in Nat, n <= m, m + Len(block) <= Size
  PROVE  Stored(Insert(buf, Advance(i, m), block), i, n) = Stored(buf, i, n)
<1> DEFINE j == Advance(i, m)  new == Insert(buf, j, block)
<1>1. ASSUME NEW k \in 1 .. n PROVE new[Advance(i, k - 1)] = buf[Advance(i, k - 1)]
    <2> DEFINE c == Advance(i, k - 1)
    <2>1. c \in Cells /\ j \in Cells
        BY AdvanceType, ByteQAssumption
    <2>2. ~(Behind(j, c) < Len(block))
        BY ByteQAssumption DEF Behind, Advance, Cells
    <2> HIDE DEF c
    <2> QED BY <2>1, <2>2 DEF Insert, c
<1> QED BY <1>1 DEF Stored

LEMMA InsertPuts ==
  ASSUME NEW buf \in [Cells -> Values], NEW i \in Cells, NEW block \in Seq(Values),
         Len(block) <= Size
  PROVE  Stored(Insert(buf, i, block), i, Len(block)) = block
<1> DEFINE new == Insert(buf, i, block)  n == Len(block)  s == Stored(new, i, n)
<1>1. n \in 0 .. Size
    BY ByteQAssumption
<1>2. s \in Seq(Values) /\ Len(s) = n
    BY <1>1, InsertType, StoredType
<1>3. ASSUME NEW k \in 1 .. n PROVE s[k] = block[k]
    <2> DEFINE c == Advance(i, k - 1)
    <2>1. c \in Cells
        BY <1>1, AdvanceType, ByteQAssumption
    <2>2. Behind(i, c) = k - 1
        BY <1>1, ByteQAssumption DEF Behind, Advance, Cells
    <2> HIDE DEF c
    <2>3. new[c] = block[k]
        BY <2>1, <2>2 DEF Insert
    <2> QED BY <1>1, <2>3, StoredAt DEF c
<1> HIDE DEF s
<1>4. s = block
    BY <1>2, <1>3, SeqEqual
<1> QED BY <1>4 DEF s

\* Bytes taken from the front, and what is left.
LEMMA StoredSplit ==
  ASSUME NEW buf \in [Cells -> Values], NEW i \in Cells, NEW n \in 0 .. Size,
         NEW m \in 0 .. n
  PROVE  /\ SubSeq(Stored(buf, i, n), 1, m) = Stored(buf, i, m)
         /\ SubSeq(Stored(buf, i, n), m + 1, n) = Stored(buf, Advance(i, m), n - m)
<1> DEFINE s == Stored(buf, i, n)  s1 == Stored(buf, i, m)
           s2 == Stored(buf, Advance(i, m), n - m)
           t1 == SubSeq(s, 1, m)   t2 == SubSeq(s, m + 1, n)
<1>1. m \in 0 .. Size /\ n - m \in 0 .. Size /\ Advance(i, m) \in Cells
    BY AdvanceType, ByteQAssumption
<1>2. /\ s \in Seq(Values) /\ Len(s) = n
      /\ s1 \in Seq(Values) /\ Len(s1) = m
      /\ s2 \in Seq(Values) /\ Len(s2) = n - m
    BY <1>1, StoredType
<1>3. \A k \in 1 .. n : s[k] = buf[Advance(i, k - 1)]
    BY StoredAt
<1>4. \A k \in 1 .. m : s1[k] = buf[Advance(i, k - 1)]
    BY <1>1, StoredAt
<1>5. ASSUME NEW k \in 1 .. n - m PROVE s2[k] = buf[Advance(i, (m + k) - 1)]
    <2>1. s2[k] = buf[Advance(Advance(i, m), k - 1)]
        BY <1>1, StoredAt
    <2>2. m \in Nat /\ n - m \in Nat /\ m + (n - m) <= Size
        BY ByteQAssumption
    <2>3. Advance(Advance(i, m), k - 1) = Advance(i, (m + k) - 1)
        BY <2>2, AdvanceBy
    <2> QED BY <2>1, <2>3
<1> HIDE DEF s, s1, s2
<1>6. /\ \A k \in 1 .. m : s[k] \in Values
      /\ \A k \in m + 1 .. n : s[k] \in Values
    BY <1>2
<1>7. /\ t1 \in Seq(Values) /\ Len(t1) = m
      /\ \A k \in 1 .. m : t1[k] = s[k]
    <2>1. /\ t1 \in Seq(Values) /\ Len(t1) = IF 1 <= m THEN m - 1 + 1 ELSE 0
          /\ \A k \in 1 .. m - 1 + 1 : t1[k] = s[1 + k - 1]
        BY <1>6, SubSeqProperties
    <2> QED BY <2>1
<1>8. /\ t2 \in Seq(Values) /\ Len(t2) = n - m
      /\ \A k \in 1 .. n - m : t2[k] = s[m + k]
    <2>1. /\ t2 \in Seq(Values)
          /\ Len(t2) = IF m + 1 <= n THEN n - (m + 1) + 1 ELSE 0
          /\ \A k \in 1 .. n - (m + 1) + 1 : t2[k] = s[(m + 1) + k - 1]
        <3> DEFINE a == m + 1
        <3>1. a \in Int /\ n \in Int /\ \A k \in a .. n : s[k] \in Values
            BY <1>6
        <3> HIDE DEF a
        <3>2. /\ SubSeq(s, a, n) \in Seq(Values)
              /\ Len(SubSeq(s, a, n)) = IF a <= n THEN n - a + 1 ELSE 0
              /\ \A k \in 1 .. n - a + 1 : SubSeq(s, a, n)[k] = s[a + k - 1]
            BY <3>1, SubSeqProperties
        <3> QED BY <3>2 DEF a
    <2> HIDE DEF t2
    <2>2. n - (m + 1) + 1 = n - m
        OBVIOUS
    <2>3. Len(t2) = n - m
        BY <2>1
    <2>4. ASSUME NEW k \in 1 .. n - m PROVE t2[k] = s[m + k]
        <3>1. (m + 1) + k - 1 = m + k
            OBVIOUS
        <3> QED BY <2>1, <2>2, <3>1
    <2> QED BY <2>1, <2>3, <2>4
<1> HIDE DEF t1, t2
<1>9. t1 = s1
    <2>1. \A k \in 1 .. m : t1[k] = s1[k]
        BY <1>3, <1>4, <1>7
    <2> QED BY <1>2, <1>7, <2>1, SeqEqual
<1>10. ASSUME NEW k \in 1 .. n - m PROVE t2[k] = s2[k]
    <2>1. m + k \in 1 .. n
        OBVIOUS
    <2> QED BY <1>3, <1>5, <1>8, <2>1
<1>11. t2 = s2
    BY <1>2, <1>8, <1>10, SeqEqual
<1> QED BY <1>9, <1>11 DEF s, s1, s2, t1, t2

\* The end of a concatenation, when it starts in the first or in the second part.
LEMMA EndOfConcat ==
  ASSUME NEW S, NEW s1 \in Seq(S), NEW s2 \in Seq(S), NEW d \in 0 .. Len(s1)
  PROVE  SubSeq(s1 \o s2, d + 1, Len(s1 \o s2)) = SubSeq(s1, d + 1, Len(s1)) \o s2
<1> DEFINE c == s1 \o s2  t == SubSeq(c, d + 1, Len(c))  u == SubSeq(s1, d + 1, Len(s1))
<1>1. Len(s1) \in Nat /\ Len(s2) \in Nat /\ d \in Nat
    OBVIOUS
<1>2. /\ c \in Seq(S)
      /\ Len(c) = Len(s1) + Len(s2)
      /\ \A k \in 1 .. Len(s1) + Len(s2) :
           c[k] = IF k <= Len(s1) THEN s1[k] ELSE s2[k - Len(s1)]
    BY ConcatProperties, Zenon
<1> HIDE DEF c
<1>3. /\ t \in Seq(S) /\ Len(t) = Len(c) - d
      /\ \A k \in 1 .. Len(c) - d : t[k] = c[d + k]
    BY <1>1, <1>2
<1>4. /\ u \in Seq(S) /\ Len(u) = Len(s1) - d
      /\ \A k \in 1 .. Len(s1) - d : u[k] = s1[d + k]
    BY <1>1
<1> HIDE DEF t, u
<1>5. Len(t) = Len(u) + Len(s2)
    BY <1>1, <1>2, <1>3, <1>4
<1>6. ASSUME NEW k \in 1 .. Len(u) PROVE t[k] = u[k]
    <2>1. k \in 1 .. Len(c) - d /\ d + k \in 1 .. Len(s1) + Len(s2) /\ d + k <= Len(s1)
        BY <1>1, <1>2, <1>4
    <2>2. c[d + k] = s1[d + k]
        BY <1>2, <2>1
    <2> QED BY <1>3, <1>4, <2>1, <2>2
<1>7. ASSUME NEW k \in 1 .. Len(s2) PROVE t[Len(u) + k] = s2[k]
    <2> DEFINE i == Len(s1) + k
    <2>1. i \in 1 .. Len(s1) + Len(s2) /\ ~(i <= Len(s1)) /\ i - Len(s1) = k
          /\ d + (Len(u) + k) = i /\ Len(u) + k \in 1 .. Len(c) - d
        BY <1>1, <1>2, <1>4
    <2> HIDE DEF i
    <2>2. c[i] = s2[k]
        BY <1>2, <2>1
    <2>3. t[Len(u) + k] = c[i]
        BY <1>3, <2>1
    <2> QED BY <2>2, <2>3
<1>8. t = u \o s2
    BY <1>3, <1>4, <1>5, <1>6, <1>7, ConcatIs
<1> QED BY <1>8 DEF t, u, c

LEMMA EndOfSecond ==
  ASSUME NEW S, NEW s1 \in Seq(S), NEW s2 \in Seq(S), NEW d \in 0 .. Len(s2)
  PROVE  SubSeq(s1 \o s2, Len(s1) + d + 1, Len(s1 \o s2)) = SubSeq(s2, d + 1, Len(s2))
OBVIOUS

-----------------------------------------------------------------------------
(* The data.                                                                *)

\* What a reader knows of the bytes it is about to take.
LEMMA Reading ==
  ASSUME Inv, NEW r \in Readers, rpc[r] # "idle"
  PROVE  /\ nCount \in Nat /\ nCount <= Size
         /\ toRead[r] \in Nat /\ toRead[r] <= nCount /\ rdIdx[r] \in Cells
         /\ rpc[r] \in {"copy", "peek"} => rdIdx[r] = nRdIdx
         /\ rpc[r] \in {"load", "store"} => nRdIdx = Advance(rdIdx[r], toRead[r])
         /\ rpc[r] = "store" => rCount[r] = nCount
<1>1. nCount \in Nat /\ nCount <= Size
    BY ByteQAssumption DEF Inv, TypeOK, IndexInv, RoomForWrite
<1>2. toRead[r] \in Nat /\ rdIdx[r] \in Cells
    BY DEF Inv, TypeOK
<1>3. /\ toRead[r] <= nCount
      /\ rpc[r] \in {"copy", "peek"} => rdIdx[r] = nRdIdx
      /\ rpc[r] \in {"load", "store"} => nRdIdx = Advance(rdIdx[r], toRead[r])
    BY DEF Inv, IndexInv, BytesForRead
<1>4. rpc[r] = "store" => rCount[r] = nCount
    BY DEF Inv, IndexInv, CountLoaded
<1> QED BY <1>1, <1>2, <1>3, <1>4

\* The writer's index lies behind the bytes that are counted or coming.
LEMMA WriteAt ==
  ASSUME OneReader, Inv, NEW r \in Readers
  PROVE  Oldest(r) \in Cells /\ nWrIdx = Advance(Oldest(r), nCount + Coming)
<1> USE ByteQAssumption DEF OneReader, Inv
<1>1. /\ Oldest(r) \in Cells /\ nRdIdx \in Cells
      /\ nCount \in Nat /\ Coming \in Nat /\ nCount + Coming <= Size
    BY DEF TypeOK, IndexInv, RoomForWrite, Oldest, Coming
<1>2. CASE rpc[r] \in {"load", "store"}
    <2> DEFINE rest == nCount + Coming - toRead[r]
    <2>1. toRead[r] \in Nat /\ toRead[r] <= nCount /\ Going(r) = toRead[r]
        BY <1>2 DEF TypeOK, IndexInv, BytesForRead, Going
    <2>2. nRdIdx = Advance(Oldest(r), toRead[r]) /\ nWrIdx = Advance(nRdIdx, rest)
        BY <1>2, <2>1 DEF IndexInv, BytesForRead, IndicesAgree, Oldest
    <2> HIDE DEF Coming
    <2>3. rest \in Nat /\ toRead[r] + rest = nCount + Coming
        BY <1>1, <2>1
    <2> QED BY <1>1, <2>1, <2>2, <2>3, AdvanceTwice
<1>3. CASE rpc[r] \notin {"load", "store"}
    <2>1. Oldest(r) = nRdIdx /\ Going(r) = 0
        BY <1>3 DEF TypeOK, IndexInv, BytesForRead, Oldest, Going
    <2>2. nWrIdx = Advance(nRdIdx, nCount + Coming - 0)
        BY <2>1 DEF IndexInv, IndicesAgree
    <2> HIDE DEF Coming
    <2>3. nCount + Coming - 0 = nCount + Coming
        BY <1>1
    <2> QED BY <1>1, <2>1, <2>2, <2>3
<1> QED BY <1>2, <1>3

\* Copying a block in changes no byte of the queue and puts the block behind them.
LEMMA CopyInData ==
  ASSUME OneReader, Inv, CopyIn, NEW r \in Readers
  PROVE  /\ Oldest(r)' = Oldest(r)
         /\ \A n \in 0 .. nCount : Stored(pfBuf, Oldest(r), n)' = Stored(pfBuf, Oldest(r), n)
         /\ Stored(pfBuf', Advance(Oldest(r), nCount), Len(toWrite)) = toWrite
<1> USE ByteQAssumption DEF Inv
<1> DEFINE i == Oldest(r)
<1>1. i \in Cells /\ nWrIdx = Advance(i, nCount)
    <2>1. i \in Cells /\ nWrIdx = Advance(i, nCount + Coming)
        BY WriteAt
    <2>2. Coming = 0 /\ nCount + 0 = nCount
        BY DEF CopyIn, Coming, TypeOK
    <2> QED BY <2>1, <2>2
<1>2. Oldest(r)' = i
    BY DEF CopyIn, Oldest, reader
<1>3. /\ pfBuf \in [Cells -> Values] /\ toWrite \in Seq(Values) /\ nCount \in Nat
      /\ nCount + Len(toWrite) <= Size /\ Len(toWrite) <= Size
    BY DEF TypeOK, IndexInv, RoomForWrite
<1>4. pfBuf' = Insert(pfBuf, Advance(i, nCount), toWrite)
    BY <1>1 DEF CopyIn
<1> HIDE DEF i
<1>5. ASSUME NEW n \in 0 .. nCount
      PROVE  Stored(pfBuf', i, n) = Stored(pfBuf, i, n)
    <2>1. n \in Nat /\ n <= nCount
        BY <1>3
    <2> QED BY <1>1, <1>3, <1>4, <2>1, InsertKeeps
<1>6. Stored(pfBuf', Advance(i, nCount), Len(toWrite)) = toWrite
    <2>1. Advance(i, nCount) \in Cells
        BY <1>1, <1>3, AdvanceType
    <2> QED BY <1>3, <1>4, <2>1, InsertPuts
<1> QED BY <1>2, <1>5, <1>6 DEF i, Stored

LEMMA DataInit == Init => DataInv
BY DEF Init, DataInv, BlockCopied, BytesCopied

LEMMA DataStep ==
  ASSUME OneReader
  PROVE  Inv /\ DataInv /\ [Next]_vars => DataInv'
<1> SUFFICES ASSUME Inv, DataInv, [Next]_vars PROVE DataInv'
    OBVIOUS
<1> USE ByteQAssumption DEF OneReader, DataInv
<1>0. PICK r : Readers = {r}
    OBVIOUS
<1>1. ASSUME NEW block \in Blocks, BeginWrite(block) \/ BeginFill(block) PROVE DataInv'
    BY <1>1 DEF BeginWrite, BeginFill, BlockCopied, BytesCopied, Oldest, Bytes, Stored,
                buffer, reader
<1>2. ASSUME CopyIn PROVE DataInv'
    <2>1. /\ Oldest(r)' = Oldest(r)
          /\ \A n \in 0 .. nCount :
               Stored(pfBuf, Oldest(r), n)' = Stored(pfBuf, Oldest(r), n)
          /\ Stored(pfBuf', Advance(Oldest(r), nCount), Len(toWrite)) = toWrite
        BY <1>0, <1>2, CopyInData
    <2>2. BlockCopied'
        BY <1>0, <1>2, <2>1 DEF CopyIn, BlockCopied, Stored
    <2>3. BytesCopied'
        <3> SUFFICES ASSUME rpc[r] \in {"load", "store"} PROVE out[r] = Bytes(r)'
            BY <1>0, <1>2 DEF CopyIn, BytesCopied, reader
        <3>1. toRead[r] \in 0 .. nCount /\ Oldest(r) = rdIdx[r] /\ out[r] = Bytes(r)
            <4>1. toRead[r] \in 0 .. nCount /\ Oldest(r) = rdIdx[r]
                BY <1>0, Reading DEF Oldest
            <4>2. out[r] = Bytes(r)
                BY <1>0 DEF BytesCopied
            <4> QED BY <4>1, <4>2
        <3>2. Bytes(r)' = Stored(pfBuf, Oldest(r), toRead[r])'
            BY <1>2, <3>1 DEF CopyIn, Bytes, Oldest, reader
        <3>3. Stored(pfBuf, Oldest(r), toRead[r])' = Stored(pfBuf, Oldest(r), toRead[r])
            BY <1>2, <2>1, <3>1 DEF CopyIn, Stored, reader
        <3> QED BY <3>1, <3>2, <3>3 DEF Bytes
    <2> QED BY <2>2, <2>3
<1>3. ASSUME LoadWrCount PROVE DataInv'
    BY <1>3 DEF LoadWrCount, BlockCopied, BytesCopied, Oldest, Bytes, Stored, buffer, reader
<1>4. ASSUME StoreWrCount PROVE DataInv'
    BY <1>4 DEF StoreWrCount, BlockCopied, BytesCopied, Bytes, Stored, reader
<1>5. ASSUME NEW n \in 1 .. MaxLen, Read(r, n) \/ Peek(r, n) \/ CommitRead(r, n)
      PROVE  DataInv'
    <2>1. /\ rpc[r] = "idle" /\ rpc'[r] \in {"copy", "peek"} /\ rdIdx'[r] = nRdIdx
          /\ UNCHANGED <<buffer, writer>>
        BY <1>0, <1>5 DEF Read, Peek, CommitRead, BeginRead, Inv, TypeOK
    <2> QED BY <1>0, <2>1 DEF BlockCopied, BytesCopied, Oldest, Stored, buffer, writer
<1>6. ASSUME CopyOut(r) PROVE DataInv'
    <2>1. Oldest(r)' = Oldest(r) /\ out'[r] = Bytes(r)'
        BY <1>0, <1>6 DEF CopyOut, Oldest, Bytes, Stored, Inv, TypeOK
    <2> QED BY <1>0, <1>6, <2>1, SMTT(30) DEF CopyOut, BlockCopied, BytesCopied, Stored, writer
<1>7. ASSUME CopyPeek(r) PROVE DataInv'
    <2>1. Oldest(r)' = Oldest(r) /\ rpc'[r] = "idle"
        BY <1>0, <1>7 DEF CopyPeek, EndRead, Oldest, buffer, Inv, TypeOK, IndexInv, BytesForRead
    <2> QED BY <1>0, <1>7, <2>1 DEF CopyPeek, BlockCopied, BytesCopied, Stored, buffer, writer
<1>8. ASSUME LoadRdCount(r) PROVE DataInv'
    <2>1. Oldest(r)' = Oldest(r) /\ Bytes(r)' = Bytes(r) /\ rpc[r] = "load"
        BY <1>0, <1>8 DEF LoadRdCount, Oldest, Bytes, Stored, buffer, Inv, TypeOK
    <2> QED BY <1>0, <1>8, <2>1 DEF LoadRdCount, BlockCopied, BytesCopied, Stored, buffer, writer
<1>9. ASSUME StoreRdCount(r) PROVE DataInv'
    <2>1. /\ Oldest(r)' = Advance(Oldest(r), toRead[r]) /\ rpc'[r] = "idle"
          /\ toRead[r] \in Nat /\ nCount \in Nat /\ nCount' \in Nat
          /\ nCount <= Size /\ toRead[r] + nCount' = nCount
          /\ Oldest(r) \in Cells
        <3>1. rpc[r] = "store" /\ rpc'[r] = "idle" /\ nRdIdx' = nRdIdx
            BY <1>0, <1>9 DEF StoreRdCount, EndRead, Inv, TypeOK
        <3>2. /\ toRead[r] \in Nat /\ nCount \in Nat /\ nCount <= Size /\ toRead[r] <= nCount
              /\ rCount[r] = nCount /\ rdIdx[r] \in Cells /\ nRdIdx = Advance(rdIdx[r], toRead[r])
            BY <1>0, <3>1, Reading
        <3>3. nCount' = nCount - toRead[r]
            BY <1>9, <3>2 DEF StoreRdCount, Minus
        <3> QED BY <3>1, <3>2, <3>3 DEF Oldest
    <2>2. Advance(Oldest(r)', nCount') = Advance(Oldest(r), nCount)
        BY <2>1, AdvanceTwice
    <2>3. UNCHANGED <<pfBuf, writer>>
        BY <1>9 DEF StoreRdCount
    <2>4. BlockCopied'
        <3> SUFFICES ASSUME wpc \in {"load", "store"}
                     PROVE  toWrite = Stored(pfBuf, Advance(Oldest(r), nCount), Len(toWrite))'
            BY <1>0, <2>3 DEF BlockCopied, writer
        <3>1. toWrite = Stored(pfBuf, Advance(Oldest(r), nCount), Len(toWrite))
            BY <1>0 DEF BlockCopied
        <3> QED BY <2>2, <2>3, <3>1 DEF writer, Stored
    <2>5. BytesCopied'
        BY <1>0, <2>1 DEF BytesCopied
    <2> QED BY <2>4, <2>5
<1>10. ASSUME NEW block \in Blocks, ForceWrite(block) PROVE DataInv'
    BY <1>0, <1>10 DEF ForceWrite, Quiet, BlockCopied, BytesCopied, reader
<1>11. ASSUME Flush PROVE DataInv'
    BY <1>0, <1>11 DEF Flush, Quiet, BlockCopied, BytesCopied, reader, writer
<1>12. CASE UNCHANGED vars
    BY <1>12 DEF vars, buffer, writer, reader, BlockCopied, BytesCopied, Oldest, Bytes, Stored
<1> QED BY <1>0, <1>1, <1>2, <1>3, <1>4, <1>5, <1>6, <1>7, <1>8, <1>9, <1>10, <1>11, <1>12
        DEF Next

\* With one reader and both changes of the count protected, what has been copied is where
\* the indices and the count say, until it is counted.
THEOREM BytesCorrect ==
  ASSUME OneReader
  PROVE  Spec => []DataInv
<1>1. Init => Inv /\ DataInv
    BY InvInit, DataInit
<1>2. Inv /\ DataInv /\ [Next]_vars => Inv' /\ DataInv'
    BY InvStep, DataStep
<1> QED BY <1>1, <1>2, PTL DEF Spec

-----------------------------------------------------------------------------
(* The refinement.                                                          *)

Content == Stored(pfBuf, Oldest(Reader), nCount)
Offered == IF wpc = "idle" THEN {} ELSE {toWrite}
Taking == IF rpc[Reader] = "idle" THEN {}
          ELSE {[bytes |-> toRead[Reader], keep |-> rpc[Reader] = "peek"]}

LEMMA ReaderIs == ASSUME OneReader PROVE Readers = {Reader} /\ Reader \in Readers
BY DEF OneReader, Reader

LEMMA ContentType ==
  ASSUME OneReader, Inv
  PROVE  /\ Oldest(Reader) \in Cells /\ pfBuf \in [Cells -> Values]
         /\ nCount \in 0 .. Size /\ Content \in Seq(Values) /\ Len(Content) = nCount
<1>1. Oldest(Reader) \in Cells
    BY ReaderIs, WriteAt
<1>2. nCount \in 0 .. Size /\ pfBuf \in [Cells -> Values]
    BY ByteQAssumption DEF Inv, TypeOK, IndexInv, RoomForWrite
<1> QED BY <1>1, <1>2, StoredType DEF Content

\* A step that touches neither the buffer nor the count nor the reader's beginning.
LEMMA ContentKept ==
  ASSUME UNCHANGED <<pfBuf, nCount>>, Oldest(Reader)' = Oldest(Reader)
  PROVE  Content' = Content
BY DEF Content, Stored

LEMMA WriterMaps ==
  ASSUME OneReader, Inv, DataInv,
         \/ \E block \in Blocks : BeginWrite(block) \/ BeginFill(block)
         \/ CopyIn \/ LoadWrCount \/ StoreWrCount
  PROVE  [FIFO!AbsNext]_(FIFO!absVars)
<1> USE ReaderIs, ContentType
<1>1. UNCHANGED reader /\ Taking' = Taking /\ given'[Reader] = given[Reader]
    BY DEF BeginWrite, BeginFill, CopyIn, LoadWrCount, StoreWrCount, reader, Taking
<1>2. ASSUME NEW block \in Blocks, BeginWrite(block) \/ BeginFill(block)
      PROVE  FIFO!BeginPut(block)
    <2>1. Content' = Content
        <3>1. Oldest(Reader)' = Oldest(Reader)
            BY <1>2 DEF BeginWrite, BeginFill, Oldest, buffer, reader
        <3> QED BY <1>2, <3>1, ContentKept DEF BeginWrite, BeginFill, buffer
    <2>2. Offered = {} /\ accepted' = accepted
        BY <1>2 DEF BeginWrite, BeginFill, Offered
    <2>3. Offered' = IF Len(Content) + Len(block) <= Size THEN {block} ELSE {<< >>}
        <3>1. Minus(Size, nCount) = Size - nCount /\ Size \in Nat /\ Len(block) \in Nat
            BY ByteQAssumption, BlockType DEF Minus
        <3>2. Len(block) <= Minus(Size, nCount) <=> Len(Content) + Len(block) <= Size
            BY <3>1
        <3>3. /\ wpc' = "copy"
              /\ toWrite' = IF Len(block) <= Minus(Size, nCount) THEN block ELSE << >>
            BY <1>2 DEF BeginWrite, BeginFill
        <3> QED BY <3>2, <3>3 DEF Offered
    <2> QED BY <1>1, <2>1, <2>2, <2>3 DEF FIFO!BeginPut, Content, Offered, Taking
<1>3. ASSUME CopyIn PROVE UNCHANGED FIFO!absVars
    <2>1. /\ Oldest(Reader)' = Oldest(Reader)
          /\ \A n \in 0 .. nCount :
               Stored(pfBuf, Oldest(Reader), n)' = Stored(pfBuf, Oldest(Reader), n)
        BY <1>3, CopyInData
    <2>2. Content' = Content
        BY <1>3, <2>1 DEF CopyIn, Content, Stored
    <2>3. Offered' = Offered /\ accepted' = accepted
        BY <1>3 DEF CopyIn, Offered
    <2> QED BY <1>1, <2>2, <2>3 DEF FIFO!absVars, Content, Offered, Taking
<1>4. ASSUME LoadWrCount PROVE UNCHANGED FIFO!absVars
    <2>1. Content' = Content
        BY <1>4, ContentKept DEF LoadWrCount, Oldest, buffer, reader
    <2>2. Offered' = Offered /\ accepted' = accepted
        BY <1>4 DEF LoadWrCount, Offered
    <2> QED BY <1>1, <2>1, <2>2 DEF FIFO!absVars, Content, Offered, Taking
<1>5. ASSUME StoreWrCount PROVE FIFO!EndPut
    <2>1. /\ Offered = {toWrite} /\ Offered' = {} /\ accepted' = Len(toWrite)
          /\ toWrite = Stored(pfBuf, Advance(Oldest(Reader), nCount), Len(toWrite))
        BY <1>5 DEF StoreWrCount, Offered, DataInv, BlockCopied
    <2>2. nCount' = nCount + Len(toWrite) /\ nCount + Len(toWrite) <= Size
          /\ Len(toWrite) \in Nat
        <3>1. nCount + Len(toWrite) <= Size /\ Len(toWrite) \in Nat
            BY DEF Inv, TypeOK, IndexInv, RoomForWrite
        <3>2. wCount = nCount
            BY <1>5 DEF StoreWrCount, Inv, IndexInv, CountLoaded
        <3> QED BY <1>5, <3>1, <3>2, ByteQAssumption DEF StoreWrCount, Plus
    <2>3. Oldest(Reader)' = Oldest(Reader) /\ pfBuf' = pfBuf
        BY <1>5 DEF StoreWrCount, Oldest, reader
    <2>4. Stored(pfBuf, Oldest(Reader), nCount + Len(toWrite)) = Content \o toWrite
        <3> DEFINE n == Len(toWrite)
        <3>1. n \in Nat /\ nCount \in Nat /\ nCount + n <= Size
            BY <2>2
        <3>2. toWrite = Stored(pfBuf, Advance(Oldest(Reader), nCount), n)
            BY <2>1
        <3> HIDE DEF n
        <3>3. Stored(pfBuf, Oldest(Reader), nCount + n)
                = Content \o Stored(pfBuf, Advance(Oldest(Reader), nCount), n)
            BY <3>1, StoredConcat DEF Content
        <3> QED BY <3>2, <3>3 DEF n
    <2>5. Content' = Content \o toWrite
        BY <2>2, <2>3, <2>4 DEF Content, Stored
    <2> QED BY <1>1, <2>1, <2>5 DEF FIFO!EndPut, Content, Offered, Taking
<1>6. (\E block \in Blocks : FIFO!BeginPut(block)) \/ FIFO!EndPut => FIFO!AbsNext
    BY DEF FIFO!AbsNext, FIFO!Blocks, Blocks
<1> QED BY <1>2, <1>3, <1>4, <1>5, <1>6

LEMMA ReaderMaps ==
  ASSUME OneReader, Inv, DataInv, NEW r \in Readers,
         \/ \E n \in 1 .. MaxLen : Read(r, n) \/ Peek(r, n) \/ CommitRead(r, n)
         \/ CopyOut(r) \/ CopyPeek(r) \/ LoadRdCount(r) \/ StoreRdCount(r)
  PROVE  [FIFO!AbsNext]_(FIFO!absVars)
<1> USE ContentType
<1>1. r = Reader
    BY ReaderIs
<1>2. UNCHANGED writer /\ Offered' = Offered /\ accepted' = accepted
    BY DEF Read, Peek, CommitRead, BeginRead, CopyOut, CopyPeek, LoadRdCount, StoreRdCount,
           EndRead, writer, Offered
<1>3. /\ rpc \in [Readers -> {"idle", "copy", "peek", "load", "store"}]
      /\ given \in [Readers -> Seq(Values)] /\ toRead \in [Readers -> Nat]
      /\ rdIdx \in [Readers -> Cells]
    BY DEF Inv, TypeOK
<1>4. ASSUME NEW n \in 1 .. MaxLen, Read(r, n) \/ Peek(r, n) \/ CommitRead(r, n)
      PROVE  \E keep \in BOOLEAN : FIFO!BeginTake(n, keep)
    <2>1. PICK label \in {"copy", "peek"} : BeginRead(r, n, label)
        BY <1>4 DEF Read, Peek, CommitRead
    <2>2. Content' = Content
        <3>1. Oldest(r)' = Oldest(r)
            BY <1>3, <2>1 DEF BeginRead, Oldest
        <3> QED BY <1>1, <2>1, <3>1, ContentKept DEF BeginRead, buffer
    <2>3. Taking = {} /\ given'[Reader] = given[Reader]
        BY <1>1, <2>1 DEF BeginRead, Taking
    <2>4. Taking' = {[bytes |-> FIFO!Smaller(n, Len(Content)), keep |-> label = "peek"]}
        <3>1. FIFO!Smaller(n, Len(Content)) = Least(nCount, n)
            BY DEF FIFO!Smaller, Least
        <3> QED BY <1>1, <1>3, <2>1, <3>1 DEF BeginRead, Taking
    <2>5. FIFO!BeginTake(n, label = "peek")
        BY <1>2, <2>2, <2>3, <2>4 DEF FIFO!BeginTake, Content, Offered, Taking
    <2> QED BY <2>5
<1>5. ASSUME CopyOut(r) PROVE UNCHANGED FIFO!absVars
    <2>1. Content' = Content
        <3>1. Oldest(r)' = Oldest(r)
            BY <1>3, <1>5 DEF CopyOut, Oldest
        <3> QED BY <1>1, <1>5, <3>1, ContentKept DEF CopyOut
    <2>2. Taking' = Taking /\ given'[Reader] = given[Reader]
        BY <1>1, <1>3, <1>5 DEF CopyOut, Taking
    <2> QED BY <1>2, <2>1, <2>2 DEF FIFO!absVars, Content, Offered, Taking
<1>6. ASSUME LoadRdCount(r) PROVE UNCHANGED FIFO!absVars
    <2>1. Content' = Content
        <3>1. Oldest(r)' = Oldest(r)
            BY <1>3, <1>6 DEF LoadRdCount, Oldest, buffer
        <3> QED BY <1>1, <1>6, <3>1, ContentKept DEF LoadRdCount, buffer
    <2>2. Taking' = Taking /\ given'[Reader] = given[Reader]
        BY <1>1, <1>3, <1>6 DEF LoadRdCount, Taking
    <2> QED BY <1>2, <2>1, <2>2 DEF FIFO!absVars, Content, Offered, Taking
<1>7. rpc[r] # "idle" =>
        /\ toRead[r] \in 0 .. nCount /\ Oldest(r) = rdIdx[r]
        /\ Bytes(r) = SubSeq(Content, 1, toRead[r])
        /\ Stored(pfBuf, Advance(rdIdx[r], toRead[r]), nCount - toRead[r])
             = SubSeq(Content, toRead[r] + 1, Len(Content))
    <2> HAVE rpc[r] # "idle"
    <2>1. toRead[r] \in 0 .. nCount /\ Oldest(r) = rdIdx[r]
        BY Reading DEF Oldest
    <2> QED BY <1>1, <2>1, StoredSplit, SMTT(30) DEF Bytes, Content
<1>8. ASSUME CopyPeek(r) PROVE FIFO!EndTake
    <2>1. rpc[r] = "peek" /\ rpc'[r] = "idle" /\ given'[r] = Bytes(r)
        BY <1>3, <1>8 DEF CopyPeek, EndRead
    <2>2. Content' = Content
        <3>1. Oldest(r)' = Oldest(r)
            BY <1>8, <2>1, Reading DEF CopyPeek, Oldest, buffer
        <3> QED BY <1>1, <1>8, <3>1, ContentKept DEF CopyPeek, buffer
    <2>3. Taking = {[bytes |-> toRead[r], keep |-> TRUE]} /\ Taking' = {}
        BY <1>1, <2>1 DEF Taking
    <2> QED BY <1>1, <1>2, <1>7, <2>1, <2>2, <2>3 DEF FIFO!EndTake, Content, Offered, Taking
<1>9. ASSUME StoreRdCount(r) PROVE FIFO!EndTake
    <2>1. rpc[r] = "store" /\ rpc'[r] = "idle" /\ given'[r] = out[r]
        BY <1>3, <1>9 DEF StoreRdCount, EndRead
    <2>2. out[r] = Bytes(r)
        BY <2>1 DEF DataInv, BytesCopied
    <2>3. /\ Oldest(r)' = Advance(rdIdx[r], toRead[r]) /\ nCount' = nCount - toRead[r]
          /\ pfBuf' = pfBuf
        <3>1. /\ nCount \in Nat /\ toRead[r] \in Nat /\ toRead[r] <= nCount
              /\ rCount[r] = nCount /\ nRdIdx = Advance(rdIdx[r], toRead[r])
            BY <2>1, Reading
        <3> QED BY <1>9, <2>1, <3>1 DEF StoreRdCount, Oldest, Minus
    <2>4. Content' = SubSeq(Content, toRead[r] + 1, Len(Content))
        <3>1. Content' = Stored(pfBuf, Advance(rdIdx[r], toRead[r]), nCount - toRead[r])
            BY <1>1, <2>3 DEF Content, Stored
        <3> QED BY <1>7, <2>1, <3>1
    <2>5. Taking = {[bytes |-> toRead[r], keep |-> FALSE]} /\ Taking' = {}
        BY <1>1, <2>1 DEF Taking
    <2> QED BY <1>1, <1>2, <1>7, <2>1, <2>2, <2>4, <2>5
            DEF FIFO!EndTake, Content, Offered, Taking
<1>10. \/ \E n \in 1 .. MaxLen, keep \in BOOLEAN : FIFO!BeginTake(n, keep)
       \/ FIFO!EndTake
       => FIFO!AbsNext
    BY DEF FIFO!AbsNext
<1> QED BY <1>4, <1>5, <1>6, <1>8, <1>9, <1>10

\* A block put behind the first m bytes is appended to them.
LEMMA Appended ==
  ASSUME NEW buf \in [Cells -> Values], NEW i \in Cells, NEW m \in Nat,
         NEW block \in Seq(Values), m + Len(block) <= Size
  PROVE  Stored(Insert(buf, Advance(i, m), block), i, m + Len(block))
           = Stored(buf, i, m) \o block
<1> DEFINE j == Advance(i, m)  new == Insert(buf, j, block)  n == Len(block)
<1>1. n \in Nat /\ m + n <= Size /\ m \in 0 .. Size /\ n <= Size
    BY ByteQAssumption
<1>2. j \in Cells
    BY <1>1, AdvanceType
<1>3. new \in [Cells -> Values]
    BY <1>2, InsertType
<1>4. Stored(new, i, m) = Stored(buf, i, m)
    BY <1>1, InsertKeeps
<1>5. Stored(new, j, n) = block
    BY <1>1, <1>2, InsertPuts
<1> HIDE DEF n, new
<1>6. Stored(new, i, m + n) = Stored(new, i, m) \o Stored(new, j, n)
    BY <1>1, <1>3, StoredConcat
<1> QED BY <1>4, <1>5, <1>6 DEF n, new

\* A forced write, in the three ways of ForcePlaces.
LEMMA ForceMaps ==
  ASSUME OneReader, Inv, NEW block \in Blocks, ForceWrite(block)
  PROVE  FIFO!ForcePut(block)
<1> DEFINE i == Oldest(Reader)   all == Content \o block
           diff == Len(block) - (Size - nCount)   over == Len(block) - Size
<1>1. /\ block \in Seq(Values) /\ Len(block) \in Nat /\ Size \in Nat
      /\ i \in Cells /\ nWrIdx \in Cells /\ nRdIdx \in Cells
      /\ pfBuf \in [Cells -> Values] /\ nCount \in Nat /\ nCount <= Size
      /\ Content \in Seq(Values) /\ Len(Content) = nCount
    BY BlockType, ContentType, ByteQAssumption DEF Inv, TypeOK
<1>2. i = nRdIdx /\ nWrIdx = Advance(nRdIdx, nCount) /\ Oldest(Reader)' = nRdIdx'
    <2>1. rpc[Reader] = "idle" /\ wpc = "idle" /\ rpc' = rpc
        BY ReaderIs DEF ForceWrite, Quiet, reader
    <2>2. nWrIdx = Advance(i, nCount + Coming)
        BY ReaderIs, WriteAt
    <2>3. Coming = 0 /\ nCount + 0 = nCount
        BY <1>1, <2>1 DEF Coming
    <2> QED BY <2>1, <2>2, <2>3 DEF Oldest
<1>3. /\ diff \in Int /\ over \in Int
      /\ diff = over + nCount /\ Len(block) = over + Size
    BY <1>1
<1>4. all \in Seq(Values) /\ Len(all) = nCount + Len(block) /\ Len(all) - Size = diff
    BY <1>1
<1>5. /\ diff <= 0 => Fits(block)
      /\ diff > 0 /\ over <= 0 => PushesOut(block, diff)
      /\ over > 0 => \E c \in Cells : GoesRound(SubSeq(block, over + 1, Len(block)), c)
    BY ForcePlaces
<1> HIDE DEF i, diff, over
<1>6. ASSUME diff <= 0 PROVE Content' = all
    <2>1. Fits(block) /\ nCount + Len(block) <= Size
        BY <1>1, <1>3, <1>5, <1>6
    <2>2. pfBuf' = Insert(pfBuf, Advance(i, nCount), block)
        BY <1>2, <2>1 DEF Fits
    <2>3. Stored(pfBuf', i, nCount + Len(block)) = Content \o block
        <3>1. nCount \in Nat /\ i \in Cells
            BY <1>1
        <3> QED BY <1>1, <2>1, <2>2, <3>1, Appended DEF Content, i
    <2> QED BY <1>2, <2>1, <2>3 DEF Fits, Content, Stored
<1>7. ASSUME diff > 0, over <= 0 PROVE Content' = SubSeq(all, diff + 1, Len(all))
    <2> DEFINE rest == nCount - diff  j == Advance(i, diff)
    <2>1. PushesOut(block, diff)
        BY <1>5, <1>7
    <2>2. diff \in 0 .. nCount /\ rest \in Nat /\ diff + rest = nCount
        BY <1>1, <1>3, <1>7
    <2>3. Len(block) <= Size /\ rest + Len(block) = Size
        BY <1>1, <1>3, <1>7
    <2> HIDE DEF rest
    <2>4. diff \in Nat /\ diff \in 0 .. Size /\ diff + rest <= Size
        BY <1>1, <2>2
    <2>5. j \in Cells /\ Advance(j, rest) = nWrIdx
        BY <1>1, <1>2, <2>2, <2>4, AdvanceType, AdvanceTwice
    <2>6. pfBuf' = Insert(pfBuf, Advance(j, rest), block) /\ nRdIdx' = j /\ nCount' = Size
        BY <1>2, <2>1, <2>5 DEF PushesOut
    <2>7. Stored(pfBuf, j, rest) = SubSeq(Content, diff + 1, Len(Content))
        <3>1. rest = nCount - diff /\ nCount \in 0 .. Size
            BY <1>1 DEF rest
        <3>2. SubSeq(Stored(pfBuf, i, nCount), diff + 1, nCount)
                = Stored(pfBuf, Advance(i, diff), nCount - diff)
            BY <1>1, <2>2, <3>1, StoredSplit
        <3>3. Content = Stored(pfBuf, i, nCount)
            BY DEF Content, i
        <3> QED BY <1>1, <3>1, <3>2, <3>3
    <2> HIDE DEF j
    <2>8. Stored(pfBuf', j, Size) = SubSeq(Content, diff + 1, Len(Content)) \o block
        <3>1. Stored(Insert(pfBuf, Advance(j, rest), block), j, rest + Len(block))
                = Stored(pfBuf, j, rest) \o block
            BY <1>1, <2>2, <2>3, <2>5, Appended, SMTT(30)
        <3> QED BY <2>3, <2>6, <2>7, <3>1
    <2>9. SubSeq(all, diff + 1, Len(all)) = SubSeq(Content, diff + 1, Len(Content)) \o block
        BY <1>1, <2>2, EndOfConcat
    <2>10. Content' = Stored(pfBuf', j, Size)
        BY <1>2, <2>6 DEF Content, Stored
    <2> QED BY <2>8, <2>9, <2>10
<1>8. ASSUME over > 0 PROVE Content' = SubSeq(all, diff + 1, Len(all))
    <2> DEFINE kept == SubSeq(block, over + 1, Len(block))
    <2>1. kept \in Seq(Values) /\ Len(kept) = Size
        BY <1>1, <1>3, <1>8
    <2>2. PICK c \in Cells : GoesRound(kept, c)
        BY <1>5, <1>8
    <2>3. SubSeq(all, nCount + over + 1, Len(all)) = kept
        <3>1. over \in 0 .. Len(block)
            BY <1>1, <1>3, <1>8
        <3> QED BY <1>1, <3>1, EndOfSecond
    <2> HIDE DEF kept
    <2>4. Stored(Insert(pfBuf, c, kept), c, Size) = kept
        BY <1>1, <2>1, InsertPuts
    <2>5. Content' = kept
        BY <1>2, <2>2, <2>4 DEF GoesRound, Content, Stored
    <2>6. nCount + over + 1 = diff + 1
        BY <1>1, <1>3
    <2> QED BY <2>3, <2>5, <2>6
<1>9. /\ Offered = {} /\ Offered' = {} /\ Taking = {} /\ Taking' = {}
      /\ accepted' = Len(block) /\ given' = given
    BY ReaderIs DEF ForceWrite, Quiet, Offered, Taking, reader
<1>10. Content' = IF diff > 0 THEN SubSeq(all, diff + 1, Len(all)) ELSE all
    BY <1>3, <1>6, <1>7, <1>8, SMTT(30)
<1> HIDE DEF all
<1>11. Content' = LET a == Content \o block  excess == Len(a) - Size
                  IN IF excess > 0 THEN SubSeq(a, excess + 1, Len(a)) ELSE a
    BY <1>4, <1>10 DEF all
<1> QED BY <1>9, <1>11 DEF FIFO!ForcePut, Content, Offered, Taking

LEMMA FlushMaps ==
  ASSUME OneReader, Inv, Flush
  PROVE  FIFO!Clear
<1>1. /\ Offered = {} /\ Offered' = {} /\ Taking = {} /\ Taking' = {}
      /\ accepted' = accepted /\ given' = given
    BY ReaderIs DEF Flush, Quiet, Offered, Taking, reader, writer
<1>2. Content' = << >>
    BY DEF Flush, Content, Stored
<1> QED BY <1>1, <1>2 DEF FIFO!Clear, Content, Offered, Taking

LEMMA StutterMaps == UNCHANGED vars => UNCHANGED FIFO!absVars
BY DEF vars, buffer, writer, reader, Stored, Oldest, FIFO!absVars

LEMMA InitMaps == ASSUME OneReader PROVE Init => FIFO!AbsInit
BY ReaderIs DEF Init, FIFO!AbsInit, Stored

LEMMA StepMaps ==
  ASSUME OneReader
  PROVE  Inv /\ DataInv /\ [Next]_vars => [FIFO!AbsNext]_(FIFO!absVars)
<1> SUFFICES ASSUME Inv, DataInv, [Next]_vars PROVE [FIFO!AbsNext]_(FIFO!absVars)
    OBVIOUS
<1>1. CASE \/ \E block \in Blocks : BeginWrite(block) \/ BeginFill(block)
           \/ CopyIn \/ LoadWrCount \/ StoreWrCount
    BY <1>1, WriterMaps
<1>2. ASSUME NEW r \in Readers,
             \/ \E n \in 1 .. MaxLen : Read(r, n) \/ Peek(r, n) \/ CommitRead(r, n)
             \/ CopyOut(r) \/ CopyPeek(r) \/ LoadRdCount(r) \/ StoreRdCount(r)
      PROVE  [FIFO!AbsNext]_(FIFO!absVars)
    BY <1>2, ReaderMaps
<1>3. ASSUME NEW block \in Blocks, ForceWrite(block) PROVE FIFO!AbsNext
    BY <1>3, ForceMaps DEF FIFO!AbsNext, FIFO!Blocks, Blocks
<1>4. CASE Flush
    BY <1>4, FlushMaps DEF FIFO!AbsNext
<1>5. CASE UNCHANGED vars
    BY <1>5, StutterMaps
<1> QED BY <1>1, <1>2, <1>3, <1>4, <1>5 DEF Next

\* With one reader and both changes of the count protected, the queue is first in, first
\* out for every size of the buffer: no byte is lost, repeated, reordered or overwritten
\* before it is read, and a forced write keeps the newest bytes.
THEOREM Implements ==
  ASSUME OneReader
  PROVE  Spec => IsByteFifo
<1>1. Init => Inv /\ DataInv /\ FIFO!AbsInit
    BY InvInit, DataInit, InitMaps
<1>2. Inv /\ DataInv /\ [Next]_vars => Inv' /\ DataInv'
    BY InvStep, DataStep
<1>3. Inv /\ DataInv /\ [Next]_vars => [FIFO!AbsNext]_(FIFO!absVars)
    BY StepMaps
<1> QED BY <1>1, <1>2, <1>3, PTL DEF Spec, IsByteFifo, FIFO!AbsSpec

-----------------------------------------------------------------------------
\* The ring of RingAccess, which one thread uses alone.
RingCells == 0 .. RingBytes - 1

LEMMA RingSize == RingBytes \in Nat \ {0}
BY RingAssumption

\* The remainder of the division by the size of the ring, up to two laps, and by the
\* size of an item.
LEMMA RemainderOf ==
  ASSUME NEW M \in Nat \ {0}, NEW q \in Int, NEW r \in 0 .. M - 1
  PROVE  (M * q + r) % M = r
<1> DEFINE n == M * q + r  p == n \div M  s == n % M
<1>1. n \in Int /\ p \in Int /\ s \in 0 .. M - 1 /\ n = M * p + s
    OBVIOUS
<1> HIDE DEF p, s
<1>2. s \in Int /\ 0 <= s /\ s < M /\ M * p + s = M * q + r
    BY <1>1
<1>3. ASSUME NEW d \in Int, d >= 1 PROVE M * d >= M
    BY <1>3
<1>4. M * (p - q) = M * p - M * q /\ M * (q - p) = M * q - M * p
    BY <1>1
<1> DEFINE x == M * p  y == M * q
<1>5. x \in Int /\ y \in Int /\ x + s = y + r
    BY <1>1, <1>2
<1> HIDE DEF x, y
<1>6. x - y = r - s /\ y - x = s - r
    BY <1>2, <1>5
<1>7. M * (p - q) < M /\ M * (q - p) < M
    BY <1>2, <1>4, <1>6 DEF x, y
<1>8. p = q
    <2>1. CASE p - q >= 1
        BY <1>1, <1>3, <1>7, <2>1
    <2>2. CASE q - p >= 1
        BY <1>1, <1>3, <1>7, <2>2
    <2> QED BY <1>1, <2>1, <2>2
<1>9. x = y
    BY <1>8 DEF x, y
<1> QED BY <1>2, <1>5, <1>9 DEF s

LEMMA RingRemainder ==
  ASSUME NEW at \in Int, 0 <= at, at < 2 * RingBytes
  PROVE  at % RingBytes = IF at < RingBytes THEN at ELSE at - RingBytes
<1> USE RingSize
<1>1. CASE at < RingBytes
    <2>1. (RingBytes * 0 + at) % RingBytes = at
        BY <1>1, RemainderOf
    <2> QED BY <1>1, <2>1
<1>2. CASE at >= RingBytes
    <2>1. at - RingBytes \in 0 .. RingBytes - 1 /\ RingBytes * 1 + (at - RingBytes) = at
        BY <1>2
    <2>2. (RingBytes * 1 + (at - RingBytes)) % RingBytes = at - RingBytes
        BY <2>1, RemainderOf
    <2> QED BY <1>2, <2>1, <2>2
<1> QED BY <1>1, <1>2

LEMMA IncMeans ==
  ASSUME NEW at \in RingCells, NEW n \in 0 .. RingBytes
  PROVE  /\ inc_buf_idx(at, n) \in RingCells
         /\ inc_buf_idx(at, n) = at + n \/ inc_buf_idx(at, n) = at + n - RingBytes
BY RingSize DEF inc_buf_idx, RingCells

LEMMA IncNone == \A at \in RingCells : inc_buf_idx(at, 0) = at
BY RingSize DEF inc_buf_idx, RingCells

\* It does not matter how a way is divided.
LEMMA IncTwice ==
  ASSUME NEW at \in RingCells, NEW m1 \in 0 .. RingBytes, NEW n1 \in 0 .. RingBytes,
         NEW m2 \in 0 .. RingBytes, NEW n2 \in 0 .. RingBytes, m1 + n1 = m2 + n2
  PROVE  inc_buf_idx(inc_buf_idx(at, m1), n1) = inc_buf_idx(inc_buf_idx(at, m2), n2)
<1> DEFINE x1 == inc_buf_idx(at, m1)  x2 == inc_buf_idx(at, m2)
           y1 == inc_buf_idx(x1, n1)  y2 == inc_buf_idx(x2, n2)
<1>1. /\ x1 \in RingCells /\ (x1 = at + m1 \/ x1 = at + m1 - RingBytes)
      /\ x2 \in RingCells /\ (x2 = at + m2 \/ x2 = at + m2 - RingBytes)
    BY IncMeans
<1> HIDE DEF x1, x2
<1>2. /\ y1 \in RingCells /\ (y1 = x1 + n1 \/ y1 = x1 + n1 - RingBytes)
      /\ y2 \in RingCells /\ (y2 = x2 + n2 \/ y2 = x2 + n2 - RingBytes)
    BY <1>1, IncMeans
<1> HIDE DEF y1, y2
<1>3. /\ at \in Int /\ x1 \in Int /\ x2 \in Int /\ m1 \in Int /\ m2 \in Int /\ n1 \in Int
      /\ n2 \in Int /\ RingBytes \in Int /\ y1 \in 0 .. RingBytes - 1 /\ y2 \in 0 .. RingBytes - 1
    BY <1>1, <1>2, RingSize DEF RingCells
<1>4. y1 = y2
    BY <1>1, <1>2, <1>3
<1> QED BY <1>4 DEF y1, y2, x1, x2

LEMMA GapType ==
  \A at, cell \in RingCells : RingGap(at, cell) \in RingCells
BY RingSize DEF RingGap, RingCells

\* The bytes from a place of the buffer on are those of a sequence.
RingStored(buf, rd, keeps) == \A i \in 1 .. Len(keeps) : buf[inc_buf_idx(rd, i - 1)] = keeps[i]

\* The gap behind the write index of a cell that is d + i - 1 places behind the read index.
LEMMA GapsBehind ==
  ASSUME NEW rd \in RingCells, NEW count \in 0 .. RingBytes, NEW d \in 0 .. count, NEW n \in Nat,
         count - d + n <= RingBytes, NEW i \in 1 .. count - d + n,
         NEW wr, wr = inc_buf_idx(rd, count), NEW cell, cell = inc_buf_idx(inc_buf_idx(rd, d), i - 1)
  PROVE  /\ cell \in RingCells /\ wr \in RingCells
         /\ d + i <= count => cell = inc_buf_idx(rd, d + i - 1) /\ ~(RingGap(wr, cell) < n)
         /\ d + i > count => RingGap(wr, cell) = d + i - 1 - count
<1> USE RingSize
<1>0. /\ rd \in Int /\ 0 <= rd /\ rd < RingBytes /\ count \in Int /\ 0 <= count /\ count <= RingBytes
      /\ d \in Int /\ 0 <= d /\ d <= count /\ n \in Int /\ i \in Int /\ 1 <= i
      /\ i <= count - d + n /\ RingBytes \in Int
    BY DEF RingCells
<1> DEFINE rd2 == inc_buf_idx(rd, d)
<1>1. rd2 \in Int /\ 0 <= rd2 /\ rd2 < RingBytes /\ (rd2 = rd + d \/ rd2 = rd + d - RingBytes)
    BY <1>0 DEF inc_buf_idx
<1>2. wr \in Int /\ 0 <= wr /\ wr < RingBytes /\ (wr = rd + count \/ wr = rd + count - RingBytes)
    BY <1>0 DEF inc_buf_idx
<1> HIDE DEF rd2
<1>3. /\ cell \in Int /\ 0 <= cell /\ cell < RingBytes
      /\ cell = rd2 + i - 1 \/ cell = rd2 + i - 1 - RingBytes
    BY <1>0, <1>1 DEF inc_buf_idx, rd2
<1>4. cell \in RingCells /\ wr \in RingCells
    BY <1>0, <1>2, <1>3 DEF RingCells
<1>5. ASSUME d + i <= count PROVE cell = inc_buf_idx(rd, d + i - 1) /\ ~(RingGap(wr, cell) < n)
    <2>1. cell = inc_buf_idx(rd, d + i - 1)
        BY <1>0, <1>1, <1>3, <1>5 DEF inc_buf_idx
    <2>2. ~(RingGap(wr, cell) < n)
        BY <1>0, <1>1, <1>2, <1>3, <1>5 DEF RingGap
    <2> QED BY <2>1, <2>2
<1>6. ASSUME d + i > count PROVE RingGap(wr, cell) = d + i - 1 - count
    BY <1>0, <1>1, <1>2, <1>3, <1>6 DEF RingGap
<1> QED BY <1>4, <1>5, <1>6

\* Two sequences without the d first items of the first one.
Kept(keeps, bytes, d) == SubSeq(keeps \o bytes, d + 1, Len(keeps) + Len(bytes))

\* The i-th of the bytes that are kept is where it was, or that far into the block.
GapsAre(rd, count, d, n) ==
  \A i \in 1 .. count - d + n :
    LET cell == inc_buf_idx(inc_buf_idx(rd, d), i - 1)
        gap == RingGap(inc_buf_idx(rd, count), cell)
    IN  /\ cell \in RingCells
        /\ d + i <= count => cell = inc_buf_idx(rd, d + i - 1) /\ ~(gap < n)
        /\ d + i > count => gap = d + i - 1 - count

LEMMA AllGapsBehind ==
  ASSUME NEW rd \in RingCells, NEW count \in 0 .. RingBytes, NEW d \in 0 .. count, NEW n \in Nat,
         count - d + n <= RingBytes
  PROVE  GapsAre(rd, count, d, n)
<1> SUFFICES ASSUME NEW i \in 1 .. count - d + n
             PROVE  LET cell == inc_buf_idx(inc_buf_idx(rd, d), i - 1)
                        gap == RingGap(inc_buf_idx(rd, count), cell)
                    IN  /\ cell \in RingCells
                        /\ d + i <= count => cell = inc_buf_idx(rd, d + i - 1) /\ ~(gap < n)
                        /\ d + i > count => gap = d + i - 1 - count
    BY DEF GapsAre
<1> DEFINE cell == inc_buf_idx(inc_buf_idx(rd, d), i - 1)  wr == inc_buf_idx(rd, count)
<1>1. /\ cell \in RingCells
      /\ d + i <= count => cell = inc_buf_idx(rd, d + i - 1) /\ ~(RingGap(wr, cell) < n)
      /\ d + i > count => RingGap(wr, cell) = d + i - 1 - count
    BY GapsBehind
<1> QED BY <1>1

LEMMA KeptMeans ==
  ASSUME NEW keeps \in Seq(Int), NEW bytes \in Seq(Int), NEW d \in 0 .. Len(keeps)
  PROVE  /\ Kept(keeps, bytes, d) \in Seq(Int)
         /\ Len(Kept(keeps, bytes, d)) = Len(keeps) - d + Len(bytes)
         /\ \A i \in 1 .. Len(keeps) - d + Len(bytes) :
              Kept(keeps, bytes, d)[i] = IF d + i <= Len(keeps) THEN keeps[d + i]
                                         ELSE bytes[d + i - Len(keeps)]
<1> DEFINE count == Len(keeps)  n == Len(bytes)
           all == keeps \o bytes  m == d + 1  e == count + n
           part == SubSeq(all, m, e)
<1>1. count \in Nat /\ n \in Nat /\ d \in 0 .. count
    OBVIOUS
<1>2. all \in Seq(Int) /\ Len(all) = e
    OBVIOUS
<1>3. \A j \in 1 .. count + n : all[j] = IF j <= count THEN keeps[j] ELSE bytes[j - count]
    OBVIOUS
<1>4. Kept(keeps, bytes, d) = part
    BY DEF Kept
<1> HIDE DEF all, count, n
<1>5. m \in Int /\ e \in Int /\ m <= e + 1 /\ e - m + 1 = count - d + n
    BY <1>1
<1>6. \A k \in m .. e : all[k] \in Int
    <2>1. \A k \in 1 .. Len(all) : all[k] \in Int
        BY <1>2
    <2> QED BY <1>1, <1>2, <2>1
<1> HIDE DEF m, e
<1>7. /\ part \in Seq(Int)
      /\ Len(part) = IF m <= e THEN e - m + 1 ELSE 0
      /\ \A k \in 1 .. e - m + 1 : part[k] = all[m + k - 1]
    BY <1>5, <1>6, SubSeqProperties
<1> HIDE DEF part
<1>8. Len(part) = count - d + n
    BY <1>5, <1>7
<1>9. ASSUME NEW i \in 1 .. count - d + n
      PROVE  part[i] = IF d + i <= count THEN keeps[d + i] ELSE bytes[d + i - count]
    <2>1. PICK j \in 1 .. count + n : j = d + i /\ j = m + i - 1
        BY <1>1 DEF m
    <2>2. part[i] = all[j]
        BY <1>5, <1>7, <2>1
    <2>3. all[j] = IF j <= count THEN keeps[j] ELSE bytes[j - count]
        BY <1>3
    <2>4. d + i = j /\ d + i - count = j - count
        BY <1>1, <2>1
    <2> QED BY <2>2, <2>3, <2>4
<1> QED BY <1>4, <1>7, <1>8, <1>9 DEF count, n

\* A block written behind the bytes, of which the d oldest have made room for it.
LEMMA WrittenBehind ==
  ASSUME NEW buf \in [RingCells -> Int], NEW rd \in RingCells, NEW keeps \in Seq(Int),
         NEW bytes \in Seq(Int), NEW count \in 0 .. RingBytes, count = Len(keeps),
         NEW n \in Nat, n = Len(bytes), RingStored(buf, rd, keeps),
         NEW d \in 0 .. count, count - d + n <= RingBytes,
         NEW wr \in RingCells, wr = inc_buf_idx(rd, count)
  PROVE  /\ RingCopyIn(buf, wr, bytes) \in [RingCells -> Int]
         /\ RingStored(RingCopyIn(buf, wr, bytes), inc_buf_idx(rd, d),
                       Kept(keeps, bytes, d))
<1> USE RingSize
<1> DEFINE new == RingCopyIn(buf, wr, bytes)  kept == Kept(keeps, bytes, d)
<1>1. wr \in RingCells
    BY IncMeans
<1>2. \A cell \in RingCells :
        new[cell] = IF RingGap(wr, cell) < n THEN bytes[RingGap(wr, cell) + 1] ELSE buf[cell]
    BY DEF RingCopyIn
<1>3. new \in [RingCells -> Int]
    <2>1. \A cell \in RingCells : RingGap(wr, cell) \in Nat
        <3>1. \A x \in RingCells : x \in Nat
            BY DEF RingCells
        <3> QED BY <1>1, <3>1, GapType
    <2>2. \A k \in Nat : k < n => bytes[k + 1] \in Int
        OBVIOUS
    <2>3. \A cell \in RingCells : RingGap(wr, cell) < n => bytes[RingGap(wr, cell) + 1] \in Int
        BY <2>1, <2>2
    <2> QED BY <2>3 DEF RingCopyIn
<1>4. /\ kept \in Seq(Int) /\ Len(kept) = count - d + n
      /\ \A i \in 1 .. count - d + n :
           kept[i] = IF d + i <= count THEN keeps[d + i] ELSE bytes[d + i - count]
    <2> HIDE RingSize
    <2>1. /\ kept \in Seq(Int) /\ Len(kept) = Len(keeps) - d + Len(bytes)
          /\ \A i \in 1 .. Len(keeps) - d + Len(bytes) :
               kept[i] = IF d + i <= Len(keeps) THEN keeps[d + i] ELSE bytes[d + i - Len(keeps)]
        BY KeptMeans
    <2> HIDE DEF kept
    <2> QED BY <2>1
<1>7. GapsAre(rd, count, d, n)
    BY AllGapsBehind
<1> HIDE DEF new, kept
<1>5. ASSUME NEW i \in 1 .. count - d + n
      PROVE  new[inc_buf_idx(inc_buf_idx(rd, d), i - 1)] = kept[i]
    <2> DEFINE cell == inc_buf_idx(inc_buf_idx(rd, d), i - 1)  gap == RingGap(wr, cell)
    <2>1. /\ cell \in RingCells
          /\ d + i <= count => cell = inc_buf_idx(rd, d + i - 1) /\ ~(gap < n)
          /\ d + i > count => gap = d + i - 1 - count
        BY <1>7 DEF GapsAre
    <2>2. new[cell] = IF gap < n THEN bytes[gap + 1] ELSE buf[cell]
        BY <1>2, <2>1
    <2>3. kept[i] = IF d + i <= count THEN keeps[d + i] ELSE bytes[d + i - count]
        BY <1>4
    <2> HIDE DEF cell, gap
    <2>4. CASE d + i <= count
        <3>1. d + i \in 1 .. Len(keeps)
            BY <2>4
        <3>2. buf[inc_buf_idx(rd, d + i - 1)] = keeps[d + i]
            BY <3>1 DEF RingStored
        <3> QED BY <2>1, <2>2, <2>3, <2>4, <3>2 DEF cell
    <2>5. CASE d + i > count
        <3>1. gap < n /\ gap + 1 = d + i - count /\ ~(d + i <= count)
            BY <2>1, <2>5
        <3> QED BY <2>2, <2>3, <3>1 DEF cell
    <2> QED BY <2>4, <2>5
<1>6. Len(kept) = count - d + n
    BY <1>4
<1> QED BY <1>3, <1>5, <1>6 DEF RingStored, new, kept

\* The queue is consistent and its bytes are those it should hold.
RingHolds(q, keeps) ==
  /\ q \in [buf : [RingCells -> Int], wr : RingCells, rd : RingCells, count : 0 .. RingBytes]
  /\ keeps \in Seq(Int) /\ Len(keeps) = q.count
  /\ q.wr = inc_buf_idx(q.rd, q.count)
  /\ RingStored(q.buf, q.rd, keeps)

\* How many bytes have to go for n more.
Overflow(count, n) == IF n > RingBytes - count THEN n - (RingBytes - count) ELSE 0

\* Room made by moving the read index d bytes forward.
LEMMA RoomMade ==
  ASSUME NEW buf \in [RingCells -> Int], NEW wr \in RingCells, NEW rd \in RingCells,
         NEW count \in 0 .. RingBytes, NEW n \in 0 .. RingBytes, NEW d \in Int,
         d = Overflow(count, n)
  PROVE  /\ d \in 0 .. count /\ count - d + n <= RingBytes
         /\ MakeRoom([buf |-> buf, wr |-> wr, rd |-> rd, count |-> count], n) =
              [buf |-> buf, wr |-> wr, rd |-> inc_buf_idx(rd, d), count |-> count - d]
<1> USE RingSize
<1>1. rd \in Int /\ 0 <= rd /\ rd < RingBytes /\ n \in Int /\ count \in Int
    BY DEF RingCells
<1>2. d \in 0 .. count /\ count - d + n <= RingBytes
    BY DEF Overflow
<1>3. CASE n > RingBytes - count
    <2>1. d = n - (RingBytes - count) /\ d > 0
        BY <1>1, <1>3 DEF Overflow
    <2> DEFINE at == rd + d
    <2>2. at \in Int /\ 0 <= at /\ at < 2 * RingBytes
        BY <1>1, <1>2
    <2>3. at % RingBytes = IF at < RingBytes THEN at ELSE at - RingBytes
        <3> HIDE DEF at
        <3> QED BY <2>2, RingRemainder
    <2>4. (rd + d) % RingBytes = inc_buf_idx(rd, d)
        <3>1. inc_buf_idx(rd, d) = IF at < RingBytes THEN at ELSE at - RingBytes
            BY <1>1, <2>2 DEF inc_buf_idx
        <3> QED BY <2>3, <3>1
    <2> QED BY <1>2, <2>1, <2>4 DEF MakeRoom
<1>4. CASE ~(n > RingBytes - count)
    <2>1. d = 0 /\ inc_buf_idx(rd, d) = rd /\ count - d = count
        BY <1>1, <1>4 DEF inc_buf_idx, Overflow
    <2>2. ~(n - (RingBytes - count) > 0)
        BY <1>1, <1>4
    <2> QED BY <1>2, <2>1, <2>2 DEF MakeRoom
<1> QED BY <1>3, <1>4

LEMMA LastKept ==
  ASSUME NEW keeps \in Seq(Int), NEW bytes \in Seq(Int),
         NEW count \in 0 .. RingBytes, count = Len(keeps), NEW n \in 0 .. RingBytes, n = Len(bytes),
         NEW d \in Int, d = Overflow(count, n)
  PROVE  LastOf(keeps \o bytes, RingBytes) = Kept(keeps, bytes, d)
<1>1. Len(keeps \o bytes) = count + n
    OBVIOUS
<1> DEFINE all == keeps \o bytes  total == count + n
<1>2. total \in Int /\ RingBytes \in Int /\ total - Smaller(RingBytes, total) + 1 = d + 1
    <2>1. count \in Int /\ n \in Int /\ RingBytes \in Int
        BY RingSize
    <2>2. CASE n > RingBytes - count
        <3>1. d = n - (RingBytes - count)
            BY <2>2 DEF Overflow
        <3>2. Smaller(RingBytes, total) = RingBytes
            BY <2>1, <2>2 DEF Smaller
        <3> QED BY <2>1, <3>1, <3>2
    <2>3. CASE ~(n > RingBytes - count)
        <3>1. d = 0 /\ Smaller(RingBytes, total) = total
            BY <2>1, <2>3 DEF Smaller, Overflow
        <3> QED BY <2>1, <3>1
    <2> QED BY <2>2, <2>3
<1>3. Len(all) = total
    BY <1>1
<1> HIDE DEF all, total
<1>4. LastOf(all, RingBytes) = SubSeq(all, d + 1, total)
    BY <1>2, <1>3 DEF LastOf
<1> QED BY <1>4 DEF all, total, Kept

\* What a write leaves that drops as many of the oldest bytes as it has no room for.
LEMMA RingPut ==
  ASSUME NEW buf \in [RingCells -> Int], NEW wr \in RingCells, NEW rd \in RingCells,
         NEW count \in 0 .. RingBytes, NEW keeps,
         RingHolds([buf |-> buf, wr |-> wr, rd |-> rd, count |-> count], keeps),
         NEW bytes \in Seq(Int), NEW n \in 0 .. RingBytes, n = Len(bytes),
         NEW d \in Int, d = Overflow(count, n)
  PROVE  /\ RingCopyIn(buf, wr, bytes) \in [RingCells -> Int]
         /\ RingHolds([buf |-> RingCopyIn(buf, wr, bytes), wr |-> inc_buf_idx(wr, n),
                       rd |-> inc_buf_idx(rd, d), count |-> count - d + n],
                      LastOf(keeps \o bytes, RingBytes))
<1>0. RingBytes \in Int /\ RingBytes >= 1
    BY RingSize
<1>2. /\ keeps \in Seq(Int) /\ count = Len(keeps) /\ wr = inc_buf_idx(rd, count)
      /\ RingStored(buf, rd, keeps) /\ n = Len(bytes)
    BY DEF RingHolds
<1> DEFINE new == RingCopyIn(buf, wr, bytes)  kept == Kept(keeps, bytes, d)
<1>5. d \in 0 .. count /\ count - d + n <= RingBytes
    BY RoomMade
<1>6. LastOf(keeps \o bytes, RingBytes) = kept
    BY <1>2, LastKept
<1>7. count \in Nat /\ n \in Nat /\ d \in 0 .. Len(keeps)
    BY <1>0, <1>2, <1>5
<1>8. kept \in Seq(Int) /\ Len(kept) = count - d + n
    <2>1. kept \in Seq(Int) /\ Len(kept) = Len(keeps) - d + Len(bytes)
        BY <1>2, <1>7, KeptMeans
    <2> HIDE DEF kept
    <2> QED BY <1>2, <2>1
<1>9. new \in [RingCells -> Int] /\ RingStored(new, inc_buf_idx(rd, d), kept)
    BY <1>2, <1>5, <1>7, WrittenBehind
<1> HIDE DEF new, kept
<1>12. d \in 0 .. RingBytes /\ count - d + n \in 0 .. RingBytes
    BY <1>0, <1>5
<1>13. /\ inc_buf_idx(rd, d) \in RingCells /\ inc_buf_idx(wr, n) \in RingCells
       /\ inc_buf_idx(wr, n) = inc_buf_idx(inc_buf_idx(rd, d), count - d + n)
    <2>1. count + n = d + (count - d + n)
        <3>1. count \in Int /\ n \in Int /\ d \in Int
            OBVIOUS
        <3> QED BY <3>1
    <2> DEFINE rest == count - d + n
    <2>2. rest \in 0 .. RingBytes /\ count + n = d + rest
        BY <1>12, <2>1
    <2> HIDE DEF rest
    <2>3. inc_buf_idx(inc_buf_idx(rd, count), n) = inc_buf_idx(inc_buf_idx(rd, d), rest)
        BY <1>12, <2>2, IncTwice
    <2>4. inc_buf_idx(rd, d) \in RingCells /\ inc_buf_idx(wr, n) \in RingCells
        BY <1>12, IncMeans
    <2> QED BY <1>2, <2>3, <2>4 DEF rest
<1>14. RingHolds([buf |-> new, wr |-> inc_buf_idx(wr, n), rd |-> inc_buf_idx(rd, d),
                  count |-> count - d + n], kept)
    BY <1>8, <1>9, <1>12, <1>13 DEF RingHolds
<1> QED BY <1>6, <1>9, <1>14 DEF new

\* A forced write, and bytes that are in the buffer already and are committed by force.
LEMMA RingForced ==
  ASSUME NEW q, NEW keeps, RingHolds(q, keeps), NEW bytes \in Seq(Int), Len(bytes) \in 0 .. RingBytes
  PROVE  LET kept == LastOf(keeps \o bytes, RingBytes)
         IN  /\ RingHolds(ByteQForceWrite(q, bytes), kept)
             /\ RingHolds(ByteQForceCommitWrite([q EXCEPT !.buf = RingCopyIn(@, q.wr, bytes)],
                                                Len(bytes)), kept)
<1>0. RingBytes \in Int /\ RingBytes >= 1
    BY RingSize
<1>1. PICK buf \in [RingCells -> Int], wr \in RingCells, rd \in RingCells, count \in 0 .. RingBytes :
        q = [buf |-> buf, wr |-> wr, rd |-> rd, count |-> count]
    BY DEF RingHolds
<1> DEFINE n == Len(bytes)  d == Overflow(count, n)  new == RingCopyIn(buf, wr, bytes)
           kept == LastOf(keeps \o bytes, RingBytes)
           left == [buf |-> new, wr |-> inc_buf_idx(wr, n), rd |-> inc_buf_idx(rd, d),
                    count |-> count - d + n]
<1>3. n \in 0 .. RingBytes /\ n = Len(bytes)
    OBVIOUS
<1>4. d \in Int /\ d = Overflow(count, n)
    BY <1>0, <1>3 DEF Overflow
<1> HIDE DEF n, d, kept
<1>5. RingHolds([buf |-> buf, wr |-> wr, rd |-> rd, count |-> count], keeps)
    BY <1>1
<1>6. new \in [RingCells -> Int] /\ RingHolds(left, kept)
    BY <1>3, <1>4, <1>5, RingPut DEF kept
<1> HIDE DEF new
<1>7. ASSUME NEW b2 \in [RingCells -> Int]
      PROVE  MakeRoom([buf |-> b2, wr |-> wr, rd |-> rd, count |-> count], n) =
               [buf |-> b2, wr |-> wr, rd |-> inc_buf_idx(rd, d), count |-> count - d]
    BY <1>3, <1>4, RoomMade
<1>8. ByteQForceWrite(q, bytes) = left
    <2> DEFINE m == [buf |-> buf, wr |-> wr, rd |-> inc_buf_idx(rd, d), count |-> count - d]
    <2>1. m.wr = wr /\ m.buf = buf /\ m.count = count - d
        OBVIOUS
    <2>2. MakeRoom(q, n) = m
        BY <1>1, <1>7
    <2>3. ByteQForceWrite(q, bytes) =
            [m EXCEPT !.buf = RingCopyIn(m.buf, m.wr, bytes), !.wr = inc_buf_idx(m.wr, n),
                      !.count = m.count + n]
        BY <2>2 DEF ByteQForceWrite, n
    <2> QED BY <2>1, <2>3 DEF new
<1>9. ByteQForceCommitWrite([q EXCEPT !.buf = RingCopyIn(@, q.wr, bytes)], n) = left
    <2> DEFINE p == [buf |-> new, wr |-> wr, rd |-> rd, count |-> count]
               m == [buf |-> new, wr |-> wr, rd |-> inc_buf_idx(rd, d), count |-> count - d]
    <2>1. [q EXCEPT !.buf = RingCopyIn(@, q.wr, bytes)] = p
        BY <1>1 DEF new
    <2>2. MakeRoom(p, n) = m
        BY <1>6, <1>7
    <2>3. ByteQForceCommitWrite(p, n) = [m EXCEPT !.wr = inc_buf_idx(m.wr, n), !.count = m.count + n]
        BY <2>2 DEF ByteQForceCommitWrite
    <2>4. m.wr = wr /\ m.count = count - d
        OBVIOUS
    <2> DEFINE w == inc_buf_idx(wr, n)  c == count - d + n
               r1 == inc_buf_idx(rd, d)  c1 == count - d
    <2>5. [m EXCEPT !.wr = w, !.count = c] = left
        <3> HIDE DEF w, c, r1, c1
        <3>1. [[buf |-> new, wr |-> wr, rd |-> r1, count |-> c1] EXCEPT !.wr = w] =
                [buf |-> new, wr |-> w, rd |-> r1, count |-> c1]
            OBVIOUS
        <3>2. [[buf |-> new, wr |-> w, rd |-> r1, count |-> c1] EXCEPT !.count = c] =
                [buf |-> new, wr |-> w, rd |-> r1, count |-> c]
            OBVIOUS
        <3> QED BY <3>1, <3>2 DEF w, c, r1, c1
    <2>6. [m EXCEPT !.wr = inc_buf_idx(m.wr, n), !.count = m.count + n] = left
        BY <2>4, <2>5, Zenon
    <2> HIDE DEF p, m
    <2> QED BY <2>1, <2>3, <2>6
<1> QED BY <1>6, <1>8, <1>9 DEF n, kept

\* A consumer that has read n bytes.
LEMMA RingRead ==
  ASSUME NEW q, NEW keeps, RingHolds(q, keeps), NEW n \in 1 .. q.count,
         NEW place, place = IF q.rd + n <= RingBytes THEN q.rd + n ELSE q.rd + n - RingBytes
  PROVE  RingHolds(ByteQSetRdIdxFromPointer(q, place), SubSeq(keeps, n + 1, Len(keeps)))
<1>0. RingBytes \in Int /\ RingBytes >= 1
    BY RingSize
<1>1. PICK buf \in [RingCells -> Int], wr \in RingCells, rd \in RingCells, count \in 0 .. RingBytes :
        q = [buf |-> buf, wr |-> wr, rd |-> rd, count |-> count]
    BY DEF RingHolds
<1>2. /\ keeps \in Seq(Int) /\ count = Len(keeps) /\ wr = inc_buf_idx(rd, count)
      /\ RingStored(buf, rd, keeps)
    BY <1>1 DEF RingHolds
<1>3. n \in 1 .. count /\ place = IF rd + n <= RingBytes THEN rd + n ELSE rd + n - RingBytes
    BY <1>1
<1> DEFINE rd2 == inc_buf_idx(rd, n)  kept == SubSeq(keeps, n + 1, count)
<1>4. /\ rd \in Int /\ 0 <= rd /\ rd < RingBytes /\ n \in Int /\ 1 <= n /\ n <= count /\ count \in Int
      /\ count <= RingBytes /\ wr \in Int /\ 0 <= wr /\ wr < RingBytes
    BY <1>0, <1>3 DEF RingCells
<1>5. wr = rd + count \/ wr = rd + count - RingBytes
    BY <1>0, <1>2, <1>4 DEF inc_buf_idx
<1>6. rd2 = (IF place = RingBytes THEN 0 ELSE place) /\ rd2 \in RingCells
      /\ rd2 \in Int /\ (rd2 = rd + n \/ rd2 = rd + n - RingBytes)
    BY <1>0, <1>3, <1>4 DEF inc_buf_idx, RingCells
<1> HIDE DEF rd2
<1>7. /\ count - n \in 0 .. RingBytes /\ wr = inc_buf_idx(rd2, count - n)
      /\ (IF wr < rd2 THEN wr - rd2 + RingBytes ELSE wr - rd2) = count - n
    <2> DEFINE left == count - n
    <2>1. /\ left \in 0 .. RingBytes /\ left \in Int /\ left < RingBytes /\ n \in 0 .. RingBytes
          /\ count \in 0 .. RingBytes /\ 0 \in 0 .. RingBytes /\ n + left = count + 0
        BY <1>0, <1>4
    <2> HIDE DEF left
    <2>2. inc_buf_idx(rd2, left) = inc_buf_idx(wr, 0)
        BY <1>2, <2>1, IncTwice DEF rd2
    <2>3. wr = inc_buf_idx(rd2, left)
        BY <2>2, IncNone
    <2>4. wr = rd2 + left \/ wr = rd2 + left - RingBytes
        BY <1>6, <2>1, <2>3, IncMeans
    <2>5. rd2 < RingBytes /\ 0 <= rd2
        BY <1>0, <1>6 DEF RingCells
    <2>6. (IF wr < rd2 THEN wr - rd2 + RingBytes ELSE wr - rd2) = left
        BY <1>0, <1>4, <1>6, <2>1, <2>4, <2>5
    <2> QED BY <2>1, <2>3, <2>6 DEF left
<1>8. ByteQSetRdIdxFromPointer(q, place) = [buf |-> buf, wr |-> wr, rd |-> rd2, count |-> count - n]
    <2>1. q.wr = wr
        BY <1>1
    <2>2. ByteQSetRdIdxFromPointer(q, place) =
            [q EXCEPT !.rd = rd2, !.count = IF wr < rd2 THEN wr - rd2 + RingBytes ELSE wr - rd2]
        BY <1>6, <2>1 DEF ByteQSetRdIdxFromPointer
    <2> QED BY <1>1, <1>7, <2>2
<1>9. kept \in Seq(Int) /\ Len(kept) = count - n
    <2> DEFINE m == n + 1
    <2>1. m \in Int /\ count \in Int /\ \A i \in m .. count : keeps[i] \in Int
        BY <1>2, <1>4
    <2>2. (IF m <= count THEN count - m + 1 ELSE 0) = count - n
        BY <1>4
    <2> HIDE DEF m
    <2>3. SubSeq(keeps, m, count) \in Seq(Int)
          /\ Len(SubSeq(keeps, m, count)) = IF m <= count THEN count - m + 1 ELSE 0
        BY <2>1, SubSeqProperties
    <2> QED BY <2>2, <2>3 DEF m
<1>10. ASSUME NEW i \in 1 .. count - n PROVE buf[inc_buf_idx(rd2, i - 1)] = kept[i]
    <2> DEFINE m == n + 1
    <2>1. m \in Int /\ count \in Int /\ (\A k \in m .. count : keeps[k] \in Int) /\ i \in 1 .. count - m + 1
        BY <1>2, <1>4
    <2>2. PICK j \in 1 .. count : j = n + i
        BY <1>4
    <2>3. i - 1 \in 0 .. RingBytes /\ n \in 0 .. RingBytes /\ j - 1 \in 0 .. RingBytes /\ 0 \in 0 .. RingBytes
          /\ n + (i - 1) = (j - 1) + 0
        BY <1>0, <1>4, <2>2
    <2> DEFINE i1 == i - 1  j1 == j - 1
    <2>4. inc_buf_idx(rd2, i1) = inc_buf_idx(inc_buf_idx(rd, j1), 0)
        <3> HIDE DEF i1, j1
        <3>1. i1 \in 0 .. RingBytes /\ n \in 0 .. RingBytes /\ j1 \in 0 .. RingBytes
              /\ 0 \in 0 .. RingBytes /\ n + i1 = j1 + 0
            BY <2>3 DEF i1, j1
        <3> QED BY <3>1, IncTwice DEF rd2
    <2>5. inc_buf_idx(rd2, i - 1) = inc_buf_idx(rd, j - 1)
        BY <2>3, <2>4, IncMeans, IncNone
    <2> HIDE DEF m
    <2>6. SubSeq(keeps, m, count)[i] = keeps[m + i - 1]
        BY <2>1, SubSeqProperties
    <2>7. m + i - 1 = j
        BY <1>4, <2>2 DEF m
    <2>8. kept[i] = keeps[j]
        BY <2>6, <2>7 DEF m
    <2> HIDE DEF kept
    <2>9. buf[inc_buf_idx(rd, j - 1)] = keeps[j]
        BY <1>2 DEF RingStored
    <2> QED BY <2>5, <2>8, <2>9
<1> HIDE DEF kept
<1>11. RingHolds([buf |-> buf, wr |-> wr, rd |-> rd2, count |-> count - n], kept)
    BY <1>6, <1>7, <1>9, <1>10 DEF RingHolds, RingStored
<1> QED BY <1>2, <1>8, <1>11 DEF kept

\* The bytes of a queue from any place on, in a row.
LEMMA RingOut ==
  ASSUME NEW buf \in [RingCells -> Int], NEW rd \in RingCells, NEW keeps \in Seq(Int),
         NEW count \in 0 .. RingBytes, count = Len(keeps), RingStored(buf, rd, keeps),
         NEW from \in 0 .. count, NEW m \in 0 .. count - from
  PROVE  RingCopyOut(buf, inc_buf_idx(rd, from), m) = SubSeq(keeps, from + 1, from + m)
<1> DEFINE at == inc_buf_idx(rd, from)  x == from + 1  y == from + m
           s == SubSeq(keeps, x, y)  t == RingCopyOut(buf, at, m)
<1>1. /\ RingBytes \in Int /\ count \in Int /\ count <= RingBytes /\ from \in Int /\ 0 <= from
      /\ m \in Int /\ 0 <= m /\ from + m <= count
    BY RingSize
<1>2. /\ x \in Int /\ y \in Int /\ (IF x <= y THEN y - x + 1 ELSE 0) = m /\ y - x + 1 = m
      /\ \A i \in x .. y : keeps[i] \in Int
    BY <1>1
<1> HIDE DEF x, y
<1>3. /\ s \in Seq(Int) /\ Len(s) = IF x <= y THEN y - x + 1 ELSE 0
      /\ \A i \in 1 .. y - x + 1 : s[i] = keeps[x + i - 1]
    BY <1>2, SubSeqProperties
<1> HIDE DEF s
<1>4. s \in Seq(Int) /\ Len(s) = m /\ \A i \in 1 .. m : s[i] = keeps[x + i - 1]
    BY <1>2, <1>3
<1>5. ASSUME NEW i \in 1 .. m PROVE t[i] = s[i]
    <2> DEFINE i1 == i - 1  j1 == from + i - 1  j == from + i
    <2>1. /\ i1 \in 0 .. RingBytes /\ j1 \in 0 .. RingBytes /\ from \in 0 .. RingBytes
          /\ 0 \in 0 .. RingBytes /\ from + i1 = j1 + 0 /\ j \in 1 .. count /\ j - 1 = j1
        BY <1>1
    <2>2. t[i] = buf[inc_buf_idx(at, i - 1)]
        BY DEF RingCopyOut
    <2>3. x + i - 1 = j
        BY <1>1 DEF x
    <2> HIDE DEF i1, j1, j, t
    <2>4. inc_buf_idx(at, i1) = inc_buf_idx(inc_buf_idx(rd, j1), 0)
        BY <2>1, IncTwice
    <2>5. inc_buf_idx(at, i1) = inc_buf_idx(rd, j1)
        BY <2>1, <2>4, IncMeans, IncNone
    <2>6. buf[inc_buf_idx(rd, j - 1)] = keeps[j]
        BY <2>1 DEF RingStored
    <2>7. s[i] = keeps[j]
        BY <1>4, <2>3
    <2> QED BY <2>1, <2>2, <2>5, <2>6, <2>7 DEF i1
<1>6. t = [i \in 1 .. m |-> t[i]]
    BY DEF RingCopyOut
<1>7. s = [i \in 1 .. m |-> s[i]]
    BY <1>4
<1> HIDE DEF t
<1>8. t = s
    BY <1>5, <1>6, <1>7
<1> QED BY <1>8 DEF s, t, x, y

\* Bytes poked into a queue, full or not.
LEMMA RingPoked ==
  ASSUME NEW q, NEW keeps, RingHolds(q, keeps), NEW from \in 0 .. RingBytes - 1,
         NEW bytes \in Seq(Int), Len(bytes) \in 0 .. RingBytes
  PROVE  RingHolds(ByteQPokeRandom(q, bytes, from), AfterPoke(keeps, bytes, from))
<1>0. RingBytes \in Int /\ RingBytes >= 1
    BY RingSize
<1>1. PICK buf \in [RingCells -> Int], wr \in RingCells, rd \in RingCells, count \in 0 .. RingBytes :
        q = [buf |-> buf, wr |-> wr, rd |-> rd, count |-> count]
    BY DEF RingHolds
<1>2. /\ keeps \in Seq(Int) /\ count = Len(keeps) /\ wr = inc_buf_idx(rd, count)
      /\ RingStored(buf, rd, keeps)
    BY <1>1 DEF RingHolds
<1> DEFINE m == Smaller(AtLeast0(count - from), Len(bytes))  part == SubSeq(bytes, 1, m)
           at == inc_buf_idx(wr, from)  new == RingCopyIn(buf, at, part)
           kept == AfterPoke(keeps, bytes, from)
<1>3. m \in Int /\ 0 <= m /\ m <= Len(bytes) /\ Len(bytes) \in Int /\ (m > 0 => m <= count - from)
    BY <1>0 DEF Smaller, AtLeast0
<1>4. part \in Seq(Int) /\ Len(part) = m /\ \A k \in 1 .. m : part[k] = bytes[k]
    <2> HIDE DEF m
    <2>1. 1 \in Int /\ \A i \in 1 .. m : bytes[i] \in Int
        BY <1>3
    <2>2. /\ part \in Seq(Int) /\ Len(part) = (IF 1 <= m THEN m - 1 + 1 ELSE 0)
          /\ \A k \in 1 .. m - 1 + 1 : part[k] = bytes[1 + k - 1]
        BY <1>3, <2>1, SubSeqProperties
    <2>3. (IF 1 <= m THEN m - 1 + 1 ELSE 0) = m /\ m - 1 + 1 = m
          /\ \A k \in 1 .. m : 1 + k - 1 = k
        BY <1>3
    <2> QED BY <2>2, <2>3
<1>5. ByteQPokeRandom(q, bytes, from) = [buf |-> new, wr |-> wr, rd |-> rd, count |-> count]
    <2>1. q.count = count /\ q.wr = wr /\ q.buf = buf
        BY <1>1
    <2>2. ByteQPokeRandom(q, bytes, from) = [q EXCEPT !.buf = new]
        BY <2>1 DEF ByteQPokeRandom
    <2> HIDE DEF new
    <2> QED BY <1>1, <2>2
<1>6. at \in RingCells
    BY <1>0 DEF inc_buf_idx, RingCells
<1> HIDE DEF m, part
<1>7. \A cell \in RingCells :
        new[cell] = IF RingGap(at, cell) < m THEN part[RingGap(at, cell) + 1] ELSE buf[cell]
    BY <1>4 DEF RingCopyIn
<1>8. \A cell \in RingCells : RingGap(at, cell) \in Int /\ 0 <= RingGap(at, cell)
    BY <1>0, <1>6 DEF RingGap, RingCells
<1>9. new \in [RingCells -> Int]
    <2>1. DOMAIN new = RingCells /\ new = [cell \in RingCells |-> new[cell]]
        BY DEF RingCopyIn
    <2>2. ASSUME NEW cell \in RingCells PROVE new[cell] \in Int
        <3> DEFINE gap == RingGap(at, cell)
        <3>1. gap \in Int /\ 0 <= gap
            BY <1>8
        <3>2. CASE gap < m
            <4>1. gap + 1 \in 1 .. m
                BY <1>3, <3>1, <3>2
            <4>2. part[gap + 1] \in Int
                BY <1>4, <4>1
            <4> QED BY <1>7, <3>2, <4>2
        <3>3. CASE ~(gap < m)
            BY <1>7, <3>3
        <3> QED BY <3>2, <3>3
    <2> HIDE DEF new
    <2> QED BY <2>1, <2>2
<1> DEFINE free == RingBytes - count
<1>10. /\ kept = [i \in 1 .. count |-> IF free + i - from \in 1 .. m THEN bytes[free + i - from]
                                       ELSE keeps[i]]
       /\ kept \in Seq(Int) /\ Len(kept) = count
    <2>1. kept = [i \in 1 .. count |-> IF free + i - from \in 1 .. m THEN bytes[free + i - from]
                                       ELSE keeps[i]]
        BY <1>2 DEF AfterPoke, m
    <2>2. ASSUME NEW i \in 1 .. count PROVE kept[i] \in Int
        <3>1. free + i - from \in 1 .. m => bytes[free + i - from] \in Int
            BY <1>3
        <3>2. keeps[i] \in Int
            BY <1>2
        <3> HIDE DEF free, kept
        <3> QED BY <2>1, <3>1, <3>2
    <2>3. kept = [i \in 1 .. count |-> kept[i]]
        BY <2>1
    <2>4. count \in Nat
        BY <1>0
    <2> HIDE DEF kept
    <2>5. kept \in [1 .. count -> Int]
        BY <2>2, <2>3
    <2>6. kept \in Seq(Int) /\ Len(kept) = count
        BY <2>4, <2>5
    <2> QED BY <2>1, <2>6
<1> HIDE DEF kept
<1>11. ASSUME NEW i \in 1 .. count PROVE new[inc_buf_idx(rd, i - 1)] = kept[i]
    <2> DEFINE cell == inc_buf_idx(rd, i - 1)  gap == RingGap(at, cell)  k == free + i - from
    <2>1. cell \in RingCells /\ k \in Int
        BY <1>0 DEF inc_buf_idx, RingCells
    <2>2. gap = IF k >= 1 THEN k - 1 ELSE k - 1 + RingBytes
        <3>1. /\ rd \in Int /\ 0 <= rd /\ rd < RingBytes /\ wr \in Int /\ at \in Int
              /\ count \in Int /\ 0 <= count /\ count <= RingBytes /\ i \in Int /\ 1 <= i /\ i <= count
              /\ from \in Int /\ 0 <= from /\ from < RingBytes /\ cell \in Int
            BY <1>0, <1>6, <2>1 DEF RingCells
        <3>2. wr = IF rd + count >= RingBytes THEN rd + count - RingBytes ELSE rd + count
            BY <1>2 DEF inc_buf_idx
        <3>3. at = IF wr + from >= RingBytes THEN wr + from - RingBytes ELSE wr + from
            BY DEF inc_buf_idx
        <3>4. cell = IF rd + (i - 1) >= RingBytes THEN rd + (i - 1) - RingBytes ELSE rd + (i - 1)
            BY DEF inc_buf_idx
        <3>5. gap = IF cell >= at THEN cell - at ELSE cell - at + RingBytes
            BY DEF RingGap
        <3> HIDE DEF at, cell, gap
        <3> QED BY <1>0, <3>1, <3>2, <3>3, <3>4, <3>5
    <2>3. buf[cell] = keeps[i]
        BY <1>2 DEF RingStored
    <2>4. k < 1 => ~(gap < m)
        BY <1>0, <1>3, <2>2
    <2> HIDE DEF cell, gap, free, at
    <2>5. CASE k >= 1
        <3>1. gap = k - 1 /\ gap + 1 = k /\ (gap < m <=> k \in 1 .. m)
            BY <1>3, <2>1, <2>2, <2>5
        <3>2. k \in 1 .. m => part[k] = bytes[k]
            BY <1>4
        <3>3. new[cell] = IF gap < m THEN part[gap + 1] ELSE buf[cell]
            BY <1>7, <2>1 DEF gap
        <3>4. kept[i] = IF k \in 1 .. m THEN bytes[k] ELSE keeps[i]
            BY <1>10
        <3> HIDE DEF k, new
        <3> QED BY <2>3, <3>1, <3>2, <3>3, <3>4 DEF cell
    <2>6. CASE k < 1
        <3>1. new[cell] = buf[cell]
            BY <1>7, <2>1, <2>4, <2>6 DEF gap
        <3>2. ~(k \in 1 .. m)
            BY <2>6
        <3>3. kept[i] = keeps[i]
            BY <1>10, <3>2
        <3> QED BY <2>3, <3>1, <3>3 DEF cell
    <2> QED BY <2>1, <2>5, <2>6
<1> HIDE DEF new
<1>12. RingHolds([buf |-> new, wr |-> wr, rd |-> rd, count |-> count], kept)
    BY <1>2, <1>9, <1>10, <1>11 DEF RingHolds, RingStored
<1> QED BY <1>5, <1>12 DEF kept
-----------------------------------------------------------------------------
RingInv == RingHolds(ring, ringKeeps)

LEMMA RingInvInit == RingInit => RingInv
<1> SUFFICES ASSUME RingInit PROVE RingInv
    OBVIOUS
<1>1. 0 \in RingCells /\ 0 \in 0 .. RingBytes /\ inc_buf_idx(0, 0) = 0
    BY RingSize DEF inc_buf_idx, RingCells
<1>2. [i \in 0 .. RingBytes - 1 |-> 0] \in [RingCells -> Int]
    BY DEF RingCells
<1>3. <<>> \in Seq(Int) /\ Len(<<>>) = 0
    OBVIOUS
<1> QED BY <1>1, <1>2, <1>3 DEF RingInit, ByteQCreate, RingInv, RingHolds, RingStored

LEMMA RingInvStep == RingInv /\ [RingNext]_ringVars => RingInv'
<1> SUFFICES ASSUME RingInv, [RingNext]_ringVars PROVE RingInv'
    OBVIOUS
<1>1. ASSUME NEW bytes \in Seq(Int), Len(bytes) \in 0 .. RingBytes,
             RingBecomes(ByteQForceWrite(ring, bytes), LastOf(ringKeeps \o bytes, RingBytes))
      PROVE  RingInv'
    BY <1>1, RingForced DEF RingBecomes, RingInv
<1>2. ASSUME NEW v \in RingValues,
             \/ RingBecomes(RingForceWrite(ring, v), LastOf(ringKeeps \o ItemOf(v), RingBytes))
             \/ RingBecomes(WordQForceWrite(ring, v), LastOf(ringKeeps \o ItemOf(v), RingBytes))
      PROVE  RingInv'
    <2>1. v \in Int /\ ItemBytes \in Nat /\ ItemBytes \in 0 .. RingBytes
        BY RingAssumption
    <2>2. ItemOf(v) \in Seq(Int) /\ Len(ItemOf(v)) = ItemBytes
        BY <2>1 DEF ItemOf
    <2> QED BY <1>1, <1>2, <2>1, <2>2 DEF RingForceWrite, WordQForceWrite
<1>3. ASSUME NEW n \in 1 .. RingBytes, NEW block \in Blocks1(n),
             \/ RingBecomes(ByteQForceWriteUnprotected(ring, block), LastOf(ringKeeps \o block, RingBytes))
             \/ RingBecomes(ByteQForceCommitWrite([ring EXCEPT !.buf = RingCopyIn(@, ring.wr, block)], n),
                            LastOf(ringKeeps \o block, RingBytes))
      PROVE  RingInv'
    <2>1. n \in Nat /\ n \in 0 .. RingBytes /\ RingValues \subseteq Int
        BY RingAssumption
    <2>2. block \in Seq(Int) /\ Len(block) = n
        <3>1. block \in [1 .. n -> Int]
            BY <2>1 DEF Blocks1
        <3> QED BY <2>1, <3>1
    <2>3. CASE RingBecomes(ByteQForceWriteUnprotected(ring, block), LastOf(ringKeeps \o block, RingBytes))
        BY <1>1, <2>1, <2>2, <2>3 DEF ByteQForceWriteUnprotected
    <2>4. CASE RingBecomes(ByteQForceCommitWrite([ring EXCEPT !.buf = RingCopyIn(@, ring.wr, block)], n),
                           LastOf(ringKeeps \o block, RingBytes))
        BY <2>1, <2>2, <2>4, RingForced DEF RingBecomes, RingInv
    <2> QED BY <1>3, <2>3, <2>4
<1>4. ASSUME NEW n \in 1 .. ring.count,
             RingBecomes(ByteQSetRdIdxFromPointer(ring, IF ring.rd + n <= RingBytes THEN ring.rd + n
                                                        ELSE ring.rd + n - RingBytes),
                         SubSeq(ringKeeps, n + 1, Len(ringKeeps)))
      PROVE  RingInv'
    <2> DEFINE place == IF ring.rd + n <= RingBytes THEN ring.rd + n ELSE ring.rd + n - RingBytes
    <2>1. place = IF ring.rd + n <= RingBytes THEN ring.rd + n ELSE ring.rd + n - RingBytes
        OBVIOUS
    <2>2. RingBecomes(ByteQSetRdIdxFromPointer(ring, place), SubSeq(ringKeeps, n + 1, Len(ringKeeps)))
        BY <1>4
    <2> HIDE DEF place
    <2>3. RingHolds(ByteQSetRdIdxFromPointer(ring, place), SubSeq(ringKeeps, n + 1, Len(ringKeeps)))
        BY <2>1, RingRead DEF RingInv
    <2> QED BY <2>2, <2>3 DEF RingBecomes, RingInv
<1>5. ASSUME NEW n \in 1 .. RingBytes, NEW block \in Blocks1(n), NEW from \in 0 .. RingBytes - 1,
             RingBecomes(ByteQPokeRandom(ring, block, from), AfterPoke(ringKeeps, block, from))
      PROVE  RingInv'
    <2>1. n \in Nat /\ n \in 0 .. RingBytes /\ RingValues \subseteq Int
        BY RingAssumption
    <2>2. block \in Seq(Int) /\ Len(block) = n
        <3>1. block \in [1 .. n -> Int]
            BY <2>1 DEF Blocks1
        <3> QED BY <2>1, <3>1
    <2>3. RingHolds(ByteQPokeRandom(ring, block, from), AfterPoke(ringKeeps, block, from))
        BY <2>1, <2>2, RingPoked DEF RingInv
    <2> QED BY <1>5, <2>3 DEF RingBecomes, RingInv
<1>6. CASE UNCHANGED ringVars
    BY <1>6 DEF ringVars, RingInv
<1> QED BY <1>2, <1>3, <1>4, <1>5, <1>6 DEF RingNext

\* Whole items do not run over the end of the buffer.
LEMMA ItemFits ==
  ASSUME NEW at \in RingCells, NEW p \in Int, at = ItemBytes * p
  PROVE  at + ItemBytes <= RingBytes
<1> DEFINE k == RingBytes \div ItemBytes
<1>1. ItemBytes \in Int /\ ItemBytes >= 1 /\ RingBytes \in Int
    BY RingAssumption
<1>2. k \in Int /\ RingBytes = ItemBytes * k
    BY RingAssumption
<1> HIDE DEF k
<1>3. ASSUME NEW d \in Int, d >= 0 PROVE ItemBytes * d >= 0
    BY <1>1, <1>3
<1>4. ItemBytes * (p - k) = at - RingBytes /\ ItemBytes * (k - p - 1) = RingBytes - at - ItemBytes
    BY <1>1, <1>2
<1>5. at \in Int /\ at < RingBytes
    BY <1>1 DEF RingCells
<1>6. ~(p - k >= 0)
    <2>1. p - k >= 0 => ItemBytes * (p - k) >= 0
        BY <1>2, <1>3
    <2> DEFINE x == ItemBytes * (p - k)
    <2>2. x = at - RingBytes
        BY <1>4
    <2> HIDE DEF x
    <2>3. ~(x >= 0)
        BY <1>1, <1>5, <2>2
    <2> QED BY <2>1, <2>3 DEF x
<1>7. k - p - 1 \in Int /\ k - p - 1 >= 0
    BY <1>2, <1>6
<1>8. ItemBytes * (k - p - 1) >= 0
    BY <1>3, <1>7
<1> QED BY <1>1, <1>4, <1>5, <1>8

LEMMA WholeItems ==
  ASSUME NEW x \in Int, x % ItemBytes = 0
  PROVE  x \div ItemBytes \in Int /\ x = ItemBytes * (x \div ItemBytes)
BY RingAssumption

LEMMA ItemsWhole ==
  ASSUME NEW p \in Int
  PROVE  (ItemBytes * p) % ItemBytes = 0
<1> DEFINE r == 0
<1>1. ItemBytes \in Nat \ {0} /\ r \in 0 .. ItemBytes - 1
    BY RingAssumption
<1>2. ItemBytes * p + r = ItemBytes * p
    BY <1>1
<1> HIDE DEF r
<1>3. (ItemBytes * p + r) % ItemBytes = r
    BY <1>1, RemainderOf
<1> QED BY <1>2, <1>3 DEF r

\* An item in a queue of whole items, from the oldest or from the newest one.
LEMMA RingItem ==
  ASSUME NEW buf \in [RingCells -> Int], NEW wr \in RingCells, NEW rd \in RingCells,
         NEW count \in 0 .. RingBytes, NEW keeps \in Seq(Int), count = Len(keeps),
         wr = inc_buf_idx(rd, count), RingStored(buf, rd, keeps),
         rd % ItemBytes = 0, wr % ItemBytes = 0,
         NEW q, q = [buf |-> buf, wr |-> wr, rd |-> rd, count |-> count],
         NEW idx \in 0 .. GetReadReady(q) - 1
  PROVE  /\ Item(q, idx) = SubSeq(keeps, ItemBytes * idx + 1, ItemBytes * idx + ItemBytes)
         /\ Item(q, idx - GetReadReady(q)) = Item(q, idx)
<1> DEFINE g == count \div ItemBytes  a == rd \div ItemBytes  e == wr \div ItemBytes
           k == RingBytes \div ItemBytes
<1>1. ItemBytes \in Int /\ ItemBytes >= 1 /\ ItemBytes <= RingBytes /\ RingBytes \in Int
    BY RingAssumption
<1>2. /\ rd \in Int /\ 0 <= rd /\ rd < RingBytes /\ wr \in Int /\ 0 <= wr /\ wr < RingBytes
      /\ count \in Int /\ 0 <= count /\ count <= RingBytes
    BY <1>1 DEF RingCells
<1>3. /\ a \in Int /\ rd = ItemBytes * a /\ e \in Int /\ wr = ItemBytes * e
      /\ k \in Int /\ RingBytes = ItemBytes * k
    <2>1. RingBytes % ItemBytes = 0
        BY RingAssumption
    <2> QED BY <1>1, <1>2, <2>1, WholeItems
<1>4. GetReadReady(q) = g
    BY DEF GetReadReady, ByteQGetReadReady
<1>5. wr = rd + count \/ wr = rd + count - RingBytes
    BY <1>1, <1>2 DEF inc_buf_idx
<1> HIDE DEF a, e, k
<1>6. g \in Int /\ count = ItemBytes * g
    <2>1. PICK c0 \in Int : count = ItemBytes * c0
        <3>1. e - a \in Int /\ e - a + k \in Int /\ ItemBytes * (e - a) = wr - rd
              /\ ItemBytes * (e - a + k) = wr - rd + RingBytes
            <4>1. /\ e - a \in Int /\ e - a + k \in Int
                  /\ ItemBytes * (e - a) = ItemBytes * e - ItemBytes * a
                  /\ ItemBytes * (e - a + k) = ItemBytes * e - ItemBytes * a + ItemBytes * k
                BY <1>1, <1>3
            <4> QED BY <1>3, <4>1
        <3>2. count = wr - rd \/ count = wr - rd + RingBytes
            BY <1>1, <1>2, <1>5, SMTT(30)
        <3> QED BY <3>1, <3>2
    <2>2. count % ItemBytes = 0
        BY <2>1, ItemsWhole
    <2> QED BY <1>2, <2>2, WholeItems
<1> HIDE DEF g
<1>7. idx \in Int /\ 0 <= idx /\ idx <= g - 1
    BY <1>4, <1>6
<1> DEFINE j == ItemBytes * idx  at == inc_buf_idx(rd, j)
<1>8. j \in Int /\ 0 <= j /\ j + ItemBytes <= count
    <2>1. ASSUME NEW d \in Int, d >= 0 PROVE ItemBytes * d >= 0
        BY <1>1, <2>1
    <2>2. ItemBytes * (g - 1 - idx) = count - ItemBytes - ItemBytes * idx
        BY <1>1, <1>6, <1>7
    <2>3. g - 1 - idx \in Int /\ g - 1 - idx >= 0 /\ ItemBytes * idx \in Int
        BY <1>1, <1>6, <1>7
    <2>4. count - ItemBytes - ItemBytes * idx >= 0 /\ ItemBytes * idx >= 0
        BY <1>7, <2>1, <2>2, <2>3
    <2> QED BY <1>1, <1>2, <2>3, <2>4
<1>9. idx * ItemBytes = j /\ (idx - g) * ItemBytes = j - count
    BY <1>1, <1>6, <1>7
<1>10. ItemBytes * (a + idx) = rd + j /\ ItemBytes * (a + idx - k) = rd + j - RingBytes
       /\ a + idx \in Int /\ a + idx - k \in Int
    BY <1>1, <1>3, <1>7
<1> HIDE DEF j
<1>11. j \in 0 .. RingBytes /\ j \in 0 .. count
    BY <1>1, <1>2, <1>8
<1>12. at \in RingCells /\ at \in Int /\ at < RingBytes /\ 0 <= at
       /\ (at = rd + j \/ at = rd + j - RingBytes)
    <2>1. at \in RingCells /\ (at = rd + j \/ at = rd + j - RingBytes)
        BY <1>11, IncMeans
    <2> HIDE DEF at
    <2>2. at \in RingCells => at \in Int /\ at < RingBytes /\ 0 <= at
        BY <1>1 DEF RingCells
    <2> QED BY <2>1, <2>2
<1>13. at + ItemBytes <= RingBytes
    BY <1>10, <1>12, ItemFits
<1> HIDE DEF at
<1>14. (q.rd + idx * ItemBytes) % RingBytes = at
    <2> DEFINE x == rd + j
    <2>1. x \in Int /\ 0 <= x /\ x < 2 * RingBytes /\ q.rd + idx * ItemBytes = x
        BY <1>1, <1>2, <1>8, <1>9
    <2>2. at = IF x < RingBytes THEN x ELSE x - RingBytes
        BY <1>1, <1>2, <1>8, <1>12, SMTT(30)
    <2> HIDE DEF x
    <2>3. x % RingBytes = IF x < RingBytes THEN x ELSE x - RingBytes
        BY <2>1, RingRemainder
    <2> QED BY <2>1, <2>2, <2>3
<1>15. (IF q.wr + (idx - g) * ItemBytes < 0 THEN q.wr + (idx - g) * ItemBytes + RingBytes
        ELSE q.wr + (idx - g) * ItemBytes) = at
    <2> DEFINE x == wr + (j - count)
    <2>1. q.wr + (idx - g) * ItemBytes = x
        BY <1>9
    <2>2. (IF x < 0 THEN x + RingBytes ELSE x) = at
        <3>0. x \in Int /\ j < count
            BY <1>1, <1>2, <1>8, SMTT(30)
        <3>1. CASE wr = rd + count
            <4>1. x = rd + j /\ x >= 0 /\ x < RingBytes
                BY <1>1, <1>2, <1>8, <3>0, <3>1, SMTT(30)
            <4>2. at = rd + j
                BY <1>1, <1>2, <1>8, <1>12, <4>1
            <4> QED BY <4>1, <4>2
        <3>2. CASE wr = rd + count - RingBytes
            <4>1. x = rd + j - RingBytes
                BY <1>1, <1>2, <1>8, <3>2
            <4>2. CASE x < 0
                <5>1. at = rd + j
                    BY <1>1, <1>2, <1>8, <1>12, <4>1, <4>2
                <5>2. x + RingBytes = rd + j
                    BY <1>1, <1>2, <1>8, <4>1
                <5> QED BY <4>2, <5>1, <5>2
            <4>3. CASE ~(x < 0)
                <5>1. at = rd + j - RingBytes
                    BY <1>1, <1>2, <1>8, <1>12, <4>1, <4>3
                <5> QED BY <4>1, <4>3, <5>1
            <4> QED BY <4>2, <4>3
        <3> QED BY <1>5, <3>1, <3>2
    <2> HIDE DEF x
    <2> QED BY <2>1, <2>2
<1>16. ~(idx - g >= 0) /\ idx >= 0
    BY <1>6, <1>7
<1> DEFINE there == [i \in 1 .. ItemBytes |-> q.buf[at + i - 1]]
<1>17. Item(q, idx) = there
    BY <1>14, <1>16 DEF Item
<1>18. Item(q, idx - g) = there
    BY <1>15, <1>16 DEF Item
<1>19. there = RingCopyOut(buf, at, ItemBytes)
    <2>1. \A i \in 1 .. ItemBytes : inc_buf_idx(at, i - 1) = at + i - 1
        BY <1>1, <1>12, <1>13 DEF inc_buf_idx
    <2>2. q.buf = buf
        OBVIOUS
    <2> QED BY <2>1, <2>2 DEF RingCopyOut
<1>20. RingCopyOut(buf, at, ItemBytes) = SubSeq(keeps, j + 1, j + ItemBytes)
    <2>1. ItemBytes \in 0 .. count - j
        BY <1>1, <1>2, <1>8
    <2>2. at = inc_buf_idx(rd, j) /\ count = Len(keeps)
        BY DEF at
    <2> QED BY <1>11, <2>1, <2>2, RingOut
<1> HIDE DEF there
<1> QED BY <1>4, <1>17, <1>18, <1>19, <1>20 DEF j

LEMMA RingViews == RingInv => RingHoldsLast
<1> SUFFICES ASSUME RingInv PROVE RingHoldsLast
    OBVIOUS
<1>0. RingBytes \in Int /\ RingBytes >= 1
    BY RingSize
<1>1. PICK buf \in [RingCells -> Int], wr \in RingCells, rd \in RingCells, count \in 0 .. RingBytes :
        ring = [buf |-> buf, wr |-> wr, rd |-> rd, count |-> count]
    BY DEF RingInv, RingHolds
<1>2. /\ ringKeeps \in Seq(Int) /\ count = Len(ringKeeps) /\ wr = inc_buf_idx(rd, count)
      /\ RingStored(buf, rd, ringKeeps)
    BY <1>1 DEF RingInv, RingHolds
<1>3. ring.buf = buf /\ ring.wr = wr /\ ring.rd = rd /\ ring.count = count
    BY <1>1
<1>4. /\ rd \in Int /\ 0 <= rd /\ rd < RingBytes /\ wr \in Int /\ 0 <= wr /\ wr < RingBytes
      /\ count \in Int /\ 0 <= count /\ count <= RingBytes
    BY <1>0 DEF RingCells
<1>5. /\ ByteQGetReadReady(ring) = Len(ringKeeps)
      /\ ByteQGetWriteReady(ring) = RingBytes - Len(ringKeeps)
    BY <1>2, <1>3 DEF ByteQGetReadReady, ByteQGetWriteReady
<1>6. ByteQGetWritePtr(ring) = (ring.rd + ring.count) % RingBytes
    <2> DEFINE x == rd + count
    <2>1. x \in Int /\ 0 <= x /\ x < 2 * RingBytes /\ wr = IF x < RingBytes THEN x ELSE x - RingBytes
        BY <1>0, <1>2, <1>4 DEF inc_buf_idx
    <2>2. ring.rd + ring.count = x /\ ByteQGetWritePtr(ring) = wr
        BY <1>3 DEF ByteQGetWritePtr
    <2> HIDE DEF x
    <2> QED BY <2>1, <2>2, RingRemainder
<1>7. ASSUME NEW i \in 1 .. ByteQGetContiguousReadReady(ring)
      PROVE  ring.buf[ByteQGetReadPtr(ring) + i - 1] = ringKeeps[i]
    <2>1. i \in Int /\ 1 <= i /\ i <= count /\ rd + i <= RingBytes
        BY <1>0, <1>3, <1>4 DEF ByteQGetContiguousReadReady, Smaller
    <2>2. inc_buf_idx(rd, i - 1) = rd + i - 1
        BY <1>0, <1>4, <2>1 DEF inc_buf_idx
    <2>3. i \in 1 .. Len(ringKeeps)
        BY <1>2, <1>4, <2>1
    <2>4. buf[inc_buf_idx(rd, i - 1)] = ringKeeps[i]
        BY <1>2, <2>3 DEF RingStored
    <2> QED BY <1>3, <2>2, <2>4 DEF ByteQGetReadPtr
<1>8. ASSUME NEW from \in 0 .. RingBytes - 1, NEW n \in 1 .. RingBytes
      PROVE  ByteQPeekRandom(ring, from, n) =
               SubSeq(ringKeeps, from + 1, Smaller(from + n, Len(ringKeeps)))
    <2> DEFINE m == Smaller(AtLeast0(count - from), n)
    <2>1. ByteQPeekRandom(ring, from, n) = RingCopyOut(buf, inc_buf_idx(rd, from), m)
        BY <1>3 DEF ByteQPeekRandom
    <2>2. CASE from <= count
        <3>1. from \in 0 .. count /\ m \in 0 .. count - from /\ from + m = Smaller(from + n, count)
            BY <1>0, <1>4, <2>2 DEF Smaller, AtLeast0
        <3> HIDE DEF m
        <3>2. RingCopyOut(buf, inc_buf_idx(rd, from), m) = SubSeq(ringKeeps, from + 1, from + m)
            BY <1>2, <3>1, RingOut
        <3> QED BY <1>2, <2>1, <3>1, <3>2
    <2>3. CASE ~(from <= count)
        <3>1. m = 0
            BY <1>0, <1>4, <2>3 DEF Smaller, AtLeast0
        <3>2. RingCopyOut(buf, inc_buf_idx(rd, from), m) = <<>>
            BY <3>1 DEF RingCopyOut
        <3> DEFINE x == from + 1  y == Smaller(from + n, count)
        <3>3. x \in Int /\ y \in Int /\ y < x
            BY <1>0, <1>4, <2>3 DEF Smaller
        <3> HIDE DEF x, y
        <3>4. SubSeq(ringKeeps, x, y) = <<>>
            BY <3>3, SubSeqEmpty
        <3> QED BY <1>2, <2>1, <3>2, <3>4 DEF x, y
    <2> QED BY <2>2, <2>3
<1>9. ASSUME NEW n \in 1 .. ring.count PROVE ByteQDoReadFromEnd(ring, n) = LastOf(ringKeeps, n)
    <2> DEFINE from == count - n
    <2>1. n \in Int /\ 1 <= n /\ n <= count
        BY <1>3, <1>4
    <2>2. from \in 0 .. count /\ n \in 0 .. count - from /\ from + n = count
        BY <1>4, <2>1
    <2>3. (IF wr < n THEN wr - n + RingBytes ELSE wr - n) = inc_buf_idx(rd, from)
        <3>1. wr = IF rd + count >= RingBytes THEN rd + count - RingBytes ELSE rd + count
            BY <1>2 DEF inc_buf_idx
        <3>2. CASE rd + count >= RingBytes
            BY <1>0, <1>4, <2>1, <3>1, <3>2 DEF inc_buf_idx
        <3>3. CASE ~(rd + count >= RingBytes)
            BY <1>0, <1>4, <2>1, <3>1, <3>3 DEF inc_buf_idx
        <3> QED BY <3>2, <3>3
    <2>4. ByteQDoReadFromEnd(ring, n) = RingCopyOut(buf, inc_buf_idx(rd, from), n)
        BY <1>3, <2>3 DEF ByteQDoReadFromEnd
    <2> HIDE DEF from
    <2>5. RingCopyOut(buf, inc_buf_idx(rd, from), n) = SubSeq(ringKeeps, from + 1, from + n)
        BY <1>2, <2>2, RingOut
    <2>6. LastOf(ringKeeps, n) = SubSeq(ringKeeps, count - n + 1, count)
        <3>1. Smaller(n, count) = n
            BY <1>4, <2>1 DEF Smaller
        <3> QED BY <1>2, <3>1 DEF LastOf
    <2>7. count - n + 1 = from + 1
        BY DEF from
    <2> QED BY <2>2, <2>4, <2>5, <2>6, <2>7
<1>10. ASSUME ring.rd % ItemBytes = 0, ring.wr % ItemBytes = 0, NEW idx \in 0 .. GetReadReady(ring) - 1
       PROVE  /\ Item(ring, idx) = SubSeq(ringKeeps, ItemBytes * idx + 1, ItemBytes * idx + ItemBytes)
              /\ Item(ring, idx - GetReadReady(ring)) = Item(ring, idx)
    <2>1. rd % ItemBytes = 0 /\ wr % ItemBytes = 0
        BY <1>3, <1>10
    <2> QED BY <1>1, <1>2, <1>10, <2>1, RingItem
<1> QED BY <1>5, <1>6, <1>7, <1>8, <1>9, <1>10 DEF RingHoldsLast

\* For every size of the ring and of its items, however often the bytes have gone round
\* and the oldest were dropped: the ring holds the last ones, and each way to look at
\* them finds them.
THEOREM RingKeepsLast == RingSpec => []RingHoldsLast
<1>1. RingInit => RingInv
    BY RingInvInit
<1>2. RingInv /\ [RingNext]_ringVars => RingInv'
    BY RingInvStep
<1>3. RingInv => RingHoldsLast
    BY RingViews
<1> QED BY <1>1, <1>2, <1>3, PTL DEF RingSpec
=============================================================================
