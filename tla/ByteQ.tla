-------------------------------- MODULE ByteQ --------------------------------
(***************************************************************************)
(* The ring buffer of utils/byteq.cpp between a writing thread and reading *)
(* threads.  Each side moves an index of its own and adds to, or subtracts *)
(* from, the shared count: a load and a store, which the flags wrCntProt   *)
(* and rdCntProt put into OSALEnterCritical.  Room and bytes ready are     *)
(* tested on the count without a lock, before the bytes are copied.        *)
(*                                                                         *)
(* A copy into or out of the buffer and the move of the index after it are *)
(* one step: what the other side could see in between are cells it does    *)
(* not touch, as long as IndexInv holds.                                   *)
(***************************************************************************)
EXTENDS Integers, Sequences

CONSTANTS Size,        \* nBufSz
          Values,      \* values of a byte
          MaxLen,      \* longest block written or asked for
          Readers,     \* reading threads
          WrCntProt, RdCntProt,   \* arguments of ByteQCreate
          UIntMod      \* number of values of an unsigned int

ASSUME ByteQAssumption ==
  /\ Size \in Nat \ {0} /\ MaxLen \in Nat
  /\ Readers # {} /\ "free" \notin Readers /\ "wr" \notin Readers
  /\ WrCntProt \in BOOLEAN /\ RdCntProt \in BOOLEAN
  /\ UIntMod \in Nat /\ UIntMod > 2 * Size

VARIABLES
  pfBuf, nWrIdx, nRdIdx, nCount,
  crit,                \* holder of OSALEnterCritical
  wpc, toWrite, wCount,           \* the writer: bytes to write, count loaded
  rpc, rdIdx, toRead, out, rCount, \* each reader: local nRdIdx, bytes to read, bytes read
  accepted, given      \* what the last write and each reader's last read returned

buffer == <<pfBuf, nWrIdx, nRdIdx, nCount>>
writer == <<wpc, toWrite, wCount, accepted>>
reader == <<rpc, rdIdx, toRead, out, rCount, given>>
vars == <<buffer, crit, writer, reader>>

Cells == 0 .. (Size - 1)
Blocks == UNION { [1 .. n -> Values] : n \in 1 .. MaxLen }

Least(a, b) == IF a < b THEN a ELSE b

\* unsigned subtraction and addition
Minus(a, b) == IF a >= b THEN a - b ELSE a - b + UIntMod
Plus(a, b) == IF a + b < UIntMod THEN a + b ELSE a + b - UIntMod

\* inc_buf_idx
Advance(i, n) == IF i + n >= Size THEN i + n - Size ELSE i + n

\* how far cell c lies behind cell i
Behind(i, c) == IF c >= i THEN c - i ELSE c - i + Size

\* (variant: the second piece is copied from the beginning of the block again)
Insert_FromStart(buf, i, block) ==
  [c \in Cells |-> IF Behind(i, c) >= Len(block) THEN buf[c]
                   ELSE IF c >= i THEN block[c - i + 1] ELSE block[c + 1]]
\* at most Size bytes copied in from cell i on, in one or two pieces
Insert(buf, i, block) ==
  [c \in Cells |-> IF Behind(i, c) < Len(block) THEN block[Behind(i, c) + 1] ELSE buf[c]]

\* n bytes copied out from cell i on
Stored(buf, i, n) == [k \in 1 .. n |-> buf[Advance(i, k - 1)]]

Init ==
  /\ pfBuf \in [Cells -> Values]
  /\ nWrIdx = 0 /\ nRdIdx = 0 /\ nCount = 0
  /\ crit = "free"
  /\ wpc = "idle" /\ toWrite = << >> /\ wCount = 0 /\ accepted = 0
  /\ rpc = [r \in Readers |-> "idle"] /\ rdIdx = [r \in Readers |-> 0]
  /\ toRead = [r \in Readers |-> 0] /\ out = [r \in Readers |-> << >>]
  /\ rCount = [r \in Readers |-> 0] /\ given = [r \in Readers |-> << >>]

-----------------------------------------------------------------------------
(* The writer: ByteQWrite, or ByteQGetContiguousWriteReady, a copy to       *)
(* ByteQGetWritePtr and ByteQCommitWrite.                                   *)

\* the block is written as a whole or not at all
BeginWrite(block) ==
  /\ wpc = "idle"
  /\ toWrite' = IF Len(block) <= Minus(Size, nCount) THEN block ELSE << >>
  /\ wpc' = "copy"
  /\ UNCHANGED <<buffer, crit, wCount, accepted, reader>>

\* a caller that fills the buffer itself, up to what is free in one piece
BeginFill(block) ==
  /\ wpc = "idle" /\ (WrCntProt => crit = "free")
  /\ Len(block) <= Minus(Size, nCount) /\ Len(block) <= Size - nWrIdx
  /\ toWrite' = block
  /\ wpc' = "copy"
  /\ UNCHANGED <<buffer, crit, wCount, accepted, reader>>

CopyIn ==
  /\ wpc = "copy"
  /\ pfBuf' = Insert(pfBuf, nWrIdx, toWrite)
  /\ nWrIdx' = Advance(nWrIdx, Len(toWrite))
  /\ wpc' = "load"
  /\ UNCHANGED <<nRdIdx, nCount, crit, toWrite, wCount, accepted, reader>>

LoadWrCount ==
  /\ wpc = "load"
  /\ IF WrCntProt THEN crit = "free" /\ crit' = "wr" ELSE UNCHANGED crit
  /\ wCount' = nCount
  /\ wpc' = "store"
  /\ UNCHANGED <<buffer, toWrite, accepted, reader>>

StoreWrCount ==
  /\ wpc = "store"
  /\ nCount' = Plus(wCount, Len(toWrite))
  /\ crit' = IF WrCntProt THEN "free" ELSE crit
  /\ wpc' = "idle" /\ toWrite' = << >> /\ wCount' = 0
  /\ accepted' = Len(toWrite)
  /\ UNCHANGED <<pfBuf, nWrIdx, nRdIdx, reader>>

-----------------------------------------------------------------------------
(* A reader: ByteQRead, ByteQPeek, or ByteQGetContiguousReadReady, a look   *)
(* at ByteQGetReadPtr and ByteQCommitRead.                                  *)

\* "No count MUTEX needed because count ... can only get larger"
BeginRead(r, n, label) ==
  /\ rpc[r] = "idle"
  /\ toRead' = [toRead EXCEPT ![r] = Least(nCount, n)]
  /\ rdIdx' = [rdIdx EXCEPT ![r] = nRdIdx]
  /\ rpc' = [rpc EXCEPT ![r] = label]
  /\ UNCHANGED <<buffer, crit, writer, out, rCount, given>>

Read(r, n) == BeginRead(r, n, "copy")
Peek(r, n) == BeginRead(r, n, "peek")

\* no more is committed than is ready in one piece
CommitRead(r, n) ==
  /\ RdCntProt => crit = "free"
  /\ n <= nCount /\ n <= Size - nRdIdx
  /\ BeginRead(r, n, "copy")

Bytes(r) == Stored(pfBuf, rdIdx[r], toRead[r])

CopyOut(r) ==
  /\ rpc[r] = "copy"
  /\ out' = [out EXCEPT ![r] = Bytes(r)]
  /\ nRdIdx' = Advance(rdIdx[r], toRead[r])
  /\ rpc' = [rpc EXCEPT ![r] = "load"]
  /\ UNCHANGED <<pfBuf, nWrIdx, nCount, crit, writer, rdIdx, toRead, rCount, given>>

\* the locals of a read end with it
EndRead(r, bytes) ==
  /\ given' = [given EXCEPT ![r] = bytes]
  /\ rpc' = [rpc EXCEPT ![r] = "idle"]
  /\ rdIdx' = [rdIdx EXCEPT ![r] = 0]
  /\ toRead' = [toRead EXCEPT ![r] = 0]
  /\ out' = [out EXCEPT ![r] = << >>]
  /\ rCount' = [rCount EXCEPT ![r] = 0]

CopyPeek(r) ==
  /\ rpc[r] = "peek"
  /\ EndRead(r, Bytes(r))
  /\ UNCHANGED <<buffer, crit, writer>>

\* (variant: the count is loaded without the lock)
LoadRdCount_NoLock(r) ==
  /\ rpc[r] = "load"
  /\ rCount' = [rCount EXCEPT ![r] = nCount]
  /\ rpc' = [rpc EXCEPT ![r] = "store"]
  /\ UNCHANGED <<buffer, crit, writer, rdIdx, toRead, out, given>>

LoadRdCount(r) ==
  /\ rpc[r] = "load"
  /\ IF RdCntProt THEN crit = "free" /\ crit' = r ELSE UNCHANGED crit
  /\ rCount' = [rCount EXCEPT ![r] = nCount]
  /\ rpc' = [rpc EXCEPT ![r] = "store"]
  /\ UNCHANGED <<buffer, writer, rdIdx, toRead, out, given>>

StoreRdCount(r) ==
  /\ rpc[r] = "store"
  /\ nCount' = Minus(rCount[r], toRead[r])
  /\ crit' = IF RdCntProt THEN "free" ELSE crit
  /\ EndRead(r, out[r])
  /\ UNCHANGED <<pfBuf, nWrIdx, nRdIdx, writer>>

-----------------------------------------------------------------------------
(* Calls that change both sides: their callers keep every other caller out. *)

Quiet == wpc = "idle" /\ crit = "free" /\ \A r \in Readers : rpc[r] = "idle"

\* ByteQForceWrite: pushes out the oldest bytes, and of a block longer than the
\* buffer its own first ones
ForceWrite(block) ==
  LET diff == Len(block) - (Size - nCount)
      over == Len(block) - Size
      kept == IF over > 0 THEN SubSeq(block, over + 1, Len(block)) ELSE block
      first == IF over > 0 THEN (nWrIdx + over) % Size ELSE nWrIdx
  IN
  /\ Quiet
  /\ nRdIdx' = IF diff > 0 THEN (nRdIdx + diff) % Size ELSE nRdIdx
  /\ nCount' = IF diff > 0 THEN nCount - diff + Len(block) ELSE nCount + Len(block)
  /\ pfBuf' = Insert(pfBuf, first, kept)
  /\ nWrIdx' = Advance(first, Len(kept))
  /\ accepted' = Len(block)
  /\ UNCHANGED <<crit, wpc, toWrite, wCount, reader>>

Flush ==
  /\ Quiet
  /\ nCount' = 0 /\ nRdIdx' = 0 /\ nWrIdx' = 0
  /\ UNCHANGED <<pfBuf, crit, writer, reader>>

Next ==
  \/ \E block \in Blocks : BeginWrite(block) \/ BeginFill(block) \/ ForceWrite(block)
  \/ CopyIn \/ LoadWrCount \/ StoreWrCount
  \/ \E r \in Readers :
       \/ \E n \in 1 .. MaxLen : Read(r, n) \/ Peek(r, n) \/ CommitRead(r, n)
       \/ CopyOut(r) \/ CopyPeek(r) \/ LoadRdCount(r) \/ StoreRdCount(r)
  \/ Flush

Spec == Init /\ [][Next]_vars

-----------------------------------------------------------------------------
TypeOK ==
  /\ pfBuf \in [Cells -> Values]
  /\ nWrIdx \in Cells /\ nRdIdx \in Cells
  /\ nCount \in 0 .. (UIntMod - 1)
  /\ crit \in {"free", "wr"} \cup Readers
  /\ wpc \in {"idle", "copy", "load", "store"}
  /\ toWrite \in Seq(Values) /\ wCount \in Nat /\ accepted \in Nat
  /\ rpc \in [Readers -> {"idle", "copy", "peek", "load", "store"}]
  /\ rdIdx \in [Readers -> Cells] /\ toRead \in [Readers -> Nat]
  /\ out \in [Readers -> Seq(Values)] /\ rCount \in [Readers -> Nat]
  /\ given \in [Readers -> Seq(Values)]

\* LOG_ASSERT(pQ->nCount <= pQ->nBufSz), at any time
CountWithinBuffer == nCount <= Size

\* Bytes behind nWrIdx that are not counted yet, and bytes that are still counted
\* although nRdIdx has passed them.
Coming == IF wpc \in {"load", "store"} THEN Len(toWrite) ELSE 0
Going(r) == IF rpc[r] \in {"load", "store"} THEN toRead[r] ELSE 0

\* The two indices and the count agree at every moment, whatever both sides have under
\* way: the bytes between the indices are those counted, and those coming but not
\* those going.  What a side tested without a lock still holds when it copies.
CritHeld ==
  /\ crit = "wr" <=> wpc = "store"
  /\ \A r \in Readers : crit = r <=> rpc[r] = "store"
CountLoaded ==
  /\ wpc = "store" => wCount = nCount
  /\ \A r \in Readers : rpc[r] = "store" => rCount[r] = nCount
RoomForWrite ==
  /\ nCount + Len(toWrite) <= Size
  /\ wpc = "idle" => toWrite = << >>
BytesForRead ==
  \A r \in Readers :
    /\ rpc[r] # "idle" => toRead[r] <= nCount
    /\ rpc[r] \in {"copy", "peek"} => rdIdx[r] = nRdIdx
    /\ rpc[r] \in {"load", "store"} => nRdIdx = Advance(rdIdx[r], toRead[r])
IndicesAgree ==
  \A r \in Readers : nWrIdx = Advance(nRdIdx, nCount + Coming - Going(r))
IndexInv ==
  CritHeld /\ CountLoaded /\ RoomForWrite /\ BytesForRead /\ IndicesAgree

\* What has been copied is there: a block behind the bytes counted, and the bytes read
\* still in the cells they were read from.
Oldest(r) == IF rpc[r] = "idle" THEN nRdIdx ELSE rdIdx[r]
BlockCopied ==
  \A r \in Readers : wpc \in {"load", "store"} =>
    toWrite = Stored(pfBuf, Advance(Oldest(r), nCount), Len(toWrite))
BytesCopied == \A r \in Readers : rpc[r] \in {"load", "store"} => out[r] = Bytes(r)
DataInv == BlockCopied /\ BytesCopied

\* The queue's content runs from the reader's index, or from where it was before a
\* read that still has to be counted off.
Reader == CHOOSE r \in Readers : TRUE
FIFO == INSTANCE ByteFifo
          WITH Capacity <- Size,
               content <- Stored(pfBuf, Oldest(Reader), nCount),
               offered <- IF wpc = "idle" THEN {} ELSE {toWrite},
               taking <- IF rpc[Reader] = "idle" THEN {}
                         ELSE {[bytes |-> toRead[Reader], keep |-> rpc[Reader] = "peek"]},
               given <- given[Reader]

\* With one reader and both sides protected the queue is first in, first out: nothing is
\* lost, repeated, reordered or overwritten before it is read.
IsByteFifo == FIFO!AbsSpec
=============================================================================
