----------------------------- MODULE RingAccess ------------------------------
(***************************************************************************)
(* The operations of byteq.cpp that one thread uses alone: forced writes,  *)
(* which drop the oldest bytes, and access in the middle and from the end; *)
(* Q of q.hpp and WordQ of wordq.hpp on top of them, whose items are       *)
(* ItemBytes bytes.  ByteQ models what several threads may call.           *)
(***************************************************************************)
EXTENDS Integers, Sequences

CONSTANTS RingBytes,   \* nBufSz, a multiple of ItemBytes
          ItemBytes,   \* sizeof(T)
          RingValues   \* values of a byte

ASSUME RingAssumption ==
  /\ RingBytes \in Nat \ {0} /\ ItemBytes \in 1 .. RingBytes
  /\ RingBytes % ItemBytes = 0 /\ RingValues \subseteq Int

VARIABLES
  ring,        \* pfBuf, nWrIdx, nRdIdx and nCount
  ringKeeps    \* the bytes it should hold, the oldest first

ringVars == <<ring, ringKeeps>>

ByteQCreate == [buf |-> [i \in 0 .. RingBytes - 1 |-> 0], wr |-> 0, rd |-> 0, count |-> 0]
RingInit == ring = ByteQCreate /\ ringKeeps = <<>>

inc_buf_idx(idx, n) == IF idx + n >= RingBytes THEN idx + n - RingBytes ELSE idx + n
AtLeast0(n) == IF n < 0 THEN 0 ELSE n
Smaller(a, b) == IF a < b THEN a ELSE b

\* At most RingBytes bytes: the loops copy up to the end of the buffer and go on at its
\* start.  The gap is how far a cell lies behind another.
RingGap(at, cell) == IF cell >= at THEN cell - at ELSE cell - at + RingBytes
RingCopyIn(buf, at, bytes) ==
  [cell \in DOMAIN buf |-> IF RingGap(at, cell) < Len(bytes) THEN bytes[RingGap(at, cell) + 1]
                           ELSE buf[cell]]
RingCopyOut(buf, at, n) == [i \in 1 .. n |-> buf[inc_buf_idx(at, i - 1)]]

\* Room for n bytes: the read index is forced forward.
MakeRoom_KeepIndex(q, n) ==  \* (variant: only the count goes down)
  LET diff == n - (RingBytes - q.count)
  IN IF diff > 0 THEN [q EXCEPT !.count = @ - diff] ELSE q
MakeRoom(q, n) ==
  LET diff == n - (RingBytes - q.count)
  IN IF diff > 0 THEN [q EXCEPT !.rd = (@ + diff) % RingBytes, !.count = @ - diff] ELSE q
ByteQForceWrite(q, bytes) ==
  LET n == Len(bytes)
      r == MakeRoom(q, n)
  IN [r EXCEPT !.buf = RingCopyIn(@, r.wr, bytes), !.wr = inc_buf_idx(@, n), !.count = @ + n]
ByteQForceWriteUnprotected(q, bytes) == ByteQForceWrite(q, bytes)
\* The bytes are in the buffer already.
ByteQForceCommitWrite(q, n) ==
  LET r == MakeRoom(q, n) IN [r EXCEPT !.wr = inc_buf_idx(@, n), !.count = @ + n]

ByteQPeekRandom(q, from, n) ==
  RingCopyOut(q.buf, inc_buf_idx(q.rd, from), Smaller(AtLeast0(q.count - from), n))
\* It goes from the write index on, which is the oldest byte of a full queue only, but
\* its length is bounded by the stored bytes.
ByteQPokeRandom(q, bytes, from) ==
  LET n == Smaller(AtLeast0(q.count - from), Len(bytes))
  IN [q EXCEPT !.buf = RingCopyIn(@, inc_buf_idx(q.wr, from), SubSeq(bytes, 1, n))]
ByteQDoReadFromEnd(q, n) ==
  RingCopyOut(q.buf, IF q.wr < n THEN q.wr - n + RingBytes ELSE q.wr - n, n)

ByteQGetWriteReady(q) == RingBytes - q.count
ByteQGetReadReady(q) == q.count
\* What can be read and written in one piece, where the pointers point.
ByteQGetContiguousReadReady(q) == Smaller(q.count, RingBytes - q.rd)
ByteQGetReadPtr(q) == q.rd
ByteQGetWritePtr(q) == q.wr

\* The consumer has read up to this place of the buffer, perhaps its end.
ByteQSetRdIdxFromPointer(q, place) ==
  LET rd == IF place = RingBytes THEN 0 ELSE place
  IN [q EXCEPT !.rd = rd, !.count = IF q.wr < rd THEN q.wr - rd + RingBytes ELSE q.wr - rd]

------------------------------------------------------------------------------
\* Q and WordQ count in items.

ItemOf(v) == [i \in 1 .. ItemBytes |-> IF i = 1 THEN v ELSE 1 - v]
RingForceWrite(q, v) == ByteQForceWrite(q, ItemOf(v))
WordQForceWrite(q, v) == ByteQForceWrite(q, ItemOf(v))
GetReadReady(q) == ByteQGetReadReady(q) \div ItemBytes
Item(q, idx) ==   \* operator[]: from the oldest, or with a minus from the newest
  LET at == IF idx >= 0 THEN (q.rd + idx * ItemBytes) % RingBytes
            ELSE IF q.wr + idx * ItemBytes < 0 THEN q.wr + idx * ItemBytes + RingBytes
            ELSE q.wr + idx * ItemBytes
  IN [i \in 1 .. ItemBytes |-> q.buf[at + i - 1]]

------------------------------------------------------------------------------
\* What a poke makes of the stored bytes s: from counts the places after the newest
\* byte, so the free ones first, whose bytes are nobody's, and then the stored ones
\* from the oldest on; of a queue that is full it is the place among the stored.
AfterPoke(s, bytes, from) ==
  LET free == RingBytes - Len(s)
      written == Smaller(AtLeast0(Len(s) - from), Len(bytes))
  IN [i \in 1 .. Len(s) |-> IF free + i - from \in 1 .. written THEN bytes[free + i - from]
                            ELSE s[i]]

LastOf(s, n) == SubSeq(s, Len(s) - Smaller(n, Len(s)) + 1, Len(s))
RingBecomes(q, keeps) == ring' = q /\ ringKeeps' = keeps
Blocks1(n) == [1 .. n -> RingValues]

RingNext ==
  \/ \E v \in RingValues :
       \/ RingBecomes(RingForceWrite(ring, v), LastOf(ringKeeps \o ItemOf(v), RingBytes))
       \/ RingBecomes(WordQForceWrite(ring, v), LastOf(ringKeeps \o ItemOf(v), RingBytes))
  \/ \E n \in 1 .. RingBytes : \E b \in Blocks1(n) :
       \/ RingBecomes(ByteQForceWriteUnprotected(ring, b), LastOf(ringKeeps \o b, RingBytes))
       \/ RingBecomes(ByteQForceCommitWrite([ring EXCEPT !.buf = RingCopyIn(@, ring.wr, b)], n),
                      LastOf(ringKeeps \o b, RingBytes))
       \/ \E from \in 0 .. RingBytes - 1 :
            RingBecomes(ByteQPokeRandom(ring, b, from), AfterPoke(ringKeeps, b, from))
  \/ \E n \in 1 .. ring.count :   \* a consumer that has read n bytes
       RingBecomes(ByteQSetRdIdxFromPointer(ring, IF ring.rd + n <= RingBytes THEN ring.rd + n
                                                  ELSE ring.rd + n - RingBytes),
                   SubSeq(ringKeeps, n + 1, Len(ringKeeps)))

RingSpec == RingInit /\ [][RingNext]_ringVars

\* However often the bytes have gone round the buffer and the oldest were dropped, and
\* whatever pokes changed, the ring holds the last ones, and every way to look at them finds them there:
\* from any place, from the end, and item by item from either side.
RingHoldsLast ==
  /\ ByteQGetReadReady(ring) = Len(ringKeeps)
  /\ ByteQGetWritePtr(ring) = (ring.rd + ring.count) % RingBytes
  /\ ByteQGetWriteReady(ring) = RingBytes - Len(ringKeeps)
  /\ \A i \in 1 .. ByteQGetContiguousReadReady(ring) :
       ring.buf[ByteQGetReadPtr(ring) + i - 1] = ringKeeps[i]
  /\ \A from \in 0 .. RingBytes - 1, n \in 1 .. RingBytes :
       ByteQPeekRandom(ring, from, n) = SubSeq(ringKeeps, from + 1, Smaller(from + n, Len(ringKeeps)))
  /\ \A n \in 1 .. ring.count : ByteQDoReadFromEnd(ring, n) = LastOf(ringKeeps, n)
  /\ (ring.rd % ItemBytes = 0 /\ ring.wr % ItemBytes = 0) =>
       \A idx \in 0 .. GetReadReady(ring) - 1 :
         /\ Item(ring, idx) = SubSeq(ringKeeps, ItemBytes * idx + 1, ItemBytes * idx + ItemBytes)
         /\ Item(ring, idx - GetReadReady(ring)) = Item(ring, idx)
=============================================================================
