--------------------------- MODULE UdpClientProofs ---------------------------
(***************************************************************************)
(* Proofs about UdpClient, and so about BufIOQueue under its two kinds of  *)
(* driver: who holds a transaction, when it counts as expired, what a      *)
(* thread of a socket commits, and the contract of TransferQueue, for any  *)
(* transactions, lengths, timeouts and range of the clock, with a thread   *)
(* that purges and flushes or without.                                     *)
(***************************************************************************)
EXTENDS UdpClient, TLAPS, SequenceTheorems, FiniteSetTheorems

-----------------------------------------------------------------------------
(* The inductive invariant.                                                *)

Places == {"heap", "pool", "app", "queue"}
DriverStates == [pc : {"idle", "loaded", "callback"}, trans : Trans \cup {NoTrans}, len : 0 .. Length]
PurgerStates ==
  [pc : {"idle", "test", "flush", "callback", "drain"}, dir : Dirs, all : BOOLEAN,
   purged : Seq(Trans), flushed : Trans \cup {NoTrans}]
ReaderStates ==
  [pc : {"none", "start", "recv", "received", "timeout"}, trans : Trans \cup {NoTrans}]

ListsTyped ==
  /\ queue \in [Dirs -> Seq(Trans)]
  /\ curr \in [Dirs -> Trans \cup {NoTrans}]
  /\ freeQueue \in Seq(PoolTrans)

TransTyped ==
  /\ place \in [Trans -> Places]
  /\ callback \in [Trans -> {"free", "app"}]
  /\ transferred \in [Trans -> 0 .. Length]
  /\ expiry \in [Trans -> Time \cup {Infinite}]
  /\ left \in [Trans -> (-HalfRange - 1) .. (HalfRange - 1)]
  /\ now \in Time

ThreadsTyped ==
  /\ driver \in [Dirs -> DriverStates]
  /\ purger \in PurgerStates
  /\ reader \in [Readers -> ReaderStates]
  /\ device \in {"serial", "udp"} /\ socket \in BOOLEAN /\ valid \in BOOLEAN /\ net \in Nat

TypeOK == ListsTyped /\ TransTyped /\ ThreadsTyped

\* The hands a transaction can be in: the lists, the current pointers, and the threads
\* that still have to call completedCb for it.
Hands == {"queueTX", "queueRX", "currTX", "currRX", "driverTX", "driverRX",
          "purged", "flushed", "pool"}
InHand(h, t) ==
  \/ h = "queueTX" /\ t \in Elements(queue[TX])
  \/ h = "queueRX" /\ t \in Elements(queue[RX])
  \/ h = "currTX" /\ t = curr[TX]
  \/ h = "currRX" /\ t = curr[RX]
  \/ h = "driverTX" /\ driver[TX].pc = "callback" /\ t = driver[TX].trans
  \/ h = "driverRX" /\ driver[RX].pc = "callback" /\ t = driver[RX].trans
  \/ h = "purged" /\ t \in Elements(purger.purged)
  \/ h = "flushed" /\ t = purger.flushed
  \/ h = "pool" /\ t \in Elements(freeQueue)

\* A transaction is in one hand at most, and in none when it is the application's.
HeldOnce(t) ==
  /\ \A g, h \in Hands : InHand(g, t) /\ InHand(h, t) => g = h
  /\ place[t] \in {"queue", "pool"} <=> \E h \in Hands : InHand(h, t)
  /\ place[t] = "pool" <=> InHand("pool", t)
HandsInv == \A t \in Trans : HeldOnce(t)

\* s has no member twice.
Once(s) == \A i, j \in DOMAIN s : s[i] = s[j] => i = j
ListsInv ==
  /\ \A d \in Dirs : Once(queue[d])
  /\ Once(purger.purged)
  /\ Once(freeQueue)

\* What the threads hold where they are, and that a device has drivers or readers, not both.
ThreadsInv ==
  /\ \A d \in Dirs : driver[d].pc = "callback" => driver[d].trans # NoTrans
  /\ purger.pc = "callback" <=> purger.flushed # NoTrans
  /\ purger.pc = "idle" => purger.purged = << >>
  /\ device = "udp" => \A d \in Dirs : driver[d].pc = "idle"
  /\ device = "serial" => \A r \in Readers : reader[r].pc = "none"

\* The current transaction is not complete, and the driver moves what is left of it.
TransferInv ==
  /\ \A d \in Dirs : curr[d] # NoTrans => transferred[curr[d]] < Length
  /\ \A d \in Dirs : driver[d].pc = "loaded" /\ curr[d] # NoTrans =>
       transferred[curr[d]] + driver[d].len = Length

\* The expiry time of a transaction that waits is `left` ms ahead, on a clock that wraps.
ExpiryInv ==
  \A t \in Trans : place[t] = "queue" /\ expiry[t] # Infinite /\ left[t] >= -HalfRange =>
    \/ expiry[t] = now + left[t]
    \/ expiry[t] = now + left[t] + 2 * HalfRange
    \/ expiry[t] = now + left[t] - 2 * HalfRange

UdpInv == TypeOK /\ HandsInv /\ ListsInv /\ ThreadsInv /\ TransferInv /\ ExpiryInv

\* With one request at a time, the one thread there is waits for the current transaction,
\* or there is none because it has been flushed from under the thread.
OneReaderInv ==
  /\ \A q, r \in Readers : reader[q].pc # "none" /\ reader[r].pc # "none" => q = r
  /\ \A r \in Readers : reader[r].pc \in {"recv", "received", "timeout"} =>
       curr[RX] = NoTrans \/ curr[RX] = reader[r].trans

-----------------------------------------------------------------------------
(* Sequences without duplicates.                                           *)

LEMMA AppendMeans ==
  ASSUME NEW S, NEW s \in Seq(S), NEW e \in S
  PROVE  /\ Elements(Append(s, e)) = Elements(s) \cup {e}
         /\ Once(s) /\ e \notin Elements(s) => Once(Append(s, e))
<1> DEFINE n == Len(s)
           s2 == Append(s, e)
<1>1. n \in Nat /\ DOMAIN s = 1 .. n /\ s2 \in Seq(S) /\ DOMAIN s2 = 1 .. (n + 1)
  OBVIOUS
<1>2. s2[n + 1] = e /\ \A i \in 1 .. n : s2[i] = s[i]
  OBVIOUS
<1> HIDE DEF n, s2
<1>3. ASSUME NEW x PROVE x \in Elements(s2) <=> x \in Elements(s) \/ x = e
  <2>1. \A i \in 1 .. (n + 1) : i \in 1 .. n \/ i = n + 1
    BY <1>1
  <2>2. n + 1 \in 1 .. (n + 1) /\ \A i \in 1 .. n : i \in 1 .. (n + 1)
    BY <1>1
  <2> QED BY <1>1, <1>2, <2>1, <2>2 DEF Elements
<1>4. Elements(s2) = Elements(s) \cup {e}
  BY <1>3
<1>5. ASSUME Once(s), e \notin Elements(s), NEW i \in DOMAIN s2, NEW j \in DOMAIN s2,
             s2[i] = s2[j]
      PROVE  i = j
  <2>1. \A k \in 1 .. n : s[k] # e
    BY <1>1, <1>5 DEF Elements
  <2>2. (i \in 1 .. n \/ i = n + 1) /\ (j \in 1 .. n \/ j = n + 1)
    BY <1>1
  <2> QED BY <1>1, <1>2, <1>5, <2>1, <2>2 DEF Once
<1> QED BY <1>4, <1>5 DEF Once, s2

LEMMA TailMeans ==
  ASSUME NEW S, NEW s \in Seq(S), s # << >>
  PROVE  /\ Head(s) \in Elements(s) /\ Head(s) \in S /\ Tail(s) \in Seq(S)
         /\ Once(s) => Once(Tail(s)) /\ Elements(Tail(s)) = Elements(s) \ {Head(s)}
<1> DEFINE n == Len(s)
           s2 == Tail(s)
<1>1. n \in Nat \ {0} /\ DOMAIN s = 1 .. n /\ s2 \in Seq(S) /\ DOMAIN s2 = 1 .. (n - 1)
  BY EmptySeq, HeadTailProperties
<1>2. Head(s) = s[1] /\ \A i \in 1 .. (n - 1) : s2[i] = s[i + 1]
  <2>1. Head(s) = s[1]
    BY <1>1
  <2>2. Len(s2) = n - 1 /\ \A i \in 1 .. Len(s2) : s2[i] = s[i + 1]
    BY HeadTailProperties
  <2> QED BY <2>1, <2>2
<1>3. s[1] \in S
  BY <1>1, ElementOfSeq
<1> HIDE DEF n, s2
<1>4. 1 \in DOMAIN s /\ \A i \in 1 .. (n - 1) : i + 1 \in 1 .. n /\ i + 1 # 1
  BY <1>1
<1>5. ASSUME Once(s) PROVE Once(s2)
  <2> SUFFICES ASSUME NEW i \in 1 .. (n - 1), NEW j \in 1 .. (n - 1), s2[i] = s2[j] PROVE i = j
    BY <1>1 DEF Once
  <2>1. i + 1 \in DOMAIN s /\ j + 1 \in DOMAIN s /\ s[i + 1] = s[j + 1]
    BY <1>1, <1>2, <1>4
  <2>2. i + 1 = j + 1
    BY <2>1, <1>5 DEF Once
  <2> QED BY <1>1, <2>2
<1>6. ASSUME Once(s), NEW x PROVE x \in Elements(s2) <=> x \in Elements(s) /\ x # Head(s)
  <2>1. \A i \in 1 .. n : i = 1 \/ (i - 1 \in 1 .. (n - 1) /\ (i - 1) + 1 = i)
    BY <1>1
  <2>2. \A i \in 1 .. n : i # 1 => s[i] # s[1]
    BY <1>1, <1>4, <1>6 DEF Once
  <2>3. ASSUME x \in Elements(s2) PROVE x \in Elements(s) /\ x # Head(s)
    BY <1>1, <1>2, <1>4, <2>2, <2>3, SMTT(30) DEF Elements
  <2>4. ASSUME x \in Elements(s), x # Head(s) PROVE x \in Elements(s2)
    <3>1. PICK i \in 1 .. n : x = s[i]
      BY <1>1, <2>4 DEF Elements
    <3>2. s2[i - 1] = x /\ i - 1 \in 1 .. (n - 1)
      BY <1>2, <2>1, <2>4, <3>1
    <3> QED BY <1>1, <3>2 DEF Elements
  <2> QED BY <2>3, <2>4
<1>7. Head(s) \in Elements(s)
  BY <1>2, <1>4 DEF Elements
<1> QED BY <1>1, <1>2, <1>3, <1>5, <1>6, <1>7 DEF s2

\* A sequence without duplicates is no longer than its members are many.
LEMMA OnceLength ==
  ASSUME NEW S, IsFiniteSet(S), NEW s \in Seq(S), Once(s)
  PROVE  Len(s) <= Cardinality(S)
<1> DEFINE n == Len(s)
<1>1. n \in Nat /\ DOMAIN s = 1 .. n /\ s \in [1 .. n -> S]
  OBVIOUS
<1> HIDE DEF n
<1>2. s \in Injection(1 .. n, S)
  BY <1>1 DEF Once, Injection, IsInjective
<1>3. Cardinality(1 .. n) = n
  BY <1>1, FS_Interval
<1>4. Cardinality(1 .. n) <= Cardinality(S)
  BY <1>2, FS_Injection
<1> QED BY <1>3, <1>4 DEF n

\* As many places as members, each of which has one: no member has two.
LEMMA OnceOnto ==
  ASSUME NEW S, IsFiniteSet(S), NEW s \in [1 .. Cardinality(S) -> S], Elements(s) = S
  PROVE  s \in Seq(S) /\ Once(s)
<1> DEFINE n == Cardinality(S)
<1>1. n \in Nat
  BY FS_CardinalityType
<1> HIDE DEF n
<1>2. s \in Surjection(1 .. n, S)
  BY DEF Surjection, Elements, n
<1>3. IsFiniteSet(1 .. n) /\ Cardinality(1 .. n) = n
  BY <1>1, FS_Interval
<1>4. s \in Injection(1 .. n, S)
  BY <1>2, <1>3, FS_SurjSameCardinalityImpliesInj DEF n
<1>5. Once(s)
  BY <1>4 DEF Once, Injection, IsInjective
<1> QED BY <1>1, <1>5 DEF n

-----------------------------------------------------------------------------
(* The loop of a purge: Without keeps the others, in their order.           *)

UpTo(K, i) == {j \in K : j <= i}
Rank(K, i) == Cardinality(UpTo(K, i))

LEMMA RankRises ==
  ASSUME NEW K, IsFiniteSet(K), K \subseteq Nat
  PROVE  /\ \A i \in K : Rank(K, i) \in 1 .. Cardinality(K)
         /\ \A i, j \in K : i < j => Rank(K, i) < Rank(K, j)
<1>1. ASSUME NEW i \in K
      PROVE  /\ IsFiniteSet(UpTo(K, i)) /\ Rank(K, i) \in Nat /\ Rank(K, i) <= Cardinality(K)
             /\ Rank(K, i) >= 1
  <2>1. UpTo(K, i) \subseteq K /\ i \in UpTo(K, i)
    BY DEF UpTo
  <2>2. IsFiniteSet(UpTo(K, i)) /\ Cardinality(UpTo(K, i)) <= Cardinality(K)
    BY <2>1, FS_Subset
  <2>3. Cardinality(UpTo(K, i)) \in Nat
    BY <2>2, FS_CardinalityType
  <2>4. Cardinality(UpTo(K, i)) # 0
    BY <2>1, <2>2, FS_EmptySet
  <2> QED BY <2>2, <2>3, <2>4 DEF Rank
<1>2. ASSUME NEW i \in K, NEW j \in K, i < j PROVE Rank(K, i) < Rank(K, j)
  <2>1. UpTo(K, i) \subseteq UpTo(K, j)
    <3>1. i \in Int /\ j \in Int /\ \A x \in K : x \in Int
      OBVIOUS
    <3>2. \A x \in K : x <= i => x <= j
      BY <1>2, <3>1
    <3> QED BY <3>2 DEF UpTo
  <2>2. UpTo(K, i) # UpTo(K, j)
    BY <1>2 DEF UpTo
  <2>3. IsFiniteSet(UpTo(K, j))
    BY <1>1
  <2>4. /\ Cardinality(UpTo(K, i)) <= Cardinality(UpTo(K, j))
        /\ Cardinality(UpTo(K, i)) # Cardinality(UpTo(K, j))
    BY <2>1, <2>2, <2>3, FS_Subset
  <2>5. Rank(K, i) \in Nat /\ Rank(K, j) \in Nat
    BY <1>1
  <2> QED BY <2>4, <2>5 DEF Rank
<1>3. Cardinality(K) \in Nat
  BY FS_CardinalityType
<1>4. ASSUME NEW i \in K PROVE Rank(K, i) \in 1 .. Cardinality(K)
  <2> DEFINE r == Rank(K, i)
             n == Cardinality(K)
  <2>1. r \in Nat /\ r <= n /\ r >= 1 /\ n \in Nat
    BY <1>1, <1>3
  <2> HIDE DEF r, n
  <2>2. r \in 1 .. n
    BY <2>1
  <2> QED BY <2>2 DEF r, n
<1> QED BY <1>2, <1>4

LEMMA RankOfOne ==
  ASSUME NEW K, IsFiniteSet(K), K \subseteq Nat, NEW i \in K, NEW j \in K,
         Rank(K, i) = Rank(K, j)
  PROVE  i = j
<1> DEFINE a == Rank(K, i)
           b == Rank(K, j)
<1>1. i \in Nat /\ j \in Nat /\ (i < j => a < b) /\ (j < i => b < a)
  BY RankRises
<1>2. Cardinality(K) \in Nat /\ a \in 1 .. Cardinality(K) /\ a = b
  BY RankRises, FS_CardinalityType
<1> HIDE DEF a, b
<1>3. a \in Int
  BY <1>2
<1> QED BY <1>1, <1>2, <1>3

LEMMA RankOnto ==
  ASSUME NEW K, IsFiniteSet(K), K \subseteq Nat, NEW k \in 1 .. Cardinality(K)
  PROVE  \E i \in K : Rank(K, i) = k
<1> DEFINE n == Cardinality(K)
           f == [i \in K |-> Rank(K, i)]
<1>1. n \in Nat
  BY FS_CardinalityType
<1>2. f \in Injection(K, 1 .. n)
  <2>1. ASSUME NEW i \in K, NEW j \in K, Rank(K, i) = Rank(K, j) PROVE i = j
    BY <2>1, RankOfOne
  <2>2. f \in [K -> 1 .. n]
    BY RankRises
  <2> QED BY <2>1, <2>2 DEF Injection, IsInjective
<1>3. IsFiniteSet(1 .. n) /\ Cardinality(1 .. n) = n
  <2> HIDE DEF n
  <2> QED BY <1>1, FS_Interval
<1>4. f \in Surjection(K, 1 .. n)
  <2> HIDE DEF f
  <2>1. Cardinality(K) = Cardinality(1 .. n)
    BY <1>3
  <2> QED BY <1>2, <1>3, <2>1, FS_Injection
<1> QED BY <1>4 DEF Surjection

LEMMA WithoutMeans ==
  ASSUME NEW T, NEW s \in Seq(T), NEW S
  PROVE  /\ Without(s, S) \in Seq(T)
         /\ Elements(Without(s, S)) = Elements(s) \ S
         /\ \A i, j \in DOMAIN Without(s, S) : i < j =>
              \E k, l \in DOMAIN s :
                k < l /\ s[k] = Without(s, S)[i] /\ s[l] = Without(s, S)[j]
         /\ Once(s) => Once(Without(s, S))
<1> DEFINE K == {i \in DOMAIN s : s[i] \notin S}
           n == Cardinality(K)
           nth(k) == CHOOSE i \in K : Rank(K, i) = k
           r == [k \in 1 .. n |-> s[nth(k)]]
<1>1. K \subseteq Nat /\ IsFiniteSet(K) /\ n \in Nat
  <2>1. Len(s) \in Nat /\ DOMAIN s = 1 .. Len(s) /\ K \subseteq 1 .. Len(s)
    OBVIOUS
  <2>2. IsFiniteSet(1 .. Len(s))
    BY <2>1, FS_Interval
  <2>3. IsFiniteSet(K)
    BY <2>1, <2>2, FS_Subset
  <2> QED BY <2>1, <2>3, FS_CardinalityType
<1>2. Without(s, S) = r
  BY DEF Without, Rank, UpTo
<1>3. \A i \in K : i \in DOMAIN s /\ s[i] \in T /\ s[i] \notin S
  BY ElementOfSeq
<1>4. \A i \in DOMAIN s : s[i] \notin S => i \in K
  OBVIOUS
<1> HIDE DEF K
<1>5. ASSUME NEW k \in 1 .. n PROVE nth(k) \in K /\ Rank(K, nth(k)) = k
  <2>1. \E i \in K : Rank(K, i) = k
    BY <1>1, RankOnto
  <2> QED BY <2>1
<1>6. ASSUME NEW i \in K PROVE Rank(K, i) \in 1 .. n /\ nth(Rank(K, i)) = i
  <2>1. Rank(K, i) \in 1 .. n
    BY <1>1, RankRises
  <2>2. nth(Rank(K, i)) \in K /\ Rank(K, nth(Rank(K, i))) = Rank(K, i)
    BY <1>5, <2>1
  <2> DEFINE j == nth(Rank(K, i))
  <2> HIDE DEF j
  <2>3. ASSUME j \in K, Rank(K, j) = Rank(K, i) PROVE j = i
    BY <1>1, <2>3, RankOfOne
  <2> QED BY <2>1, <2>2, <2>3 DEF j
<1>7. ASSUME NEW i \in 1 .. n, NEW j \in 1 .. n, i < j PROVE nth(i) < nth(j)
  <2> DEFINE a == nth(i)
             b == nth(j)
  <2>1. a \in K /\ b \in K /\ Rank(K, a) = i /\ Rank(K, b) = j
    BY <1>5
  <2> HIDE DEF a, b
  <2>2. a \in Nat /\ b \in Nat /\ i \in Nat /\ j \in Nat
    BY <1>1, <2>1
  <2>3. a # b /\ ~(b < a)
    <3>1. b < a => Rank(K, b) < Rank(K, a)
      BY <1>1, <2>1, RankRises
    <3>2. b < a => j < i
      BY <2>1, <3>1
    <3> QED BY <1>7, <2>1, <2>2, <3>2
  <2>4. a < b
    BY <2>2, <2>3
  <2> QED BY <2>4 DEF a, b
<1> HIDE DEF nth
<1>8. DOMAIN r = 1 .. n /\ \A k \in 1 .. n : nth(k) \in DOMAIN s /\ r[k] = s[nth(k)] /\ r[k] \in T
  BY <1>3, <1>5
<1> HIDE DEF n
<1>9. r \in Seq(T)
  <2>1. r \in [1 .. n -> T]
    BY <1>8
  <2> QED BY <1>1, <2>1
<1> HIDE DEF r
<1>10. Elements(r) = Elements(s) \ S
  <2>1. ASSUME NEW x \in Elements(r) PROVE x \in Elements(s) \ S
    BY <1>3, <1>5, <1>8 DEF Elements
  <2>2. ASSUME NEW x \in Elements(s), x \notin S PROVE x \in Elements(r)
    <3>1. PICK i \in DOMAIN s : x = s[i]
      BY DEF Elements
    <3>2. Rank(K, i) \in 1 .. n /\ nth(Rank(K, i)) = i
      BY <1>4, <1>6, <2>2, <3>1
    <3> QED BY <1>8, <3>1, <3>2 DEF Elements
  <2> QED BY <2>1, <2>2
<1>11. ASSUME NEW i \in DOMAIN r, NEW j \in DOMAIN r, i < j
       PROVE  \E k, l \in DOMAIN s : k < l /\ s[k] = r[i] /\ s[l] = r[j]
  BY <1>7, <1>8, <1>11
<1>12. ASSUME Once(s), NEW i \in DOMAIN r, NEW j \in DOMAIN r, r[i] = r[j] PROVE i = j
  <2>1. nth(i) = nth(j)
    BY <1>8, <1>12 DEF Once
  <2> QED BY <1>5, <1>8, <2>1
<1> QED BY <1>2, <1>9, <1>10, <1>11, <1>12 DEF Once

-----------------------------------------------------------------------------
(* The constants and the masked clock.                                     *)

LEMMA Constants ==
  /\ HalfRange \in Nat \ {0} /\ Length \in Nat \ {0}
  /\ NoTrans \notin Trans /\ Infinite \notin Int
  /\ IsFiniteSet(Trans) /\ IsFiniteSet(PoolTrans) /\ IsFiniteSet(Readers)
  /\ PoolTrans \subseteq Trans /\ HeapTrans \subseteq Trans
  /\ TX \in Dirs /\ RX \in Dirs /\ DriverDirs \subseteq Dirs
<1>1. PoolTrans \subseteq Trans /\ HeapTrans \subseteq Trans
  BY DEF Trans
<1>2. IsFiniteSet(PoolTrans)
  BY <1>1, TransAssumption, FS_Subset
<1> QED BY <1>1, <1>2, TransAssumption, TimeAssumption, ReadersAssumption DEF Dirs

LEMMA TimeoutRange ==
  ASSUME NEW timeout \in Timeouts, timeout # Infinite
  PROVE  timeout \in 1 .. (HalfRange - 1)
  BY TimeAssumption

LEMMA LapsOf ==
  ASSUME NEW M \in Nat \ {0}, NEW q \in Int, NEW r \in Int, M * q = r, -M < r, r < M
  PROVE  r = 0
<1>1. ASSUME NEW d \in Int, d >= 1 PROVE M * d >= M
  BY <1>1
<1>2. CASE q = 0
  BY <1>2
<1>3. CASE q >= 1
  BY <1>1, <1>3
<1>4. CASE q <= -1
  <2>1. M * (-q) >= M
    BY <1>1, <1>4
  <2>2. M * (-q) = -r
    OBVIOUS
  <2> QED BY <2>1, <2>2
<1> QED BY <1>2, <1>3, <1>4

\* The remainder of what is at most one lap out of range.
LEMMA WrapOnce ==
  ASSUME NEW M \in Nat \ {0}, NEW a \in Int, -M <= a, a < 2 * M
  PROVE  a % M = IF a < 0 THEN a + M ELSE IF a < M THEN a ELSE a - M
<1> DEFINE q == a \div M
           r == a % M
<1>1. q \in Int /\ r \in 0 .. (M - 1) /\ a = M * q + r
  OBVIOUS
<1> HIDE DEF q, r
<1>2. r \in Int /\ 0 <= r /\ r < M
  BY <1>1
<1>3. ASSUME NEW k \in Int, NEW w \in Int, 0 <= w, w < M, a = M * k + w PROVE r = w
  <2>1. M * (q - k) = M * q - M * k /\ q - k \in Int
    BY <1>1
  <2> DEFINE x == M * q
             y == M * k
  <2>2. x \in Int /\ y \in Int /\ a = x + r /\ a = y + w
    BY <1>1, <1>3
  <2> HIDE DEF x, y
  <2>3. x - y = w - r
    BY <1>2, <2>2
  <2>4. w - r \in Int /\ -M < w - r /\ w - r < M
    BY <1>2, <1>3
  <2>5. M * (q - k) = w - r
    BY <2>1, <2>3 DEF x, y
  <2>6. w - r = 0
    BY <2>1, <2>4, <2>5, LapsOf
  <2> QED BY <1>2, <2>6
<1>4. CASE a < 0
  <2>1. a = M * (-1) + (a + M)
    OBVIOUS
  <2> QED BY <1>3, <1>4, <2>1 DEF r
<1>5. CASE 0 <= a /\ a < M
  <2>1. a = M * 0 + a
    OBVIOUS
  <2> QED BY <1>3, <1>5, <2>1 DEF r
<1>6. CASE M <= a
  <2>1. a = M * 1 + (a - M)
    OBVIOUS
  <2> QED BY <1>3, <1>6, <2>1 DEF r
<1> QED BY <1>4, <1>5, <1>6

LEMMA ClockRange ==
  /\ \A a \in Time : a \in Int /\ 0 <= a /\ a < 2 * HalfRange
  /\ \A a \in Int : 0 <= a /\ a < 2 * HalfRange => a \in Time
  BY Constants DEF Time

LEMMA ExpiryOfType ==
  ASSUME now \in Time, NEW timeout \in Timeouts
  PROVE  /\ ExpiryOf(timeout) \in Time \cup {Infinite}
         /\ timeout = Infinite <=> ExpiryOf(timeout) = Infinite
         /\ timeout # Infinite =>
              ExpiryOf(timeout) = now + timeout \/ ExpiryOf(timeout) = now + timeout - 2 * HalfRange
<1>1. CASE timeout = Infinite
  BY <1>1 DEF ExpiryOf
<1>2. CASE timeout # Infinite
  <2> DEFINE M == 2 * HalfRange
             a == now + timeout
  <2>1. M \in Nat \ {0} /\ a \in Int /\ 0 <= a /\ a < 2 * M
    BY <1>2, Constants, ClockRange, TimeoutRange
  <2>2. a % M = IF a < M THEN a ELSE a - M
    BY <2>1, WrapOnce
  <2>3. a % M \in Int /\ 0 <= a % M /\ a % M < M
    BY <2>1, <2>2
  <2>4. a % M \in Time /\ a % M # Infinite
    BY <2>3, ClockRange, Constants
  <2>5. ExpiryOf(timeout) = a % M
    BY <1>2 DEF ExpiryOf
  <2>6. a % M = a \/ a % M = a - M
    BY <2>2
  <2>7. ExpiryOf(timeout) = a \/ ExpiryOf(timeout) = a - M
    BY <2>5, <2>6
  <2>8. ExpiryOf(timeout) \in Time /\ ExpiryOf(timeout) # Infinite
    BY <2>4, <2>5
  <2>9. ExpiryOf(timeout) = now + timeout \/ ExpiryOf(timeout) = now + timeout - 2 * HalfRange
    BY <1>2, <2>7, <2>8, Constants, ClockRange, TimeoutRange
  <2>10. timeout = Infinite <=> ExpiryOf(timeout) = Infinite
    BY <1>2, <2>8
  <2> HIDE DEF a, M
  <2> QED BY <2>8, <2>9, <2>10
<1> QED BY <1>1, <1>2

-----------------------------------------------------------------------------
(* What the helpers do to the state.                                       *)

LEMMA CompletedCbType ==
  ASSUME TransTyped, NEW t \in Trans, CompletedCb(t)
  PROVE  /\ place' \in [Trans -> Places] /\ transferred' \in [Trans -> 0 .. Length]
         /\ expiry' \in [Trans -> Time \cup {Infinite}]
         /\ left' \in [Trans -> (-HalfRange - 1) .. (HalfRange - 1)]
<1>1. HandedBack(t) \in Places
  BY DEF HandedBack, Places
<1>2. 0 \in 0 .. Length /\ 0 \in (-HalfRange - 1) .. (HalfRange - 1)
  BY Constants
<1> QED BY <1>1, <1>2 DEF TransTyped, CompletedCb

LEMMA InitTransactionType ==
  ASSUME TransTyped, NEW t \in Trans, NEW cb \in {"free", "app"}, InitTransaction(t, cb)
  PROVE  /\ callback' \in [Trans -> {"free", "app"}] /\ transferred' \in [Trans -> 0 .. Length]
         /\ expiry' \in [Trans -> Time \cup {Infinite}]
<1>1. 0 \in 0 .. Length
  BY Constants
<1> QED BY <1>1 DEF TransTyped, InitTransaction

LEMMA EnqueueType ==
  ASSUME ListsTyped, TransTyped, NEW t \in Trans, NEW d \in Dirs,
         NEW timeout \in Timeouts \cup {Infinite}, Enqueue(t, d, timeout)
  PROVE  /\ queue' \in [Dirs -> Seq(Trans)] /\ place' \in [Trans -> Places]
         /\ expiry' \in [Trans -> Time \cup {Infinite}]
         /\ left' \in [Trans -> (-HalfRange - 1) .. (HalfRange - 1)]
<1>1. queue[d] \in Seq(Trans) /\ Append(queue[d], t) \in Seq(Trans)
  BY DEF ListsTyped
<1>2. ExpiryOf(timeout) \in Time \cup {Infinite}
  BY ExpiryOfType DEF TransTyped, ExpiryOf
<1>3. 0 \in (-HalfRange - 1) .. (HalfRange - 1)
  BY Constants
<1>4. timeout # Infinite => timeout \in (-HalfRange - 1) .. (HalfRange - 1)
  BY TimeoutRange, Constants
<1> QED BY <1>1, <1>2, <1>3, <1>4 DEF ListsTyped, TransTyped, Enqueue, Places

\* LoadNextTransaction either moves the oldest queued transaction to the current pointer
\* or changes nothing.
LEMMA LoadMeans ==
  ASSUME TypeOK, NEW d \in Dirs, LoadNextTransaction(d)
  PROVE  \/ /\ curr[d] = NoTrans /\ queue[d] # << >>
            /\ NextTransaction(d) = Head(queue[d]) /\ NextTransaction(d) \in Trans
            /\ curr' = [curr EXCEPT ![d] = NextTransaction(d)]
            /\ queue' = [queue EXCEPT ![d] = Tail(@)]
            /\ transferred' = [transferred EXCEPT ![NextTransaction(d)] = 0]
         \/ /\ NextTransaction(d) = curr[d]
            /\ UNCHANGED <<curr, queue, transferred>>
<1>1. queue[d] \in Seq(Trans)
  BY DEF TypeOK, ListsTyped
<1>2. queue[d] # << >> => Head(queue[d]) \in Trans
  BY <1>1, TailMeans
<1> QED BY <1>2 DEF LoadNextTransaction, NextTransaction

LEMMA LoadType ==
  ASSUME TypeOK, NEW d \in Dirs, LoadNextTransaction(d)
  PROVE  /\ curr' \in [Dirs -> Trans \cup {NoTrans}] /\ queue' \in [Dirs -> Seq(Trans)]
         /\ transferred' \in [Trans -> 0 .. Length]
         /\ NextTransaction(d) \in Trans \cup {NoTrans}
<1>1. 0 \in 0 .. Length
  BY Constants
<1>2. queue[d] # << >> => Tail(queue[d]) \in Seq(Trans)
  BY TailMeans DEF TypeOK, ListsTyped
<1>3. curr[d] \in Trans \cup {NoTrans}
  BY DEF TypeOK, ListsTyped
<1> QED BY <1>1, <1>2, <1>3, LoadMeans DEF TypeOK, ListsTyped, TransTyped

\* CommitTransaction adds no more than what is left, and takes the transaction out when
\* nothing is.
LEMMA CommitMeans ==
  ASSUME TypeOK, TransferInv, NEW d \in Dirs, driver[d].pc = "loaded",
         NEW len \in 1 .. Length, len <= driver[d].len, NEW force, CommitSection(d, len, force)
  PROVE  /\ transferred' \in [Trans -> 0 .. Length]
         /\ \/ /\ curr[d] = NoTrans /\ Detached(d) = NoTrans
               /\ UNCHANGED <<curr, transferred>>
            \/ /\ curr[d] \in Trans /\ Detached(d) = NoTrans
               /\ UNCHANGED curr
               /\ transferred'[curr[d]] < Length
               /\ \A t \in Trans \ {curr[d]} : transferred'[t] = transferred[t]
            \/ /\ curr[d] \in Trans /\ Detached(d) = curr[d]
               /\ curr' = [curr EXCEPT ![d] = NoTrans]
               /\ \A t \in Trans \ {curr[d]} : transferred'[t] = transferred[t]
<1>1. curr \in [Dirs -> Trans \cup {NoTrans}] /\ transferred \in [Trans -> 0 .. Length]
  BY DEF TypeOK, ListsTyped, TransTyped
<1>2. CASE curr[d] = NoTrans
  BY <1>1, <1>2 DEF CommitSection, Detached
<1>3. CASE curr[d] # NoTrans
  <2> DEFINE c == curr[d]
             n == transferred[c] + len
  <2>1. c \in Trans /\ driver[d].len \in 0 .. Length /\ transferred[c] + driver[d].len = Length
    BY <1>1, <1>3 DEF TypeOK, ThreadsTyped, DriverStates, TransferInv
  <2>2. n \in 0 .. Length
    BY <1>1, <2>1, Constants
  <2>3. transferred' = [transferred EXCEPT ![c] = n]
    BY <1>3 DEF CommitSection
  <2>4. curr' = IF force \/ transferred'[c] >= Length THEN [curr EXCEPT ![d] = NoTrans] ELSE curr
    BY <1>3 DEF CommitSection
  <2> HIDE DEF n
  <2>5. transferred'[c] = n /\ transferred' \in [Trans -> 0 .. Length]
        /\ \A t \in Trans \ {c} : transferred'[t] = transferred[t]
    BY <1>1, <2>1, <2>2, <2>3
  <2>6. CASE force \/ transferred'[c] >= Length
    BY <1>1, <1>3, <2>1, <2>4, <2>5, <2>6 DEF Detached
  <2>7. CASE ~(force \/ transferred'[c] >= Length)
    <3>1. transferred'[c] < Length
      BY <2>2, <2>5, <2>7, Constants
    <3> QED BY <1>1, <1>3, <2>1, <2>4, <2>5, <2>7, <3>1 DEF Detached
  <2> QED BY <2>6, <2>7
<1> QED BY <1>2, <1>3

-----------------------------------------------------------------------------
(* The invariant, part by part.                                            *)

LEMMA Cleared ==
  /\ IdleDriver \in DriverStates /\ IdlePurger \in PurgerStates /\ NoReader \in ReaderStates
  /\ IdlePurger.purged = << >> /\ IdlePurger.flushed = NoTrans /\ IdlePurger.pc = "idle"
  /\ IdleDriver.pc = "idle" /\ NoReader.pc = "none"
  BY Constants DEF IdleDriver, IdlePurger, NoReader, DriverStates, PurgerStates, ReaderStates, Dirs

LEMMA TypeInit == Init => TypeOK
<1> SUFFICES ASSUME Init PROVE TypeOK
  OBVIOUS
<1>1. ListsTyped
  <2>1. freeQueue \in Seq(PoolTrans)
    BY Constants, OnceOnto DEF Init, BufInit
  <2> QED BY <2>1 DEF Init, BufInit, ListsTyped
<1>2. TransTyped
  <2>1. 0 \in 0 .. Length /\ 0 \in (-HalfRange - 1) .. (HalfRange - 1) /\ 0 \in Time
    BY Constants DEF Time
  <2> QED BY <2>1 DEF Init, BufInit, TransTyped, Places
<1>3. ThreadsTyped
  BY Cleared DEF Init, BufInit, UdpInit, ThreadsTyped
<1> QED BY <1>1, <1>2, <1>3 DEF TypeOK

LEMMA TypeKept == TypeOK /\ ThreadsInv /\ TransferInv /\ [Next]_allVars => TypeOK'
<1> SUFFICES ASSUME TypeOK, ThreadsInv, TransferInv, [Next]_allVars PROVE TypeOK'
  OBVIOUS
<1> USE DEF TypeOK, listVars, transVars
<1>1. ASSUME UNCHANGED allVars PROVE TypeOK'
  BY <1>1 DEF allVars, vars, udpVars, ListsTyped, TransTyped, ThreadsTyped
<1>2. ASSUME NEW t \in Trans, NEW cb \in {"free", "app"}, MallocWithPayload(t, cb), UNCHANGED udpVars
      PROVE  TypeOK'
  <2>1. place' \in [Trans -> Places]
    BY <1>2 DEF MallocWithPayload, TransTyped, Places
  <2>2. TransTyped'
    BY <1>2, <2>1, InitTransactionType DEF MallocWithPayload, TransTyped
  <2> QED BY <1>2, <2>2 DEF MallocWithPayload, ListsTyped, ThreadsTyped, udpVars
<1>3. ASSUME AllocAndInitTransaction, UNCHANGED udpVars PROVE TypeOK'
  <2>1. Head(freeQueue) \in PoolTrans /\ Tail(freeQueue) \in Seq(PoolTrans)
    BY <1>3, TailMeans DEF AllocAndInitTransaction, ListsTyped
  <2>2. Head(freeQueue) \in Trans
    BY <2>1, Constants
  <2>3. place' \in [Trans -> Places]
    BY <1>3 DEF AllocAndInitTransaction, TransTyped, Places
  <2>4. TransTyped'
    BY <1>3, <2>2, <2>3, InitTransactionType DEF AllocAndInitTransaction, TransTyped
  <2>5. ListsTyped'
    BY <1>3, <2>1 DEF AllocAndInitTransaction, ListsTyped
  <2> QED BY <1>3, <2>4, <2>5 DEF AllocAndInitTransaction, ThreadsTyped, udpVars
<1>4. ASSUME NEW t \in PoolTrans, FreeTransaction(t), UNCHANGED udpVars PROVE TypeOK'
  <2>1. Append(freeQueue, t) \in Seq(PoolTrans)
    BY <1>4 DEF ListsTyped
  <2>2. place' \in [Trans -> Places]
    BY <1>4 DEF FreeTransaction, TransTyped, Places
  <2>3. TransTyped'
    BY <1>4, <2>2 DEF FreeTransaction, TransTyped
  <2>4. ListsTyped'
    BY <1>4, <2>1 DEF FreeTransaction, ListsTyped
  <2> QED BY <1>4, <2>3, <2>4 DEF FreeTransaction, ThreadsTyped, udpVars
<1>5. ASSUME NEW t \in Trans, NEW d \in Dirs, NEW timeout \in Timeouts, Queue(t, d, timeout),
             UNCHANGED udpVars
      PROVE  TypeOK'
  BY <1>5, EnqueueType DEF Queue, ListsTyped, TransTyped, ThreadsTyped, udpVars
<1>6. ASSUME NEW t \in HeapTrans, Write(t), UNCHANGED udpVars PROVE TypeOK'
  <2>1. t \in Trans /\ TX \in Dirs /\ 0 \in 0 .. Length
    BY Constants
  <2>2. callback' \in [Trans -> {"free", "app"}] /\ transferred' \in [Trans -> 0 .. Length]
    BY <1>6, <2>1 DEF Write, TransTyped
  <2> QED
    BY <1>6, <2>1, <2>2, EnqueueType DEF Write, ListsTyped, TransTyped, ThreadsTyped, udpVars
<1>7. ASSUME Destroy, UNCHANGED udpVars PROVE TypeOK'
  BY <1>7 DEF Destroy, ListsTyped, TransTyped, ThreadsTyped, udpVars
<1>8. ASSUME Tick, UNCHANGED udpVars PROVE TypeOK'
  <2>1. now' \in Time
    <3> DEFINE M == 2 * HalfRange
               a == now + 1
    <3>1. M \in Nat \ {0} /\ a \in Int /\ 0 <= a /\ a < 2 * M
      BY Constants, ClockRange DEF TransTyped
    <3>2. a % M = IF a < M THEN a ELSE a - M
      BY <3>1, WrapOnce
    <3>3. a % M \in Int /\ 0 <= a % M /\ a % M < M
      BY <3>1, <3>2
    <3> QED BY <1>8, <3>3, ClockRange DEF Tick
  <2>2. left' \in [Trans -> (-HalfRange - 1) .. (HalfRange - 1)]
    <3> DEFINE D == (-HalfRange - 1) .. (HalfRange - 1)
    <3>1. ASSUME NEW t \in Trans PROVE left[t] \in D
      BY DEF TransTyped
    <3>2. \A n \in D : n >= -HalfRange => n - 1 \in D
      BY Constants
    <3> HIDE DEF D
    <3>3. left' \in [Trans -> D]
      BY <1>8, <3>1, <3>2 DEF Tick
    <3> QED BY <3>3 DEF D
  <2> QED BY <1>8, <2>1, <2>2 DEF Tick, ListsTyped, TransTyped, ThreadsTyped, udpVars
<1>9. ASSUME NEW d \in Dirs, DriverLoad(d), UNCHANGED udpVars PROVE TypeOK'
  <2>1. LoadNextTransaction(d) /\ NextTransaction(d) # NoTrans
    BY <1>9 DEF DriverLoad
  <2>2. ListsTyped' /\ TransTyped' /\ NextTransaction(d) \in Trans
    BY <1>9, <2>1, LoadType DEF DriverLoad, ListsTyped, TransTyped
  <2> DEFINE len == Length - transferred'[NextTransaction(d)]
  <2>3. len \in 0 .. Length
    <3>1. transferred'[NextTransaction(d)] \in 0 .. Length
      BY <2>2 DEF TransTyped
    <3> QED BY <3>1, Constants
  <2>4. driver' = [driver EXCEPT ![d] = [pc |-> "loaded", trans |-> NextTransaction(d), len |-> len]]
    BY <1>9 DEF DriverLoad
  <2> HIDE DEF len
  <2>5. driver' \in [Dirs -> DriverStates]
    BY <2>2, <2>3, <2>4 DEF ThreadsTyped, DriverStates
  <2> QED BY <1>9, <2>2, <2>5 DEF DriverLoad, ThreadsTyped, udpVars
<1>10. ASSUME NEW d \in Dirs, NEW len \in 1 .. Length, NEW force \in BOOLEAN,
              DriverCommit(d, len, force), UNCHANGED udpVars
       PROVE  TypeOK'
  <2>1. driver[d].pc = "loaded" /\ len <= driver[d].len /\ CommitSection(d, len, force)
    BY <1>10 DEF DriverCommit
  <2>2. transferred' \in [Trans -> 0 .. Length] /\ Detached(d) \in Trans \cup {NoTrans}
        /\ curr' \in [Dirs -> Trans \cup {NoTrans}]
    BY <2>1, CommitMeans DEF ListsTyped
  <2>3. 0 \in 0 .. Length
    BY Constants
  <2>4. [pc |-> "callback", trans |-> Detached(d), len |-> 0] \in DriverStates
    BY <2>2, <2>3 DEF DriverStates
  <2>5. driver' \in [Dirs -> DriverStates]
    BY <1>10, <2>4, Cleared DEF DriverCommit, ThreadsTyped
  <2> QED BY <1>10, <2>2, <2>5 DEF DriverCommit, ListsTyped, TransTyped, ThreadsTyped, udpVars
<1>11. ASSUME NEW d \in Dirs, DriverCallback(d), UNCHANGED udpVars PROVE TypeOK'
  <2>1. driver[d].trans \in Trans /\ CompletedCb(driver[d].trans)
    BY <1>11 DEF DriverCallback, ThreadsInv, ThreadsTyped, DriverStates
  <2>2. TransTyped'
    BY <1>11, <2>1, CompletedCbType DEF DriverCallback, TransTyped
  <2> QED BY <1>11, <2>2, Cleared DEF DriverCallback, ListsTyped, ThreadsTyped, udpVars
<1>12. ASSUME NEW d \in Dirs, NEW all \in BOOLEAN, PurgeOldMessages(d, all), UNCHANGED udpVars
       PROVE  TypeOK'
  <2> DEFINE old == {t \in Trans : all \/ TransactionIsExpired(t)}
  <2>1. queue' = [queue EXCEPT ![d] = Without(@, old)]
        /\ purger' = [pc |-> "test", dir |-> d, all |-> all,
                      purged |-> Without(queue[d], Trans \ old), flushed |-> NoTrans]
    BY <1>12 DEF PurgeOldMessages
  <2> HIDE DEF old
  <2>2. Without(queue[d], old) \in Seq(Trans) /\ Without(queue[d], Trans \ old) \in Seq(Trans)
    BY WithoutMeans DEF ListsTyped
  <2>3. ListsTyped'
    BY <1>12, <2>1, <2>2 DEF PurgeOldMessages, ListsTyped
  <2>4. purger' \in PurgerStates
    BY <2>1, <2>2 DEF PurgerStates
  <2> QED BY <1>12, <2>3, <2>4 DEF PurgeOldMessages, TransTyped, ThreadsTyped, udpVars
<1>23. ASSUME NEW d \in Dirs, FlushActive(d), UNCHANGED udpVars PROVE TypeOK'
  <2>1. purger' \in PurgerStates
    BY <1>23, Cleared DEF FlushActive, PurgerStates
  <2> QED BY <1>23, <2>1 DEF FlushActive, ListsTyped, TransTyped, ThreadsTyped, udpVars
<1>13. ASSUME PurgeTest, UNCHANGED udpVars PROVE TypeOK'
  <2>1. purger' \in PurgerStates
    BY <1>13 DEF PurgeTest, ThreadsTyped, PurgerStates
  <2> QED BY <1>13, <2>1 DEF PurgeTest, ListsTyped, TransTyped, ThreadsTyped, udpVars
<1>14. ASSUME FlushActiveTransaction, UNCHANGED udpVars PROVE TypeOK'
  <2>1. purger.dir \in Dirs /\ curr[purger.dir] \in Trans \cup {NoTrans}
    BY DEF ListsTyped, ThreadsTyped, PurgerStates
  <2>2. purger' \in PurgerStates /\ ListsTyped'
    BY <1>14, <2>1 DEF FlushActiveTransaction, ThreadsTyped, PurgerStates, ListsTyped
  <2> QED BY <1>14, <2>2 DEF FlushActiveTransaction, TransTyped, ThreadsTyped, udpVars
<1>15. ASSUME FlushCallback, UNCHANGED udpVars PROVE TypeOK'
  <2>1. purger.flushed \in Trans /\ CompletedCb(purger.flushed)
    BY <1>15 DEF FlushCallback, ThreadsInv, ThreadsTyped, PurgerStates
  <2>2. TransTyped'
    BY <1>15, <2>1, CompletedCbType DEF FlushCallback, TransTyped
  <2>3. purger' \in PurgerStates
    BY <1>15 DEF FlushCallback, ThreadsTyped, PurgerStates
  <2> QED BY <1>15, <2>2, <2>3 DEF FlushCallback, ListsTyped, ThreadsTyped, udpVars
<1>16. ASSUME PurgeDrain, UNCHANGED udpVars PROVE TypeOK'
  <2>1. CASE purger.purged = << >>
    BY <1>16, <2>1, Cleared DEF PurgeDrain, ListsTyped, TransTyped, ThreadsTyped, udpVars
  <2>2. CASE purger.purged # << >>
    <3>1. Head(purger.purged) \in Trans /\ Tail(purger.purged) \in Seq(Trans)
      BY <2>2, TailMeans DEF ThreadsTyped, PurgerStates
    <3>2. CompletedCb(Head(purger.purged)) /\ purger' = [purger EXCEPT !.purged = Tail(@)]
      BY <1>16, <2>2 DEF PurgeDrain
    <3>3. TransTyped'
      BY <1>16, <3>1, <3>2, CompletedCbType DEF PurgeDrain, TransTyped
    <3>4. purger' \in PurgerStates
      BY <3>1, <3>2 DEF ThreadsTyped, PurgerStates
    <3> QED BY <1>16, <3>3, <3>4 DEF PurgeDrain, ListsTyped, ThreadsTyped, udpVars
  <2> QED BY <2>1, <2>2
<1>17. ASSUME NEW t \in Trans, NEW ok \in BOOLEAN, NEW r \in Readers, UdpQueueWrite(t, ok, r)
       PROVE  TypeOK'
  <2>1. TransTyped'
    BY <1>17, CompletedCbType DEF UdpQueueWrite, TransTyped
  <2>2. reader' \in [Readers -> ReaderStates] /\ net' \in Nat
    BY <1>17 DEF UdpQueueWrite, ThreadsTyped, ReaderStates
  <2> QED BY <1>17, <2>1, <2>2 DEF UdpQueueWrite, ListsTyped, ThreadsTyped
<1>18. ASSUME NEW r \in Readers, ReaderLoad(r) PROVE TypeOK'
  <2>1. LoadNextTransaction(RX) /\ RX \in Dirs
    BY <1>18, Constants DEF ReaderLoad
  <2>2. ListsTyped' /\ TransTyped' /\ NextTransaction(RX) \in Trans \cup {NoTrans}
    BY <1>18, <2>1, LoadType DEF ReaderLoad, ListsTyped, TransTyped
  <2>3. [pc |-> "recv", trans |-> NextTransaction(RX)] \in ReaderStates
    BY <2>2 DEF ReaderStates
  <2>4. reader' \in [Readers -> ReaderStates]
    BY <1>18, <2>3, Cleared DEF ReaderLoad, ThreadsTyped
  <2> QED BY <1>18, <2>2, <2>4 DEF ReaderLoad, ThreadsTyped
<1>19. ASSUME NEW r \in Readers, ReaderReceive(r) PROVE TypeOK'
  <2>1. reader' \in [Readers -> ReaderStates] /\ net' \in Nat
    BY <1>19 DEF ReaderReceive, ThreadsTyped, ReaderStates
  <2> QED BY <1>19, <2>1 DEF ReaderReceive, vars, ListsTyped, TransTyped, ThreadsTyped
<1>20. ASSUME NEW r \in Readers, ReaderCommit(r) PROVE TypeOK'
  <2>1. TransTyped'
    <3>1. CASE curr[RX] = NoTrans
      BY <1>20, <3>1 DEF ReaderCommit, TransTyped
    <3>2. CASE curr[RX] # NoTrans
      <4>1. curr[RX] \in Trans /\ CompletedCb(curr[RX])
        BY <1>20, <3>2, Constants DEF ReaderCommit, ListsTyped
      <4> QED BY <1>20, <4>1, CompletedCbType DEF ReaderCommit, TransTyped
    <3> QED BY <3>1, <3>2
  <2> QED BY <1>20, <2>1, Cleared DEF ReaderCommit, ListsTyped, ThreadsTyped
<1>21. ASSUME Lose PROVE TypeOK'
  <2>1. net' \in Nat
    BY <1>21 DEF Lose, ThreadsTyped
  <2> QED BY <1>21, <2>1 DEF Lose, vars, ListsTyped, TransTyped, ThreadsTyped
<1>22. UsedDirs \subseteq Dirs /\ HeapTrans \subseteq Trans /\ DriverDirs \subseteq Dirs
  BY Constants DEF UsedDirs
<1> QED
  BY <1>1, <1>2, <1>3, <1>4, <1>5, <1>6, <1>7, <1>8, <1>9, <1>10, <1>11, <1>12, <1>13, <1>14,
     <1>15, <1>16, <1>17, <1>18, <1>19, <1>20, <1>21, <1>22, <1>23, Zenon
     DEF Next, UdpNext, SerialNext, PurgeNext, AppNext, Driver, PurgeStep, ReaderStep

-----------------------------------------------------------------------------
(* Who holds what: every step moves a set of transactions from one hand to *)
(* another, or between a hand and the application.                         *)

QueueHand(d) == IF d = TX THEN "queueTX" ELSE "queueRX"
CurrHand(d) == IF d = TX THEN "currTX" ELSE "currRX"
DriverHand(d) == IF d = TX THEN "driverTX" ELSE "driverRX"
Owner(p) == IF p \in {"heap", "app"} THEN "app" ELSE p
OwnerIn(h) == IF h \in {"app", "pool"} THEN h ELSE "queue"

Moves(S, a, b) ==
  /\ \A t \in S : IF a = "app" THEN Owner(place[t]) = "app" ELSE InHand(a, t)
  /\ \A t \in Trans, h \in Hands :
       InHand(h, t)' <=> (InHand(h, t) /\ ~(h = a /\ t \in S)) \/ (h = b /\ t \in S)
  /\ \A t \in Trans \ S : Owner(place'[t]) = Owner(place[t])
  /\ \A t \in S : Owner(place'[t]) = OwnerIn(b)

\* Nothing changes hands.
Rests == Moves({}, "app", "app")

LEMMA MovesKeep ==
  ASSUME HandsInv, TypeOK, TypeOK', NEW S \in SUBSET Trans,
         NEW a \in Hands \cup {"app"}, NEW b \in Hands \cup {"app"}, Moves(S, a, b)
  PROVE  HandsInv'
<1> SUFFICES ASSUME NEW t \in Trans PROVE HeldOnce(t)'
  BY DEF HandsInv
<1>1. HeldOnce(t)
  BY DEF HandsInv
<1>2. place[t] \in Places /\ place'[t] \in Places
  BY DEF TypeOK, TransTyped
<1>3. "app" \notin Hands /\ "pool" \in Hands
  BY DEF Hands
<1>4. Owner(place[t]) = "app" <=> \A h \in Hands : ~InHand(h, t)
  BY <1>1, <1>2 DEF HeldOnce, Owner, Places
<1>5. Owner(place[t]) = "pool" <=> InHand("pool", t)
  BY <1>1, <1>2 DEF HeldOnce, Owner, Places
<1>6. \A g, h \in Hands : InHand(g, t) /\ InHand(h, t) => g = h
  BY <1>1 DEF HeldOnce
<1>7. \A h \in Hands :
        InHand(h, t)' <=> (InHand(h, t) /\ ~(h = a /\ t \in S)) \/ (h = b /\ t \in S)
  BY DEF Moves
<1>8. CASE t \in S
  <2>1. \A h \in Hands : InHand(h, t)' <=> h = b
    <3>1. IF a = "app" THEN Owner(place[t]) = "app" ELSE InHand(a, t)
      BY <1>8 DEF Moves
    <3> QED BY <1>4, <1>6, <1>7, <1>8, <3>1
  <2>2. Owner(place'[t]) = OwnerIn(b)
    BY <1>8 DEF Moves
  <2>3. CASE b = "app"
    <3>1. place'[t] \in {"heap", "app"}
      BY <1>2, <2>2, <2>3 DEF Owner, OwnerIn, Places
    <3> QED BY <1>3, <2>1, <2>3, <3>1 DEF HeldOnce
  <2>4. CASE b = "pool"
    <3>1. place'[t] = "pool"
      BY <1>2, <2>2, <2>4 DEF Owner, OwnerIn, Places
    <3> QED BY <1>3, <2>1, <2>4, <3>1 DEF HeldOnce
  <2>5. CASE b \notin {"app", "pool"}
    <3>1. place'[t] = "queue"
      BY <1>2, <2>2, <2>5 DEF Owner, OwnerIn, Places
    <3>2. b \in Hands
      BY <2>5
    <3> QED BY <1>3, <2>1, <2>5, <3>1, <3>2 DEF HeldOnce
  <2> QED BY <2>3, <2>4, <2>5
<1>9. CASE t \notin S
  <2>1. \A h \in Hands : InHand(h, t)' <=> InHand(h, t)
    BY <1>7, <1>9
  <2>2. Owner(place'[t]) = Owner(place[t])
    BY <1>9 DEF Moves
  <2>3. /\ place'[t] \in {"queue", "pool"} <=> place[t] \in {"queue", "pool"}
        /\ place'[t] = "pool" <=> place[t] = "pool"
    BY <1>2, <2>2 DEF Owner, Places
  <2> QED BY <1>1, <1>3, <2>1, <2>3 DEF HeldOnce
<1> QED BY <1>8, <1>9

\* The hands one by one.
LEMMA HandMeans ==
  ASSUME NEW t \in Trans
  PROVE  /\ InHand("queueTX", t) <=> t \in Elements(queue[TX])
         /\ InHand("queueRX", t) <=> t \in Elements(queue[RX])
         /\ InHand("currTX", t) <=> t = curr[TX]
         /\ InHand("currRX", t) <=> t = curr[RX]
         /\ InHand("driverTX", t) <=> driver[TX].pc = "callback" /\ t = driver[TX].trans
         /\ InHand("driverRX", t) <=> driver[RX].pc = "callback" /\ t = driver[RX].trans
         /\ InHand("purged", t) <=> t \in Elements(purger.purged)
         /\ InHand("flushed", t) <=> t = purger.flushed
         /\ InHand("pool", t) <=> t \in Elements(freeQueue)
  BY DEF InHand

LEMMA HandMeansNext ==
  ASSUME NEW t \in Trans
  PROVE  /\ InHand("queueTX", t)' <=> t \in Elements(queue'[TX])
         /\ InHand("queueRX", t)' <=> t \in Elements(queue'[RX])
         /\ InHand("currTX", t)' <=> t = curr'[TX]
         /\ InHand("currRX", t)' <=> t = curr'[RX]
         /\ InHand("driverTX", t)' <=> driver'[TX].pc = "callback" /\ t = driver'[TX].trans
         /\ InHand("driverRX", t)' <=> driver'[RX].pc = "callback" /\ t = driver'[RX].trans
         /\ InHand("purged", t)' <=> t \in Elements(purger'.purged)
         /\ InHand("flushed", t)' <=> t = purger'.flushed
         /\ InHand("pool", t)' <=> t \in Elements(freeQueue')
  BY DEF InHand

\* A step that leaves all of them alone, wherever else it goes.
LEMMA RestsIf ==
  ASSUME UNCHANGED <<queue, curr, freeQueue>>,
         \A d \in Dirs : IF driver[d].pc = "callback" THEN driver'[d] = driver[d]
                         ELSE driver'[d].pc # "callback",
         purger'.purged = purger.purged, purger'.flushed = purger.flushed,
         \A t \in Trans : Owner(place'[t]) = Owner(place[t])
  PROVE  Rests
<1> SUFFICES ASSUME NEW t \in Trans, NEW h \in Hands PROVE InHand(h, t)' <=> InHand(h, t)
  BY DEF Rests, Moves
<1> QED BY HandMeans, HandMeansNext, Constants DEF Hands

LEMMA RestsAll ==
  ASSUME UNCHANGED <<queue, curr, freeQueue, place, driver>>,
         purger'.purged = purger.purged, purger'.flushed = purger.flushed
  PROVE  Rests
<1>1. \A d \in Dirs : IF driver[d].pc = "callback" THEN driver'[d] = driver[d]
                      ELSE driver'[d].pc # "callback"
  OBVIOUS
<1> QED BY <1>1, RestsIf

LEMMA OwnerOfHeld ==
  ASSUME TypeOK, HandsInv, NEW t \in Trans, NEW h \in Hands, InHand(h, t)
  PROVE  place[t] = OwnerIn(h)
<1>1. HeldOnce(t) /\ place[t] \in {"queue", "pool"} /\ h # "app" /\ "pool" \in Hands
  BY DEF HandsInv, HeldOnce, Hands
<1> QED BY <1>1 DEF HeldOnce, OwnerIn

LEMMA HeldByNone ==
  ASSUME TypeOK, HandsInv, NEW t \in Trans, place[t] \in {"heap", "app"}, NEW h \in Hands
  PROVE  ~InHand(h, t)
  BY DEF HandsInv, HeldOnce

LEMMA EnqueueMoves ==
  ASSUME TypeOK, NEW x \in Trans, NEW d \in Dirs, NEW timeout \in Timeouts \cup {Infinite},
         Owner(place[x]) = "app", Enqueue(x, d, timeout),
         UNCHANGED <<curr, freeQueue, driver, purger>>
  PROVE  Moves({x}, "app", QueueHand(d))
<1>1. queue[d] \in Seq(Trans) /\ queue' = [queue EXCEPT ![d] = Append(@, x)]
  BY DEF TypeOK, ListsTyped, Enqueue
<1>2. Elements(Append(queue[d], x)) = Elements(queue[d]) \cup {x}
  BY <1>1, AppendMeans
<1>3. Elements(queue'[d]) = Elements(queue[d]) \cup {x} /\ \A e \in Dirs \ {d} : queue'[e] = queue[e]
  BY <1>1, <1>2 DEF TypeOK, ListsTyped
<1>4. \A t \in Trans : place'[t] = IF t = x THEN "queue" ELSE place[t]
  BY DEF Enqueue, TypeOK, TransTyped
<1>5. ASSUME NEW t \in Trans, NEW h \in Hands
      PROVE  InHand(h, t)' <=> InHand(h, t) \/ (h = QueueHand(d) /\ t = x)
  BY <1>3, HandMeans, HandMeansNext DEF Hands, Dirs, QueueHand, TX, RX
<1>6. "app" \notin Hands
  BY DEF Hands
<1> QED BY <1>4, <1>5, <1>6 DEF Moves, Owner, OwnerIn, QueueHand

\* The current pointer is loaded: the head of the queue moves.
LEMMA LoadMoves ==
  ASSUME TypeOK, HandsInv, ListsInv, NEW d \in Dirs, LoadNextTransaction(d),
         UNCHANGED <<freeQueue, place, purger>>,
         \A e \in Dirs : IF driver[e].pc = "callback" THEN driver'[e] = driver[e]
                         ELSE driver'[e].pc # "callback"
  PROVE  Rests \/ Moves({NextTransaction(d)}, QueueHand(d), CurrHand(d))
<1>1. CASE UNCHANGED <<curr, queue, transferred>>
  BY <1>1, RestsIf
<1>2. CASE ~UNCHANGED <<curr, queue, transferred>>
  <2> DEFINE x == NextTransaction(d)
  <2>1. /\ curr[d] = NoTrans /\ queue[d] # << >> /\ x = Head(queue[d]) /\ x \in Trans
        /\ curr' = [curr EXCEPT ![d] = x] /\ queue' = [queue EXCEPT ![d] = Tail(@)]
    BY <1>2, LoadMeans
  <2> HIDE DEF x
  <2>2. x \in Elements(queue[d]) /\ Elements(Tail(queue[d])) = Elements(queue[d]) \ {x}
    BY <2>1, TailMeans DEF TypeOK, ListsTyped, ListsInv
  <2>3. /\ Elements(queue'[d]) = Elements(queue[d]) \ {x} /\ curr'[d] = x
        /\ \A e \in Dirs \ {d} : queue'[e] = queue[e] /\ curr'[e] = curr[e]
    BY <2>1, <2>2 DEF TypeOK, ListsTyped
  <2>4. ASSUME NEW t \in Trans, NEW h \in Hands
        PROVE  InHand(h, t)' <=> (InHand(h, t) /\ ~(h = QueueHand(d) /\ t = x))
                                 \/ (h = CurrHand(d) /\ t = x)
    BY <2>1, <2>3, HandMeans, HandMeansNext, Constants
       DEF Hands, Dirs, QueueHand, CurrHand, TX, RX
  <2>5. InHand(QueueHand(d), x)
    BY <2>1, <2>2, HandMeans DEF QueueHand, Dirs
  <2>6. place[x] = "queue"
    BY <2>1, <2>5, OwnerOfHeld DEF QueueHand, Hands, OwnerIn
  <2>7. Moves({x}, QueueHand(d), CurrHand(d))
    BY <2>4, <2>5, <2>6 DEF Moves, Owner, OwnerIn, QueueHand, CurrHand
  <2> QED BY <2>7 DEF x
<1> QED BY <1>1, <1>2

\* completedCb takes t out of the hand it is in, and gives it to the application.
LEMMA CompletedCbOwner ==
  ASSUME TypeOK, NEW x \in Trans, CompletedCb(x)
  PROVE  /\ Owner(place'[x]) = "app"
         /\ \A t \in Trans \ {x} : place'[t] = place[t]
  BY DEF CompletedCb, HandedBack, TypeOK, TransTyped, Owner

LEMMA StepMoves ==
  ASSUME UdpInv, UdpInv => TypeOK', Next
  PROVE  \E S \in SUBSET Trans, a, b \in Hands \cup {"app"} : Moves(S, a, b)
<1> DEFINE Moved == \E S \in SUBSET Trans, a, b \in Hands \cup {"app"} : Moves(S, a, b)
<1>0. /\ TypeOK /\ HandsInv /\ ListsInv /\ ThreadsInv /\ TransferInv
      /\ Rests => Moved
      /\ \A S \in SUBSET Trans : \A a, b \in Hands \cup {"app"} : Moves(S, a, b) => Moved
      /\ \A x \in Trans : \A a, b \in Hands \cup {"app"} : Moves({x}, a, b) => Moved
      /\ \A d \in Dirs : {QueueHand(d), CurrHand(d), DriverHand(d)} \subseteq Hands
      /\ {"purged", "flushed", "pool"} \subseteq Hands
      /\ NoTrans \notin Trans /\ PoolTrans \subseteq Trans /\ HeapTrans \subseteq Trans
      /\ TX \in Dirs /\ RX \in Dirs
  BY Constants DEF UdpInv, Rests, Hands, QueueHand, CurrHand, DriverHand
<1> HIDE DEF Moved
<1> USE DEF listVars, transVars
<1>1. ASSUME NEW t \in Trans, NEW cb \in {"free", "app"}, MallocWithPayload(t, cb) PROVE Moved
  <2>1. \A x \in Trans : Owner(place'[x]) = Owner(place[x])
    BY <1>0, <1>1 DEF MallocWithPayload, Owner, TypeOK, TransTyped
  <2> QED BY <1>0, <1>1, <2>1, RestsIf DEF MallocWithPayload
<1>2. ASSUME AllocAndInitTransaction PROVE Moved
  <2> DEFINE x == Head(freeQueue)
  <2>1. freeQueue # << >> /\ freeQueue \in Seq(PoolTrans) /\ freeQueue' = Tail(freeQueue)
        /\ place' = [place EXCEPT ![x] = "app"] /\ UNCHANGED <<queue, curr, driver, purger>>
    BY <1>0, <1>2 DEF AllocAndInitTransaction, TypeOK, ListsTyped
  <2>2. x \in Elements(freeQueue) /\ x \in Trans /\ Elements(freeQueue') = Elements(freeQueue) \ {x}
    BY <1>0, <2>1, TailMeans DEF ListsInv
  <2> HIDE DEF x
  <2>3. ASSUME NEW t \in Trans, NEW h \in Hands
        PROVE  InHand(h, t)' <=> InHand(h, t) /\ ~(h = "pool" /\ t = x)
    BY <2>1, <2>2, HandMeans, HandMeansNext DEF Hands
  <2>4. Owner(place'[x]) = "app" /\ \A t \in Trans \ {x} : place'[t] = place[t]
    BY <1>0, <2>1, <2>2 DEF TypeOK, TransTyped, Owner
  <2>5. InHand("pool", x)
    BY <2>2, HandMeans
  <2>6. Moves({x}, "pool", "app")
    <3>1. "app" \notin Hands
      BY DEF Hands
    <3> QED BY <2>3, <2>4, <2>5, <3>1 DEF Moves, OwnerIn
  <2> QED BY <1>0, <2>2, <2>6
<1>3. ASSUME NEW x \in PoolTrans, FreeTransaction(x) PROVE Moved
  <2>1. place[x] = "app" /\ freeQueue' = Append(freeQueue, x) /\ freeQueue \in Seq(PoolTrans)
        /\ place' = [place EXCEPT ![x] = "pool"] /\ UNCHANGED <<queue, curr, driver, purger>>
    BY <1>0, <1>3 DEF FreeTransaction, TypeOK, ListsTyped
  <2>2. Elements(freeQueue') = Elements(freeQueue) \cup {x} /\ x \in Trans
    BY <1>0, <2>1, AppendMeans
  <2>3. ASSUME NEW t \in Trans, NEW h \in Hands
        PROVE  InHand(h, t)' <=> InHand(h, t) \/ (h = "pool" /\ t = x)
    BY <2>1, <2>2, HandMeans, HandMeansNext DEF Hands
  <2>4. /\ Owner(place[x]) = "app" /\ Owner(place'[x]) = "pool"
        /\ \A t \in Trans \ {x} : place'[t] = place[t]
    BY <1>0, <2>1, <2>2 DEF TypeOK, TransTyped, Owner
  <2>5. Moves({x}, "app", "pool")
    <3>1. "app" \notin Hands
      BY DEF Hands
    <3> QED BY <2>3, <2>4, <3>1 DEF Moves, OwnerIn
  <2> QED BY <1>0, <2>2, <2>5
<1>4. ASSUME NEW t \in Trans, NEW d \in Dirs, NEW timeout \in Timeouts, Queue(t, d, timeout)
      PROVE  Moved
  <2>1. Owner(place[t]) = "app"
    BY <1>4 DEF Queue, Owner
  <2>2. Moves({t}, "app", QueueHand(d))
    BY <1>0, <1>4, <2>1, EnqueueMoves DEF Queue
  <2> QED BY <1>0, <2>2
<1>5. ASSUME NEW t \in HeapTrans, Write(t) PROVE Moved
  <2>1. Owner(place[t]) = "app"
    BY <1>5 DEF Write, Owner
  <2>2. Moves({t}, "app", QueueHand(TX))
    BY <1>0, <1>5, <2>1, EnqueueMoves DEF Write
  <2> QED BY <1>0, <2>2
<1>6. ASSUME Destroy PROVE Moved
  BY <1>0, <1>6, RestsAll DEF Destroy
<1>7. ASSUME Tick PROVE Moved
  BY <1>0, <1>7, RestsAll DEF Tick
<1>8. ASSUME NEW d \in Dirs, DriverLoad(d) PROVE Moved
  <2>1. driver[d].pc # "callback" /\ driver'[d].pc # "callback"
        /\ \A e \in Dirs \ {d} : driver'[e] = driver[e]
    BY <1>0, <1>8 DEF DriverLoad, TypeOK, ThreadsTyped
  <2>2. \A e \in Dirs : IF driver[e].pc = "callback" THEN driver'[e] = driver[e]
                        ELSE driver'[e].pc # "callback"
    BY <2>1
  <2>3. Rests \/ Moves({NextTransaction(d)}, QueueHand(d), CurrHand(d))
    BY <1>0, <1>8, <2>2, LoadMoves DEF DriverLoad
  <2>4. NextTransaction(d) \in Trans
    BY <1>0, <1>8, LoadType DEF DriverLoad
  <2> QED BY <1>0, <2>3, <2>4
<1>9. ASSUME NEW d \in Dirs, NEW len \in 1 .. Length, NEW force \in BOOLEAN,
             DriverCommit(d, len, force)
      PROVE  Moved
  <2>1. /\ driver[d].pc = "loaded" /\ len <= driver[d].len /\ CommitSection(d, len, force)
        /\ driver' = [driver EXCEPT ![d] =
             IF Detached(d) = NoTrans THEN IdleDriver
             ELSE [pc |-> "callback", trans |-> Detached(d), len |-> 0]]
        /\ UNCHANGED <<queue, freeQueue, place, purger>>
    BY <1>9 DEF DriverCommit
  <2>2. \A e \in Dirs \ {d} : driver'[e] = driver[e]
    BY <1>0, <2>1 DEF TypeOK, ThreadsTyped
  <2>3. CASE Detached(d) = NoTrans
    <3>1. UNCHANGED curr
      BY <1>0, <2>1, <2>3, CommitMeans
    <3>2. driver'[d].pc # "callback"
      BY <1>0, <2>1, <2>3, Cleared DEF TypeOK, ThreadsTyped
    <3>3. \A e \in Dirs : IF driver[e].pc = "callback" THEN driver'[e] = driver[e]
                          ELSE driver'[e].pc # "callback"
      BY <2>1, <2>2, <3>2
    <3> QED BY <1>0, <2>1, <3>1, <3>3, RestsIf
  <2>4. CASE Detached(d) # NoTrans
    <3> DEFINE x == curr[d]
    <3>1. x \in Trans /\ Detached(d) = x /\ curr' = [curr EXCEPT ![d] = NoTrans]
      BY <1>0, <2>1, <2>4, CommitMeans
    <3>2. /\ driver'[d].pc = "callback" /\ driver'[d].trans = x /\ curr'[d] = NoTrans
          /\ \A e \in Dirs \ {d} : curr'[e] = curr[e]
      BY <1>0, <2>1, <2>4, <3>1 DEF TypeOK, ThreadsTyped, ListsTyped
    <3>3. InHand(CurrHand(d), x)
      BY <3>1, HandMeans DEF CurrHand, Dirs
    <3> HIDE DEF x
    <3>4. x = curr[d]
      BY DEF x
    <3>5. ASSUME NEW t \in Trans, NEW h \in Hands
          PROVE  InHand(h, t)' <=> (InHand(h, t) /\ ~(h = CurrHand(d) /\ t = x))
                                   \/ (h = DriverHand(d) /\ t = x)
      BY <1>0, <2>1, <2>2, <3>2, <3>4, HandMeans, HandMeansNext
         DEF Hands, Dirs, CurrHand, DriverHand, TX, RX
    <3>6. place[x] = "queue"
      BY <1>0, <3>1, <3>3, OwnerOfHeld DEF OwnerIn, CurrHand
    <3>7. Moves({x}, CurrHand(d), DriverHand(d))
      BY <2>1, <3>3, <3>5, <3>6 DEF Moves, Owner, OwnerIn, CurrHand, DriverHand
    <3> QED BY <1>0, <3>1, <3>7
  <2> QED BY <2>3, <2>4
<1>10. ASSUME NEW d \in Dirs, DriverCallback(d) PROVE Moved
  <2> DEFINE x == driver[d].trans
  <2>1. /\ driver[d].pc = "callback" /\ CompletedCb(x) /\ x \in Trans
        /\ driver' = [driver EXCEPT ![d] = IdleDriver]
        /\ UNCHANGED <<queue, curr, freeQueue, purger>>
    BY <1>0, <1>10 DEF DriverCallback, ThreadsInv, TypeOK, ThreadsTyped, DriverStates
  <2>2. driver'[d].pc = "idle" /\ \A e \in Dirs \ {d} : driver'[e] = driver[e]
    BY <1>0, <2>1, Cleared DEF TypeOK, ThreadsTyped
  <2>3. InHand(DriverHand(d), x)
    BY <2>1, HandMeans DEF DriverHand, Dirs
  <2> HIDE DEF x
  <2>4. x = driver[d].trans
    BY DEF x
  <2>5. ASSUME NEW t \in Trans, NEW h \in Hands
        PROVE  InHand(h, t)' <=> InHand(h, t) /\ ~(h = DriverHand(d) /\ t = x)
    BY <2>1, <2>2, <2>4, HandMeans, HandMeansNext DEF Hands, Dirs, DriverHand, TX, RX
  <2>6. Owner(place'[x]) = "app" /\ \A t \in Trans \ {x} : place'[t] = place[t]
    BY <1>0, <2>1, CompletedCbOwner
  <2>7. Moves({x}, DriverHand(d), "app")
    <3>1. "app" \notin Hands /\ DriverHand(d) \in Hands
      BY DEF Hands, DriverHand
    <3> QED BY <2>3, <2>5, <2>6, <3>1 DEF Moves, OwnerIn
  <2> QED BY <1>0, <2>1, <2>7
<1>11. ASSUME NEW d \in Dirs, NEW all \in BOOLEAN, PurgeOldMessages(d, all) PROVE Moved
  <2> DEFINE old == {t \in Trans : all \/ TransactionIsExpired(t)}
             S == Elements(queue[d]) \cap old
  <2>1. /\ purger.pc = "idle" /\ queue' = [queue EXCEPT ![d] = Without(@, old)]
        /\ purger'.purged = Without(queue[d], Trans \ old) /\ purger'.flushed = NoTrans
        /\ UNCHANGED <<curr, freeQueue, place, driver>>
    BY <1>11 DEF PurgeOldMessages
  <2> HIDE DEF old
  <2>2. purger.purged = << >> /\ purger.flushed = NoTrans /\ queue[d] \in Seq(Trans)
    BY <1>0, <2>1 DEF ThreadsInv, TypeOK, ListsTyped
  <2>3. /\ Elements(Without(queue[d], old)) = Elements(queue[d]) \ old
        /\ Elements(Without(queue[d], Trans \ old)) = Elements(queue[d]) \ (Trans \ old)
    BY <2>2, WithoutMeans
  <2>4. Elements(queue[d]) \subseteq Trans
    BY <2>2, ElementOfSeq DEF Elements
  <2>5. /\ Elements(queue'[d]) = Elements(queue[d]) \ S /\ Elements(purger'.purged) = S
        /\ \A e \in Dirs \ {d} : queue'[e] = queue[e]
    BY <1>0, <2>1, <2>3, <2>4 DEF TypeOK, ListsTyped
  <2>6. S \in SUBSET Trans /\ S \subseteq Elements(queue[d]) /\ Elements(purger.purged) = {}
    BY <2>2, <2>4 DEF Elements
  <2> HIDE DEF S
  <2>7. ASSUME NEW t \in Trans, NEW h \in Hands
        PROVE  InHand(h, t)' <=> (InHand(h, t) /\ ~(h = QueueHand(d) /\ t \in S))
                                 \/ (h = "purged" /\ t \in S)
    <3>1. /\ t \in Elements(queue'[d]) <=> t \in Elements(queue[d]) /\ t \notin S
          /\ t \in Elements(purger'.purged) <=> t \in S
          /\ ~InHand("purged", t) /\ ~InHand("flushed", t)
      BY <2>2, <2>5, <2>6, HandMeans, Constants
    <3>2. /\ \A g \in {"currTX", "currRX", "driverTX", "driverRX", "pool", "flushed"} :
               InHand(g, t)' <=> InHand(g, t)
          /\ InHand("purged", t)' <=> t \in S
      <4>1. \A g \in {"currTX", "currRX", "driverTX", "driverRX", "pool"} :
              InHand(g, t)' <=> InHand(g, t)
        BY <2>1, HandMeans, HandMeansNext
      <4>2. ~InHand("flushed", t)'
        BY <2>1, HandMeansNext, Constants
      <4>3. InHand("purged", t)' <=> t \in S
        BY <3>1, HandMeansNext
      <4> QED BY <3>1, <4>1, <4>2, <4>3
    <3>3. \A e \in Dirs : InHand(QueueHand(e), t)' <=> InHand(QueueHand(e), t) /\ ~(e = d /\ t \in S)
      BY <2>5, <3>1, HandMeans, HandMeansNext DEF Dirs, QueueHand, TX, RX
    <3>4. CASE h \in {"currTX", "currRX", "driverTX", "driverRX", "pool", "flushed"}
      BY <3>2, <3>4 DEF QueueHand
    <3>5. CASE h = "purged"
      BY <3>1, <3>2, <3>5 DEF QueueHand
    <3>6. ASSUME NEW e \in Dirs, h = QueueHand(e)
          PROVE  InHand(h, t)' <=> (InHand(h, t) /\ ~(h = QueueHand(d) /\ t \in S))
                                   \/ (h = "purged" /\ t \in S)
      <4>1. QueueHand(e) = QueueHand(d) <=> e = d
        BY DEF QueueHand, Dirs, TX, RX
      <4>2. h # "purged"
        BY <3>6 DEF QueueHand
      <4> QED BY <3>3, <3>6, <4>1, <4>2
    <3> QED BY <3>4, <3>5, <3>6 DEF Hands, QueueHand, Dirs, TX, RX
  <2>8. ASSUME NEW t \in S PROVE InHand(QueueHand(d), t) /\ place[t] = "queue"
    <3>1. t \in Trans /\ InHand(QueueHand(d), t)
      BY <2>6, HandMeans DEF QueueHand, Dirs
    <3> QED BY <1>0, <3>1, OwnerOfHeld DEF OwnerIn, QueueHand
  <2>9. Moves(S, QueueHand(d), "purged")
    BY <2>1, <2>7, <2>8 DEF Moves, Owner, OwnerIn, QueueHand
  <2> QED BY <1>0, <2>6, <2>9
<1>23. ASSUME NEW d \in Dirs, FlushActive(d) PROVE Moved
  <2>1. purger.purged = << >> /\ purger.flushed = NoTrans
    BY <1>0, <1>23 DEF FlushActive, ThreadsInv
  <2>2. purger'.purged = << >> /\ purger'.flushed = NoTrans
    BY <1>23 DEF FlushActive, IdlePurger
  <2> QED BY <1>0, <1>23, <2>1, <2>2, RestsAll DEF FlushActive
<1>12. ASSUME PurgeTest PROVE Moved
  BY <1>0, <1>12, RestsAll DEF PurgeTest, TypeOK, ThreadsTyped, PurgerStates
<1>13. ASSUME FlushActiveTransaction PROVE Moved
  <2> DEFINE d == purger.dir
             x == curr[d]
  <2>1. /\ purger.pc = "flush" /\ curr' = [curr EXCEPT ![d] = NoTrans]
        /\ purger'.flushed = x /\ purger'.purged = purger.purged
        /\ UNCHANGED <<queue, freeQueue, place, driver>> /\ d \in Dirs
    BY <1>0, <1>13 DEF FlushActiveTransaction, TypeOK, ThreadsTyped, PurgerStates
  <2>2. purger.flushed = NoTrans /\ curr'[d] = NoTrans /\ (\A e \in Dirs \ {d} : curr'[e] = curr[e])
        /\ x \in Trans \cup {NoTrans}
    BY <1>0, <2>1 DEF ThreadsInv, TypeOK, ListsTyped
  <2>3. x = curr[d]
    OBVIOUS
  <2> HIDE DEF d, x
  <2>4. CASE x = NoTrans
    <3>1. UNCHANGED curr
      BY <1>0, <2>1, <2>3, <2>4 DEF TypeOK, ListsTyped
    <3> QED BY <1>0, <2>1, <2>2, <2>4, <3>1, RestsAll
  <2>5. CASE x # NoTrans
    <3>1. ASSUME NEW t \in Trans, NEW h \in Hands
          PROVE  InHand(h, t)' <=> (InHand(h, t) /\ ~(h = CurrHand(d) /\ t = x))
                                   \/ (h = "flushed" /\ t = x)
      BY <1>0, <2>1, <2>2, <2>3, HandMeans, HandMeansNext DEF Hands, Dirs, CurrHand, TX, RX
    <3>2. x \in Trans
      BY <2>2, <2>5
    <3>3. InHand(CurrHand(d), x)
      BY <2>1, <2>3, <3>2, HandMeans DEF CurrHand, Dirs
    <3>4. place[x] = "queue"
      BY <1>0, <2>1, <3>2, <3>3, OwnerOfHeld DEF OwnerIn, CurrHand
    <3>5. Moves({x}, CurrHand(d), "flushed")
      BY <2>1, <3>1, <3>3, <3>4 DEF Moves, Owner, OwnerIn, CurrHand
    <3> QED BY <1>0, <2>1, <3>2, <3>5
  <2> QED BY <2>4, <2>5
<1>14. ASSUME FlushCallback PROVE Moved
  <2> DEFINE x == purger.flushed
  <2>1. /\ x \in Trans /\ CompletedCb(x) /\ purger'.flushed = NoTrans
        /\ purger'.purged = purger.purged /\ UNCHANGED <<queue, curr, freeQueue, driver>>
    BY <1>0, <1>14 DEF FlushCallback, ThreadsInv, TypeOK, ThreadsTyped, PurgerStates
  <2>2. InHand("flushed", x)
    BY <2>1, HandMeans
  <2>3. ASSUME NEW t \in Trans, NEW h \in Hands
        PROVE  InHand(h, t)' <=> InHand(h, t) /\ ~(h = "flushed" /\ t = x)
    BY <1>0, <2>1, HandMeans, HandMeansNext DEF Hands
  <2>4. Owner(place'[x]) = "app" /\ \A t \in Trans \ {x} : place'[t] = place[t]
    BY <1>0, <2>1, CompletedCbOwner
  <2> HIDE DEF x
  <2>5. Moves({x}, "flushed", "app")
    <3>1. "app" \notin Hands
      BY DEF Hands
    <3> QED BY <2>2, <2>3, <2>4, <3>1 DEF Moves, OwnerIn
  <2> QED BY <1>0, <2>1, <2>5
<1>15. ASSUME PurgeDrain PROVE Moved
  <2>1. purger.pc = "drain" /\ purger.flushed = NoTrans /\ UNCHANGED <<queue, curr, freeQueue, driver>>
    BY <1>0, <1>15 DEF PurgeDrain, ThreadsInv
  <2>2. CASE purger.purged = << >>
    <3>1. UNCHANGED place /\ purger' = IdlePurger
      BY <1>15, <2>2 DEF PurgeDrain
    <3> QED BY <1>0, <2>1, <2>2, <3>1, Cleared, RestsAll
  <2>3. CASE purger.purged # << >>
    <3> DEFINE x == Head(purger.purged)
    <3>1. purger.purged \in Seq(Trans) /\ purger \in PurgerStates
      BY <1>0 DEF TypeOK, ThreadsTyped, PurgerStates
    <3>2. CompletedCb(x) /\ purger'.purged = Tail(purger.purged) /\ purger'.flushed = purger.flushed
      BY <1>15, <2>3, <3>1 DEF PurgeDrain, PurgerStates
    <3>3. x \in Elements(purger.purged) /\ x \in Trans
          /\ Elements(purger'.purged) = Elements(purger.purged) \ {x}
      BY <1>0, <2>3, <3>1, <3>2, TailMeans DEF ListsInv
    <3> HIDE DEF x
    <3>4. ASSUME NEW t \in Trans, NEW h \in Hands
          PROVE  InHand(h, t)' <=> InHand(h, t) /\ ~(h = "purged" /\ t = x)
      BY <2>1, <3>2, <3>3, HandMeans, HandMeansNext DEF Hands
    <3>5. Owner(place'[x]) = "app" /\ \A t \in Trans \ {x} : place'[t] = place[t]
      BY <1>0, <3>2, <3>3, CompletedCbOwner
    <3>6. InHand("purged", x)
      BY <3>3, HandMeans
    <3>7. Moves({x}, "purged", "app")
      <4>1. "app" \notin Hands
        BY DEF Hands
      <4> QED BY <3>4, <3>5, <3>6, <4>1 DEF Moves, OwnerIn
    <3> QED BY <1>0, <3>3, <3>7
  <2> QED BY <2>2, <2>3
<1>16. ASSUME NEW t \in Trans, NEW ok \in BOOLEAN, NEW r \in Readers, UdpQueueWrite(t, ok, r)
       PROVE  Moved
  <2>1. Owner(place'[t]) = "app" /\ \A x \in Trans \ {t} : place'[x] = place[x]
    BY <1>0, <1>16, CompletedCbOwner DEF UdpQueueWrite
  <2>2. place[t] = "app"
    BY <1>16 DEF UdpQueueWrite
  <2>3. \A x \in Trans : Owner(place'[x]) = Owner(place[x])
    BY <2>1, <2>2 DEF Owner
  <2> QED BY <1>0, <1>16, <2>3, RestsIf DEF UdpQueueWrite
<1>17. ASSUME NEW r \in Readers, ReaderLoad(r) PROVE Moved
  <2>1. Rests \/ Moves({NextTransaction(RX)}, QueueHand(RX), CurrHand(RX))
    BY <1>0, <1>17, LoadMoves DEF ReaderLoad
  <2>2. Rests \/ NextTransaction(RX) \in Trans
    <3>1. UNCHANGED <<curr, queue>> => Rests
      BY <1>17, RestsIf DEF ReaderLoad
    <3>2. UNCHANGED <<curr, queue>> \/ NextTransaction(RX) \in Trans
      BY <1>0, <1>17, LoadMeans DEF ReaderLoad
    <3> QED BY <3>1, <3>2
  <2> QED BY <1>0, <2>1, <2>2
<1>18. ASSUME NEW r \in Readers, ReaderReceive(r) PROVE Moved
  BY <1>0, <1>18, RestsAll DEF ReaderReceive, vars
<1>19. ASSUME NEW r \in Readers, ReaderCommit(r) PROVE Moved
  <2> DEFINE x == curr[RX]
  <2>1. /\ curr' = [curr EXCEPT ![RX] = NoTrans] /\ UNCHANGED <<queue, freeQueue, driver, purger>>
        /\ IF x = NoTrans THEN UNCHANGED place ELSE CompletedCb(x)
    BY <1>19 DEF ReaderCommit
  <2>2. curr'[RX] = NoTrans /\ curr'[TX] = curr[TX] /\ x \in Trans \cup {NoTrans}
    BY <1>0, <2>1 DEF TypeOK, ListsTyped, TX, RX
  <2>3. x = curr[RX]
    OBVIOUS
  <2> HIDE DEF x
  <2>4. CASE x = NoTrans
    <3>1. UNCHANGED curr
      BY <1>0, <2>1, <2>3, <2>4 DEF TypeOK, ListsTyped
    <3> QED BY <1>0, <2>1, <2>4, <3>1, RestsAll
  <2>5. CASE x # NoTrans
    <3>1. x \in Trans /\ Owner(place'[x]) = "app" /\ \A t \in Trans \ {x} : place'[t] = place[t]
      BY <1>0, <2>1, <2>2, <2>5, CompletedCbOwner
    <3>2. ASSUME NEW t \in Trans, NEW h \in Hands
          PROVE  InHand(h, t)' <=> InHand(h, t) /\ ~(h = "currRX" /\ t = x)
      BY <1>0, <2>1, <2>2, <2>3, HandMeans, HandMeansNext DEF Hands
    <3>3. InHand("currRX", x)
      BY <2>3, <3>1, HandMeans
    <3>4. Moves({x}, "currRX", "app")
      <4>1. "app" \notin Hands
        BY DEF Hands
      <4> QED BY <3>1, <3>2, <3>3, <4>1 DEF Moves, OwnerIn
    <3>5. "currRX" \in Hands
      BY DEF Hands
    <3> QED BY <1>0, <3>1, <3>4, <3>5
  <2> QED BY <2>4, <2>5
<1>20. ASSUME Lose PROVE Moved
  BY <1>0, <1>20, RestsAll DEF Lose, vars
<1>21. UsedDirs \subseteq Dirs /\ DriverDirs \subseteq Dirs /\ HeapTrans \subseteq Trans
  BY Constants DEF UsedDirs
<1>22. Moved
  BY <1>0, <1>1, <1>2, <1>3, <1>4, <1>5, <1>6, <1>7, <1>8, <1>9, <1>10, <1>11, <1>12, <1>13,
     <1>14, <1>15, <1>16, <1>17, <1>18, <1>19, <1>20, <1>21, <1>23, Zenon
     DEF Next, UdpNext, SerialNext, PurgeNext, AppNext, Driver, PurgeStep, ReaderStep
<1> QED BY <1>22, SMTT(30) DEF Moved

LEMMA HandsKept == UdpInv /\ TypeOK' /\ [Next]_allVars => HandsInv'
<1> SUFFICES ASSUME UdpInv, TypeOK', [Next]_allVars PROVE HandsInv'
  OBVIOUS
<1>1. CASE UNCHANGED allVars
  BY <1>1 DEF UdpInv, HandsInv, HeldOnce, InHand, allVars, vars, listVars, transVars
<1>2. CASE Next
  <2>1. PICK S \in SUBSET Trans, a \in Hands \cup {"app"}, b \in Hands \cup {"app"} : Moves(S, a, b)
    BY <1>2, StepMoves
  <2> QED BY <2>1, MovesKeep DEF UdpInv
<1> QED BY <1>1, <1>2

\* No list gets a member it already has.
LEMMA ListsKept == UdpInv /\ [Next]_allVars => ListsInv'
<1> SUFFICES ASSUME UdpInv, [Next]_allVars PROVE ListsInv'
  OBVIOUS
<1>0. /\ TypeOK /\ HandsInv /\ ListsInv /\ ThreadsInv /\ queue \in [Dirs -> Seq(Trans)]
      /\ freeQueue \in Seq(PoolTrans) /\ purger.purged \in Seq(Trans) /\ purger \in PurgerStates
      /\ PoolTrans \subseteq Trans /\ HeapTrans \subseteq Trans /\ TX \in Dirs /\ RX \in Dirs
  BY Constants DEF UdpInv, TypeOK, ListsTyped, ThreadsTyped, PurgerStates
<1> USE DEF listVars, transVars
<1>1. ASSUME UNCHANGED <<queue, freeQueue>>, purger'.purged = purger.purged PROVE ListsInv'
  BY <1>0, <1>1 DEF ListsInv
<1>2. ASSUME AllocAndInitTransaction PROVE ListsInv'
  <2>1. freeQueue # << >> /\ freeQueue' = Tail(freeQueue) /\ UNCHANGED <<queue, purger>>
    BY <1>2 DEF AllocAndInitTransaction
  <2>2. Once(Tail(freeQueue))
    BY <1>0, <2>1, TailMeans DEF ListsInv
  <2> QED BY <1>0, <2>1, <2>2 DEF ListsInv
<1>3. ASSUME NEW t \in PoolTrans, FreeTransaction(t) PROVE ListsInv'
  <2>1. freeQueue' = Append(freeQueue, t) /\ place[t] = "app" /\ UNCHANGED <<queue, purger>>
    BY <1>3 DEF FreeTransaction
  <2>2. t \notin Elements(freeQueue)
    BY <1>0, <2>1, HeldByNone, HandMeans DEF Hands
  <2>3. Once(Append(freeQueue, t))
    BY <1>0, <2>2, AppendMeans DEF ListsInv
  <2> QED BY <1>0, <2>1, <2>3 DEF ListsInv
<1>4. ASSUME NEW t \in Trans, NEW d \in Dirs, NEW timeout, Enqueue(t, d, timeout),
             place[t] \in {"heap", "app"}, UNCHANGED <<freeQueue, purger>>
      PROVE  ListsInv'
  <2>1. t \notin Elements(queue[d])
    BY <1>0, <1>4, HeldByNone, HandMeans DEF Hands, Dirs
  <2>2. Once(Append(queue[d], t))
    BY <1>0, <2>1, AppendMeans DEF ListsInv
  <2> QED BY <1>0, <1>4, <2>2 DEF ListsInv, Enqueue
<1>5. ASSUME NEW d \in Dirs, LoadNextTransaction(d), UNCHANGED <<freeQueue, purger>> PROVE ListsInv'
  <2>1. CASE UNCHANGED queue
    BY <1>1, <1>5, <2>1
  <2>2. CASE ~UNCHANGED queue
    <3>1. queue[d] # << >> /\ queue' = [queue EXCEPT ![d] = Tail(@)]
      BY <1>0, <1>5, <2>2, LoadMeans
    <3>2. Once(Tail(queue[d]))
      BY <1>0, <3>1, TailMeans DEF ListsInv
    <3> QED BY <1>0, <1>5, <3>1, <3>2 DEF ListsInv
  <2> QED BY <2>1, <2>2
<1>6. ASSUME NEW d \in Dirs, NEW all \in BOOLEAN, PurgeOldMessages(d, all) PROVE ListsInv'
  <2> DEFINE old == {t \in Trans : all \/ TransactionIsExpired(t)}
  <2>1. queue' = [queue EXCEPT ![d] = Without(@, old)] /\ UNCHANGED freeQueue
        /\ purger'.purged = Without(queue[d], Trans \ old)
    BY <1>6 DEF PurgeOldMessages
  <2> HIDE DEF old
  <2>2. Once(Without(queue[d], old)) /\ Once(Without(queue[d], Trans \ old))
    BY <1>0, WithoutMeans DEF ListsInv
  <2> QED BY <1>0, <2>1, <2>2 DEF ListsInv
<1>7. ASSUME PurgeDrain PROVE ListsInv'
  <2>1. CASE purger.purged = << >>
    <3>1. purger'.purged = purger.purged
      BY <1>7, <2>1, Cleared DEF PurgeDrain
    <3> QED BY <1>1, <1>7, <3>1 DEF PurgeDrain
  <2>2. CASE purger.purged # << >>
    <3>1. purger' = [purger EXCEPT !.purged = Tail(@)] /\ UNCHANGED <<queue, freeQueue>>
      BY <1>7, <2>2 DEF PurgeDrain
    <3>2. purger'.purged = Tail(purger.purged)
      BY <1>0, <3>1 DEF PurgerStates
    <3>3. Once(Tail(purger.purged))
      BY <1>0, <2>2, TailMeans DEF ListsInv
    <3> QED BY <1>0, <3>1, <3>2, <3>3 DEF ListsInv
  <2> QED BY <2>1, <2>2
<1>8. ASSUME AppNext PROVE ListsInv'
  <2>1. UsedDirs \subseteq Dirs
    BY Constants DEF UsedDirs
  <2>2. ASSUME NEW t \in HeapTrans, NEW cb \in {"free", "app"}, MallocWithPayload(t, cb) PROVE ListsInv'
    BY <1>1, <2>2 DEF MallocWithPayload
  <2>3. ASSUME NEW t \in Trans, NEW d \in UsedDirs, NEW timeout \in Timeouts, Queue(t, d, timeout)
        PROVE  ListsInv'
    BY <1>4, <2>1, <2>3 DEF Queue
  <2>4. ASSUME Destroy \/ Tick PROVE ListsInv'
    BY <1>1, <2>4 DEF Destroy, Tick
  <2> QED BY <1>2, <1>3, <1>8, <2>2, <2>3, <2>4 DEF AppNext
<1>9. ASSUME SerialNext PROVE ListsInv'
  <2>1. ASSUME NEW d \in Dirs, Driver(d) PROVE ListsInv'
    <3>1. ASSUME DriverLoad(d) PROVE ListsInv'
      BY <1>5, <3>1 DEF DriverLoad
    <3>2. ASSUME ~DriverLoad(d) PROVE ListsInv'
      BY <1>1, <2>1, <3>2 DEF Driver, DriverCommit, DriverCallback
    <3> QED BY <3>1, <3>2
  <2>2. ASSUME NEW t \in HeapTrans, Write(t) PROVE ListsInv'
    BY <1>0, <1>4, <2>2 DEF Write
  <2>3. DriverDirs \subseteq Dirs
    BY Constants
  <2> QED BY <1>9, <2>1, <2>2, <2>3 DEF SerialNext
<1>12. ASSUME PurgeNext PROVE ListsInv'
  <2>1. ASSUME PurgeStep PROVE ListsInv'
    <3>1. ASSUME PurgeTest \/ FlushActiveTransaction \/ FlushCallback PROVE ListsInv'
      <4>1. purger'.purged = purger.purged /\ UNCHANGED <<queue, freeQueue>>
        BY <1>0, <3>1 DEF PurgeTest, FlushActiveTransaction, FlushCallback, PurgerStates
      <4> QED BY <1>1, <4>1
    <3> QED BY <1>7, <2>1, <3>1 DEF PurgeStep
  <2>2. ASSUME NEW d \in Dirs, FlushActive(d) PROVE ListsInv'
    <3>1. purger.purged = << >> /\ purger'.purged = << >>
      BY <1>0, <2>2 DEF FlushActive, IdlePurger, ThreadsInv
    <3> QED BY <1>1, <2>2, <3>1 DEF FlushActive
  <2>3. UsedDirs \subseteq Dirs
    BY Constants DEF UsedDirs
  <2> QED BY <1>6, <1>12, <2>1, <2>2, <2>3 DEF PurgeNext
<1>10. ASSUME UdpNext PROVE ListsInv'
  <2>1. ASSUME NEW t \in Trans, NEW ok \in BOOLEAN, NEW r \in Readers, UdpQueueWrite(t, ok, r)
        PROVE  ListsInv'
    BY <1>1, <2>1 DEF UdpQueueWrite
  <2>2. ASSUME NEW r \in Readers, ReaderStep(r) PROVE ListsInv'
    <3>1. ASSUME ReaderLoad(r) PROVE ListsInv'
      BY <1>0, <1>5, <3>1 DEF ReaderLoad
    <3>2. ASSUME ~ReaderLoad(r) PROVE ListsInv'
      BY <1>1, <2>2, <3>2 DEF ReaderStep, ReaderReceive, ReaderCommit, vars
    <3> QED BY <3>1, <3>2
  <2>3. ASSUME Lose PROVE ListsInv'
    BY <1>1, <2>3 DEF Lose, vars
  <2> QED BY <1>10, <2>1, <2>2, <2>3 DEF UdpNext
<1>11. ASSUME UNCHANGED allVars PROVE ListsInv'
  BY <1>1, <1>11 DEF allVars, vars
<1> QED BY <1>8, <1>9, <1>10, <1>11, <1>12 DEF Next

LEMMA ThreadsKept == UdpInv /\ TypeOK' /\ [Next]_allVars => ThreadsInv'
<1> SUFFICES ASSUME UdpInv, TypeOK', [Next]_allVars PROVE ThreadsInv'
  OBVIOUS
<1>0. /\ TypeOK /\ TransferInv /\ ThreadsInv /\ driver \in [Dirs -> DriverStates]
      /\ purger \in PurgerStates /\ reader \in [Readers -> ReaderStates]
      /\ TX \in Dirs /\ RX \in Dirs /\ DriverDirs \subseteq Dirs
  BY Constants DEF UdpInv, TypeOK, ThreadsTyped
<1> USE DEF listVars, transVars
<1>1. ASSUME UNCHANGED <<driver, purger, device, reader>> PROVE ThreadsInv'
  BY <1>0, <1>1 DEF ThreadsInv
<1>2. ASSUME AppNext PROVE ThreadsInv'
  BY <1>1, <1>2 DEF AppNext, udpVars, MallocWithPayload, AllocAndInitTransaction, FreeTransaction,
                    Queue, Destroy, Tick
<1>3. ASSUME SerialNext PROVE ThreadsInv'
  <2>1. device = "serial" /\ UNCHANGED <<device, reader>>
    BY <1>3 DEF SerialNext, udpVars
  <2>2. ASSUME NEW d \in Dirs, Driver(d) PROVE ThreadsInv'
    <3>1. ASSUME DriverLoad(d) PROVE ThreadsInv'
      BY <1>0, <2>1, <3>1 DEF DriverLoad, ThreadsInv
    <3>2. ASSUME NEW len \in 1 .. Length, NEW force \in BOOLEAN, DriverCommit(d, len, force)
          PROVE  ThreadsInv'
      <4>1. driver'[d] = IF Detached(d) = NoTrans THEN IdleDriver
                         ELSE [pc |-> "callback", trans |-> Detached(d), len |-> 0]
        BY <1>0, <3>2 DEF DriverCommit
      <4>2. driver'[d].pc = "callback" => driver'[d].trans # NoTrans
        BY <4>1, Cleared
      <4> QED BY <1>0, <2>1, <3>2, <4>2 DEF DriverCommit, ThreadsInv
    <3>3. ASSUME DriverCallback(d) PROVE ThreadsInv'
      BY <1>0, <2>1, <3>3, Cleared DEF DriverCallback, ThreadsInv
    <3> QED BY <2>2, <3>1, <3>2, <3>3 DEF Driver
  <2>3. ASSUME NEW t \in HeapTrans, Write(t) PROVE ThreadsInv'
    BY <1>1, <2>1, <2>3 DEF Write
  <2> QED BY <1>0, <1>3, <2>2, <2>3 DEF SerialNext
<1>6. ASSUME PurgeNext PROVE ThreadsInv'
  <2>1. UNCHANGED <<driver, device, reader>>
    BY <1>6 DEF PurgeNext, udpVars, FlushActive, PurgeOldMessages, PurgeStep, PurgeTest,
                FlushActiveTransaction, FlushCallback, PurgeDrain
  <2>2. ASSUME NEW d \in Dirs, NEW all \in BOOLEAN, PurgeOldMessages(d, all) PROVE ThreadsInv'
    BY <1>0, <2>1, <2>2 DEF PurgeOldMessages, ThreadsInv
  <2>3. ASSUME NEW d \in Dirs, FlushActive(d) PROVE ThreadsInv'
    BY <1>0, <2>1, <2>3 DEF FlushActive, IdlePurger, ThreadsInv
  <2>4. ASSUME PurgeTest PROVE ThreadsInv'
    BY <1>0, <2>1, <2>4 DEF PurgeTest, ThreadsInv, PurgerStates
  <2>5. ASSUME FlushActiveTransaction PROVE ThreadsInv'
    BY <1>0, <2>1, <2>5 DEF FlushActiveTransaction, ThreadsInv, PurgerStates
  <2>6. ASSUME FlushCallback PROVE ThreadsInv'
    BY <1>0, <2>1, <2>6 DEF FlushCallback, ThreadsInv, PurgerStates
  <2>7. ASSUME PurgeDrain PROVE ThreadsInv'
    BY <1>0, <2>1, <2>7, Cleared DEF PurgeDrain, ThreadsInv, PurgerStates
  <2>8. UsedDirs \subseteq Dirs
    BY Constants DEF UsedDirs
  <2> QED BY <1>6, <2>2, <2>3, <2>4, <2>5, <2>6, <2>7, <2>8 DEF PurgeNext, PurgeStep
<1>4. ASSUME UdpNext PROVE ThreadsInv'
  <2>1. device = "udp" /\ UNCHANGED <<driver, purger, device>>
    BY <1>4 DEF UdpNext, UdpQueueWrite, ReaderStep, ReaderLoad, ReaderReceive, ReaderCommit, Lose, vars
  <2> QED BY <2>1, <1>0 DEF ThreadsInv
<1>5. ASSUME UNCHANGED allVars PROVE ThreadsInv'
  BY <1>1, <1>5 DEF allVars, vars, udpVars
<1> QED BY <1>2, <1>3, <1>4, <1>5, <1>6 DEF Next

\* A current transaction a step does not load or commit goes on as it was.
LEMMA TransferIf ==
  ASSUME UdpInv,
         \A d \in Dirs : curr'[d] # NoTrans =>
           /\ curr'[d] = curr[d] /\ transferred'[curr[d]] = transferred[curr[d]]
           /\ driver'[d] = driver[d] \/ driver'[d].pc # "loaded"
  PROVE  TransferInv'
  BY DEF UdpInv, TransferInv

\* Only a current transaction is in a current pointer, and only in one.
LEMMA CurrentIsHeld ==
  ASSUME UdpInv, NEW d \in Dirs, curr[d] # NoTrans
  PROVE  /\ curr[d] \in Trans /\ place[curr[d]] = "queue"
         /\ \A e \in Dirs : curr[e] = curr[d] => e = d
         /\ \A e \in Dirs : driver[e].pc = "callback" => driver[e].trans # curr[d]
         /\ \A e \in Dirs : curr[d] \notin Elements(queue[e])
         /\ curr[d] \notin Elements(purger.purged) /\ curr[d] # purger.flushed
<1> DEFINE x == curr[d]
<1>1. TypeOK /\ HandsInv /\ x \in Trans
  BY DEF UdpInv, TypeOK, ListsTyped
<1>2. InHand(CurrHand(d), x) /\ CurrHand(d) \in Hands /\ OwnerIn(CurrHand(d)) = "queue"
  BY <1>1, HandMeans DEF CurrHand, Dirs, Hands, OwnerIn
<1>3. \A h \in Hands : InHand(h, x) => h = CurrHand(d)
  BY <1>1, <1>2 DEF HandsInv, HeldOnce
<1>4. place[x] = "queue"
  BY <1>1, <1>2, OwnerOfHeld
<1>5. /\ InHand("currTX", x) => d = TX
      /\ InHand("currRX", x) => d = RX
      /\ \A h \in {"queueTX", "queueRX", "driverTX", "driverRX", "purged", "flushed"} : ~InHand(h, x)
  BY <1>3 DEF CurrHand, Hands, Dirs, TX, RX
<1>6. \A e \in Dirs : curr[e] = x => e = d
  BY <1>1, <1>5, HandMeans DEF Dirs
<1>7. \A e \in Dirs : driver[e].pc = "callback" => driver[e].trans # x
  BY <1>1, <1>5, HandMeans DEF Dirs
<1>8. \A e \in Dirs : x \notin Elements(queue[e])
  BY <1>1, <1>5, HandMeans DEF Dirs
<1> QED BY <1>1, <1>4, <1>5, <1>6, <1>7, <1>8, HandMeans

LEMMA TransferKept == UdpInv /\ TypeOK' /\ [Next]_allVars => TransferInv'
<1> SUFFICES ASSUME UdpInv, TypeOK', [Next]_allVars PROVE TransferInv'
  OBVIOUS
<1>0. /\ TypeOK /\ TransferInv /\ ThreadsInv /\ driver \in [Dirs -> DriverStates]
      /\ curr \in [Dirs -> Trans \cup {NoTrans}] /\ transferred \in [Trans -> 0 .. Length]
      /\ TX \in Dirs /\ RX \in Dirs /\ DriverDirs \subseteq Dirs
      /\ UsedDirs \subseteq Dirs /\ HeapTrans \subseteq Trans /\ PoolTrans \subseteq Trans
      /\ NoTrans \notin Trans /\ Length \in Nat \ {0}
  BY Constants DEF UdpInv, TypeOK, ThreadsTyped, ListsTyped, TransTyped, UsedDirs
<1> USE DEF listVars, transVars
<1>1. ASSUME NEW x \in Trans, \A d \in Dirs : curr[d] # x, UNCHANGED curr,
             \A t \in Trans \ {x} : transferred'[t] = transferred[t],
             \A d \in Dirs : driver'[d] = driver[d] \/ driver'[d].pc # "loaded"
      PROVE  TransferInv'
  BY <1>0, <1>1, TransferIf
<1>2. ASSUME UNCHANGED <<curr, transferred, driver>> PROVE TransferInv'
  BY <1>2, TransferIf
<1>3. ASSUME NEW x \in Trans, CompletedCb(x) \/ \E cb : InitTransaction(x, cb)
      PROVE  \A t \in Trans \ {x} : transferred'[t] = transferred[t]
  BY <1>0, <1>3 DEF CompletedCb, InitTransaction
<1>4. ASSUME NEW x \in Trans, place[x] # "queue" PROVE \A d \in Dirs : curr[d] # x
  BY <1>0, <1>4, CurrentIsHeld
<1>5. ASSUME AppNext PROVE TransferInv'
  <2>1. ASSUME NEW t \in HeapTrans, NEW cb \in {"free", "app"}, MallocWithPayload(t, cb)
        PROVE  TransferInv'
    BY <1>0, <1>1, <1>3, <1>4, <2>1 DEF MallocWithPayload
  <2>2. ASSUME AllocAndInitTransaction PROVE TransferInv'
    <3> DEFINE x == Head(freeQueue)
    <3>1. x \in Elements(freeQueue) /\ x \in Trans
      BY <1>0, <2>2, TailMeans DEF AllocAndInitTransaction, TypeOK, ListsTyped
    <3>2. place[x] = "pool"
      <4>1. InHand("pool", x) /\ "pool" \in Hands
        BY <3>1, HandMeans DEF Hands
      <4> QED BY <1>0, <3>1, <4>1, OwnerOfHeld DEF OwnerIn, UdpInv
    <3> QED BY <1>0, <1>1, <1>3, <1>4, <2>2, <3>1, <3>2 DEF AllocAndInitTransaction
  <2>3. ASSUME Destroy \/ Tick PROVE TransferInv'
    BY <1>2, <2>3 DEF Destroy, Tick
  <2>4. ASSUME NEW t \in PoolTrans, FreeTransaction(t) PROVE TransferInv'
    BY <1>2, <2>4 DEF FreeTransaction
  <2>5. ASSUME NEW t \in Trans, NEW d \in UsedDirs, NEW timeout \in Timeouts, Queue(t, d, timeout)
        PROVE  TransferInv'
    BY <1>2, <2>5 DEF Queue
  <2> QED BY <1>5, <2>1, <2>2, <2>3, <2>4, <2>5 DEF AppNext
<1>6. ASSUME NEW d \in Dirs, LoadNextTransaction(d), \A e \in Dirs \ {d} : driver'[e] = driver[e],
             driver'[d].pc = "loaded" /\ curr'[d] # NoTrans =>
               driver'[d].len = Length - transferred'[curr'[d]]
      PROVE  TransferInv'
  <2>1. CASE UNCHANGED <<curr, transferred>>
    <3>1. ASSUME NEW e \in Dirs, curr'[e] # NoTrans, driver'[e].pc = "loaded"
          PROVE  transferred'[curr'[e]] + driver'[e].len = Length
      <4>1. CASE e = d
        <5>1. transferred'[curr'[d]] \in 0 .. Length
          BY <1>0, <2>1, <3>1, <4>1
        <5> QED BY <1>0, <1>6, <3>1, <4>1, <5>1
      <4>2. CASE e # d
        BY <1>0, <1>6, <2>1, <3>1, <4>2 DEF TransferInv
      <4> QED BY <4>1, <4>2
    <3>2. \A e \in Dirs : curr'[e] # NoTrans => transferred'[curr'[e]] < Length
      BY <1>0, <2>1 DEF TransferInv
    <3> QED BY <3>1, <3>2 DEF TransferInv
  <2>2. CASE ~UNCHANGED <<curr, transferred>>
    <3> DEFINE x == NextTransaction(d)
    <3>1. /\ queue[d] # << >> /\ x = Head(queue[d]) /\ x \in Trans
          /\ curr' = [curr EXCEPT ![d] = x] /\ transferred' = [transferred EXCEPT ![x] = 0]
      BY <1>0, <1>6, <2>2, LoadMeans
    <3>2. x \in Elements(queue[d])
      BY <1>0, <3>1, TailMeans DEF TypeOK, ListsTyped
    <3> HIDE DEF x
    <3>3. curr'[d] = x /\ transferred'[x] = 0
      BY <1>0, <3>1
    <3>4. \A e \in Dirs \ {d} : /\ curr'[e] = curr[e]
                                /\ curr[e] # NoTrans => transferred'[curr[e]] = transferred[curr[e]]
      BY <1>0, <3>1, <3>2, CurrentIsHeld
    <3>5. driver'[d].pc = "loaded" => transferred'[x] + driver'[d].len = Length
      BY <1>0, <1>6, <3>1, <3>3
    <3>6. \A e \in Dirs \ {d} : curr'[e] # NoTrans => transferred'[curr'[e]] < Length
      BY <1>0, <3>4 DEF TransferInv
    <3>7. \A e \in Dirs \ {d} : driver'[e].pc = "loaded" /\ curr'[e] # NoTrans =>
            transferred'[curr'[e]] + driver'[e].len = Length
      BY <1>0, <1>6, <3>4 DEF TransferInv
    <3>8. transferred'[curr'[d]] < Length
      BY <1>0, <3>3
    <3> QED BY <3>3, <3>5, <3>6, <3>7, <3>8 DEF TransferInv
  <2> QED BY <2>1, <2>2
<1>7. ASSUME NEW d \in Dirs, DriverLoad(d) PROVE TransferInv'
  <2>1. /\ LoadNextTransaction(d) /\ NextTransaction(d) # NoTrans
        /\ driver' = [driver EXCEPT ![d] =
             [pc |-> "loaded", trans |-> NextTransaction(d),
              len |-> Length - transferred'[NextTransaction(d)]]]
    BY <1>7 DEF DriverLoad
  <2>2. curr'[d] = NextTransaction(d)
    BY <1>0, <2>1, LoadMeans
  <2>3. driver'[d].len = Length - transferred'[curr'[d]]
        /\ \A e \in Dirs \ {d} : driver'[e] = driver[e]
    BY <1>0, <2>1, <2>2
  <2> QED BY <1>6, <2>1, <2>3
<1>8. ASSUME NEW d \in Dirs, NEW len \in 1 .. Length, NEW force \in BOOLEAN,
             DriverCommit(d, len, force)
      PROVE  TransferInv'
  <2>1. /\ driver[d].pc = "loaded" /\ len <= driver[d].len /\ CommitSection(d, len, force)
        /\ driver' = [driver EXCEPT ![d] =
             IF Detached(d) = NoTrans THEN IdleDriver
             ELSE [pc |-> "callback", trans |-> Detached(d), len |-> 0]]
    BY <1>8 DEF DriverCommit
  <2>2. driver'[d].pc # "loaded" /\ \A e \in Dirs \ {d} : driver'[e] = driver[e]
    BY <1>0, <2>1, Cleared
  <2>3. CASE curr[d] = NoTrans
    BY <1>0, <2>1, <2>2, <2>3, CommitMeans, TransferIf
  <2>4. CASE curr[d] # NoTrans
    <3> DEFINE x == curr[d]
    <3>1. \A t \in Trans \ {x} : transferred'[t] = transferred[t]
      BY <1>0, <2>1, <2>4, CommitMeans
    <3>2. \A e \in Dirs \ {d} : curr'[e] = curr[e]
      BY <1>0, <2>1, <2>4, CommitMeans
    <3>3. curr'[d] = NoTrans \/ (curr'[d] = x /\ transferred'[x] < Length)
      <4>1. \/ UNCHANGED curr /\ transferred'[x] < Length
            \/ curr' = [curr EXCEPT ![d] = NoTrans]
        BY <1>0, <2>1, <2>4, CommitMeans
      <4>2. curr \in [Dirs -> Trans \cup {NoTrans}]
        BY <1>0
      <4>3. ASSUME curr' = [curr EXCEPT ![d] = NoTrans] PROVE curr'[d] = NoTrans
        BY <4>2, <4>3
      <4>4. ASSUME UNCHANGED curr, transferred'[x] < Length
            PROVE  curr'[d] = x /\ transferred'[x] < Length
        BY <4>4
      <4> QED BY <4>1, <4>3, <4>4
    <3>4. \A e \in Dirs \ {d} : curr[e] # NoTrans => curr[e] \in Trans \ {x}
      BY <1>0, <2>4, CurrentIsHeld
    <3> HIDE DEF x
    <3>5. \A e \in Dirs \ {d} : curr'[e] # NoTrans => transferred'[curr'[e]] < Length
      BY <1>0, <3>1, <3>2, <3>4 DEF TransferInv
    <3>6. \A e \in Dirs \ {d} : driver'[e].pc = "loaded" /\ curr'[e] # NoTrans =>
            transferred'[curr'[e]] + driver'[e].len = Length
      BY <1>0, <2>2, <3>1, <3>2, <3>4 DEF TransferInv
    <3> QED BY <2>2, <3>3, <3>5, <3>6 DEF TransferInv
  <2> QED BY <2>3, <2>4
<1>9. ASSUME NEW d \in Dirs, DriverCallback(d) PROVE TransferInv'
  <2>1. /\ driver[d].pc = "callback" /\ CompletedCb(driver[d].trans) /\ UNCHANGED curr
        /\ driver' = [driver EXCEPT ![d] = IdleDriver]
    BY <1>9 DEF DriverCallback
  <2>2. driver[d].trans \in Trans
    BY <1>0, <2>1 DEF ThreadsInv, DriverStates
  <2>3. \A e \in Dirs : driver'[e] = driver[e] \/ driver'[e].pc # "loaded"
    BY <1>0, <2>1, Cleared
  <2>4. \A e \in Dirs : curr[e] # driver[d].trans
    BY <1>0, <2>1, <2>2, CurrentIsHeld
  <2> QED BY <1>1, <1>3, <2>1, <2>2, <2>3, <2>4
<1>10. ASSUME NEW d \in Dirs, NEW all \in BOOLEAN, PurgeOldMessages(d, all) PROVE TransferInv'
  BY <1>2, <1>10 DEF PurgeOldMessages
<1>11. ASSUME PurgeStep PROVE TransferInv'
  <2>0. purger \in PurgerStates /\ UNCHANGED driver
    BY <1>0, <1>11 DEF TypeOK, ThreadsTyped, PurgeStep, PurgeTest, FlushActiveTransaction,
                       FlushCallback, PurgeDrain
  <2>1. ASSUME PurgeTest PROVE TransferInv'
    BY <1>2, <2>1 DEF PurgeTest
  <2>2. ASSUME FlushActiveTransaction PROVE TransferInv'
    <3>1. \A e \in Dirs : curr'[e] # NoTrans => curr'[e] = curr[e]
      BY <1>0, <2>0, <2>2 DEF FlushActiveTransaction, PurgerStates
    <3> QED BY <2>0, <2>2, <3>1, TransferIf DEF FlushActiveTransaction
  <2>3. ASSUME FlushCallback PROVE TransferInv'
    <3>1. CompletedCb(purger.flushed) /\ purger.flushed \in Trans /\ UNCHANGED curr
      BY <1>0, <2>0, <2>3 DEF FlushCallback, ThreadsInv, PurgerStates
    <3>2. \A e \in Dirs : curr[e] # purger.flushed
      BY <1>0, <3>1, CurrentIsHeld
    <3> QED BY <1>1, <1>3, <2>0, <3>1, <3>2
  <2>4. ASSUME PurgeDrain PROVE TransferInv'
    <3>1. CASE purger.purged = << >>
      BY <1>2, <2>4, <3>1 DEF PurgeDrain
    <3>2. CASE purger.purged # << >>
      <4> DEFINE x == Head(purger.purged)
      <4>1. CompletedCb(x) /\ UNCHANGED curr
        BY <2>4, <3>2 DEF PurgeDrain
      <4>2. x \in Elements(purger.purged) /\ x \in Trans
        BY <2>0, <3>2, TailMeans DEF PurgerStates
      <4> HIDE DEF x
      <4>3. \A e \in Dirs : curr[e] # x
        BY <1>0, <4>2, CurrentIsHeld
      <4> QED BY <1>1, <1>3, <2>0, <4>1, <4>2, <4>3
    <3> QED BY <3>1, <3>2
  <2> QED BY <1>11, <2>1, <2>2, <2>3, <2>4 DEF PurgeStep
<1>12. ASSUME NEW t \in HeapTrans, Write(t) PROVE TransferInv'
  <2>1. place[t] # "queue" /\ t \in Trans /\ UNCHANGED <<curr, driver>>
        /\ transferred' = [transferred EXCEPT ![t] = 0]
    BY <1>0, <1>12 DEF Write
  <2>2. \A x \in Trans \ {t} : transferred'[x] = transferred[x]
    BY <1>0, <2>1
  <2> QED BY <1>1, <1>4, <2>1, <2>2
<1>13. ASSUME UdpNext PROVE TransferInv'
  <2>0. UNCHANGED driver /\ \A d \in Dirs : driver'[d].pc # "loaded"
    <3>1. device = "udp" /\ UNCHANGED driver
      BY <1>13 DEF UdpNext, UdpQueueWrite, ReaderStep, ReaderLoad, ReaderReceive, ReaderCommit, Lose, vars
    <3> QED BY <1>0, <3>1 DEF ThreadsInv
  <2>1. ASSUME NEW t \in Trans, NEW ok \in BOOLEAN, NEW r \in Readers, UdpQueueWrite(t, ok, r)
        PROVE  TransferInv'
    BY <1>1, <1>3, <1>4, <2>0, <2>1 DEF UdpQueueWrite
  <2>2. ASSUME NEW r \in Readers, ReaderLoad(r) PROVE TransferInv'
    BY <1>0, <1>6, <2>0, <2>2 DEF ReaderLoad
  <2>3. ASSUME NEW r \in Readers, ReaderReceive(r) PROVE TransferInv'
    BY <1>2, <2>3 DEF ReaderReceive, vars
  <2>4. ASSUME NEW r \in Readers, ReaderCommit(r) PROVE TransferInv'
    <3> DEFINE x == curr[RX]
    <3>1. curr' = [curr EXCEPT ![RX] = NoTrans]
          /\ IF x = NoTrans THEN UNCHANGED transferred ELSE CompletedCb(x)
      BY <2>4 DEF ReaderCommit
    <3>2. \A e \in Dirs : curr'[e] # NoTrans => e # RX /\ curr'[e] = curr[e]
      BY <1>0, <3>1
    <3>3. CASE x = NoTrans
      BY <2>0, <3>1, <3>2, <3>3, TransferIf
    <3>4. CASE x # NoTrans
      <4>1. x \in Trans /\ \A t \in Trans \ {x} : transferred'[t] = transferred[t]
        BY <1>0, <1>3, <3>1, <3>4
      <4>2. \A e \in Dirs : curr'[e] # NoTrans => curr[e] \in Trans \ {x}
        BY <1>0, <3>2, <3>4, CurrentIsHeld
      <4> QED BY <2>0, <3>2, <4>1, <4>2, TransferIf
    <3> QED BY <3>3, <3>4
  <2>5. ASSUME Lose PROVE TransferInv'
    BY <1>2, <2>5 DEF Lose, vars
  <2> QED BY <1>13, <2>1, <2>2, <2>3, <2>4, <2>5 DEF UdpNext, ReaderStep
<1>14. ASSUME UNCHANGED allVars PROVE TransferInv'
  BY <1>2, <1>14 DEF allVars, vars
<1>15. ASSUME SerialNext PROVE TransferInv'
  <2>1. ASSUME NEW d \in DriverDirs, Driver(d) PROVE TransferInv'
    BY <1>0, <1>7, <1>8, <1>9, <2>1 DEF Driver
  <2> QED BY <1>0, <1>12, <1>15, <2>1 DEF SerialNext
<1>16. ASSUME PurgeNext PROVE TransferInv'
  <2>1. ASSUME NEW d \in Dirs, FlushActive(d) PROVE TransferInv'
    BY <1>2, <2>1 DEF FlushActive
  <2> QED BY <1>0, <1>10, <1>11, <1>16, <2>1 DEF PurgeNext
<1> QED BY <1>5, <1>13, <1>14, <1>15, <1>16 DEF Next

\* A step that starts no wait and moves no clock leaves the deadlines of the others alone.
LEMMA ExpiryIf ==
  ASSUME ExpiryInv, UNCHANGED now,
         \A t \in Trans : place'[t] = "queue" =>
           place[t] = "queue" /\ expiry'[t] = expiry[t] /\ left'[t] = left[t]
  PROVE  ExpiryInv'
  BY DEF ExpiryInv

LEMMA EnqueueExpiry ==
  ASSUME TypeOK, ExpiryInv, UNCHANGED now, NEW x \in Trans, NEW d \in Dirs,
         NEW timeout \in Timeouts \cup {Infinite}, Enqueue(x, d, timeout)
  PROVE  ExpiryInv'
<1>1. /\ place' = [place EXCEPT ![x] = "queue"] /\ expiry' = [expiry EXCEPT ![x] = ExpiryOf(timeout)]
      /\ left' = [left EXCEPT ![x] = IF timeout = Infinite THEN 0 ELSE timeout]
  BY DEF Enqueue
<1>2. expiry'[x] = ExpiryOf(timeout) /\ left'[x] = IF timeout = Infinite THEN 0 ELSE timeout
  BY <1>1 DEF TypeOK, TransTyped
<1>3. \A t \in Trans \ {x} : place'[t] = place[t] /\ expiry'[t] = expiry[t] /\ left'[t] = left[t]
  BY <1>1 DEF TypeOK, TransTyped
<1>4. expiry'[x] # Infinite =>
        expiry'[x] = now + left'[x] \/ expiry'[x] = now + left'[x] - 2 * HalfRange
  <2>1. CASE timeout = Infinite
    BY <1>2, <2>1 DEF ExpiryOf
  <2>2. CASE timeout # Infinite
    <3>1. timeout \in Timeouts /\ left'[x] = timeout
      BY <1>2, <2>2
    <3> QED BY <1>2, <2>2, <3>1, ExpiryOfType DEF TypeOK, TransTyped
  <2> QED BY <2>1, <2>2
<1> QED BY <1>3, <1>4 DEF ExpiryInv

LEMMA TickExpiry ==
  ASSUME TypeOK, ExpiryInv, Tick
  PROVE  ExpiryInv'
<1> SUFFICES ASSUME NEW t \in Trans, place[t] = "queue", expiry[t] # Infinite,
                    left'[t] >= -HalfRange
             PROVE  \/ expiry[t] = now' + left'[t]
                    \/ expiry[t] = now' + left'[t] + 2 * HalfRange
                    \/ expiry[t] = now' + left'[t] - 2 * HalfRange
  BY DEF ExpiryInv, Tick
<1> DEFINE M == 2 * HalfRange
           e == expiry[t]
           w == left[t]
<1>1. M \in Nat \ {0} /\ now \in Int /\ 0 <= now /\ now < M /\ HalfRange \in Nat \ {0}
  BY Constants, ClockRange DEF TypeOK, TransTyped
<1>2. e \in Int /\ 0 <= e /\ e < M
  BY ClockRange DEF TypeOK, TransTyped
<1>3. w \in Int /\ w >= -HalfRange - 1 /\ w <= HalfRange - 1
  BY <1>1 DEF TypeOK, TransTyped
<1>4. left'[t] = IF w >= -HalfRange THEN w - 1 ELSE w
  BY DEF Tick
<1>5. w >= -HalfRange /\ left'[t] = w - 1
  <2>1. CASE w >= -HalfRange
    BY <1>4, <2>1
  <2>2. CASE ~(w >= -HalfRange)
    <3>1. left'[t] = w
      BY <1>4, <2>2
    <3> QED BY <2>2, <3>1
  <2> QED BY <2>1, <2>2
<1>6. now' = IF now + 1 < M THEN now + 1 ELSE 0
  <2> DEFINE a == now + 1
  <2>1. M \in Nat \ {0} /\ a \in Int /\ 0 <= a /\ a < 2 * M
    BY <1>1
  <2>2. a % M = IF a < M THEN a ELSE a - M
    BY <2>1, WrapOnce
  <2>3. a < M \/ a - M = 0
    BY <1>1
  <2>4. now' = a % M
    BY DEF Tick
  <2> QED BY <2>2, <2>3, <2>4
<1>7. e = now + w \/ e = now + w + M \/ e = now + w - M
  BY <1>5 DEF ExpiryInv
<1> HIDE DEF M, e, w
<1>8. \/ e = now' + (w - 1)
      \/ e = now' + (w - 1) + M
      \/ e = now' + (w - 1) - M
  <2>1. M = 2 * HalfRange
    BY DEF M
  <2>2. CASE now + 1 < M
    BY <1>1, <1>2, <1>3, <1>6, <1>7, <2>2
  <2>3. CASE ~(now + 1 < M)
    <3>1. now + 1 = M /\ now' = 0
      BY <1>1, <1>6, <2>3
    <3>2. CASE e = now + w
      BY <1>1, <1>3, <3>1, <3>2
    <3>3. CASE e = now + w - M
      BY <1>1, <1>3, <3>1, <3>3
    <3>4. e # now + w + M
      BY <1>1, <1>2, <1>3, <1>5, <2>1, <3>1
    <3> QED BY <1>7, <3>2, <3>3, <3>4
  <2> QED BY <2>2, <2>3
<1>9. \/ e = now' + left'[t]
      \/ e = now' + left'[t] + M
      \/ e = now' + left'[t] - M
  BY <1>5, <1>8
<1> QED BY <1>9 DEF M, e

LEMMA ExpiryKept == UdpInv /\ TypeOK' /\ [Next]_allVars => ExpiryInv'
<1> SUFFICES ASSUME UdpInv, TypeOK', [Next]_allVars PROVE ExpiryInv'
  OBVIOUS
<1>0. /\ TypeOK /\ TransTyped /\ ExpiryInv /\ ThreadsInv
      /\ TX \in Dirs /\ RX \in Dirs /\ DriverDirs \subseteq Dirs
      /\ UsedDirs \subseteq Dirs /\ HeapTrans \subseteq Trans /\ PoolTrans \subseteq Trans
  BY Constants DEF UdpInv, TypeOK, UsedDirs
<1> USE DEF listVars, transVars
<1>1. ASSUME UNCHANGED <<place, expiry, left, now>> PROVE ExpiryInv'
  BY <1>0, <1>1, ExpiryIf
<1>2. ASSUME NEW x \in Trans, CompletedCb(x), UNCHANGED now PROVE ExpiryInv'
  <2>1. \A t \in Trans \ {x} : place'[t] = place[t] /\ expiry'[t] = expiry[t] /\ left'[t] = left[t]
    BY <1>0, <1>2 DEF CompletedCb, TransTyped
  <2>2. place'[x] # "queue"
    BY <1>0, <1>2 DEF CompletedCb, HandedBack, TransTyped
  <2> QED BY <1>0, <1>2, <2>1, <2>2, ExpiryIf
<1>3. ASSUME NEW x \in Trans, NEW cb, InitTransaction(x, cb), place' = [place EXCEPT ![x] = "app"],
             UNCHANGED <<left, now>>
      PROVE  ExpiryInv'
  <2>1. \A t \in Trans \ {x} : place'[t] = place[t] /\ expiry'[t] = expiry[t]
    BY <1>0, <1>3 DEF InitTransaction, TransTyped
  <2>2. place'[x] # "queue"
    BY <1>0, <1>3 DEF TransTyped
  <2> QED BY <1>0, <1>3, <2>1, <2>2, ExpiryIf
<1>4. ASSUME AppNext PROVE ExpiryInv'
  <2>1. ASSUME NEW t \in HeapTrans, NEW cb \in {"free", "app"}, MallocWithPayload(t, cb)
        PROVE  ExpiryInv'
    BY <1>0, <1>3, <2>1 DEF MallocWithPayload
  <2>2. ASSUME AllocAndInitTransaction PROVE ExpiryInv'
    <3>1. Head(freeQueue) \in Trans
      BY <1>0, <2>2, TailMeans DEF AllocAndInitTransaction, TypeOK, ListsTyped
    <3> QED BY <1>3, <2>2, <3>1 DEF AllocAndInitTransaction
  <2>3. ASSUME NEW x \in PoolTrans, FreeTransaction(x) PROVE ExpiryInv'
    <3>1. \A t \in Trans : place'[t] = "queue" => place[t] = "queue"
      BY <1>0, <2>3 DEF FreeTransaction, TransTyped
    <3> QED BY <1>0, <2>3, <3>1, ExpiryIf DEF FreeTransaction
  <2>4. ASSUME NEW t \in Trans, NEW d \in UsedDirs, NEW timeout \in Timeouts, Queue(t, d, timeout)
        PROVE  ExpiryInv'
    BY <1>0, <2>4, EnqueueExpiry DEF Queue
  <2>5. ASSUME Destroy PROVE ExpiryInv'
    BY <1>1, <2>5 DEF Destroy
  <2>6. ASSUME Tick PROVE ExpiryInv'
    BY <1>0, <2>6, TickExpiry
  <2> QED BY <1>4, <2>1, <2>2, <2>3, <2>4, <2>5, <2>6 DEF AppNext
<1>5. ASSUME SerialNext PROVE ExpiryInv'
  <2>1. ASSUME NEW d \in DriverDirs, Driver(d) PROVE ExpiryInv'
    <3>1. ASSUME DriverCallback(d) PROVE ExpiryInv'
      <4>1. driver[d].trans \in Trans
        BY <1>0, <3>1 DEF DriverCallback, ThreadsInv, TypeOK, ThreadsTyped, DriverStates
      <4> QED BY <1>2, <3>1, <4>1 DEF DriverCallback
    <3>2. ASSUME ~DriverCallback(d) PROVE ExpiryInv'
      BY <1>1, <2>1, <3>2 DEF Driver, DriverLoad, DriverCommit
    <3> QED BY <3>1, <3>2
  <2>2. ASSUME NEW t \in HeapTrans, Write(t) PROVE ExpiryInv'
    BY <1>0, <2>2, EnqueueExpiry DEF Write
  <2> QED BY <1>5, <2>1, <2>2 DEF SerialNext
<1>8. ASSUME PurgeNext PROVE ExpiryInv'
  <2>1. ASSUME NEW d \in UsedDirs, NEW all \in BOOLEAN, PurgeOldMessages(d, all) PROVE ExpiryInv'
    BY <1>1, <2>1 DEF PurgeOldMessages
  <2>2. ASSUME NEW d \in UsedDirs, FlushActive(d) PROVE ExpiryInv'
    BY <1>1, <2>2 DEF FlushActive
  <2>3. ASSUME PurgeTest \/ FlushActiveTransaction PROVE ExpiryInv'
    BY <1>1, <2>3 DEF PurgeTest, FlushActiveTransaction
  <2>4. ASSUME FlushCallback PROVE ExpiryInv'
    <3>1. purger.flushed \in Trans
      BY <1>0, <2>4 DEF FlushCallback, ThreadsInv, TypeOK, ThreadsTyped, PurgerStates
    <3> QED BY <1>2, <2>4, <3>1 DEF FlushCallback
  <2>5. ASSUME PurgeDrain PROVE ExpiryInv'
    <3>1. CASE purger.purged = << >>
      BY <1>1, <2>5, <3>1 DEF PurgeDrain
    <3>2. CASE purger.purged # << >>
      <4>1. Head(purger.purged) \in Trans
        BY <1>0, <3>2, TailMeans DEF TypeOK, ThreadsTyped, PurgerStates
      <4> QED BY <1>2, <2>5, <3>2, <4>1 DEF PurgeDrain
    <3> QED BY <3>1, <3>2
  <2> QED BY <1>8, <2>1, <2>2, <2>3, <2>4, <2>5 DEF PurgeNext, PurgeStep
<1>6. ASSUME UdpNext PROVE ExpiryInv'
  <2>1. ASSUME NEW t \in Trans, NEW ok \in BOOLEAN, NEW r \in Readers, UdpQueueWrite(t, ok, r)
        PROVE  ExpiryInv'
    BY <1>2, <2>1 DEF UdpQueueWrite
  <2>2. ASSUME NEW r \in Readers, ReaderLoad(r) PROVE ExpiryInv'
    BY <1>1, <2>2 DEF ReaderLoad
  <2>3. ASSUME NEW r \in Readers, ReaderReceive(r) PROVE ExpiryInv'
    BY <1>1, <2>3 DEF ReaderReceive, vars
  <2>4. ASSUME NEW r \in Readers, ReaderCommit(r) PROVE ExpiryInv'
    <3>1. CASE curr[RX] = NoTrans
      BY <1>1, <2>4, <3>1 DEF ReaderCommit
    <3>2. CASE curr[RX] # NoTrans
      <4>1. curr[RX] \in Trans /\ CompletedCb(curr[RX])
        BY <1>0, <2>4, <3>2 DEF ReaderCommit, TypeOK, ListsTyped
      <4> QED BY <1>2, <2>4, <4>1 DEF ReaderCommit
    <3> QED BY <3>1, <3>2
  <2>5. ASSUME Lose PROVE ExpiryInv'
    BY <1>1, <2>5 DEF Lose, vars
  <2> QED BY <1>6, <2>1, <2>2, <2>3, <2>4, <2>5 DEF UdpNext, ReaderStep
<1>7. ASSUME UNCHANGED allVars PROVE ExpiryInv'
  BY <1>1, <1>7 DEF allVars, vars
<1> QED BY <1>4, <1>5, <1>6, <1>7, <1>8 DEF Next

LEMMA InvInit == Init => UdpInv
<1> SUFFICES ASSUME Init PROVE UdpInv
  OBVIOUS
<1>1. /\ queue = [d \in Dirs |-> << >>] /\ curr = [d \in Dirs |-> NoTrans]
      /\ driver = [d \in Dirs |-> IdleDriver] /\ purger = IdlePurger
      /\ place = [t \in Trans |-> IF t \in PoolTrans THEN "pool" ELSE "heap"]
      /\ reader = [r \in Readers |-> NoReader]
  BY DEF Init, BufInit, UdpInit
<1>2. Once(freeQueue) /\ Elements(freeQueue) = PoolTrans
  BY Constants, OnceOnto DEF Init, BufInit
<1>3. HandsInv
  <2> SUFFICES ASSUME NEW t \in Trans PROVE HeldOnce(t)
    BY DEF HandsInv
  <2>1. \A h \in Hands : InHand(h, t) <=> h = "pool" /\ t \in PoolTrans
    BY <1>1, <1>2, Cleared, Constants, HandMeans DEF Hands, Elements
  <2>2. "pool" \in Hands
    BY DEF Hands
  <2> QED BY <1>1, <2>1, <2>2 DEF HeldOnce
<1>4. ListsInv
  BY <1>1, <1>2, Cleared DEF ListsInv, Once
<1>5. ThreadsInv
  BY <1>1, Cleared, Constants DEF ThreadsInv
<1>6. TransferInv
  BY <1>1 DEF TransferInv
<1>7. ExpiryInv
  BY <1>1 DEF ExpiryInv
<1> QED BY <1>3, <1>4, <1>5, <1>6, <1>7, TypeInit DEF UdpInv

LEMMA InvStep == UdpInv /\ [Next]_allVars => UdpInv'
  BY TypeKept, HandsKept, ListsKept, ThreadsKept, TransferKept, ExpiryKept DEF UdpInv

LEMMA InvKept == Spec => []UdpInv
<1> QED BY InvInit, InvStep, PTL DEF Spec

-----------------------------------------------------------------------------
(* The theorems.                                                           *)

\* Lists, pointers, times and threads hold what they should; above all no driver counts
\* more bytes of a transaction than it has.
THEOREM UdpTypeCorrect == Spec => []TypeOK
<1>1. UdpInv => TypeOK
  BY DEF UdpInv
<1> QED BY <1>1, InvKept, PTL

LEMMA CountOf ==
  ASSUME NEW S, \A x, y \in S : x = y
  PROVE  Cardinality(S) = IF S = {} THEN 0 ELSE 1
<1>1. CASE S = {}
  BY <1>1, FS_EmptySet
<1>2. CASE S # {}
  <2>1. PICK x : S = {x}
    BY <1>2
  <2> QED BY <1>2, <2>1, FS_Singleton
<1> QED BY <1>1, <1>2

\* Every place of a queue is one of Holdings.
LEMMA WaitingMeans ==
  ASSUME UdpInv, NEW t \in Trans
  PROVE  /\ Waiting(t) = {} <=> \A d \in Dirs : t \notin Elements(queue[d])
         /\ Cardinality(Waiting(t)) =
              IF InHand("queueTX", t) \/ InHand("queueRX", t) THEN 1 ELSE 0
<1>0. TypeOK /\ HandsInv /\ ListsInv /\ IsFiniteSet(Trans) /\ queue \in [Dirs -> Seq(Trans)]
  BY Constants DEF UdpInv, TypeOK, ListsTyped
<1>1. ASSUME NEW d \in Dirs, NEW i \in DOMAIN queue[d] PROVE <<d, i>> \in Holdings
  <2>1. Len(queue[d]) <= Cardinality(Trans) /\ Len(queue[d]) \in Nat
    BY <1>0, OnceLength DEF ListsInv
  <2>2. Cardinality(Trans) \in Nat
    BY <1>0, FS_CardinalityType
  <2>3. i \in 1 .. Cardinality(Trans)
    BY <1>0, <2>1, <2>2
  <2> QED BY <2>3 DEF Holdings
<1>2. ASSUME NEW d \in Dirs, NEW i \in DOMAIN queue[d], queue[d][i] = t PROVE <<d, i>> \in Waiting(t)
  BY <1>1, <1>2 DEF Waiting
<1>3. ASSUME NEW h \in Waiting(t)
      PROVE  h = <<h[1], h[2]>> /\ h[1] \in Dirs /\ h[2] \in DOMAIN queue[h[1]] /\ queue[h[1]][h[2]] = t
  BY DEF Waiting, Holdings
<1>4. Waiting(t) = {} <=> \A d \in Dirs : t \notin Elements(queue[d])
  <2>1. ASSUME NEW h \in Waiting(t) PROVE \E d \in Dirs : t \in Elements(queue[d])
    BY <1>3 DEF Elements
  <2>2. ASSUME NEW d \in Dirs, t \in Elements(queue[d]) PROVE Waiting(t) # {}
    BY <1>2, <2>2 DEF Elements
  <2> QED BY <2>1, <2>2
<1>5. ASSUME NEW d \in Dirs, NEW e \in Dirs, t \in Elements(queue[d]), t \in Elements(queue[e])
      PROVE  d = e
  <2>1. ~(InHand("queueTX", t) /\ InHand("queueRX", t))
    BY <1>0 DEF HandsInv, HeldOnce, Hands
  <2> QED BY <1>5, <2>1, HandMeans DEF Dirs
<1>6. ASSUME NEW g \in Waiting(t), NEW h \in Waiting(t) PROVE g = h
  <2>1. /\ g = <<g[1], g[2]>> /\ g[1] \in Dirs /\ g[2] \in DOMAIN queue[g[1]] /\ queue[g[1]][g[2]] = t
        /\ h = <<h[1], h[2]>> /\ h[1] \in Dirs /\ h[2] \in DOMAIN queue[h[1]] /\ queue[h[1]][h[2]] = t
    BY <1>3
  <2>2. g[1] = h[1]
    BY <1>5, <2>1 DEF Elements
  <2>3. g[2] = h[2]
    BY <1>0, <2>1, <2>2 DEF ListsInv, Once
  <2> QED BY <2>1, <2>2, <2>3
<1>7. Cardinality(Waiting(t)) = IF Waiting(t) = {} THEN 0 ELSE 1
  BY <1>6, CountOf
<1>8. InHand("queueTX", t) \/ InHand("queueRX", t) <=> Waiting(t) # {}
  BY <1>4, HandMeans DEF Dirs
<1> QED BY <1>4, <1>7, <1>8

\* A transaction the queue owns is in exactly one of its lists or hands, and one of the
\* application's is in none, while any number of drivers, readers and a purge race: no
\* callback is called twice or lost.
THEOREM UdpOwnedOnce == Spec => []OwnedOnce
<1>1. ASSUME UdpInv, NEW t \in Trans PROVE Copies(t) = IF place[t] \in {"queue", "pool"} THEN 1 ELSE 0
  <2>0. TypeOK /\ HeldOnce(t) /\ ListsInv
    BY <1>1 DEF UdpInv, HandsInv
  <2> DEFINE C == {d \in Dirs : curr[d] = t}
             D == {d \in Dirs : driver[d].pc = "callback" /\ driver[d].trans = t}
             P == {i \in DOMAIN purger.purged : purger.purged[i] = t}
             F == {i \in DOMAIN freeQueue : freeQueue[i] = t}
  <2>1. \A g, h \in Hands : InHand(g, t) /\ InHand(h, t) => g = h
    BY <2>0 DEF HeldOnce
  <2>2. Cardinality(C) = IF InHand("currTX", t) \/ InHand("currRX", t) THEN 1 ELSE 0
    <3>1. ~(InHand("currTX", t) /\ InHand("currRX", t))
      BY <2>1 DEF Hands
    <3>2. \A x, y \in C : x = y
      BY <3>1, HandMeans DEF Dirs
    <3>3. C = {} <=> ~(InHand("currTX", t) \/ InHand("currRX", t))
      BY HandMeans DEF Dirs
    <3> HIDE DEF C
    <3> QED BY <3>2, <3>3, CountOf
  <2>3. Cardinality(D) = IF InHand("driverTX", t) \/ InHand("driverRX", t) THEN 1 ELSE 0
    <3>1. ~(InHand("driverTX", t) /\ InHand("driverRX", t))
      BY <2>1 DEF Hands
    <3>2. \A x, y \in D : x = y
      BY <3>1, HandMeans DEF Dirs
    <3>3. D = {} <=> ~(InHand("driverTX", t) \/ InHand("driverRX", t))
      BY HandMeans DEF Dirs
    <3> HIDE DEF D
    <3> QED BY <3>2, <3>3, CountOf
  <2>4. Cardinality(P) = IF InHand("purged", t) THEN 1 ELSE 0
    <3>1. \A x, y \in P : x = y
      BY <2>0 DEF ListsInv, Once
    <3>2. P = {} <=> ~InHand("purged", t)
      BY HandMeans DEF Elements
    <3> HIDE DEF P
    <3> QED BY <3>1, <3>2, CountOf
  <2>5. Cardinality(F) = IF InHand("pool", t) THEN 1 ELSE 0
    <3>1. \A x, y \in F : x = y
      BY <2>0 DEF ListsInv, Once
    <3>2. F = {} <=> ~InHand("pool", t)
      BY HandMeans DEF Elements
    <3> HIDE DEF F
    <3> QED BY <3>1, <3>2, CountOf
  <2>6. purger.flushed = t <=> InHand("flushed", t)
    BY HandMeans
  <2>7. Cardinality(Waiting(t)) = IF InHand("queueTX", t) \/ InHand("queueRX", t) THEN 1 ELSE 0
    BY <1>1, WaitingMeans
  <2>8. Copies(t) = Cardinality(Waiting(t)) + Cardinality(C) + Cardinality(D) + Cardinality(P)
                    + (IF purger.flushed = t THEN 1 ELSE 0) + Cardinality(F)
    BY DEF Copies
  <2> HIDE DEF C, D, P, F
  <2>9. CASE \A h \in Hands : ~InHand(h, t)
    <3>1. place[t] \notin {"queue", "pool"}
      BY <2>0, <2>9 DEF HeldOnce
    <3> QED BY <2>2, <2>3, <2>4, <2>5, <2>6, <2>7, <2>8, <2>9, <3>1 DEF Hands
  <2>10. CASE \E h \in Hands : InHand(h, t)
    <3>1. place[t] \in {"queue", "pool"}
      BY <2>0, <2>10 DEF HeldOnce
    <3>2. PICK h \in Hands : InHand(h, t)
      BY <2>10
    <3>3. \A g \in Hands : InHand(g, t) <=> g = h
      BY <2>1, <3>2
    <3> QED BY <2>2, <2>3, <2>4, <2>5, <2>6, <2>7, <2>8, <3>1, <3>3 DEF Hands
  <2> QED BY <2>9, <2>10
<1>2. UdpInv => OwnedOnce
  BY <1>1 DEF OwnedOnce
<1> QED BY <1>2, InvKept, PTL

\* A queued transaction counts as expired exactly when its deadline has passed, for every
\* range of the clock and wherever in it the deadline is.
THEOREM UdpExpiryExact == Spec => []ExpiryExact
<1>1. ASSUME UdpInv, NEW t \in Trans, place[t] = "queue", expiry[t] # Infinite, left[t] >= -HalfRange
      PROVE  TransactionIsExpired(t) <=> left[t] < 0
  <2> DEFINE M == 2 * HalfRange
             w == left[t]
             a == expiry[t] - now
  <2>1. HalfRange \in Nat \ {0} /\ M \in Nat \ {0} /\ w \in Int /\ w >= -HalfRange /\ w <= HalfRange - 1
    BY <1>1, Constants DEF UdpInv, TypeOK, TransTyped
  <2>2. now \in Int /\ 0 <= now /\ now < M /\ expiry[t] \in Int /\ 0 <= expiry[t] /\ expiry[t] < M
    BY <1>1, ClockRange DEF UdpInv, TypeOK, TransTyped
  <2>3. expiry[t] = now + w \/ expiry[t] = now + w + M \/ expiry[t] = now + w - M
    BY <1>1 DEF UdpInv, ExpiryInv
  <2>4. TransactionIsExpired(t) <=> a % M >= HalfRange
    BY <1>1 DEF TransactionIsExpired
  <2>5. a \in Int /\ -M <= a /\ a < 2 * M /\ (a = w \/ a = w + M \/ a = w - M)
    BY <2>1, <2>2, <2>3
  <2>6. a % M = IF a < 0 THEN a + M ELSE IF a < M THEN a ELSE a - M
    BY <2>1, <2>5, WrapOnce
  <2>7. M = 2 * HalfRange
    OBVIOUS
  <2>8. a < M
    BY <2>1, <2>2
  <2> DEFINE r == a % M
  <2> HIDE DEF r, a, w, M
  <2>9. r = IF a < 0 THEN a + M ELSE a
    BY <2>6, <2>8 DEF r
  <2>10. r >= HalfRange <=> w < 0
    <3>1. CASE a = w
      BY <2>1, <2>5, <2>7, <2>9, <3>1
    <3>2. CASE a = w + M
      BY <2>1, <2>5, <2>7, <2>8, <2>9, <3>2
    <3>3. CASE a = w - M
      BY <2>1, <2>5, <2>7, <2>9, <3>3
    <3> QED BY <2>5, <3>1, <3>2, <3>3
  <2> QED BY <2>4, <2>10 DEF r, w
<1>2. UdpInv => ExpiryExact
  BY <1>1 DEF ExpiryExact
<1> QED BY <1>2, InvKept, PTL

\* With one request at a time there is one thread, and nobody else loads or commits a
\* receive transaction of a socket; a flush leaves none current.
LEMMA OneReaderKept ==
  ASSUME MaxOutstanding = 1
  PROVE  UdpInv /\ OneReaderInv /\ [Next]_allVars => OneReaderInv'
<1> SUFFICES ASSUME UdpInv, OneReaderInv, [Next]_allVars PROVE OneReaderInv'
  OBVIOUS
<1>0. /\ TypeOK /\ ThreadsInv /\ reader \in [Readers -> ReaderStates] /\ IsFiniteSet(Readers)
      /\ curr \in [Dirs -> Trans \cup {NoTrans}] /\ TX \in Dirs /\ RX \in Dirs
  BY Constants DEF UdpInv, TypeOK, ThreadsTyped, ListsTyped
<1> USE DEF listVars, transVars
<1>1. ASSUME UNCHANGED <<reader, curr>> PROVE OneReaderInv'
  BY <1>1 DEF OneReaderInv
<1>2. ASSUME UNCHANGED reader, \A r \in Readers : reader[r].pc = "none" PROVE OneReaderInv'
  BY <1>2 DEF OneReaderInv
<1>3. CASE AppNext
  BY <1>1, <1>3 DEF AppNext, udpVars, MallocWithPayload, AllocAndInitTransaction, FreeTransaction,
                    Queue, Destroy, Tick
<1>4. CASE SerialNext
  BY <1>0, <1>2, <1>4 DEF SerialNext, udpVars, ThreadsInv
<1>5. ASSUME NEW t \in Trans, NEW ok \in BOOLEAN, NEW r \in Readers, UdpQueueWrite(t, ok, r)
      PROVE  OneReaderInv'
  <2>1. \A q \in Readers : reader[q].pc = "none"
    <3>1. Alive \subseteq Readers /\ IsFiniteSet(Alive) /\ Cardinality(Alive) \in Nat
      BY <1>0, FS_Subset, FS_CardinalityType DEF Alive
    <3>2. Cardinality(Alive) = 0
      BY <1>5, <3>1 DEF UdpQueueWrite
    <3>3. Alive = {}
      BY <3>1, <3>2, FS_EmptySet
    <3> QED BY <3>3 DEF Alive
  <2>2. UNCHANGED curr /\ \A q \in Readers \ {r} : reader'[q].pc = "none"
    BY <1>0, <1>5, <2>1 DEF UdpQueueWrite
  <2>3. reader'[r].pc \in {"none", "start"}
    BY <1>0, <1>5, <2>1 DEF UdpQueueWrite
  <2> QED BY <2>2, <2>3 DEF OneReaderInv
<1>6. ASSUME NEW r \in Readers, reader[r].pc # "none",
             \A q \in Readers \ {r} : reader'[q] = reader[q],
             reader'[r].pc \in {"recv", "received", "timeout"} =>
               curr'[RX] = NoTrans \/ curr'[RX] = reader'[r].trans
      PROVE  OneReaderInv'
  <2>1. \A q \in Readers \ {r} : reader'[q].pc = "none"
    BY <1>6 DEF OneReaderInv
  <2> QED BY <1>6, <2>1 DEF OneReaderInv
<1>7. ASSUME NEW r \in Readers, ReaderLoad(r) PROVE OneReaderInv'
  <2>1. curr'[RX] = NextTransaction(RX)
    BY <1>0, <1>7, LoadMeans DEF ReaderLoad
  <2>2. reader[r].pc = "start" /\ reader' = [reader EXCEPT ![r] =
          IF NextTransaction(RX) = NoTrans THEN NoReader
          ELSE [pc |-> "recv", trans |-> NextTransaction(RX)]]
    BY <1>7 DEF ReaderLoad
  <2>3. reader'[r] = IF NextTransaction(RX) = NoTrans THEN NoReader
                     ELSE [pc |-> "recv", trans |-> NextTransaction(RX)]
    BY <1>0, <2>2
  <2>4. reader'[r].pc \in {"recv", "received", "timeout"} =>
          curr'[RX] = NoTrans \/ curr'[RX] = reader'[r].trans
    BY <2>1, <2>3, Cleared
  <2> QED BY <1>0, <1>6, <2>2, <2>4
<1>8. ASSUME NEW r \in Readers, ReaderReceive(r) PROVE OneReaderInv'
  <2>1. reader[r].pc = "recv" /\ UNCHANGED curr /\ reader'[r].trans = reader[r].trans
        /\ \A q \in Readers \ {r} : reader'[q] = reader[q]
    BY <1>0, <1>8 DEF ReaderReceive, vars, ReaderStates
  <2>2. curr[RX] = NoTrans \/ curr[RX] = reader[r].trans
    BY <2>1 DEF OneReaderInv
  <2> QED BY <1>6, <2>1, <2>2
<1>9. ASSUME NEW r \in Readers, ReaderCommit(r) PROVE OneReaderInv'
  <2>1. reader[r].pc \in {"received", "timeout"} /\ reader' = [reader EXCEPT ![r] = NoReader]
    BY <1>9 DEF ReaderCommit
  <2>2. reader'[r].pc = "none" /\ \A q \in Readers \ {r} : reader'[q] = reader[q]
    BY <1>0, <2>1, Cleared
  <2> QED BY <1>6, <2>1, <2>2
<1>10. CASE Lose
  BY <1>1, <1>10 DEF Lose, vars
<1>11. CASE UdpNext
  BY <1>5, <1>7, <1>8, <1>9, <1>10, <1>11 DEF UdpNext, ReaderStep
<1>12. CASE UNCHANGED allVars
  BY <1>1, <1>12 DEF allVars, vars, udpVars
<1>13. CASE PurgeNext
  <2>1. UNCHANGED reader
    BY <1>13 DEF PurgeNext, udpVars
  <2>2. curr'[RX] = NoTrans \/ curr'[RX] = curr[RX]
    <3>1. ASSUME FlushActiveTransaction PROVE curr'[RX] = NoTrans \/ curr'[RX] = curr[RX]
      BY <1>0, <3>1 DEF FlushActiveTransaction
    <3>2. ASSUME ~FlushActiveTransaction PROVE UNCHANGED curr
      BY <1>13, <3>2 DEF PurgeNext, FlushActive, PurgeOldMessages, PurgeStep, PurgeTest,
                         FlushCallback, PurgeDrain
    <3> QED BY <3>1, <3>2
  <2> QED BY <2>1, <2>2 DEF OneReaderInv
<1> QED BY <1>3, <1>4, <1>11, <1>12, <1>13 DEF Next

\* As long as the application has one request outstanding at a time, a thread of a socket
\* commits its answer to the transaction it received it into or, once that has been purged
\* or flushed, to none: never to one that has become current since.
THEOREM UdpCommitsOwn == ASSUME MaxOutstanding = 1 PROVE Spec => []CommitsOwn
<1>1. Init => UdpInv /\ OneReaderInv
  <2>1. Init => OneReaderInv
    BY Cleared DEF Init, UdpInit, OneReaderInv
  <2> QED BY <2>1, InvInit
<1>2. UdpInv /\ OneReaderInv /\ [Next]_allVars => (UdpInv /\ OneReaderInv)'
  BY InvStep, OneReaderKept
<1>3. UdpInv /\ OneReaderInv => CommitsOwn
  BY CurrentIsHeld, Constants DEF OneReaderInv, CommitsOwn
<1> QED BY <1>1, <1>2, <1>3, PTL DEF Spec

-----------------------------------------------------------------------------
(* The contract of TransferQueue.                                          *)

Ended == {t \in Trans : /\ place[t] = "queue"
                        /\ \A d \in Dirs : t \notin Elements(queue[d]) /\ curr[d] # t}
Mine == {t \in Trans : place[t] # "queue"}

LEMMA EndingMeans == UdpInv => ending = Ended
  BY WaitingMeans DEF ending, Ended

LEMMA EndingMeansNext == UdpInv' => (ending = Ended)'
  BY EndingMeans, PTL

LEMMA SameElements == \A s : Contract!Elements(s) = Elements(s)
  BY DEF Contract!Elements, Elements

LEMMA ContractSteps ==
  ASSUME UdpInv, UdpInv'
  PROVE  /\ Mine' = Mine /\ UNCHANGED <<queue, curr>> /\ Ended' = Ended => UNCHANGED Contract!vars
         /\ \A t \in Mine, d \in Dirs :
              Mine' = Mine \ {t} /\ queue' = [queue EXCEPT ![d] = Append(@, t)] /\ curr' = curr
              /\ Ended' = Ended => Contract!Submit(t, d)
         /\ \A d \in Dirs :
              curr[d] = NoTrans /\ queue[d] # << >> /\ curr' = [curr EXCEPT ![d] = Head(queue[d])]
              /\ queue' = [queue EXCEPT ![d] = Tail(@)] /\ Mine' = Mine /\ Ended' = Ended
              => Contract!Start(d)
         /\ \A d \in Dirs :
              curr[d] # NoTrans /\ curr' = [curr EXCEPT ![d] = NoTrans] /\ queue' = queue
              /\ Mine' = Mine /\ Ended' = Ended \cup {curr[d]} => Contract!Finish(d)
         /\ \A d \in Dirs :
              curr[d] # NoTrans /\ curr' = [curr EXCEPT ![d] = NoTrans] /\ queue' = queue
              /\ Mine' = Mine \cup {curr[d]} /\ Ended' = Ended => Contract!FinishAndReturn(d)
         /\ \A t \in Ended :
              Mine' = Mine \cup {t} /\ Ended' = Ended \ {t} /\ UNCHANGED <<queue, curr>>
              => Contract!Return(t)
<1>1. ending = Ended /\ ending' = Ended'
  BY EndingMeans, EndingMeansNext
<1> QED
  BY <1>1 DEF Contract!vars, Contract!Submit, Contract!Start, Contract!Finish,
     Contract!FinishAndReturn, Contract!Return, Mine

\* What a thread holds is finished or cancelled, and its owner not told yet.
LEMMA InThreadsHands ==
  ASSUME UdpInv, NEW t \in Trans, NEW h \in {"driverTX", "driverRX", "purged", "flushed"}, InHand(h, t)
  PROVE  t \in Ended
<1>1. TypeOK /\ HandsInv /\ h \in Hands /\ OwnerIn(h) = "queue"
  BY DEF UdpInv, Hands, OwnerIn
<1>2. place[t] = "queue"
  BY <1>1, OwnerOfHeld
<1>3. \A g \in {"queueTX", "queueRX", "currTX", "currRX"} : ~InHand(g, t)
  BY <1>1 DEF HandsInv, HeldOnce, Hands
<1> QED BY <1>2, <1>3, HandMeans DEF Ended, Dirs

LEMMA InQueue ==
  ASSUME UdpInv, NEW d \in Dirs, NEW t \in Elements(queue[d])
  PROVE  t \in Trans /\ place[t] = "queue" /\ \A e \in Dirs : curr[e] # t
<1>1. TypeOK /\ HandsInv /\ queue[d] \in Seq(Trans)
  BY DEF UdpInv, TypeOK, ListsTyped
<1>2. t \in Trans
  BY <1>1, ElementOfSeq DEF Elements
<1>3. InHand(QueueHand(d), t) /\ QueueHand(d) \in Hands /\ OwnerIn(QueueHand(d)) = "queue"
  BY <1>2, HandMeans DEF QueueHand, Dirs, Hands, OwnerIn
<1>4. place[t] = "queue"
  BY <1>1, <1>2, <1>3, OwnerOfHeld
<1>5. ASSUME NEW e \in Dirs, curr[e] = t PROVE FALSE
  <2>1. curr[e] # NoTrans
    BY <1>2, <1>5, Constants
  <2>2. curr[e] \notin Elements(queue[d])
    BY <2>1, CurrentIsHeld
  <2> QED BY <1>5, <2>2
<1> QED BY <1>2, <1>4, <1>5

LEMMA Stutters ==
  ASSUME UdpInv, UdpInv', UNCHANGED <<queue, curr>>,
         \A t \in Trans : place'[t] = "queue" <=> place[t] = "queue"
  PROVE  [Contract!Next]_(Contract!vars)
<1>1. Mine' = Mine /\ Ended' = Ended
  BY DEF Mine, Ended
<1>2. UNCHANGED Contract!vars
  BY <1>1, ContractSteps
<1> QED BY <1>2

LEMMA Submits ==
  ASSUME UdpInv, UdpInv', NEW x \in Trans, NEW d \in Dirs, NEW timeout, Enqueue(x, d, timeout),
         place[x] \in {"heap", "app"}, UNCHANGED curr
  PROVE  [Contract!Next]_(Contract!vars)
<1>1. queue \in [Dirs -> Seq(Trans)] /\ place \in [Trans -> Places]
  BY DEF UdpInv, TypeOK, ListsTyped, TransTyped
<1>2. queue' = [queue EXCEPT ![d] = Append(@, x)] /\ place' = [place EXCEPT ![x] = "queue"]
  BY DEF Enqueue
<1>3. Elements(queue'[d]) = Elements(queue[d]) \cup {x} /\ \A e \in Dirs \ {d} : queue'[e] = queue[e]
  BY <1>1, <1>2, AppendMeans
<1>4. x \in Mine /\ Mine' = Mine \ {x}
  BY <1>1, <1>2 DEF Mine
<1>5. ASSUME NEW t \in Trans PROVE t \in Ended' <=> t \in Ended
  <2>1. CASE t = x
    BY <1>3, <2>1 DEF Ended
  <2>2. CASE t # x
    <3>1. place'[t] = place[t]
      BY <1>1, <1>2, <2>2
    <3>2. \A e \in Dirs : t \in Elements(queue'[e]) <=> t \in Elements(queue[e])
      BY <1>3, <2>2
    <3> QED BY <3>1, <3>2 DEF Ended
  <2> QED BY <2>1, <2>2
<1>6. Ended' = Ended
  <2>1. Ended \subseteq Trans /\ Ended' \subseteq Trans
    BY DEF Ended
  <2> QED BY <1>5, <2>1
<1>7. Contract!Submit(x, d)
  BY <1>2, <1>4, <1>6, ContractSteps
<1> QED BY <1>7 DEF Contract!Next

LEMMA Starts ==
  ASSUME UdpInv, UdpInv', NEW d \in Dirs, LoadNextTransaction(d), UNCHANGED place
  PROVE  [Contract!Next]_(Contract!vars)
<1>1. CASE UNCHANGED <<curr, queue, transferred>>
  BY <1>1, Stutters
<1>2. CASE ~UNCHANGED <<curr, queue, transferred>>
  <2> DEFINE x == Head(queue[d])
  <2>0. TypeOK /\ ListsInv /\ queue \in [Dirs -> Seq(Trans)] /\ curr \in [Dirs -> Trans \cup {NoTrans}]
    BY DEF UdpInv, TypeOK, ListsTyped
  <2>1. /\ curr[d] = NoTrans /\ queue[d] # << >> /\ x \in Trans
        /\ curr' = [curr EXCEPT ![d] = x] /\ queue' = [queue EXCEPT ![d] = Tail(@)]
    BY <1>2, <2>0, LoadMeans
  <2>2. x \in Elements(queue[d]) /\ Elements(Tail(queue[d])) = Elements(queue[d]) \ {x}
    BY <2>0, <2>1, TailMeans DEF ListsInv
  <2> HIDE DEF x
  <2>3. /\ Elements(queue'[d]) = Elements(queue[d]) \ {x} /\ curr'[d] = x
        /\ \A e \in Dirs \ {d} : queue'[e] = queue[e] /\ curr'[e] = curr[e]
    BY <2>0, <2>1, <2>2
  <2>4. Ended' = Ended
    <3>1. ASSUME NEW t \in Trans PROVE t \in Ended' <=> t \in Ended
      <4>1. CASE t = x
        BY <2>2, <2>3, <4>1 DEF Ended
      <4>2. CASE t # x
        <5>1. \A e \in Dirs : /\ t \in Elements(queue'[e]) <=> t \in Elements(queue[e])
                              /\ curr'[e] = t <=> curr[e] = t
          BY <2>1, <2>3, <4>2, Constants
        <5> QED BY <5>1 DEF Ended
      <4> QED BY <4>1, <4>2
    <3>2. Ended \subseteq Trans /\ Ended' \subseteq Trans
      BY DEF Ended
    <3> QED BY <3>1, <3>2
  <2>5. Mine' = Mine
    BY DEF Mine
  <2>6. Contract!Start(d)
    BY <2>1, <2>4, <2>5, ContractSteps DEF x
  <2> QED BY <2>6 DEF Contract!Next
<1> QED BY <1>1, <1>2

\* A current transaction is taken out, and a thread will tell the owner.
LEMMA Finishes ==
  ASSUME UdpInv, UdpInv', NEW d \in Dirs, curr[d] # NoTrans, curr' = [curr EXCEPT ![d] = NoTrans],
         UNCHANGED <<queue, place>>
  PROVE  [Contract!Next]_(Contract!vars)
<1> DEFINE x == curr[d]
<1>1. /\ x \in Trans /\ place[x] = "queue"
      /\ \A e \in Dirs : (curr[e] = x => e = d) /\ x \notin Elements(queue[e])
  BY CurrentIsHeld
<1>2. curr'[d] = NoTrans /\ \A e \in Dirs \ {d} : curr'[e] = curr[e]
  BY DEF UdpInv, TypeOK, ListsTyped
<1> HIDE DEF x
<1>3. Ended' = Ended \cup {x}
  <2>1. ASSUME NEW t \in Trans PROVE t \in Ended' <=> t \in Ended \/ t = x
    <3>1. CASE t = x
      BY <1>1, <1>2, <3>1, Constants DEF Ended
    <3>2. CASE t # x
      <4>1. \A e \in Dirs : curr'[e] = t <=> curr[e] = t
        BY <1>2, <3>2, Constants DEF x
      <4> QED BY <3>2, <4>1 DEF Ended
    <3> QED BY <3>1, <3>2
  <2>2. Ended \subseteq Trans /\ Ended' \subseteq Trans
    BY DEF Ended
  <2> QED BY <1>1, <2>1, <2>2
<1>4. Mine' = Mine
  BY DEF Mine
<1>5. Contract!Finish(d)
  BY <1>3, <1>4, ContractSteps DEF x
<1> QED BY <1>5 DEF Contract!Next

\* A thread of a socket takes it out and tells the owner at once.
LEMMA FinishesAndReturns ==
  ASSUME UdpInv, UdpInv', NEW d \in Dirs, curr[d] # NoTrans, curr' = [curr EXCEPT ![d] = NoTrans],
         CompletedCb(curr[d]), UNCHANGED queue
  PROVE  [Contract!Next]_(Contract!vars)
<1> DEFINE x == curr[d]
<1>1. /\ x \in Trans /\ place[x] = "queue"
      /\ \A e \in Dirs : (curr[e] = x => e = d) /\ x \notin Elements(queue[e])
  BY CurrentIsHeld
<1>2. curr'[d] = NoTrans /\ \A e \in Dirs \ {d} : curr'[e] = curr[e]
  BY DEF UdpInv, TypeOK, ListsTyped
<1>3. place'[x] # "queue" /\ \A t \in Trans \ {x} : place'[t] = place[t]
  BY <1>1 DEF CompletedCb, HandedBack, UdpInv, TypeOK, TransTyped
<1> HIDE DEF x
<1>4. Ended' = Ended
  <2>1. ASSUME NEW t \in Trans PROVE t \in Ended' <=> t \in Ended
    <3>1. CASE t = x
      BY <1>1, <1>3, <3>1 DEF Ended, x
    <3>2. CASE t # x
      <4>1. \A e \in Dirs : curr'[e] = t <=> curr[e] = t
        BY <1>2, <3>2, Constants DEF x
      <4> QED BY <1>3, <3>2, <4>1 DEF Ended
    <3> QED BY <3>1, <3>2
  <2>2. Ended \subseteq Trans /\ Ended' \subseteq Trans
    BY DEF Ended
  <2> QED BY <2>1, <2>2
<1>5. Mine' = Mine \cup {x}
  BY <1>1, <1>3 DEF Mine
<1>6. Contract!FinishAndReturn(d)
  BY <1>4, <1>5, ContractSteps DEF x
<1> QED BY <1>6 DEF Contract!Next

LEMMA Returns ==
  ASSUME UdpInv, UdpInv', NEW x \in Ended, CompletedCb(x), UNCHANGED <<queue, curr>>
  PROVE  [Contract!Next]_(Contract!vars)
<1>1. x \in Trans
  BY DEF Ended
<1>2. place'[x] # "queue" /\ \A t \in Trans \ {x} : place'[t] = place[t]
  BY <1>1 DEF CompletedCb, HandedBack, UdpInv, TypeOK, TransTyped
<1>3. Mine' = Mine \cup {x} /\ Ended' = Ended \ {x}
  BY <1>1, <1>2 DEF Mine, Ended
<1>4. Contract!Return(x)
  BY <1>3, ContractSteps
<1> QED BY <1>1, <1>4 DEF Contract!Next

\* A purge takes the expired transactions out, and leaves the others in their order.
LEMMA Cancels ==
  ASSUME UdpInv, UdpInv', NEW d \in Dirs, NEW all \in BOOLEAN, PurgeOldMessages(d, all)
  PROVE  [Contract!Next]_(Contract!vars)
<1> DEFINE old == {t \in Trans : all \/ TransactionIsExpired(t)}
           r == Without(queue[d], old)
<1>0. TypeOK /\ ListsInv /\ queue \in [Dirs -> Seq(Trans)] /\ queue[d] \in Seq(Trans) /\ Once(queue[d])
  BY DEF UdpInv, TypeOK, ListsTyped, ListsInv
<1>1. queue' = [queue EXCEPT ![d] = r] /\ UNCHANGED <<curr, place>> /\ old \in SUBSET Trans
  BY DEF PurgeOldMessages, transVars
<1> HIDE DEF old
<1>2. /\ r \in Seq(Trans) /\ Elements(r) = Elements(queue[d]) \ old /\ Once(r)
      /\ \A i, j \in DOMAIN r : i < j =>
           \E k, l \in DOMAIN queue[d] : k < l /\ queue[d][k] = r[i] /\ queue[d][l] = r[j]
  BY <1>0, WithoutMeans
<1> HIDE DEF r
<1>3. queue'[d] = r /\ \A e \in Dirs \ {d} : queue'[e] = queue[e]
  BY <1>0, <1>1
<1>4. Contract!IsWithout(queue'[d], queue[d], old)
  <2>1. ASSUME NEW i \in DOMAIN r, NEW j \in DOMAIN r, i < j PROVE r[i] # r[j]
    <3>1. i \in Int /\ j \in Int
      BY <1>2
    <3> QED BY <1>2, <2>1, <3>1 DEF Once
  <2> QED BY <1>2, <1>3, <2>1, SameElements DEF Contract!IsWithout
<1>5. Ended' = Ended \cup (old \cap Elements(queue[d]))
  <2>1. ASSUME NEW t \in Trans PROVE t \in Ended' <=> t \in Ended \/ (t \in old /\ t \in Elements(queue[d]))
    <3>1. CASE t \in Elements(queue[d]) /\ t \in old
      <4>1. place[t] = "queue" /\ \A e \in Dirs : curr[e] # t
        BY <3>1, InQueue
      <4>2. \A e \in Dirs \ {d} : t \notin Elements(queue[e])
        <5>1. ~(InHand("queueTX", t) /\ InHand("queueRX", t))
          BY DEF UdpInv, HandsInv, HeldOnce, Hands
        <5> QED BY <3>1, <5>1, HandMeans DEF Dirs
      <4> QED BY <1>1, <1>2, <1>3, <3>1, <4>1, <4>2 DEF Ended
    <3>2. CASE ~(t \in Elements(queue[d]) /\ t \in old)
      <4>1. \A e \in Dirs : t \in Elements(queue'[e]) <=> t \in Elements(queue[e])
        BY <1>2, <1>3, <3>2
      <4> QED BY <1>1, <3>2, <4>1 DEF Ended
    <3> QED BY <3>1, <3>2
  <2>2. Ended \subseteq Trans /\ Ended' \subseteq Trans
    BY DEF Ended
  <2> QED BY <1>1, <2>1, <2>2
<1>6. queue' = [queue EXCEPT ![d] = queue'[d]]
  BY <1>0, <1>1, <1>3
<1>7. ending = Ended /\ ending' = Ended'
  BY EndingMeans, EndingMeansNext
<1>8. Contract!Cancel(d, old)
  BY <1>1, <1>4, <1>5, <1>6, <1>7, SameElements DEF Contract!Cancel
<1> QED BY <1>1, <1>8 DEF Contract!Next

LEMMA StepRefines == UdpInv /\ UdpInv' /\ [Next]_allVars => [Contract!Next]_(Contract!vars)
<1> SUFFICES ASSUME UdpInv, UdpInv', [Next]_allVars PROVE [Contract!Next]_(Contract!vars)
  OBVIOUS
<1> DEFINE Refined == [Contract!Next]_(Contract!vars)
<1>0. /\ TypeOK /\ ThreadsInv /\ place \in [Trans -> Places] /\ purger \in PurgerStates
      /\ curr \in [Dirs -> Trans \cup {NoTrans}] /\ driver \in [Dirs -> DriverStates]
      /\ TX \in Dirs /\ RX \in Dirs /\ DriverDirs \subseteq Dirs
      /\ UsedDirs \subseteq Dirs /\ HeapTrans \subseteq Trans /\ PoolTrans \subseteq Trans
  BY Constants DEF UdpInv, TypeOK, UsedDirs, TransTyped, ThreadsTyped, ListsTyped
<1> USE DEF listVars, transVars
<1>1. ASSUME UNCHANGED <<queue, curr>>, \A t \in Trans : place'[t] = "queue" <=> place[t] = "queue"
      PROVE  Refined
  BY <1>1, Stutters
<1> HIDE DEF Refined
<1>2. ASSUME AppNext PROVE Refined
  <2>1. ASSUME NEW t \in HeapTrans, NEW cb \in {"free", "app"}, MallocWithPayload(t, cb) PROVE Refined
    BY <1>0, <1>1, <2>1 DEF MallocWithPayload
  <2>2. ASSUME AllocAndInitTransaction PROVE Refined
    <3> DEFINE x == Head(freeQueue)
    <3>1. x \in Elements(freeQueue) /\ x \in Trans
      BY <1>0, <2>2, TailMeans DEF AllocAndInitTransaction, TypeOK, ListsTyped
    <3>2. place[x] = "pool"
      <4>1. InHand("pool", x) /\ "pool" \in Hands
        BY <3>1, HandMeans DEF Hands
      <4> QED BY <1>0, <3>1, <4>1, OwnerOfHeld DEF OwnerIn, UdpInv
    <3>3. place' = [place EXCEPT ![x] = "app"] /\ UNCHANGED <<queue, curr>>
      BY <2>2 DEF AllocAndInitTransaction
    <3> HIDE DEF x
    <3> QED BY <1>0, <1>1, <3>1, <3>2, <3>3
  <2>3. ASSUME NEW x \in PoolTrans, FreeTransaction(x) PROVE Refined
    BY <1>0, <1>1, <2>3 DEF FreeTransaction
  <2>4. ASSUME NEW t \in Trans, NEW d \in UsedDirs, NEW timeout \in Timeouts, Queue(t, d, timeout)
        PROVE  Refined
    BY <1>0, <2>4, Submits DEF Queue, Refined
  <2>5. ASSUME Destroy \/ Tick PROVE Refined
    BY <1>1, <2>5 DEF Destroy, Tick
  <2> QED BY <1>2, <2>1, <2>2, <2>3, <2>4, <2>5 DEF AppNext
<1>3. ASSUME NEW d \in Dirs, Driver(d) PROVE Refined
  <2>1. ASSUME DriverLoad(d) PROVE Refined
    BY <1>0, <2>1, Starts DEF DriverLoad, Refined
  <2>2. ASSUME NEW len \in 1 .. Length, NEW force \in BOOLEAN, DriverCommit(d, len, force)
        PROVE  Refined
    <3>1. UNCHANGED <<queue, place>>
      BY <2>2 DEF DriverCommit
    <3>2. UNCHANGED curr \/ (curr[d] # NoTrans /\ curr' = [curr EXCEPT ![d] = NoTrans])
      BY <2>2, CommitMeans, Constants DEF DriverCommit, UdpInv
    <3> QED BY <1>1, <3>1, <3>2, Finishes DEF Refined
  <2>3. ASSUME DriverCallback(d) PROVE Refined
    <3> DEFINE x == driver[d].trans
    <3>1. driver[d].pc = "callback" /\ x \in Trans /\ CompletedCb(x) /\ UNCHANGED <<queue, curr>>
      BY <1>0, <2>3 DEF DriverCallback, ThreadsInv, DriverStates
    <3>2. InHand(DriverHand(d), x) /\ DriverHand(d) \in {"driverTX", "driverRX", "purged", "flushed"}
      BY <3>1, HandMeans DEF DriverHand, Dirs
    <3> HIDE DEF x
    <3>3. x \in Ended
      BY <3>1, <3>2, InThreadsHands
    <3> QED BY <3>1, <3>3, Returns DEF Refined
  <2> QED BY <1>3, <2>1, <2>2, <2>3 DEF Driver
<1>4. ASSUME PurgeStep PROVE Refined
  <2>1. ASSUME PurgeTest PROVE Refined
    BY <1>1, <2>1 DEF PurgeTest
  <2>2. ASSUME FlushActiveTransaction PROVE Refined
    <3> DEFINE d == purger.dir
    <3>1. d \in Dirs /\ curr' = [curr EXCEPT ![d] = NoTrans] /\ UNCHANGED <<queue, place>>
      BY <1>0, <2>2 DEF FlushActiveTransaction, PurgerStates
    <3> HIDE DEF d
    <3>2. CASE curr[d] = NoTrans
      <4>1. UNCHANGED curr
        BY <1>0, <3>1, <3>2
      <4> QED BY <1>1, <3>1, <4>1
    <3>3. CASE curr[d] # NoTrans
      BY <3>1, <3>3, Finishes DEF Refined
    <3> QED BY <3>2, <3>3
  <2>3. ASSUME FlushCallback PROVE Refined
    <3>1. CompletedCb(purger.flushed) /\ purger.flushed \in Trans /\ UNCHANGED <<queue, curr>>
      BY <1>0, <2>3 DEF FlushCallback, ThreadsInv, PurgerStates
    <3>2. purger.flushed \in Ended
      BY <3>1, HandMeans, InThreadsHands
    <3> QED BY <3>1, <3>2, Returns DEF Refined
  <2>4. ASSUME PurgeDrain PROVE Refined
    <3>1. CASE purger.purged = << >>
      BY <1>1, <2>4, <3>1 DEF PurgeDrain
    <3>2. CASE purger.purged # << >>
      <4> DEFINE x == Head(purger.purged)
      <4>1. CompletedCb(x) /\ UNCHANGED <<queue, curr>>
        BY <2>4, <3>2 DEF PurgeDrain
      <4>2. x \in Elements(purger.purged) /\ x \in Trans
        BY <1>0, <3>2, TailMeans DEF PurgerStates
      <4> HIDE DEF x
      <4>3. x \in Ended
        BY <4>2, HandMeans, InThreadsHands
      <4> QED BY <4>1, <4>3, Returns DEF Refined
    <3> QED BY <3>1, <3>2
  <2> QED BY <1>4, <2>1, <2>2, <2>3, <2>4 DEF PurgeStep
<1>5. ASSUME SerialNext PROVE Refined
  <2>1. ASSUME NEW t \in HeapTrans, Write(t) PROVE Refined
    BY <1>0, <2>1, Submits DEF Write, Refined
  <2> QED BY <1>0, <1>3, <1>5, <2>1 DEF SerialNext
<1>8. ASSUME PurgeNext PROVE Refined
  <2>1. ASSUME NEW d \in UsedDirs, NEW all \in BOOLEAN, PurgeOldMessages(d, all) PROVE Refined
    BY <1>0, <2>1, Cancels DEF Refined
  <2>2. ASSUME NEW d \in UsedDirs, FlushActive(d) PROVE Refined
    BY <1>1, <2>2 DEF FlushActive
  <2> QED BY <1>4, <1>8, <2>1, <2>2 DEF PurgeNext
<1>6. ASSUME UdpNext PROVE Refined
  <2>1. ASSUME NEW t \in Trans, NEW ok \in BOOLEAN, NEW r \in Readers, UdpQueueWrite(t, ok, r)
        PROVE  Refined
    <3>1. place[t] = "app" /\ CompletedCb(t) /\ UNCHANGED <<queue, curr>>
      BY <2>1 DEF UdpQueueWrite
    <3>2. \A x \in Trans : place'[x] = "queue" <=> place[x] = "queue"
      BY <1>0, <3>1 DEF CompletedCb, HandedBack
    <3> QED BY <1>1, <3>1, <3>2
  <2>2. ASSUME NEW r \in Readers, ReaderLoad(r) PROVE Refined
    BY <1>0, <2>2, Starts DEF ReaderLoad, Refined
  <2>3. ASSUME NEW r \in Readers, ReaderReceive(r) PROVE Refined
    BY <1>1, <2>3 DEF ReaderReceive, vars
  <2>4. ASSUME NEW r \in Readers, ReaderCommit(r) PROVE Refined
    <3>1. CASE curr[RX] = NoTrans
      <4>1. UNCHANGED <<curr, queue, place>>
        BY <1>0, <2>4, <3>1 DEF ReaderCommit
      <4> QED BY <1>1, <4>1
    <3>2. CASE curr[RX] # NoTrans
      BY <1>0, <2>4, <3>2, FinishesAndReturns DEF ReaderCommit, Refined
    <3> QED BY <3>1, <3>2
  <2>5. ASSUME Lose PROVE Refined
    BY <1>1, <2>5 DEF Lose, vars
  <2> QED BY <1>6, <2>1, <2>2, <2>3, <2>4, <2>5 DEF UdpNext, ReaderStep
<1>7. ASSUME UNCHANGED allVars PROVE Refined
  BY <1>1, <1>7 DEF allVars, vars
<1> QED BY <1>2, <1>5, <1>6, <1>7, <1>8 DEF Next, Refined

\* Every run of the queues under either kind of driver is one of TransferQueue: started
\* in the order of submission, and handed back exactly once.
THEOREM UdpKeepsContract == Spec => IsTransferQueue
<1>1. Init => Contract!Init
  <2> SUFFICES ASSUME Init PROVE Contract!Init
    OBVIOUS
  <2>1. UdpInv /\ queue = [d \in Dirs |-> << >>] /\ curr = [d \in Dirs |-> NoTrans]
        /\ place = [t \in Trans |-> IF t \in PoolTrans THEN "pool" ELSE "heap"]
    BY InvInit DEF Init, BufInit
  <2>2. \A t \in Trans : place[t] # "queue"
    BY <2>1
  <2>3. ending = {} /\ Mine = Trans
    BY <2>1, <2>2, EndingMeans DEF Ended, Mine
  <2> QED BY <2>1, <2>3 DEF Contract!Init, Mine
<1>2. UdpInv /\ UdpInv' /\ [Next]_allVars => [Contract!Next]_(Contract!vars)
  BY StepRefines
<1> QED BY <1>1, <1>2, InvKept, PTL DEF Spec, IsTransferQueue
=============================================================================
