----------------------------- MODULE UtilsProofs -----------------------------
(***************************************************************************)
(* What is proved of the utilities, over the specification MCSpec that     *)
(* runs one of them in each behaviour.  The lemmas about the lists are in  *)
(* NodeListsProofs, those about texts in TextProofs.                       *)
(***************************************************************************)
EXTENDS MCUtils, TextProofs

-----------------------------------------------------------------------------
(* Every step is one component's, or leaves that component alone.          *)

LEMMA UtilsUpTo ==
  /\ UNCHANGED UpTo12 => UNCHANGED UpTo11 /\ UNCHANGED endVars
  /\ UNCHANGED UpTo11 => UNCHANGED UpTo10 /\ UNCHANGED crcVars
  /\ UNCHANGED UpTo10 => UNCHANGED UpTo9 /\ UNCHANGED numValue
  /\ UNCHANGED UpTo9 => UNCHANGED UpTo8 /\ UNCHANGED hexVars
  /\ UNCHANGED UpTo8 => UNCHANGED UpTo7 /\ UNCHANGED gdVars
  /\ UNCHANGED UpTo7 => UNCHANGED UpTo6 /\ UNCHANGED liVars
  /\ UNCHANGED UpTo6 => UNCHANGED UpTo5 /\ UNCHANGED spVars
  /\ UNCHANGED UpTo5 => UNCHANGED UpTo4 /\ UNCHANGED dateVars
  /\ UNCHANGED UpTo4 => UNCHANGED UpTo3 /\ UNCHANGED strVars
  /\ UNCHANGED UpTo3 => UNCHANGED UpTo2 /\ UNCHANGED listVars
BY DEF UpTo2, UpTo3, UpTo4, UpTo5, UpTo6, UpTo7, UpTo8, UpTo9, UpTo10, UpTo11, UpTo12

LEMMA UtilsFrom ==
  /\ UNCHANGED From2 => UNCHANGED From3
  /\ UNCHANGED From3 => UNCHANGED From4 /\ UNCHANGED listVars
  /\ UNCHANGED From4 => UNCHANGED From5 /\ UNCHANGED strVars
  /\ UNCHANGED From5 => UNCHANGED From6 /\ UNCHANGED dateVars
  /\ UNCHANGED From6 => UNCHANGED From7 /\ UNCHANGED spVars
  /\ UNCHANGED From7 => UNCHANGED From8 /\ UNCHANGED liVars
  /\ UNCHANGED From8 => UNCHANGED From9 /\ UNCHANGED gdVars
  /\ UNCHANGED From9 => UNCHANGED From10 /\ UNCHANGED hexVars
  /\ UNCHANGED From10 => UNCHANGED From11 /\ UNCHANGED numValue
  /\ UNCHANGED From11 => UNCHANGED From12 /\ UNCHANGED crcVars
  /\ UNCHANGED From12 => UNCHANGED From13 /\ UNCHANGED endVars
  /\ UNCHANGED From13 => UNCHANGED splitVars
BY DEF From2, From3, From4, From5, From6, From7, From8, From9, From10, From11, From12, From13

LEMMA UtilsSteps ==
  ASSUME [MCNext]_MCVars
  PROVE  /\ ListNext \/ UNCHANGED listVars
         /\ StrNext \/ UNCHANGED strVars
         /\ NextDay \/ UNCHANGED dateVars
         /\ SpNext \/ UNCHANGED spVars
         /\ LiNext \/ UNCHANGED liVars
         /\ GdNext \/ UNCHANGED gdVars
         /\ HexNext \/ UNCHANGED hexVars
         /\ NumNext \/ UNCHANGED numValue
         /\ CrcNext \/ UNCHANGED crcVars
         /\ EndNext \/ UNCHANGED endVars
         /\ SplitNext \/ UNCHANGED splitVars
<1>1. CASE UNCHANGED MCVars
  <2>1. UNCHANGED UpTo12 /\ UNCHANGED From13
    BY <1>1 DEF MCVars
  <2> QED BY <2>1, UtilsUpTo, UtilsFrom
<1>2. CASE MCNext
  BY <1>2, UtilsUpTo, UtilsFrom DEF MCNext, NumNext
<1> QED BY <1>1, <1>2

LEMMA UtilsInits ==
  MCInit => ListInit /\ StrInit /\ DateInit /\ SpInit /\ LiInit /\ GdInit /\ HexInit /\ CrcInit /\ EndInit
            /\ SplitInit /\ numValue = NoNumber
BY DEF MCInit

-----------------------------------------------------------------------------
(* The strings: StrIs(s, q), the object s holds the text q, is kept by every *)
(* operation, with the text that its specification says.                     *)

StrBytes == Chars \cup {NUL}
StrShape(s) ==
  /\ s \in [kind : {"initial", "heap", "static"}, bytes : Seq(StrBytes), size : Nat, blocks : Nat]
  /\ s.size <= Len(s.bytes)
  /\ s.blocks = IF s.kind = "heap" THEN 1 ELSE 0
\* The object s holds the text q.
StrIs(s, q) ==
  /\ StrShape(s) /\ q \in Seq(StrBytes) /\ Len(q) = s.size
  /\ \A i \in 1 .. s.size : s.bytes[i] = q[i]
StrInv == StrIs(str, strText)

\* The powers up to the N-th: they exist, and one of them is at least v and less than twice v.
IsPowers(f, N) == f = [k \in 0 .. N |-> IF k = 0 THEN 1 ELSE 2 * f[k - 1]]

LEMMA PowersGoOn ==
  ASSUME NEW N \in Nat, NEW f, IsPowers(f, N)
  PROVE  f[0] = 1 /\ \A k \in 1 .. N : f[k] = 2 * f[k - 1]
<1>1. \A k \in 0 .. N : f[k] = IF k = 0 THEN 1 ELSE 2 * f[k - 1]
  BY Zenon DEF IsPowers
<1> QED BY <1>1

LEMMA PowersBuild ==
  \A N \in Nat : \E f : IsPowers(f, N)
<1> DEFINE S == {N \in Nat : \E f : IsPowers(f, N)}
<1>1. 0 \in S
  <2> DEFINE f == [k \in 0 .. 0 |-> 1]
  <2>1. f = [k \in 0 .. 0 |-> IF k = 0 THEN 1 ELSE 2 * f[k - 1]]
    OBVIOUS
  <2> HIDE DEF f
  <2>2. IsPowers(f, 0)
    BY <2>1, Zenon DEF IsPowers
  <2> QED BY <2>2
<1>2. ASSUME NEW N \in Nat, N \in S PROVE N + 1 \in S
  <2>1. PICK f : IsPowers(f, N)
    BY <1>2
  <2> DEFINE last == 2 * f[N]
             g == [k \in 0 .. N + 1 |-> IF k = N + 1 THEN last ELSE f[k]]
  <2> HIDE DEF last
  <2>2. ASSUME NEW k \in 0 .. N + 1
        PROVE  g[k] = IF k = 0 THEN 1 ELSE 2 * g[k - 1]
    <3>1. CASE k = N + 1
      <4>1. k # 0 /\ k - 1 = N /\ N \in 0 .. N + 1 /\ N # N + 1
        BY <3>1
      <4>2. g[k - 1] = f[N] /\ g[k] = last
        BY <3>1, <4>1
      <4> HIDE DEF g
      <4> QED BY <4>1, <4>2 DEF last
    <3>2. CASE k # N + 1
      <4>1. k \in 0 .. N /\ g[k] = f[k]
        BY <3>2
      <4>2. CASE k = 0
        BY <2>1, <4>1, <4>2, PowersGoOn
      <4>3. CASE k # 0
        <5>1. k - 1 \in 0 .. N + 1 /\ k - 1 # N + 1 /\ k \in 1 .. N
          BY <4>1, <4>3
        <5>2. g[k - 1] = f[k - 1]
          BY <5>1
        <5> HIDE DEF g
        <5>3. f[k] = 2 * f[k - 1]
          BY <2>1, <5>1, PowersGoOn
        <5> QED BY <4>1, <4>3, <5>2, <5>3
      <4> QED BY <4>2, <4>3
    <3> QED BY <3>1, <3>2
  <2>3. g = [k \in 0 .. N + 1 |-> g[k]]
    OBVIOUS
  <2> HIDE DEF g
  <2>4. IsPowers(g, N + 1)
    BY <2>2, <2>3, Zenon DEF IsPowers
  <2> QED BY <2>4
<1> HIDE DEF S
<1>3. \A N \in Nat : N \in S
  BY <1>1, <1>2, NumbersByInduction
<1> QED BY <1>3 DEF S

\* v is passed by a power that is less than twice v.
Passed(f, v) == \E k \in 0 .. v : f[k] \in Nat /\ f[k] >= v /\ f[k] < 2 * v

LEMMA PowerBetween ==
  ASSUME NEW N \in Nat, NEW f, IsPowers(f, N), NEW v \in 1 .. N
  PROVE  Passed(f, v)
<1> DEFINE S == {m \in Nat : m + 1 <= N => Passed(f, m + 1)}
<1>1. f[0] = 1 /\ \A k \in 1 .. N : f[k] = 2 * f[k - 1]
  BY PowersGoOn
<1>2. 0 \in S
  <2>1. 0 \in 0 .. 1 /\ f[0] \in Nat /\ f[0] >= 1 /\ f[0] < 2 * 1
    BY <1>1
  <2>2. Passed(f, 1)
    BY <2>1 DEF Passed
  <2> QED BY <2>2
<1>3. ASSUME NEW m \in Nat, m \in S PROVE m + 1 \in S
  <2> SUFFICES ASSUME m + 2 <= N PROVE Passed(f, m + 2)
    BY DEF Passed
  <2>0. Passed(f, m + 1)
    BY <1>3
  <2>1. PICK k \in 0 .. m + 1 : f[k] \in Nat /\ f[k] >= m + 1 /\ f[k] < 2 * (m + 1)
    BY <2>0 DEF Passed
  <2>2. CASE f[k] >= m + 2
    <3>1. k \in 0 .. m + 2 /\ f[k] < 2 * (m + 2)
      BY <2>1
    <3> QED BY <2>1, <2>2, <3>1 DEF Passed
  <2>3. CASE f[k] = m + 1
    <3> DEFINE h == k + 1
    <3>1. h \in 0 .. m + 2 /\ h \in 1 .. N /\ h - 1 = k
      OBVIOUS
    <3> HIDE DEF h
    <3>2. f[h] = 2 * f[k]
      BY <1>1, <3>1
    <3>3. f[h] = 2 * (m + 1)
      BY <2>3, <3>2
    <3>4. f[h] \in Nat /\ f[h] >= m + 2 /\ f[h] < 2 * (m + 2)
      BY <3>3
    <3> QED BY <3>1, <3>4 DEF Passed
  <2> QED BY <2>1, <2>2, <2>3
<1>4. \A m \in Nat : m \in S
  <2> HIDE DEF S
  <2> QED BY <1>2, <1>3, NumbersByInduction
<1> DEFINE m == v - 1
<1>5. m \in Nat /\ m + 1 = v /\ m + 1 <= N
  OBVIOUS
<1> HIDE DEF m
<1>6. Passed(f, m + 1)
  BY <1>4, <1>5
<1> QED BY <1>5, <1>6

LEMMA NextPower ==
  ASSUME NEW v \in Nat \ {0}
  PROVE  /\ nextPowerOfTwo(v) \in Nat /\ nextPowerOfTwo(v) >= v /\ nextPowerOfTwo(v) < 2 * v
<1> DEFINE power[k \in 0 .. v] == IF k = 0 THEN 1 ELSE 2 * power[k - 1]
<1>1. IsPowers(power, v)
  <2>1. \E f : IsPowers(f, v)
    BY PowersBuild
  <2> QED BY <2>1, Zenon DEF IsPowers
<1>2. nextPowerOfTwo(v) = CHOOSE p \in {power[k] : k \in 0 .. v} : p >= v /\ p < 2 * v
  BY Zenon DEF nextPowerOfTwo
<1> HIDE DEF power
<1>3. PICK k \in 0 .. v : power[k] \in Nat /\ power[k] >= v /\ power[k] < 2 * v
  <2>1. v \in 1 .. v /\ v \in Nat
    OBVIOUS
  <2>2. Passed(power, v)
    BY <1>1, <2>1, PowerBetween
  <2> QED BY <2>2 DEF Passed
<1>4. nextPowerOfTwo(v) \in {power[i] : i \in 0 .. v} /\ nextPowerOfTwo(v) >= v /\ nextPowerOfTwo(v) < 2 * v
  BY <1>2, <1>3
<1>5. \A i \in 0 .. v : power[i] \in Nat
  <2> DEFINE S == {i \in Nat : i <= v => power[i] \in Nat}
  <2>1. power[0] = 1 /\ \A i \in 1 .. v : power[i] = 2 * power[i - 1]
    BY <1>1, PowersGoOn
  <2>2. 0 \in S
    BY <2>1
  <2>3. ASSUME NEW i \in Nat, i \in S PROVE i + 1 \in S
    <3> SUFFICES ASSUME i + 1 <= v PROVE power[i + 1] \in Nat
      OBVIOUS
    <3>1. i + 1 \in 1 .. v /\ (i + 1) - 1 = i /\ power[i] \in Nat
      BY <2>3
    <3>2. power[i + 1] = 2 * power[i]
      BY <2>1, <3>1
    <3> QED BY <3>1, <3>2
  <2> HIDE DEF S
  <2>4. \A i \in Nat : i \in S
    BY <2>2, <2>3, NumbersByInduction
  <2> QED BY <2>4 DEF S
<1> QED BY <1>4, <1>5

LEMMA WriteAtIs ==
  ASSUME NEW b1 \in Seq(StrBytes), NEW at \in Nat, NEW q \in Seq(StrBytes)
  PROVE  /\ WriteAt(b1, at, q) \in Seq(StrBytes) /\ Len(WriteAt(b1, at, q)) = Len(b1)
         /\ \A i \in 1 .. Len(b1) :
              WriteAt(b1, at, q)[i] = IF i \in at + 1 .. at + Len(q) THEN q[i - at] ELSE b1[i]
<1>1. Len(b1) \in Nat /\ Len(q) \in Nat
  BY LenProperties
<1>2. \A i \in 1 .. Len(b1) : (IF i \in at + 1 .. at + Len(q) THEN q[i - at] ELSE b1[i]) \in StrBytes
  <2> TAKE i \in 1 .. Len(b1)
  <2>1. CASE i \in at + 1 .. at + Len(q)
    <3>1. i - at \in 1 .. Len(q)
      BY <1>1, <2>1
    <3> QED BY <2>1, <3>1, ElementOfSeq
  <2>2. CASE i \notin at + 1 .. at + Len(q)
    BY <2>2, ElementOfSeq
  <2> QED BY <2>1, <2>2
<1> DEFINE e(i) == IF i \in at + 1 .. at + Len(q) THEN q[i - at] ELSE b1[i]
           w == [i \in 1 .. Len(b1) |-> e(i)]
<1>3. WriteAt(b1, at, q) = w
  BY Zenon DEF WriteAt
<1>4. \A i \in 1 .. Len(b1) : e(i) \in StrBytes
  BY <1>2
<1> HIDE DEF e
<1>5. w \in Seq(StrBytes)
  BY <1>1, <1>4, IsASeq
<1>6. Len(w) = Len(b1) /\ \A i \in 1 .. Len(b1) : w[i] = e(i)
  BY <1>1
<1> QED BY <1>3, <1>5, <1>6 DEF e

LEMMA BlankIs ==
  ASSUME NEW n \in Nat
  PROVE  /\ [i \in 1 .. n |-> NUL] \in Seq(StrBytes) /\ Len([i \in 1 .. n |-> NUL]) = n
<1>1. \A i \in 1 .. n : NUL \in StrBytes
  BY DEF StrBytes
<1> QED BY <1>1, IsASeq

LEMMA StrFacts ==
  ASSUME NEW s, StrShape(s)
  PROVE  /\ s.bytes \in Seq(StrBytes) /\ Len(s.bytes) \in Nat /\ s.size \in Nat /\ s.size <= Len(s.bytes)
         /\ s = [kind |-> s.kind, bytes |-> s.bytes, size |-> s.size, blocks |-> s.blocks]
<1>1. s.bytes \in Seq(StrBytes)
  BY DEF StrShape
<1> QED BY <1>1, LenProperties DEF StrShape

\* The object with other bytes and another size.
Resized(s, B, n) == [kind |-> s.kind, bytes |-> B, size |-> n, blocks |-> s.blocks]

LEMMA StrSetBytes ==
  ASSUME NEW s, StrShape(s), NEW B, NEW t, t = [s EXCEPT !.bytes = B]
  PROVE  t = Resized(s, B, s.size)
<1> DEFINE k == s.kind
           b1 == s.bytes
           z == s.size
           c == s.blocks
           x == [kind |-> k, bytes |-> b1, size |-> z, blocks |-> c]
<1>1. s = x
  BY StrFacts
<1> HIDE DEF k, b1, z, c, x
<1>2. [x EXCEPT !.bytes = B] = [kind |-> k, bytes |-> B, size |-> z, blocks |-> c]
  BY DEF x
<1> QED BY <1>1, <1>2, Zenon DEF k, z, c, Resized

LEMMA StrSetSize ==
  ASSUME NEW s, StrShape(s), NEW n, NEW t, t = [s EXCEPT !.size = n]
  PROVE  t = Resized(s, s.bytes, n)
<1> DEFINE k == s.kind
           b1 == s.bytes
           z == s.size
           c == s.blocks
           x == [kind |-> k, bytes |-> b1, size |-> z, blocks |-> c]
<1>1. s = x
  BY StrFacts
<1> HIDE DEF k, b1, z, c, x
<1>2. [x EXCEPT !.size = n] = [kind |-> k, bytes |-> b1, size |-> n, blocks |-> c]
  BY DEF x
<1> QED BY <1>1, <1>2, Zenon DEF k, b1, c, Resized

LEMMA StrSetBoth ==
  ASSUME NEW s, StrShape(s), NEW B, NEW n, NEW t, t = [s EXCEPT !.bytes = B, !.size = n]
  PROVE  t = Resized(s, B, n)
<1> DEFINE k == s.kind
           b1 == s.bytes
           z == s.size
           c == s.blocks
           x == [kind |-> k, bytes |-> b1, size |-> z, blocks |-> c]
<1>1. s = x
  BY StrFacts
<1> HIDE DEF k, b1, z, c, x
<1> DEFINE y == [x EXCEPT !.bytes = B]
<1>2. t = [y EXCEPT !.size = n]
  BY <1>1, Zenon
<1>3. y = [kind |-> k, bytes |-> B, size |-> z, blocks |-> c]
  BY DEF x
<1> HIDE DEF y
<1>4. [y EXCEPT !.size = n] = [kind |-> k, bytes |-> B, size |-> n, blocks |-> c]
  BY <1>3
<1> QED BY <1>2, <1>4, Zenon DEF k, c, Resized

LEMMA ResizedFields ==
  ASSUME NEW s, NEW B, NEW n
  PROVE  /\ Resized(s, B, n).kind = s.kind /\ Resized(s, B, n).bytes = B
         /\ Resized(s, B, n).size = n /\ Resized(s, B, n).blocks = s.blocks
         /\ \A C, m : Resized(Resized(s, B, n), C, m) = Resized(s, C, m)
BY DEF Resized

LEMMA StrChanged ==
  ASSUME NEW s, StrShape(s), NEW B \in Seq(StrBytes), Len(B) >= Len(s.bytes),
         NEW r \in Seq(StrBytes), Len(r) <= Len(B), \A i \in 1 .. Len(r) : B[i] = r[i]
  PROVE  StrIs(Resized(s, B, Len(r)), r)
<1> DEFINE t == Resized(s, B, Len(r))
<1>1. Len(r) \in Nat
  BY LenProperties
<1>2. t.kind = s.kind /\ t.bytes = B /\ t.size = Len(r) /\ t.blocks = s.blocks
  BY ResizedFields
<1>3. StrShape(t)
  <2>1. s.kind \in {"initial", "heap", "static"} /\ s.blocks \in Nat
    BY DEF StrShape
  <2>2. t \in [kind : {"initial", "heap", "static"}, bytes : Seq(StrBytes), size : Nat, blocks : Nat]
    BY <1>1, <2>1 DEF Resized
  <2>3. s.blocks = IF s.kind = "heap" THEN 1 ELSE 0
    BY DEF StrShape
  <2> HIDE DEF t
  <2> QED BY <1>2, <2>2, <2>3 DEF StrShape
<1> HIDE DEF t
<1> QED BY <1>2, <1>3 DEF StrIs, t

LEMMA StrFirst ==
  ASSUME NEW s, NEW q, StrIs(s, q), NEW n \in 0 .. Len(q)
  PROVE  /\ SubSeq(q, 1, n) \in Seq(StrBytes) /\ Len(SubSeq(q, 1, n)) = n
         /\ \A i \in 1 .. n : SubSeq(q, 1, n)[i] = q[i]
<1>1. q \in Seq(StrBytes) /\ Len(q) \in Nat
  BY LenProperties DEF StrIs
<1>2. \A i \in 1 .. n : q[i] \in StrBytes
  BY <1>1, ElementOfSeq
<1> QED BY <1>1, <1>2, SubSeqProperties

\* Growing keeps the text.
LEMMA GrowIs ==
  ASSUME NEW s, NEW q, StrIs(s, q), NEW n \in Nat
  PROVE  StrIs(grow(s, n), q) /\ Len(grow(s, n).bytes) >= n + 1
<1>1. StrShape(s) /\ q \in Seq(StrBytes) /\ Len(q) = s.size /\ \A i \in 1 .. s.size : s.bytes[i] = q[i]
  BY DEF StrIs
<1>2. s.bytes \in Seq(StrBytes) /\ Len(s.bytes) \in Nat /\ s.size \in Nat /\ s.size <= Len(s.bytes)
  BY <1>1, StrFacts
<1>3. CASE n + 1 <= Len(s.bytes)
  BY <1>3 DEF grow
<1>4. CASE ~(n + 1 <= Len(s.bytes))
  <2> DEFINE p == nextPowerOfTwo(n + 1)
             e(i) == IF i <= s.size THEN s.bytes[i] ELSE NUL
             B == [i \in 1 .. p |-> e(i)]
             k == IF s.kind = "heap" THEN s.blocks ELSE s.blocks + 1
             t == [kind |-> "heap", size |-> s.size, blocks |-> k, bytes |-> B]
  <2>1. p \in Nat /\ p >= n + 1
    <3>1. n + 1 \in Nat \ {0}
      OBVIOUS
    <3> QED BY <3>1, NextPower
  <2>2. grow(s, n) = t
    BY <1>4, Zenon DEF grow
  <2> HIDE DEF p
  <2>3. \A i \in 1 .. p : e(i) \in StrBytes
    <3> TAKE i \in 1 .. p
    <3>1. CASE i <= s.size
      <4>1. i \in 1 .. Len(s.bytes)
        BY <1>2, <2>1, <3>1
      <4> QED BY <1>2, <3>1, <4>1, ElementOfSeq
    <3>2. CASE ~(i <= s.size)
      BY <3>2 DEF StrBytes
    <3> QED BY <3>1, <3>2
  <2>4. \A i \in 1 .. s.size : e(i) = s.bytes[i]
    BY <1>2
  <2> HIDE DEF e
  <2>5. B \in Seq(StrBytes)
    BY <2>1, <2>3, IsASeq
  <2>6. Len(B) = p /\ \A i \in 1 .. p : B[i] = e(i)
    BY <2>1
  <2> HIDE DEF B
  <2>7. k = 1
    BY <1>1 DEF StrShape
  <2> HIDE DEF k
  <2>8. t \in [kind : {"initial", "heap", "static"}, bytes : Seq(StrBytes), size : Nat, blocks : Nat]
    BY <1>2, <2>5, <2>7
  <2>9. t.kind = "heap" /\ t.size = s.size /\ t.blocks = k /\ t.bytes = B
    OBVIOUS
  <2> HIDE DEF t
  <2>10. s.size <= p
    BY <1>2, <1>4, <2>1
  <2>11. StrShape(t)
    BY <2>6, <2>7, <2>8, <2>9, <2>10 DEF StrShape
  <2>12. \A i \in 1 .. s.size : B[i] = q[i]
    BY <1>1, <1>2, <2>1, <2>4, <2>6, <2>10
  <2> QED BY <1>1, <2>1, <2>2, <2>6, <2>9, <2>11, <2>12 DEF StrIs
<1> QED BY <1>3, <1>4

LEMMA GrowToIs ==
  ASSUME NEW s, NEW q, StrIs(s, q), NEW n \in Nat
  PROVE  StrIs(GrowTo(s, n), q) /\ Len(GrowTo(s, n).bytes) >= n
<1>1. Len(s.bytes) \in Nat
  BY StrFacts DEF StrIs
<1>2. CASE Len(s.bytes) < n
  <2>1. StrIs(grow(s, n), q) /\ Len(grow(s, n).bytes) >= n + 1
    BY GrowIs
  <2>2. Len(grow(s, n).bytes) \in Nat
    BY <2>1, StrFacts DEF StrIs
  <2> QED BY <1>2, <2>1, <2>2 DEF GrowTo
<1>3. CASE ~(Len(s.bytes) < n)
  BY <1>1, <1>3 DEF GrowTo
<1> QED BY <1>2, <1>3

\* The object can always be seen as holding what its bytes are.
LEMMA StrHasText ==
  ASSUME NEW s, StrShape(s)
  PROVE  StrIs(s, SubSeq(s.bytes, 1, s.size))
<1>1. s.bytes \in Seq(StrBytes) /\ Len(s.bytes) \in Nat /\ s.size \in Nat /\ s.size <= Len(s.bytes)
  BY StrFacts
<1>2. \A i \in 1 .. s.size : s.bytes[i] \in StrBytes
  BY <1>1, ElementOfSeq
<1> DEFINE q == SubSeq(s.bytes, 1, s.size)
<1>3. q \in Seq(StrBytes) /\ Len(q) = s.size /\ \A i \in 1 .. s.size : q[i] = s.bytes[i]
  BY <1>1, <1>2, SubSeqProperties
<1> HIDE DEF q
<1> QED BY <1>3 DEF StrIs, q

\* Two texts of one object are the same.
LEMMA StrOneText ==
  ASSUME NEW s, NEW q, NEW r, StrIs(s, q), r \in Seq(StrBytes), Len(r) = s.size,
         \A i \in 1 .. s.size : s.bytes[i] = r[i]
  PROVE  q = r
<1>1. q \in Seq(StrBytes) /\ Len(q) = Len(r) /\ \A i \in 1 .. Len(q) : q[i] = r[i]
  BY DEF StrIs
<1> QED BY <1>1, SeqEqual

LEMMA InitIs ==
  /\ StrIs(NewString, <<>>) /\ NewString.kind = "initial" /\ NewString.blocks = 0
  /\ \A k : k = 0 => [NewString EXCEPT !.blocks = k] = NewString
<1> DEFINE B == [i \in 1 .. InitialSize |-> NUL]
<1>1. B \in Seq(StrBytes) /\ Len(B) = InitialSize /\ InitialSize \in Nat
  BY StringAssumption, BlankIs
<1> HIDE DEF B
<1>2. NewString = [kind |-> "initial", bytes |-> B, size |-> 0, blocks |-> 0]
  BY DEF NewString, B
<1>3. NewString \in [kind : {"initial", "heap", "static"}, bytes : Seq(StrBytes), size : Nat, blocks : Nat]
  BY <1>1, <1>2
<1>4. StrShape(NewString)
  BY <1>1, <1>2, <1>3 DEF StrShape
<1>5. <<>> \in Seq(StrBytes) /\ Len(<<>>) = 0
  BY EmptySeq
<1>6. \A k : k = 0 => [NewString EXCEPT !.blocks = k] = NewString
  BY <1>2
<1> QED BY <1>2, <1>4, <1>5, <1>6 DEF StrIs

LEMMA ClearIs ==
  ASSUME NEW s, NEW q, StrIs(s, q)
  PROVE  StrIs(clear(s), <<>>)
<1>1. StrShape(s)
  BY DEF StrIs
<1>2. CASE s.kind = "static"
  <2>1. s.blocks = 0
    BY <1>1, <1>2 DEF StrShape
  <2>2. [NewString EXCEPT !.blocks = s.blocks] = NewString
    BY <2>1, InitIs
  <2>3. clear(s) = NewString
    BY <1>2, <2>2, Zenon DEF clear
  <2> QED BY <2>3, InitIs
<1>3. CASE s.kind # "static"
  <2> DEFINE n == s.size
             blank == [i \in 1 .. n |-> NUL]
             B == WriteAt(s.bytes, 0, blank)
             e == <<>>
  <2>1. s.bytes \in Seq(StrBytes) /\ s.size \in Nat /\ Len(s.bytes) \in Nat
    BY <1>1, StrFacts
  <2>2. blank \in Seq(StrBytes)
    BY <2>1, BlankIs
  <2> HIDE DEF blank
  <2>3. B \in Seq(StrBytes) /\ Len(B) = Len(s.bytes)
    BY <2>1, <2>2, WriteAtIs
  <2>4. e \in Seq(StrBytes) /\ Len(e) = 0
    BY EmptySeq
  <2>5. clear(s) = [s EXCEPT !.bytes = B, !.size = 0]
    BY <1>3, Zenon DEF clear, blank
  <2>0. e = <<>>
    OBVIOUS
  <2> HIDE DEF B, e
  <2>6. clear(s) = Resized(s, B, 0)
    BY <1>1, <2>5, StrSetBoth, Zenon
  <2>9. Len(B) >= Len(s.bytes) /\ Len(e) <= Len(B) /\ \A i \in 1 .. Len(e) : B[i] = e[i]
    BY <2>1, <2>3, <2>4
  <2>7. StrIs(Resized(s, B, Len(e)), e)
    BY <1>1, <2>3, <2>4, <2>9, StrChanged
  <2>8. StrIs(Resized(s, B, 0), e)
    BY <2>4, <2>7
  <2> QED BY <2>0, <2>6, <2>8, Zenon
<1> QED BY <1>2, <1>3

LEMMA DtorIs ==
  ASSUME NEW s, NEW q, StrIs(s, q)
  PROVE  dtor(s) = NewString
<1>1. s.blocks = IF s.kind = "heap" THEN 1 ELSE 0
  BY DEF StrIs, StrShape
<1>2. (IF s.kind = "heap" THEN s.blocks - 1 ELSE s.blocks) = 0
  BY <1>1
<1> QED BY <1>2, InitIs DEF dtor

\* Writing a text at the beginning makes it the text.
LEMMA PutFirst ==
  ASSUME NEW s, StrShape(s), NEW q \in Seq(StrBytes), Len(q) <= Len(s.bytes)
  PROVE  /\ WriteAt(s.bytes, 0, q) \in Seq(StrBytes) /\ Len(WriteAt(s.bytes, 0, q)) = Len(s.bytes)
         /\ StrIs(Resized(s, WriteAt(s.bytes, 0, q), Len(q)), q)
<1> DEFINE B == WriteAt(s.bytes, 0, q)
<1>1. s.bytes \in Seq(StrBytes) /\ Len(s.bytes) \in Nat /\ Len(q) \in Nat
  BY StrFacts, LenProperties
<1>2. /\ B \in Seq(StrBytes) /\ Len(B) = Len(s.bytes)
      /\ \A i \in 1 .. Len(s.bytes) : B[i] = IF i \in 0 + 1 .. 0 + Len(q) THEN q[i - 0] ELSE s.bytes[i]
  BY <1>1, WriteAtIs
<1>3. \A i \in 1 .. Len(q) : B[i] = q[i]
  BY <1>1, <1>2
<1> HIDE DEF B
<1>4. StrIs(Resized(s, B, Len(q)), q)
  BY <1>1, <1>2, <1>3, StrChanged
<1> QED BY <1>2, <1>4 DEF B

LEMMA AssignBytesIs ==
  ASSUME NEW s, NEW r, StrIs(s, r), NEW q \in Seq(StrBytes)
  PROVE  StrIs(assignBytes(s, q), q)
<1> DEFINE t == GrowTo(clear(s), Len(q))
           B == WriteAt(t.bytes, 0, q)
<1>1. Len(q) \in Nat
  BY LenProperties
<1>2. StrIs(t, <<>>) /\ Len(t.bytes) >= Len(q)
  BY <1>1, ClearIs, GrowToIs
<1>3. assignBytes(s, q) = [t EXCEPT !.bytes = B, !.size = Len(q)]
  BY Zenon DEF assignBytes
<1> HIDE DEF t
<1>4. StrShape(t) /\ Len(t.bytes) \in Nat
  BY <1>2, StrFacts DEF StrIs
<1>5. StrIs(Resized(t, B, Len(q)), q)
  BY <1>1, <1>2, <1>4, PutFirst
<1> HIDE DEF B
<1>6. assignBytes(s, q) = Resized(t, B, Len(q))
  BY <1>3, <1>4, StrSetBoth, Zenon
<1> QED BY <1>5, <1>6, Zenon

LEMMA AssignIs ==
  ASSUME NEW s, NEW r, StrIs(s, r), NEW q \in Seq(StrBytes)
  PROVE  StrIs(assign(s, q), q)
<1> DEFINE u == GrowTo(s, Len(q) + 1)
           t == assignBytes(u, q)
           e == <<NUL>>
           B == WriteAt(t.bytes, Len(q), e)
<1>1. Len(q) \in Nat /\ Len(q) + 1 \in Nat
  BY LenProperties
<1>2. StrIs(u, r)
  BY <1>1, GrowToIs
<1>3. StrIs(t, q)
  <2> HIDE DEF u
  <2> QED BY <1>2, AssignBytesIs
<1>4. e \in Seq(StrBytes)
  BY DEF StrBytes
<1>5. assign(s, q) = [t EXCEPT !.bytes = B]
  BY Zenon DEF assign
<1> HIDE DEF t, e
<1>6. StrShape(t) /\ t.size = Len(q) /\ \A i \in 1 .. Len(q) : t.bytes[i] = q[i]
  BY <1>3 DEF StrIs
<1>7. t.bytes \in Seq(StrBytes) /\ Len(t.bytes) \in Nat /\ Len(q) <= Len(t.bytes)
  BY <1>6, StrFacts
<1>8. /\ B \in Seq(StrBytes) /\ Len(B) = Len(t.bytes)
      /\ \A i \in 1 .. Len(t.bytes) :
           B[i] = IF i \in Len(q) + 1 .. Len(q) + Len(e) THEN e[i - Len(q)] ELSE t.bytes[i]
  BY <1>1, <1>4, <1>7, WriteAtIs
<1>9. \A i \in 1 .. Len(q) : B[i] = q[i]
  BY <1>1, <1>6, <1>7, <1>8
<1> HIDE DEF B
<1>10. StrIs(Resized(t, B, Len(q)), q)
  BY <1>6, <1>7, <1>8, <1>9, StrChanged
<1>11. assign(s, q) = Resized(t, B, t.size)
  BY <1>5, <1>6, StrSetBytes, Zenon
<1> QED BY <1>6, <1>10, <1>11, Zenon

LEMMA AssignStaticIs ==
  ASSUME NEW s, NEW r, StrIs(s, r), NEW q \in Seq(StrBytes)
  PROVE  StrIs(assign_static(s, q), q)
<1> DEFINE x == dtor(s)
           n == Len(q)
           t == [kind |-> "static", bytes |-> q, size |-> n, blocks |-> 0]
<1>1. x = NewString
  BY DtorIs
<1>2. \E B : x = [kind |-> "initial", bytes |-> B, size |-> 0, blocks |-> 0]
  BY <1>1 DEF NewString
<1>3. PICK B : x = [kind |-> "initial", bytes |-> B, size |-> 0, blocks |-> 0]
  BY <1>2
<1>4. assign_static(s, q) = [x EXCEPT !.kind = "static", !.bytes = q, !.size = n]
  BY Zenon DEF assign_static
<1> HIDE DEF x, n
<1>5. [x EXCEPT !.kind = "static"] = [kind |-> "static", bytes |-> B, size |-> 0, blocks |-> 0]
  BY <1>3
<1> DEFINE y == [x EXCEPT !.kind = "static"]
           z == [y EXCEPT !.bytes = q]
<1>6. [x EXCEPT !.kind = "static", !.bytes = q, !.size = n] = [z EXCEPT !.size = n]
  BY Zenon
<1>7. y = [kind |-> "static", bytes |-> B, size |-> 0, blocks |-> 0]
  BY <1>5
<1> HIDE DEF y
<1>8. z = [kind |-> "static", bytes |-> q, size |-> 0, blocks |-> 0]
  BY <1>7
<1> HIDE DEF z
<1>9. [z EXCEPT !.size = n] = t
  BY <1>8
<1>10. n \in Nat
  BY LenProperties DEF n
<1>11. t \in [kind : {"initial", "heap", "static"}, bytes : Seq(StrBytes), size : Nat, blocks : Nat]
  BY <1>10
<1>12. t.kind = "static" /\ t.bytes = q /\ t.size = n /\ t.blocks = 0
  OBVIOUS
<1> HIDE DEF t
<1>13. StrShape(t)
  BY <1>10, <1>11, <1>12 DEF StrShape, n
<1>14. StrIs(t, q)
  BY <1>12, <1>13 DEF StrIs, n
<1> QED BY <1>4, <1>6, <1>9, <1>14, Zenon

\* Writing w anywhere makes it the text r, if r has w there and the old bytes elsewhere.
LEMMA PutAt ==
  ASSUME NEW s, StrShape(s), NEW at \in Nat, NEW w \in Seq(StrBytes),
         NEW r \in Seq(StrBytes), Len(r) <= Len(s.bytes),
         \A i \in 1 .. Len(r) : r[i] = IF i \in at + 1 .. at + Len(w) THEN w[i - at] ELSE s.bytes[i]
  PROVE  /\ WriteAt(s.bytes, at, w) \in Seq(StrBytes)
         /\ Len(WriteAt(s.bytes, at, w)) = Len(s.bytes)
         /\ StrIs(Resized(s, WriteAt(s.bytes, at, w), Len(r)), r)
<1> DEFINE B == WriteAt(s.bytes, at, w)
<1>1. s.bytes \in Seq(StrBytes) /\ Len(s.bytes) \in Nat /\ Len(r) \in Nat
  BY StrFacts, LenProperties
<1>2. /\ B \in Seq(StrBytes) /\ Len(B) = Len(s.bytes)
      /\ \A i \in 1 .. Len(s.bytes) :
           B[i] = IF i \in at + 1 .. at + Len(w) THEN w[i - at] ELSE s.bytes[i]
  BY <1>1, WriteAtIs
<1>3. \A i \in 1 .. Len(r) : i \in 1 .. Len(s.bytes)
  BY <1>1
<1>4. \A i \in 1 .. Len(r) : B[i] = r[i]
  BY <1>2, <1>3
<1> HIDE DEF B
<1>5. Len(B) >= Len(s.bytes) /\ Len(r) <= Len(B)
  BY <1>1, <1>2
<1>6. StrIs(Resized(s, B, Len(r)), r)
  BY <1>2, <1>4, <1>5, StrChanged
<1> QED BY <1>2, <1>6 DEF B

LEMMA SetLenFits ==
  ASSUME NEW s, StrShape(s), NEW n \in Nat, n <= Len(s.bytes)
  PROVE  set_len(s, n) = Resized(s, s.bytes, n)
<1>1. Len(s.bytes) \in Nat
  BY StrFacts
<1>2. GrowTo(s, n) = s
  BY <1>1 DEF GrowTo
<1> DEFINE m == IF n <= Len(s.bytes) THEN n ELSE Len(s.bytes)
<1>3. m = n
  OBVIOUS
<1>4. set_len(s, n) = [s EXCEPT !.size = m]
  BY <1>2, Zenon DEF set_len
<1> HIDE DEF m
<1>5. set_len(s, n) = [s EXCEPT !.size = n]
  BY <1>3, <1>4, Zenon
<1> QED BY <1>5, StrSetSize, Zenon

LEMMA SetLenIs ==
  ASSUME NEW s, NEW q, StrIs(s, q), NEW n \in 0 .. Len(q)
  PROVE  StrIs(set_len(s, n), SubSeq(q, 1, n))
<1> DEFINE r == SubSeq(q, 1, n)
<1>1. r \in Seq(StrBytes) /\ Len(r) = n /\ \A i \in 1 .. n : r[i] = q[i]
  BY StrFirst
<1>2. StrShape(s) /\ Len(q) = s.size /\ \A i \in 1 .. s.size : s.bytes[i] = q[i]
  BY DEF StrIs
<1>3. s.bytes \in Seq(StrBytes) /\ Len(s.bytes) \in Nat /\ s.size \in Nat /\ s.size <= Len(s.bytes)
  BY <1>2, StrFacts
<1>4. n \in Nat /\ n <= Len(s.bytes) /\ n <= s.size
  BY <1>2, <1>3
<1>5. \A i \in 1 .. Len(r) : s.bytes[i] = r[i]
  BY <1>1, <1>2, <1>3, <1>4
<1> HIDE DEF r
<1>6. StrIs(Resized(s, s.bytes, Len(r)), r)
  BY <1>1, <1>2, <1>3, <1>4, <1>5, StrChanged
<1>7. set_len(s, n) = Resized(s, s.bytes, n)
  BY <1>2, <1>4, SetLenFits
<1> QED BY <1>1, <1>6, <1>7, Zenon DEF r

LEMMA AppenduIs ==
  ASSUME NEW s, NEW r, StrIs(s, r), NEW q \in Seq(StrBytes)
  PROVE  StrIs(appendu(s, q), r \o q)
<1> DEFINE k == s.size
           n == k + Len(q)
           t == grow(s, n)
           B == WriteAt(t.bytes, k, q)
           u == [t EXCEPT !.bytes = B]
           c == r \o q
<1>1. r \in Seq(StrBytes) /\ Len(r) = k /\ k \in Nat /\ Len(q) \in Nat /\ n \in Nat
  BY StrFacts, LenProperties DEF StrIs
<1>2. StrIs(t, r) /\ Len(t.bytes) >= n + 1
  BY <1>1, GrowIs
<1>3. /\ c \in Seq(StrBytes) /\ Len(c) = n
      /\ \A i \in 1 .. n : c[i] = IF i <= k THEN r[i] ELSE q[i - k]
  <2>1. /\ c \in Seq(StrBytes) /\ Len(c) = Len(r) + Len(q)
        /\ \A i \in 1 .. Len(r) + Len(q) : c[i] = IF i <= Len(r) THEN r[i] ELSE q[i - Len(r)]
    BY <1>1, ConcatProperties, Zenon
  <2> HIDE DEF c, k
  <2> QED BY <1>1, <2>1
<1>4. appendu(s, q) = set_len(u, u.size + Len(q))
  BY Zenon DEF appendu, commit_append
<1> HIDE DEF t, c
<1>5. StrShape(t) /\ t.size = k /\ Len(t.bytes) \in Nat /\ \A i \in 1 .. k : t.bytes[i] = r[i]
  <2>1. StrShape(t) /\ t.size = k /\ \A i \in 1 .. k : t.bytes[i] = r[i]
    BY <1>1, <1>2 DEF StrIs
  <2> QED BY <2>1, StrFacts
<1>6. \A i \in 1 .. Len(c) : c[i] = IF i \in k + 1 .. k + Len(q) THEN q[i - k] ELSE t.bytes[i]
  <2> HIDE DEF k
  <2> TAKE i \in 1 .. Len(c)
  <2>1. CASE i <= k
    <3>1. i \in 1 .. k /\ i \in 1 .. n /\ i \notin k + 1 .. k + Len(q)
      BY <1>1, <1>3, <2>1
    <3> QED BY <1>3, <1>5, <2>1, <3>1
  <2>2. CASE ~(i <= k)
    <3>1. i \in k + 1 .. k + Len(q) /\ i \in 1 .. n
      BY <1>1, <1>3, <2>2
    <3> QED BY <1>3, <2>2, <3>1
  <2> QED BY <2>1, <2>2
<1>7. k \in Nat /\ Len(c) <= Len(t.bytes)
  BY <1>1, <1>2, <1>3, <1>5
<1> HIDE DEF k
<1>8. B \in Seq(StrBytes) /\ Len(B) = Len(t.bytes) /\ StrIs(Resized(t, B, Len(c)), c)
  BY <1>3, <1>5, <1>6, <1>7, PutAt
<1> HIDE DEF B
<1>9. u = Resized(t, B, k)
  BY <1>5, StrSetBytes, Zenon
<1> HIDE DEF u
<1>10. u.size = k /\ u.bytes = B /\ StrShape(u)
  <2>1. u.size = k /\ u.bytes = B /\ u.kind = t.kind /\ u.blocks = t.blocks
    BY <1>9 DEF Resized
  <2>2. k <= Len(B)
    BY <1>1, <1>2, <1>5, <1>8
  <2>3. t.kind \in {"initial", "heap", "static"} /\ t.blocks \in Nat
        /\ t.blocks = IF t.kind = "heap" THEN 1 ELSE 0
    BY <1>5 DEF StrShape
  <2>4. u \in [kind : {"initial", "heap", "static"}, bytes : Seq(StrBytes), size : Nat, blocks : Nat]
    BY <1>7, <1>8, <1>9, <2>3 DEF Resized
  <2> QED BY <2>1, <2>2, <2>3, <2>4 DEF StrShape
<1>11. n \in Nat /\ n <= Len(u.bytes) /\ u.size + Len(q) = n
  BY <1>1, <1>2, <1>5, <1>8, <1>10
<1> HIDE DEF n
<1>12. set_len(u, n) = Resized(u, B, n)
  BY <1>10, <1>11, SetLenFits
<1>13. Resized(u, B, n) = Resized(t, B, n)
  BY <1>9 DEF Resized
<1> QED BY <1>3, <1>4, <1>8, <1>11, <1>12, <1>13, Zenon DEF c

LEMMA TextUpToIs ==
  ASSUME NEW q \in Seq(StrBytes), NEW c
  PROVE  TextUpTo(q, c) \in 0 .. Len(q)
<1> DEFINE N == Len(q)
           T == {n \in 0 .. N : n = 0 \/ q[n] # c}
<1>1. N \in Nat
  BY LenProperties
<1> HIDE DEF N
<1>2. T \subseteq 0 .. N /\ T # {}
  BY <1>1
<1> HIDE DEF T
<1>3. PICK n \in T : \A m \in T : m <= n
  BY <1>1, <1>2, GreatestNumber
<1>4. n \in 0 .. N /\ (n = 0 \/ q[n] # c) /\ \A i \in n + 1 .. N : q[i] = c
  BY <1>1, <1>3 DEF T
<1> QED BY <1>4, Zenon DEF TextUpTo, N

\* An object and its text, taken apart.
LEMMA StrParts ==
  ASSUME NEW s, NEW q, StrIs(s, q)
  PROVE  /\ StrShape(s) /\ s.bytes \in Seq(StrBytes) /\ Len(s.bytes) \in Nat
         /\ q \in Seq(StrBytes) /\ Len(q) = s.size /\ s.size \in Nat /\ s.size <= Len(s.bytes)
         /\ \A i \in 1 .. s.size : s.bytes[i] = q[i]
BY StrFacts DEF StrIs

LEMMA StrText ==
  ASSUME NEW s, NEW q, StrIs(s, q)
  PROVE  SubSeq(s.bytes, 1, s.size) = q
<1>1. StrIs(s, SubSeq(s.bytes, 1, s.size))
  BY StrParts, StrHasText
<1>2. /\ q \in Seq(StrBytes) /\ Len(q) = s.size /\ \A i \in 1 .. s.size : s.bytes[i] = q[i]
  BY StrParts
<1> QED BY <1>1, <1>2, StrOneText

LEMMA TrimIs ==
  ASSUME NEW s, NEW q, StrIs(s, q), NEW c
  PROVE  StrIs(trim_char(s, c), SubSeq(q, 1, TextUpTo(q, c)))
<1> DEFINE n == TextUpTo(q, c)
           r == SubSeq(q, 1, n)
           m == s.size - n
           w == [i \in 1 .. m |-> NUL]
           B == WriteAt(s.bytes, n, w)
<1>1. /\ StrShape(s) /\ q \in Seq(StrBytes) /\ Len(q) = s.size /\ s.size \in Nat
      /\ s.bytes \in Seq(StrBytes) /\ Len(s.bytes) \in Nat /\ s.size <= Len(s.bytes)
      /\ \A i \in 1 .. s.size : s.bytes[i] = q[i]
  BY StrParts
<1>2. n \in 0 .. Len(q)
  BY <1>1, TextUpToIs
<1>3. trim_char(s, c) = [s EXCEPT !.bytes = B, !.size = n]
  BY StrText, Zenon DEF trim_char
<1> HIDE DEF n
<1>4. m \in Nat /\ n \in Nat /\ n <= s.size
  BY <1>1, <1>2
<1>5. r \in Seq(StrBytes) /\ Len(r) = n /\ \A i \in 1 .. n : r[i] = q[i]
  BY <1>2, StrFirst
<1> HIDE DEF m, r
<1>6. w \in Seq(StrBytes)
  BY <1>4, BlankIs
<1> HIDE DEF w
<1>7. \A i \in 1 .. Len(r) : r[i] = IF i \in n + 1 .. n + Len(w) THEN w[i - n] ELSE s.bytes[i]
  BY <1>1, <1>4, <1>5
<1>8. Len(r) <= Len(s.bytes)
  BY <1>1, <1>4, <1>5
<1>9. StrIs(Resized(s, B, Len(r)), r)
  BY <1>1, <1>4, <1>5, <1>6, <1>7, <1>8, PutAt
<1> HIDE DEF B
<1>10. trim_char(s, c) = Resized(s, B, n)
  BY <1>1, <1>3, StrSetBoth, Zenon
<1> QED BY <1>5, <1>9, <1>10, Zenon DEF n, r

LEMMA PushCharIs ==
  ASSUME NEW s, NEW q, StrIs(s, q), NEW c \in StrBytes
  PROVE  StrIs(push_char(s, c), Trimmed(q) \o <<c>>)
<1> DEFINE t == trim_char(s, NUL)
           k == t.size
           u == grow(t, k + 2)
           w == <<c, NUL>>
           B == WriteAt(u.bytes, k, w)
           r == Trimmed(q)
           x == <<c>>
           z == r \o x
<1>1. StrIs(t, r)
  BY TrimIs, Zenon DEF Trimmed
<1>2. push_char(s, c) = [u EXCEPT !.bytes = B, !.size = k + 1]
  BY Zenon DEF push_char
<1> HIDE DEF t, r
<1>3. r \in Seq(StrBytes) /\ Len(r) = k /\ k \in Nat
  BY <1>1, StrParts
<1>4. StrIs(u, r) /\ Len(u.bytes) >= (k + 2) + 1
  <2>1. k + 2 \in Nat
    BY <1>3
  <2> QED BY <1>1, <2>1, GrowIs
<1> HIDE DEF u, k
<1>5. /\ StrShape(u) /\ Len(u.bytes) \in Nat /\ \A i \in 1 .. k : u.bytes[i] = r[i]
  <2>1. /\ StrShape(u) /\ Len(u.bytes) \in Nat /\ Len(r) = u.size
        /\ \A i \in 1 .. u.size : u.bytes[i] = r[i]
    BY <1>4, StrParts, Zenon
  <2> QED BY <1>3, <2>1, Zenon
<1>6. x \in Seq(StrBytes) /\ Len(x) = 1 /\ x[1] = c
  OBVIOUS
<1>7. w \in Seq(StrBytes) /\ Len(w) = 2 /\ w[1] = c
  BY DEF StrBytes
<1> HIDE DEF x, w
<1>8. /\ z \in Seq(StrBytes) /\ Len(z) = Len(r) + Len(x)
      /\ \A i \in 1 .. Len(r) + Len(x) : z[i] = IF i <= Len(r) THEN r[i] ELSE x[i - Len(r)]
  BY <1>3, <1>6, ConcatProperties, Zenon
<1> HIDE DEF z
<1>9. Len(z) = k + 1
  BY <1>3, <1>6, <1>8
<1>10. \A i \in 1 .. Len(z) : z[i] = IF i \in k + 1 .. k + Len(w) THEN w[i - k] ELSE u.bytes[i]
  <2> TAKE i \in 1 .. Len(z)
  <2>1. CASE i <= k
    BY <1>3, <1>5, <1>6, <1>8, <1>9, <2>1
  <2>2. CASE i = k + 1
    <3>1. i - k = 1 /\ i \in k + 1 .. k + Len(w) /\ i \in 1 .. Len(r) + Len(x) /\ ~(i <= Len(r))
          /\ i - Len(r) = 1
      BY <1>3, <1>6, <1>7, <2>2
    <3> QED BY <1>6, <1>7, <1>8, <3>1
  <2> QED BY <1>3, <1>9, <2>1, <2>2
<1>11. Len(z) <= Len(u.bytes)
  BY <1>3, <1>4, <1>5, <1>9
<1>12. StrIs(Resized(u, B, Len(z)), z)
  BY <1>3, <1>5, <1>7, <1>8, <1>10, <1>11, PutAt
<1> HIDE DEF B
<1>13. push_char(s, c) = Resized(u, B, k + 1)
  BY <1>2, <1>5, StrSetBoth, Zenon
<1> QED BY <1>9, <1>12, <1>13, Zenon DEF z, r, x

LEMMA AppendpIs ==
  ASSUME NEW s, NEW r, StrIs(s, r), NEW q \in Seq(StrBytes), NEW nullTerminate \in BOOLEAN
  PROVE  StrIs(appendp(s, q, nullTerminate),
               IF nullTerminate THEN Trimmed(Trimmed(r) \o q) \o <<NUL>> ELSE Trimmed(r) \o q)
<1> DEFINE t == trim_char(s, NUL)
           u == IF q = <<>> THEN t ELSE appendu(t, q)
           p == Trimmed(r)
           z == p \o q
<1>1. StrIs(t, p)
  BY TrimIs, Zenon DEF Trimmed
<1>2. appendp(s, q, nullTerminate) = IF nullTerminate THEN push_char(u, NUL) ELSE u
  BY Zenon DEF appendp
<1>3. p \in Seq(StrBytes)
  BY <1>1, StrParts
<1> HIDE DEF t, p
<1>4. StrIs(u, z)
  <2>1. CASE q = <<>>
    <3>1. p \o <<>> = p
      BY <1>3, ConcatEmptySeq
    <3>2. z = p /\ u = t
      BY <2>1, <3>1, Zenon
    <3> QED BY <1>1, <3>2, Zenon
  <2>2. CASE q # <<>>
    <3>1. StrIs(appendu(t, q), p \o q)
      BY <1>1, AppenduIs
    <3> QED BY <2>2, <3>1, Zenon
  <2> QED BY <2>1, <2>2
<1> HIDE DEF u, z
<1>5. CASE nullTerminate = TRUE
  <2>1. NUL \in StrBytes
    BY DEF StrBytes
  <2>2. StrIs(push_char(u, NUL), Trimmed(z) \o <<NUL>>)
    BY <1>4, <2>1, PushCharIs
  <2> QED BY <1>2, <1>5, <2>2, Zenon DEF z, p
<1>6. CASE nullTerminate = FALSE
  BY <1>2, <1>4, <1>6, Zenon DEF z, p
<1> QED BY <1>5, <1>6

\* Setting the character after the text appends it, setting another one changes it.
LEMMA SetCharIs ==
  ASSUME NEW s, NEW q, StrIs(s, q), NEW i \in 0 .. Len(q), NEW c \in StrBytes
  PROVE  StrIs(setChar(s, i, c), IF i = Len(q) THEN Append(q, c) ELSE [q EXCEPT ![i + 1] = c])
<1> DEFINE t == IF i >= Len(s.bytes) THEN grow(s, i + 1) ELSE s
           x == <<c>>
           B == WriteAt(t.bytes, i, x)
           n == IF t.size <= i THEN i + 1 ELSE t.size
           z == IF i = Len(q) THEN Append(q, c) ELSE [q EXCEPT ![i + 1] = c]
<1>1. /\ q \in Seq(StrBytes) /\ Len(q) = s.size /\ s.size \in Nat /\ Len(s.bytes) \in Nat
      /\ s.size <= Len(s.bytes)
  BY StrParts
<1>2. i \in Nat /\ i + 1 \in Nat /\ i <= Len(q)
  BY <1>1
<1>3. StrIs(t, q) /\ Len(t.bytes) >= i + 1
  <2>1. CASE i >= Len(s.bytes)
    <3>1. StrIs(grow(s, i + 1), q) /\ Len(grow(s, i + 1).bytes) >= (i + 1) + 1
      BY <1>2, GrowIs
    <3>2. Len(grow(s, i + 1).bytes) \in Nat
      BY <3>1, StrParts
    <3>3. t = grow(s, i + 1)
      BY <2>1
    <3> HIDE DEF t
    <3>4. StrIs(t, q) /\ Len(t.bytes) \in Nat /\ Len(t.bytes) >= (i + 1) + 1
      BY <3>1, <3>2, <3>3, Zenon
    <3> QED BY <1>2, <3>4
  <2>2. CASE ~(i >= Len(s.bytes))
    <3>1. t = s
      BY <2>2
    <3>2. Len(s.bytes) >= i + 1
      BY <1>1, <1>2, <2>2
    <3> QED BY <3>1, <3>2, Zenon
  <2> QED BY <2>1, <2>2
<1>4. setChar(s, i, c) = [t EXCEPT !.bytes = B, !.size = n]
  BY Zenon DEF setChar
<1> HIDE DEF t
<1>5. /\ StrShape(t) /\ Len(t.bytes) \in Nat /\ Len(q) = t.size /\ t.size \in Nat
      /\ t.size <= Len(t.bytes) /\ \A j \in 1 .. t.size : t.bytes[j] = q[j]
  BY <1>3, StrParts
<1>6. x \in Seq(StrBytes) /\ Len(x) = 1 /\ x[1] = c
  OBVIOUS
<1> HIDE DEF x
<1>7. /\ z \in Seq(StrBytes) /\ Len(z) = n
      /\ \A j \in 1 .. n : z[j] = IF j = i + 1 THEN c ELSE q[j]
  <2>1. CASE i = Len(q)
    <3>1. z = Append(q, c) /\ n = Len(q) + 1
      BY <1>5, <2>1
    <3> HIDE DEF z, n
    <3>2. /\ z \in Seq(StrBytes) /\ Len(z) = Len(q) + 1 /\ z[Len(q) + 1] = c
          /\ \A j \in 1 .. Len(q) : z[j] = q[j]
      BY <1>1, <3>1, AppendProperties
    <3> QED BY <1>1, <2>1, <3>1, <3>2
  <2>2. CASE i # Len(q)
    <3>1. z = [q EXCEPT ![i + 1] = c] /\ n = Len(q) /\ i + 1 \in 1 .. Len(q)
      BY <1>1, <1>2, <1>5, <2>2
    <3> HIDE DEF z, n
    <3>2. /\ z \in Seq(StrBytes) /\ Len(z) = Len(q)
          /\ \A j \in 1 .. Len(q) : z[j] = IF j = i + 1 THEN c ELSE q[j]
      BY <1>1, <3>1, ExceptSeq
    <3> QED BY <3>1, <3>2
  <2> QED BY <2>1, <2>2
<1>8. n \in Nat /\ (n <= i + 1 \/ n <= t.size)
  BY <1>2, <1>3, <1>5
<1>9. n <= Len(t.bytes) /\ \A j \in 1 .. n : j = i + 1 \/ j \in 1 .. t.size
  BY <1>1, <1>2, <1>3, <1>5
<1> HIDE DEF z, n
<1>10. \A j \in 1 .. Len(z) : z[j] = IF j \in i + 1 .. i + Len(x) THEN x[j - i] ELSE t.bytes[j]
  <2> TAKE j \in 1 .. Len(z)
  <2>1. CASE j = i + 1
    <3>1. j \in i + 1 .. i + Len(x) /\ j - i = 1
      BY <1>2, <1>6, <2>1
    <3> QED BY <1>6, <1>7, <2>1, <3>1
  <2>2. CASE j # i + 1
    <3>1. j \notin i + 1 .. i + Len(x) /\ j \in 1 .. t.size
      BY <1>2, <1>6, <1>7, <1>9, <2>2
    <3> QED BY <1>5, <1>7, <2>2, <3>1
  <2> QED BY <2>1, <2>2
<1>11. StrIs(Resized(t, B, Len(z)), z)
  BY <1>2, <1>5, <1>6, <1>7, <1>9, <1>10, PutAt
<1> HIDE DEF B
<1>12. setChar(s, i, c) = Resized(t, B, n)
  BY <1>4, <1>5, StrSetBoth, Zenon
<1> QED BY <1>7, <1>11, <1>12, Zenon DEF z

\* What the caller writes through the pointer is the text.
LEMMA DataIs ==
  ASSUME NEW s, NEW r, StrIs(s, r), NEW q \in Seq(StrBytes), NEW w \in {1, 2}, Len(q) % w = 0,
         NEW t, t = DataPtr(s, w, Len(q) \div w, Len(q) \div w)
  PROVE  StrIs([t EXCEPT !.bytes = WriteAt(@, 0, q)], q)
<1> DEFINE n == Len(q)
           h == n \div w
           u == GrowTo(s, n)
<1>1. n \in Nat
  BY LenProperties
<1>2. h * w = n
  BY <1>1
<1>3. t = set_len(u, n)
  <2> HIDE DEF n
  <2>1. t = set_len(GrowTo(s, h * w), h * w)
    BY Zenon DEF DataPtr, u8DataPtr, n
  <2> HIDE DEF h
  <2> QED BY <1>2, <2>1, Zenon
<1>4. StrIs(u, r) /\ Len(u.bytes) >= n
  BY <1>1, GrowToIs
<1> HIDE DEF u
<1>5. StrShape(u) /\ u.bytes \in Seq(StrBytes) /\ Len(u.bytes) \in Nat
  BY <1>4, StrParts
<1> DEFINE x == Resized(u, u.bytes, n)
           B == WriteAt(u.bytes, 0, q)
<1>6. t = x
  BY <1>1, <1>3, <1>4, <1>5, SetLenFits
<1>7. x.bytes = u.bytes /\ x.size = n
  BY DEF Resized
<1>8. StrShape(x)
  <2>1. \A j \in 1 .. n : u.bytes[j] \in StrBytes
    BY <1>1, <1>4, <1>5, ElementOfSeq
  <2> DEFINE y == SubSeq(u.bytes, 1, n)
  <2>2. y \in Seq(StrBytes) /\ Len(y) = n /\ \A j \in 1 .. n : y[j] = u.bytes[j]
    BY <1>1, <2>1, SubSeqProperties
  <2> HIDE DEF y, n
  <2>3. Len(u.bytes) >= Len(u.bytes) /\ Len(y) <= Len(u.bytes) /\ \A j \in 1 .. Len(y) : u.bytes[j] = y[j]
    BY <1>1, <1>4, <1>5, <2>2
  <2>4. StrIs(Resized(u, u.bytes, Len(y)), y)
    BY <1>5, <2>2, <2>3, StrChanged
  <2> QED BY <2>2, <2>4 DEF StrIs
<1> HIDE DEF x
<1>9. n <= Len(x.bytes)
  BY <1>1, <1>4, <1>5, <1>7
<1>10. StrIs(Resized(x, WriteAt(x.bytes, 0, q), n), q)
  BY <1>8, <1>9, PutFirst
<1> DEFINE C == WriteAt(x.bytes, 0, q)
           z == [x EXCEPT !.bytes = C]
<1>11. [t EXCEPT !.bytes = WriteAt(@, 0, q)] = z
  BY <1>6, Zenon
<1> HIDE DEF C, n
<1>12. z = Resized(x, C, x.size)
  BY <1>8, StrSetBytes, Zenon
<1>13. z = Resized(x, C, n)
  BY <1>7, <1>12, Zenon
<1>14. StrIs(Resized(x, C, n), q)
  BY <1>10, Zenon DEF C
<1> HIDE DEF z
<1>15. StrIs(z, q)
  BY <1>13, <1>14, Zenon
<1> QED BY <1>11, <1>15, Zenon DEF z, C

LEMMA StrInitIs ==
  StrInit => StrInv
BY InitIs DEF StrInit, StrInv

LEMMA StrBecomesIs ==
  ASSUME NEW s, NEW q, StrIs(s, q), StrBecomes(s, q)
  PROVE  StrInv'
<1>1. str' = s /\ strText' = q
  BY DEF StrBecomes
<1>2. StrIs(str', strText')
  BY <1>1, Zenon
<1> QED BY <1>2 DEF StrInv, StrIs, StrShape

LEMMA StrStep ==
  ASSUME StrInv, StrNext \/ UNCHANGED strVars
  PROVE  StrInv'
<1>1. StrIs(str, strText)
  BY DEF StrInv
<1>2. /\ \A q \in Texts : q \in Seq(StrBytes)
      /\ \A c \in Chars : c \in StrBytes
  BY StringAssumption DEF StrBytes
<1>3. strText \in Seq(StrBytes) /\ Len(strText) \in Nat
  BY <1>1, LenProperties, StrParts
<1>4. CASE StrData
  <2>1. PICK q \in Texts, w \in {1, 2} :
          /\ Len(q) % w = 0
          /\ StrBecomes([DataPtr(str, w, Len(q) \div w, Len(q) \div w) EXCEPT !.bytes = WriteAt(@, 0, q)], q)
    BY <1>4, Zenon DEF StrData
  <2> DEFINE t == DataPtr(str, w, Len(q) \div w, Len(q) \div w)
  <2>2. q \in Seq(StrBytes)
    BY <1>2
  <2>3. t = DataPtr(str, w, Len(q) \div w, Len(q) \div w)
    OBVIOUS
  <2> HIDE DEF t
  <2>4. StrIs([t EXCEPT !.bytes = WriteAt(@, 0, q)], q)
    BY <1>1, <2>1, <2>2, <2>3, DataIs
  <2>5. StrBecomes([t EXCEPT !.bytes = WriteAt(@, 0, q)], q)
    BY <2>1, <2>3, Zenon
  <2> QED BY <2>4, <2>5, StrBecomesIs
<1>5. CASE StrAssign
  <2>1. PICK q \in Texts :
          \/ StrBecomes(operatorAssign(str, q), q)
          \/ StrBecomes(assign(str, q), q)
          \/ StrBecomes(assign_static(str, q), q)
    BY <1>5, Zenon DEF StrAssign
  <2>2. q \in Seq(StrBytes)
    BY <1>2
  <2>3. CASE StrBecomes(operatorAssign(str, q), q)
    <3>1. StrIs(operatorAssign(str, q), q)
      BY <1>1, <2>2, AssignBytesIs DEF operatorAssign
    <3> QED BY <2>3, <3>1, StrBecomesIs
  <2>4. CASE StrBecomes(assign(str, q), q)
    <3>1. StrIs(assign(str, q), q)
      BY <1>1, <2>2, AssignIs
    <3> QED BY <2>4, <3>1, StrBecomesIs
  <2>5. CASE StrBecomes(assign_static(str, q), q)
    <3>1. StrIs(assign_static(str, q), q)
      BY <1>1, <2>2, AssignStaticIs
    <3> QED BY <2>5, <3>1, StrBecomesIs
  <2> QED BY <2>1, <2>3, <2>4, <2>5
<1>6. CASE StrAppend
  <2>1. PICK q \in Texts :
          \/ StrBecomes(append_str(str, q), strText \o q)
          \/ \E nullTerminate \in BOOLEAN :
               StrBecomes(appendp(str, q, nullTerminate),
                 IF nullTerminate THEN Trimmed(Trimmed(strText) \o q) \o <<NUL>>
                                  ELSE Trimmed(strText) \o q)
    BY <1>6, Zenon DEF StrAppend
  <2>2. q \in Seq(StrBytes)
    BY <1>2
  <2>3. CASE StrBecomes(append_str(str, q), strText \o q)
    <3>1. StrIs(append_str(str, q), strText \o q)
      BY <1>1, <2>2, AppenduIs DEF append_str
    <3> QED BY <2>3, <3>1, StrBecomesIs
  <2>4. ASSUME NEW nullTerminate \in BOOLEAN,
               StrBecomes(appendp(str, q, nullTerminate),
                 IF nullTerminate THEN Trimmed(Trimmed(strText) \o q) \o <<NUL>>
                                  ELSE Trimmed(strText) \o q)
        PROVE  StrInv'
    <3> DEFINE r == IF nullTerminate THEN Trimmed(Trimmed(strText) \o q) \o <<NUL>>
                                     ELSE Trimmed(strText) \o q
    <3>1. StrIs(appendp(str, q, nullTerminate), r)
      BY <1>1, <2>2, AppendpIs
    <3>2. StrBecomes(appendp(str, q, nullTerminate), r)
      BY <2>4
    <3> HIDE DEF r
    <3> QED BY <3>1, <3>2, StrBecomesIs
  <2> QED BY <2>1, <2>3, <2>4
<1>7. CASE StrChar
  <2>1. PICK c \in Chars :
          \/ StrBecomes(push_back(str, c), Append(strText, c))
          \/ StrBecomes(push_char(str, c), Trimmed(strText) \o <<c>>)
          \/ StrBecomes(trim_char(str, c), SubSeq(strText, 1, TextUpTo(strText, c)))
          \/ \E i \in 0 .. Len(strText) :
               StrBecomes(setChar(str, i, c),
                 IF i = Len(strText) THEN Append(strText, c) ELSE [strText EXCEPT ![i + 1] = c])
    BY <1>7, Zenon DEF StrChar
  <2>2. c \in StrBytes
    BY <1>2
  <2>3. CASE StrBecomes(push_back(str, c), Append(strText, c))
    <3> DEFINE x == <<c>>
               r == Append(strText, c)
    <3>1. x \in Seq(StrBytes)
      BY <2>2
    <3>2. r = strText \o x
      BY <1>3, <2>2, AppendIsConcat
    <3>3. push_back(str, c) = appendu(str, x)
      BY Zenon DEF push_back
    <3> HIDE DEF x, r
    <3>4. StrIs(push_back(str, c), r)
      <4>1. StrIs(appendu(str, x), strText \o x)
        BY <1>1, <3>1, AppenduIs
      <4> QED BY <3>2, <3>3, <4>1, Zenon
    <3> QED BY <2>3, <3>4, StrBecomesIs DEF r
  <2>4. CASE StrBecomes(push_char(str, c), Trimmed(strText) \o <<c>>)
    <3>1. StrIs(push_char(str, c), Trimmed(strText) \o <<c>>)
      BY <1>1, <2>2, PushCharIs
    <3> QED BY <2>4, <3>1, StrBecomesIs
  <2>5. CASE StrBecomes(trim_char(str, c), SubSeq(strText, 1, TextUpTo(strText, c)))
    <3>1. StrIs(trim_char(str, c), SubSeq(strText, 1, TextUpTo(strText, c)))
      BY <1>1, TrimIs
    <3> QED BY <2>5, <3>1, StrBecomesIs
  <2>6. ASSUME NEW i \in 0 .. Len(strText),
               StrBecomes(setChar(str, i, c),
                 IF i = Len(strText) THEN Append(strText, c) ELSE [strText EXCEPT ![i + 1] = c])
        PROVE  StrInv'
    <3> DEFINE r == IF i = Len(strText) THEN Append(strText, c) ELSE [strText EXCEPT ![i + 1] = c]
    <3>1. StrIs(setChar(str, i, c), r)
      BY <1>1, <2>2, SetCharIs
    <3>2. StrBecomes(setChar(str, i, c), r)
      BY <2>6
    <3> HIDE DEF r
    <3> QED BY <3>1, <3>2, StrBecomesIs
  <2> QED BY <2>1, <2>3, <2>4, <2>5, <2>6
<1>8. CASE StrLength
  <2> DEFINE e == <<>>
  <2>1. CASE StrBecomes(clear(str), e)
    <3>1. StrIs(clear(str), e)
      BY <1>1, ClearIs
    <3> HIDE DEF e
    <3> QED BY <2>1, <3>1, StrBecomesIs
  <2>2. CASE StrBecomes(dtor(str), e)
    <3>1. StrIs(dtor(str), e)
      BY <1>1, DtorIs, InitIs, Zenon
    <3> HIDE DEF e
    <3> QED BY <2>2, <3>1, StrBecomesIs
  <2>3. ASSUME NEW n \in 0 .. Len(strText), StrBecomes(set_len(str, n), SubSeq(strText, 1, n))
        PROVE  StrInv'
    <3>1. StrIs(set_len(str, n), SubSeq(strText, 1, n))
      BY <1>1, SetLenIs
    <3> QED BY <2>3, <3>1, StrBecomesIs
  <2> QED BY <1>8, <2>1, <2>2, <2>3 DEF StrLength
<1>9. CASE UNCHANGED strVars
  BY <1>1, <1>9 DEF strVars, StrInv, StrIs, StrShape
<1> QED BY <1>4, <1>5, <1>6, <1>7, <1>8, <1>9 DEF StrNext

LEMMA StrHolds ==
  ASSUME StrInv
  PROVE  StringHoldsText /\ OneBlockPerHeapString
<1>1. StrIs(str, strText)
  BY DEF StrInv
<1>2. SubSeq(str.bytes, 1, str.size) = strText
  BY <1>1, StrText
<1>3. StrShape(str) /\ Len(strText) = str.size
  BY <1>1, StrParts
<1> QED BY <1>2, <1>3 DEF StringHoldsText, OneBlockPerHeapString, StrShape

LEMMA LeastIs ==
  ASSUME NEW T, T \subseteq Nat, T # {}
  PROVE  Min(T) \in T /\ \A m \in T : Min(T) <= m
<1>1. PICK n \in T : \A m \in T : n <= m
  BY LeastNumber
<1>2. \E x \in T : \A y \in T : x =< y
  BY <1>1
<1> QED BY <1>2, Zenon DEF Min

\* Both look for the first place of the character.
LEMMA StrFinds ==
  ASSUME NEW s, NEW q, StrIs(s, q), NEW c
  PROVE  index_of(s, c) = SelectInSeq(q, LAMBDA x : x = c) - 1
<1> DEFINE at == {i \in 0 .. s.size - 1 : s.bytes[i + 1] = c}
           places == {i \in 1 .. Len(q) : q[i] = c}
<1>1. Len(q) = s.size /\ s.size \in Nat /\ \A i \in 1 .. s.size : s.bytes[i] = q[i]
  BY StrParts
<1>2. index_of(s, c) = IF at = {} THEN -1 ELSE Min(at)
  BY Zenon DEF index_of
<1>3. SelectInSeq(q, LAMBDA x : x = c) = IF places # {} THEN Min(places) ELSE 0
  BY Zenon DEF SelectInSeq
<1>4. \A i \in at : i + 1 \in places
  BY <1>1
<1>5. \A i \in places : i - 1 \in at
  BY <1>1
<1>6. at \subseteq Nat /\ places \subseteq Nat
  BY <1>1
<1> HIDE DEF at, places
<1>7. CASE at = {}
  <2>1. places = {}
    BY <1>5, <1>7
  <2> QED BY <1>2, <1>3, <1>7, <2>1
<1>8. CASE at # {}
  <2>1. places # {}
    BY <1>4, <1>8
  <2> DEFINE m == Min(at)
             n == Min(places)
  <2>2. m \in at /\ \A i \in at : m <= i
    BY <1>6, <1>8, LeastIs
  <2>3. n \in places /\ \A i \in places : n <= i
    BY <1>6, <2>1, LeastIs
  <2>4. index_of(s, c) = m /\ SelectInSeq(q, LAMBDA x : x = c) = n
    BY <1>2, <1>3, <1>8, <2>1, Zenon
  <2> HIDE DEF m, n
  <2>5. m \in Nat /\ n \in Nat /\ n <= m + 1 /\ m <= n - 1
    BY <1>4, <1>5, <1>6, <2>2, <2>3
  <2> QED BY <2>4, <2>5
<1> QED BY <1>7, <1>8

LEMMA StrAnswers ==
  ASSUME StrInv
  PROVE  StringAnswers
<1>1. StrIs(str, strText)
  BY DEF StrInv
<1>2. /\ Len(strText) = str.size /\ str.size \in Nat
      /\ \A i \in 1 .. str.size : str.bytes[i] = strText[i]
  BY <1>1, StrParts
<1>3. \A c \in Chars : index_of(str, c) = SelectInSeq(strText, LAMBDA x : x = c) - 1
  BY <1>1, StrFinds
<1>4. ASSUME NEW i \in 0 .. Len(strText)
      PROVE  charAt(str, i) = IF i < Len(strText) THEN strText[i + 1] ELSE NUL
  <2>1. i \in 0 .. str.size - 1 <=> i < Len(strText)
    BY <1>2
  <2>2. i < Len(strText) => i + 1 \in 1 .. str.size
    BY <1>2
  <2> QED BY <1>2, <2>1, <2>2 DEF charAt
<1>5. ASSUME NEW q \in Texts
      PROVE  equals(str, q) <=> strText = q
  <2>1. SubSeq(str.bytes, 1, str.size) = strText
    BY <1>1, StrText
  <2> QED BY <1>2, <2>1, Zenon DEF equals
<1> QED BY <1>3, <1>4, <1>5 DEF StringAnswers

-----------------------------------------------------------------------------
(* The dates: dayNumber is the day of the calendar's date (DateInv), and its  *)
(* year of the leap cycle and its month are the only ones that CHOOSE can     *)
(* take, since sums of days grow.                                             *)

\* The sums of the first terms up to the N-th.
IsSums(f, N, terms) == f = [i \in 0 .. N |-> IF i = 0 THEN 0 ELSE f[i - 1] + terms[i]]

LEMMA SumsGoOn ==
  ASSUME NEW N \in Nat, NEW f, NEW terms, IsSums(f, N, terms)
  PROVE  f[0] = 0 /\ \A i \in 1 .. N : f[i] = f[i - 1] + terms[i]
<1>1. \A i \in 0 .. N : f[i] = IF i = 0 THEN 0 ELSE f[i - 1] + terms[i]
  BY Zenon DEF IsSums
<1> QED BY <1>1

LEMMA SumsBuild ==
  ASSUME NEW terms
  PROVE  \A N \in Nat : \E f : IsSums(f, N, terms)
<1> DEFINE S == {N \in Nat : \E f : IsSums(f, N, terms)}
<1>1. 0 \in S
  <2> DEFINE f == [i \in 0 .. 0 |-> 0]
  <2>1. f = [i \in 0 .. 0 |-> IF i = 0 THEN 0 ELSE f[i - 1] + terms[i]]
    OBVIOUS
  <2> HIDE DEF f
  <2>2. IsSums(f, 0, terms)
    BY <2>1, Zenon DEF IsSums
  <2> QED BY <2>2
<1>2. ASSUME NEW N \in Nat, N \in S PROVE N + 1 \in S
  <2>1. PICK f : IsSums(f, N, terms)
    BY <1>2
  <2> DEFINE last == f[N] + terms[N + 1]
             g == [i \in 0 .. N + 1 |-> IF i = N + 1 THEN last ELSE f[i]]
  <2> HIDE DEF last
  <2>2. ASSUME NEW i \in 0 .. N + 1
        PROVE  g[i] = IF i = 0 THEN 0 ELSE g[i - 1] + terms[i]
    <3>1. CASE i = N + 1
      <4>1. i # 0 /\ i - 1 = N /\ N \in 0 .. N + 1 /\ N # N + 1
        BY <3>1
      <4>2. g[i - 1] = f[N] /\ g[i] = last
        BY <3>1, <4>1
      <4> HIDE DEF g
      <4> QED BY <3>1, <4>1, <4>2 DEF last
    <3>2. CASE i # N + 1
      <4>1. i \in 0 .. N /\ g[i] = f[i]
        BY <3>2
      <4>2. CASE i = 0
        BY <2>1, <4>1, <4>2, SumsGoOn
      <4>3. CASE i # 0
        <5>1. i - 1 \in 0 .. N + 1 /\ i - 1 # N + 1 /\ i \in 1 .. N
          BY <4>1, <4>3
        <5>2. g[i - 1] = f[i - 1]
          BY <5>1
        <5> HIDE DEF g
        <5>3. f[i] = f[i - 1] + terms[i]
          BY <2>1, <5>1, SumsGoOn
        <5> QED BY <4>1, <4>3, <5>2, <5>3
      <4> QED BY <4>2, <4>3
    <3> QED BY <3>1, <3>2
  <2>3. g = [i \in 0 .. N + 1 |-> g[i]]
    OBVIOUS
  <2> HIDE DEF g
  <2>4. IsSums(g, N + 1, terms)
    BY <2>2, <2>3, Zenon DEF IsSums
  <2> QED BY <2>4
<1> HIDE DEF S
<1>3. \A N \in Nat : N \in S
  BY <1>1, <1>2, NumbersByInduction
<1> QED BY <1>3 DEF S

LEMMA SumOfFirstIs ==
  ASSUME NEW N \in Nat, NEW terms
  PROVE  \E f : IsSums(f, N, terms) /\ SumOfFirst(N, terms) = f[N]
<1> DEFINE sum[i \in 0 .. N] == IF i = 0 THEN 0 ELSE sum[i - 1] + terms[i]
<1>1. IsSums(sum, N, terms)
  <2>1. \E f : IsSums(f, N, terms)
    BY SumsBuild
  <2> QED BY <2>1, Zenon DEF IsSums
<1>2. SumOfFirst(N, terms) = sum[N]
  BY Zenon DEF SumOfFirst
<1> HIDE DEF sum
<1> QED BY <1>1, <1>2

LEMMA SumOfFirstNext ==
  ASSUME NEW terms
  PROVE  /\ SumOfFirst(0, terms) = 0
         /\ \A N \in Nat : SumOfFirst(N + 1, terms) = SumOfFirst(N, terms) + terms[N + 1]
<1>1. SumOfFirst(0, terms) = 0
  <2>1. PICK f : IsSums(f, 0, terms) /\ SumOfFirst(0, terms) = f[0]
    BY SumOfFirstIs
  <2> QED BY <2>1, SumsGoOn
<1>2. ASSUME NEW N \in Nat
      PROVE  SumOfFirst(N + 1, terms) = SumOfFirst(N, terms) + terms[N + 1]
  <2> DEFINE M == N + 1
  <2>0. M \in Nat /\ M - 1 = N /\ M \in 1 .. M /\ N \in 0 .. N /\ \A i \in 1 .. N : i \in 1 .. M
    OBVIOUS
  <2> HIDE DEF M
  <2>1. PICK f : IsSums(f, N, terms) /\ SumOfFirst(N, terms) = f[N]
    BY SumOfFirstIs
  <2>2. PICK g : IsSums(g, M, terms) /\ SumOfFirst(M, terms) = g[M]
    BY <2>0, SumOfFirstIs
  <2>3. f[0] = 0 /\ \A i \in 1 .. N : f[i] = f[i - 1] + terms[i]
    BY <2>1, SumsGoOn
  <2>4. g[0] = 0 /\ \A i \in 1 .. M : g[i] = g[i - 1] + terms[i]
    BY <2>0, <2>2, SumsGoOn
  <2>5. \A i \in 1 .. N : g[i - 1] = f[i - 1] => g[i] = f[i]
    BY <2>0, <2>3, <2>4, Zenon
  <2>6. g[N] = f[N]
    BY <2>0, <2>3, <2>4, <2>5, SameRecursion
  <2>7. g[M] = g[N] + terms[M]
    <3>1. g[M] = g[M - 1] + terms[M]
      BY <2>0, <2>4, Zenon
    <3> QED BY <2>0, <3>1, Zenon
  <2>8. SumOfFirst(M, terms) = SumOfFirst(N, terms) + terms[M]
    BY <2>1, <2>2, <2>6, <2>7, Zenon
  <2> QED BY <2>8 DEF M
<1> QED BY <1>1, <1>2

\* Sums of positive terms are numbers that grow.
Growing(N, terms) ==
  /\ \A n \in 0 .. N : SumOfFirst(n, terms) \in Nat
  /\ \A m \in 0 .. N, n \in 0 .. N : m < n => SumOfFirst(m, terms) + terms[m + 1] <= SumOfFirst(n, terms)

LEMMA SumsGrow ==
  ASSUME NEW N \in Nat, NEW terms, \A i \in 1 .. N : terms[i] \in Nat
  PROVE  Growing(N, terms)
<1> DEFINE s(n) == SumOfFirst(n, terms)
<1>1. s(0) = 0 /\ \A n \in Nat : s(n + 1) = s(n) + terms[n + 1]
  BY SumOfFirstNext
<1> HIDE DEF s
<1> DEFINE S == {n \in Nat : n <= N => s(n) \in Nat}
<1>2. 0 \in S
  BY <1>1
<1>3. ASSUME NEW n \in Nat, n \in S PROVE n + 1 \in S
  <2> SUFFICES ASSUME n + 1 <= N PROVE s(n + 1) \in Nat
    OBVIOUS
  <2>1. n + 1 \in 1 .. N /\ s(n) \in Nat
    BY <1>3
  <2>2. terms[n + 1] \in Nat
    BY <2>1
  <2> QED BY <1>1, <2>1, <2>2
<1>4. \A n \in Nat : n \in S
  <2> HIDE DEF S
  <2> QED BY <1>2, <1>3, NumbersByInduction
<1>5. \A n \in 0 .. N : s(n) \in Nat
  BY <1>4
<1>6. ASSUME NEW m \in 0 .. N
      PROVE  \A n \in 0 .. N : m < n => s(m) + terms[m + 1] <= s(n)
  <2> DEFINE T == {n \in Nat : n <= N /\ m < n => s(m) + terms[m + 1] <= s(n)}
  <2>1. 0 \in T
    OBVIOUS
  <2>2. ASSUME NEW n \in Nat, n \in T PROVE n + 1 \in T
    <3> SUFFICES ASSUME n + 1 <= N, m < n + 1 PROVE s(m) + terms[m + 1] <= s(n + 1)
      OBVIOUS
    <3>1. s(n + 1) = s(n) + terms[n + 1]
      BY <1>1
    <3> DEFINE x == s(n)
               y == s(m)
               h == n + 1
    <3>2. x \in Nat /\ y \in Nat /\ h \in 1 .. N
      BY <1>5
    <3>3. terms[h] \in Nat
      BY <3>2
    <3>4. CASE m = n
      <4>1. s(n + 1) = s(m) + terms[m + 1]
        BY <3>1, <3>4, Zenon
      <4>2. s(m) + terms[m + 1] \in Nat
        BY <3>2, <3>3, <3>4
      <4> QED BY <4>1, <4>2
    <3>5. CASE m < n
      <4>1. s(m) + terms[m + 1] <= s(n)
        BY <2>2, <3>5
      <4>2. m + 1 \in 1 .. N
        OBVIOUS
      <4>3. terms[m + 1] \in Nat
        BY <4>2
      <4> QED BY <3>1, <3>2, <3>3, <4>1, <4>3
    <3> QED BY <3>4, <3>5
  <2>3. \A n \in Nat : n \in T
    <3> HIDE DEF T
    <3> QED BY <2>1, <2>2, NumbersByInduction
  <2> QED BY <2>3
<1> QED BY <1>5, <1>6 DEF Growing, s

LEMMA SumOfFirstLast ==
  ASSUME NEW terms
  PROVE  /\ SumOfFirst(0, terms) = 0
         /\ \A n \in Nat \ {0} : SumOfFirst(n, terms) = SumOfFirst(n - 1, terms) + terms[n]
<1>1. SumOfFirst(0, terms) = 0
  BY SumOfFirstNext
<1>2. ASSUME NEW n \in Nat \ {0}
      PROVE  SumOfFirst(n, terms) = SumOfFirst(n - 1, terms) + terms[n]
  <2> DEFINE m == n - 1
  <2>1. m \in Nat /\ m + 1 = n
    OBVIOUS
  <2> HIDE DEF m
  <2>2. SumOfFirst(m + 1, terms) = SumOfFirst(m, terms) + terms[m + 1]
    BY <2>1, SumOfFirstNext
  <2>3. SumOfFirst(n, terms) = SumOfFirst(m, terms) + terms[n]
    BY <2>1, <2>2, Zenon
  <2> QED BY <2>3 DEF m
<1> QED BY <1>1, <1>2

\* At most one place is the one of x.
LEMMA OnePlace ==
  ASSUME NEW N \in Nat, NEW terms, Growing(N, terms), \A i \in 1 .. N : terms[i] \in Nat,
         NEW x \in Nat, NEW m \in 0 .. N - 1, NEW n \in 0 .. N - 1,
         SumOfFirst(m, terms) <= x, x < SumOfFirst(m + 1, terms),
         SumOfFirst(n, terms) <= x, x < SumOfFirst(n + 1, terms)
  PROVE  m = n
<1> DEFINE s(k) == SumOfFirst(k, terms)
<1>1. \A k \in Nat : s(k + 1) = s(k) + terms[k + 1]
  BY SumOfFirstNext
<1>2. /\ \A k \in 0 .. N : s(k) \in Nat
      /\ \A j \in 0 .. N, k \in 0 .. N : j < k => s(j) + terms[j + 1] <= s(k)
  BY DEF Growing
<1>3. s(m) <= x /\ x < s(m + 1) /\ s(n) <= x /\ x < s(n + 1)
  OBVIOUS
<1> HIDE DEF s
<1>4. m \in 0 .. N /\ n \in 0 .. N /\ m \in Nat /\ n \in Nat
  OBVIOUS
<1>5. CASE m < n
  <2>1. s(m + 1) <= s(n)
    BY <1>1, <1>2, <1>4, <1>5
  <2>2. s(n) \in Nat /\ s(m + 1) \in Nat
    <3>1. m + 1 \in 0 .. N
      OBVIOUS
    <3> QED BY <1>2, <1>4, <3>1
  <2> QED BY <1>3, <2>1, <2>2
<1>6. CASE n < m
  <2>1. s(n + 1) <= s(m)
    BY <1>1, <1>2, <1>4, <1>6
  <2>2. s(m) \in Nat /\ s(n + 1) \in Nat
    <3>1. n + 1 \in 0 .. N
      OBVIOUS
    <3> QED BY <1>2, <1>4, <3>1
  <2> QED BY <1>3, <2>1, <2>2
<1> QED BY <1>4, <1>5, <1>6

LEMMA Months ==
  ASSUME NEW f \in {28, 29}
  PROVE  /\ \A i \in 1 .. 12 : DaysPerMonth(f)[i] \in 28 .. 31
         /\ Growing(12, DaysPerMonth(f))
         /\ SumOfFirst(0, DaysPerMonth(f)) = 0
         /\ SumOfFirst(12, DaysPerMonth(f)) = 337 + f
<1> DEFINE D == DaysPerMonth(f)
           s(n) == SumOfFirst(n, D)
<1>1. /\ D[1] = 31 /\ D[2] = f /\ D[3] = 31 /\ D[4] = 30 /\ D[5] = 31 /\ D[6] = 30
      /\ D[7] = 31 /\ D[8] = 31 /\ D[9] = 30 /\ D[10] = 31 /\ D[11] = 30 /\ D[12] = 31
  BY DEF DaysPerMonth
<1> HIDE DEF D
<1>2. \A i \in 1 .. 12 : D[i] \in 28 .. 31
  BY <1>1
<1>3. s(0) = 0 /\ \A n \in Nat \ {0} : s(n) = s(n - 1) + D[n]
  BY SumOfFirstLast
<1>4. Growing(12, D)
  <2>1. \A i \in 1 .. 12 : D[i] \in Nat
    BY <1>2
  <2> QED BY <2>1, SumsGrow
<1> HIDE DEF s
<1>5. s(1) = 31 /\ s(2) = 31 + f /\ s(3) = 62 + f
  BY <1>1, <1>3
<1>6. s(4) = 92 + f /\ s(5) = 123 + f /\ s(6) = 153 + f
  BY <1>1, <1>3, <1>5
<1>7. s(7) = 184 + f /\ s(8) = 215 + f /\ s(9) = 245 + f
  BY <1>1, <1>3, <1>6
<1>8. s(10) = 276 + f /\ s(11) = 306 + f /\ s(12) = 337 + f
  BY <1>1, <1>3, <1>7
<1> QED BY <1>2, <1>3, <1>4, <1>8 DEF D, s

\* The years of a leap cycle, as either conversion counts them.
CycleTerms(h) == h[1] = 365 /\ h[2] = 365 /\ h[3] = 366 /\ h[4] = 365

LEMMA CycleYears ==
  ASSUME NEW h, CycleTerms(h)
  PROVE  /\ SumOfFirst(0, h) = 0 /\ SumOfFirst(1, h) = 365 /\ SumOfFirst(2, h) = 730
         /\ SumOfFirst(3, h) = 1096 /\ SumOfFirst(4, h) = 1461
<1> DEFINE s(n) == SumOfFirst(n, h)
<1>1. s(0) = 0 /\ \A n \in Nat \ {0} : s(n) = s(n - 1) + h[n]
  BY SumOfFirstLast
<1> HIDE DEF s
<1>2. s(0) = 0 /\ s(1) = 365 /\ s(2) = 730 /\ s(3) = 1096 /\ s(4) = 1461
  BY <1>1 DEF CycleTerms
<1> QED BY <1>2 DEF s

\* The days before a year, until 2099.
YearDays(y) == 365 * (y - 1970) + (y - 1969) \div 4
February(y) == IF y % 4 = 0 THEN 29 ELSE 28
DayOf(c) ==
  YearDays(c.year) + MonthsBefore(DaysPerMonth(February(c.year)), c.month) + c.day
DateInv ==
  /\ calendar \in [year : 1970 .. LastYear, month : 0 .. 11, day : Nat]
  /\ calendar.day < DaysPerMonth(February(calendar.year))[calendar.month + 1]
  /\ dayNumber = DayOf(calendar)

LEMMA Until2099 ==
  ASSUME NEW y \in 1970 .. LastYear
  PROVE  y \in 1970 .. 2099 /\ y <= LastYear
<1> DEFINE l == LastYear
<1>1. l \in Nat /\ l <= 2099 /\ y \in 1970 .. l
  BY YearsAssumption
<1> HIDE DEF l
<1>2. y \in 1970 .. 2099 /\ y <= l
  BY <1>1
<1> QED BY <1>2 DEF l

LEMMA LeapYears ==
  ASSUME NEW y \in 1970 .. 2099
  PROVE  IsLeapYear(y) <=> y % 4 = 0
<1>1. y % 100 = 0 => y = 2000
  OBVIOUS
<1>2. 2000 % 400 = 0 /\ 2000 % 4 = 0
  OBVIOUS
<1> QED BY <1>1, <1>2 DEF IsLeapYear

LEMMA LeapYearsCounted ==
  ASSUME NEW y \in 1970 .. 2099
  PROVE  Cardinality(LeapYearsBefore(y)) = (y - 1969) \div 4
<1> DEFINE L(k) == {i \in 1970 .. 1970 + k - 1 : IsLeapYear(i)}
           S == {k \in Nat : 1970 + k <= 2099 => /\ IsFiniteSet(L(k))
                                                 /\ Cardinality(L(k)) = (k + 1) \div 4}
<1>1. 0 \in S
  <2>1. L(0) = {}
    OBVIOUS
  <2> HIDE DEF L
  <2> QED BY <2>1, FS_EmptySet
<1>2. ASSUME NEW k \in Nat, k \in S PROVE k + 1 \in S
  <2> SUFFICES ASSUME 1970 + (k + 1) <= 2099
               PROVE  IsFiniteSet(L(k + 1)) /\ Cardinality(L(k + 1)) = ((k + 1) + 1) \div 4
    OBVIOUS
  <2> DEFINE z == 1970 + k
  <2>1. IsFiniteSet(L(k)) /\ Cardinality(L(k)) = (k + 1) \div 4
    BY <1>2
  <2>2. z \in 1970 .. 2099 /\ z \notin L(k)
    OBVIOUS
  <2>3. IsLeapYear(z) <=> z % 4 = 0
    BY <2>2, LeapYears
  <2>4. CASE IsLeapYear(z)
    <3>1. L(k + 1) = L(k) \cup {z}
      BY <2>4
    <3> HIDE DEF L
    <3>2. IsFiniteSet(L(k + 1)) /\ Cardinality(L(k + 1)) = Cardinality(L(k)) + 1
      BY <2>1, <2>2, <3>1, FS_AddElement
    <3>3. ((k + 1) + 1) \div 4 = (k + 1) \div 4 + 1
      BY <2>3, <2>4
    <3> QED BY <2>1, <3>2, <3>3
  <2>5. CASE ~IsLeapYear(z)
    <3>1. L(k + 1) = L(k)
      BY <2>5
    <3> HIDE DEF L
    <3>2. ((k + 1) + 1) \div 4 = (k + 1) \div 4
      BY <2>3, <2>5
    <3> QED BY <2>1, <3>1, <3>2
  <2> QED BY <2>4, <2>5
<1>3. \A k \in Nat : k \in S
  <2> HIDE DEF S
  <2> QED BY <1>1, <1>2, NumbersByInduction
<1> DEFINE k == y - 1970
<1>4. k \in Nat /\ 1970 + k <= 2099 /\ 1970 + k = y /\ k + 1 = y - 1969
  OBVIOUS
<1> HIDE DEF k
<1>5. Cardinality(L(k)) = (k + 1) \div 4
  <2> HIDE DEF L
  <2> QED BY <1>3, <1>4
<1>6. L(k) = LeapYearsBefore(y)
  BY <1>4 DEF LeapYearsBefore
<1> HIDE DEF L
<1> QED BY <1>4, <1>5, <1>6

\* The calendar: the months of a year, and the years of a cycle of four.
LEMMA DateInitIs ==
  DateInit => DateInv
<1> SUFFICES ASSUME DateInit PROVE DateInv
  OBVIOUS
<1>1. PICK y \in 1970 .. LastYear :
        /\ dayNumber = 365 * (y - 1970) + Cardinality(LeapYearsBefore(y))
        /\ calendar = [year |-> y, month |-> 0, day |-> 0]
  BY SMT DEF DateInit
<1>2. y \in 1970 .. 2099
  BY Until2099
<1>3. dayNumber = YearDays(y)
  <2>1. Cardinality(LeapYearsBefore(y)) = (y - 1969) \div 4
    BY <1>2, LeapYearsCounted, SMT
  <2> QED BY <1>1, <2>1, SMT DEF YearDays
<1> DEFINE D == DaysPerMonth(February(y))
<1>4. February(y) \in {28, 29}
  BY DEF February
<1>5. SumOfFirst(0, D) = 0 /\ D[1] \in 28 .. 31
  <2>1. 1 \in 1 .. 12
    OBVIOUS
  <2> QED BY <1>4, <2>1, Months
<1> HIDE DEF D
<1>6. MonthsBefore(D, 0) = 0
  BY <1>5 DEF MonthsBefore
<1>7. calendar.year = y /\ calendar.month = 0 /\ calendar.day = 0
  BY <1>1
<1>8. calendar \in [year : 1970 .. LastYear, month : 0 .. 11, day : Nat]
  BY <1>1
<1>9. YearDays(y) \in Int
  BY <1>2 DEF YearDays
<1>10. DayOf(calendar) = YearDays(y) + 0 + 0
  BY <1>6, <1>7 DEF DayOf, D
<1>11. calendar.day < DaysPerMonth(February(calendar.year))[calendar.month + 1]
  BY <1>5, <1>7 DEF D
<1> QED BY <1>3, <1>8, <1>9, <1>10, <1>11 DEF DateInv

LEMMA DateParts ==
  ASSUME DateInv
  PROVE  /\ calendar.year \in 1970 .. 2099 /\ calendar.month \in 0 .. 11 /\ calendar.day \in Nat
         /\ calendar.year <= LastYear
         /\ calendar = [year |-> calendar.year, month |-> calendar.month, day |-> calendar.day]
         /\ calendar.day < DaysPerMonth(February(calendar.year))[calendar.month + 1]
         /\ dayNumber = YearDays(calendar.year)
              + SumOfFirst(calendar.month, DaysPerMonth(February(calendar.year))) + calendar.day
<1>2. calendar \in [year : 1970 .. LastYear, month : 0 .. 11, day : Nat]
  BY SMT DEF DateInv
<1>3. /\ calendar.year \in 1970 .. LastYear /\ calendar.month \in 0 .. 11 /\ calendar.day \in Nat
      /\ calendar = [year |-> calendar.year, month |-> calendar.month, day |-> calendar.day]
  BY <1>2, SMT
<1>4. calendar.year \in 1970 .. 2099 /\ calendar.year <= LastYear
  BY <1>3, Until2099
<1> QED BY <1>3, <1>4, SMT DEF DateInv, DayOf, MonthsBefore

LEMMA NextYearDays ==
  ASSUME NEW y \in 1970 .. 2099
  PROVE  YearDays(y) \in Nat /\ YearDays(y + 1) = YearDays(y) + 337 + February(y)
BY DEF YearDays, February

LEMMA DateStep ==
  ASSUME DateInv, NextDay \/ UNCHANGED dateVars
  PROVE  DateInv'
<1>1. CASE UNCHANGED dateVars
  <2>1. calendar' = calendar /\ dayNumber' = dayNumber
    BY <1>1 DEF dateVars
  <2> QED BY <2>1 DEF DateInv, DayOf
<1>2. CASE NextDay
  <2> DEFINE y == calendar.year
             m == calendar.month
             d == calendar.day
             f == February(y)
             D == DaysPerMonth(f)
             x == calendar'
  <2>1. /\ y \in 1970 .. 2099 /\ m \in 0 .. 11 /\ d \in Nat /\ y <= LastYear
        /\ calendar = [year |-> y, month |-> m, day |-> d]
        /\ d < D[m + 1] /\ dayNumber = YearDays(y) + SumOfFirst(m, D) + d
    BY DateParts
  <2>2. f \in {28, 29} /\ f = IF IsLeapYear(y) THEN 29 ELSE 28
    BY <2>1, LeapYears DEF February
  <2>3. /\ dayNumber' = dayNumber + 1 /\ x.year <= LastYear
        /\ x = IF d + 1 < D[m + 1] THEN [calendar EXCEPT !.day = @ + 1]
               ELSE IF m < 11 THEN [calendar EXCEPT !.day = 0, !.month = @ + 1]
               ELSE [year |-> y + 1, month |-> 0, day |-> 0]
    BY <1>2, <2>2, Zenon DEF NextDay
  <2>4. /\ \A i \in 1 .. 12 : D[i] \in 28 .. 31
        /\ Growing(12, D) /\ SumOfFirst(0, D) = 0 /\ SumOfFirst(12, D) = 337 + f
    BY <2>2, Months
  <2>5. SumOfFirst(m + 1, D) = SumOfFirst(m, D) + D[m + 1]
    BY <2>1, SumOfFirstNext
  <2>6. D[m + 1] \in 28 .. 31 /\ SumOfFirst(m, D) \in Nat
    BY <2>1, <2>4 DEF Growing
  <2>7. YearDays(y) \in Nat /\ YearDays(y + 1) = YearDays(y) + 337 + f
    BY <2>1, NextYearDays
  <2>8. CASE d + 1 < D[m + 1]
    <3> HIDE DEF y, m, d, D, f
    <3>1. x = [year |-> y, month |-> m, day |-> d + 1]
      BY <2>1, <2>3, <2>8 DEF D, f, y, m, d
    <3>2. x \in [year : 1970 .. LastYear, month : 0 .. 11, day : Nat]
      BY <2>1, <3>1
    <3>3. x.year = y /\ x.month = m /\ x.day = d + 1
      BY <3>1
    <3> HIDE DEF x
    <3>4. DayOf(x) = YearDays(y) + SumOfFirst(m, D) + (d + 1)
      BY <3>3, Zenon DEF DayOf, MonthsBefore, D, f
    <3>5. dayNumber' = DayOf(x)
      BY <2>1, <2>3, <2>6, <2>7, <3>4
    <3>6. x.day < DaysPerMonth(February(x.year))[x.month + 1]
      BY <2>8, <3>3, Zenon DEF D, f
    <3> QED BY <3>2, <3>5, <3>6 DEF DateInv, x, DayOf, MonthsBefore
  <2>9. CASE ~(d + 1 < D[m + 1]) /\ m < 11
    <3>1. d + 1 = D[m + 1]
      BY <2>1, <2>6, <2>9
    <3> HIDE DEF y, m, d, D, f
    <3>2. x = [year |-> y, month |-> m + 1, day |-> 0]
      <4>1. x = [calendar EXCEPT !.day = 0, !.month = @ + 1]
        BY <2>3, <2>9, Zenon DEF y, m, d, D, f
      <4> DEFINE z == [calendar EXCEPT !.day = 0]
      <4>2. x = [z EXCEPT !.month = @ + 1]
        BY <4>1, Zenon
      <4>3. z = [year |-> y, month |-> m, day |-> 0]
        BY <2>1 DEF y, m, d
      <4> HIDE DEF z
      <4> QED BY <4>2, <4>3
    <3>3. x \in [year : 1970 .. LastYear, month : 0 .. 11, day : Nat]
      BY <2>1, <2>9, <3>2
    <3>4. x.year = y /\ x.month = m + 1 /\ x.day = 0
      BY <3>2
    <3> HIDE DEF x
    <3>5. DayOf(x) = YearDays(y) + SumOfFirst(m + 1, D) + 0
      BY <3>4, Zenon DEF DayOf, MonthsBefore, D, f
    <3>6. dayNumber' = DayOf(x)
      BY <2>1, <2>3, <2>5, <2>6, <2>7, <3>1, <3>5
    <3>7. D[(m + 1) + 1] \in 28 .. 31
      <4>1. (m + 1) + 1 \in 1 .. 12
        BY <2>1, <2>9
      <4> QED BY <2>4, <4>1
    <3>8. x.day < DaysPerMonth(February(x.year))[x.month + 1]
      <4>1. 0 < D[(m + 1) + 1]
        BY <3>7
      <4> QED BY <3>4, <4>1, Zenon DEF D, f
    <3> QED BY <3>3, <3>6, <3>8 DEF DateInv, x, DayOf, MonthsBefore
  <2>10. CASE ~(d + 1 < D[m + 1]) /\ ~(m < 11)
    <3>1. d + 1 = D[m + 1] /\ m = 11
      BY <2>1, <2>6, <2>10
    <3> HIDE DEF y, m, d, D, f
    <3> DEFINE z == y + 1
               E == DaysPerMonth(February(z))
    <3>2. x = [year |-> z, month |-> 0, day |-> 0]
      BY <2>3, <2>10, Zenon DEF y, m, d, D, f
    <3>3. x.year = z /\ x.month = 0 /\ x.day = 0
      BY <3>2
    <3>4. x \in [year : 1970 .. LastYear, month : 0 .. 11, day : Nat]
      <4>1. z \in 1970 .. LastYear
        BY <2>1, <2>3, <3>3, YearsAssumption, SMT DEF z
      <4> QED BY <3>2, <4>1
    <3>5. February(z) \in {28, 29}
      BY DEF February
    <3> HIDE DEF x, z
    <3>6. SumOfFirst(0, E) = 0 /\ \A i \in 1 .. 12 : E[i] \in 28 .. 31
      BY <3>5, Months
    <3> HIDE DEF E
    <3>7. DayOf(x) = YearDays(z) + SumOfFirst(0, E) + 0
      BY <3>3, Zenon DEF DayOf, MonthsBefore, E
    <3>8. SumOfFirst(m + 1, D) = 337 + f
      BY <2>4, <3>1
    <3>9. dayNumber' = DayOf(x)
      BY <2>1, <2>2, <2>3, <2>5, <2>6, <2>7, <3>1, <3>6, <3>7, <3>8 DEF z
    <3>10. x.day < DaysPerMonth(February(x.year))[x.month + 1]
      <4>1. 0 < E[0 + 1]
        BY <3>6
      <4> QED BY <3>3, <4>1, Zenon DEF E
    <3> QED BY <3>4, <3>9, <3>10 DEF DateInv, x, DayOf, MonthsBefore
  <2> QED BY <2>8, <2>9, <2>10
<1> QED BY <1>1, <1>2

LEMMA StructFields ==
  ASSUME NEW d, NEW sec, NEW cycleYear, NEW leap, NEW left, NEW y0, NEW ofYear, NEW months, NEW m0, NEW t,
         cycleYear = 1970 + 4 * (d \div numDaysPerLeapCycle),
         leap = (4 - (cycleYear % 4)) % 4,
         left = d % numDaysPerLeapCycle,
         y0 = YearOfCycle(left, leap),
         ofYear = left - DaysBefore(y0, leap),
         months = DaysPerMonth(IF (cycleYear + y0) % 4 = 0 THEN 29 ELSE 28),
         m0 = MonthOfYear(ofYear, months),
         t = CNV_EpochTimestampToDateStruct(d, sec)
  PROVE  /\ t.year = cycleYear + y0 /\ t.month = m0 /\ t.day = ofYear - MonthsBefore(months, m0)
         /\ t.hour = sec \div 3600 /\ t.min = (sec % 3600) \div 60 /\ t.sec = sec % 60
BY SMT DEF CNV_EpochTimestampToDateStruct

\* The place of a day among the months or the years is the only one, so it is chosen.
LEMMA MonthFound ==
  ASSUME NEW f \in {28, 29}, NEW m \in 0 .. 11, NEW x \in Nat,
         SumOfFirst(m, DaysPerMonth(f)) <= x, x < SumOfFirst(m + 1, DaysPerMonth(f))
  PROVE  MonthOfYear(x, DaysPerMonth(f)) = m
<1> DEFINE D == DaysPerMonth(f)
           P(n) == SumOfFirst(n, D) <= x /\ x < SumOfFirst(n + 1, D)
<1>1. P(m)
  OBVIOUS
<1>2. MonthOfYear(x, D) = CHOOSE n \in 0 .. 11 : P(n)
  BY Zenon DEF MonthOfYear, MonthsBefore
<1>3. Growing(12, D) /\ \A i \in 1 .. 12 : D[i] \in 28 .. 31
  BY Months
<1>4. \A i \in 1 .. 12 : D[i] \in Nat
  BY <1>3
<1> HIDE DEF D
<1>5. ASSUME NEW n \in 0 .. 11, P(n) PROVE n = m
  <2>1. m \in 0 .. 12 - 1 /\ n \in 0 .. 12 - 1
    OBVIOUS
  <2> QED BY <1>1, <1>3, <1>4, <1>5, <2>1, OnePlace
<1> HIDE DEF P
<1>6. (CHOOSE n \in 0 .. 11 : P(n)) = m
  BY <1>1, <1>5
<1> QED BY <1>2, <1>6, Zenon DEF D

LEMMA YearFound ==
  ASSUME NEW y \in 0 .. 3, NEW x \in Nat, DaysBefore(y, 2) <= x, x < DaysBefore(y + 1, 2)
  PROVE  YearOfCycle(x, 2) = y
<1> DEFINE h == [i \in 1 .. 4 |-> YearLength(i - 1, 2)]
           P(n) == SumOfFirst(n, h) <= x /\ x < SumOfFirst(n + 1, h)
<1>1. P(y)
  BY Zenon DEF DaysBefore
<1>2. YearOfCycle(x, 2) = CHOOSE n \in 0 .. 3 : P(n)
  BY Zenon DEF YearOfCycle, DaysBefore
<1>3. \A i \in 1 .. 4 : h[i] \in Nat
  BY DEF YearLength
<1> HIDE DEF h
<1>4. Growing(4, h)
  BY <1>3, SumsGrow
<1>5. ASSUME NEW n \in 0 .. 3, P(n) PROVE n = y
  <2>1. y \in 0 .. 4 - 1 /\ n \in 0 .. 4 - 1
    OBVIOUS
  <2> QED BY <1>1, <1>3, <1>4, <1>5, <2>1, OnePlace
<1> HIDE DEF P
<1>6. (CHOOSE n \in 0 .. 3 : P(n)) = y
  BY <1>1, <1>5
<1> QED BY <1>2, <1>6, Zenon

LEMMA DaysBeforeIs ==
  /\ DaysBefore(0, 2) = 0 /\ DaysBefore(1, 2) = 365 /\ DaysBefore(2, 2) = 730
  /\ DaysBefore(3, 2) = 1096 /\ DaysBefore(4, 2) = 1461
<1> DEFINE h == [i \in 1 .. 4 |-> YearLength(i - 1, 2)]
<1>1. CycleTerms(h)
  BY SMT DEF CycleTerms, YearLength
<1>2. \A y : DaysBefore(y, 2) = SumOfFirst(y, h)
  BY DEF DaysBefore
<1> HIDE DEF h
<1> QED BY <1>1, <1>2, CycleYears, SMT

\* The day n is the r-th of the j-th year of the k-th cycle.
InCycle(n, k, j, r) ==
  /\ n \div numDaysPerLeapCycle = k
  /\ n % numDaysPerLeapCycle = DaysBefore(j, 2) + r
  /\ DaysBefore(j, 2) \in Nat
  /\ DaysBefore(j, 2) + r < DaysBefore(j + 1, 2)
  /\ n = k * numDaysPerLeapCycle + DaysBefore(j, 2) + r

YearIs(y, k, j) == y = 1970 + 4 * k + j

LEMMA CyclePlace ==
  ASSUME NEW k \in Nat, NEW j \in 0 .. 3, NEW y, YearIs(y, k, j), NEW r \in Nat, r < 337 + February(y)
  PROVE  InCycle(YearDays(y) + r, k, j, r)
<1>1. numDaysPerLeapCycle = 1461
  BY DEF numDaysPerLeapCycle
<1>2. CASE j = 0
  <2>1. YearDays(y) = 1461 * k /\ r < 365
    BY <1>2, SMT DEF YearDays, February, YearIs
  <2>2. DaysBefore(j, 2) = 0 /\ DaysBefore(j + 1, 2) = 365
    BY <1>2, DaysBeforeIs, SMT
  <2> QED BY <1>1, <2>1, <2>2, SMT DEF InCycle
<1>3. CASE j = 1
  <2>1. YearDays(y) = 1461 * k + 365 /\ r < 365
    BY <1>3, SMT DEF YearDays, February, YearIs
  <2>2. DaysBefore(j, 2) = 365 /\ DaysBefore(j + 1, 2) = 730
    BY <1>3, DaysBeforeIs, SMT
  <2> QED BY <1>1, <2>1, <2>2, SMT DEF InCycle
<1>4. CASE j = 2
  <2>1. YearDays(y) = 1461 * k + 730 /\ r < 366
    BY <1>4, SMT DEF YearDays, February, YearIs
  <2>2. DaysBefore(j, 2) = 730 /\ DaysBefore(j + 1, 2) = 1096
    BY <1>4, DaysBeforeIs, SMT
  <2> QED BY <1>1, <2>1, <2>2, SMT DEF InCycle
<1>5. CASE j = 3
  <2>1. YearDays(y) = 1461 * k + 1096 /\ r < 365
    BY <1>5, SMT DEF YearDays, February, YearIs
  <2>2. DaysBefore(j, 2) = 1096 /\ DaysBefore(j + 1, 2) = 1461
    BY <1>5, DaysBeforeIs, SMT
  <2> QED BY <1>1, <2>1, <2>2, SMT DEF InCycle
<1> QED BY <1>2, <1>3, <1>4, <1>5, SMT

LEMMA DateFollows ==
  ASSUME DateInv, NEW sec, NEW t, t = CNV_EpochTimestampToDateStruct(dayNumber, sec)
  PROVE  /\ t.year = calendar.year /\ t.month = calendar.month /\ t.day = calendar.day
         /\ t.hour = sec \div 3600 /\ t.min = (sec % 3600) \div 60 /\ t.sec = sec % 60
<1> DEFINE y == calendar.year
           m == calendar.month
           d == calendar.day
           f == February(y)
           D == DaysPerMonth(f)
           k == (y - 1970) \div 4
           j == (y - 1970) % 4
           r == SumOfFirst(m, D) + d
<1>1. /\ y \in 1970 .. 2099 /\ m \in 0 .. 11 /\ d \in Nat
      /\ d < D[m + 1] /\ dayNumber = YearDays(y) + SumOfFirst(m, D) + d
  BY DateParts
<1>2. f \in {28, 29}
  BY DEF February
<1>3. /\ \A i \in 1 .. 12 : D[i] \in 28 .. 31
      /\ Growing(12, D) /\ SumOfFirst(12, D) = 337 + f
  BY <1>2, Months
<1>4. SumOfFirst(m + 1, D) = SumOfFirst(m, D) + D[m + 1]
  BY <1>1, SumOfFirstNext
<1>5. D[m + 1] \in 28 .. 31 /\ SumOfFirst(m, D) \in Nat
  BY <1>1, <1>3 DEF Growing
<1> HIDE DEF y, m, d, f, D
<1>6. SumOfFirst(m + 1, D) <= 337 + f
  <2>1. CASE m = 11
    <3>1. m + 1 = 12 /\ 337 + f <= 337 + f
      BY <1>2, <2>1
    <3> QED BY <1>3, <3>1
  <2>2. CASE m < 11
    BY <1>1, <1>3, <1>4, <1>5, <2>2 DEF Growing
  <2> QED BY <1>1, <2>1, <2>2
<1>7. r \in Nat /\ r < 337 + f /\ SumOfFirst(m, D) <= r /\ r < SumOfFirst(m + 1, D)
  BY <1>1, <1>2, <1>4, <1>5, <1>6
<1>8. k \in Nat /\ j \in 0 .. 3 /\ y = 1970 + 4 * k + j /\ (1970 + 4 * k) % 4 = 2
  BY <1>1, SMT
<1>9. YearDays(y) \in Nat
  BY <1>1, NextYearDays
<1>10. dayNumber = YearDays(y) + r
  BY <1>1, <1>5, <1>9
<1> HIDE DEF r, k, j
<1> DEFINE cycleYear == 1970 + 4 * k
           left == DaysBefore(j, 2) + r
<1>11. /\ dayNumber \div numDaysPerLeapCycle = k /\ dayNumber % numDaysPerLeapCycle = left
       /\ DaysBefore(j, 2) \in Nat /\ left < DaysBefore(j + 1, 2)
  <2>1. InCycle(YearDays(y) + r, k, j, r)
    <3>1. YearIs(y, k, j)
      BY <1>8, SMT DEF YearIs
    <3>2. k \in Nat /\ j \in 0 .. 3 /\ r \in Nat /\ r < 337 + February(y)
      BY <1>7, <1>8, SMT DEF f
    <3> QED BY <3>1, <3>2, CyclePlace, SMT
  <2>2. InCycle(dayNumber, k, j, r)
    BY <1>10, <2>1
  <2> QED BY <2>2 DEF InCycle
<1>12. (4 - (cycleYear % 4)) % 4 = 2
  BY <1>8, SMT
<1>13. YearOfCycle(left, 2) = j
  <2>1. left \in Nat /\ DaysBefore(j, 2) <= left
    BY <1>7, <1>11
  <2> HIDE DEF left
  <2> QED BY <1>8, <1>11, <2>1, YearFound
<1>14. left - DaysBefore(j, 2) = r
  BY <1>7, <1>11
<1>15. DaysPerMonth(IF (cycleYear + j) % 4 = 0 THEN 29 ELSE 28) = D
  BY <1>8 DEF D, f, February
<1>16. MonthOfYear(r, D) = m
  BY <1>1, <1>2, <1>7, MonthFound DEF D
<1> HIDE DEF left
<1>17. cycleYear + j = y
  BY <1>8
<1>18. cycleYear = 1970 + 4 * (dayNumber \div numDaysPerLeapCycle)
  BY <1>11
<1> HIDE DEF cycleYear
<1>19. /\ t.year = cycleYear + j /\ t.month = m /\ t.day = r - MonthsBefore(D, m)
       /\ t.hour = sec \div 3600 /\ t.min = (sec % 3600) \div 60 /\ t.sec = sec % 60
  BY <1>11, <1>12, <1>13, <1>14, <1>15, <1>16, <1>18, StructFields, SMT
<1>20. r - MonthsBefore(D, m) = d
  BY <1>1, <1>5 DEF r, MonthsBefore
<1> QED BY <1>17, <1>19, <1>20, SMT DEF y, m, d

TimeOf(sec, hour, min, s) == hour = sec \div 3600 /\ min = (sec % 3600) \div 60 /\ s = sec % 60

LEMMA SecondsSplit ==
  ASSUME NEW sec \in Nat, sec < 86400, NEW hour, NEW min, NEW s, TimeOf(sec, hour, min, s)
  PROVE  /\ hour \in 0 .. 23 /\ min \in 0 .. 59 /\ s \in 0 .. 59
         /\ hour * 3600 + min * 60 + s = sec
<1> DEFINE q == sec % 3600
<1>1. hour \in Nat /\ q \in Nat /\ q < 3600 /\ sec = 3600 * hour + q /\ hour < 24
  BY SMT DEF TimeOf
<1>2. min = q \div 60 /\ s = sec % 60
  BY SMT DEF TimeOf
<1> HIDE DEF q
<1>3. min \in Nat /\ min < 60 /\ q - 60 * min \in 0 .. 59
  BY <1>1, <1>2, SMT
<1>4. s = q - 60 * min
  BY <1>1, <1>2, <1>3, SMT
<1> QED BY <1>1, <1>3, <1>4, SMT

LEMMA DatesFollow ==
  ASSUME DateInv
  PROVE  DatesFollowCalendar
<1> SUFFICES ASSUME NEW sec \in SecondsOfDay, NEW t, t = CNV_EpochTimestampToDateStruct(dayNumber, sec)
             PROVE  /\ [year |-> t.year, month |-> t.month, day |-> t.day] = calendar
                    /\ t.hour * 3600 + t.min * 60 + t.sec = sec
  BY SMT DEF DatesFollowCalendar
<1>1. /\ t.year = calendar.year /\ t.month = calendar.month /\ t.day = calendar.day
      /\ TimeOf(sec, t.hour, t.min, t.sec)
  BY DateFollows, SMT DEF TimeOf
<1>2. calendar = [year |-> calendar.year, month |-> calendar.month, day |-> calendar.day]
  BY DateParts
<1>3. sec \in Nat /\ sec < 86400
  BY SecondsAssumption
<1>4. [year |-> t.year, month |-> t.month, day |-> t.day] = calendar
  BY <1>1, <1>2, SMT
<1>5. t.hour * 3600 + t.min * 60 + t.sec = sec
  BY <1>1, <1>3, SecondsSplit, SMT
<1> QED BY <1>4, <1>5

\* A date struct that is the calendar's date is its day.
LEMMA ToTimestamp ==
  ASSUME DateInv, NEW u, u.year = calendar.year, u.month = calendar.month, u.day = calendar.day
  PROVE  CNV_EpochDateStructToTimestamp(u) = [day |-> dayNumber, sec |-> u.hour * 3600 + u.min * 60 + u.sec]
<1> DEFINE y == calendar.year
           m == calendar.month
           d == calendar.day
           f == February(y)
           D == DaysPerMonth(f)
           k == (y - 1970) \div 4
           j == (y - 1970) % 4
           first == 1970 + 4 * k
           g == [i \in 1 .. 4 |-> IF (first + i - 1) % 4 = 0 THEN 366 ELSE 365]
<1>1. /\ y \in 1970 .. 2099 /\ m \in 0 .. 11 /\ d \in Nat
      /\ dayNumber = YearDays(y) + SumOfFirst(m, D) + d
  BY DateParts
<1>2. D = DaysPerMonth(IF u.year % 4 = 0 THEN 29 ELSE 28)
  BY SMT DEF February
<1> HIDE DEF D
<1>3. YearsBefore(y) = k * numDaysPerLeapCycle + SumOfFirst(y - first, g)
  BY SMT DEF YearsBefore
<1> HIDE DEF y, m, d, f
<1>4. k \in Nat /\ j \in 0 .. 3 /\ y = 1970 + 4 * k + j
  BY <1>1, SMT
<1>5. YearIs(y, k, j)
  BY <1>4, SMT DEF YearIs
<1> HIDE DEF k, j
<1>6. y - first = j
  BY <1>4, SMT
<1>7. CycleTerms(g)
  BY <1>4, SMT DEF CycleTerms
<1> HIDE DEF g, first
<1>8. SumOfFirst(j, g) = DaysBefore(j, 2)
  BY <1>4, <1>7, CycleYears, DaysBeforeIs, SMT
<1>9. InCycle(YearDays(y) + 0, k, j, 0)
  <2>1. 0 < 337 + February(y) /\ 0 \in Nat
    BY SMT DEF February
  <2> QED BY <1>4, <1>5, <2>1, CyclePlace, SMT
<1>10. YearDays(y) \in Nat
  BY <1>1, NextYearDays
<1>11. YearsBefore(y) = YearDays(y)
  BY <1>3, <1>4, <1>6, <1>8, <1>9, <1>10, SMT DEF InCycle, numDaysPerLeapCycle
<1>12. m % 12 = m
  BY <1>1, SMT
<1>13. u.year = y /\ u.month = m /\ u.day = d
  BY DEF y, m, d
<1>14. YearsBefore(u.year) + MonthsBefore(D, u.month % 12) + u.day = dayNumber
  BY <1>1, <1>11, <1>12, <1>13, SMT DEF MonthsBefore
<1>15. CNV_EpochDateStructToTimestamp(u)
         = [day |-> YearsBefore(u.year) + MonthsBefore(D, u.month % 12) + u.day,
            sec |-> u.hour * 3600 + u.min * 60 + u.sec]
  BY <1>2, SMT DEF CNV_EpochDateStructToTimestamp
<1> QED BY <1>14, <1>15

\* Two digits more are the last pair, and move the other pairs one place on.
LEMMA PairsOn ==
  ASSUME NEW s \in Seq(Nat), NEW n \in Nat, n < 100, NEW k \in Nat, Len(s) = 2 * k
  PROVE  /\ s \o TwoDigits(n) \in Seq(Nat) /\ Len(s \o TwoDigits(n)) = 2 * (k + 1)
         /\ PairFromEnd(s \o TwoDigits(n), 1) = n
         /\ \A i \in 1 .. k : PairFromEnd(s \o TwoDigits(n), i + 1) = PairFromEnd(s, i)
<1> DEFINE x == n \div 10
           z == n % 10
           p == <<x, z>>
           q == s \o p
           l == Len(s)
<1>1. x \in Nat /\ z \in Nat /\ 10 * x + z = n
  BY SMT
<1>2. TwoDigits(n) = p
  BY Zenon DEF TwoDigits
<1> HIDE DEF x, z
<1>3. p \in Seq(Nat) /\ Len(p) = 2 /\ p[1] = x /\ p[2] = z
  BY <1>1
<1> HIDE DEF p
<1>4. /\ q \in Seq(Nat) /\ Len(q) = Len(s) + Len(p)
      /\ \A i \in 1 .. Len(s) + Len(p) : q[i] = IF i <= Len(s) THEN s[i] ELSE p[i - Len(s)]
  BY <1>3, ConcatProperties, Zenon
<1> HIDE DEF q
<1>5. Len(s) = l /\ l = 2 * k /\ l \in Nat
  OBVIOUS
<1> HIDE DEF l
<1>6. Len(q) = l + 2
  BY <1>3, <1>4, <1>5
<1>7. q[l + 1] = x /\ q[l + 2] = z
  BY <1>3, <1>4, <1>5
<1>8. \A i \in 1 .. l : q[i] = s[i]
  BY <1>3, <1>4, <1>5
<1>9. PairFromEnd(q, 1) = n
  <2>1. 2 * 1 <= Len(q) /\ Len(q) - 2 * 1 + 1 = l + 1 /\ Len(q) - 2 * 1 + 2 = l + 2
    BY <1>5, <1>6, SMT
  <2>2. PairFromEnd(q, 1) = 10 * q[l + 1] + q[l + 2]
    BY <2>1, SMT DEF PairFromEnd
  <2> QED BY <1>1, <1>7, <2>2
<1>10. ASSUME NEW i \in 1 .. k
       PROVE  PairFromEnd(q, i + 1) = PairFromEnd(s, i)
  <2> DEFINE c == l - 2 * i + 1
             e == l - 2 * i + 2
  <2>1. 2 * (i + 1) <= Len(q) /\ Len(q) - 2 * (i + 1) + 1 = c /\ Len(q) - 2 * (i + 1) + 2 = e
    BY <1>5, <1>6, SMT
  <2>2. 2 * i <= Len(s) /\ Len(s) - 2 * i + 1 = c /\ Len(s) - 2 * i + 2 = e
    BY <1>5, SMT
  <2>3. c \in 1 .. l /\ e \in 1 .. l
    BY <1>5, SMT
  <2> HIDE DEF c, e
  <2>4. PairFromEnd(q, i + 1) = 10 * q[c] + q[e]
    BY <2>1, SMT DEF PairFromEnd
  <2>5. PairFromEnd(s, i) = 10 * s[c] + s[e]
    BY <2>2, SMT DEF PairFromEnd
  <2> QED BY <1>8, <2>3, <2>4, <2>5
<1>11. 2 * (k + 1) = l + 2
  BY <1>5, SMT
<1> QED BY <1>2, <1>4, <1>6, <1>9, <1>10, <1>11 DEF q

\* Fourteen digits are seven pairs: what pairs a text ends with.
Pairs(s, k) == s \in Seq(Nat) /\ Len(s) = 2 * k

Added(q, s, k, n) ==
  /\ Pairs(q, k + 1) /\ PairFromEnd(q, 1) = n
  /\ \A i \in 1 .. k : PairFromEnd(q, i + 1) = PairFromEnd(s, i)

Joined(q, s, n) == q = s \o TwoDigits(n)

LEMMA PairsAdd ==
  ASSUME NEW s, NEW k \in Nat, Pairs(s, k), NEW n \in Nat, n < 100, NEW q, Joined(q, s, n)
  PROVE  Added(q, s, k, n)
BY PairsOn, SMT DEF Pairs, Added, Joined

LEMMA Hundreds ==
  ASSUME NEW y \in Nat
  PROVE  /\ y \div 1000 \in Nat /\ (y \div 100) % 10 \in Nat
         /\ 10 * (y \div 1000) + ((y \div 100) % 10) = y \div 100
<1> DEFINE c == y \div 100
           e == c \div 10
<1>1. c \in Nat /\ 100 * c <= y /\ y < 100 * c + 100
  BY SMT
<1> HIDE DEF c
<1>5. c \in Nat
  BY <1>1
<1>2. e \in Nat /\ c % 10 \in Nat /\ 10 * e + (c % 10) = c /\ 10 * e <= c /\ c < 10 * e + 10
  BY <1>5, SMT
<1> HIDE DEF e
<1>3. 1000 * e <= y /\ y < 1000 * e + 1000
  BY <1>1, <1>2, SMT
<1>7. e \in Nat
  BY <1>2
<1> DEFINE th == y \div 1000
<1>4. th = e
  BY <1>3, <1>7, SMT
<1> HIDE DEF th
<1>6. th \in Nat /\ c % 10 \in Nat /\ 10 * th + (c % 10) = c
  BY <1>2, <1>4, SMT
<1> QED BY <1>6 DEF c, th

LEMMA TextOfDate ==
  ASSUME NEW t, t.year \in Nat, t.year < 10000, t.month \in 0 .. 11, t.day \in 0 .. 30,
         t.hour \in 0 .. 23, t.min \in 0 .. 59, t.sec \in 0 .. 59, NEW g, g = GeneralizedTime(t)
  PROVE  /\ Len(g) = 14
         /\ PairFromEnd(g, 1) = t.sec /\ PairFromEnd(g, 2) = t.min /\ PairFromEnd(g, 3) = t.hour
         /\ PairFromEnd(g, 4) = t.day + 1 /\ PairFromEnd(g, 5) = t.month + 1
         /\ PairFromEnd(g, 6) = t.year % 100 /\ PairFromEnd(g, 7) = t.year \div 100
<1> DEFINE y == t.year
           yy == y % 100
           m == t.month + 1
           d == t.day + 1
           h == t.hour
           mi == t.min
           s == t.sec
           g1 == <<y \div 1000, (y \div 100) % 10>>
           g2 == g1 \o TwoDigits(yy)
           g3 == g2 \o TwoDigits(m)
           g4 == g3 \o TwoDigits(d)
           g5 == g4 \o TwoDigits(h)
           g6 == g5 \o TwoDigits(mi)
           g7 == g6 \o TwoDigits(s)
<1>1. g = g7
  BY SMT DEF GeneralizedTime
<1>2. /\ yy \in Nat /\ yy < 100 /\ m \in Nat /\ m < 100 /\ d \in Nat /\ d < 100 /\ h \in Nat /\ h < 100
      /\ mi \in Nat /\ mi < 100 /\ s \in Nat /\ s < 100
  BY SMT
<1>3. y \in Nat /\ y < 10000
  OBVIOUS
<1> HIDE DEF y
<1>4. /\ y \div 1000 \in Nat /\ (y \div 100) % 10 \in Nat
      /\ 10 * (y \div 1000) + ((y \div 100) % 10) = y \div 100
  BY <1>3, Hundreds
<1>5. Pairs(g1, 1) /\ g1[1] = y \div 1000 /\ g1[2] = (y \div 100) % 10 /\ Len(g1) = 2
  BY <1>4, SMT DEF Pairs
<1>14. Pairs(g1, 1)
  BY <1>5
<1> HIDE DEF g1, yy, m, d, h, mi, s
<1>6. PairFromEnd(g1, 1) = y \div 100
  <2>1. PairFromEnd(g1, 1) = 10 * g1[1] + g1[2]
    BY <1>5, SMT DEF PairFromEnd
  <2> QED BY <1>4, <1>5, <2>1, SMT
<1> HIDE DEF g2, g3, g4, g5, g6, g7
<1>7. Pairs(g2, 2) /\ PairFromEnd(g2, 1) = yy /\ PairFromEnd(g2, 2) = y \div 100
  <2>2. Joined(g2, g1, yy)
    BY SMT DEF Joined, g2
  <2>1. Added(g2, g1, 1, yy)
    BY <1>2, <1>14, <2>2, PairsAdd, SMT
  <2> QED BY <1>6, <2>1, SMT DEF Added
<1>8. Pairs(g3, 3) /\ PairFromEnd(g3, 1) = m /\ PairFromEnd(g3, 2) = yy /\ PairFromEnd(g3, 3) = y \div 100
  <2>2. Joined(g3, g2, m)
    BY SMT DEF Joined, g3
  <2>1. Added(g3, g2, 2, m)
    BY <1>2, <1>7, <2>2, PairsAdd, SMT
  <2> QED BY <1>7, <2>1, SMT DEF Added
<1>9. /\ Pairs(g4, 4) /\ PairFromEnd(g4, 1) = d /\ PairFromEnd(g4, 2) = m
      /\ PairFromEnd(g4, 3) = yy /\ PairFromEnd(g4, 4) = y \div 100
  <2>2. Joined(g4, g3, d)
    BY SMT DEF Joined, g4
  <2>1. Added(g4, g3, 3, d)
    BY <1>2, <1>8, <2>2, PairsAdd, SMT
  <2> QED BY <1>8, <2>1, SMT DEF Added
<1>10. /\ Pairs(g5, 5) /\ PairFromEnd(g5, 1) = h /\ PairFromEnd(g5, 2) = d /\ PairFromEnd(g5, 3) = m
       /\ PairFromEnd(g5, 4) = yy /\ PairFromEnd(g5, 5) = y \div 100
  <2>2. Joined(g5, g4, h)
    BY SMT DEF Joined, g5
  <2>1. Added(g5, g4, 4, h)
    BY <1>2, <1>9, <2>2, PairsAdd, SMT
  <2> QED BY <1>9, <2>1, SMT DEF Added
<1>11. /\ Pairs(g6, 6) /\ PairFromEnd(g6, 1) = mi /\ PairFromEnd(g6, 2) = h /\ PairFromEnd(g6, 3) = d
       /\ PairFromEnd(g6, 4) = m /\ PairFromEnd(g6, 5) = yy /\ PairFromEnd(g6, 6) = y \div 100
  <2>2. Joined(g6, g5, mi)
    BY SMT DEF Joined, g6
  <2>1. Added(g6, g5, 5, mi)
    BY <1>2, <1>10, <2>2, PairsAdd, SMT
  <2> QED BY <1>10, <2>1, SMT DEF Added
<1>12. /\ Pairs(g7, 7) /\ PairFromEnd(g7, 1) = s /\ PairFromEnd(g7, 2) = mi /\ PairFromEnd(g7, 3) = h
       /\ PairFromEnd(g7, 4) = d /\ PairFromEnd(g7, 5) = m /\ PairFromEnd(g7, 6) = yy
       /\ PairFromEnd(g7, 7) = y \div 100
  <2>2. Joined(g7, g6, s)
    BY SMT DEF Joined, g7
  <2>1. Added(g7, g6, 6, s)
    BY <1>2, <1>11, <2>2, PairsAdd, SMT
  <2> QED BY <1>11, <2>1, SMT DEF Added
<1>13. Len(g) = 14
  BY <1>1, <1>12, SMT DEF Pairs
<1> QED BY <1>1, <1>12, <1>13, SMT DEF s, mi, h, d, m, yy, y

LEMMA DatesBack ==
  ASSUME DateInv
  PROVE  DatesConvertBack
<1> SUFFICES ASSUME NEW sec \in SecondsOfDay, NEW t, t = CNV_EpochTimestampToDateStruct(dayNumber, sec)
             PROVE  /\ CNV_EpochDateStructToTimestamp(t) = [day |-> dayNumber, sec |-> sec]
                    /\ ParseGeneralizedTime(GeneralizedTime(t)) = [day |-> dayNumber, sec |-> sec]
  BY SMT DEF DatesConvertBack
<1>1. /\ t.year = calendar.year /\ t.month = calendar.month /\ t.day = calendar.day
      /\ TimeOf(sec, t.hour, t.min, t.sec)
  BY DateFollows, SMT DEF TimeOf
<1>2. sec \in Nat /\ sec < 86400
  BY SecondsAssumption
<1>3. /\ t.hour \in 0 .. 23 /\ t.min \in 0 .. 59 /\ t.sec \in 0 .. 59
      /\ t.hour * 3600 + t.min * 60 + t.sec = sec
  BY <1>1, <1>2, SecondsSplit, SMT
<1>4. CNV_EpochDateStructToTimestamp(t) = [day |-> dayNumber, sec |-> sec]
  BY <1>1, <1>3, ToTimestamp, SMT
<1>5. t.year \in 1970 .. 2099 /\ t.month \in 0 .. 11 /\ t.day \in 0 .. 30
  <2>1. /\ calendar.year \in 1970 .. 2099 /\ calendar.month \in 0 .. 11 /\ calendar.day \in Nat
        /\ calendar.day < DaysPerMonth(February(calendar.year))[calendar.month + 1]
    BY DateParts
  <2>2. February(calendar.year) \in {28, 29}
    BY SMT DEF February
  <2>3. DaysPerMonth(February(calendar.year))[calendar.month + 1] \in 28 .. 31
    <3>1. calendar.month + 1 \in 1 .. 12
      BY <2>1, SMT
    <3> QED BY <2>2, <3>1, Months, SMT
  <2> QED BY <1>1, <2>1, <2>3, SMT
<1> DEFINE g == GeneralizedTime(t)
           u == [sec |-> PairFromEnd(g, 1), min |-> PairFromEnd(g, 2), hour |-> PairFromEnd(g, 3),
                 day |-> PairFromEnd(g, 4) - 1, month |-> PairFromEnd(g, 5) - 1,
                 year |-> PairFromEnd(g, 6) + IF Len(g) < 14 THEN 2000 ELSE 100 * PairFromEnd(g, 7)]
<1>6. ParseGeneralizedTime(g) = CNV_EpochDateStructToTimestamp(u)
  BY SMT DEF ParseGeneralizedTime
<1>7. /\ Len(g) = 14
      /\ PairFromEnd(g, 1) = t.sec /\ PairFromEnd(g, 2) = t.min /\ PairFromEnd(g, 3) = t.hour
      /\ PairFromEnd(g, 4) = t.day + 1 /\ PairFromEnd(g, 5) = t.month + 1
      /\ PairFromEnd(g, 6) = t.year % 100 /\ PairFromEnd(g, 7) = t.year \div 100
  <2>1. t.year \in Nat /\ t.year < 10000
    BY <1>5, SMT
  <2> QED BY <1>3, <1>5, <2>1, TextOfDate, SMT
<1> HIDE DEF g
<1>8. /\ u.sec = t.sec /\ u.min = t.min /\ u.hour = t.hour /\ u.day = t.day /\ u.month = t.month
      /\ u.year = t.year
  BY <1>5, <1>7, SMT
<1> HIDE DEF u
<1>9. CNV_EpochDateStructToTimestamp(u) = [day |-> dayNumber, sec |-> sec]
  BY <1>1, <1>3, <1>8, ToTimestamp, SMT
<1> QED BY <1>4, <1>6, <1>9, SMT DEF g

-----------------------------------------------------------------------------
(* Checksums: words as the sets of their bits.                               *)

Bits == SUBSET (0 .. 7)
Word == SUBSET Nat

LEMMA XorIs ==
  /\ \A p, q \in Word : Xor(p, q) \in Word
  /\ \A p, q, i : i \in Xor(p, q) <=> ~(i \in p <=> i \in q)
  /\ \A p, q : Xor(p, q) = Xor(q, p)
BY Zenon DEF Xor, Word

LEMMA ShiftsAre ==
  ASSUME NEW p \in Word, NEW n \in Nat
  PROVE  /\ Shr(p, n) \in Word /\ \A i \in Nat : i \in Shr(p, n) <=> i + n \in p
         /\ Shl(p, n) \in Word /\ \A i \in Nat : i \in Shl(p, n) <=> i - n \in p
<1>1. p \subseteq Nat
  BY DEF Word
<1>2. ASSUME NEW i \in Nat PROVE i \in Shr(p, n) <=> i + n \in p
  <2>1. ASSUME i \in Shr(p, n) PROVE i + n \in p
    <3>1. PICK j \in p : j >= n /\ i = j - n
      BY <2>1 DEF Shr
    <3>2. i + n = j
      BY <1>1, <3>1
    <3> QED BY <3>1, <3>2
  <2>2. ASSUME i + n \in p PROVE i \in Shr(p, n)
    <3>1. i + n >= n /\ i = (i + n) - n
      OBVIOUS
    <3> QED BY <2>2, <3>1 DEF Shr
  <2> QED BY <2>1, <2>2
<1>3. ASSUME NEW i \in Nat PROVE i \in Shl(p, n) <=> i - n \in p
  <2>1. ASSUME i \in Shl(p, n) PROVE i - n \in p
    <3>1. PICK j \in p : i = j + n
      BY <2>1 DEF Shl
    <3>2. i - n = j
      BY <1>1, <3>1
    <3> QED BY <3>1, <3>2
  <2>2. ASSUME i - n \in p PROVE i \in Shl(p, n)
    <3>1. i = (i - n) + n
      OBVIOUS
    <3> QED BY <2>2, <3>1 DEF Shl
  <2> QED BY <2>1, <2>2
<1>4. Shr(p, n) \subseteq Nat
  <2>1. ASSUME NEW j \in p, j >= n PROVE j - n \in Nat
    BY <1>1, <2>1
  <2> QED BY <2>1 DEF Shr
<1>5. Shl(p, n) \subseteq Nat
  <2>1. ASSUME NEW j \in p PROVE j + n \in Nat
    BY <1>1
  <2> QED BY <2>1 DEF Shl
<1> QED BY <1>2, <1>3, <1>4, <1>5 DEF Word

LEMMA LowIs ==
  ASSUME NEW p, NEW n \in Nat
  PROVE  /\ Low(p, n) \in Word /\ Low(p, n) \subseteq 0 .. n - 1
         /\ \A i \in Nat : i \in Low(p, n) <=> i \in p /\ i < n
BY DEF Low, Word

LEMMA OnesAre == \A n \in Nat : Ones(n) \in Word
BY DEF Ones, Word

LEMMA WordsEqual ==
  ASSUME NEW p \in Word, NEW q \in Word, \A i \in Nat : i \in p <=> i \in q
  PROVE  p = q
BY DEF Word

LEMMA BitsAreWords == Bits \subseteq Word
BY DEF Bits, Word

LEMMA Step16Is ==
  ASSUME NEW p \in Word, NEW v
  PROVE  Step16(p, v) \in Word
BY LowIs DEF Step16

\* The sixteen bit sum with each byte.
IsSteps16(f, data, start) ==
  /\ f[0] = start
  /\ \A k \in 1 .. Len(data) : f[k] = Step16(f[k - 1], data[k])

LEMMA Steps16Build ==
  ASSUME NEW data \in Seq(Bits), NEW start \in Word
  PROVE  \E f : /\ IsSteps16(f, data, start) /\ AllSteps16(data, start) = f[Len(data)]
                /\ \A k \in 0 .. Len(data) : f[k] \in Word
<1> DEFINE N == Len(data)
           X == Word
           next(k, s) == Step16(s, data[k])
           step == [p \in (1 .. N) \X X |-> next(p[1], p[2])]
<1>1. N \in Nat
  OBVIOUS
<1>2. start \in X
  OBVIOUS
<1>3. ASSUME NEW k \in 1 .. N, NEW s \in X PROVE next(k, s) \in X
  BY Step16Is
<1>4. step \in [(1 .. N) \X X -> X] /\ \A k \in 1 .. N, s \in X : step[<<k, s>>] = next(k, s)
  <2> HIDE DEF next, N, X
  <2> QED BY <1>3
<1>5. PICK f : Follows(f, X, start, step, N)
  <2> HIDE DEF step, N, X
  <2> QED BY <1>1, <1>2, <1>4, Recursion
<1> DEFINE Is(g) == g = [k \in 0 .. N |-> IF k = 0 THEN start ELSE next(k, g[k - 1])]
<1>6. ASSUME NEW k \in 0 .. N PROVE f[k] = IF k = 0 THEN start ELSE next(k, f[k - 1])
  <2> HIDE DEF next, step, N, X
  <2>1. CASE k = 0
    BY <1>5, <2>1 DEF Follows
  <2>2. CASE k # 0
    <3>1. k \in 1 .. N /\ k - 1 \in 0 .. N
      BY <1>1, <2>2
    <3>2. f[k - 1] \in X /\ f[k] = step[<<k, f[k - 1]>>]
      BY <1>5, <3>1 DEF Follows
    <3> QED BY <1>4, <2>2, <3>1, <3>2
  <2> QED BY <2>1, <2>2
<1>7. Is(f)
  <2>1. f = [k \in 0 .. N |-> f[k]]
    BY <1>5 DEF Follows
  <2> HIDE DEF step, X, next, N
  <2> QED BY <1>6, <2>1, Zenon
<1> DEFINE found[k \in 0 .. N] == IF k = 0 THEN start ELSE Step16(found[k - 1], data[k])
<1>8. Is(found)
  <2>1. \E g : Is(g)
    BY <1>7
  <2> QED BY <2>1, Zenon
<1>9. AllSteps16(data, start) = found[N]
  BY Zenon DEF AllSteps16
<1> HIDE DEF found
<1>10. \A k \in 0 .. N : found[k] = IF k = 0 THEN start ELSE next(k, found[k - 1])
  <2> HIDE DEF N, X, next
  <2> QED BY <1>8, Zenon
<1> HIDE DEF Is
<1>11. found[0] = start /\ \A k \in 1 .. N : found[k] = next(k, found[k - 1])
  <2> HIDE DEF N, X, next
  <2>1. 0 \in 0 .. N /\ \A k \in 1 .. N : k \in 0 .. N /\ k # 0
    BY <1>1
  <2>2. found[0] = start
    BY <1>10, <2>1, Zenon
  <2>3. ASSUME NEW k \in 1 .. N PROVE found[k] = next(k, found[k - 1])
    BY <1>10, <2>1, Zenon
  <2> QED BY <2>2, <2>3
<1>12. \A k \in 0 .. N : found[k] \in X
  <2> HIDE DEF N, X, next
  <2>1. found[0] \in X
    BY <1>2, <1>11
  <2>2. \A k \in 1 .. N : found[k - 1] \in X => found[k] \in X
    BY <1>3, <1>11
  <2> QED BY <1>1, <2>1, <2>2, RecursionStays
<1>13. IsSteps16(found, data, start)
  BY <1>11, Zenon DEF IsSteps16
<1> QED BY <1>9, <1>12, <1>13, Zenon

LEMMA Steps16Go ==
  ASSUME NEW data \in Seq(Bits), NEW start \in Word
  PROVE  /\ AllSteps16(data, start) \in Word
         /\ AllSteps16(<<>>, start) = start
         /\ \A v \in Bits : AllSteps16(Append(data, v), start) = Step16(AllSteps16(data, start), v)
<1>1. PICK f : /\ IsSteps16(f, data, start) /\ AllSteps16(data, start) = f[Len(data)]
               /\ \A k \in 0 .. Len(data) : f[k] \in Word
  BY Steps16Build
<1>2. AllSteps16(data, start) \in Word
  <2>1. Len(data) \in 0 .. Len(data)
    OBVIOUS
  <2>2. f[Len(data)] \in Word
    BY <1>1, <2>1, Zenon
  <2> QED BY <1>1, <2>2, Zenon
<1>3. AllSteps16(<<>>, start) = start
  <2>1. <<>> \in Seq(Bits) /\ Len(<<>>) = 0
    OBVIOUS
  <2>2. PICK g : IsSteps16(g, <<>>, start) /\ AllSteps16(<<>>, start) = g[0]
    BY <2>1, Steps16Build
  <2> QED BY <2>2 DEF IsSteps16
<1>4. ASSUME NEW v \in Bits PROVE AllSteps16(Append(data, v), start) = Step16(AllSteps16(data, start), v)
  <2> DEFINE N == Len(data)
             all == Append(data, v)
  <2>1. N \in Nat /\ all \in Seq(Bits) /\ Len(all) = N + 1 /\ all[N + 1] = v
        /\ \A k \in 1 .. N : all[k] = data[k]
    OBVIOUS
  <2> HIDE DEF all
  <2>2. PICK g : IsSteps16(g, all, start) /\ AllSteps16(all, start) = g[N + 1]
    BY <2>1, Steps16Build
  <2> HIDE DEF N
  <2>3. Alike(f, g, N)
    <3>1. f[0] = g[0]
      BY <1>1, <2>2, Zenon DEF IsSteps16
    <3>2. ASSUME NEW k \in 1 .. N, f[k - 1] = g[k - 1] PROVE f[k] = g[k]
      <4>1. k \in 1 .. Len(data) /\ k \in 1 .. Len(all) /\ all[k] = data[k]
        BY <2>1 DEF N
      <4>2. f[k] = Step16(f[k - 1], data[k])
        BY <1>1, <4>1, Zenon DEF IsSteps16
      <4>3. g[k] = Step16(g[k - 1], all[k])
        BY <2>2, <4>1, Zenon DEF IsSteps16
      <4> QED BY <3>2, <4>1, <4>2, <4>3, Zenon
    <3> QED BY <3>1, <3>2, Zenon DEF Alike
  <2>4. f[N] = g[N]
    BY <2>1, <2>3, AlikeEqual, Zenon
  <2>5. N + 1 \in 1 .. Len(all) /\ (N + 1) - 1 = N
    BY <2>1
  <2>6. g[N + 1] = Step16(g[(N + 1) - 1], all[N + 1])
    BY <2>2, <2>5, Zenon DEF IsSteps16
  <2> QED BY <1>1, <2>1, <2>2, <2>4, <2>5, <2>6, Zenon DEF N, all
<1> QED BY <1>2, <1>3, <1>4

OneStep(p) == IF 0 \in p THEN Xor(Shr(p, 1), poly) ELSE Shr(p, 1)

LEMMA OneStepIs ==
  ASSUME NEW p \in Word
  PROVE  OneStep(p) \in Word /\ \A i \in Nat : i \in OneStep(p) <=> ~(i + 1 \in p <=> (0 \in p /\ i \in poly))
<1>1. poly \in Word
  BY DEF poly, Word
<1>2. Shr(p, 1) \in Word /\ \A i \in Nat : i \in Shr(p, 1) <=> i + 1 \in p
  BY ShiftsAre
<1>3. CASE 0 \in p
  <2>1. OneStep(p) = Xor(Shr(p, 1), poly)
    BY <1>3 DEF OneStep
  <2>2. \A i \in Nat : i \in Xor(Shr(p, 1), poly) <=> ~(i + 1 \in p <=> i \in poly)
    BY <1>2, XorIs
  <2>3. Xor(Shr(p, 1), poly) \in Word
    BY <1>1, <1>2, XorIs
  <2> QED BY <1>3, <2>1, <2>2, <2>3
<1>4. CASE ~(0 \in p)
  <2>1. OneStep(p) = Shr(p, 1)
    BY <1>4 DEF OneStep
  <2> QED BY <1>2, <1>4, <2>1
<1> QED BY <1>3, <1>4

\* A byte's part of the sum, bit by bit.
IsEightSteps(f, word) ==
  /\ f[0] = word
  /\ \A k \in 1 .. 8 : f[k] = OneStep(f[k - 1])

LEMMA EightStepsBuild ==
  ASSUME NEW word \in Word
  PROVE  \E f : /\ IsEightSteps(f, word) /\ EightSteps(word) = f[8]
                /\ \A k \in 0 .. 8 : f[k] \in Word
<1> DEFINE N == 8
           X == Word
           next(k, s) == OneStep(s)
           step == [p \in (1 .. N) \X X |-> next(p[1], p[2])]
<1>1. N \in Nat
  OBVIOUS
<1>2. word \in X
  OBVIOUS
<1>3. ASSUME NEW k \in 1 .. N, NEW s \in X PROVE next(k, s) \in X
  BY OneStepIs
<1>4. step \in [(1 .. N) \X X -> X] /\ \A k \in 1 .. N, s \in X : step[<<k, s>>] = next(k, s)
  <2> HIDE DEF next, N, X
  <2> QED BY <1>3
<1>5. PICK f : Follows(f, X, word, step, N)
  <2> HIDE DEF step, N, X
  <2> QED BY <1>1, <1>2, <1>4, Recursion
<1> DEFINE Is(g) == g = [k \in 0 .. N |-> IF k = 0 THEN word ELSE next(k, g[k - 1])]
<1>6. ASSUME NEW k \in 0 .. N PROVE f[k] = IF k = 0 THEN word ELSE next(k, f[k - 1])
  <2> HIDE DEF next, step, N, X
  <2>1. CASE k = 0
    BY <1>5, <2>1 DEF Follows
  <2>2. CASE k # 0
    <3>1. k \in 1 .. N /\ k - 1 \in 0 .. N
      BY <1>1, <2>2
    <3>2. f[k - 1] \in X /\ f[k] = step[<<k, f[k - 1]>>]
      BY <1>5, <3>1 DEF Follows
    <3> QED BY <1>4, <2>2, <3>1, <3>2
  <2> QED BY <2>1, <2>2
<1>7. Is(f)
  <2>1. f = [k \in 0 .. N |-> f[k]]
    BY <1>5 DEF Follows
  <2> HIDE DEF step, X, next, N
  <2> QED BY <1>6, <2>1, Zenon
<1> DEFINE found[k \in 0 .. N] == IF k = 0 THEN word
                                ELSE IF 0 \in found[k - 1] THEN Xor(Shr(found[k - 1], 1), poly)
                                ELSE Shr(found[k - 1], 1)
<1>8. Is(found)
  <2>1. \E g : Is(g)
    BY <1>7
  <2> QED BY <2>1, Zenon DEF OneStep
<1>9. EightSteps(word) = found[N]
  BY Zenon DEF EightSteps
<1> HIDE DEF found
<1>10. \A k \in 0 .. N : found[k] = IF k = 0 THEN word ELSE next(k, found[k - 1])
  <2> HIDE DEF N, X, next
  <2> QED BY <1>8, Zenon
<1> HIDE DEF Is
<1>11. found[0] = word /\ \A k \in 1 .. N : found[k] = next(k, found[k - 1])
  <2> HIDE DEF N, X, next
  <2>1. 0 \in 0 .. N /\ \A k \in 1 .. N : k \in 0 .. N /\ k # 0
    BY <1>1
  <2>2. found[0] = word
    BY <1>10, <2>1, Zenon
  <2>3. ASSUME NEW k \in 1 .. N PROVE found[k] = next(k, found[k - 1])
    BY <1>10, <2>1, Zenon
  <2> QED BY <2>2, <2>3
<1>12. \A k \in 0 .. N : found[k] \in X
  <2> HIDE DEF N, X, next
  <2>1. found[0] \in X
    BY <1>2, <1>11
  <2>2. \A k \in 1 .. N : found[k - 1] \in X => found[k] \in X
    BY <1>3, <1>11
  <2> QED BY <1>1, <2>1, <2>2, RecursionStays
<1>13. IsEightSteps(found, word)
  BY <1>11, Zenon DEF IsEightSteps
<1> QED BY <1>9, <1>12, <1>13, Zenon

LEMMA EightStepsAre == \A p \in Word : EightSteps(p) \in Word
<1> SUFFICES ASSUME NEW p \in Word PROVE EightSteps(p) \in Word
  OBVIOUS
<1>1. PICK f : EightSteps(p) = f[8] /\ \A k \in 0 .. 8 : f[k] \in Word
  BY EightStepsBuild
<1> QED BY <1>1

\* The sum of CRC_32 with each byte.
IsCont(f, data, start) ==
  /\ f[0] = start
  /\ \A k \in 1 .. Len(data) : f[k] = Xor(Shr(f[k - 1], 8), EightSteps(Low(Xor(f[k - 1], data[k]), 8)))

LEMMA ContBuilds ==
  ASSUME NEW data \in Seq(Bits), NEW start \in Word
  PROVE  \E f : /\ IsCont(f, data, start) /\ CRC_32_CONT(data, start) = f[Len(data)]
                /\ \A k \in 0 .. Len(data) : f[k] \in Word
<1> DEFINE N == Len(data)
           X == Word
           next(k, s) == Xor(Shr(s, 8), EightSteps(Low(Xor(s, data[k]), 8)))
           step == [p \in (1 .. N) \X X |-> next(p[1], p[2])]
<1>1. N \in Nat
  OBVIOUS
<1>2. start \in X
  OBVIOUS
<1>3. ASSUME NEW k \in 1 .. N, NEW s \in X PROVE next(k, s) \in X
  <2>1. Low(Xor(s, data[k]), 8) \in Word
    BY LowIs
  <2>2. EightSteps(Low(Xor(s, data[k]), 8)) \in Word
    BY <2>1, EightStepsAre
  <2>3. Shr(s, 8) \in Word
    BY ShiftsAre
  <2> QED BY <2>2, <2>3, XorIs
<1>4. step \in [(1 .. N) \X X -> X] /\ \A k \in 1 .. N, s \in X : step[<<k, s>>] = next(k, s)
  <2> HIDE DEF next, N, X
  <2> QED BY <1>3
<1>5. PICK f : Follows(f, X, start, step, N)
  <2> HIDE DEF step, N, X
  <2> QED BY <1>1, <1>2, <1>4, Recursion
<1> DEFINE Is(g) == g = [k \in 0 .. N |-> IF k = 0 THEN start ELSE next(k, g[k - 1])]
<1>6. ASSUME NEW k \in 0 .. N PROVE f[k] = IF k = 0 THEN start ELSE next(k, f[k - 1])
  <2> HIDE DEF next, step, N, X
  <2>1. CASE k = 0
    BY <1>5, <2>1 DEF Follows
  <2>2. CASE k # 0
    <3>1. k \in 1 .. N /\ k - 1 \in 0 .. N
      BY <1>1, <2>2
    <3>2. f[k - 1] \in X /\ f[k] = step[<<k, f[k - 1]>>]
      BY <1>5, <3>1 DEF Follows
    <3> QED BY <1>4, <2>2, <3>1, <3>2
  <2> QED BY <2>1, <2>2
<1>7. Is(f)
  <2>1. f = [k \in 0 .. N |-> f[k]]
    BY <1>5 DEF Follows
  <2> HIDE DEF step, X, next, N
  <2> QED BY <1>6, <2>1, Zenon
<1> DEFINE found[k \in 0 .. N] == IF k = 0 THEN start ELSE Xor(Shr(found[k - 1], 8), EightSteps(Low(Xor(found[k - 1], data[k]), 8)))
<1>8. Is(found)
  <2>1. \E g : Is(g)
    BY <1>7
  <2> QED BY <2>1, Zenon
<1>9. CRC_32_CONT(data, start) = found[N]
  BY Zenon DEF CRC_32_CONT
<1> HIDE DEF found
<1>10. \A k \in 0 .. N : found[k] = IF k = 0 THEN start ELSE next(k, found[k - 1])
  <2> HIDE DEF N, X, next
  <2> QED BY <1>8, Zenon
<1> HIDE DEF Is
<1>11. found[0] = start /\ \A k \in 1 .. N : found[k] = next(k, found[k - 1])
  <2> HIDE DEF N, X, next
  <2>1. 0 \in 0 .. N /\ \A k \in 1 .. N : k \in 0 .. N /\ k # 0
    BY <1>1
  <2>2. found[0] = start
    BY <1>10, <2>1, Zenon
  <2>3. ASSUME NEW k \in 1 .. N PROVE found[k] = next(k, found[k - 1])
    BY <1>10, <2>1, Zenon
  <2> QED BY <2>2, <2>3
<1>12. \A k \in 0 .. N : found[k] \in X
  <2> HIDE DEF N, X, next
  <2>1. found[0] \in X
    BY <1>2, <1>11
  <2>2. \A k \in 1 .. N : found[k - 1] \in X => found[k] \in X
    BY <1>3, <1>11
  <2> QED BY <1>1, <2>1, <2>2, RecursionStays
<1>13. IsCont(found, data, start)
  BY <1>11, Zenon DEF IsCont
<1> QED BY <1>9, <1>12, <1>13, Zenon

LEMMA ContGoes ==
  ASSUME NEW data \in Seq(Bits), NEW start \in Word
  PROVE  /\ CRC_32_CONT(data, start) \in Word
         /\ CRC_32_CONT(<<>>, start) = start
         /\ \A v \in Bits : CRC_32_CONT(Append(data, v), start) = Xor(Shr(CRC_32_CONT(data, start), 8), EightSteps(Low(Xor(CRC_32_CONT(data, start), v), 8)))
<1>1. PICK f : /\ IsCont(f, data, start) /\ CRC_32_CONT(data, start) = f[Len(data)]
               /\ \A k \in 0 .. Len(data) : f[k] \in Word
  BY ContBuilds
<1>2. CRC_32_CONT(data, start) \in Word
  <2>1. Len(data) \in 0 .. Len(data)
    OBVIOUS
  <2>2. f[Len(data)] \in Word
    BY <1>1, <2>1, Zenon
  <2> QED BY <1>1, <2>2, Zenon
<1>3. CRC_32_CONT(<<>>, start) = start
  <2>1. <<>> \in Seq(Bits) /\ Len(<<>>) = 0
    OBVIOUS
  <2>2. PICK g : IsCont(g, <<>>, start) /\ CRC_32_CONT(<<>>, start) = g[0]
    BY <2>1, ContBuilds
  <2> QED BY <2>2 DEF IsCont
<1>4. ASSUME NEW v \in Bits PROVE CRC_32_CONT(Append(data, v), start) = Xor(Shr(CRC_32_CONT(data, start), 8), EightSteps(Low(Xor(CRC_32_CONT(data, start), v), 8)))
  <2> DEFINE N == Len(data)
             all == Append(data, v)
  <2>1. N \in Nat /\ all \in Seq(Bits) /\ Len(all) = N + 1 /\ all[N + 1] = v
        /\ \A k \in 1 .. N : all[k] = data[k]
    OBVIOUS
  <2> HIDE DEF all
  <2>2. PICK g : IsCont(g, all, start) /\ CRC_32_CONT(all, start) = g[N + 1]
    BY <2>1, ContBuilds
  <2> HIDE DEF N
  <2>3. Alike(f, g, N)
    <3>1. f[0] = g[0]
      BY <1>1, <2>2, Zenon DEF IsCont
    <3>2. ASSUME NEW k \in 1 .. N, f[k - 1] = g[k - 1] PROVE f[k] = g[k]
      <4>1. k \in 1 .. Len(data) /\ k \in 1 .. Len(all) /\ all[k] = data[k]
        BY <2>1 DEF N
      <4>2. f[k] = Xor(Shr(f[k - 1], 8), EightSteps(Low(Xor(f[k - 1], data[k]), 8)))
        BY <1>1, <4>1, Zenon DEF IsCont
      <4>3. g[k] = Xor(Shr(g[k - 1], 8), EightSteps(Low(Xor(g[k - 1], all[k]), 8)))
        BY <2>2, <4>1, Zenon DEF IsCont
      <4> QED BY <3>2, <4>1, <4>2, <4>3, Zenon
    <3> QED BY <3>1, <3>2, Zenon DEF Alike
  <2>4. f[N] = g[N]
    BY <2>1, <2>3, AlikeEqual, Zenon
  <2>5. N + 1 \in 1 .. Len(all) /\ (N + 1) - 1 = N
    BY <2>1
  <2>6. g[N + 1] = Xor(Shr(g[(N + 1) - 1], 8), EightSteps(Low(Xor(g[(N + 1) - 1], all[N + 1]), 8)))
    BY <2>2, <2>5, Zenon DEF IsCont
  <2> QED BY <1>1, <2>1, <2>2, <2>4, <2>5, <2>6, Zenon DEF N, all
<1> QED BY <1>2, <1>3, <1>4

-----------------------------------------------------------------------------
(* The table: the steps of a sum of words are the sum of their steps.        *)

LEMMA OneStepOfSum ==
  ASSUME NEW p \in Word, NEW q \in Word
  PROVE  OneStep(Xor(p, q)) = Xor(OneStep(p), OneStep(q))
<1>1. Xor(p, q) \in Word /\ OneStep(p) \in Word /\ OneStep(q) \in Word
  BY XorIs, OneStepIs
<1>2. OneStep(Xor(p, q)) \in Word /\ Xor(OneStep(p), OneStep(q)) \in Word
  BY <1>1, XorIs, OneStepIs
<1>3. ASSUME NEW i \in Nat PROVE i \in OneStep(Xor(p, q)) <=> i \in Xor(OneStep(p), OneStep(q))
  <2>1. i \in OneStep(Xor(p, q)) <=> ~(i + 1 \in Xor(p, q) <=> (0 \in Xor(p, q) /\ i \in poly))
    BY <1>1, OneStepIs
  <2>2. i \in OneStep(p) <=> ~(i + 1 \in p <=> (0 \in p /\ i \in poly))
    BY OneStepIs
  <2>3. i \in OneStep(q) <=> ~(i + 1 \in q <=> (0 \in q /\ i \in poly))
    BY OneStepIs
  <2>4. i + 1 \in Xor(p, q) <=> ~(i + 1 \in p <=> i + 1 \in q)
    BY XorIs
  <2>5. 0 \in Xor(p, q) <=> ~(0 \in p <=> 0 \in q)
    BY XorIs
  <2>6. i \in Xor(OneStep(p), OneStep(q)) <=> ~(i \in OneStep(p) <=> i \in OneStep(q))
    BY XorIs
  <2> QED BY <2>1, <2>2, <2>3, <2>4, <2>5, <2>6
<1> QED BY <1>2, <1>3, WordsEqual

LEMMA StepsOfSum ==
  ASSUME NEW p \in Word, NEW q \in Word
  PROVE  EightSteps(Xor(p, q)) = Xor(EightSteps(p), EightSteps(q))
<1>1. PICK f : IsEightSteps(f, p) /\ EightSteps(p) = f[8] /\ \A k \in 0 .. 8 : f[k] \in Word
  BY EightStepsBuild
<1>2. PICK g : IsEightSteps(g, q) /\ EightSteps(q) = g[8] /\ \A k \in 0 .. 8 : g[k] \in Word
  BY EightStepsBuild
<1>3. Xor(p, q) \in Word
  BY XorIs
<1>4. PICK h : IsEightSteps(h, Xor(p, q)) /\ EightSteps(Xor(p, q)) = h[8]
  BY <1>3, EightStepsBuild
<1> DEFINE S == {k \in Nat : k <= 8 => h[k] = Xor(f[k], g[k])}
<1>5. 0 \in S
  BY <1>1, <1>2, <1>4 DEF IsEightSteps
<1>6. ASSUME NEW k \in Nat, k \in S PROVE k + 1 \in S
  <2> SUFFICES ASSUME k + 1 <= 8 PROVE h[k + 1] = Xor(f[k + 1], g[k + 1])
    OBVIOUS
  <2>1. k + 1 \in 1 .. 8 /\ (k + 1) - 1 = k /\ k \in 0 .. 8
    OBVIOUS
  <2>2. f[k + 1] = OneStep(f[k]) /\ g[k + 1] = OneStep(g[k]) /\ h[k + 1] = OneStep(h[k])
    <3>1. f[k + 1] = OneStep(f[(k + 1) - 1]) /\ g[k + 1] = OneStep(g[(k + 1) - 1]) /\ h[k + 1] = OneStep(h[(k + 1) - 1])
      BY <1>1, <1>2, <1>4, <2>1, Zenon DEF IsEightSteps
    <3> QED BY <2>1, <3>1
  <2>3. h[k] = Xor(f[k], g[k])
    BY <1>6, <2>1
  <2> QED BY <1>1, <1>2, <2>1, <2>2, <2>3, OneStepOfSum
<1>7. \A k \in Nat : k \in S
  <2> HIDE DEF S
  <2> QED BY <1>5, <1>6, NumbersByInduction
<1>8. h[8] = Xor(f[8], g[8])
  BY <1>7
<1> QED BY <1>1, <1>2, <1>4, <1>8

\* A single bit on its way to the end, and the entries of the table from there on.
Chain(m) == IF m < 8 THEN {7 - m} ELSE tablePowers[16 - m]

LEMMA TableSteps ==
  /\ \A k \in 1 .. 8 : tablePowers[k] \in Word
  /\ tablePowers[8] = poly
  /\ \A k \in 1 .. 7 : OneStep(tablePowers[k + 1]) = tablePowers[k]
<1>1. ASSUME NEW k \in 1 .. 8 PROVE tablePowers[k] \in Word
  <2>1. k \in {1, 2, 3, 4, 5, 6, 7, 8}
    OBVIOUS
  <2> QED BY <2>1 DEF tablePowers, Word
<1>2. tablePowers[8] = poly
  BY DEF tablePowers, poly
<1>3. OneStep(tablePowers[8]) = tablePowers[7]
  <2>1. tablePowers[8] \in Word /\ tablePowers[7] \in Word
    BY <1>1
  <2>2. OneStep(tablePowers[8]) \in Word
    BY <2>1, OneStepIs
  <2>3. ASSUME NEW i \in Nat PROVE i \in OneStep(tablePowers[8]) <=> i \in tablePowers[7]
    <3>1. i \in OneStep(tablePowers[8])
            <=> ~(i + 1 \in tablePowers[8] <=> (0 \in tablePowers[8] /\ i \in poly))
      BY <2>1, OneStepIs
    <3>2. ~(i + 1 \in tablePowers[8] <=> (0 \in tablePowers[8] /\ i \in poly)) <=> i \in tablePowers[7]
      BY SMT DEF tablePowers, poly
    <3> QED BY <3>1, <3>2
  <2> QED BY <2>1, <2>2, <2>3, WordsEqual
<1>4. OneStep(tablePowers[7]) = tablePowers[6]
  <2>1. tablePowers[7] \in Word /\ tablePowers[6] \in Word
    BY <1>1
  <2>2. OneStep(tablePowers[7]) \in Word
    BY <2>1, OneStepIs
  <2>3. ASSUME NEW i \in Nat PROVE i \in OneStep(tablePowers[7]) <=> i \in tablePowers[6]
    <3>1. i \in OneStep(tablePowers[7])
            <=> ~(i + 1 \in tablePowers[7] <=> (0 \in tablePowers[7] /\ i \in poly))
      BY <2>1, OneStepIs
    <3>2. ~(i + 1 \in tablePowers[7] <=> (0 \in tablePowers[7] /\ i \in poly)) <=> i \in tablePowers[6]
      BY SMT DEF tablePowers, poly
    <3> QED BY <3>1, <3>2
  <2> QED BY <2>1, <2>2, <2>3, WordsEqual
<1>5. OneStep(tablePowers[6]) = tablePowers[5]
  <2>1. tablePowers[6] \in Word /\ tablePowers[5] \in Word
    BY <1>1
  <2>2. OneStep(tablePowers[6]) \in Word
    BY <2>1, OneStepIs
  <2>3. ASSUME NEW i \in Nat PROVE i \in OneStep(tablePowers[6]) <=> i \in tablePowers[5]
    <3>1. i \in OneStep(tablePowers[6])
            <=> ~(i + 1 \in tablePowers[6] <=> (0 \in tablePowers[6] /\ i \in poly))
      BY <2>1, OneStepIs
    <3>2. ~(i + 1 \in tablePowers[6] <=> (0 \in tablePowers[6] /\ i \in poly)) <=> i \in tablePowers[5]
      BY SMT DEF tablePowers, poly
    <3> QED BY <3>1, <3>2
  <2> QED BY <2>1, <2>2, <2>3, WordsEqual
<1>6. OneStep(tablePowers[5]) = tablePowers[4]
  <2>1. tablePowers[5] \in Word /\ tablePowers[4] \in Word
    BY <1>1
  <2>2. OneStep(tablePowers[5]) \in Word
    BY <2>1, OneStepIs
  <2>3. ASSUME NEW i \in Nat PROVE i \in OneStep(tablePowers[5]) <=> i \in tablePowers[4]
    <3>1. i \in OneStep(tablePowers[5])
            <=> ~(i + 1 \in tablePowers[5] <=> (0 \in tablePowers[5] /\ i \in poly))
      BY <2>1, OneStepIs
    <3>2. ~(i + 1 \in tablePowers[5] <=> (0 \in tablePowers[5] /\ i \in poly)) <=> i \in tablePowers[4]
      BY SMT DEF tablePowers, poly
    <3> QED BY <3>1, <3>2
  <2> QED BY <2>1, <2>2, <2>3, WordsEqual
<1>7. OneStep(tablePowers[4]) = tablePowers[3]
  <2>1. tablePowers[4] \in Word /\ tablePowers[3] \in Word
    BY <1>1
  <2>2. OneStep(tablePowers[4]) \in Word
    BY <2>1, OneStepIs
  <2>3. ASSUME NEW i \in Nat PROVE i \in OneStep(tablePowers[4]) <=> i \in tablePowers[3]
    <3>1. i \in OneStep(tablePowers[4])
            <=> ~(i + 1 \in tablePowers[4] <=> (0 \in tablePowers[4] /\ i \in poly))
      BY <2>1, OneStepIs
    <3>2. ~(i + 1 \in tablePowers[4] <=> (0 \in tablePowers[4] /\ i \in poly)) <=> i \in tablePowers[3]
      BY SMT DEF tablePowers, poly
    <3> QED BY <3>1, <3>2
  <2> QED BY <2>1, <2>2, <2>3, WordsEqual
<1>8. OneStep(tablePowers[3]) = tablePowers[2]
  <2>1. tablePowers[3] \in Word /\ tablePowers[2] \in Word
    BY <1>1
  <2>2. OneStep(tablePowers[3]) \in Word
    BY <2>1, OneStepIs
  <2>3. ASSUME NEW i \in Nat PROVE i \in OneStep(tablePowers[3]) <=> i \in tablePowers[2]
    <3>1. i \in OneStep(tablePowers[3])
            <=> ~(i + 1 \in tablePowers[3] <=> (0 \in tablePowers[3] /\ i \in poly))
      BY <2>1, OneStepIs
    <3>2. ~(i + 1 \in tablePowers[3] <=> (0 \in tablePowers[3] /\ i \in poly)) <=> i \in tablePowers[2]
      BY SMT DEF tablePowers, poly
    <3> QED BY <3>1, <3>2
  <2> QED BY <2>1, <2>2, <2>3, WordsEqual
<1>9. OneStep(tablePowers[2]) = tablePowers[1]
  <2>1. tablePowers[2] \in Word /\ tablePowers[1] \in Word
    BY <1>1
  <2>2. OneStep(tablePowers[2]) \in Word
    BY <2>1, OneStepIs
  <2>3. ASSUME NEW i \in Nat PROVE i \in OneStep(tablePowers[2]) <=> i \in tablePowers[1]
    <3>1. i \in OneStep(tablePowers[2])
            <=> ~(i + 1 \in tablePowers[2] <=> (0 \in tablePowers[2] /\ i \in poly))
      BY <2>1, OneStepIs
    <3>2. ~(i + 1 \in tablePowers[2] <=> (0 \in tablePowers[2] /\ i \in poly)) <=> i \in tablePowers[1]
      BY SMT DEF tablePowers, poly
    <3> QED BY <3>1, <3>2
  <2> QED BY <2>1, <2>2, <2>3, WordsEqual
<1>10. \A k \in 1 .. 7 : k \in {1, 2, 3, 4, 5, 6, 7}
  OBVIOUS
<1> QED BY <1>1, <1>2, <1>3, <1>4, <1>5, <1>6, <1>7, <1>8, <1>9, <1>10

LEMMA ChainSteps ==
  ASSUME NEW m \in 0 .. 14
  PROVE  Chain(m) \in Word /\ OneStep(Chain(m)) = Chain(m + 1)
<1>1. CASE m < 7
  <2>1. Chain(m) = {7 - m} /\ Chain(m + 1) = {7 - (m + 1)}
    BY <1>1 DEF Chain
  <2>2. {7 - m} \in Word /\ {7 - (m + 1)} \in Word /\ 0 \notin {7 - m}
    BY <1>1 DEF Word
  <2>3. ASSUME NEW i \in Nat PROVE i \in OneStep({7 - m}) <=> i \in {7 - (m + 1)}
    <3>1. i \in OneStep({7 - m}) <=> i + 1 \in {7 - m}
      BY <2>2, OneStepIs
    <3>2. i + 1 \in {7 - m} <=> i \in {7 - (m + 1)}
      BY <1>1
    <3> QED BY <3>1, <3>2
  <2>4. OneStep({7 - m}) = {7 - (m + 1)}
    BY <2>2, <2>3, WordsEqual, OneStepIs
  <2> QED BY <2>1, <2>2, <2>4
<1>2. CASE m = 7
  <2>1. Chain(m) = {0} /\ Chain(m + 1) = poly
    BY <1>2, TableSteps DEF Chain
  <2>2. {0} \in Word /\ poly \in Word
    BY DEF Word, poly
  <2>3. ASSUME NEW i \in Nat PROVE i \in OneStep({0}) <=> i \in poly
    <3>1. i \in OneStep({0}) <=> ~(i + 1 \in {0} <=> (0 \in {0} /\ i \in poly))
      BY <2>2, OneStepIs
    <3>2. i + 1 \notin {0}
      OBVIOUS
    <3> QED BY <3>1, <3>2
  <2>4. OneStep({0}) = poly
    BY <2>2, <2>3, WordsEqual, OneStepIs
  <2> QED BY <2>1, <2>2, <2>4
<1>3. CASE m > 7
  <2>1. 16 - (m + 1) \in 1 .. 7 /\ 16 - m = (16 - (m + 1)) + 1 /\ 16 - m \in 1 .. 8 /\ ~(m < 8) /\ ~(m + 1 < 8)
    BY <1>3
  <2>2. Chain(m) = tablePowers[16 - m] /\ Chain(m + 1) = tablePowers[16 - (m + 1)]
    BY <2>1 DEF Chain
  <2>3. OneStep(tablePowers[(16 - (m + 1)) + 1]) = tablePowers[16 - (m + 1)] /\ tablePowers[16 - m] \in Word
    BY <2>1, TableSteps
  <2> QED BY <2>1, <2>2, <2>3
<1> QED BY <1>1, <1>2, <1>3

LEMMA BitIsEntry ==
  ASSUME NEW n \in 0 .. 7
  PROVE  EightSteps({n}) = tablePowers[n + 1]
<1>1. {n} \in Word
  BY DEF Word
<1>2. PICK f : IsEightSteps(f, {n}) /\ EightSteps({n}) = f[8]
  BY <1>1, EightStepsBuild
<1> DEFINE S == {k \in Nat : k <= 8 => f[k] = Chain((7 - n) + k)}
<1>3. 0 \in S
  <2>1. (7 - n) + 0 < 8 /\ 7 - ((7 - n) + 0) = n
    OBVIOUS
  <2> QED BY <1>2, <2>1 DEF IsEightSteps, Chain
<1>4. ASSUME NEW k \in Nat, k \in S PROVE k + 1 \in S
  <2> SUFFICES ASSUME k + 1 <= 8 PROVE f[k + 1] = Chain((7 - n) + (k + 1))
    OBVIOUS
  <2>1. k + 1 \in 1 .. 8 /\ (k + 1) - 1 = k /\ (7 - n) + k \in 0 .. 14 /\ ((7 - n) + k) + 1 = (7 - n) + (k + 1)
    OBVIOUS
  <2>2. f[k + 1] = OneStep(f[(k + 1) - 1])
    BY <1>2, <2>1, Zenon DEF IsEightSteps
  <2>3. f[k] = Chain((7 - n) + k)
    BY <1>4
  <2> QED BY <2>1, <2>2, <2>3, ChainSteps
<1>5. \A k \in Nat : k \in S
  <2> HIDE DEF S
  <2> QED BY <1>3, <1>4, NumbersByInduction
<1>6. f[8] = Chain((7 - n) + 8)
  BY <1>5
<1>7. Chain((7 - n) + 8) = tablePowers[n + 1]
  <2>1. ~((7 - n) + 8 < 8) /\ 16 - ((7 - n) + 8) = n + 1
    OBVIOUS
  <2> QED BY <2>1 DEF Chain
<1> QED BY <1>2, <1>6, <1>7

\* The entries of the lower bits of an index.
IsTable(f, index) ==
  /\ f[0] = {}
  /\ \A k \in 1 .. 8 : f[k] = IF k - 1 \in index THEN Xor(f[k - 1], tablePowers[k]) ELSE f[k - 1]

LEMMA TableBuilds ==
  ASSUME NEW index \in Bits
  PROVE  \E f : /\ IsTable(f, index) /\ crc32table(index) = f[8]
                /\ \A k \in 0 .. 8 : f[k] \in Word
<1> DEFINE N == 8
           X == Word
           next(k, s) == IF k - 1 \in index THEN Xor(s, tablePowers[k]) ELSE s
           step == [p \in (1 .. N) \X X |-> next(p[1], p[2])]
<1>1. N \in Nat
  OBVIOUS
<1>2. {} \in X
  BY DEF Word
<1>3. ASSUME NEW k \in 1 .. N, NEW s \in X PROVE next(k, s) \in X
  BY TableSteps, XorIs
<1>4. step \in [(1 .. N) \X X -> X] /\ \A k \in 1 .. N, s \in X : step[<<k, s>>] = next(k, s)
  <2> HIDE DEF next, N, X
  <2> QED BY <1>3
<1>5. PICK f : Follows(f, X, {}, step, N)
  <2> HIDE DEF step, N, X
  <2> QED BY <1>1, <1>2, <1>4, Recursion
<1> DEFINE Is(g) == g = [k \in 0 .. N |-> IF k = 0 THEN {} ELSE next(k, g[k - 1])]
<1>6. ASSUME NEW k \in 0 .. N PROVE f[k] = IF k = 0 THEN {} ELSE next(k, f[k - 1])
  <2> HIDE DEF next, step, N, X
  <2>1. CASE k = 0
    BY <1>5, <2>1 DEF Follows
  <2>2. CASE k # 0
    <3>1. k \in 1 .. N /\ k - 1 \in 0 .. N
      BY <1>1, <2>2
    <3>2. f[k - 1] \in X /\ f[k] = step[<<k, f[k - 1]>>]
      BY <1>5, <3>1 DEF Follows
    <3> QED BY <1>4, <2>2, <3>1, <3>2
  <2> QED BY <2>1, <2>2
<1>7. Is(f)
  <2>1. f = [k \in 0 .. N |-> f[k]]
    BY <1>5 DEF Follows
  <2> HIDE DEF step, X, next, N
  <2> QED BY <1>6, <2>1, Zenon
<1> DEFINE found[k \in 0 .. N] == IF k = 0 THEN {} ELSE IF k - 1 \in index THEN Xor(found[k - 1], tablePowers[k]) ELSE found[k - 1]
<1>8. Is(found)
  <2>1. \E g : Is(g)
    BY <1>7
  <2> QED BY <2>1, Zenon
<1>9. crc32table(index) = found[N]
  BY Zenon DEF crc32table
<1> HIDE DEF found
<1>10. \A k \in 0 .. N : found[k] = IF k = 0 THEN {} ELSE next(k, found[k - 1])
  <2> HIDE DEF N, X, next
  <2> QED BY <1>8, Zenon
<1> HIDE DEF Is
<1>11. found[0] = {} /\ \A k \in 1 .. N : found[k] = next(k, found[k - 1])
  <2> HIDE DEF N, X, next
  <2>1. 0 \in 0 .. N /\ \A k \in 1 .. N : k \in 0 .. N /\ k # 0
    BY <1>1
  <2>2. found[0] = {}
    BY <1>10, <2>1, Zenon
  <2>3. ASSUME NEW k \in 1 .. N PROVE found[k] = next(k, found[k - 1])
    BY <1>10, <2>1, Zenon
  <2> QED BY <2>2, <2>3
<1>12. \A k \in 0 .. N : found[k] \in X
  <2> HIDE DEF N, X, next
  <2>1. found[0] \in X
    BY <1>2, <1>11
  <2>2. \A k \in 1 .. N : found[k - 1] \in X => found[k] \in X
    BY <1>3, <1>11
  <2> QED BY <1>1, <2>1, <2>2, RecursionStays
<1>13. IsTable(found, index)
  BY <1>11, Zenon DEF IsTable
<1> QED BY <1>9, <1>12, <1>13, Zenon

LEMMA TableIsSteps ==
  ASSUME NEW index \in Bits
  PROVE  crc32table(index) = EightSteps(index)
<1>1. PICK f : IsTable(f, index) /\ crc32table(index) = f[8] /\ \A k \in 0 .. 8 : f[k] \in Word
  BY TableBuilds
<1> DEFINE lower(k) == index \cap 0 .. k - 1
           S == {k \in Nat : k <= 8 => f[k] = EightSteps(lower(k))}
<1>2. \A k \in Nat : lower(k) \in Word
  BY DEF Word
<1>3. 0 \in S
  <2>1. lower(0) = {}
    OBVIOUS
  <2>2. {} \in Word /\ Xor({}, {}) = {} /\ Xor(EightSteps({}), EightSteps({})) = {}
    BY DEF Xor, Word
  <2>3. EightSteps({}) = {}
    BY <2>2, StepsOfSum
  <2> QED BY <1>1, <2>1, <2>3 DEF IsTable
<1>4. ASSUME NEW k \in Nat, k \in S PROVE k + 1 \in S
  <2> SUFFICES ASSUME k + 1 <= 8 PROVE f[k + 1] = EightSteps(lower(k + 1))
    OBVIOUS
  <2>1. k + 1 \in 1 .. 8 /\ (k + 1) - 1 = k /\ k \in 0 .. 7
    OBVIOUS
  <2>2. f[k + 1] = IF (k + 1) - 1 \in index THEN Xor(f[(k + 1) - 1], tablePowers[k + 1]) ELSE f[(k + 1) - 1]
    BY <1>1, <2>1, Zenon DEF IsTable
  <2>3. f[k] = EightSteps(lower(k))
    BY <1>4, <2>1
  <2>4. CASE k \in index
    <3>1. lower(k + 1) = Xor(lower(k), {k})
      <4>1. \A i \in Nat : i \in 0 .. (k + 1) - 1 <=> i \in 0 .. k - 1 \/ i = k
        OBVIOUS
      <4>2. k \notin 0 .. k - 1
        OBVIOUS
      <4>3. index \subseteq Nat
        BY DEF Bits
      <4> QED BY <2>4, <4>1, <4>2, <4>3 DEF Xor
    <3>2. EightSteps({k}) = tablePowers[k + 1] /\ {k} \in Word
      BY <2>1, BitIsEntry DEF Word
    <3> HIDE DEF lower
    <3>3. EightSteps(lower(k + 1)) = Xor(EightSteps(lower(k)), tablePowers[k + 1])
      BY <1>2, <3>1, <3>2, StepsOfSum
    <3> QED BY <2>1, <2>2, <2>3, <2>4, <3>3
  <2>5. CASE k \notin index
    <3>1. lower(k + 1) = lower(k)
      <4>1. \A i \in Nat : i \in 0 .. (k + 1) - 1 <=> i \in 0 .. k - 1 \/ i = k
        OBVIOUS
      <4>2. index \subseteq Nat
        BY DEF Bits
      <4> QED BY <2>5, <4>1, <4>2
    <3> HIDE DEF lower
    <3> QED BY <2>1, <2>2, <2>3, <2>5, <3>1
  <2> QED BY <2>4, <2>5
<1>5. \A k \in Nat : k \in S
  <2> HIDE DEF S
  <2> QED BY <1>3, <1>4, NumbersByInduction
<1>6. lower(8) = index
  <2>1. 0 .. 8 - 1 = 0 .. 7 /\ index \subseteq 0 .. 7
    BY DEF Bits
  <2> QED BY <2>1
<1>7. f[8] = EightSteps(lower(8))
  BY <1>5
<1> QED BY <1>1, <1>6, <1>7

LEMMA FastStepIs ==
  ASSUME NEW p \in Word, NEW v
  PROVE  Xor(crc32table(Low(Xor(p, v), 8)), Shr(p, 8)) = Xor(Shr(p, 8), EightSteps(Low(Xor(p, v), 8)))
<1>1. Low(Xor(p, v), 8) \in Bits
  BY LowIs DEF Bits
<1> QED BY <1>1, TableIsSteps, XorIs

\* The sum of CRC_32_FAST with each byte.
IsFast(f, data, start) ==
  /\ f[0] = start
  /\ \A k \in 1 .. Len(data) : f[k] = Xor(crc32table(Low(Xor(f[k - 1], data[k]), 8)), Shr(f[k - 1], 8))

LEMMA FastBuilds ==
  ASSUME NEW data \in Seq(Bits), NEW start \in Word
  PROVE  \E f : /\ IsFast(f, data, start) /\ CRC_32_FAST(data, start, FALSE) = f[Len(data)]
                /\ \A k \in 0 .. Len(data) : f[k] \in Word
<1> DEFINE N == Len(data)
           X == Word
           next(k, s) == Xor(crc32table(Low(Xor(s, data[k]), 8)), Shr(s, 8))
           step == [p \in (1 .. N) \X X |-> next(p[1], p[2])]
<1>1. N \in Nat
  OBVIOUS
<1>2. start \in X
  OBVIOUS
<1>3. ASSUME NEW k \in 1 .. N, NEW s \in X PROVE next(k, s) \in X
  <2>1. Low(Xor(s, data[k]), 8) \in Bits
    BY LowIs DEF Bits
  <2>2. crc32table(Low(Xor(s, data[k]), 8)) \in Word
    BY <2>1, TableIsSteps, BitsAreWords, EightStepsAre
  <2>3. Shr(s, 8) \in Word
    BY ShiftsAre
  <2> QED BY <2>2, <2>3, XorIs
<1>4. step \in [(1 .. N) \X X -> X] /\ \A k \in 1 .. N, s \in X : step[<<k, s>>] = next(k, s)
  <2> HIDE DEF next, N, X
  <2> QED BY <1>3
<1>5. PICK f : Follows(f, X, start, step, N)
  <2> HIDE DEF step, N, X
  <2> QED BY <1>1, <1>2, <1>4, Recursion
<1> DEFINE Is(g) == g = [k \in 0 .. N |-> IF k = 0 THEN start ELSE next(k, g[k - 1])]
<1>6. ASSUME NEW k \in 0 .. N PROVE f[k] = IF k = 0 THEN start ELSE next(k, f[k - 1])
  <2> HIDE DEF next, step, N, X
  <2>1. CASE k = 0
    BY <1>5, <2>1 DEF Follows
  <2>2. CASE k # 0
    <3>1. k \in 1 .. N /\ k - 1 \in 0 .. N
      BY <1>1, <2>2
    <3>2. f[k - 1] \in X /\ f[k] = step[<<k, f[k - 1]>>]
      BY <1>5, <3>1 DEF Follows
    <3> QED BY <1>4, <2>2, <3>1, <3>2
  <2> QED BY <2>1, <2>2
<1>7. Is(f)
  <2>1. f = [k \in 0 .. N |-> f[k]]
    BY <1>5 DEF Follows
  <2> HIDE DEF step, X, next, N
  <2> QED BY <1>6, <2>1, Zenon
<1> DEFINE found[k \in 0 .. N] == IF k = 0 THEN start ELSE Xor(crc32table(Low(Xor(found[k - 1], data[k]), 8)), Shr(found[k - 1], 8))
<1>8. Is(found)
  <2>1. \E g : Is(g)
    BY <1>7
  <2> QED BY <2>1, Zenon
<1>9. CRC_32_FAST(data, start, FALSE) = found[N]
  BY Zenon DEF CRC_32_FAST
<1> HIDE DEF found
<1>10. \A k \in 0 .. N : found[k] = IF k = 0 THEN start ELSE next(k, found[k - 1])
  <2> HIDE DEF N, X, next
  <2> QED BY <1>8, Zenon
<1> HIDE DEF Is
<1>11. found[0] = start /\ \A k \in 1 .. N : found[k] = next(k, found[k - 1])
  <2> HIDE DEF N, X, next
  <2>1. 0 \in 0 .. N /\ \A k \in 1 .. N : k \in 0 .. N /\ k # 0
    BY <1>1
  <2>2. found[0] = start
    BY <1>10, <2>1, Zenon
  <2>3. ASSUME NEW k \in 1 .. N PROVE found[k] = next(k, found[k - 1])
    BY <1>10, <2>1, Zenon
  <2> QED BY <2>2, <2>3
<1>12. \A k \in 0 .. N : found[k] \in X
  <2> HIDE DEF N, X, next
  <2>1. found[0] \in X
    BY <1>2, <1>11
  <2>2. \A k \in 1 .. N : found[k - 1] \in X => found[k] \in X
    BY <1>3, <1>11
  <2> QED BY <1>1, <2>1, <2>2, RecursionStays
<1>13. IsFast(found, data, start)
  BY <1>11, Zenon DEF IsFast
<1> QED BY <1>9, <1>12, <1>13, Zenon

LEMMA FastGoes ==
  ASSUME NEW data \in Seq(Bits), NEW start \in Word
  PROVE  /\ CRC_32_FAST(data, start, FALSE) \in Word
         /\ CRC_32_FAST(<<>>, start, FALSE) = start
         /\ \A v \in Bits : CRC_32_FAST(Append(data, v), start, FALSE) = Xor(crc32table(Low(Xor(CRC_32_FAST(data, start, FALSE), v), 8)), Shr(CRC_32_FAST(data, start, FALSE), 8))
<1>1. PICK f : /\ IsFast(f, data, start) /\ CRC_32_FAST(data, start, FALSE) = f[Len(data)]
               /\ \A k \in 0 .. Len(data) : f[k] \in Word
  BY FastBuilds
<1>2. CRC_32_FAST(data, start, FALSE) \in Word
  <2>1. Len(data) \in 0 .. Len(data)
    OBVIOUS
  <2>2. f[Len(data)] \in Word
    BY <1>1, <2>1, Zenon
  <2> QED BY <1>1, <2>2, Zenon
<1>3. CRC_32_FAST(<<>>, start, FALSE) = start
  <2>1. <<>> \in Seq(Bits) /\ Len(<<>>) = 0
    OBVIOUS
  <2>2. PICK g : IsFast(g, <<>>, start) /\ CRC_32_FAST(<<>>, start, FALSE) = g[0]
    BY <2>1, FastBuilds
  <2> QED BY <2>2 DEF IsFast
<1>4. ASSUME NEW v \in Bits PROVE CRC_32_FAST(Append(data, v), start, FALSE) = Xor(crc32table(Low(Xor(CRC_32_FAST(data, start, FALSE), v), 8)), Shr(CRC_32_FAST(data, start, FALSE), 8))
  <2> DEFINE N == Len(data)
             all == Append(data, v)
  <2>1. N \in Nat /\ all \in Seq(Bits) /\ Len(all) = N + 1 /\ all[N + 1] = v
        /\ \A k \in 1 .. N : all[k] = data[k]
    OBVIOUS
  <2> HIDE DEF all
  <2>2. PICK g : IsFast(g, all, start) /\ CRC_32_FAST(all, start, FALSE) = g[N + 1]
    BY <2>1, FastBuilds
  <2> HIDE DEF N
  <2>3. Alike(f, g, N)
    <3>1. f[0] = g[0]
      BY <1>1, <2>2, Zenon DEF IsFast
    <3>2. ASSUME NEW k \in 1 .. N, f[k - 1] = g[k - 1] PROVE f[k] = g[k]
      <4>1. k \in 1 .. Len(data) /\ k \in 1 .. Len(all) /\ all[k] = data[k]
        BY <2>1 DEF N
      <4>2. f[k] = Xor(crc32table(Low(Xor(f[k - 1], data[k]), 8)), Shr(f[k - 1], 8))
        BY <1>1, <4>1, Zenon DEF IsFast
      <4>3. g[k] = Xor(crc32table(Low(Xor(g[k - 1], all[k]), 8)), Shr(g[k - 1], 8))
        BY <2>2, <4>1, Zenon DEF IsFast
      <4> QED BY <3>2, <4>1, <4>2, <4>3, Zenon
    <3> QED BY <3>1, <3>2, Zenon DEF Alike
  <2>4. f[N] = g[N]
    BY <2>1, <2>3, AlikeEqual, Zenon
  <2>5. N + 1 \in 1 .. Len(all) /\ (N + 1) - 1 = N
    BY <2>1
  <2>6. g[N + 1] = Xor(crc32table(Low(Xor(g[(N + 1) - 1], all[N + 1]), 8)), Shr(g[(N + 1) - 1], 8))
    BY <2>2, <2>5, Zenon DEF IsFast
  <2> QED BY <1>1, <2>1, <2>2, <2>4, <2>5, <2>6, Zenon DEF N, all
<1> QED BY <1>2, <1>3, <1>4

-----------------------------------------------------------------------------
(* Three shifts instead of eight steps: what is fed back in each of them.    *)

\* The byte with the high half of the sum, and what is fed back.
Entering(p, v) == Low(Xor(Shr(p, 8), v), 8)
FedBack(p, v) == Xor(Entering(p, v), Shr(Entering(p, v), 4))

LEMMA EnteringIs ==
  ASSUME NEW p \in Word, NEW v \in Bits
  PROVE  Entering(p, v) \in Bits /\ \A i \in 0 .. 7 : i \in Entering(p, v) <=> ~(i + 8 \in p <=> i \in v)
<1>1. Shr(p, 8) \in Word /\ \A i \in Nat : i \in Shr(p, 8) <=> i + 8 \in p
  BY ShiftsAre
<1> DEFINE q == Xor(Shr(p, 8), v)
<1>2. \A i \in Nat : i \in q <=> ~(i + 8 \in p <=> i \in v)
  BY <1>1, XorIs
<1> HIDE DEF q
<1>3. Low(q, 8) \subseteq 0 .. 8 - 1 /\ \A i \in Nat : i \in Low(q, 8) <=> i \in q /\ i < 8
  BY LowIs
<1>4. Entering(p, v) = Low(q, 8)
  BY DEF Entering, q
<1> QED BY <1>2, <1>3, <1>4 DEF Bits

LEMMA FedBackIs ==
  ASSUME NEW p \in Word, NEW v \in Bits
  PROVE  /\ FedBack(p, v) \in Bits
         /\ \A i \in 0 .. 3 : i \in FedBack(p, v) <=> ~(i \in Entering(p, v) <=> i + 4 \in Entering(p, v))
         /\ \A i \in 4 .. 7 : i \in FedBack(p, v) <=> i \in Entering(p, v)
<1> DEFINE e == Entering(p, v)
<1>1. e \in Bits /\ e \in Word
  BY EnteringIs, BitsAreWords
<1> HIDE DEF e
<1>2. Shr(e, 4) \in Word /\ \A i \in Nat : i \in Shr(e, 4) <=> i + 4 \in e
  BY <1>1, ShiftsAre
<1> DEFINE x == Xor(e, Shr(e, 4))
<1>3. x \in Word /\ \A i : i \in x <=> ~(i \in e <=> i \in Shr(e, 4))
  BY <1>1, <1>2, XorIs
<1> HIDE DEF x
<1>4. \A i \in Nat : i \in x <=> ~(i \in e <=> i + 4 \in e)
  BY <1>2, <1>3
<1>5. x \in Bits
  <2>1. \A i \in x : i \in Nat
    BY <1>3 DEF Word
  <2>2. \A i \in x : i \in 0 .. 7
    <3> SUFFICES ASSUME NEW i \in x, i \notin 0 .. 7 PROVE FALSE
      OBVIOUS
    <3>1. i \in Nat /\ i > 7
      BY <2>1
    <3>2. i \notin e /\ i + 4 \notin e
      BY <1>1, <3>1 DEF Bits
    <3> QED BY <1>4, <3>1, <3>2
  <2> QED BY <2>2 DEF Bits
<1>6. \A i \in 4 .. 7 : i + 4 \notin e
  BY <1>1 DEF Bits
<1>7. FedBack(p, v) = x
  BY Zenon DEF FedBack, e, x
<1>8. \A i \in 0 .. 3 : i \in x <=> ~(i \in e <=> i + 4 \in e)
  BY <1>4
<1>9. \A i \in 4 .. 7 : i \in x <=> i \in e
  BY <1>4, <1>6
<1> QED BY <1>5, <1>7, <1>8, <1>9 DEF e

LEMMA Step16Bits ==
  ASSUME NEW p \in Word, NEW v \in Bits, NEW i \in 0 .. 15
  PROVE  i \in Step16(p, v)
           <=> ~(~(~(i - 8 \in p <=> i - 12 \in FedBack(p, v)) <=> i - 5 \in FedBack(p, v)) <=> i \in FedBack(p, v))
<1> DEFINE x == FedBack(p, v)
           r == Xor(Xor(Xor(Shl(p, 8), Low(Shl(x, 12), 16)), Low(Shl(x, 5), 16)), x)
<1>1. Step16(p, v) = Low(r, 32)
  BY Zenon DEF Step16, FedBack, Entering
<1>2. x \in Word
  BY FedBackIs, BitsAreWords
<1> HIDE DEF x
<1>3. i \in Nat /\ i < 16 /\ i < 32
  OBVIOUS
<1>4. i \in Shl(p, 8) <=> i - 8 \in p
  BY <1>3, ShiftsAre
<1>5. i \in Low(Shl(x, 12), 16) <=> i - 12 \in x
  <2>1. i \in Shl(x, 12) <=> i - 12 \in x
    BY <1>2, <1>3, ShiftsAre
  <2> DEFINE q == Shl(x, 12)
  <2> HIDE DEF q
  <2>2. i \in Low(q, 16) <=> i \in q
    BY <1>3, LowIs
  <2> QED BY <2>1, <2>2 DEF q
<1>6. i \in Low(Shl(x, 5), 16) <=> i - 5 \in x
  <2>1. i \in Shl(x, 5) <=> i - 5 \in x
    BY <1>2, <1>3, ShiftsAre
  <2> DEFINE q == Shl(x, 5)
  <2> HIDE DEF q
  <2>2. i \in Low(q, 16) <=> i \in q
    BY <1>3, LowIs
  <2> QED BY <2>1, <2>2 DEF q
<1> DEFINE c1 == Shl(p, 8)
           c2 == Low(Shl(x, 12), 16)
           c3 == Low(Shl(x, 5), 16)
<1>7. i \in r <=> ~(~(~(i \in c1 <=> i \in c2) <=> i \in c3) <=> i \in x)
  <2> HIDE DEF c1, c2, c3
  <2>1. i \in Xor(c1, c2) <=> ~(i \in c1 <=> i \in c2)
    BY XorIs
  <2>2. i \in Xor(Xor(c1, c2), c3) <=> ~(i \in Xor(c1, c2) <=> i \in c3)
    BY XorIs
  <2>3. i \in Xor(Xor(Xor(c1, c2), c3), x) <=> ~(i \in Xor(Xor(c1, c2), c3) <=> i \in x)
    BY XorIs
  <2>4. r = Xor(Xor(Xor(c1, c2), c3), x)
    BY Zenon DEF r, c1, c2, c3
  <2> HIDE DEF r
  <2> QED BY <2>1, <2>2, <2>3, <2>4
<1> HIDE DEF r
<1>8. i \in Low(r, 32) <=> i \in r
  BY <1>3, LowIs
<1> QED BY <1>1, <1>4, <1>5, <1>6, <1>7, <1>8 DEF x, c1, c2, c3

\* What is above sixteen bits does not come back.
LEMMA HighBitsAreLost ==
  ASSUME NEW p \in Word, NEW v \in Bits
  PROVE  Low(Step16(Low(p, 16), v), 16) = Low(Step16(p, v), 16)
<1> DEFINE q == Low(p, 16)
<1>1. q \in Word /\ \A i \in Nat : i \in q <=> i \in p /\ i < 16
  BY LowIs
<1> HIDE DEF q
<1>2. Entering(q, v) = Entering(p, v)
  <2>1. Entering(q, v) \in Word /\ Entering(p, v) \in Word /\ Entering(q, v) \subseteq 0 .. 7 /\ Entering(p, v) \subseteq 0 .. 7
    BY <1>1, EnteringIs, BitsAreWords DEF Bits
  <2>2. ASSUME NEW i \in 0 .. 7 PROVE i \in Entering(q, v) <=> i \in Entering(p, v)
    <3>1. i + 8 \in q <=> i + 8 \in p
      BY <1>1
    <3> QED BY <1>1, <3>1, EnteringIs
  <2> QED BY <2>1, <2>2
<1>3. FedBack(q, v) = FedBack(p, v)
  BY <1>2, Zenon DEF FedBack
<1>4. ASSUME NEW i \in 0 .. 15 PROVE i \in Step16(q, v) <=> i \in Step16(p, v)
  <2>1. i - 8 \in q <=> i - 8 \in p
    <3>1. CASE i >= 8
      BY <1>1, <3>1
    <3>2. CASE ~(i >= 8)
      <4>1. i - 8 \notin Nat
        BY <3>2
      <4> QED BY <1>1, <4>1 DEF Word
    <3> QED BY <3>1, <3>2
  <2>2. i \in Step16(q, v)
          <=> ~(~(~(i - 8 \in q <=> i - 12 \in FedBack(p, v)) <=> i - 5 \in FedBack(p, v)) <=> i \in FedBack(p, v))
    BY <1>1, <1>3, Step16Bits
  <2> QED BY <2>1, <2>2, Step16Bits
<1> DEFINE y == Step16(q, v)
           z == Step16(p, v)
<1> HIDE DEF y, z
<1>5. Low(y, 16) = Low(z, 16)
  <2>1. \A i \in 0 .. 15 : i \in y <=> i \in z
    BY <1>4 DEF y, z
  <2>2. 0 .. 16 - 1 = 0 .. 15
    OBVIOUS
  <2> QED BY <2>1, <2>2 DEF Low
<1> QED BY <1>5 DEF y, z, q

LEMMA CcittBitIs ==
  ASSUME NEW p \in Word, NEW bit \in BOOLEAN
  PROVE  /\ CcittBit(p, bit) \in Word
         /\ \A i \in Nat : i \in CcittBit(p, bit)
                             <=> i < 16 /\ ~(i - 1 \in p <=> (~(bit <=> 15 \in p) /\ i \in {12, 5, 0}))
<1> DEFINE shifted == Low(Shl(p, 1), 16)
           feed == {12, 5, 0}
<1>1. shifted \in Word /\ \A i \in Nat : i \in shifted <=> i - 1 \in p /\ i < 16
  <2> DEFINE q == Shl(p, 1)
  <2>1. \A i \in Nat : i \in q <=> i - 1 \in p
    BY ShiftsAre
  <2> HIDE DEF q
  <2>2. Low(q, 16) \in Word /\ \A i \in Nat : i \in Low(q, 16) <=> i \in q /\ i < 16
    BY LowIs
  <2> QED BY <2>1, <2>2 DEF q
<1>2. feed \in Word /\ \A i \in feed : i < 16
  BY DEF Word
<1>3. CASE ~(bit <=> 15 \in p)
  <2>1. CcittBit(p, bit) = Xor(shifted, feed)
    BY <1>3 DEF CcittBit
  <2> HIDE DEF shifted, feed
  <2>2. Xor(shifted, feed) \in Word /\ \A i : i \in Xor(shifted, feed) <=> ~(i \in shifted <=> i \in feed)
    BY <1>1, <1>2, XorIs
  <2>3. \A i \in Nat : i \in Xor(shifted, feed) <=> i < 16 /\ ~(i - 1 \in p <=> i \in feed)
    BY <1>1, <1>2, <2>2
  <2> QED BY <1>3, <2>1, <2>2, <2>3 DEF feed
<1>4. CASE bit <=> 15 \in p
  <2>1. CcittBit(p, bit) = shifted
    BY <1>4 DEF CcittBit
  <2> QED BY <1>1, <1>4, <2>1
<1> QED BY <1>3, <1>4

BitStep(p, v, k) == CcittBit(p, (8 - k) \in v)

LEMMA BitStepIs ==
  ASSUME NEW p \in Word, NEW v, NEW k
  PROVE  /\ BitStep(p, v, k) \in Word
         /\ \A i \in Nat : i \in BitStep(p, v, k)
                             <=> i < 16 /\ ~(i - 1 \in p <=> (~((8 - k) \in v <=> 15 \in p) /\ i \in {12, 5, 0}))
<1> DEFINE bit == (8 - k) \in v
<1>1. bit \in BOOLEAN
  OBVIOUS
<1>2. BitStep(p, v, k) = CcittBit(p, bit)
  BY Zenon DEF BitStep
<1> HIDE DEF bit
<1>3. /\ CcittBit(p, bit) \in Word
      /\ \A i \in Nat : i \in CcittBit(p, bit)
                             <=> i < 16 /\ ~(i - 1 \in p <=> (~(bit <=> 15 \in p) /\ i \in {12, 5, 0}))
  BY <1>1, CcittBitIs
<1> QED BY <1>2, <1>3, Zenon DEF bit

\* The remainder with each bit of a byte.
IsCcittByte(f, word, v) ==
  /\ f[0] = word
  /\ \A k \in 1 .. 8 : f[k] = BitStep(f[k - 1], v, k)

LEMMA CcittByteBuilds ==
  ASSUME NEW word \in Word, NEW v \in Bits
  PROVE  \E f : /\ IsCcittByte(f, word, v) /\ CcittByte(word, v) = f[8]
                /\ \A k \in 0 .. 8 : f[k] \in Word
<1> DEFINE N == 8
           X == Word
           next(k, s) == BitStep(s, v, k)
           step == [p \in (1 .. N) \X X |-> next(p[1], p[2])]
<1>1. N \in Nat
  OBVIOUS
<1>2. word \in X
  OBVIOUS
<1>3. ASSUME NEW k \in 1 .. N, NEW s \in X PROVE next(k, s) \in X
  BY BitStepIs
<1>4. step \in [(1 .. N) \X X -> X] /\ \A k \in 1 .. N, s \in X : step[<<k, s>>] = next(k, s)
  <2> HIDE DEF next, N, X
  <2> QED BY <1>3
<1>5. PICK f : Follows(f, X, word, step, N)
  <2> HIDE DEF step, N, X
  <2> QED BY <1>1, <1>2, <1>4, Recursion
<1> DEFINE Is(g) == g = [k \in 0 .. N |-> IF k = 0 THEN word ELSE next(k, g[k - 1])]
<1>6. ASSUME NEW k \in 0 .. N PROVE f[k] = IF k = 0 THEN word ELSE next(k, f[k - 1])
  <2> HIDE DEF next, step, N, X
  <2>1. CASE k = 0
    BY <1>5, <2>1 DEF Follows
  <2>2. CASE k # 0
    <3>1. k \in 1 .. N /\ k - 1 \in 0 .. N
      BY <1>1, <2>2
    <3>2. f[k - 1] \in X /\ f[k] = step[<<k, f[k - 1]>>]
      BY <1>5, <3>1 DEF Follows
    <3> QED BY <1>4, <2>2, <3>1, <3>2
  <2> QED BY <2>1, <2>2
<1>7. Is(f)
  <2>1. f = [k \in 0 .. N |-> f[k]]
    BY <1>5 DEF Follows
  <2> HIDE DEF step, X, next, N
  <2> QED BY <1>6, <2>1, Zenon
<1> DEFINE found[k \in 0 .. N] == IF k = 0 THEN word ELSE CcittBit(found[k - 1], (8 - k) \in v)
<1>8. Is(found)
  <2>1. \E g : Is(g)
    BY <1>7
  <2> QED BY <2>1, Zenon DEF BitStep
<1>9. CcittByte(word, v) = found[N]
  BY Zenon DEF CcittByte
<1> HIDE DEF found
<1>10. \A k \in 0 .. N : found[k] = IF k = 0 THEN word ELSE next(k, found[k - 1])
  <2> HIDE DEF N, X, next
  <2> QED BY <1>8, Zenon
<1> HIDE DEF Is
<1>11. found[0] = word /\ \A k \in 1 .. N : found[k] = next(k, found[k - 1])
  <2> HIDE DEF N, X, next
  <2>1. 0 \in 0 .. N /\ \A k \in 1 .. N : k \in 0 .. N /\ k # 0
    BY <1>1
  <2>2. found[0] = word
    BY <1>10, <2>1, Zenon
  <2>3. ASSUME NEW k \in 1 .. N PROVE found[k] = next(k, found[k - 1])
    BY <1>10, <2>1, Zenon
  <2> QED BY <2>2, <2>3
<1>12. \A k \in 0 .. N : found[k] \in X
  <2> HIDE DEF N, X, next
  <2>1. found[0] \in X
    BY <1>2, <1>11
  <2>2. \A k \in 1 .. N : found[k - 1] \in X => found[k] \in X
    BY <1>3, <1>11
  <2> QED BY <1>1, <2>1, <2>2, RecursionStays
<1>13. IsCcittByte(found, word, v)
  BY <1>11, Zenon DEF IsCcittByte
<1> QED BY <1>9, <1>12, <1>13, Zenon

\* The bit that was fed back d steps ago, of k.
Fed(x, k, d) == d \in 0 .. k - 1 /\ (8 - k) + d \in x

LEMMA FedGoesOn ==
  ASSUME NEW x \in Bits, NEW k \in 0 .. 7, NEW d \in Int
  PROVE  Fed(x, k + 1, d) <=> ~(Fed(x, k, d - 1) <=> (d = 0 /\ 7 - k \in x))
<1>1. CASE d = 0
  <2>1. d \in 0 .. (k + 1) - 1 /\ (8 - (k + 1)) + d = 7 - k /\ ~(d - 1 \in 0 .. k - 1)
    BY <1>1
  <2> QED BY <1>1, <2>1 DEF Fed
<1>2. CASE d # 0
  <2>1. (d \in 0 .. (k + 1) - 1 <=> d - 1 \in 0 .. k - 1) /\ (8 - (k + 1)) + d = (8 - k) + (d - 1)
    BY <1>2
  <2> QED BY <1>2, <2>1 DEF Fed
<1> QED BY <1>1, <1>2

LEMMA FeedbackIs ==
  ASSUME NEW p \in Word, p \subseteq 0 .. 15, NEW v \in Bits, NEW k \in 0 .. 7, NEW s,
         15 \in s <=> ~(~(~(15 - k \in p <=> Fed(FedBack(p, v), k, 15 - 12))
                           <=> Fed(FedBack(p, v), k, 15 - 5)) <=> Fed(FedBack(p, v), k, 15))
  PROVE  ~(7 - k \in v <=> 15 \in s) <=> 7 - k \in FedBack(p, v)
<1> DEFINE x == FedBack(p, v)
           e == Entering(p, v)
           m == 7 - k
<1>1. ~Fed(x, k, 15 - 5) /\ ~Fed(x, k, 15)
  BY DEF Fed
<1>2. m \in 0 .. 7 /\ m + 8 = 15 - k
  OBVIOUS
<1>3. m \in e <=> ~(15 - k \in p <=> m \in v)
  BY <1>2, EnteringIs
<1>4. CASE k <= 3
  <2>1. ~Fed(x, k, 15 - 12)
    BY <1>4 DEF Fed
  <2>2. m \in 4 .. 7
    BY <1>4
  <2>3. m \in x <=> m \in e
    BY <2>2, FedBackIs
  <2> HIDE DEF x, e, m
  <2> QED BY <1>1, <1>3, <2>1, <2>3 DEF x, e, m
<1>5. CASE ~(k <= 3)
  <2>1. m \in 0 .. 3 /\ m + 4 \in 4 .. 7 /\ (8 - k) + (15 - 12) = m + 4 /\ 15 - 12 \in 0 .. k - 1
    BY <1>5
  <2>2. Fed(x, k, 15 - 12) <=> m + 4 \in x
    BY <2>1 DEF Fed
  <2>3. m + 4 \in x <=> m + 4 \in e
    BY <2>1, FedBackIs
  <2>4. m \in x <=> ~(m \in e <=> m + 4 \in e)
    BY <2>1, FedBackIs
  <2> HIDE DEF x, e
  <2> QED BY <1>1, <1>3, <2>2, <2>3, <2>4 DEF x, e
<1> QED BY <1>4, <1>5

LEMMA CcittByteIs ==
  ASSUME NEW p \in Word, p \subseteq 0 .. 15, NEW v \in Bits
  PROVE  CcittByte(p, v) = Low(Step16(p, v), 16)
<1>1. PICK f : IsCcittByte(f, p, v) /\ CcittByte(p, v) = f[8] /\ \A k \in 0 .. 8 : f[k] \in Word
  BY CcittByteBuilds
<1> DEFINE x == FedBack(p, v)
           Mix(k, i) == ~(~(~(i - k \in p <=> Fed(x, k, i - 12)) <=> Fed(x, k, i - 5)) <=> Fed(x, k, i))
           S == {k \in Nat : k <= 8 => \A i \in Nat : i \in f[k] <=> i < 16 /\ Mix(k, i)}
<1>2. x \in Bits
  BY FedBackIs
<1> HIDE DEF x
<1>3. 0 \in S
  <2>1. f[0] = p
    BY <1>1 DEF IsCcittByte
  <2>2. ASSUME NEW i \in Nat PROVE i \in p <=> i < 16 /\ Mix(0, i)
    <3>1. ~Fed(x, 0, i - 12) /\ ~Fed(x, 0, i - 5) /\ ~Fed(x, 0, i) /\ i - 0 = i /\ (i \in p => i < 16)
      BY DEF Fed
    <3> QED BY <3>1
  <2> QED BY <2>1, <2>2
<1>4. ASSUME NEW k \in Nat, k \in S PROVE k + 1 \in S
  <2> SUFFICES ASSUME k + 1 <= 8, NEW i \in Nat PROVE i \in f[k + 1] <=> i < 16 /\ Mix(k + 1, i)
    OBVIOUS
  <2>1. k + 1 \in 1 .. 8 /\ (k + 1) - 1 = k /\ k \in 0 .. 7 /\ k \in 0 .. 8 /\ 8 - (k + 1) = 7 - k
    OBVIOUS
  <2>2. \A j \in Nat : j \in f[k] <=> j < 16 /\ Mix(k, j)
    BY <1>4, <2>1
  <2>3. f[k + 1] = BitStep(f[k], v, k + 1)
    <3>1. f[k + 1] = BitStep(f[(k + 1) - 1], v, k + 1)
      BY <1>1, <2>1, Zenon DEF IsCcittByte
    <3> QED BY <2>1, <3>1
  <2> DEFINE feed == {12, 5, 0}
             fb == 7 - k \in x
  <2>4. i \in f[k + 1] <=> i < 16 /\ ~(i - 1 \in f[k] <=> (~(7 - k \in v <=> 15 \in f[k]) /\ i \in feed))
    <3>1. f[k] \in Word
      BY <1>1, <2>1
    <3>2. i \in BitStep(f[k], v, k + 1) <=> i < 16 /\ ~(i - 1 \in f[k] <=> (~((8 - (k + 1)) \in v <=> 15 \in f[k]) /\ i \in feed))
      BY <3>1, BitStepIs
    <3> QED BY <2>1, <2>3, <3>2
  <2>5. ~(7 - k \in v <=> 15 \in f[k]) <=> fb
    <3>1. 15 \in f[k] <=> Mix(k, 15)
      <4> HIDE DEF Mix
      <4> QED BY <2>2
    <3> QED BY <2>1, <3>1, FeedbackIs DEF x
  <2>6. i < 16 => (i - 1 \in f[k] <=> Mix(k, i - 1))
    <3> SUFFICES ASSUME i < 16 PROVE i - 1 \in f[k] <=> Mix(k, i - 1)
      OBVIOUS
    <3>1. CASE i # 0
      <4>1. i - 1 \in Nat /\ i - 1 < 16
        BY <3>1
      <4> HIDE DEF Mix
      <4> QED BY <2>2, <4>1
    <3>2. CASE i = 0
      <4>1. i - 1 \notin Nat /\ f[k] \subseteq Nat /\ p \subseteq Nat
        BY <1>1, <2>1, <3>2 DEF Word
      <4>2. ~Fed(x, k, (i - 1) - 12) /\ ~Fed(x, k, (i - 1) - 5) /\ ~Fed(x, k, i - 1) /\ (i - 1) - k \notin Nat
        BY <2>1, <3>2 DEF Fed
      <4> QED BY <4>1, <4>2
    <3> QED BY <3>1, <3>2
  <2>7. Mix(k + 1, i) <=> ~(Mix(k, i - 1) <=> (fb /\ i \in feed))
    <3>1. /\ i - 12 \in Int /\ i - 5 \in Int /\ i \in Int
          /\ (i - 1) - k = i - (k + 1) /\ (i - 12) - 1 = (i - 1) - 12 /\ (i - 5) - 1 = (i - 1) - 5
          /\ (i - 12 = 0 <=> i = 12) /\ (i - 5 = 0 <=> i = 5)
      BY <2>1
    <3>2. Fed(x, k + 1, i - 12) <=> ~(Fed(x, k, (i - 1) - 12) <=> (i = 12 /\ fb))
      BY <1>2, <2>1, <3>1, FedGoesOn
    <3>3. Fed(x, k + 1, i - 5) <=> ~(Fed(x, k, (i - 1) - 5) <=> (i = 5 /\ fb))
      BY <1>2, <2>1, <3>1, FedGoesOn
    <3>4. Fed(x, k + 1, i) <=> ~(Fed(x, k, i - 1) <=> (i = 0 /\ fb))
      BY <1>2, <2>1, <3>1, FedGoesOn
    <3>5. i \in feed <=> i = 12 \/ i = 5 \/ i = 0
      OBVIOUS
    <3> HIDE DEF fb, feed
    <3> QED BY <3>1, <3>2, <3>3, <3>4, <3>5
  <2> HIDE DEF Mix, fb, feed
  <2> QED BY <2>4, <2>5, <2>6, <2>7
<1>5. \A k \in Nat : k \in S
  <2> HIDE DEF S
  <2> QED BY <1>3, <1>4, NumbersByInduction
<1>6. \A i \in Nat : i \in f[8] <=> i < 16 /\ Mix(8, i)
  <2> HIDE DEF Mix
  <2> QED BY <1>5
<1>7. ASSUME NEW i \in 0 .. 15 PROVE Mix(8, i) <=> i \in Step16(p, v)
  <2>1. \A d \in Int : Fed(x, 8, d) <=> d \in x
    <3> SUFFICES ASSUME NEW d \in Int PROVE Fed(x, 8, d) <=> d \in x
      OBVIOUS
    <3>1. (8 - 8) + d = d /\ (d \in x => d \in 0 .. 8 - 1)
      BY <1>2 DEF Bits
    <3> QED BY <3>1 DEF Fed
  <2>2. i - 12 \in Int /\ i - 5 \in Int /\ i \in Int
    OBVIOUS
  <2>3. i \in Step16(p, v) <=> ~(~(~(i - 8 \in p <=> i - 12 \in x) <=> i - 5 \in x) <=> i \in x)
    BY Step16Bits DEF x
  <2> QED BY <2>1, <2>2, <2>3
<1>8. \A i \in Nat : i \in f[8] <=> i \in Low(Step16(p, v), 16)
  <2> DEFINE y == Step16(p, v)
  <2>1. \A i \in Nat : i < 16 => i \in 0 .. 15
    OBVIOUS
  <2>2. \A i \in Nat : i < 16 => (Mix(8, i) <=> i \in y)
    BY <1>7, <2>1
  <2> HIDE DEF y, Mix
  <2>3. \A i \in Nat : i \in Low(y, 16) <=> i \in y /\ i < 16
    BY LowIs
  <2> QED BY <1>6, <2>2, <2>3 DEF y
<1>9. f[8] \in Word /\ Low(Step16(p, v), 16) \in Word
  BY <1>1, LowIs
<1> QED BY <1>1, <1>8, <1>9, WordsEqual

-----------------------------------------------------------------------------
(* The sums that are continued byte by byte.                                 *)

\* The remainder with each byte.
IsCcitt(f, data) ==
  /\ f[0] = Ones(16)
  /\ \A k \in 1 .. Len(data) : f[k] = CcittByte(f[k - 1], data[k])

LEMMA CcittBuilds ==
  ASSUME NEW data \in Seq(Bits)
  PROVE  \E f : /\ IsCcitt(f, data) /\ Ccitt(data) = f[Len(data)]
                /\ \A k \in 0 .. Len(data) : f[k] \in Word
<1> DEFINE N == Len(data)
           X == Word
           next(k, s) == CcittByte(s, data[k])
           step == [p \in (1 .. N) \X X |-> next(p[1], p[2])]
<1>1. N \in Nat
  OBVIOUS
<1>2. Ones(16) \in X
  BY OnesAre
<1>3. ASSUME NEW k \in 1 .. N, NEW s \in X PROVE next(k, s) \in X
  <2>1. data[k] \in Bits
    OBVIOUS
  <2>2. PICK f : CcittByte(s, data[k]) = f[8] /\ \A j \in 0 .. 8 : f[j] \in Word
    BY <2>1, CcittByteBuilds, Zenon
  <2> QED BY <2>2
<1>4. step \in [(1 .. N) \X X -> X] /\ \A k \in 1 .. N, s \in X : step[<<k, s>>] = next(k, s)
  <2> HIDE DEF next, N, X
  <2> QED BY <1>3
<1>5. PICK f : Follows(f, X, Ones(16), step, N)
  <2> HIDE DEF step, N, X
  <2> QED BY <1>1, <1>2, <1>4, Recursion
<1> DEFINE Is(g) == g = [k \in 0 .. N |-> IF k = 0 THEN Ones(16) ELSE next(k, g[k - 1])]
<1>6. ASSUME NEW k \in 0 .. N PROVE f[k] = IF k = 0 THEN Ones(16) ELSE next(k, f[k - 1])
  <2> HIDE DEF next, step, N, X
  <2>1. CASE k = 0
    BY <1>5, <2>1 DEF Follows
  <2>2. CASE k # 0
    <3>1. k \in 1 .. N /\ k - 1 \in 0 .. N
      BY <1>1, <2>2
    <3>2. f[k - 1] \in X /\ f[k] = step[<<k, f[k - 1]>>]
      BY <1>5, <3>1 DEF Follows
    <3> QED BY <1>4, <2>2, <3>1, <3>2
  <2> QED BY <2>1, <2>2
<1>7. Is(f)
  <2>1. f = [k \in 0 .. N |-> f[k]]
    BY <1>5 DEF Follows
  <2> HIDE DEF step, X, next, N
  <2> QED BY <1>6, <2>1, Zenon
<1> DEFINE found[k \in 0 .. N] == IF k = 0 THEN Ones(16) ELSE CcittByte(found[k - 1], data[k])
<1>8. Is(found)
  <2>1. \E g : Is(g)
    BY <1>7
  <2> QED BY <2>1, Zenon
<1>9. Ccitt(data) = found[N]
  BY Zenon DEF Ccitt
<1> HIDE DEF found
<1>10. \A k \in 0 .. N : found[k] = IF k = 0 THEN Ones(16) ELSE next(k, found[k - 1])
  <2> HIDE DEF N, X, next
  <2> QED BY <1>8, Zenon
<1> HIDE DEF Is
<1>11. found[0] = Ones(16) /\ \A k \in 1 .. N : found[k] = next(k, found[k - 1])
  <2> HIDE DEF N, X, next
  <2>1. 0 \in 0 .. N /\ \A k \in 1 .. N : k \in 0 .. N /\ k # 0
    BY <1>1
  <2>2. found[0] = Ones(16)
    BY <1>10, <2>1, Zenon
  <2>3. ASSUME NEW k \in 1 .. N PROVE found[k] = next(k, found[k - 1])
    BY <1>10, <2>1, Zenon
  <2> QED BY <2>2, <2>3
<1>12. \A k \in 0 .. N : found[k] \in X
  <2> HIDE DEF N, X, next
  <2>1. found[0] \in X
    BY <1>2, <1>11
  <2>2. \A k \in 1 .. N : found[k - 1] \in X => found[k] \in X
    BY <1>3, <1>11
  <2> QED BY <1>1, <2>1, <2>2, RecursionStays
<1>13. IsCcitt(found, data)
  BY <1>11, Zenon DEF IsCcitt
<1> QED BY <1>9, <1>12, <1>13, Zenon

LEMMA CcittGoes ==
  ASSUME NEW data \in Seq(Bits)
  PROVE  /\ Ccitt(data) \in Word
         /\ Ccitt(<<>>) = Ones(16)
         /\ \A v \in Bits : Ccitt(Append(data, v)) = CcittByte(Ccitt(data), v)
<1>1. PICK f : /\ IsCcitt(f, data) /\ Ccitt(data) = f[Len(data)]
               /\ \A k \in 0 .. Len(data) : f[k] \in Word
  BY CcittBuilds
<1>2. Ccitt(data) \in Word
  <2>1. Len(data) \in 0 .. Len(data)
    OBVIOUS
  <2>2. f[Len(data)] \in Word
    BY <1>1, <2>1, Zenon
  <2> QED BY <1>1, <2>2, Zenon
<1>3. Ccitt(<<>>) = Ones(16)
  <2>1. <<>> \in Seq(Bits) /\ Len(<<>>) = 0
    OBVIOUS
  <2>2. PICK g : IsCcitt(g, <<>>) /\ Ccitt(<<>>) = g[0]
    BY <2>1, CcittBuilds
  <2> QED BY <2>2 DEF IsCcitt
<1>4. ASSUME NEW v \in Bits PROVE Ccitt(Append(data, v)) = CcittByte(Ccitt(data), v)
  <2> DEFINE N == Len(data)
             all == Append(data, v)
  <2>1. N \in Nat /\ all \in Seq(Bits) /\ Len(all) = N + 1 /\ all[N + 1] = v
        /\ \A k \in 1 .. N : all[k] = data[k]
    OBVIOUS
  <2> HIDE DEF all
  <2>2. PICK g : IsCcitt(g, all) /\ Ccitt(all) = g[N + 1]
    BY <2>1, CcittBuilds
  <2> HIDE DEF N
  <2>3. Alike(f, g, N)
    <3>1. f[0] = g[0]
      BY <1>1, <2>2, Zenon DEF IsCcitt
    <3>2. ASSUME NEW k \in 1 .. N, f[k - 1] = g[k - 1] PROVE f[k] = g[k]
      <4>1. k \in 1 .. Len(data) /\ k \in 1 .. Len(all) /\ all[k] = data[k]
        BY <2>1 DEF N
      <4>2. f[k] = CcittByte(f[k - 1], data[k])
        BY <1>1, <4>1, Zenon DEF IsCcitt
      <4>3. g[k] = CcittByte(g[k - 1], all[k])
        BY <2>2, <4>1, Zenon DEF IsCcitt
      <4> QED BY <3>2, <4>1, <4>2, <4>3, Zenon
    <3> QED BY <3>1, <3>2, Zenon DEF Alike
  <2>4. f[N] = g[N]
    BY <2>1, <2>3, AlikeEqual, Zenon
  <2>5. N + 1 \in 1 .. Len(all) /\ (N + 1) - 1 = N
    BY <2>1
  <2>6. g[N + 1] = CcittByte(g[(N + 1) - 1], all[N + 1])
    BY <2>2, <2>5, Zenon DEF IsCcitt
  <2> QED BY <1>1, <2>1, <2>2, <2>4, <2>5, <2>6, Zenon DEF N, all
<1> QED BY <1>2, <1>3, <1>4

LEMMA FastFinish ==
  ASSUME NEW data, NEW start
  PROVE  CRC_32_FAST(data, start, TRUE) = Xor(CRC_32_FAST(data, start, FALSE), Ones(32))
<1> DEFINE sum[k \in 0 .. Len(data)] ==
             IF k = 0 THEN start
             ELSE Xor(crc32table(Low(Xor(sum[k - 1], data[k]), 8)), Shr(sum[k - 1], 8))
           last == sum[Len(data)]
<1>1. CRC_32_FAST(data, start, TRUE) = IF TRUE THEN Xor(last, Ones(32)) ELSE last
  BY Zenon DEF CRC_32_FAST
<1>2. CRC_32_FAST(data, start, FALSE) = IF FALSE THEN Xor(last, Ones(32)) ELSE last
  BY Zenon DEF CRC_32_FAST
<1> HIDE DEF last
<1>3. CRC_32_FAST(data, start, FALSE) = last
  BY <1>2, Zenon
<1> QED BY <1>1, <1>3, Zenon

CrcInv ==
  /\ crcData \in Seq(Bits)
  /\ crcSums.c16 = CRC_16(crcData) /\ crcSums.c16 = Ccitt(crcData)
  /\ crcSums.c32 = CRC_32_CONT(crcData, Ones(32))
  /\ crcSums.fast = CRC_32_FAST(crcData, Ones(32), FALSE)
  /\ crcSums.fast = crcSums.c32

LEMMA CrcInitIs == CrcInit => CrcInv
<1> SUFFICES ASSUME CrcInit PROVE CrcInv
  OBVIOUS
<1>1. crcData = <<>> /\ crcSums.c16 = Ones(16) /\ crcSums.c32 = Ones(32) /\ crcSums.fast = Ones(32)
  BY DEF CrcInit
<1>2. <<>> \in Seq(Bits) /\ Ones(16) \in Word /\ Ones(32) \in Word
  BY OnesAre
<1>3. AllSteps16(<<>>, Ones(16)) = Ones(16)
  BY <1>2, Steps16Go
<1>4. CRC_16(<<>>) = Ones(16)
  BY <1>3 DEF CRC_16, Low, Ones
<1>5. Ccitt(<<>>) = Ones(16)
  BY <1>2, CcittGoes
<1>6. CRC_32_CONT(<<>>, Ones(32)) = Ones(32)
  BY <1>2, ContGoes
<1>7. CRC_32_FAST(<<>>, Ones(32), FALSE) = Ones(32)
  BY <1>2, FastGoes, Zenon
<1> QED BY <1>1, <1>2, <1>4, <1>5, <1>6, <1>7, Zenon DEF CrcInv

LEMMA CrcByteIs ==
  ASSUME CrcInv, NEW v \in Bits
  PROVE  LET all == Append(crcData, v)
             c16 == CRC_16_CONT(<<v>>, crcSums.c16)
             c32 == CRC_32_CONT(<<v>>, crcSums.c32)
             fast == CRC_32_FAST(<<v>>, crcSums.fast, FALSE)
         IN /\ all \in Seq(Bits)
            /\ c16 = CRC_16(all) /\ c16 = Ccitt(all)
            /\ c32 = CRC_32_CONT(all, Ones(32))
            /\ fast = CRC_32_FAST(all, Ones(32), FALSE)
            /\ fast = c32
<1> DEFINE data == crcData
           all == Append(data, v)
           s16 == crcSums.c16
           s32 == crcSums.c32
           sum == AllSteps16(data, Ones(16))
<1>1. /\ data \in Seq(Bits) /\ all \in Seq(Bits) /\ <<>> \in Seq(Bits) /\ Append(<<>>, v) = <<v>>
      /\ s16 = CRC_16(data) /\ s16 = Ccitt(data)
      /\ s32 = CRC_32_CONT(data, Ones(32)) /\ crcSums.fast = s32
  <2>1. /\ data \in Seq(Bits) /\ s16 = CRC_16(data) /\ s16 = Ccitt(data)
        /\ s32 = CRC_32_CONT(data, Ones(32)) /\ crcSums.fast = s32
    BY Zenon DEF CrcInv
  <2> HIDE DEF data
  <2>2. all \in Seq(Bits) /\ <<>> \in Seq(Bits) /\ Append(<<>>, v) = <<v>>
    BY <2>1
  <2> QED BY <2>1, <2>2
<1>2. s32 = CRC_32_FAST(data, Ones(32), FALSE)
  BY Zenon DEF CrcInv
<1>3. Ones(16) \in Word /\ Ones(32) \in Word
  BY OnesAre
<1> HIDE DEF data
<1>4. sum \in Word /\ AllSteps16(all, Ones(16)) = Step16(sum, v)
  BY <1>1, <1>3, Steps16Go
<1>5. s16 = Low(sum, 16) /\ s16 \in Word /\ s16 \subseteq 0 .. 15
  <2>1. s16 = Low(sum, 16)
    BY <1>1 DEF CRC_16
  <2> HIDE DEF sum, s16
  <2>2. Low(sum, 16) \in Word /\ Low(sum, 16) \subseteq 0 .. 16 - 1
    BY LowIs
  <2> QED BY <2>1, <2>2
<1>6. s32 \in Word
  BY <1>1, <1>3, ContGoes
<1> HIDE DEF s16, s32, sum, all
<1>7. AllSteps16(<<v>>, s16) = Step16(s16, v)
  <2>1. AllSteps16(Append(<<>>, v), s16) = Step16(AllSteps16(<<>>, s16), v) /\ AllSteps16(<<>>, s16) = s16
    BY <1>1, <1>5, Steps16Go
  <2> QED BY <1>1, <2>1
<1>8. CRC_16_CONT(<<v>>, s16) = Low(Step16(s16, v), 16)
  BY <1>7, Zenon DEF CRC_16_CONT
<1>9. CRC_16(all) = Low(Step16(s16, v), 16)
  <2>1. CRC_16(all) = Low(Step16(sum, v), 16)
    BY <1>4, Zenon DEF CRC_16
  <2>2. Low(Step16(Low(sum, 16), v), 16) = Low(Step16(sum, v), 16)
    BY <1>4, HighBitsAreLost
  <2> QED BY <1>5, <2>1, <2>2, Zenon
<1>10. Ccitt(all) = Low(Step16(s16, v), 16)
  <2>1. Ccitt(all) = CcittByte(Ccitt(data), v)
    BY <1>1, CcittGoes DEF all
  <2>2. CcittByte(s16, v) = Low(Step16(s16, v), 16)
    BY <1>5, CcittByteIs
  <2> QED BY <1>1, <2>1, <2>2, Zenon
<1> DEFINE next32 == Xor(Shr(s32, 8), EightSteps(Low(Xor(s32, v), 8)))
           nextFast == Xor(crc32table(Low(Xor(s32, v), 8)), Shr(s32, 8))
<1>11. next32 = nextFast
  BY <1>6, FastStepIs
<1>12. CRC_32_CONT(<<v>>, s32) = next32
  <2>1. CRC_32_CONT(<<>>, s32) = s32
    BY <1>6, ContGoes, <1>1
  <2>2. CRC_32_CONT(Append(<<>>, v), s32) = Xor(Shr(CRC_32_CONT(<<>>, s32), 8), EightSteps(Low(Xor(CRC_32_CONT(<<>>, s32), v), 8)))
    BY <1>1, <1>6, ContGoes, Zenon
  <2> QED BY <1>1, <2>1, <2>2, Zenon
<1>13. CRC_32_CONT(all, Ones(32)) = next32
  <2>1. CRC_32_CONT(Append(data, v), Ones(32))
          = Xor(Shr(CRC_32_CONT(data, Ones(32)), 8), EightSteps(Low(Xor(CRC_32_CONT(data, Ones(32)), v), 8)))
    BY <1>1, <1>3, ContGoes
  <2> QED BY <1>1, <2>1 DEF all
<1>14. CRC_32_FAST(<<v>>, s32, FALSE) = nextFast
  <2>1. CRC_32_FAST(<<>>, s32, FALSE) = s32
    BY <1>1, <1>6, FastGoes, Zenon
  <2>2. CRC_32_FAST(Append(<<>>, v), s32, FALSE) = Xor(crc32table(Low(Xor(CRC_32_FAST(<<>>, s32, FALSE), v), 8)), Shr(CRC_32_FAST(<<>>, s32, FALSE), 8))
    BY <1>1, <1>6, FastGoes, Zenon
  <2> QED BY <1>1, <2>1, <2>2, Zenon
<1>15. CRC_32_FAST(all, Ones(32), FALSE) = nextFast
  <2> DEFINE start == Ones(32)
  <2> HIDE DEF start
  <2>1. start \in Word
    BY <1>3 DEF start
  <2>2. CRC_32_FAST(Append(data, v), start, FALSE)
          = Xor(crc32table(Low(Xor(CRC_32_FAST(data, start, FALSE), v), 8)), Shr(CRC_32_FAST(data, start, FALSE), 8))
    BY <1>1, <2>1, FastGoes, Zenon
  <2>3. s32 = CRC_32_FAST(data, start, FALSE)
    BY <1>2, Zenon DEF start
  <2> QED BY <2>2, <2>3, Zenon DEF all, start
<1> HIDE DEF next32, nextFast
<1>16. all \in Seq(Bits) /\ CRC_16_CONT(<<v>>, s16) = CRC_16(all) /\ CRC_16_CONT(<<v>>, s16) = Ccitt(all)
  BY <1>1, <1>8, <1>9, <1>10, Zenon
<1>17. /\ CRC_32_CONT(<<v>>, s32) = CRC_32_CONT(all, Ones(32))
       /\ CRC_32_FAST(<<v>>, s32, FALSE) = CRC_32_FAST(all, Ones(32), FALSE)
       /\ CRC_32_FAST(<<v>>, s32, FALSE) = CRC_32_CONT(<<v>>, s32)
  BY <1>11, <1>12, <1>13, <1>14, <1>15, Zenon
<1>18. crcSums.fast = s32
  BY <1>1, Zenon
<1> QED BY <1>16, <1>17, <1>18, Zenon DEF s16, s32, all, data

LEMMA CrcStep == CrcInv /\ (CrcNext \/ UNCHANGED crcVars) => CrcInv'
<1> SUFFICES ASSUME CrcInv, CrcNext \/ UNCHANGED crcVars PROVE CrcInv'
  OBVIOUS
<1>1. CASE UNCHANGED crcVars
  BY <1>1, Zenon DEF CrcInv, crcVars
<1>2. CASE CrcNext
  <2>1. PICK v \in CrcBytes :
          /\ crcData' = Append(crcData, v)
          /\ crcSums' = [c16 |-> CRC_16_CONT(<<v>>, crcSums.c16),
                         c32 |-> CRC_32_CONT(<<v>>, crcSums.c32),
                         fast |-> CRC_32_FAST(<<v>>, crcSums.fast, FALSE)]
    BY <1>2, Zenon DEF CrcNext
  <2>2. v \in Bits
    BY CrcAssumption DEF Bits
  <2> DEFINE all == Append(crcData, v)
             c16 == CRC_16_CONT(<<v>>, crcSums.c16)
             c32 == CRC_32_CONT(<<v>>, crcSums.c32)
             fast == CRC_32_FAST(<<v>>, crcSums.fast, FALSE)
  <2>3. /\ all \in Seq(Bits)
        /\ c16 = CRC_16(all) /\ c16 = Ccitt(all)
        /\ c32 = CRC_32_CONT(all, Ones(32))
        /\ fast = CRC_32_FAST(all, Ones(32), FALSE)
        /\ fast = c32
    BY <2>2, CrcByteIs, Zenon
  <2>4. crcData' = all /\ crcSums' = [c16 |-> c16, c32 |-> c32, fast |-> fast]
    BY <2>1, Zenon
  <2> HIDE DEF all, c16, c32, fast
  <2>5. crcSums'.c16 = c16 /\ crcSums'.c32 = c32 /\ crcSums'.fast = fast
    BY <2>4
  <2> QED BY <2>3, <2>4, <2>5, Zenon DEF CrcInv
<1> QED BY <1>1, <1>2

LEMMA CrcHolds == CrcInv => CrcSumsAgree
<1> SUFFICES ASSUME CrcInv PROVE CrcSumsAgree
  OBVIOUS
<1> DEFINE fast == CRC_32_FAST(crcData, Ones(32), FALSE)
           cont == CRC_32_CONT(crcData, Ones(32))
<1>1. /\ crcSums.c16 = CRC_16(crcData) /\ crcSums.c16 = Ccitt(crcData)
      /\ crcSums.c32 = cont /\ crcSums.fast = fast /\ crcSums.fast = crcSums.c32
  BY Zenon DEF CrcInv
<1>2. CRC_32_FAST(crcData, Ones(32), TRUE) = Xor(fast, Ones(32))
  BY FastFinish, Zenon
<1>3. CRC_32(crcData) = Xor(cont, Ones(32)) /\ CRC_32_CONT_FINISH(crcSums.c32) = Xor(crcSums.c32, Ones(32))
  BY Zenon DEF CRC_32, CRC_32_CONT_FINISH
<1> HIDE DEF fast, cont
<1> QED BY <1>1, <1>2, <1>3, Zenon DEF CrcSumsAgree

\* What is coded, and what reads it.
CodeInv ==
  /\ TextInv /\ Len(hexBin) <= MaxHexBytes
  /\ EndInv /\ CrcInv

LEMMA CodeInitIs ==
  HexInit /\ numValue = NoNumber /\ SplitInit /\ EndInit /\ CrcInit => CodeInv
<1> SUFFICES ASSUME HexInit, numValue = NoNumber, SplitInit, EndInit, CrcInit PROVE CodeInv
  OBVIOUS
<1>1. Len(hexBin) <= MaxHexBytes
  <2>1. Len(hexBin) = 0 /\ MaxHexBytes \in Nat
    BY HexAssumption DEF HexInit
  <2> QED BY <2>1
<1> QED BY <1>1, TextInitIs, EndInitIs, CrcInitIs, Zenon DEF CodeInv

LEMMA CodeStep ==
  ASSUME CodeInv, HexNext \/ UNCHANGED hexVars, NumNext \/ UNCHANGED numValue,
         SplitNext \/ UNCHANGED splitVars, EndNext \/ UNCHANGED endVars, CrcNext \/ UNCHANGED crcVars
  PROVE  CodeInv'
<1>1. TextInv'
  BY TextStep, Zenon DEF CodeInv
<1>2. EndInv' /\ CrcInv'
  BY EndStep, CrcStep, Zenon DEF CodeInv
<1>3. (Len(hexBin) <= MaxHexBytes)'
  <2>1. hexBin \in Seq(Byte) /\ Len(hexBin) <= MaxHexBytes /\ MaxHexBytes \in Nat
    BY HexAssumption DEF CodeInv, TextInv
  <2>2. CASE hexBin' = hexBin
    BY <2>1, <2>2
  <2>3. ASSUME NEW v, hexBin' = Append(hexBin, v), Len(hexBin) < MaxHexBytes
        PROVE  Len(hexBin') <= MaxHexBytes
    <3>1. Len(hexBin') = Len(hexBin) + 1
      BY <2>1, <2>3
    <3> QED BY <2>1, <2>3, <3>1
  <2>4. hexBin' = hexBin \/ (Len(hexBin) < MaxHexBytes /\ \E v : hexBin' = Append(hexBin, v))
    BY Zenon DEF HexNext, hexVars
  <2> QED BY <2>2, <2>3, <2>4, Zenon
<1> QED BY <1>1, <1>2, <1>3, Zenon DEF CodeInv

LEMMA CodesHold == CodeInv => CodesReadBack
BY HexReads, NumbersHold, EndHolds, CrcHolds DEF CodeInv, TextInv, CodesReadBack

-----------------------------------------------------------------------------
(* The plot: the table of waveforms is full up to its count, and a redraw has *)
(* drawn what it has passed.                                                *)

PlotInv ==
  /\ spCount \in 0 .. MaxSets /\ spSets \in [Slots -> Waves \cup {NoWave}]
  /\ \A i \in Slots : spSets[i] = NoWave <=> i >= spCount
  /\ spLoop # NotDrawing =>
       /\ \E k \in 0 .. spCount : spLoop = [i |-> k, iDS |-> k]
       /\ spDrawn = [i \in 1 .. spLoop.iDS |-> spSets[i - 1]]
  /\ spCurve \in Curves

LEMMA PlotInitIs == SpInit => PlotInv
<1> SUFFICES ASSUME SpInit PROVE PlotInv
  OBVIOUS
<1>1. spCurve \in Curves
  BY SpAssumption, Zenon DEF SpInit
<1>2. spCount \in 0 .. MaxSets /\ spSets \in [Slots -> Waves \cup {NoWave}]
  BY SpAssumption DEF SpInit, Slots
<1>3. \A i \in Slots : spSets[i] = NoWave <=> i >= spCount
  BY DEF SpInit, Slots
<1> QED BY <1>1, <1>2, <1>3 DEF SpInit, PlotInv

LEMMA FoundFirst ==
  ASSUME NEW id, Found(id) # {}
  PROVE  LET first == CHOOSE i \in Found(id) : \A j \in Found(id) : i <= j
         IN first \in Found(id) /\ \A j \in Found(id) : first <= j
<1>1. Found(id) \subseteq Nat
  BY SpAssumption DEF Found, Slots
<1>2. \E i \in Found(id) : \A j \in Found(id) : i <= j
  BY <1>1, LeastNumber
<1> QED BY <1>2, Zenon

LEMMA PlotStep == PlotInv /\ (SpNext \/ UNCHANGED spVars) => PlotInv'
<1> SUFFICES ASSUME PlotInv, SpNext \/ UNCHANGED spVars PROVE PlotInv'
  OBVIOUS
<1>0. MaxSets \in Nat /\ NoWave \notin Waves
  BY SpAssumption
<1>1. CASE UNCHANGED spVars
  BY <1>1 DEF PlotInv, spVars
<1>2. ASSUME NEW w \in Waves, AddWaveform(w) PROVE PlotInv'
  <2>1. spLoop' = NotDrawing /\ spCurve' \in Curves
    BY <1>2 DEF AddWaveform, PlotInv
  <2>2. spCount' \in 0 .. MaxSets /\ spSets' \in [Slots -> Waves \cup {NoWave}]
    BY <1>0, <1>2 DEF AddWaveform, PlotInv, Slots
  <2>3. \A i \in Slots : spSets'[i] = NoWave <=> i >= spCount'
    BY <1>0, <1>2 DEF AddWaveform, PlotInv, Slots
  <2> QED BY <2>1, <2>2, <2>3 DEF PlotInv
<1>3. ASSUME NEW w \in Waves, RemoveWaveform(WaveId(w)) PROVE PlotInv'
  <2> DEFINE first == CHOOSE i \in Found(WaveId(w)) : \A j \in Found(WaveId(w)) : i <= j
  <2>1. first \in Found(WaveId(w))
    BY <1>3, FoundFirst, Zenon DEF RemoveWaveform
  <2>2. /\ spSets' = [i \in Slots |-> IF i < first THEN spSets[i]
                                      ELSE IF i < spCount - 1 THEN spSets[i + 1] ELSE NoWave]
        /\ spCount' = spCount - 1
    BY <1>3, Zenon DEF RemoveWaveform
  <2> HIDE DEF first
  <2>3. first \in Slots /\ first < spCount /\ spCount \in 0 .. MaxSets
    BY <2>1 DEF Found, PlotInv, Slots
  <2>4. spLoop' = NotDrawing /\ spCurve' \in Curves
    BY <1>3 DEF RemoveWaveform, PlotInv
  <2>5. spCount' \in 0 .. MaxSets
    BY <1>0, <2>2, <2>3 DEF Slots
  <2>6. spSets' \in [Slots -> Waves \cup {NoWave}]
    BY <1>0, <2>2, <2>3 DEF PlotInv, Slots
  <2>7. \A i \in Slots : spSets'[i] = NoWave <=> i >= spCount'
    BY <1>0, <2>2, <2>3 DEF PlotInv, Slots
  <2> QED BY <2>4, <2>5, <2>6, <2>7 DEF PlotInv
<1>4. CASE ReDraw
  <2>1. spLoop' = [i |-> 0, iDS |-> 0] /\ spDrawn' = <<>> /\ UNCHANGED <<spSets, spCount, spCurve>>
    BY <1>4 DEF ReDraw
  <2>2. spDrawn' = [i \in 1 .. spLoop'.iDS |-> spSets'[i - 1]]
    BY <2>1
  <2>3. 0 \in 0 .. spCount'
    BY <1>0, <2>1 DEF PlotInv
  <2> QED BY <2>1, <2>2, <2>3 DEF PlotInv
<1>5. CASE ForEachDataSet
  <2>1. PICK k \in 0 .. spCount : spLoop = [i |-> k, iDS |-> k]
    BY <1>5 DEF ForEachDataSet, PlotInv
  <2>2. spDrawn = [i \in 1 .. k |-> spSets[i - 1]] /\ UNCHANGED <<spSets, spCount>>
    BY <1>5, <2>1 DEF ForEachDataSet, PlotInv
  <2>3. spLoop.i = k /\ spLoop.iDS = k
    BY <2>1
  <2>4. CASE k < spCount /\ k < MaxSets
    <3> DEFINE w == spSets[k]
    <3>1. k \in Slots /\ ~(k >= spCount)
      BY <1>0, <2>1, <2>4 DEF PlotInv, Slots
    <3>2. w # NoWave /\ w \in Waves
      BY <3>1 DEF PlotInv
    <3>3. WaveId(w) >= 0
      <4>1. WaveId(w) \in Nat
        BY <3>2, SpAssumption, Zenon
      <4> QED BY <4>1
    <3>4. /\ spLoop' = [i |-> k + 1, iDS |-> k + 1]
          /\ spDrawn' = Append(spDrawn, w) /\ spCurve' \in Curves
      BY <1>5, <2>3, <2>4, <3>2, <3>3, Zenon DEF ForEachDataSet
    <3>5. Append(spDrawn, w) = [i \in 1 .. k + 1 |-> spSets[i - 1]]
      BY <1>0, <2>1, <2>2 DEF PlotInv
    <3>6. k + 1 \in 0 .. spCount
      BY <1>0, <2>1, <2>4 DEF PlotInv
    <3>7. spLoop'.iDS = k + 1
      BY <3>4
    <3> QED BY <2>2, <3>4, <3>5, <3>6, <3>7 DEF PlotInv
  <2>5. CASE ~(k < spCount /\ k < MaxSets)
    BY <1>5, <2>2, <2>3, <2>5 DEF ForEachDataSet, PlotInv
  <2> QED BY <2>4, <2>5
<1> QED BY <1>1, <1>2, <1>3, <1>4, <1>5 DEF SpNext

LEMMA PlotDraws == PlotInv => RedrawDrawsEach
BY DEF PlotInv, RedrawDrawsEach

-----------------------------------------------------------------------------
(* Pixels: a line between neighbouring columns ends where it should, for a   *)
(* slope of every sign and size.                                            *)

\* What is between two multiples is rounded down to the lower one.
LEMMA RoundedDown ==
  ASSUME NEW n \in Int, NEW m \in Nat \ {0}, NEW q \in Int, m * q <= n, n < m * q + m
  PROVE  n \div m = q
<1> DEFINE p == n \div m  r == n % m
<1>1. p \in Int /\ r \in 0 .. m - 1 /\ n = m * p + r
  OBVIOUS
<1> HIDE DEF p, r
<1>2. ASSUME p < q PROVE FALSE
  <2>1. p + 1 <= q
    BY <1>1, <1>2
  <2>2. m * (p + 1) <= m * q /\ m * (p + 1) = m * p + m
    BY <1>1, <2>1
  <2> QED BY <1>1, <2>2
<1>3. ASSUME p > q PROVE FALSE
  <2>1. q + 1 <= p
    BY <1>1, <1>3
  <2>2. m * (q + 1) <= m * p /\ m * (q + 1) = m * q + m
    BY <1>1, <2>1
  <2> QED BY <1>1, <2>2
<1> QED BY <1>1, <1>2, <1>3 DEF p

\* The line from a column to the next, or of one point, has its end in it.
LEMMA LineEnds ==
  ASSUME NEW x0 \in Int, NEW x1 \in 0 .. Columns - 1, NEW y0 \in Int, NEW y1 \in 0 .. Rows - 1,
         (x1 = x0 + 1) \/ (x1 = x0 /\ y1 = y0)
  PROVE  <<x1, y1>> \in sp_DrawLine(x0, y0, x1, y1)
<1> DEFINE d == y1 - y0  w == Extent(x1 - x0)  h == Extent(d)
<1>0. Columns \in Nat /\ Rows \in Nat /\ x1 \in Int /\ y1 \in Int
  BY SpAssumption
<1>1. d \in Int /\ h = (IF d < 0 THEN d - 1 ELSE d + 1) /\ h \in Int /\ h # 0
  BY <1>0 DEF Extent
<1>2. w = IF x1 = x0 THEN 1 ELSE 2
  BY <1>0 DEF Extent
<1>3. x1 \in Between(x0, x1) /\ y1 \in Between(y0, y1)
  BY <1>0 DEF Between
<1>4. <<x1, y1>>[1] \in 0 .. Columns - 1 /\ <<x1, y1>>[2] \in 0 .. Rows - 1
  OBVIOUS
<1>5. CASE sp_Abs(w) >= sp_Abs(h)
  <2>1. h \in {1, 2, -2} /\ (w = 1 => h = 1)
    BY <1>1, <1>2, <1>5 DEF sp_Abs
  <2>2. Along(w, h, x1 - x0) = y1 - y0
    <3>1. CASE x1 = x0
      <4>1. w = 1 /\ x1 - x0 = 0 /\ y1 - y0 = 0
        BY <1>0, <1>2, <3>1
      <4>2. Along(1, h, 0) = 0
        BY <1>1 DEF Along
      <4> QED BY <4>1, <4>2
    <3>2. CASE x1 # x0
      <4>1. w = 2 /\ x1 - x0 = 1
        BY <1>0, <1>2, <3>2
      <4>2. Along(2, h, 1) = h \div 2
        BY <1>1 DEF Along
      <4>3. h \div 2 = d
        <5>1. (h = 1 /\ d = 0) \/ (h = 2 /\ d = 1) \/ (h = -2 /\ d = -1)
          BY <1>1, <2>1
        <5>2. 1 \div 2 = 0 /\ 2 \div 2 = 1 /\ (-2) \div 2 = -1
          OBVIOUS
        <5> QED BY <5>1, <5>2
      <4> QED BY <4>1, <4>2, <4>3
    <3> QED BY <3>1, <3>2
  <2>3. y0 + Along(w, h, x1 - x0) = y1
    BY <1>0, <2>2
  <2> HIDE DEF w, h
  <2>4. <<x1, y1>> \in {<<x, y0 + Along(w, h, x - x0)>> : x \in Between(x0, x1)}
    BY <1>3, <2>3
  <2> QED BY <1>4, <1>5, <2>4, Zenon DEF sp_DrawLine, w, h
<1>6. CASE ~(sp_Abs(w) >= sp_Abs(h))
  <2>1. x1 = x0 + 1 /\ w = 2
    BY <1>0, <1>1, <1>2, <1>6 DEF sp_Abs
  <2>2. (d > 0 /\ d >= 2 /\ h = d + 1) \/ (d < 0 /\ d <= -2 /\ h = d - 1)
    BY <1>1, <1>6, <2>1 DEF sp_Abs
  <2>3. Along(h, w, y1 - y0) = 1
    <3>1. CASE d > 0
      <4>1. Along(h, 2, d) = 1
        <5> DEFINE m == d + 1  n == 2 * d
        <5>1. m \in Nat \ {0} /\ n \in Int /\ m * 1 <= n /\ n < m * 1 + m /\ h = m
          BY <1>1, <2>2, <3>1
        <5>2. n \div m = 1
          <6> HIDE DEF m, n
          <6> QED BY <5>1, RoundedDown
        <5> QED BY <5>1, <5>2 DEF Along
      <4> QED BY <2>1, <4>1
    <3>2. CASE d < 0
      <4>1. Along(h, 2, d) = 1
        <5> DEFINE m == -(d - 1)  n == -(2 * d)
        <5>1. m \in Nat \ {0} /\ n \in Int /\ m * 1 <= n /\ n < m * 1 + m /\ h = d - 1 /\ h < 0
          BY <1>1, <2>2, <3>2
        <5>2. n \div m = 1
          <6> HIDE DEF m, n
          <6> QED BY <5>1, RoundedDown
        <5> QED BY <5>1, <5>2 DEF Along
      <4> QED BY <2>1, <4>1
    <3> QED BY <2>2, <3>1, <3>2
  <2>4. x0 + Along(h, w, y1 - y0) = x1
    BY <1>0, <2>1, <2>3
  <2> HIDE DEF w, h, d
  <2>5. <<x1, y1>> \in {<<x0 + Along(h, w, y - y0), y>> : y \in Between(y0, y1)}
    BY <1>3, <2>4
  <2> QED BY <1>4, <1>6, <2>5, Zenon DEF sp_DrawLine, w, h, d
<1> QED BY <1>5, <1>6

\* A part of m times r is at most r.
LEMMA QuotientWithin ==
  ASSUME NEW n \in Nat, NEW m \in Nat \ {0}, NEW r \in Nat, n <= m * r
  PROVE  n \div m \in 0 .. r
<1> DEFINE p == n \div m  q == n % m
<1>1. p \in Int /\ q \in 0 .. m - 1 /\ n = m * p + q
  OBVIOUS
<1> HIDE DEF p, q
<1>2. ASSUME p < 0 PROVE FALSE
  <2>1. p + 1 <= 0
    BY <1>1, <1>2
  <2>2. m * (p + 1) <= 0 /\ m * (p + 1) = m * p + m
    BY <1>1, <2>1
  <2> QED BY <1>1, <2>2
<1>3. ASSUME p > r PROVE FALSE
  <2>1. r + 1 <= p
    BY <1>1, <1>3
  <2>2. m * (r + 1) <= m * p /\ m * (r + 1) = m * r + m
    BY <1>1, <2>1
  <2> QED BY <1>1, <2>2
<1> QED BY <1>1, <1>2, <1>3 DEF p

LEMMA PixelToValueRange ==
  ASSUME NEW p \in Int, NEW r \in Int, NEW max \in Nat
  PROVE  sp_PixelToValue(max, r, p) \in 0 .. max
<1>1. ASSUME 0 < p, p < r PROVE (p * max) \div r \in 0 .. max
  <2>1. p \in Nat /\ r \in Nat \ {0} /\ p <= r
    BY <1>1
  <2>2. p * max \in Nat /\ p * max <= r * max
    BY <2>1
  <2> QED BY <2>1, <2>2, QuotientWithin
<1> QED BY <1>1 DEF sp_PixelToValue

LEMMA CurvePixelRange ==
  ASSUME NEW curve \in Curves, NEW x \in Int, CurvePixel(curve, x) >= 0
  PROVE  CurvePixel(curve, x) \in 0 .. Rows - 1
<1> DEFINE p == sp_PixelToValue(XMax, Columns - 1, x)  v == curve.y[p]  r == Rows - 1
<1>0. /\ XMax \in Nat /\ Columns - 1 \in Int /\ YMax \in Nat \ {0} /\ Rows - 1 \in Nat
      /\ curve.y \in [0 .. XMax -> Int]
  BY SpAssumption
<1>1. p \in 0 .. XMax
  <2> QED BY <1>0, PixelToValueRange
<1> HIDE DEF p
<1>2. v \in Int
  BY <1>0, <1>1
<1>3. CurvePixel(curve, x) = IF v < 0 \/ v > YMax THEN -1 ELSE (v * r) \div YMax
  BY DEF CurvePixel, YPixel, sp_ValueToPixel, p
<1> HIDE DEF v, r
<1>4. ~(v < 0 \/ v > YMax)
  BY <1>3
<1>5. v \in Nat /\ v <= YMax /\ r \in Nat
  BY <1>0, <1>2, <1>4 DEF r
<1>6. v * r \in Nat /\ v * r <= YMax * r
  BY <1>0, <1>5
<1>7. (v * r) \div YMax \in 0 .. r
  BY <1>0, <1>5, <1>6, QuotientWithin
<1> QED BY <1>3, <1>4, <1>7 DEF r

\* A segment to a pixel in range shows that pixel.
LEMMA SegmentEnds ==
  ASSUME NEW x0 \in Int, NEW x \in 0 .. Columns - 1, NEW last, NEW this \in 0 .. Rows - 1,
         last >= 0 => last \in 0 .. Rows - 1 /\ ((x = x0 + 1) \/ (x = x0 /\ this = last))
  PROVE  <<x, this>> \in Segment(x0, last, x, this)
<1>1. ~(this < 0)
  BY SpAssumption
<1>2. CASE last >= 0
  <2>1. last \in Int
    BY <1>2, SpAssumption
  <2>2. <<x, this>> \in sp_DrawLine(x0, last, x, this)
    BY <1>2, <2>1, LineEnds
  <2> QED BY <1>1, <1>2, <2>2 DEF Segment
<1>3. CASE ~(last >= 0)
  BY <1>1, <1>3, Zenon DEF Segment
<1> QED BY <1>2, <1>3

LEMMA CurveCovers == PlotInv => CurveInEveryColumn
<1> SUFFICES ASSUME spCurve \in Curves, 0 <= spCurve.min /\ spCurve.max <= XMax,
                    NEW x \in 0 .. Columns - 1,
                    \A z \in 0 .. x : Answered(spCurve, z), CurvePixel(spCurve, x) >= 0
             PROVE  <<x, CurvePixel(spCurve, x)>> \in sp_ReDrawCallback(spCurve)
  BY DEF PlotInv, CurveInEveryColumn
<1> DEFINE fMinX == IF spCurve.min < 0 THEN spCurve.min ELSE 0
           fMaxX == IF spCurve.max > XMax THEN spCurve.max ELSE XMax
           start == sp_ValueToPixel(XMax, Columns - 1, fMinX)
           end == sp_ValueToPixel(XMax, Columns - 1, fMaxX)
           reached == {z \in start .. end : \A y \in start .. z : Answered(spCurve, y)}
           Pixel(z) == CurvePixel(spCurve, z)
           FromLast(z) == IF z = start THEN Segment(z, YPixel(spCurve, fMinX), z, Pixel(z))
                          ELSE Segment(z - 1, Pixel(z - 1), z, Pixel(z))
<1>0. /\ x \in Int /\ Columns \in Nat /\ Columns - 1 \in Nat /\ XMax \in Nat \ {0}
      /\ spCurve.min \in Int /\ spCurve.max \in Int
  BY SpAssumption
<1>1. fMinX = 0 /\ fMaxX = XMax
  BY <1>0
<1> HIDE DEF fMinX, fMaxX
<1>2. start = 0
  <2>1. ~(0 < 0 \/ 0 > XMax) /\ 0 * (Columns - 1) = 0 /\ 0 \div XMax = 0
    BY <1>0
  <2> QED BY <1>1, <2>1 DEF sp_ValueToPixel
<1>3. end = Columns - 1
  <2> DEFINE r == Columns - 1  n == XMax * r
  <2>1. ~(XMax < 0 \/ XMax > XMax)
    BY <1>0
  <2>2. r \in Int /\ n \in Int
    BY <1>0
  <2>3. XMax * r <= n /\ n < XMax * r + XMax
    <3> HIDE DEF r
    <3> QED BY <1>0, <2>2
  <2>4. n \div XMax = r
    <3> HIDE DEF n, r
    <3> QED BY <1>0, <2>2, <2>3, RoundedDown
  <2>5. end = n \div XMax
    <3> HIDE DEF r
    <3> QED BY <1>1, <2>1 DEF sp_ValueToPixel, r
  <2> QED BY <2>4, <2>5
<1> HIDE DEF start, end
<1>4. fMinX \in spCurve.known
  <2>1. sp_PixelToValue(XMax, Columns - 1, 0) = 0 /\ 0 \in 0 .. x
    BY <1>0 DEF sp_PixelToValue
  <2>2. Answered(spCurve, 0)
    BY <2>1
  <2> QED BY <1>1, <2>1, <2>2 DEF Answered
<1>5. x \in reached
  BY <1>2, <1>3
<1> HIDE DEF reached
<1>6. FromLast(x) \subseteq sp_ReDrawCallback(spCurve)
  <2>1. ~(start < 0 \/ end < 0 \/ fMinX \notin spCurve.known)
    BY <1>0, <1>2, <1>3, <1>4
  <2>2. FromLast(x) \subseteq UNION {FromLast(z) : z \in reached}
    <3> HIDE DEF FromLast
    <3> QED BY <1>5
  <2>3. UNION {FromLast(z) : z \in reached} \subseteq sp_ReDrawCallback(spCurve)
    BY <2>1, Zenon DEF sp_ReDrawCallback, start, end, reached, fMinX, fMaxX
  <2> QED BY <2>2, <2>3
<1>7. Pixel(x) \in 0 .. Rows - 1
  BY <1>0, CurvePixelRange
<1>8. <<x, Pixel(x)>> \in FromLast(x)
  <2>1. CASE x = start
    <3>1. YPixel(spCurve, fMinX) = Pixel(x)
      <4>1. sp_PixelToValue(XMax, Columns - 1, 0) = 0
        BY <1>0 DEF sp_PixelToValue
      <4> QED BY <1>1, <1>2, <2>1, <4>1 DEF CurvePixel
    <3>2. <<x, Pixel(x)>> \in Segment(x, Pixel(x), x, Pixel(x))
      <4> HIDE DEF Pixel
      <4> QED BY <1>0, <1>7, SegmentEnds
    <3> QED BY <2>1, <3>1, <3>2, Zenon
  <2>2. CASE x # start
    <3>1. x - 1 \in Int /\ x = (x - 1) + 1
      BY <1>0
    <3>2. Pixel(x - 1) >= 0 => Pixel(x - 1) \in 0 .. Rows - 1
      BY <3>1, CurvePixelRange
    <3>3. <<x, Pixel(x)>> \in Segment(x - 1, Pixel(x - 1), x, Pixel(x))
      <4> HIDE DEF Pixel
      <4> QED BY <1>7, <3>1, <3>2, SegmentEnds
    <3> QED BY <2>2, <3>3, Zenon
  <2> QED BY <2>1, <2>2
<1> QED BY <1>6, <1>8

-----------------------------------------------------------------------------
(* The interpolator: points with different x can be sorted, and a line       *)
(* between neighbours goes through both.                                    *)

Points == Int \X Int
Rising(q) == \A i, j \in 1 .. Len(q) : i < j => q[i][1] < q[j][1]
Apart(q) == \A i, j \in 1 .. Len(q) : q[i][1] = q[j][1] => i = j

LEMMA PointIs == \A v \in Points : v[1] \in Int /\ v[2] \in Int /\ v = <<v[1], v[2]>>
BY DEF Points

\* The first n points of r are those of q, by x.
SortedFrom(r, q, n) ==
  /\ \A i \in 1 .. n : r[i] \in Points /\ \E j \in 1 .. n : r[i] = q[j]
  /\ \A j \in 1 .. n : \E i \in 1 .. n : r[i] = q[j]
  /\ \A i, j \in 1 .. n : i < j => r[i][1] < r[j][1]

LEMMA SortingBuilds ==
  ASSUME NEW q \in Seq(Points), Apart(q)
  PROVE  \A n \in Nat : n <= Len(q) => \E r : SortedFrom(r, q, n)
<1> DEFINE S == {n \in Nat : n <= Len(q) => \E r : SortedFrom(r, q, n)}
<1>0. Len(q) \in Nat /\ \A i \in 1 .. Len(q) : q[i] \in Points
  OBVIOUS
<1>1. 0 \in S
  <2>1. SortedFrom(<<>>, q, 0)
    BY DEF SortedFrom
  <2> QED BY <2>1
<1>2. ASSUME NEW n \in Nat, n \in S, n + 1 <= Len(q)
      PROVE  \E s : SortedFrom(s, q, n + 1)
  <2>1. n <= Len(q)
    BY <1>0, <1>2
  <2>2. PICK r : SortedFrom(r, q, n)
    BY <1>2, <2>1
  <2> DEFINE p == q[n + 1]  B == {i \in 1 .. n : r[i][1] > p[1]}
  <2>3. p \in Points
    BY <1>0, <1>2
  <2>4. \A i \in 1 .. n : r[i] \in Points /\ r[i][1] # p[1]
    <3> SUFFICES ASSUME NEW i \in 1 .. n PROVE r[i] \in Points /\ r[i][1] # p[1]
      OBVIOUS
    <3>1. PICK j \in 1 .. n : r[i] = q[j]
      BY <2>2, Zenon DEF SortedFrom
    <3>2. j \in 1 .. Len(q) /\ n + 1 \in 1 .. Len(q) /\ j # n + 1
      BY <1>0, <1>2
    <3> QED BY <1>0, <3>1, <3>2 DEF Apart
  <2>0. p[1] \in Int /\ \A i \in 1 .. n : r[i][1] \in Int
    BY <2>3, <2>4, PointIs
  <2>5. PICK m \in 1 .. n + 1 : /\ \A i \in 1 .. n : i < m => r[i][1] < p[1]
                               /\ \A i \in 1 .. n : i >= m => p[1] < r[i][1]
    <3>1. CASE B = {}
      <4>1. \A i \in 1 .. n : ~(r[i][1] > p[1])
        BY <3>1
      <4>2. \A i \in 1 .. n : r[i][1] < p[1]
        BY <2>0, <2>4, <4>1
      <4> QED BY <4>2
    <3>2. CASE B # {}
      <4>1. PICK m \in B : \A k \in B : m <= k
        <5> B \subseteq Nat
          OBVIOUS
        <5> HIDE DEF B
        <5> QED BY <3>2, LeastNumber
      <4>2. m \in 1 .. n /\ r[m][1] > p[1]
        OBVIOUS
      <4>3. \A i \in 1 .. n : i < m => ~(r[i][1] > p[1])
        BY <4>1
      <4>4. \A i \in 1 .. n : i < m => r[i][1] < p[1]
        BY <2>0, <2>4, <4>3
      <4>5. ASSUME NEW i \in 1 .. n, i >= m PROVE p[1] < r[i][1]
        <5>1. i = m \/ r[m][1] < r[i][1]
          BY <2>2, <4>2, <4>5 DEF SortedFrom
        <5> QED BY <2>0, <4>2, <5>1
      <4>6. m \in 1 .. n + 1 /\ \A i \in 1 .. n : i >= m => p[1] < r[i][1]
        BY <4>2, <4>5
      <4> HIDE DEF p
      <4> QED BY <4>4, <4>6, Zenon
    <3> QED BY <3>1, <3>2
  <2> DEFINE s == [i \in 1 .. n + 1 |-> IF i < m THEN r[i] ELSE IF i = m THEN p ELSE r[i - 1]]
  <2>6. /\ \A i \in 1 .. n : i < m => s[i] = r[i]
        /\ s[m] = p
        /\ \A i \in 1 .. n : i >= m => s[i + 1] = r[i]
        /\ \A i \in 1 .. n + 1 : i > m => i - 1 \in 1 .. n /\ i - 1 >= m /\ s[i] = r[i - 1]
    OBVIOUS
  <2> HIDE DEF s, B
  <2>7. \A j \in 1 .. n + 1 : \E i \in 1 .. n + 1 : s[i] = q[j]
    <3> SUFFICES ASSUME NEW j \in 1 .. n + 1 PROVE \E i \in 1 .. n + 1 : s[i] = q[j]
      OBVIOUS
    <3>1. CASE j = n + 1
      BY <2>6, <3>1
    <3>2. CASE j # n + 1
      <4>1. j \in 1 .. n
        BY <3>2
      <4>2. PICK i \in 1 .. n : r[i] = q[j]
        BY <2>2, <4>1, Zenon DEF SortedFrom
      <4>3. CASE i < m
        <5>1. s[i] = q[j] /\ i \in 1 .. n + 1
          BY <2>6, <4>2, <4>3
        <5> QED BY <5>1
      <4>4. CASE ~(i < m)
        <5>1. s[i + 1] = q[j] /\ i + 1 \in 1 .. n + 1
          BY <2>6, <4>2, <4>4
        <5> QED BY <5>1
      <4> QED BY <4>3, <4>4
    <3> QED BY <3>1, <3>2
  <2>8. ASSUME NEW i \in 1 .. n + 1
        PROVE  \/ i = m /\ s[i] = p
               \/ \E k \in 1 .. n : s[i] = r[k] /\ ((i < m /\ k = i) \/ (i > m /\ k = i - 1 /\ k >= m))
    <3>1. CASE i < m
      <4>1. i \in 1 .. n /\ s[i] = r[i]
        BY <2>6, <3>1
      <4> QED BY <3>1, <4>1
    <3>2. CASE i > m
      <4>1. i - 1 \in 1 .. n /\ s[i] = r[i - 1] /\ i - 1 >= m
        BY <2>6, <3>2
      <4> QED BY <3>2, <4>1
    <3>3. CASE i = m
      BY <2>6, <3>3
    <3> QED BY <3>1, <3>2, <3>3
  <2>9. \A i \in 1 .. n + 1 : s[i] \in Points /\ \E j \in 1 .. n + 1 : s[i] = q[j]
    <3> SUFFICES ASSUME NEW i \in 1 .. n + 1 PROVE s[i] \in Points /\ \E j \in 1 .. n + 1 : s[i] = q[j]
      OBVIOUS
    <3>1. CASE s[i] = p
      BY <2>3, <3>1
    <3>2. ASSUME NEW k \in 1 .. n, s[i] = r[k] PROVE s[i] \in Points /\ \E j \in 1 .. n + 1 : s[i] = q[j]
      <4>1. PICK j \in 1 .. n : r[k] = q[j]
        BY <2>2, Zenon DEF SortedFrom
      <4>2. j \in 1 .. n + 1
        OBVIOUS
      <4> QED BY <2>4, <3>2, <4>1, <4>2
    <3> QED BY <2>8, <3>1, <3>2
  <2>10. \A i, j \in 1 .. n + 1 : i < j => s[i][1] < s[j][1]
    <3> SUFFICES ASSUME NEW i \in 1 .. n + 1, NEW j \in 1 .. n + 1, i < j PROVE s[i][1] < s[j][1]
      OBVIOUS
    <3>1. \A k, l \in 1 .. n : k < l => r[k][1] < r[l][1]
      BY <2>2 DEF SortedFrom
    <3>2. CASE i = m
      BY <2>5, <2>6, <3>2
    <3>3. CASE j = m
      BY <2>5, <2>6, <3>3
    <3>4. CASE i # m /\ j # m
      <4>1. PICK k \in 1 .. n : s[i] = r[k] /\ ((i < m /\ k = i) \/ (i > m /\ k = i - 1 /\ k >= m))
        BY <2>8, <3>4
      <4>2. PICK l \in 1 .. n : s[j] = r[l] /\ ((j < m /\ l = j) \/ (j > m /\ l = j - 1 /\ l >= m))
        BY <2>8, <3>4
      <4>3. k < l
        BY <4>1, <4>2
      <4> QED BY <3>1, <4>1, <4>2, <4>3
    <3> QED BY <3>2, <3>3, <3>4
  <2>11. SortedFrom(s, q, n + 1)
    BY <2>7, <2>9, <2>10, Zenon DEF SortedFrom
  <2> QED BY <2>11
<1>3. \A n \in Nat : n \in S
  <2>1. ASSUME NEW n \in Nat, n \in S PROVE n + 1 \in S
    BY <1>2, <2>1
  <2> HIDE DEF S
  <2> QED BY <1>1, <2>1, NumbersByInduction
<1> QED BY <1>3

\* Sorting keeps the points and leaves them in the order of their x.
LEMMA SortIs ==
  ASSUME NEW q \in Seq(Points), Apart(q)
  PROVE  LET r == sp_SortXYPoints(q)
         IN r \in Seq(Points) /\ Len(r) = Len(q) /\ Rising(r) /\ Range(r) = Range(q)
<1> DEFINE n == Len(q)
           IsByX(r) == Range(r) = Range(q) /\ \A i, j \in 1 .. n : i < j => r[i][1] < r[j][1]
<1>0. n \in Nat /\ q \in [1 .. n -> Points] /\ DOMAIN q = 1 .. n
  OBVIOUS
<1>1. PICK f : SortedFrom(f, q, n)
  BY <1>0, SortingBuilds
<1> DEFINE g == [i \in 1 .. n |-> f[i]]
<1>2. DOMAIN g = 1 .. n /\ \A i \in 1 .. n : g[i] = f[i]
  OBVIOUS
<1>3. Range(q) = {q[i] : i \in 1 .. n} /\ Range(g) = {g[i] : i \in 1 .. n}
  BY <1>0, <1>2, Zenon DEF Range
<1>4. Range(g) = Range(q) /\ \A i \in 1 .. n : g[i] \in Range(q)
  <2>1. /\ \A i \in 1 .. n : \E j \in 1 .. n : f[i] = q[j]
        /\ \A j \in 1 .. n : \E i \in 1 .. n : f[i] = q[j]
    BY <1>1, Zenon DEF SortedFrom
  <2> HIDE DEF g, n
  <2>2. \A i \in 1 .. n : g[i] \in Range(q)
    BY <1>2, <1>3, <2>1
  <2>3. \A j \in 1 .. n : q[j] \in Range(g)
    BY <1>2, <1>3, <2>1
  <2> QED BY <1>3, <2>2, <2>3
<1>5. g \in [1 .. n -> Range(q)]
  BY <1>4
<1>6. \A i, j \in 1 .. n : i < j => g[i][1] < g[j][1]
  <2> HIDE DEF n, g
  <2> QED BY <1>1, <1>2 DEF SortedFrom
<1>7. IsByX(g)
  BY <1>4, <1>6
<1> DEFINE r == CHOOSE s \in [1 .. n -> Range(q)] : IsByX(s)
<1>8. r \in [1 .. n -> Range(q)] /\ IsByX(r)
  <2> HIDE DEF g, n, IsByX
  <2> QED BY <1>5, <1>7, Zenon
<1>9. sp_SortXYPoints(q) = r
  BY Zenon DEF sp_SortXYPoints
<1> HIDE DEF r
<1>10. Range(q) \subseteq Points
  BY <1>0, <1>3
<1>11. r \in [1 .. n -> Points]
  BY <1>8, <1>10
<1>12. r \in Seq(Points) /\ Len(r) = n
  <2> HIDE DEF n
  <2> QED BY <1>0, <1>11
<1> QED BY <1>8, <1>9, <1>12 DEF Rising

Lines == Int \X Int \X Points
LineTo(q, i) == <<q[i + 1][2] - q[i][2], q[i + 1][1] - q[i][1], q[i]>>
InterpInv ==
  /\ liPoints \in Seq(Points) /\ Apart(liPoints)
  /\ liLines \in Seq(Lines) /\ Len(liLines) = Len(liPoints)
  /\ liFresh => Rising(liPoints) /\ \A i \in 1 .. Len(liPoints) - 1 : liLines[i] = LineTo(liPoints, i)

LEMMA InterpInitIs == LiInit => InterpInv
BY DEF LiInit, InterpInv, Apart

LEMMA RisingApart == ASSUME NEW q \in Seq(Points), Rising(q) PROVE Apart(q)
<1> SUFFICES ASSUME NEW i \in 1 .. Len(q), NEW j \in 1 .. Len(q), q[i][1] = q[j][1], i # j PROVE FALSE
  BY DEF Apart
<1>1. q[i][1] \in Int /\ q[j][1] \in Int
  <2>1. q[i] \in Points /\ q[j] \in Points
    OBVIOUS
  <2> QED BY <2>1, PointIs
<1>2. i < j \/ j < i
  OBVIOUS
<1>3. q[i][1] < q[j][1] \/ q[j][1] < q[i][1]
  BY <1>2 DEF Rising
<1> QED BY <1>1, <1>3

LEMMA InterpStep == InterpInv /\ (LiNext \/ UNCHANGED liVars) => InterpInv'
<1> SUFFICES ASSUME InterpInv, LiNext \/ UNCHANGED liVars PROVE InterpInv'
  OBVIOUS
<1>0. liPoints \in Seq(Points) /\ liLines \in Seq(Lines) /\ Len(liLines) = Len(liPoints) /\ Len(liPoints) \in Nat
  BY DEF InterpInv
<1>1. CASE UNCHANGED liVars
  BY <1>1 DEF InterpInv, liVars
<1>2. ASSUME NEW x \in PointXs, NEW y \in PointYs, SP_LinInterpAddPoint(x, y) PROVE InterpInv'
  <2> DEFINE p == <<x, y>>  n == Len(liPoints)  line == <<0, 1, <<0, 0>>>>
  <2>1. liPoints' = Append(liPoints, p) /\ liLines' = Append(liLines, line) /\ liFresh' = FALSE
    BY <1>2, Zenon DEF SP_LinInterpAddPoint
  <2>2. p \in Points /\ p[1] = x /\ line \in Lines
    BY LiAssumption DEF Points, Lines
  <2>3. x \notin {v[1] : v \in Range(liPoints)}
    BY <1>2, Zenon DEF SP_LinInterpAddPoint
  <2>4. \A i \in 1 .. n : liPoints[i][1] # x
    <3>1. DOMAIN liPoints = 1 .. n
      BY <1>0
    <3> QED BY <2>3, <3>1, Zenon DEF Range
  <2> HIDE DEF p, line
  <2>5. /\ liPoints' \in Seq(Points) /\ Len(liPoints') = n + 1
        /\ liLines' \in Seq(Lines) /\ Len(liLines') = n + 1
        /\ liPoints'[n + 1] = p /\ \A i \in 1 .. n : liPoints'[i] = liPoints[i]
    BY <1>0, <2>1, <2>2
  <2>6. Apart(liPoints')
    <3> SUFFICES ASSUME NEW i \in 1 .. n + 1, NEW j \in 1 .. n + 1, liPoints'[i][1] = liPoints'[j][1]
                 PROVE  i = j
      BY <2>5 DEF Apart
    <3>1. CASE i = n + 1 /\ j # n + 1
      <4>1. j \in 1 .. n
        BY <1>0, <3>1
      <4> QED BY <2>2, <2>4, <2>5, <3>1, <4>1
    <3>2. CASE i # n + 1 /\ j = n + 1
      <4>1. i \in 1 .. n
        BY <1>0, <3>2
      <4> QED BY <2>2, <2>4, <2>5, <3>2, <4>1
    <3>3. CASE i # n + 1 /\ j # n + 1
      <4>1. i \in 1 .. n /\ j \in 1 .. n
        BY <1>0, <3>3
      <4> QED BY <2>5, <3>3, <4>1 DEF InterpInv, Apart
    <3> QED BY <3>1, <3>2, <3>3
  <2> QED BY <2>1, <2>5, <2>6 DEF InterpInv
<1>3. CASE SP_LinInterpClearPoints
  <2>1. liPoints' = <<>> /\ liLines' = <<>> /\ liFresh' = FALSE
    BY <1>3 DEF SP_LinInterpClearPoints
  <2> QED BY <2>1 DEF InterpInv, Apart
<1>4. CASE SP_LinInterpRecalc
  <2> DEFINE q == sp_SortXYPoints(liPoints)  n == Len(q)
             f == [i \in 1 .. n |-> IF i = n THEN liLines[i] ELSE LineTo(q, i)]
  <2>1. liPoints' = q
    BY <1>4, Zenon DEF SP_LinInterpRecalc
  <2>2. liLines' = f
    BY <1>4, Zenon DEF SP_LinInterpRecalc, LineTo
  <2>3. q \in Seq(Points) /\ n = Len(liPoints) /\ Rising(q)
    BY SortIs DEF InterpInv
  <2>4. Apart(q)
    <3> HIDE DEF q
    <3> QED BY <2>3, RisingApart
  <2>5. n \in Nat /\ \A i \in 1 .. n : q[i] \in Points /\ q[i][1] \in Int /\ q[i][2] \in Int
    <3> HIDE DEF q
    <3> QED BY <2>3, PointIs
  <2> HIDE DEF q, n
  <2>6. \A i \in 1 .. n - 1 : LineTo(q, i) \in Lines
    <3> SUFFICES ASSUME NEW i \in 1 .. n - 1 PROVE LineTo(q, i) \in Lines
      OBVIOUS
    <3>1. i \in 1 .. n /\ i + 1 \in 1 .. n
      BY <2>5
    <3>2. q[i + 1][2] - q[i][2] \in Int /\ q[i + 1][1] - q[i][1] \in Int /\ q[i] \in Points
      BY <2>5, <3>1
    <3> QED BY <3>2, Zenon DEF LineTo, Lines
  <2>7. f \in [1 .. n -> Lines]
    BY <1>0, <2>3, <2>5, <2>6
  <2>8. \A i \in 1 .. n - 1 : f[i] = LineTo(q, i)
    BY <2>5
  <2> HIDE DEF f
  <2>9. f \in Seq(Lines) /\ Len(f) = n
    BY <2>5, <2>7
  <2> QED BY <2>1, <2>2, <2>3, <2>4, <2>8, <2>9 DEF InterpInv, n
<1> QED BY <1>1, <1>2, <1>3, <1>4 DEF LiNext

LEMMA DividedBack ==
  ASSUME NEW d \in Int, NEW m \in Nat \ {0}
  PROVE  (d * m) \div m = d /\ (d * 0) \div m = 0
<1>1. d * m \in Int /\ m * d <= d * m /\ d * m < m * d + m
  OBVIOUS
<1>2. (d * m) \div m = d
  <2> DEFINE n == d * m
  <2>1. n \in Int /\ m * d <= n /\ n < m * d + m
    BY <1>1
  <2> HIDE DEF n
  <2>2. n \div m = d
    BY <2>1, RoundedDown
  <2> QED BY <2>2 DEF n
<1>3. d * 0 = 0 /\ m * 0 <= 0 /\ 0 < m * 0 + m
  OBVIOUS
<1>4. 0 \div m = 0
  BY <1>3, RoundedDown
<1> QED BY <1>2, <1>3, <1>4

LEMMA InterpHits == InterpInv => InterpHitsPoints
<1> SUFFICES ASSUME InterpInv, liFresh, Len(liPoints) > 1, NEW p \in Range(liPoints)
             PROVE  SP_LinInterpInitGetYValue(p[1]) = {p[2]}
  BY DEF InterpHitsPoints
<1> DEFINE q == liPoints  n == Len(q)  x == p[1]
           around == {i \in 1 .. n - 1 : q[i][1] <= x /\ x <= q[i + 1][1]}
           first == CHOOSE j \in around : \A k \in around : j <= k
           value(i) == liLines[i][3][2] + (liLines[i][1] * (x - liLines[i][3][1])) \div liLines[i][2]
<1>0. n \in Nat /\ n > 1 /\ DOMAIN q = 1 .. n
  BY DEF InterpInv
<1>1. PICK j \in 1 .. n : p = q[j]
  BY <1>0, Zenon DEF Range
<1>2. \A i \in 1 .. n : q[i][1] \in Int /\ q[i][2] \in Int
  <2>1. \A i \in 1 .. n : q[i] \in Points
    BY DEF InterpInv
  <2> QED BY <2>1, PointIs
<1>3. \A i, k \in 1 .. n : i < k => q[i][1] < q[k][1]
  BY DEF InterpInv, Rising
<1>4. \A i \in 1 .. n - 1 : liLines[i] = LineTo(q, i)
  BY DEF InterpInv
<1> DEFINE h == IF j = 1 THEN 1 ELSE j - 1
<1>5. h \in 1 .. n - 1 /\ h \in 1 .. n /\ h + 1 \in 1 .. n /\ (j = h \/ j = h + 1)
  BY <1>0
<1> HIDE DEF q
<1>6. x = q[j][1] /\ x \in Int /\ p[2] = q[j][2]
  BY <1>1, <1>2
<1>7. h \in around
  <2>1. q[h][1] < q[h + 1][1]
    BY <1>3, <1>5
  <2>2. q[h][1] <= x /\ x <= q[h + 1][1]
    <3> HIDE DEF h
    <3> QED BY <1>2, <1>5, <1>6, <2>1
  <2> QED BY <1>5, <2>2
<1>8. ASSUME NEW k \in around PROVE h <= k
  <2>1. k \in 1 .. n - 1 /\ x <= q[k + 1][1]
    OBVIOUS
  <2>2. k + 1 \in 1 .. n
    BY <1>0, <2>1
  <2>3. ~(k + 1 < j)
    BY <1>2, <1>3, <1>6, <2>1, <2>2
  <2> QED BY <2>1, <2>3
<1>9. first = h
  <2>1. around \subseteq Int
    OBVIOUS
  <2> HIDE DEF around, h
  <2>2. first \in around /\ \A k \in around : first <= k
    <3>1. \E i \in around : \A k \in around : i <= k
      BY <1>7, <1>8
    <3> QED BY <3>1, Zenon
  <2> HIDE DEF first
  <2> QED BY <1>7, <1>8, <2>1, <2>2
<1>10. SP_LinInterpInitGetYValue(x) = {value(h)}
  <2>1. SP_LinInterpInitGetYValue(x) = IF around = {} THEN {} ELSE {value(first)}
    BY Zenon DEF SP_LinInterpInitGetYValue, q
  <2>2. around # {}
    BY <1>7
  <2> HIDE DEF around, first, h, value
  <2> QED BY <1>9, <2>1, <2>2
<1>11. value(h) = p[2]
  <2> DEFINE u == q[h]  v == q[h + 1]  dy == v[2] - u[2]  dx == v[1] - u[1]
  <2>1. u[1] \in Int /\ u[2] \in Int /\ v[1] \in Int /\ v[2] \in Int /\ u[1] < v[1]
    BY <1>2, <1>3, <1>5
  <2>2. liLines[h] = <<dy, dx, u>>
    BY <1>4, <1>5, Zenon DEF LineTo
  <2> HIDE DEF u, v
  <2>3. dy \in Int /\ dx \in Nat \ {0}
    BY <2>1
  <2>4. liLines[h][1] = dy /\ liLines[h][2] = dx /\ liLines[h][3] = u
    BY <2>2
  <2>5. value(h) = u[2] + (dy * (x - u[1])) \div dx
    BY <2>4, Zenon
  <2>6. (x = u[1] /\ p[2] = u[2]) \/ (x = v[1] /\ p[2] = v[2])
    <3>1. CASE j = h
      BY <1>6, <3>1 DEF u
    <3>2. CASE j = h + 1
      BY <1>6, <3>2 DEF v
    <3> QED BY <1>5, <3>1, <3>2
  <2>7. CASE x = u[1] /\ p[2] = u[2]
    <3>1. x - u[1] = 0
      BY <2>1, <2>7
    <3>2. (dy * 0) \div dx = 0
      <4> HIDE DEF dy, dx
      <4> QED BY <2>3, DividedBack
    <3> HIDE DEF value, dy, dx, h, x
    <3> QED BY <2>1, <2>5, <2>7, <3>1, <3>2
  <2>8. CASE x = v[1] /\ p[2] = v[2]
    <3>1. x - u[1] = dx
      BY <2>8
    <3>2. (dy * dx) \div dx = dy
      <4> HIDE DEF dy, dx
      <4> QED BY <2>3, DividedBack
    <3>3. u[2] + dy = v[2]
      BY <2>1
    <3> HIDE DEF value, dy, dx, h, x
    <3> QED BY <2>5, <2>8, <3>1, <3>2, <3>3
  <2> QED BY <2>6, <2>7, <2>8
<1> QED BY <1>10, <1>11

-----------------------------------------------------------------------------
(* Gridlines: the powers of a base, and the multiples of a unit.            *)

LEMMA PowersFollow ==
  ASSUME NEW base \in Nat
  PROVE  LET f == GdPower(base)
         IN /\ f[0] = 1 /\ \A n \in 1 .. GdExponents : f[n] = base * f[n - 1]
            /\ \A n \in 0 .. GdExponents : f[n] \in Nat
<1> DEFINE N == GdExponents
           X == Nat
           next(s) == base * s
           step == [p \in (1 .. N) \X X |-> next(p[2])]
<1>1. N \in Nat
  BY GdAssumption
<1>2. 1 \in X
  OBVIOUS
<1>3. ASSUME NEW s \in X PROVE next(s) \in X
  OBVIOUS
<1>4. step \in [(1 .. N) \X X -> X] /\ \A k \in 1 .. N, s \in X : step[<<k, s>>] = next(s)
  <2> HIDE DEF next, N, X
  <2> QED BY <1>3
<1>5. PICK f : Follows(f, X, 1, step, N)
  <2> HIDE DEF step, N, X
  <2> QED BY <1>1, <1>2, <1>4, Recursion
<1> DEFINE Is(g) == g = [k \in 0 .. N |-> IF k = 0 THEN 1 ELSE next(g[k - 1])]
<1>6. ASSUME NEW k \in 0 .. N PROVE f[k] = IF k = 0 THEN 1 ELSE next(f[k - 1])
  <2> HIDE DEF next, step, N, X
  <2>1. CASE k = 0
    BY <1>5, <2>1 DEF Follows
  <2>2. CASE k # 0
    <3>1. k \in 1 .. N /\ k - 1 \in 0 .. N
      BY <1>1, <2>2
    <3>2. f[k - 1] \in X /\ f[k] = step[<<k, f[k - 1]>>]
      BY <1>5, <3>1 DEF Follows
    <3> QED BY <1>4, <2>2, <3>1, <3>2
  <2> QED BY <2>1, <2>2
<1>7. Is(f)
  <2>1. f = [k \in 0 .. N |-> f[k]]
    BY <1>5 DEF Follows
  <2> HIDE DEF step, X, next, N
  <2> QED BY <1>6, <2>1, Zenon
<1> DEFINE power[n \in 0 .. N] == IF n = 0 THEN 1 ELSE base * power[n - 1]
<1>8. Is(power)
  <2>1. \E g : Is(g)
    BY <1>7
  <2> QED BY <2>1, Zenon
<1>9. GdPower(base) = power
  BY Zenon DEF GdPower
<1> HIDE DEF power
<1>10. \A k \in 0 .. N : power[k] = IF k = 0 THEN 1 ELSE next(power[k - 1])
  <2> HIDE DEF N, X, next
  <2> QED BY <1>8, Zenon
<1> HIDE DEF Is
<1>11. power[0] = 1 /\ \A k \in 1 .. N : power[k] = next(power[k - 1])
  <2> HIDE DEF N, X, next
  <2>1. 0 \in 0 .. N /\ \A k \in 1 .. N : k \in 0 .. N /\ k # 0
    BY <1>1
  <2>2. power[0] = 1
    BY <1>10, <2>1, Zenon
  <2>3. ASSUME NEW k \in 1 .. N PROVE power[k] = next(power[k - 1])
    BY <1>10, <2>1, Zenon
  <2> QED BY <2>2, <2>3
<1>12. \A k \in 0 .. N : power[k] \in X
  <2> HIDE DEF N, X, next
  <2>1. power[0] \in X
    BY <1>2, <1>11
  <2>2. \A k \in 1 .. N : power[k - 1] \in X => power[k] \in X
    BY <1>3, <1>11
  <2> QED BY <1>1, <2>1, <2>2, RecursionStays
<1> QED BY <1>9, <1>11, <1>12, Zenon

LEMMA PowersRise ==
  ASSUME NEW base \in Nat, base > 1
  PROVE  LET f == GdPower(base)
         IN \A n \in 0 .. GdExponents :
              f[n] \in Nat \ {0} /\ \A m \in 0 .. GdExponents : n < m => base * f[n] <= f[m]
<1> DEFINE f == GdPower(base)  E == GdExponents
           S == {m \in Nat : m <= E => f[m] \in Nat \ {0} /\ \A n \in 0 .. E : n < m => base * f[n] <= f[m]}
<1>0. E \in Nat
  BY GdAssumption
<1>1. f[0] = 1 /\ (\A n \in 1 .. E : f[n] = base * f[n - 1]) /\ \A n \in 0 .. E : f[n] \in Nat
  BY PowersFollow
<1> HIDE DEF f, E
<1>2. 0 \in S
  BY <1>1
<1>3. ASSUME NEW m \in Nat, m \in S PROVE m + 1 \in S
  <2> SUFFICES ASSUME m + 1 <= E
               PROVE  f[m + 1] \in Nat \ {0} /\ \A n \in 0 .. E : n < m + 1 => base * f[n] <= f[m + 1]
    OBVIOUS
  <2>1. m + 1 \in 1 .. E /\ m \in 0 .. E /\ m <= E
    BY <1>0
  <2>2. f[m + 1] = base * f[m] /\ f[m] \in Nat \ {0}
    <3>1. f[m + 1] = base * f[(m + 1) - 1] /\ (m + 1) - 1 = m
      BY <1>1, <2>1
    <3> QED BY <1>3, <2>1, <3>1
  <2>3. base * f[m] \in Nat \ {0} /\ f[m] <= base * f[m]
    BY <2>2
  <2>4. ASSUME NEW n \in 0 .. E, n < m + 1 PROVE base * f[n] <= f[m + 1]
    <3>1. CASE n = m
      BY <2>2, <2>3, <3>1
    <3>2. CASE n # m
      <4>1. n < m
        BY <2>4, <3>2
      <4>2. base * f[n] <= f[m]
        BY <1>3, <2>1, <4>1
      <4>3. base * f[n] \in Nat
        BY <1>1
      <4> HIDE DEF S
      <4> QED BY <2>2, <2>3, <4>2, <4>3
    <3> QED BY <3>1, <3>2
  <2> QED BY <2>2, <2>3, <2>4
<1>4. \A m \in Nat : m \in S
  <2> HIDE DEF S
  <2> QED BY <1>2, <1>3, NumbersByInduction
<1>5. \A m \in 0 .. E : f[m] \in Nat \ {0} /\ \A n \in 0 .. E : n < m => base * f[n] <= f[m]
  BY <1>0, <1>4
<1> HIDE DEF S
<1> QED BY <1>5 DEF f, E

\* Of the powers of a base: the next one is one too, as far as they go; less than the next
\* is not more; and there is a greatest one up to any number in their range.
LEMMA PowersAre ==
  ASSUME NEW base \in Nat, base > 1
  PROVE  /\ \A p \in GdPowers(base) : p \in Nat \ {0}
         /\ \A p \in GdPowers(base) : p < GdPower(base)[GdExponents] => p * base \in GdPowers(base)
         /\ \A p, q \in GdPowers(base) : p < q * base => p <= q
         /\ \A min \in Nat \ {0} : min < GdPower(base)[GdExponents] =>
              GdFloorPower(base, min) \in GdPowers(base) /\ GdFloorPower(base, min) <= min
<1> DEFINE f == GdPower(base)  E == GdExponents  P == GdPowers(base)
<1>0. E \in Nat
  BY GdAssumption
<1>1. (\A n \in 1 .. E : f[n] = base * f[n - 1]) /\ f[0] = 1
  BY PowersFollow
<1>2. /\ \A n \in 0 .. E : f[n] \in Nat \ {0}
      /\ \A n, m \in 0 .. E : n < m => base * f[n] <= f[m]
  BY PowersRise
<1>3. P = {f[n] : n \in 0 .. E}
  BY Zenon DEF GdPowers
<1> HIDE DEF f, E, P
<1>4. \A p \in P : p \in Nat \ {0}
  BY <1>2, <1>3
<1>5. ASSUME NEW p \in P, p < f[E] PROVE p * base \in P
  <2>1. PICK n \in 0 .. E : p = f[n]
    BY <1>3
  <2>2. n # E
    <3>1. f[E] \in Nat
      BY <1>0, <1>2
    <3> QED BY <1>5, <2>1, <3>1
  <2>3. n + 1 \in 1 .. E /\ n + 1 \in 0 .. E /\ (n + 1) - 1 = n
    BY <1>0, <2>2
  <2>4. f[n + 1] = base * f[n]
    BY <1>1, <2>3
  <2>5. f[n] \in Nat
    BY <1>2
  <2>6. p * base = f[n + 1]
    BY <2>1, <2>4, <2>5
  <2> QED BY <1>3, <2>3, <2>6
<1>6. ASSUME NEW p \in P, NEW q \in P, p < q * base PROVE p <= q
  <2>1. PICK n \in 0 .. E, m \in 0 .. E : p = f[n] /\ q = f[m]
    BY <1>3
  <2>2. p \in Nat /\ q \in Nat /\ q * base = base * q /\ q * base \in Nat
    BY <1>4
  <2>3. ~(m < n)
    <3>1. ASSUME m < n PROVE base * q <= p
      BY <1>2, <2>1, <3>1
    <3> QED BY <1>6, <2>2, <3>1
  <2>4. CASE n = m
    BY <2>1, <2>2, <2>4
  <2>5. CASE n < m
    <3>1. base * p <= q
      BY <1>2, <2>1, <2>5
    <3>2. p <= base * p /\ base * p \in Nat
      BY <2>2
    <3> QED BY <2>2, <3>1, <3>2
  <2> QED BY <2>3, <2>4, <2>5
<1>7. ASSUME NEW min \in Nat \ {0}, min < f[E]
      PROVE  GdFloorPower(base, min) \in P /\ GdFloorPower(base, min) <= min
  <2> DEFINE T == {n \in 0 .. E : f[n] <= min}
  <2>1. T \subseteq 0 .. E /\ 0 \in T
    BY <1>0, <1>1
  <2>2. PICK m \in T : \A k \in T : k <= m
    <3> HIDE DEF T
    <3>1. T # {}
      BY <2>1
    <3> QED BY <1>0, <2>1, <3>1, GreatestNumber
  <2>3. m \in 0 .. E /\ f[m] <= min /\ f[m] \in Nat /\ f[E] \in Nat
    BY <1>0, <1>2
  <2>4. m # E
    <3> HIDE DEF T
    <3> QED BY <1>7, <2>3
  <2>5. m + 1 \in 0 .. E /\ m + 1 \in 1 .. E /\ (m + 1) - 1 = m
    BY <1>0, <2>3, <2>4
  <2>6. f[m + 1] = base * f[m] /\ f[m + 1] \in Nat
    BY <1>1, <1>2, <2>5
  <2>7. ~(f[m + 1] <= min)
    <3>1. m + 1 \notin T
      BY <2>2, <2>3
    <3> QED BY <2>5, <3>1
  <2> HIDE DEF T
  <2>8. f[m] \in P /\ f[m] <= min /\ min < f[m] * base
    BY <1>3, <2>3, <2>6, <2>7
  <2>9. GdFloorPower(base, min) = CHOOSE p \in P : p <= min /\ min < p * base
    BY Zenon DEF GdFloorPower, P
  <2> QED BY <2>8, <2>9, Zenon
<1> QED BY <1>4, <1>5, <1>6, <1>7, Zenon DEF f, E, P

\* Multiples of a unit: each is one, and they are the unit apart.
LEMMA MultipleIs ==
  ASSUME NEW u \in Nat \ {0}, NEW k \in Int
  PROVE  (u * k) % u = 0 /\ (u * k) \div u = k
<1> DEFINE n == u * k
<1>1. n \in Int /\ u * k <= n /\ n < u * k + u
  OBVIOUS
<1>2. n \div u = k
  <2> HIDE DEF n
  <2> QED BY <1>1, RoundedDown
<1> DEFINE q == n \div u  r == n % u
<1>3. n = u * q + r /\ r \in Int
  <2>1. n \in Int
    BY <1>1
  <2> HIDE DEF n
  <2> QED BY <2>1
<1>4. n % u = 0
  <2>1. n = u * k /\ q = k
    BY <1>2
  <2>2. u * k \in Int
    BY <1>1
  <2> HIDE DEF n, q, r
  <2>3. r = 0
    BY <1>3, <2>1, <2>2
  <2> QED BY <2>3 DEF r
<1> QED BY <1>2, <1>4

LEMMA DividesExactly ==
  ASSUME NEW u \in Nat \ {0}, NEW v \in Int, v % u = 0
  PROVE  v \div u \in Int /\ v = u * (v \div u)
<1> DEFINE q == v \div u  r == v % u
<1>1. q \in Int /\ r \in Int /\ v = u * q + r /\ r = 0
  OBVIOUS
<1>2. q \in Int /\ v = u * q
  <2> HIDE DEF q, r
  <2>1. u * q \in Int
    BY <1>1
  <2> QED BY <1>1, <2>1
<1> QED BY <1>2 DEF q

LEMMA MultiplesApart ==
  ASSUME NEW u \in Nat \ {0}, NEW v \in Int, NEW w \in Int, v % u = 0, w % u = 0
  PROVE  /\ v < w + u => v <= w
         /\ (w + u) % u = 0
<1> DEFINE m == v \div u  n == w \div u
<1>1. m \in Int /\ n \in Int
  OBVIOUS
<1>2. v = u * m /\ w = u * n
  BY DividesExactly
<1> HIDE DEF m, n
<1>3. w + u = u * (n + 1)
  BY <1>1, <1>2
<1>4. (w + u) % u = 0
  <2>1. n + 1 \in Int
    BY <1>1
  <2> QED BY <1>3, <2>1, MultipleIs
<1>5. ASSUME v < w + u PROVE v <= w
  <2>1. ~(n + 1 <= m)
    <3>1. ASSUME n + 1 <= m PROVE u * (n + 1) <= u * m
      BY <1>1, <3>1
    <3> QED BY <1>1, <1>2, <1>3, <1>5, <3>1
  <2>2. m <= n
    BY <1>1, <2>1
  <2>3. u * m <= u * n
    BY <1>1, <2>2
  <2> QED BY <1>2, <2>3
<1> QED BY <1>4, <1>5

LEMMA FirstMultiple ==
  ASSUME NEW u \in Nat \ {0}, NEW min \in Int
  PROVE  LET first == u * CeilDiv(min, u)
         IN first \in Int /\ first % u = 0 /\ min <= first
            /\ \A v \in Int : v % u = 0 /\ min <= v => first <= v
<1> DEFINE q == (-min) \div u  r == (-min) % u  c == CeilDiv(min, u)  first == u * c
<1>1. q \in Int /\ r \in 0 .. u - 1 /\ -min = u * q + r
  OBVIOUS
<1>2. c = -q
  BY DEF CeilDiv
<1> HIDE DEF q, r, c
<1>3. c \in Int /\ first \in Int /\ first = -(u * q)
  BY <1>1, <1>2
<1>4. first = min + r
  BY <1>1, <1>3
<1>5. first % u = 0
  BY <1>3, MultipleIs
<1>6. min <= first /\ first < min + u
  BY <1>1, <1>4
<1> HIDE DEF first
<1>7. ASSUME NEW v \in Int, v % u = 0, min <= v PROVE first <= v
  <2>1. first < v + u
    BY <1>3, <1>6, <1>7
  <2> QED BY <1>3, <1>5, <1>7, <2>1, MultiplesApart
<1> QED BY <1>3, <1>5, <1>6, <1>7 DEF first, c

\* The minor unit below the next power: its parts make up that power.
LEMMA MinorIs ==
  ASSUME NEW u \in Nat \ {0}, u % GdParts = 0, NEW p \in Nat \ {0}
  PROVE  LET c == (p * u) \div GdParts IN c \in Nat \ {0} /\ GdParts * c = p * u /\ p <= c
<1> DEFINE e == u \div GdParts  c == (p * u) \div GdParts
<1>0. GdParts \in Nat \ {0}
  BY GdAssumption
<1>1. e \in Int /\ u \in Int
  BY <1>0
<1>2. u = GdParts * e
  BY <1>0, <1>1, DividesExactly
<1> HIDE DEF e
<1>3. e \in Nat \ {0}
  <2>1. ~(e <= 0)
    <3>1. ASSUME e <= 0 PROVE GdParts * e <= 0
      BY <1>0, <1>1, <3>1
    <3> QED BY <1>2, <3>1
  <2> QED BY <1>1, <2>1
<1>4. p * u = GdParts * (p * e) /\ p * e \in Int
  BY <1>0, <1>2, <1>3
<1>5. c = p * e
  <2> DEFINE k == p * e
  <2>1. p * u = GdParts * k /\ k \in Int
    BY <1>4
  <2> HIDE DEF k
  <2>2. (GdParts * k) \div GdParts = k
    BY <1>0, <2>1, MultipleIs
  <2> QED BY <2>1, <2>2 DEF k
<1>6. p * e \in Nat \ {0} /\ p <= p * e
  BY <1>3
<1> HIDE DEF c
<1> QED BY <1>4, <1>5, <1>6 DEF c

-----------------------------------------------------------------------------
(* Gridlines: what has been drawn is what there is before the next value.   *)

GdAxisInv ==
  /\ gdLog \in BOOLEAN /\ gdMinor \in BOOLEAN /\ gdUnit \in Nat \ {0}
  /\ gdMin \in Int /\ gdMax \in Int /\ gdMin < gdMax
  /\ gdLog => gdMin >= 1 /\ gdUnit > 1 /\ gdUnit % GdParts = 0
              /\ gdMax < GdPower(gdUnit)[GdExponents]
LinearTo(v) == {w \in gdMin .. gdMax - 1 : w % gdUnit = 0 /\ w < v}
MajorsTo(v) == {p \in GdPowers(gdUnit) : gdMin <= p /\ p <= gdMax /\ p < v}
MinorOf(p) == (p * gdUnit) \div GdParts
MinorsTo(v) ==
  \A p \in GdPowers(gdUnit), k \in 1 .. GdParts - 1 :
    p < v /\ gdMin <= k * MinorOf(p) => k * MinorOf(p) \in gdLines
GridInv ==
  /\ GdAxisInv
  /\ gdAt = "start" => gdLines = {}
  /\ gdAt = "linear" => ~gdLog /\ gdValue \in Int /\ gdMin <= gdValue /\ gdValue % gdUnit = 0
                        /\ gdLines = LinearTo(gdValue)
  /\ gdAt \in {"find", "major"} => gdLog /\ ~gdMinor /\ gdMajor \in GdPowers(gdUnit)
  /\ gdAt = "find" => gdLines = {} /\ \A p \in GdPowers(gdUnit) : p < gdMajor => p < gdMin
  /\ gdAt = "major" => gdMin <= gdMajor /\ gdLines = MajorsTo(gdMajor)
  /\ gdAt \in {"minors", "minor"} =>
       gdLog /\ gdMinor /\ gdMajor \in GdPowers(gdUnit) /\ MinorsTo(gdMajor)
  /\ gdAt = "minor" =>
       gdMajor <= gdMax /\ \E j \in Nat \ {0} : gdValue = j * MinorOf(gdMajor)
                             /\ \A k \in 1 .. GdParts - 1 : k < j => k * MinorOf(gdMajor) \in gdLines
  /\ GridLinesRight

LEMMA GridInitIs == GdInit => GridInv
<1> SUFFICES ASSUME GdInit PROVE GridInv
  OBVIOUS
<1>1. gdAt = "start" /\ gdLines = {}
  BY DEF GdInit
<1>2. gdUnit \in GdUnits /\ gdMin \in GdLimits /\ gdMax \in GdLimits
  BY DEF GdInit
<1>3. gdLog => gdMax < GdPower(gdUnit)[GdExponents]
  BY <1>2, GdAssumption, Zenon DEF GdInit
<1>4. gdUnit \in Nat \ {0} /\ gdMin \in Int /\ gdMax \in Int
  BY <1>2, GdAssumption
<1>5. GdAxisInv
  BY <1>3, <1>4, Zenon DEF GdInit, GdAxisInv
<1> QED BY <1>1, <1>5 DEF GridInv, GridLinesRight

LEMMA AxisPowers ==
  ASSUME GdAxisInv, gdLog
  PROVE  /\ \A p \in GdPowers(gdUnit) : p \in Nat \ {0}
         /\ \A p \in GdPowers(gdUnit) : p <= gdMax => p * gdUnit \in GdPowers(gdUnit)
         /\ \A p, q \in GdPowers(gdUnit) : p < q * gdUnit => p <= q
         /\ GdFloorPower(gdUnit, gdMin) \in GdPowers(gdUnit) /\ GdFloorPower(gdUnit, gdMin) <= gdMin
<1> DEFINE P == GdPowers(gdUnit)  top == GdPower(gdUnit)[GdExponents]
<1>1. /\ gdUnit \in Nat /\ gdUnit > 1 /\ gdMin \in Nat \ {0} /\ gdMax \in Int
      /\ gdMin < gdMax /\ gdMax < top
  BY DEF GdAxisInv
<1>2. top \in Nat
  BY <1>1, PowersRise, GdAssumption
<1>3. gdMin < top
  <2> HIDE DEF top
  <2> QED BY <1>1, <1>2
<1>4. /\ \A p \in P : p \in Nat \ {0}
      /\ \A p \in P : p < top => p * gdUnit \in P
      /\ \A p, q \in P : p < q * gdUnit => p <= q
      /\ \A min \in Nat \ {0} : min < top =>
           GdFloorPower(gdUnit, min) \in P /\ GdFloorPower(gdUnit, min) <= min
  BY <1>1, PowersAre
<1> HIDE DEF P, top
<1>5. \A p \in P : p <= gdMax => p * gdUnit \in P
  BY <1>1, <1>2, <1>4
<1> QED BY <1>1, <1>3, <1>4, <1>5, Zenon DEF P

LEMMA MinorOfIs ==
  ASSUME GdAxisInv, gdLog, NEW p \in GdPowers(gdUnit)
  PROVE  MinorOf(p) \in Nat \ {0} /\ GdParts * MinorOf(p) = p * gdUnit /\ p <= MinorOf(p)
<1>1. p \in Nat \ {0}
  BY AxisPowers
<1> QED BY <1>1, MinorIs DEF MinorOf, GdAxisInv

\* The axis stays, and with it what depends on it alone.
LEMMA GridAxisStays ==
  ASSUME GridInv, UNCHANGED gdAxis
  PROVE  /\ GdAxisInv' /\ gdUnit' = gdUnit /\ gdMin' = gdMin /\ gdMax' = gdMax
         /\ gdLog' = gdLog /\ gdMinor' = gdMinor
BY DEF gdAxis, GridInv, GdAxisInv

LEMMA GridStartStep == ASSUME GridInv, GridStart PROVE GridInv'
<1>1. gdAt = "start" /\ gdLines = {} /\ gdLines' = {} /\ UNCHANGED gdAxis /\ GdAxisInv
  BY DEF GridStart, GridInv
<1>2. /\ GdAxisInv' /\ gdUnit' = gdUnit /\ gdMin' = gdMin /\ gdMax' = gdMax
      /\ gdLog' = gdLog /\ gdMinor' = gdMinor
  BY <1>1, GridAxisStays
<1>3. CASE ~gdLog
  <2> DEFINE first == gdUnit * CeilDiv(gdMin, gdUnit)
  <2>1. gdAt' = "linear" /\ gdValue' = first
    BY <1>3, Zenon DEF GridStart
  <2>2. /\ first \in Int /\ first % gdUnit = 0 /\ gdMin <= first
        /\ \A v \in Int : v % gdUnit = 0 /\ gdMin <= v => first <= v
    BY <1>1, FirstMultiple DEF GdAxisInv
  <2> HIDE DEF first
  <2>3. LinearTo(first) = {}
    BY <1>1, <2>2 DEF LinearTo, GdAxisInv
  <2>4. LinearTo(gdValue)' = LinearTo(first)
    BY <1>2, <2>1 DEF LinearTo
  <2>5. /\ gdValue' \in Int /\ gdMin' <= gdValue' /\ gdValue' % gdUnit' = 0
        /\ gdLines' = LinearTo(gdValue)'
    BY <1>1, <1>2, <2>1, <2>2, <2>3, <2>4
  <2> QED BY <1>2, <1>3, <2>1, <2>5 DEF GridInv, GridLinesRight
<1>4. CASE gdLog
  <2> DEFINE P == GdPowers(gdUnit)  low == GdFloorPower(gdUnit, gdMin)
  <2>1. gdAt' = (IF gdMinor THEN "minors" ELSE "find") /\ gdMajor' = low
    BY <1>4, Zenon DEF GridStart
  <2>2. /\ \A p \in P : p \in Nat \ {0}
        /\ \A p, q \in P : p < q * gdUnit => p <= q
        /\ low \in P /\ low <= gdMin
    BY <1>1, <1>4, AxisPowers
  <2>3. gdMajor' \in GdPowers(gdUnit)'
    BY <1>2, <2>1, <2>2
  <2>4. \A p \in P : p < low => p < gdMin
    <3> HIDE DEF P, low
    <3> QED BY <1>1, <2>2 DEF GdAxisInv
  <2>5. MinorsTo(low)
    <3> SUFFICES ASSUME NEW p \in P, NEW k \in 1 .. GdParts - 1, p < low, gdMin <= k * MinorOf(p)
                 PROVE  FALSE
      BY DEF MinorsTo
    <3> DEFINE c == MinorOf(p)
    <3>1. c \in Nat \ {0} /\ GdParts * c = p * gdUnit
      BY <1>1, <1>4, MinorOfIs
    <3>2. GdParts \in Nat \ {0} /\ gdUnit \in Nat /\ gdMin \in Int
      BY <1>1, GdAssumption DEF GdAxisInv
    <3> HIDE DEF c
    <3>3. k * c < GdParts * c
      BY <3>1, <3>2
    <3>4. ~(low <= p)
      <4> HIDE DEF P, low
      <4> QED BY <2>2
    <3>5. ~(low < p * gdUnit)
      <4> HIDE DEF low
      <4> QED BY <2>2, <3>4, Zenon
    <3>6. p * gdUnit <= low /\ low \in Nat /\ p * gdUnit \in Nat /\ gdMin <= k * c /\ k * c \in Nat
      <4>1. gdMin <= k * c
        BY DEF c
      <4> HIDE DEF P, low
      <4> QED BY <2>2, <3>1, <3>2, <3>5, <4>1
    <3> HIDE DEF P, low
    <3> QED BY <2>2, <3>1, <3>2, <3>3, <3>6
  <2> HIDE DEF P, low
  <2>6. MinorsTo(gdMajor)'
    <3>1. \A p : MinorOf(p)' = MinorOf(p)
      BY <1>2 DEF MinorOf
    <3> QED BY <1>1, <1>2, <2>1, <2>5, <3>1 DEF MinorsTo
  <2>7. CASE gdMinor
    BY <1>2, <1>4, <2>1, <2>3, <2>6, <2>7 DEF GridInv, GridLinesRight
  <2>8. CASE ~gdMinor
    <3>1. \A p \in GdPowers(gdUnit)' : p < gdMajor' => p < gdMin'
      BY <1>2, <2>1, <2>4 DEF P
    <3> QED BY <1>1, <1>2, <1>4, <2>1, <2>3, <2>8, <3>1 DEF GridInv, GridLinesRight
  <2> QED BY <2>7, <2>8
<1> QED BY <1>3, <1>4

LEMMA GridLinearStep == ASSUME GridInv, GridLinear PROVE GridInv'
<1>1. gdAt = "linear" /\ UNCHANGED <<gdAxis, gdMajor>> /\ GdAxisInv
  BY DEF GridLinear, GridInv
<1>2. /\ GdAxisInv' /\ gdUnit' = gdUnit /\ gdMin' = gdMin /\ gdMax' = gdMax
      /\ gdLog' = gdLog /\ gdMinor' = gdMinor
  BY <1>1, GridAxisStays
<1>3. /\ ~gdLog /\ gdValue \in Int /\ gdMin <= gdValue /\ gdValue % gdUnit = 0
      /\ gdLines = LinearTo(gdValue)
  BY <1>1 DEF GridInv
<1>4. gdUnit \in Nat \ {0} /\ gdMin \in Int /\ gdMax \in Int
  BY <1>1 DEF GdAxisInv
<1>5. CASE gdValue < gdMax
  <2> DEFINE next == gdValue + gdUnit
  <2>1. gdLines' = gdLines \cup {gdValue} /\ gdValue' = next /\ gdAt' = "linear"
    BY <1>1, <1>5, Zenon DEF GridLinear
  <2>2. next \in Int /\ gdMin <= next /\ gdValue < next
    BY <1>3, <1>4
  <2>3. next % gdUnit = 0 /\ \A v \in Int : v % gdUnit = 0 /\ v < next => v <= gdValue
    BY <1>3, <1>4, MultiplesApart
  <2> HIDE DEF next
  <2>4. gdLines \cup {gdValue} = LinearTo(next)
    <3>1. gdValue \in LinearTo(next)
      BY <1>3, <1>4, <1>5, <2>2 DEF LinearTo
    <3>2. ASSUME NEW v \in LinearTo(gdValue) PROVE v \in LinearTo(next)
      BY <1>3, <1>4, <2>2 DEF LinearTo
    <3>3. ASSUME NEW v \in LinearTo(next) PROVE v = gdValue \/ v \in LinearTo(gdValue)
      <4>1. v \in gdMin .. gdMax - 1 /\ v % gdUnit = 0 /\ v < next
        BY DEF LinearTo
      <4>2. v <= gdValue
        BY <2>3, <4>1
      <4> QED BY <1>3, <4>1, <4>2 DEF LinearTo
    <3> QED BY <1>3, <3>1, <3>2, <3>3
  <2>5. LinearTo(gdValue)' = LinearTo(next)
    BY <1>2, <2>1 DEF LinearTo
  <2>6. /\ gdValue' \in Int /\ gdMin' <= gdValue' /\ gdValue' % gdUnit' = 0
        /\ gdLines' = LinearTo(gdValue)'
    BY <1>2, <2>1, <2>2, <2>3, <2>4, <2>5
  <2> QED BY <1>2, <1>3, <2>1, <2>6 DEF GridInv, GridLinesRight
<1>6. CASE ~(gdValue < gdMax)
  <2>1. gdLines' = gdLines /\ gdAt' = "done"
    BY <1>1, <1>6, Zenon DEF GridLinear
  <2>2. LinearTo(gdValue) = {v \in gdMin .. gdMax - 1 : v % gdUnit = 0}
    BY <1>3, <1>4, <1>6 DEF LinearTo
  <2>3. gdLines' = {v \in gdMin' .. gdMax' - 1 : v % gdUnit' = 0}
    BY <1>2, <1>3, <2>1, <2>2
  <2> QED BY <1>2, <1>3, <2>1, <2>3 DEF GridInv, GridLinesRight
<1> QED BY <1>5, <1>6

LEMMA GridFindStep == ASSUME GridInv, GridMajorFind PROVE GridInv'
<1> DEFINE P == GdPowers(gdUnit)
<1>1. /\ gdAt = "find" /\ UNCHANGED gdAxis /\ GdAxisInv /\ gdLines = {} /\ gdLines' = {}
      /\ gdLog /\ ~gdMinor /\ gdMajor \in P /\ \A p \in P : p < gdMajor => p < gdMin
  BY DEF GridMajorFind, GridInv
<1>2. /\ GdAxisInv' /\ gdUnit' = gdUnit /\ gdMin' = gdMin /\ gdMax' = gdMax
      /\ gdLog' = gdLog /\ gdMinor' = gdMinor
  BY <1>1, GridAxisStays
<1>3. /\ \A p \in P : p \in Nat \ {0}
      /\ \A p \in P : p <= gdMax => p * gdUnit \in P
      /\ \A p, q \in P : p < q * gdUnit => p <= q
  BY <1>1, AxisPowers
<1>4. gdMin \in Int /\ gdMax \in Int /\ gdMin < gdMax
  BY <1>1 DEF GdAxisInv
<1> HIDE DEF P
<1>5. CASE gdMajor < gdMin
  <2>1. gdMajor' = gdMajor * gdUnit /\ gdAt' = "find"
    BY <1>1, <1>5, Zenon DEF GridMajorFind
  <2>2. gdMajor * gdUnit \in P
    BY <1>1, <1>3, <1>4, <1>5
  <2>3. ASSUME NEW p \in P, p < gdMajor * gdUnit PROVE p < gdMin
    BY <1>1, <1>3, <1>4, <1>5, <2>3
  <2>4. gdMajor' \in GdPowers(gdUnit)' /\ \A p \in GdPowers(gdUnit)' : p < gdMajor' => p < gdMin'
    BY <1>2, <2>1, <2>2, <2>3 DEF P
  <2> QED BY <1>1, <1>2, <2>1, <2>4 DEF GridInv, GridLinesRight
<1>6. CASE ~(gdMajor < gdMin)
  <2>1. gdMajor' = gdMajor /\ gdAt' = "major"
    BY <1>1, <1>6, Zenon DEF GridMajorFind
  <2>2. MajorsTo(gdMajor) = {}
    BY <1>1, <1>3, <1>4 DEF MajorsTo, P
  <2>3. MajorsTo(gdMajor)' = MajorsTo(gdMajor)
    BY <1>2, <2>1 DEF MajorsTo
  <2>4. gdMajor' \in GdPowers(gdUnit)' /\ gdLines' = MajorsTo(gdMajor)' /\ gdMin' <= gdMajor'
    <3>1. gdMin <= gdMajor
      BY <1>1, <1>3, <1>4, <1>6
    <3> QED BY <1>1, <1>2, <2>1, <2>2, <2>3, <3>1 DEF P
  <2> QED BY <1>1, <1>2, <2>1, <2>4 DEF GridInv, GridLinesRight
<1> QED BY <1>5, <1>6

LEMMA GridMajorStep == ASSUME GridInv, GridMajor PROVE GridInv'
<1> DEFINE P == GdPowers(gdUnit)
<1>1. /\ gdAt = "major" /\ UNCHANGED gdAxis /\ GdAxisInv /\ gdLines = MajorsTo(gdMajor)
      /\ gdLog /\ ~gdMinor /\ gdMajor \in P /\ gdMin <= gdMajor
  BY DEF GridMajor, GridInv
<1>2. /\ GdAxisInv' /\ gdUnit' = gdUnit /\ gdMin' = gdMin /\ gdMax' = gdMax
      /\ gdLog' = gdLog /\ gdMinor' = gdMinor
  BY <1>1, GridAxisStays
<1>3. /\ \A p \in P : p \in Nat \ {0}
      /\ \A p \in P : p <= gdMax => p * gdUnit \in P
      /\ \A p, q \in P : p < q * gdUnit => p <= q
  BY <1>1, AxisPowers
<1>4. gdMin \in Int /\ gdMax \in Int /\ gdMin < gdMax /\ gdUnit \in Nat /\ gdUnit > 1
  BY <1>1 DEF GdAxisInv
<1>5. \A v : MajorsTo(v) = {p \in P : gdMin <= p /\ p <= gdMax /\ p < v}
  BY DEF MajorsTo
<1> HIDE DEF P
<1>6. CASE gdMajor <= gdMax
  <2> DEFINE next == gdMajor * gdUnit
  <2>1. gdMajor' = next /\ gdAt' = "major" /\ gdLines' = gdLines \cup {gdMajor}
    BY <1>1, <1>6, Zenon DEF GridMajor
  <2>2. next \in P /\ gdMajor < next
    <3>1. gdMajor \in Nat \ {0}
      BY <1>1, <1>3
    <3>2. gdMajor < gdMajor * gdUnit
      BY <1>4, <3>1
    <3> QED BY <1>1, <1>3, <1>6, <3>2
  <2>3. \A p \in P : p < next => p <= gdMajor
    BY <1>1, <1>3
  <2> HIDE DEF next
  <2>4. gdLines \cup {gdMajor} = MajorsTo(next)
    BY <1>1, <1>3, <1>4, <1>5, <1>6, <2>2, <2>3
  <2>5. MajorsTo(gdMajor)' = MajorsTo(next)
    BY <1>2, <2>1 DEF MajorsTo
  <2>6. gdMajor' \in GdPowers(gdUnit)' /\ gdLines' = MajorsTo(gdMajor)' /\ gdMin' <= gdMajor'
    <3>1. gdMin <= next
      BY <1>1, <1>3, <1>4, <2>2
    <3> QED BY <1>2, <2>1, <2>2, <2>4, <2>5, <3>1 DEF P
  <2> QED BY <1>1, <1>2, <2>1, <2>6 DEF GridInv, GridLinesRight
<1>7. CASE ~(gdMajor <= gdMax)
  <2>1. gdAt' = "done" /\ gdLines' = gdLines
    BY <1>1, <1>7, Zenon DEF GridMajor
  <2>2. MajorsTo(gdMajor) = P \cap (gdMin .. gdMax)
    BY <1>1, <1>3, <1>4, <1>5, <1>7
  <2>3. gdLines' = GdPowers(gdUnit') \cap (gdMin' .. gdMax')
    BY <1>1, <1>2, <2>1, <2>2 DEF P
  <2> QED BY <1>1, <1>2, <2>1, <2>3 DEF GridInv, GridLinesRight
<1> QED BY <1>6, <1>7

LEMMA GridMinorsStep == ASSUME GridInv, GridMinors PROVE GridInv'
<1> DEFINE P == GdPowers(gdUnit)  c == MinorOf(gdMajor)
<1>1. /\ gdAt = "minors" /\ UNCHANGED gdAxis /\ GdAxisInv
      /\ gdMajor' = gdMajor /\ gdLines' = gdLines
      /\ gdLog /\ gdMinor /\ gdMajor \in P /\ MinorsTo(gdMajor)
  BY DEF GridMinors, GridInv
<1>2. /\ GdAxisInv' /\ gdUnit' = gdUnit /\ gdMin' = gdMin /\ gdMax' = gdMax
      /\ gdLog' = gdLog /\ gdMinor' = gdMinor
  BY <1>1, GridAxisStays
<1>3. /\ \A p \in P : p \in Nat \ {0} /\ MinorOf(p) \in Nat \ {0} /\ p <= MinorOf(p)
  BY <1>1, AxisPowers, MinorOfIs
<1>4. gdMin \in Int /\ gdMax \in Int /\ GdParts \in Nat \ {0}
  BY <1>1, GdAssumption DEF GdAxisInv
<1>5. MinorsTo(gdMajor)' /\ gdMajor' \in GdPowers(gdUnit)'
  <2>1. \A p : MinorOf(p)' = MinorOf(p)
    BY <1>2 DEF MinorOf
  <2> QED BY <1>1, <1>2, <2>1 DEF MinorsTo
<1>6. CASE gdMajor <= gdMax
  <2>1. gdAt' = "minor" /\ gdValue' = c
    BY <1>1, <1>6, Zenon DEF GridMinors, MinorUnit, MinorOf
  <2>2. c \in Nat \ {0} /\ MinorOf(gdMajor)' = c
    BY <1>1, <1>2, <1>3 DEF MinorOf
  <2>3. \E j \in Nat \ {0} : gdValue' = j * MinorOf(gdMajor)'
          /\ \A k \in 1 .. GdParts - 1 : k < j => k * MinorOf(gdMajor)' \in gdLines'
    <3> HIDE DEF c
    <3>1. gdValue' = 1 * MinorOf(gdMajor)' /\ \A k \in 1 .. GdParts - 1 : ~(k < 1)
      BY <2>1, <2>2
    <3>2. 1 \in Nat \ {0}
      OBVIOUS
    <3> QED BY <3>1, <3>2, Zenon
  <2>4. (\E j \in Nat \ {0} : gdValue = j * MinorOf(gdMajor)
          /\ \A k \in 1 .. GdParts - 1 : k < j => k * MinorOf(gdMajor) \in gdLines)'
    BY <2>3
  <2>5. gdMajor' <= gdMax'
    BY <1>1, <1>2, <1>6
  <2>6. gdLog' /\ gdMinor' /\ gdMajor' \in GdPowers(gdUnit)' /\ MinorsTo(gdMajor)'
    BY <1>1, <1>2, <1>5
  <2>7. GridLinesRight'
    BY <2>1 DEF GridLinesRight
  <2> HIDE DEF c
  <2> QED BY <1>2, <2>1, <2>4, <2>5, <2>6, <2>7 DEF GridInv
<1>7. CASE ~(gdMajor <= gdMax)
  <2>1. gdAt' = "done"
    BY <1>1, <1>7, Zenon DEF GridMinors
  <2>2. ASSUME NEW v \in gdMin .. gdMax, NEW p \in P, NEW k \in 1 .. GdParts - 1, v = k * MinorOf(p)
        PROVE  v \in gdLines
    <3> DEFINE m == MinorOf(p)
    <3>1. p \in Nat /\ m \in Nat /\ p <= m /\ gdMajor \in Nat /\ v = k * m /\ v <= gdMax /\ gdMin <= v
      BY <1>1, <1>3, <1>4, <2>2
    <3> HIDE DEF m
    <3>2. m <= k * m
      BY <1>4, <3>1
    <3>3. p < gdMajor
      BY <1>4, <1>7, <3>1, <3>2
    <3>4. gdMin <= k * MinorOf(p)
      BY <3>1 DEF m
    <3> QED BY <1>1, <2>2, <3>3, <3>4 DEF MinorsTo
  <2>3. \A v \in gdMin .. gdMax : \A p \in P, k \in 1 .. GdParts - 1 : v = k * MinorOf(p) => v \in gdLines
    BY <2>2
  <2>4. \A v \in gdMin' .. gdMax' : \A p \in GdPowers(gdUnit'), k \in 1 .. GdParts - 1 :
          v = k * ((p * gdUnit') \div GdParts) => v \in gdLines'
    BY <1>1, <1>2, <2>3, Zenon DEF MinorOf
  <2>5. GridLinesRight'
    BY <1>1, <1>2, <2>1, <2>4, Zenon DEF GridLinesRight
  <2> QED BY <1>2, <2>1, <2>5 DEF GridInv
<1> QED BY <1>6, <1>7

LEMMA GridMinorStep == ASSUME GridInv, GridMinor PROVE GridInv'
<1> DEFINE P == GdPowers(gdUnit)  c == MinorOf(gdMajor)
<1>1. /\ gdAt = "minor" /\ UNCHANGED gdAxis /\ GdAxisInv /\ gdMajor <= gdMax
      /\ gdLog /\ gdMinor /\ gdMajor \in P /\ MinorsTo(gdMajor)
  BY DEF GridMinor, GridInv
<1>2. /\ GdAxisInv' /\ gdUnit' = gdUnit /\ gdMin' = gdMin /\ gdMax' = gdMax
      /\ gdLog' = gdLog /\ gdMinor' = gdMinor
  BY <1>1, GridAxisStays
<1>3. PICK j \in Nat \ {0} : gdValue = j * c /\ \A k \in 1 .. GdParts - 1 : k < j => k * c \in gdLines
  BY <1>1, Zenon DEF GridInv
<1>4. /\ \A p \in P : p \in Nat \ {0}
      /\ \A p \in P : p <= gdMax => p * gdUnit \in P
      /\ \A p, q \in P : p < q * gdUnit => p <= q
  BY <1>1, AxisPowers
<1>5. c \in Nat \ {0} /\ GdParts * c = gdMajor * gdUnit /\ GdParts \in Nat \ {0} /\ gdMin \in Int
  BY <1>1, MinorOfIs, GdAssumption DEF GdAxisInv
<1>6. \A p : MinorOf(p)' = MinorOf(p)
  BY <1>2 DEF MinorOf
<1>7. CASE gdValue < gdMajor * gdUnit
  <2>1. /\ gdLines' = gdLines \cup {gdValue} /\ gdValue' = gdValue + c
        /\ gdAt' = "minor" /\ gdMajor' = gdMajor
    BY <1>1, <1>7, Zenon DEF GridMinor, MinorUnit, MinorOf
  <2>2. MinorOf(gdMajor)' = c
    BY <1>2, <2>1 DEF MinorOf
  <2> HIDE DEF c
  <2>3. gdValue' = (j + 1) * c /\ j + 1 \in Nat \ {0}
    BY <1>3, <1>5, <2>1
  <2>4. ASSUME NEW k \in 1 .. GdParts - 1, k < j + 1 PROVE k * c \in gdLines'
    <3>1. CASE k < j
      BY <1>3, <2>1, <3>1
    <3>2. CASE ~(k < j)
      <4>1. k = j
        BY <1>5, <2>4, <3>2
      <4> QED BY <1>3, <2>1, <4>1
    <3> QED BY <3>1, <3>2
  <2>5. \E i \in Nat \ {0} : gdValue' = i * MinorOf(gdMajor)'
          /\ \A k \in 1 .. GdParts - 1 : k < i => k * MinorOf(gdMajor)' \in gdLines'
    BY <2>2, <2>3, <2>4, Zenon
  <2>6. MinorsTo(gdMajor)' /\ gdMajor' \in GdPowers(gdUnit)'
    BY <1>1, <1>2, <1>6, <2>1 DEF MinorsTo
  <2>7. gdMajor' <= gdMax' /\ gdLog' /\ gdMinor' /\ GridLinesRight'
    BY <1>1, <1>2, <2>1 DEF GridLinesRight
  <2> QED BY <1>2, <2>1, <2>5, <2>6, <2>7 DEF GridInv
<1>8. CASE ~(gdValue < gdMajor * gdUnit)
  <2>1. gdLines' = gdLines /\ gdAt' = "minors" /\ gdMajor' = gdMajor * gdUnit
    BY <1>1, <1>8, Zenon DEF GridMinor
  <2>2. GdParts <= j
    <3> HIDE DEF c
    <3>1. ~(j * c < GdParts * c)
      BY <1>3, <1>5, <1>8
    <3>2. ASSUME j < GdParts PROVE j * c < GdParts * c
      BY <1>5, <3>2
    <3> QED BY <1>5, <3>1, <3>2
  <2>3. \A k \in 1 .. GdParts - 1 : k * c \in gdLines
    <3> HIDE DEF c
    <3> QED BY <1>3, <1>5, <2>2
  <2>4. gdMajor * gdUnit \in P
    BY <1>1, <1>4
  <2>5. ASSUME NEW p \in P, NEW k \in 1 .. GdParts - 1, p < gdMajor * gdUnit, gdMin <= k * MinorOf(p)
        PROVE  k * MinorOf(p) \in gdLines
    <3>1. p <= gdMajor /\ p \in Nat /\ gdMajor \in Nat
      BY <1>1, <1>4, <2>5
    <3>2. CASE p = gdMajor
      BY <2>3, <3>2
    <3>3. CASE p # gdMajor
      <4>1. p < gdMajor
        BY <3>1, <3>3
      <4> QED BY <1>1, <2>5, <4>1 DEF MinorsTo
    <3> QED BY <3>2, <3>3
  <2>6. MinorsTo(gdMajor)' /\ gdMajor' \in GdPowers(gdUnit)'
    BY <1>2, <1>6, <2>1, <2>4, <2>5 DEF MinorsTo
  <2>7. gdLog' /\ gdMinor' /\ GridLinesRight'
    BY <1>1, <1>2, <2>1 DEF GridLinesRight
  <2> QED BY <1>2, <2>1, <2>6, <2>7 DEF GridInv
<1> QED BY <1>7, <1>8

LEMMA GridStep == GridInv /\ (GdNext \/ UNCHANGED gdVars) => GridInv'
<1>1. ASSUME GridInv, UNCHANGED gdVars PROVE GridInv'
  <2>1. UNCHANGED <<gdLog, gdMin, gdMax, gdUnit, gdMinor, gdAt, gdMajor, gdValue, gdLines>>
    BY <1>1 DEF gdVars, gdAxis
  <2> QED BY <1>1, <2>1 DEF GridInv, GdAxisInv, GridLinesRight, LinearTo, MajorsTo, MinorsTo, MinorOf
<1> QED BY <1>1, GridStartStep, GridLinearStep, GridFindStep, GridMajorStep, GridMinorsStep,
           GridMinorStep DEF GdNext

LEMMA GridHolds == GridInv => GridLinesRight
BY DEF GridInv

-----------------------------------------------------------------------------
\* However nodes are pushed, popped, inserted, unlisted, moved and sorted, both kinds of
\* list hold, link for link and in every answer, the sequences that were put into them:
\* ListsHoldSequences, if no node is inserted after the last of a singly linked list.
THEOREM ListsHold == ASSUME ~AfterLast PROVE MCSpec => []ListsHoldSequences
<1>1. MCInit => ListInv
  BY UtilsInits, ListInitHolds
<1>2. ListInv /\ [MCNext]_MCVars => ListInv'
  BY UtilsSteps, ListStep
<1>3. ListInv => ListsHoldSequences
  BY DllReads, SllReads DEF ListsHoldSequences
<1> QED
  BY <1>1, <1>2, <1>3, PTL DEF MCSpec

\* Through all growing, trimming, shortening and changing of buffers the bytes up to the
\* length of a string are the text that was put together, it answers from that text, and
\* it owns one heap block while it lives in one: StringsHoldText.
THEOREM StringsHold == MCSpec => []StringsHoldText
<1>1. MCInit => StrInv
  BY UtilsInits, StrInitIs
<1>2. StrInv /\ [MCNext]_MCVars => StrInv'
  BY UtilsSteps, StrStep
<1>3. StrInv => StringsHoldText
  BY StrHolds, StrAnswers DEF StringsHoldText
<1> QED
  BY <1>1, <1>2, <1>3, PTL DEF MCSpec

\* On every day until the end of 2099 the date that a timestamp is converted to is the
\* calendar's, and both ways back, from the date and from its printed form, give the
\* timestamp: DatesRight.
THEOREM DatesAreRight == MCSpec => []DatesRight
<1>1. MCInit => DateInv
  BY UtilsInits, DateInitIs
<1>2. DateInv /\ [MCNext]_MCVars => DateInv'
  BY UtilsSteps, DateStep
<1>3. DateInv => DatesRight
  BY DatesFollow, DatesBack DEF DatesRight
<1> QED
  BY <1>1, <1>2, <1>3, PTL DEF MCSpec

\* Whatever is printed or logged, text ends where its buffer or its source does: the
\* hexadecimal forms and what is read back of them, formatted text, and the lines a dump
\* is cut into: TextFits.
THEOREM TextsFit == MCSpec => []TextFits
<1>1. MCInit => TextInv
  BY UtilsInits, TextInitIs
<1>2. TextInv /\ [MCNext]_MCVars => TextInv'
  BY UtilsSteps, TextStep
<1>3. TextInv => TextFits
  BY TextHolds
<1> QED
  BY <1>1, <1>2, <1>3, PTL DEF MCSpec

\* What is coded one way is read the other way, by every reader: bytes from hexadecimal
\* text with any delimiters, numbers from decimal and hexadecimal text, words on either
\* host, and checksums over a text in pieces or at once, by table or by shifts:
\* CodesReadBack.
THEOREM CodesAreRead == MCSpec => []CodesReadBack
<1>1. MCInit => CodeInv
  BY UtilsInits, CodeInitIs
<1>2. CodeInv /\ [MCNext]_MCVars => CodeInv'
  BY UtilsSteps, CodeStep
<1>3. CodeInv => CodesReadBack
  BY CodesHold
<1> QED
  BY <1>1, <1>2, <1>3, PTL DEF MCSpec

\* Whatever waveforms are added and removed, curves drawn, points given in any order and
\* axes of either kind: a redraw has drawn the waveforms it has passed, each once and in
\* order; a curve within the axis shows its value in every column, up to the first that
\* has none; the interpolated curve goes through every point; and the gridlines are those
\* of the axis: PlotShows.
THEOREM PlotsShow == MCSpec => []PlotShows
<1> DEFINE Inv == PlotInv /\ InterpInv /\ GridInv
<1>1. MCInit => Inv
  BY UtilsInits, PlotInitIs, InterpInitIs, GridInitIs
<1>2. Inv /\ [MCNext]_MCVars => Inv'
  BY UtilsSteps, PlotStep, InterpStep, GridStep
<1>3. Inv => PlotShows
  BY PlotDraws, CurveCovers, InterpHits, GridHolds DEF PlotShows
<1> HIDE DEF Inv
<1> QED
  BY <1>1, <1>2, <1>3, PTL DEF MCSpec
=============================================================================
