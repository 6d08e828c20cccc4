----------------------------- MODULE TextProofs ------------------------------
(***************************************************************************)
(* What is proved of texts: recursion along a sequence, hexadecimal and    *)
(* decimal text, formatted text and the lines of a dump, where they are    *)
(* cut off, and that what is printed is read back.                         *)
(***************************************************************************)
EXTENDS MCUtils, NodeListsProofs

-----------------------------------------------------------------------------
(* Recursion along a sequence: the function that a recursive definition      *)
(* speaks of exists, and what each step keeps holds of all its values.       *)

\* Values in X that start with base and go on by step.
Follows(f, X, base, step, N) ==
  /\ f \in [0 .. N -> X] /\ f[0] = base
  /\ \A k \in 1 .. N : f[k] = step[<<k, f[k - 1]>>]

LEMMA Recursion ==
  ASSUME NEW X, NEW base \in X, NEW N \in Nat, NEW step \in [(1 .. N) \X X -> X]
  PROVE  \E f : Follows(f, X, base, step, N)
<1> DEFINE S == {M \in Nat : M <= N => \E f : Follows(f, X, base, step, M)}
<1>1. 0 \in S
  <2> DEFINE f == [k \in 0 .. 0 |-> base]
  <2>1. Follows(f, X, base, step, 0)
    BY DEF Follows
  <2> HIDE DEF f
  <2> QED BY <2>1
<1>2. ASSUME NEW M \in Nat, M \in S, M + 1 <= N
      PROVE  \E f : Follows(f, X, base, step, M + 1)
  <2>1. M <= N
    BY <1>2
  <2>2. PICK f : Follows(f, X, base, step, M)
    BY <1>2, <2>1
  <2> DEFINE last == step[<<M + 1, f[M]>>]
             g == [k \in 0 .. M + 1 |-> IF k = M + 1 THEN last ELSE f[k]]
  <2>3. last \in X
    BY <1>2, <2>2 DEF Follows
  <2> HIDE DEF last
  <2>4. g \in [0 .. M + 1 -> X] /\ g[0] = base
    BY <2>2, <2>3 DEF Follows
  <2>5. ASSUME NEW k \in 1 .. M + 1
        PROVE  g[k] = step[<<k, g[k - 1]>>]
    <3>1. CASE k = M + 1
      <4>1. g[k] = last /\ k - 1 = M /\ g[k - 1] = f[M]
        BY <3>1
      <4> QED BY <3>1, <4>1, Zenon DEF last
    <3>2. CASE k # M + 1
      <4>1. k \in 1 .. M /\ g[k] = f[k] /\ g[k - 1] = f[k - 1]
        BY <3>2
      <4> HIDE DEF g
      <4>2. f[k] = step[<<k, f[k - 1]>>]
        BY <2>2, <4>1, Zenon DEF Follows
      <4> QED BY <4>1, <4>2
    <3> QED BY <3>1, <3>2
  <2> HIDE DEF g
  <2>6. Follows(g, X, base, step, M + 1)
    BY <2>4, <2>5, Zenon DEF Follows
  <2> QED BY <2>6
<1>3. \A M \in Nat : M \in S
  <2>1. ASSUME NEW M \in Nat, M \in S PROVE M + 1 \in S
    BY <1>2, <2>1
  <2> HIDE DEF S
  <2> QED BY <1>1, <2>1, NumbersByInduction
<1> QED BY <1>3

\* What holds first and is kept by each step holds of every value.
LEMMA RecursionStays ==
  ASSUME NEW X, NEW N \in Nat, NEW f, f[0] \in X,
         \A k \in 1 .. N : f[k - 1] \in X => f[k] \in X
  PROVE  \A k \in 0 .. N : f[k] \in X
<1> DEFINE S == {k \in Nat : k <= N => f[k] \in X}
<1>1. 0 \in S
  OBVIOUS
<1>2. ASSUME NEW k \in Nat, k \in S PROVE k + 1 \in S
  BY <1>2
<1>3. \A k \in Nat : k \in S
  <2> HIDE DEF S
  <2> QED BY <1>1, <1>2, NumbersByInduction
<1> QED BY <1>3

Alike(f, g, N) == f[0] = g[0] /\ \A k \in 1 .. N : f[k - 1] = g[k - 1] => f[k] = g[k]

LEMMA AlikeEqual ==
  ASSUME NEW N \in Nat, NEW f, NEW g, Alike(f, g, N)
  PROVE  f[N] = g[N]
<1>1. f[0] = g[0] /\ \A k \in 1 .. N : f[k - 1] = g[k - 1] => f[k] = g[k]
  BY DEF Alike
<1> DEFINE S == {k \in Nat : k <= N => f[k] = g[k]}
<1>2. 0 \in S
  BY <1>1
<1>3. ASSUME NEW k \in Nat, k \in S PROVE k + 1 \in S
  BY <1>1, <1>3
<1>4. \A k \in Nat : k \in S
  <2> HIDE DEF S
  <2> QED BY <1>2, <1>3, NumbersByInduction
<1> QED BY <1>4

-----------------------------------------------------------------------------
(* Digits: the nybbles of a text are those of its characters, in order.      *)

Digit == 0 .. 15
IsFound(f, text) ==
  f = [k \in 0 .. Len(text) |->
         IF k = 0 THEN <<>>
         ELSE IF isHex(text[k]) THEN Append(f[k - 1], CNV_AscHexByteToBinNybble(text[k]))
         ELSE f[k - 1]]

LEMMA NybbleOfHex ==
  ASSUME NEW c \in Nat
  PROVE  /\ isHex(c) => CNV_AscHexByteToBinNybble(c) \in Digit
         /\ c \in Digit => isHex(c) /\ CNV_AscHexByteToBinNybble(c) = c
         /\ ~isHex(OtherChar)
BY DEF isHex, CNV_AscHexByteToBinNybble, LowerCase, OtherChar, Digit

LEMMA FoundGoesOn ==
  ASSUME NEW text \in Seq(Nat), NEW f, IsFound(f, text)
  PROVE  /\ f[0] = <<>>
         /\ \A k \in 1 .. Len(text) :
              f[k] = IF isHex(text[k]) THEN Append(f[k - 1], CNV_AscHexByteToBinNybble(text[k]))
                     ELSE f[k - 1]
<1>1. \A k \in 0 .. Len(text) :
        f[k] = IF k = 0 THEN <<>>
               ELSE IF isHex(text[k]) THEN Append(f[k - 1], CNV_AscHexByteToBinNybble(text[k]))
               ELSE f[k - 1]
  BY Zenon DEF IsFound
<1>2. Len(text) \in Nat
  OBVIOUS
<1> QED BY <1>1, <1>2

LEMMA NybblesFound ==
  ASSUME NEW text \in Seq(Nat)
  PROVE  \E f : /\ IsFound(f, text) /\ Nybbles(text) = f[Len(text)]
                /\ \A k \in 0 .. Len(text) : f[k] \in Seq(Digit)
<1> DEFINE N == Len(text)
           X == Seq(Digit)
           next(k, s) == IF isHex(text[k]) THEN Append(s, CNV_AscHexByteToBinNybble(text[k])) ELSE s
           step == [p \in (1 .. N) \X X |-> next(p[1], p[2])]
<1>1. N \in Nat /\ <<>> \in X
  OBVIOUS
<1>2. ASSUME NEW k \in 1 .. N, NEW s \in X PROVE next(k, s) \in X
  <2>1. text[k] \in Nat
    OBVIOUS
  <2>2. isHex(text[k]) => CNV_AscHexByteToBinNybble(text[k]) \in Digit
    BY <2>1, NybbleOfHex
  <2> HIDE DEF N
  <2> QED BY <2>2
<1>3. step \in [(1 .. N) \X X -> X] /\ \A k \in 1 .. N, s \in X : step[<<k, s>>] = next(k, s)
  <2> HIDE DEF next, N
  <2> QED BY <1>2
<1>4. PICK f : Follows(f, X, <<>>, step, N)
  <2> HIDE DEF step, N, X
  <2> QED BY <1>1, <1>3, Recursion
<1>5. ASSUME NEW k \in 0 .. N PROVE f[k] = IF k = 0 THEN <<>> ELSE next(k, f[k - 1])
  <2> HIDE DEF next, step, N, X
  <2>1. CASE k = 0
    BY <1>4, <2>1 DEF Follows
  <2>2. CASE k # 0
    <3>1. k \in 1 .. N /\ k - 1 \in 0 .. N
      BY <1>1, <2>2
    <3>2. f[k - 1] \in X /\ f[k] = step[<<k, f[k - 1]>>]
      BY <1>4, <3>1 DEF Follows
    <3> QED BY <1>3, <2>2, <3>1, <3>2
  <2> QED BY <2>1, <2>2
<1>6. IsFound(f, text)
  <2>1. f = [k \in 0 .. N |-> f[k]]
    BY <1>4 DEF Follows
  <2> HIDE DEF step, X
  <2> QED BY <1>5, <2>1, Zenon DEF IsFound
<1> DEFINE found[k \in 0 .. N] ==
             IF k = 0 THEN <<>>
             ELSE IF isHex(text[k]) THEN Append(found[k - 1], CNV_AscHexByteToBinNybble(text[k]))
             ELSE found[k - 1]
<1>7. IsFound(found, text)
  BY <1>6, Zenon DEF IsFound
<1>8. Nybbles(text) = found[N]
  BY Zenon DEF Nybbles
<1> HIDE DEF found
<1>9. \A k \in 0 .. N : found[k] \in X
  <2>1. found[0] = <<>> /\ \A k \in 1 .. N : found[k] = next(k, found[k - 1])
    BY <1>7, FoundGoesOn, Zenon
  <2> HIDE DEF X, N, next
  <2> QED BY <1>1, <1>2, <2>1, RecursionStays
<1> QED BY <1>7, <1>8, <1>9

\* Sequences are built by appending.
LEMMA TextsByInduction ==
  ASSUME NEW X, NEW S, <<>> \in S, \A q \in Seq(X), c \in X : q \in S => Append(q, c) \in S
  PROVE  \A q \in Seq(X) : q \in S
<1> DEFINE T == {n \in Nat : \A q \in Seq(X) : Len(q) = n => q \in S}
<1>1. 0 \in T
  <2>1. \A q \in Seq(X) : Len(q) = 0 => q = <<>>
    BY EmptySeq
  <2> QED BY <2>1
<1>2. ASSUME NEW n \in Nat, n \in T PROVE n + 1 \in T
  <2>1. ASSUME NEW q \in Seq(X), Len(q) = n + 1 PROVE q \in S
    <3> DEFINE r == [i \in 1 .. n |-> q[i]]
    <3>1. r \in Seq(X) /\ Len(r) = n /\ q[n + 1] \in X
      BY <2>1
    <3>2. q = Append(r, q[n + 1])
      <4>1. /\ Append(r, q[n + 1]) \in Seq(X) /\ Len(Append(r, q[n + 1])) = n + 1
            /\ \A i \in 1 .. n + 1 : Append(r, q[n + 1])[i] = q[i]
        BY <3>1
      <4> HIDE DEF r
      <4> QED BY <2>1, <4>1, SeqEqual
    <3>3. r \in S
      BY <1>2, <3>1
    <3> HIDE DEF r
    <3> QED BY <3>1, <3>2, <3>3
  <2> QED BY <2>1
<1>3. \A n \in Nat : n \in T
  <2> HIDE DEF T
  <2> QED BY <1>1, <1>2, NumbersByInduction
<1> QED BY <1>3

LEMMA ConcatAppend ==
  ASSUME NEW X, NEW s \in Seq(X), NEW t \in Seq(X), NEW c \in X
  PROVE  s \o Append(t, c) = Append(s \o t, c) /\ s \o <<>> = s
<1>1. /\ s \o Append(t, c) \in Seq(X) /\ Append(s \o t, c) \in Seq(X)
      /\ Len(s \o Append(t, c)) = Len(s) + Len(t) + 1
      /\ Len(Append(s \o t, c)) = Len(s) + Len(t) + 1
  OBVIOUS
<1>2. \A i \in 1 .. Len(s) + Len(t) + 1 : (s \o Append(t, c))[i] = Append(s \o t, c)[i]
  OBVIOUS
<1>3. s \o Append(t, c) = Append(s \o t, c)
  BY <1>1, <1>2, SeqEqual
<1>4. s \o <<>> = s
  OBVIOUS
<1> QED BY <1>3, <1>4

LEMMA NybblesEmpty == Nybbles(<<>>) = <<>>
<1>1. <<>> \in Seq(Nat) /\ Len(<<>>) = 0
  OBVIOUS
<1>2. PICK f : IsFound(f, <<>>) /\ Nybbles(<<>>) = f[Len(<<>>)]
  BY <1>1, NybblesFound, Zenon
<1>3. f[0] = <<>>
  BY <1>1, <1>2, FoundGoesOn, Zenon
<1> QED BY <1>1, <1>2, <1>3, Zenon

LEMMA NybblesAre ==
  ASSUME NEW text \in Seq(Nat)
  PROVE  Nybbles(text) \in Seq(Digit)
<1>1. PICK f : Nybbles(text) = f[Len(text)] /\ \A k \in 0 .. Len(text) : f[k] \in Seq(Digit)
  BY NybblesFound
<1> QED BY <1>1

LEMMA NybblesAppend ==
  ASSUME NEW text \in Seq(Nat), NEW c \in Nat
  PROVE  Nybbles(Append(text, c)) =
           IF isHex(c) THEN Append(Nybbles(text), CNV_AscHexByteToBinNybble(c)) ELSE Nybbles(text)
<1> DEFINE N == Len(text)
           longer == Append(text, c)
<1>0. /\ N \in Nat /\ longer \in Seq(Nat) /\ Len(longer) = N + 1 /\ longer[N + 1] = c
      /\ \A k \in 1 .. N : longer[k] = text[k]
  OBVIOUS
<1>1. PICK f : IsFound(f, text) /\ Nybbles(text) = f[N]
  BY NybblesFound
<1>2. PICK g : IsFound(g, longer) /\ Nybbles(longer) = g[N + 1]
  <2> HIDE DEF longer
  <2> QED BY <1>0, NybblesFound
<1> HIDE DEF longer, N
<1>3. Alike(f, g, N)
  <2>1. f[0] = <<>> /\ g[0] = <<>>
    BY <1>0, <1>1, <1>2, FoundGoesOn
  <2>2. ASSUME NEW k \in 1 .. N, f[k - 1] = g[k - 1] PROVE f[k] = g[k]
    <3>1. f[k] = IF isHex(text[k]) THEN Append(f[k - 1], CNV_AscHexByteToBinNybble(text[k])) ELSE f[k - 1]
      BY <1>1, FoundGoesOn DEF N
    <3>2. k \in 1 .. Len(longer)
      BY <1>0
    <3>3. g[k] = IF isHex(longer[k]) THEN Append(g[k - 1], CNV_AscHexByteToBinNybble(longer[k])) ELSE g[k - 1]
      BY <1>0, <1>2, <3>2, FoundGoesOn, Zenon
    <3>4. longer[k] = text[k]
      BY <1>0
    <3> QED BY <2>2, <3>1, <3>3, <3>4
  <2> QED BY <2>1, <2>2 DEF Alike
<1>4. f[N] = g[N]
  <2>0. N \in Nat
    BY <1>0
  <2> QED BY <2>0, <1>3, AlikeEqual, Zenon
<1>5. g[N + 1] = IF isHex(c) THEN Append(g[N], CNV_AscHexByteToBinNybble(c)) ELSE g[N]
  <2>1. N + 1 \in 1 .. Len(longer) /\ (N + 1) - 1 = N
    BY <1>0
  <2>2. g[N + 1] = IF isHex(longer[N + 1]) THEN Append(g[(N + 1) - 1], CNV_AscHexByteToBinNybble(longer[N + 1]))
                   ELSE g[(N + 1) - 1]
    BY <1>0, <1>2, <2>1, FoundGoesOn, Zenon
  <2> QED BY <1>0, <2>1, <2>2, Zenon
<1> QED BY <1>1, <1>2, <1>4, <1>5, Zenon DEF longer

LEMMA NybblesConcat ==
  ASSUME NEW s \in Seq(Nat)
  PROVE  \A t \in Seq(Nat) : Nybbles(s \o t) = Nybbles(s) \o Nybbles(t)
<1> DEFINE S == {t \in Seq(Nat) : Nybbles(s \o t) = Nybbles(s) \o Nybbles(t)}
<1>1. <<>> \in S
  <2>1. Nybbles(s) \in Seq(Digit)
    BY NybblesAre
  <2>2. s \o <<>> = s /\ Nybbles(s) \o <<>> = Nybbles(s)
    BY <2>1, ConcatEmptySeq, Zenon
  <2>3. <<>> \in Seq(Nat)
    OBVIOUS
  <2> QED BY <2>2, <2>3, NybblesEmpty, Zenon
<1>2. ASSUME NEW t \in Seq(Nat), NEW c \in Nat, t \in S PROVE Append(t, c) \in S
  <2>1. s \o Append(t, c) = Append(s \o t, c) /\ s \o t \in Seq(Nat) /\ Append(t, c) \in Seq(Nat)
    BY ConcatAppend
  <2>2. Nybbles(s \o t) = Nybbles(s) \o Nybbles(t)
    BY <1>2
  <2>3. CASE isHex(c)
    <3> DEFINE d == CNV_AscHexByteToBinNybble(c)
    <3>1. Nybbles(Append(s \o t, c)) = Append(Nybbles(s \o t), d)
      BY <2>1, <2>3, NybblesAppend
    <3>2. Nybbles(Append(t, c)) = Append(Nybbles(t), d) /\ d \in Digit
      BY <2>3, NybblesAppend, NybbleOfHex
    <3>3. Nybbles(s) \o Append(Nybbles(t), d) = Append(Nybbles(s) \o Nybbles(t), d)
      BY <3>2, NybblesAre, ConcatAppend
    <3> QED BY <2>1, <2>2, <3>1, <3>2, <3>3
  <2>4. CASE ~isHex(c)
    BY <2>1, <2>2, <2>4, NybblesAppend
  <2> QED BY <2>3, <2>4
<1> HIDE DEF S
<1>3. \A t \in Seq(Nat) : t \in S
  BY <1>1, <1>2, TextsByInduction
<1> QED BY <1>3 DEF S

LEMMA NybblesOfDigits ==
  \A t \in Seq(Digit) : Nybbles(t) = t
<1> DEFINE S == {t \in Seq(Digit) : Nybbles(t) = t}
<1>1. <<>> \in S
  BY NybblesEmpty
<1>2. ASSUME NEW t \in Seq(Digit), NEW c \in Digit, t \in S PROVE Append(t, c) \in S
  <2>1. c \in Nat /\ isHex(c) /\ CNV_AscHexByteToBinNybble(c) = c
    BY NybbleOfHex DEF Digit
  <2>2. t \in Seq(Nat)
    BY DEF Digit
  <2>3. Nybbles(Append(t, c)) = Append(Nybbles(t), c)
    BY <2>1, <2>2, NybblesAppend
  <2> QED BY <1>2, <2>3
<1> HIDE DEF S
<1>3. \A t \in Seq(Digit) : t \in S
  BY <1>1, <1>2, TextsByInduction
<1> QED BY <1>3 DEF S

\* Delimiters leave no nybbles.
LEMMA NybblesOfNone ==
  ASSUME NEW text \in Seq(Nat), \A i \in 1 .. Len(text) : ~isHex(text[i])
  PROVE  Nybbles(text) = <<>>
<1>1. PICK f : IsFound(f, text) /\ Nybbles(text) = f[Len(text)]
  BY NybblesFound
<1> DEFINE X == {<<>>}
<1>2. f[0] \in X /\ \A k \in 1 .. Len(text) : f[k - 1] \in X => f[k] \in X
  BY <1>1, FoundGoesOn
<1>3. Len(text) \in Nat
  OBVIOUS
<1>4. \A k \in 0 .. Len(text) : f[k] \in X
  <2> HIDE DEF X
  <2> QED BY <1>2, <1>3, RecursionStays, Zenon
<1> QED BY <1>1, <1>3, <1>4

LEMMA NybblesLength ==
  \A t \in Seq(Nat) : Len(Nybbles(t)) <= Len(t)
<1> DEFINE S == {t \in Seq(Nat) : Len(Nybbles(t)) <= Len(t)}
<1>1. <<>> \in S
  BY NybblesEmpty
<1>2. ASSUME NEW t \in Seq(Nat), NEW c \in Nat, t \in S PROVE Append(t, c) \in S
  <2>0. Append(t, c) \in Seq(Nat)
    OBVIOUS
  <2>1. Nybbles(t) \in Seq(Digit) /\ Nybbles(Append(t, c)) \in Seq(Digit)
    BY <2>0, NybblesAre
  <2>2. Len(Nybbles(Append(t, c))) <= Len(Nybbles(t)) + 1
    <3>1. CASE isHex(c)
      BY <2>1, <3>1, NybblesAppend, NybbleOfHex
    <3>2. CASE ~isHex(c)
      BY <2>1, <3>2, NybblesAppend
    <3> QED BY <3>1, <3>2
  <2>3. Len(Append(t, c)) = Len(t) + 1
    OBVIOUS
  <2> QED BY <1>2, <2>1, <2>2, <2>3
<1> HIDE DEF S
<1>3. \A t \in Seq(Nat) : t \in S
  BY <1>1, <1>2, TextsByInduction
<1> QED BY <1>3 DEF S

-----------------------------------------------------------------------------
(* Bytes as digits, two for each.                                            *)

Byte == 0 .. 255

LEMMA FirstGrows ==
  ASSUME NEW X, NEW q \in Seq(X), NEW k \in 1 .. Len(q)
  PROVE  /\ SubSeq(q, 1, k) = Append(SubSeq(q, 1, k - 1), q[k])
         /\ SubSeq(q, 1, k - 1) \in Seq(X) /\ Len(SubSeq(q, 1, k - 1)) = k - 1
         /\ q[k] \in X
<1>1. SubSeq(q, 1, k - 1) \in Seq(X) /\ Len(SubSeq(q, 1, k - 1)) = k - 1 /\ q[k] \in X
  BY SubSeqProperties
<1>2. SubSeq(q, 1, k) = SubSeq(q, 1, k - 1) \o <<q[k]>>
  BY SubSeqRecursiveSecond
<1>3. Append(SubSeq(q, 1, k - 1), q[k]) = SubSeq(q, 1, k - 1) \o <<q[k]>>
  BY <1>1, AppendIsConcat
<1> QED BY <1>1, <1>2, <1>3

LEMMA HalvesOfByte ==
  ASSUME NEW v \in Byte
  PROVE  /\ CNV_BinByteToAscHexByte(v) \in Seq(Digit) /\ Len(CNV_BinByteToAscHexByte(v)) = 2
         /\ v \div 16 \in Digit /\ v % 16 \in Digit /\ 16 * (v \div 16) + (v % 16) = v
         /\ CNV_BinByteToAscHexByte(v)[1] = v \div 16 /\ CNV_BinByteToAscHexByte(v)[2] = v % 16
BY DEF Byte, Digit, CNV_BinByteToAscHexByte

LEMMA HexOfIs ==
  ASSUME NEW bin \in Seq(Byte)
  PROVE  /\ HexOf(bin) \in Seq(Digit) /\ Len(HexOf(bin)) = 2 * Len(bin)
         /\ \A k \in 1 .. Len(bin) : /\ HexOf(bin)[2 * k - 1] = bin[k] \div 16
                                     /\ HexOf(bin)[2 * k] = bin[k] % 16
<1> DEFINE N == Len(bin)
           d(i) == CNV_BinByteToAscHexByte(bin[(i + 1) \div 2])[2 - (i % 2)]
<1>0. N \in Nat /\ \A k \in 1 .. N : bin[k] \in Byte
  OBVIOUS
<1>1. HexOf(bin) = [i \in 1 .. 2 * N |-> d(i)]
  BY DEF HexOf
<1> HIDE DEF N
<1>2. ASSUME NEW i \in 1 .. 2 * N PROVE d(i) \in Digit
  <2>1. (i + 1) \div 2 \in 1 .. N /\ 2 - (i % 2) \in {1, 2}
    BY <1>0
  <2> QED BY <1>0, <2>1, HalvesOfByte
<1>3. ASSUME NEW k \in 1 .. N PROVE d(2 * k - 1) = bin[k] \div 16 /\ d(2 * k) = bin[k] % 16
  <2>1. /\ ((2 * k - 1) + 1) \div 2 = k /\ (2 * k + 1) \div 2 = k
        /\ 2 - ((2 * k - 1) % 2) = 1 /\ 2 - ((2 * k) % 2) = 2
    BY <1>0
  <2> QED BY <1>0, <2>1, HalvesOfByte
<1> HIDE DEF d
<1>4. HexOf(bin) \in Seq(Digit) /\ Len(HexOf(bin)) = 2 * N
  BY <1>0, <1>1, <1>2, IsASeq
<1>5. ASSUME NEW k \in 1 .. N PROVE 2 * k - 1 \in 1 .. 2 * N /\ 2 * k \in 1 .. 2 * N
  BY <1>0
<1> QED BY <1>1, <1>3, <1>4, <1>5 DEF N

LEMMA HexOfAppend ==
  ASSUME NEW bin \in Seq(Byte), NEW v \in Byte
  PROVE  HexOf(Append(bin, v)) = Append(Append(HexOf(bin), v \div 16), v % 16)
<1> DEFINE N == Len(bin)
           longer == Append(bin, v)
           hex == Append(Append(HexOf(bin), v \div 16), v % 16)
<1>0. /\ N \in Nat /\ longer \in Seq(Byte) /\ Len(longer) = N + 1 /\ longer[N + 1] = v
      /\ \A k \in 1 .. N : longer[k] = bin[k]
  OBVIOUS
<1>1. /\ HexOf(bin) \in Seq(Digit) /\ Len(HexOf(bin)) = 2 * N
      /\ \A k \in 1 .. N : HexOf(bin)[2 * k - 1] = bin[k] \div 16 /\ HexOf(bin)[2 * k] = bin[k] % 16
  BY HexOfIs
<1>2. /\ HexOf(longer) \in Seq(Digit) /\ Len(HexOf(longer)) = 2 * (N + 1)
      /\ \A k \in 1 .. N + 1 : /\ HexOf(longer)[2 * k - 1] = longer[k] \div 16
                               /\ HexOf(longer)[2 * k] = longer[k] % 16
  <2> HIDE DEF longer
  <2> QED BY <1>0, HexOfIs
<1>3. /\ hex \in Seq(Digit) /\ Len(hex) = 2 * N + 2
      /\ \A i \in 1 .. 2 * N : hex[i] = HexOf(bin)[i]
      /\ hex[2 * N + 1] = v \div 16 /\ hex[2 * N + 2] = v % 16
  <2>1. v \div 16 \in Digit /\ v % 16 \in Digit
    BY HalvesOfByte
  <2> HIDE DEF N
  <2> QED BY <1>0, <1>1, <2>1
<1> HIDE DEF N, longer, hex
<1>4. ASSUME NEW i \in 1 .. 2 * N + 2 PROVE HexOf(longer)[i] = hex[i]
  <2> DEFINE k == (i + 1) \div 2
  <2>1. k \in 1 .. N + 1 /\ (i = 2 * k - 1 \/ i = 2 * k)
    BY <1>0
  <2> HIDE DEF k
  <2>2. CASE k = N + 1
    <3>1. HexOf(longer)[2 * k - 1] = v \div 16 /\ HexOf(longer)[2 * k] = v % 16
      BY <1>0, <1>2, <2>1, <2>2, Zenon
    <3>2. 2 * k - 1 = 2 * N + 1 /\ 2 * k = 2 * N + 2
      BY <1>0, <2>2
    <3> QED BY <1>3, <2>1, <3>1, <3>2, Zenon
  <2>3. CASE k # N + 1
    <3>1. k \in 1 .. N /\ i \in 1 .. 2 * N
      BY <1>0, <2>1, <2>3
    <3>2. /\ HexOf(longer)[2 * k - 1] = bin[k] \div 16 /\ HexOf(bin)[2 * k - 1] = bin[k] \div 16
          /\ HexOf(longer)[2 * k] = bin[k] % 16 /\ HexOf(bin)[2 * k] = bin[k] % 16
      BY <1>0, <1>1, <1>2, <2>1, <3>1, Zenon
    <3> QED BY <1>3, <2>1, <3>1, <3>2, Zenon
  <2> QED BY <2>2, <2>3
<1>5. HexOf(longer) = hex
  <2>1. 2 * (N + 1) = 2 * N + 2
    BY <1>0
  <2> QED BY <1>2, <1>3, <1>4, <2>1, SeqEqual
<1> QED BY <1>5 DEF longer, hex

LEMMA HexOfNothing == HexOf(<<>>) = <<>>
<1>1. <<>> \in Seq(Byte) /\ Len(<<>>) = 0
  OBVIOUS
<1>2. HexOf(<<>>) \in Seq(Digit) /\ Len(HexOf(<<>>)) = 2 * 0
  BY <1>1, HexOfIs, Zenon
<1> QED BY <1>2, EmptySeq

\* The readers' pairs of the digits of bytes are those bytes.
LEMMA PairedHex ==
  ASSUME NEW bin \in Seq(Byte)
  PROVE  Paired(HexOf(bin)) = bin
<1> DEFINE N == Len(bin)
           hex == HexOf(bin)
<1>0. N \in Nat /\ \A k \in 1 .. N : bin[k] \in Byte
  OBVIOUS
<1>1. /\ hex \in Seq(Digit) /\ Len(hex) = 2 * N
      /\ \A k \in 1 .. N : hex[2 * k - 1] = bin[k] \div 16 /\ hex[2 * k] = bin[k] % 16
  BY HexOfIs
<1> HIDE DEF hex, N
<1>2. Len(hex) \div 2 = N
  BY <1>0, <1>1
<1>3. Paired(hex) = [k \in 1 .. N |-> 16 * hex[2 * k - 1] + hex[2 * k]]
  BY <1>2 DEF Paired
<1>4. ASSUME NEW k \in 1 .. N PROVE 16 * hex[2 * k - 1] + hex[2 * k] = bin[k]
  <2>1. 16 * (bin[k] \div 16) + (bin[k] % 16) = bin[k]
    BY <1>0, HalvesOfByte
  <2>2. hex[2 * k - 1] = bin[k] \div 16 /\ hex[2 * k] = bin[k] % 16
    BY <1>1
  <2> QED BY <2>1, <2>2
<1>5. Paired(hex) = [k \in 1 .. N |-> bin[k]]
  BY <1>3, <1>4
<1>6. bin = [k \in 1 .. N |-> bin[k]]
  BY DEF N
<1> QED BY <1>5, <1>6 DEF hex

\* A text with the digits of bytes is read as these bytes.
LEMMA HexIsRead ==
  ASSUME NEW text \in Seq(Nat), NEW bin \in Seq(Byte), Nybbles(text) = HexOf(bin)
  PROVE  CNV_AsciiHexToBinStr(text) = bin
<1>1. HexOf(bin) \in Seq(Digit) /\ Len(HexOf(bin)) = 2 * Len(bin)
  BY HexOfIs
<1>2. Len(Reverse(HexOf(bin))) = 2 * Len(bin) /\ Reverse(Reverse(HexOf(bin))) = HexOf(bin)
  BY <1>1, ReverseProperties
<1>3. Len(Reverse(HexOf(bin))) % 2 # 1
  <2>1. Len(bin) \in Nat
    OBVIOUS
  <2>2. \A n \in Nat : (2 * n) % 2 # 1
    OBVIOUS
  <2> QED BY <1>2, <2>1, <2>2
<1>4. CNV_AsciiHexToBinStr(text) = Paired(HexOf(bin))
  BY <1>2, <1>3, Zenon DEF CNV_AsciiHexToBinStr
<1> QED BY <1>4, PairedHex

-----------------------------------------------------------------------------
(* Bytes with delimiters stay in the buffer.                                 *)

LEMMA DigitsAreNat ==
  /\ \A d \in Digit : d \in Nat
  /\ \A q \in Seq(Digit) : q \in Seq(Nat)
BY DEF Digit

LEMMA PutDelimIs ==
  ASSUME NEW s \in Seq(Nat), NEW room \in Nat, NEW d \in Seq(Nat)
  PROVE  /\ PutDelim(s, room, d) \in Seq(Nat)
         /\ d = <<>> => PutDelim(s, room, d) = s
         /\ Len(d) <= room /\ Len(s) < room => Len(PutDelim(s, room, d)) < room
         /\ Len(d) <= room /\ Len(s) <= room => Len(PutDelim(s, room, d)) <= room
BY DEF PutDelim, FitsBefore

LEMMA PutDigitsIs ==
  ASSUME NEW s \in Seq(Nat), NEW room \in Nat, NEW v \in Byte
  PROVE  /\ PutDigits(s, room, v) \in Seq(Nat)
         /\ Len(s) < room => Len(PutDigits(s, room, v)) <= room
<1> DEFINE h == CNV_BinByteToAscHexByte(v)
           d == v \div 16
<1>1. h \in Seq(Nat) /\ Len(h) = 2
  BY HalvesOfByte, DigitsAreNat, Zenon
<1>6. d \in Nat
  BY HalvesOfByte, DigitsAreNat, Zenon
<1>2. PutDigits(s, room, v) = IF room < 2 THEN Append(s, d) ELSE IF Len(s) <= room - 2 THEN s \o h ELSE s
  BY DEF PutDigits
<1> HIDE DEF h, d
<1>3. s \o h \in Seq(Nat) /\ Len(s \o h) = Len(s) + Len(h)
  BY <1>1, ConcatProperties, Zenon
<1>4. Append(s, d) \in Seq(Nat) /\ Len(Append(s, d)) = Len(s) + 1
  BY <1>6, AppendProperties, Zenon
<1>5. Len(s) \in Nat /\ Len(s \o h) = Len(s) + 2
  BY <1>1, <1>3
<1> QED
  <2>1. CASE room < 2
    BY <1>2, <1>4, <1>5, <2>1
  <2>2. CASE ~(room < 2)
    BY <1>2, <1>3, <1>5, <2>2
  <2> QED BY <2>1, <2>2

LEMMA PutByteIs ==
  ASSUME NEW s \in Seq(Nat), NEW room \in Nat, NEW v \in Byte, NEW pre \in Seq(Nat), NEW post \in Seq(Nat)
  PROVE  /\ PutByte(s, room, pre, v, post) \in Seq(Nat)
         /\ Len(pre) <= room /\ Len(post) <= room /\ Len(s) <= room =>
              Len(PutByte(s, room, pre, v, post)) <= room
<1> DEFINE before == PutDelim(s, room, pre)
           digits == PutDigits(before, room, v)
           after == PutDelim(digits, room, post)
<1>1. before \in Seq(Nat) /\ (Len(pre) <= room /\ Len(s) < room => Len(before) < room)
  BY PutDelimIs
<1>2. digits \in Seq(Nat) /\ (Len(before) < room => Len(digits) <= room)
  <2> HIDE DEF before
  <2> QED BY <1>1, PutDigitsIs
<1>3. after \in Seq(Nat) /\ (Len(post) <= room /\ Len(digits) <= room => Len(after) <= room)
  <2> HIDE DEF digits
  <2> QED BY <1>2, PutDelimIs
<1>4. PutByte(s, room, pre, v, post) = IF Len(s) < room THEN after ELSE s
  BY DEF PutByte
<1> HIDE DEF before, digits, after
<1> QED BY <1>1, <1>2, <1>3, <1>4

\* The text after each byte.
IsDelimited(f, bin, pre, size, post) ==
  /\ f[0] = <<>>
  /\ \A k \in 1 .. Len(bin) : f[k] = PutByte(f[k - 1], size - 1, pre, bin[k], post)

LEMMA DelimBuilds ==
  ASSUME NEW bin \in Seq(Byte), NEW pre \in Seq(Nat), NEW size \in Nat \ {0}, NEW post \in Seq(Nat)
  PROVE  \E f : /\ IsDelimited(f, bin, pre, size, post) /\ CNV_BinToHexDelim(bin, pre, size, post) = f[Len(bin)]
                /\ \A k \in 0 .. Len(bin) : f[k] \in Seq(Nat)
<1> DEFINE N == Len(bin)
           X == Seq(Nat)
           next(k, s) == PutByte(s, size - 1, pre, bin[k], post)
           step == [p \in (1 .. N) \X X |-> next(p[1], p[2])]
<1>1. N \in Nat
  OBVIOUS
<1>2. <<>> \in X
  OBVIOUS
<1>3. ASSUME NEW k \in 1 .. N, NEW s \in X PROVE next(k, s) \in X
  BY <1>3, PutByteIs
<1>4. step \in [(1 .. N) \X X -> X] /\ \A k \in 1 .. N, s \in X : step[<<k, s>>] = next(k, s)
  <2> HIDE DEF next, N, X
  <2> QED BY <1>3
<1>5. PICK f : Follows(f, X, <<>>, step, N)
  <2> HIDE DEF step, N, X
  <2> QED BY <1>1, <1>2, <1>4, Recursion
<1> DEFINE Is(g) == g = [k \in 0 .. N |-> IF k = 0 THEN <<>> ELSE next(k, g[k - 1])]
<1>6. ASSUME NEW k \in 0 .. N PROVE f[k] = IF k = 0 THEN <<>> ELSE next(k, f[k - 1])
  <2> HIDE DEF next, step, N, X
  <2>1. CASE k = 0
    BY <1>5, <2>1 DEF Follows
  <2>2. CASE k # 0
    <3>1. k \in 1 .. N /\ k - 1 \in 0 .. N
      BY <1>1, <2>2
    <3>2. f[k - 1] \in X /\ f[k] = step[<<k, f[k - 1]>>]
      BY <1>5, <3>1 DEF Follows
    <3> QED BY <1>4, <2>2, <3>1, <3>2
  <2> QED BY <2>1, <2>2
<1>7. Is(f)
  <2>1. f = [k \in 0 .. N |-> f[k]]
    BY <1>5 DEF Follows
  <2> HIDE DEF step, X, next, N
  <2> QED BY <1>6, <2>1, Zenon
<1> DEFINE found[k \in 0 .. N] == IF k = 0 THEN <<>> ELSE PutByte(found[k - 1], size - 1, pre, bin[k], post)
<1>8. Is(found)
  <2>1. \E g : Is(g)
    BY <1>7
  <2> QED BY <2>1, Zenon
<1>9. CNV_BinToHexDelim(bin, pre, size, post) = found[N]
  BY Zenon DEF CNV_BinToHexDelim
<1> HIDE DEF found
<1>10. \A k \in 0 .. N : found[k] = IF k = 0 THEN <<>> ELSE next(k, found[k - 1])
  <2> HIDE DEF N, X, next
  <2> QED BY <1>8, Zenon
<1> HIDE DEF Is
<1>11. found[0] = <<>> /\ \A k \in 1 .. N : found[k] = next(k, found[k - 1])
  <2> HIDE DEF N, X, next
  <2>1. 0 \in 0 .. N /\ \A k \in 1 .. N : k \in 0 .. N /\ k # 0
    BY <1>1
  <2>2. found[0] = <<>>
    BY <1>10, <2>1, Zenon
  <2>3. ASSUME NEW k \in 1 .. N PROVE found[k] = next(k, found[k - 1])
    BY <1>10, <2>1, Zenon
  <2> QED BY <2>2, <2>3
<1>12. \A k \in 0 .. N : found[k] \in X
  <2> HIDE DEF N, X, next
  <2>1. found[0] \in X
    BY <1>2, <1>11
  <2>2. \A k \in 1 .. N : found[k - 1] \in X => found[k] \in X
    BY <1>3, <1>11
  <2> QED BY <1>1, <2>1, <2>2, RecursionStays
<1>13. IsDelimited(found, bin, pre, size, post)
  BY <1>11, Zenon DEF IsDelimited
<1> QED BY <1>9, <1>12, <1>13, Zenon

LEMMA DelimitedFits ==
  ASSUME NEW bin \in Seq(Byte), NEW pre \in Seq(Nat), NEW size \in Nat \ {0}, NEW post \in Seq(Nat),
         Len(pre) < size, Len(post) < size
  PROVE  Len(CNV_BinToHexDelim(bin, pre, size, post)) < size
<1>1. PICK f : /\ IsDelimited(f, bin, pre, size, post) /\ CNV_BinToHexDelim(bin, pre, size, post) = f[Len(bin)]
               /\ \A k \in 0 .. Len(bin) : f[k] \in Seq(Nat)
  BY DelimBuilds
<1> DEFINE room == size - 1
           X == {s \in Seq(Nat) : Len(s) <= room}
<1>2. room \in Nat /\ Len(pre) <= room /\ Len(post) <= room /\ Len(bin) \in Nat
  OBVIOUS
<1>3. f[0] \in X
  BY <1>1, <1>2 DEF IsDelimited
<1>4. ASSUME NEW k \in 1 .. Len(bin), f[k - 1] \in X PROVE f[k] \in X
  <2>1. f[k] = PutByte(f[k - 1], room, pre, bin[k], post)
    BY <1>1 DEF IsDelimited
  <2>2. bin[k] \in Byte
    OBVIOUS
  <2> HIDE DEF room
  <2> QED BY <1>2, <1>4, <2>1, <2>2, PutByteIs
<1>5. \A k \in 0 .. Len(bin) : f[k] \in X
  <2> HIDE DEF X
  <2> QED BY <1>2, <1>3, <1>4, RecursionStays
<1>6. f[Len(bin)] \in X
  <2> HIDE DEF X
  <2> QED BY <1>2, <1>5
<1> QED BY <1>1, <1>6

\* The first n bytes, or all.
Upto(bin, n) == SubSeq(bin, 1, AtMost(n, Len(bin)))

LEMMA UptoIs ==
  ASSUME NEW X, NEW q \in Seq(X), NEW n \in Nat
  PROVE  /\ Upto(q, n) \in Seq(X) /\ Len(Upto(q, n)) = AtMost(n, Len(q))
         /\ AtMost(n, Len(q)) <= n /\ AtMost(n, Len(q)) <= Len(q) /\ AtMost(n, Len(q)) \in Nat
         /\ IsPrefix(Upto(q, n), q)
         /\ n < Len(q) => Upto(q, n + 1) = Append(Upto(q, n), q[n + 1])
         /\ Upto(q, 0) = <<>> /\ (n >= Len(q) => Upto(q, n) = q)
<1> DEFINE m == AtMost(n, Len(q))
<1>0. Len(q) \in Nat
  OBVIOUS
<1>1. m \in 0 .. Len(q) /\ m <= n /\ (n < Len(q) => m = n) /\ (n >= Len(q) => m = Len(q)) /\ m \in Nat
  BY <1>0 DEF AtMost
<1>2. Upto(q, n) = SubSeq(q, 1, m)
  BY DEF Upto
<1> HIDE DEF m
<1>3. SubSeq(q, 1, m) \in Seq(X) /\ Len(SubSeq(q, 1, m)) = m
  BY <1>0, <1>1
<1>4. SubSeq(SubSeq(q, 1, m), 1, m) = SubSeq(q, 1, m)
  BY <1>3, SubSeqFull, Zenon
<1>5. IsPrefix(SubSeq(q, 1, m), q)
  BY <1>0, <1>1, <1>3, <1>4 DEF IsPrefix
<1>6. ASSUME n < Len(q) PROVE Upto(q, n + 1) = Append(Upto(q, n), q[n + 1])
  <2>1. AtMost(n + 1, Len(q)) = n + 1 /\ AtMost(n, Len(q)) = n
    BY <1>0, <1>6 DEF AtMost
  <2>2. n + 1 \in 1 .. Len(q) /\ (n + 1) - 1 = n
    BY <1>0, <1>6
  <2>3. SubSeq(q, 1, n + 1) = Append(SubSeq(q, 1, (n + 1) - 1), q[n + 1])
    BY <2>2, FirstGrows, Zenon
  <2> QED BY <2>1, <2>2, <2>3 DEF Upto
<1>7. Upto(q, 0) = <<>>
  <2>1. AtMost(0, Len(q)) = 0
    BY <1>0 DEF AtMost
  <2> QED BY <2>1, SubSeqEmpty DEF Upto
<1>8. n >= Len(q) => Upto(q, n) = q
  BY <1>1, <1>2, SubSeqFull
<1> QED BY <1>1, <1>2, <1>3, <1>5, <1>6, <1>7, <1>8 DEF m

LEMMA PairAppended ==
  ASSUME NEW X, NEW q \in Seq(X), NEW x \in X, NEW y \in X
  PROVE  q \o <<x, y>> = Append(Append(q, x), y)
<1>1. <<x, y>> = Append(<<x>>, y) /\ <<x>> = Append(<<>>, x) /\ <<>> \in Seq(X) /\ <<x>> \in Seq(X)
  OBVIOUS
<1> QED BY <1>1, ConcatAppend

\* Without delimiters a text is the digits of the bytes for which there is room.
LEMMA DelimPlain ==
  ASSUME NEW bin \in Seq(Byte), NEW size \in Nat, size > 2
  PROVE  CNV_BinToHexDelim(bin, <<>>, size, <<>>) = HexOf(Upto(bin, (size - 1) \div 2))
<1>1. <<>> \in Seq(Nat) /\ size \in Nat \ {0} /\ Len(bin) \in Nat
  OBVIOUS
<1>2. PICK f : IsDelimited(f, bin, <<>>, size, <<>>) /\ CNV_BinToHexDelim(bin, <<>>, size, <<>>) = f[Len(bin)]
  BY <1>1, DelimBuilds, ZenonT(30)
<1> DEFINE room == size - 1
           half == room \div 2
           upto(k) == Upto(bin, AtMost(k, half))
           S == {k \in Nat : k <= Len(bin) => f[k] = HexOf(upto(k))}
<1>3. half \in Nat /\ room \in Nat /\ room >= 2 /\ 2 * half <= room /\ room <= 2 * half + 1
  OBVIOUS
<1> HIDE DEF room, half
<1>4. \A k \in Nat : AtMost(k, half) \in Nat
  BY <1>3 DEF AtMost
<1>5. 0 \in S
  <2>1. f[0] = <<>> /\ AtMost(0, half) = 0
    BY <1>2, <1>3 DEF IsDelimited, AtMost
  <2> QED BY <2>1, UptoIs, HexOfNothing
<1>6. ASSUME NEW k \in Nat, k \in S PROVE k + 1 \in S
  <2> SUFFICES ASSUME k + 1 <= Len(bin) PROVE f[k + 1] = HexOf(upto(k + 1))
    OBVIOUS
  <2> DEFINE u == upto(k)
             m == AtMost(k, half)
             v == bin[k + 1]
  <2>1. k < Len(bin) /\ k + 1 \in 1 .. Len(bin) /\ (k + 1) - 1 = k /\ v \in Byte
    BY <1>1
  <2>2. f[k] = HexOf(u)
    BY <1>6, <2>1
  <2>3. u \in Seq(Byte) /\ Len(u) = m /\ m \in Nat
    <3>1. Len(u) = AtMost(m, Len(bin)) /\ u \in Seq(Byte)
      BY <1>4, UptoIs
    <3>2. AtMost(m, Len(bin)) = m
      BY <1>3, <2>1 DEF AtMost
    <3> QED BY <1>4, <3>1, <3>2
  <2>4. HexOf(u) \in Seq(Digit) /\ Len(HexOf(u)) = 2 * m
    BY <2>3, HexOfIs
  <2>5. f[k + 1] = PutByte(HexOf(u), room, <<>>, v, <<>>)
    <3>1. f[k + 1] = PutByte(f[(k + 1) - 1], room, <<>>, v, <<>>)
      BY <1>2, <2>1, Zenon DEF IsDelimited, room
    <3> QED BY <2>1, <2>2, <3>1
  <2> HIDE DEF u, v
  <2>6. f[k + 1] = IF Len(HexOf(u)) < room THEN PutDigits(HexOf(u), room, v) ELSE HexOf(u)
    BY <2>5, Zenon DEF PutByte, PutDelim
  <2>7. CASE k < half
    <3>1. m = k /\ AtMost(k + 1, half) = k + 1 /\ 2 * m < room /\ 2 * m <= room - 2 /\ ~(room < 2)
      BY <1>3, <2>7 DEF AtMost
    <3>2. f[k + 1] = HexOf(u) \o CNV_BinByteToAscHexByte(v)
      BY <2>4, <2>6, <3>1 DEF PutDigits
    <3>3. upto(k + 1) = Append(u, v)
      BY <2>1, <3>1, UptoIs DEF u, v
    <3>4. HexOf(Append(u, v)) = Append(Append(HexOf(u), v \div 16), v % 16)
      BY <2>1, <2>3, HexOfAppend
    <3>5. HexOf(u) \o CNV_BinByteToAscHexByte(v) = Append(Append(HexOf(u), v \div 16), v % 16)
      BY <2>1, <2>4, PairAppended DEF CNV_BinByteToAscHexByte
    <3> QED BY <3>2, <3>3, <3>4, <3>5
  <2>8. CASE ~(k < half)
    <3>1. m = half /\ AtMost(k + 1, half) = half
      BY <1>3, <2>8 DEF AtMost
    <3>2. ~(2 * m <= room - 2)
      BY <1>3, <3>1
    <3>3. f[k + 1] = HexOf(u)
      BY <1>3, <2>4, <2>6, <3>2 DEF PutDigits
    <3> QED BY <3>1, <3>3 DEF u
  <2> QED BY <2>7, <2>8
<1>7. \A k \in Nat : k \in S
  <2> HIDE DEF S
  <2> QED BY <1>5, <1>6, NumbersByInduction
<1>8. f[Len(bin)] = HexOf(upto(Len(bin)))
  BY <1>1, <1>7
<1>9. upto(Len(bin)) = Upto(bin, half)
  BY <1>1, <1>3 DEF Upto, AtMost
<1> QED BY <1>2, <1>8, <1>9 DEF half, room

LEMMA NybblesOfColon ==
  ASSUME NEW s \in Seq(Nat)
  PROVE  s \o Colon \in Seq(Nat) /\ Len(s \o Colon) = Len(s) + 1 /\ Nybbles(s \o Colon) = Nybbles(s)
<1>1. OtherChar \in Nat /\ ~isHex(OtherChar)
  BY NybbleOfHex DEF OtherChar
<1> HIDE DEF OtherChar
<1>2. s \o Colon = Append(s, OtherChar)
  BY <1>1, AppendIsConcat, Zenon DEF Colon
<1>3. Append(s, OtherChar) \in Seq(Nat) /\ Len(Append(s, OtherChar)) = Len(s) + 1
  BY <1>1
<1>4. Nybbles(Append(s, OtherChar)) = Nybbles(s)
  BY <1>1, NybblesAppend
<1> QED BY <1>2, <1>3, <1>4

LEMMA NybblesOfByte ==
  ASSUME NEW s \in Seq(Nat), NEW bin \in Seq(Byte), NEW v \in Byte, Nybbles(s) = HexOf(bin)
  PROVE  /\ s \o CNV_BinByteToAscHexByte(v) \in Seq(Nat)
         /\ Len(s \o CNV_BinByteToAscHexByte(v)) = Len(s) + 2
         /\ Nybbles(s \o CNV_BinByteToAscHexByte(v)) = HexOf(Append(bin, v))
<1> DEFINE h == CNV_BinByteToAscHexByte(v)
<1>1. h \in Seq(Digit) /\ h \in Seq(Nat) /\ Len(h) = 2
  BY HalvesOfByte, DigitsAreNat, Zenon
<1>2. Nybbles(h) = h
  BY <1>1, NybblesOfDigits
<1>3. HexOf(Append(bin, v)) = HexOf(bin) \o h
  <2>1. v \div 16 \in Digit /\ v % 16 \in Digit /\ HexOf(bin) \in Seq(Digit)
    BY HalvesOfByte, HexOfIs, Zenon
  <2> DEFINE x == v \div 16
             y == v % 16
  <2>2. HexOf(bin) \o <<x, y>> = Append(Append(HexOf(bin), x), y)
    <3> HIDE DEF x, y
    <3>1. x \in Digit /\ y \in Digit /\ HexOf(bin) \in Seq(Digit)
      BY <2>1 DEF x, y
    <3> QED BY <3>1, PairAppended
  <2> QED BY <2>2, HexOfAppend, Zenon DEF CNV_BinByteToAscHexByte
<1> HIDE DEF h
<1>4. Nybbles(s \o h) = Nybbles(s) \o Nybbles(h)
  BY <1>1, NybblesConcat
<1>5. s \o h \in Seq(Nat) /\ Len(s \o h) = Len(s) + 2
  <2>1. s \o h \in Seq(Nat) /\ Len(s \o h) = Len(s) + Len(h)
    BY <1>1, ConcatProperties, Zenon
  <2> QED BY <1>1, <2>1
<1> QED BY <1>2, <1>3, <1>4, <1>5 DEF h

ColonOuts == [str : Seq(Nat), done : Nat]
\* What there is before a byte is appended.
ColonStart(s) == IF s = <<>> THEN <<>> ELSE s \o Colon

LEMMA ColonStartIs ==
  ASSUME NEW s \in Seq(Nat)
  PROVE  /\ ColonStart(s) \in Seq(Nat) /\ Len(ColonStart(s)) <= Len(s) + 1
         /\ Nybbles(ColonStart(s)) = Nybbles(s)
BY NybblesOfColon DEF ColonStart

LEMMA PutColonByteIs ==
  ASSUME NEW o \in ColonOuts, NEW size \in Nat, NEW v \in Byte
  PROVE  /\ PutColonByte(o, size, v) \in ColonOuts
         /\ PutColonByte(o, size, v) =
              IF size - 1 - Len(o.str) > 3
              THEN [str |-> ColonStart(o.str) \o CNV_BinByteToAscHexByte(v), done |-> o.done + 1]
              ELSE o
<1>1. ColonStart(o.str) \in Seq(Nat) /\ o.done + 1 \in Nat
  BY ColonStartIs DEF ColonOuts
<1>2. CNV_BinByteToAscHexByte(v) \in Seq(Nat)
  BY HalvesOfByte, DigitsAreNat, Zenon
<1> DEFINE s == ColonStart(o.str) \o CNV_BinByteToAscHexByte(v)
<1>3. s \in Seq(Nat)
  BY <1>1, <1>2, ConcatProperties, Zenon
<1>4. PutColonByte(o, size, v) =
        IF size - 1 - Len(o.str) > 3 THEN [str |-> s, done |-> o.done + 1] ELSE o
  BY DEF PutColonByte, ColonStart
<1> HIDE DEF s
<1>5. [str |-> s, done |-> o.done + 1] \in ColonOuts
  BY <1>1, <1>3 DEF ColonOuts
<1>6. PutColonByte(o, size, v) \in ColonOuts
  BY <1>4, <1>5
<1> QED BY <1>4, <1>6 DEF s

\* The text, and the number of the bytes that are in it, after each byte.
IsColoned(f, bin, size) ==
  /\ f[0] = [str |-> <<>>, done |-> 0]
  /\ \A k \in 1 .. Len(bin) : f[k] = PutColonByte(f[k - 1], size, bin[k])

LEMMA ColonsBuild ==
  ASSUME NEW bin \in Seq(Byte), NEW size \in Nat
  PROVE  \E f : /\ IsColoned(f, bin, size) /\ CNV_convertArrayToHexWithColons(bin, size) =
                     IF f[Len(bin)].done < Len(bin) /\ Len(f[Len(bin)].str) < size - 1
                     THEN f[Len(bin)].str \o Colon ELSE f[Len(bin)].str
                /\ \A k \in 0 .. Len(bin) : f[k] \in ColonOuts
<1> DEFINE N == Len(bin)
           X == ColonOuts
           next(k, s) == PutColonByte(s, size, bin[k])
           step == [p \in (1 .. N) \X X |-> next(p[1], p[2])]
<1>1. N \in Nat
  OBVIOUS
<1>2. [str |-> <<>>, done |-> 0] \in X
  BY DEF ColonOuts
<1>3. ASSUME NEW k \in 1 .. N, NEW s \in X PROVE next(k, s) \in X
  <2>1. bin[k] \in Byte
    OBVIOUS
  <2> HIDE DEF N
  <2> QED BY <2>1, PutColonByteIs, Zenon
<1>4. step \in [(1 .. N) \X X -> X] /\ \A k \in 1 .. N, s \in X : step[<<k, s>>] = next(k, s)
  <2> HIDE DEF next, N, X
  <2> QED BY <1>3
<1>5. PICK f : Follows(f, X, [str |-> <<>>, done |-> 0], step, N)
  <2> HIDE DEF step, N, X
  <2> QED BY <1>1, <1>2, <1>4, Recursion
<1> DEFINE Is(g) == g = [k \in 0 .. N |-> IF k = 0 THEN [str |-> <<>>, done |-> 0] ELSE next(k, g[k - 1])]
<1>6. ASSUME NEW k \in 0 .. N PROVE f[k] = IF k = 0 THEN [str |-> <<>>, done |-> 0] ELSE next(k, f[k - 1])
  <2> HIDE DEF next, step, N, X
  <2>1. CASE k = 0
    BY <1>5, <2>1 DEF Follows
  <2>2. CASE k # 0
    <3>1. k \in 1 .. N /\ k - 1 \in 0 .. N
      BY <1>1, <2>2
    <3>2. f[k - 1] \in X /\ f[k] = step[<<k, f[k - 1]>>]
      BY <1>5, <3>1 DEF Follows
    <3> QED BY <1>4, <2>2, <3>1, <3>2
  <2> QED BY <2>1, <2>2
<1>7. Is(f)
  <2>1. f = [k \in 0 .. N |-> f[k]]
    BY <1>5 DEF Follows
  <2> HIDE DEF step, X, next, N
  <2> QED BY <1>6, <2>1, Zenon
<1> DEFINE found[k \in 0 .. N] == IF k = 0 THEN [str |-> <<>>, done |-> 0] ELSE PutColonByte(found[k - 1], size, bin[k])
<1>8. Is(found)
  <2>1. \E g : Is(g)
    BY <1>7
  <2> QED BY <2>1, Zenon
<1>9. CNV_convertArrayToHexWithColons(bin, size) =
        IF found[N].done < N /\ Len(found[N].str) < size - 1 THEN found[N].str \o Colon ELSE found[N].str
  BY Zenon DEF CNV_convertArrayToHexWithColons
<1> HIDE DEF found
<1>10. \A k \in 0 .. N : found[k] = IF k = 0 THEN [str |-> <<>>, done |-> 0] ELSE next(k, found[k - 1])
  <2> HIDE DEF N, X, next
  <2> QED BY <1>8, Zenon
<1> HIDE DEF Is
<1>11. found[0] = [str |-> <<>>, done |-> 0] /\ \A k \in 1 .. N : found[k] = next(k, found[k - 1])
  <2> HIDE DEF N, X, next
  <2>1. 0 \in 0 .. N /\ \A k \in 1 .. N : k \in 0 .. N /\ k # 0
    BY <1>1
  <2>2. found[0] = [str |-> <<>>, done |-> 0]
    BY <1>10, <2>1, Zenon
  <2>3. ASSUME NEW k \in 1 .. N PROVE found[k] = next(k, found[k - 1])
    BY <1>10, <2>1, Zenon
  <2> QED BY <2>2, <2>3
<1>12. \A k \in 0 .. N : found[k] \in X
  <2> HIDE DEF N, X, next
  <2>1. found[0] \in X
    BY <1>2, <1>11
  <2>2. \A k \in 1 .. N : found[k - 1] \in X => found[k] \in X
    BY <1>3, <1>11
  <2> QED BY <1>1, <2>1, <2>2, RecursionStays
<1>13. IsColoned(found, bin, size)
  BY <1>11, Zenon DEF IsColoned
<1> QED BY <1>9, <1>12, <1>13, Zenon

\* What there is after k bytes: the bytes that are in the text, all of them while
\* there is room.
Coloned(o, k, bin, size) ==
  /\ o.done <= k /\ Len(o.str) < size
  /\ Nybbles(o.str) = HexOf(Upto(bin, o.done))
  /\ o.done = k \/ size - 1 - Len(o.str) <= 3

LEMMA ColonedGoesOn ==
  ASSUME NEW bin \in Seq(Byte), NEW size \in Nat \ {0}, NEW k \in Nat, k < Len(bin),
         NEW o \in ColonOuts, Coloned(o, k, bin, size)
  PROVE  Coloned(PutColonByte(o, size, bin[k + 1]), k + 1, bin, size)
<1> DEFINE v == bin[k + 1]
           r == PutColonByte(o, size, v)
<1>1. v \in Byte
  BY SMT
<1>2. o.str \in Seq(Nat) /\ o.done \in Nat /\ Len(o.str) \in Nat
  BY DEF ColonOuts
<1> DEFINE p == Len(o.str)
           room == size - 1 - p
<1>6. p \in Nat /\ room \in Int /\ room = size - 1 - p
  BY <1>2
<1>7. o.done <= k /\ p < size /\ (o.done = k \/ room <= 3)
  BY Zenon DEF Coloned
<1> HIDE DEF v, p
<1>3. r = IF room > 3
          THEN [str |-> ColonStart(o.str) \o CNV_BinByteToAscHexByte(v), done |-> o.done + 1] ELSE o
  BY <1>1, PutColonByteIs DEF p
<1> HIDE DEF room
<1>4. CASE room > 3
  <2> DEFINE s == ColonStart(o.str)
             h == CNV_BinByteToAscHexByte(v)
             u == Upto(bin, k)
  <2>1. o.done = k
    BY <1>4, <1>6, <1>7
  <2>2. s \in Seq(Nat) /\ Len(s) <= Len(o.str) + 1 /\ Nybbles(s) = HexOf(u)
    BY <1>2, <2>1, ColonStartIs DEF Coloned
  <2>3. u \in Seq(Byte) /\ Upto(bin, k + 1) = Append(u, v)
    BY UptoIs, SMTT(30) DEF v
  <2> HIDE DEF u
  <2>4. r.str = s \o h /\ r.done = k + 1
    BY <1>3, <1>4, <2>1
  <2> HIDE DEF s, r
  <2>5. s \o h \in Seq(Nat) /\ Len(s \o h) = Len(s) + 2 /\ Nybbles(s \o h) = HexOf(Append(u, v))
    BY <1>1, <2>2, <2>3, NybblesOfByte
  <2>6. Nybbles(r.str) = HexOf(Upto(bin, r.done))
    BY <2>3, <2>4, <2>5
  <2>7. Len(r.str) < size
    <3> DEFINE q == Len(s)
               l == Len(s \o h)
    <3>1. q \in Nat /\ l = q + 2 /\ q <= p + 1
      BY <2>2, <2>5 DEF p
    <3> HIDE DEF q, l
    <3>2. l < size
      BY <1>4, <1>6, <3>1
    <3> QED BY <2>4, <3>2 DEF l
  <2>8. r.done <= k + 1 /\ r.done = k + 1
    BY <2>4
  <2>9. Coloned(r, k + 1, bin, size)
    BY <2>6, <2>7, <2>8, Zenon DEF Coloned
  <2> QED BY <2>9 DEF r, v
<1>5. CASE ~(room > 3)
  <2>1. r = o
    BY <1>3, <1>5
  <2> HIDE DEF r
  <2>2. o.done <= k + 1 /\ size - 1 - Len(o.str) <= 3
    <3>1. o.done <= k + 1 /\ size - 1 - p <= 3
      BY <1>2, <1>5, <1>6, <1>7
    <3> QED BY <3>1 DEF p
  <2>3. Len(o.str) < size /\ Nybbles(o.str) = HexOf(Upto(bin, o.done))
    BY DEF Coloned
  <2>4. Coloned(o, k + 1, bin, size)
    BY <2>2, <2>3, Zenon DEF Coloned
  <2> QED BY <2>1, <2>4 DEF r, v
<1> QED BY <1>4, <1>5

LEMMA ColonsFit ==
  ASSUME NEW bin \in Seq(Byte), NEW size \in Nat \ {0}
  PROVE  /\ Len(CNV_convertArrayToHexWithColons(bin, size)) < size
         /\ CNV_convertArrayToHexWithColons(bin, size) \in Seq(Nat)
         /\ \E n \in 0 .. Len(bin) : Nybbles(CNV_convertArrayToHexWithColons(bin, size)) = HexOf(Upto(bin, n))
<1> DEFINE N == Len(bin)
<1>1. PICK f : /\ IsColoned(f, bin, size) /\ \A k \in 0 .. N : f[k] \in ColonOuts
               /\ CNV_convertArrayToHexWithColons(bin, size) =
                     IF f[N].done < N /\ Len(f[N].str) < size - 1 THEN f[N].str \o Colon ELSE f[N].str
  BY ColonsBuild
<1> DEFINE S == {k \in Nat : k <= N => Coloned(f[k], k, bin, size)}
<1>2. N \in Nat
  OBVIOUS
<1> HIDE DEF N
<1>3. 0 \in S
  <2>1. f[0] = [str |-> <<>>, done |-> 0]
    BY <1>1, Zenon DEF IsColoned
  <2>2. f[0].str = <<>> /\ f[0].done = 0
    BY <2>1
  <2>3. Nybbles(<<>>) = HexOf(Upto(bin, 0))
    BY UptoIs, HexOfNothing, NybblesEmpty
  <2> QED BY <2>2, <2>3 DEF Coloned
<1>4. ASSUME NEW k \in Nat, k \in S PROVE k + 1 \in S
  <2> SUFFICES ASSUME k + 1 <= N PROVE Coloned(f[k + 1], k + 1, bin, size)
    OBVIOUS
  <2>1. k < N /\ k \in 0 .. N /\ k + 1 \in 1 .. N /\ (k + 1) - 1 = k
    BY <1>2
  <2>2. f[k] \in ColonOuts /\ f[k + 1] = PutColonByte(f[k], size, bin[k + 1])
    BY <1>1, <2>1, Zenon DEF IsColoned, N
  <2>3. Coloned(f[k], k, bin, size)
    BY <1>4, <2>1
  <2> QED BY <2>1, <2>2, <2>3, ColonedGoesOn DEF N
<1>5. Coloned(f[N], N, bin, size)
  <2>1. \A k \in Nat : k \in S
    <3> HIDE DEF S
    <3> QED BY <1>3, <1>4, NumbersByInduction
  <2> QED BY <1>2, <2>1
<1> DEFINE s == f[N].str
<1>6. s \in Seq(Nat) /\ f[N].done \in Nat /\ Len(s) \in Nat
  BY <1>1, <1>2 DEF ColonOuts
<1>7. s \o Colon \in Seq(Nat) /\ Len(s \o Colon) = Len(s) + 1 /\ Nybbles(s \o Colon) = Nybbles(s)
  <2> HIDE DEF s
  <2> QED BY <1>6, NybblesOfColon
<1>8. f[N].done \in 0 .. N /\ Len(s) < size /\ Nybbles(s) = HexOf(Upto(bin, f[N].done))
  BY <1>2, <1>5, <1>6 DEF Coloned
<1> DEFINE t == CNV_convertArrayToHexWithColons(bin, size)
<1>9. (t = s \/ t = s \o Colon) /\ Len(t) < size
  <2>1. t = IF f[N].done < N /\ Len(s) < size - 1 THEN s \o Colon ELSE s
    BY <1>1
  <2> HIDE DEF s, t
  <2> QED BY <1>6, <1>7, <1>8, <2>1
<1> HIDE DEF s, t
<1>10. Len(t) < size /\ t \in Seq(Nat) /\ Nybbles(t) = Nybbles(s)
  BY <1>6, <1>7, <1>9
<1> QED BY <1>8, <1>10 DEF t, N

LEMMA HexFits ==
  ASSUME hexBin \in Seq(Byte)
  PROVE  HexStaysInBuffer
<1> SUFFICES ASSUME NEW size \in BufSizes
             PROVE  /\ \A pre, post \in Delims :
                         Len(pre) < size /\ Len(post) < size =>
                           /\ Len(CNV_BinToHexDelim(hexBin, pre, size, post)) < size
                           /\ (pre = <<>> /\ post = <<>> /\ size > 2) =>
                                IsPrefix(CNV_AsciiHexToBinStr(CNV_BinToHexDelim(hexBin, pre, size, post)), hexBin)
                    /\ Len(CNV_BinToHex(hexBin, size)) < size
                    /\ Len(CNV_convertArrayToHexWithColons(hexBin, size)) < size
                    /\ IsPrefix(CNV_AsciiHexToBinStr(CNV_convertArrayToHexWithColons(hexBin, size)), hexBin)
  BY DEF HexStaysInBuffer
<1>1. size \in Nat \ {0} /\ size \in Nat
  BY HexAssumption
<1>2. ASSUME NEW n \in Nat, NEW text \in Seq(Nat), Nybbles(text) = HexOf(Upto(hexBin, n))
      PROVE  IsPrefix(CNV_AsciiHexToBinStr(text), hexBin)
  <2>1. Upto(hexBin, n) \in Seq(Byte) /\ IsPrefix(Upto(hexBin, n), hexBin)
    BY UptoIs
  <2>2. CNV_AsciiHexToBinStr(text) = Upto(hexBin, n)
    BY <1>2, <2>1, HexIsRead
  <2> QED BY <2>1, <2>2
<1>3. ASSUME NEW pre \in Delims, NEW post \in Delims, Len(pre) < size, Len(post) < size
      PROVE  /\ Len(CNV_BinToHexDelim(hexBin, pre, size, post)) < size
             /\ (pre = <<>> /\ post = <<>> /\ size > 2) =>
                   IsPrefix(CNV_AsciiHexToBinStr(CNV_BinToHexDelim(hexBin, pre, size, post)), hexBin)
  <2>1. pre \in Seq(Nat) /\ post \in Seq(Nat)
    BY HexAssumption
  <2>2. Len(CNV_BinToHexDelim(hexBin, pre, size, post)) < size
    BY <1>1, <1>3, <2>1, DelimitedFits
  <2>3. ASSUME pre = <<>>, post = <<>>, size > 2
        PROVE  IsPrefix(CNV_AsciiHexToBinStr(CNV_BinToHexDelim(hexBin, pre, size, post)), hexBin)
    <3> DEFINE n == (size - 1) \div 2
               text == HexOf(Upto(hexBin, n))
    <3>1. n \in Nat
      BY <1>1
    <3> HIDE DEF n
    <3>2. Upto(hexBin, n) \in Seq(Byte)
      BY <3>1, UptoIs
    <3>3. text \in Seq(Digit) /\ text \in Seq(Nat)
      BY <3>2, HexOfIs, DigitsAreNat, Zenon
    <3>4. Nybbles(text) = text
      BY <3>3, NybblesOfDigits
    <3>5. CNV_BinToHexDelim(hexBin, pre, size, post) = text
      BY <1>1, <2>3, DelimPlain, Zenon DEF n
    <3> HIDE DEF text
    <3>6. Nybbles(text) = HexOf(Upto(hexBin, n))
      BY <3>4 DEF text
    <3> QED BY <1>2, <3>1, <3>3, <3>5, <3>6
  <2> QED BY <2>2, <2>3
<1>4. Len(CNV_BinToHex(hexBin, size)) < size
  <2> DEFINE n == (size - 1) \div 2
  <2>1. n \in Nat /\ 2 * n < size
    BY <1>1
  <2>2. CNV_BinToHex(hexBin, size) = HexOf(Upto(hexBin, n))
    BY DEF CNV_BinToHex, Upto
  <2> HIDE DEF n
  <2>3. Upto(hexBin, n) \in Seq(Byte) /\ Len(Upto(hexBin, n)) <= n /\ Len(Upto(hexBin, n)) \in Nat
    BY <2>1, UptoIs
  <2>4. Len(HexOf(Upto(hexBin, n))) = 2 * Len(Upto(hexBin, n))
    BY <2>3, HexOfIs
  <2> QED BY <1>1, <2>1, <2>2, <2>3, <2>4
<1>5. /\ Len(CNV_convertArrayToHexWithColons(hexBin, size)) < size
      /\ IsPrefix(CNV_AsciiHexToBinStr(CNV_convertArrayToHexWithColons(hexBin, size)), hexBin)
  <2> DEFINE t == CNV_convertArrayToHexWithColons(hexBin, size)
  <2>1. Len(t) < size /\ t \in Seq(Nat) /\ \E n \in 0 .. Len(hexBin) : Nybbles(t) = HexOf(Upto(hexBin, n))
    BY <1>1, ColonsFit
  <2> HIDE DEF t
  <2>2. PICK n \in 0 .. Len(hexBin) : Nybbles(t) = HexOf(Upto(hexBin, n))
    BY <2>1
  <2>3. n \in Nat
    OBVIOUS
  <2>4. IsPrefix(CNV_AsciiHexToBinStr(t), hexBin)
    BY <1>2, <2>1, <2>2, <2>3, Zenon
  <2> QED BY <2>1, <2>4 DEF t
<1> QED BY <1>3, <1>4, <1>5

-----------------------------------------------------------------------------
(* Numbers as text, and texts that are cut off.                              *)

\* What is left of a number after each digit.
IsTenths(f, n, maxLen) ==
  /\ f[0] = n
  /\ \A k \in 1 .. maxLen : f[k] = f[k - 1] \div 10

DigitCount(more, maxLen) ==
  CHOOSE k \in 1 .. maxLen :
                 /\ more[k] = 0 \/ k = maxLen
                 /\ \A j \in 1 .. k - 1 : more[j] > 0

LEMMA TenthsBuild ==
  ASSUME NEW n \in Nat, NEW maxLen \in Nat \ {0}
  PROVE  \E f : /\ IsTenths(f, n, maxLen) /\ util_uitoa_intern(n, maxLen) = [i \in 1 .. DigitCount(f, maxLen) |-> f[i - 1] % 10]
                /\ \A k \in 0 .. maxLen : f[k] \in Nat
<1> DEFINE N == maxLen
           X == Nat
           next(k, s) == s \div 10
           step == [p \in (1 .. N) \X X |-> next(p[1], p[2])]
<1>1. N \in Nat
  OBVIOUS
<1>2. n \in X
  OBVIOUS
<1>3. ASSUME NEW k \in 1 .. N, NEW s \in X PROVE next(k, s) \in X
  BY SMT DEF next
<1>4. step \in [(1 .. N) \X X -> X] /\ \A k \in 1 .. N, s \in X : step[<<k, s>>] = next(k, s)
  <2> HIDE DEF next, N, X
  <2> QED BY <1>3
<1>5. PICK f : Follows(f, X, n, step, N)
  <2> HIDE DEF step, N, X
  <2> QED BY <1>1, <1>2, <1>4, Recursion
<1> DEFINE Is(g) == g = [k \in 0 .. N |-> IF k = 0 THEN n ELSE next(k, g[k - 1])]
<1>6. ASSUME NEW k \in 0 .. N PROVE f[k] = IF k = 0 THEN n ELSE next(k, f[k - 1])
  <2> HIDE DEF next, step, N, X
  <2>1. CASE k = 0
    BY <1>5, <2>1 DEF Follows
  <2>2. CASE k # 0
    <3>1. k \in 1 .. N /\ k - 1 \in 0 .. N
      BY <1>1, <2>2
    <3>2. f[k - 1] \in X /\ f[k] = step[<<k, f[k - 1]>>]
      BY <1>5, <3>1 DEF Follows
    <3> QED BY <1>4, <2>2, <3>1, <3>2
  <2> QED BY <2>1, <2>2
<1>7. Is(f)
  <2>1. f = [k \in 0 .. N |-> f[k]]
    BY <1>5 DEF Follows
  <2> HIDE DEF step, X, next, N
  <2> QED BY <1>6, <2>1, Zenon
<1> DEFINE found[k \in 0 .. N] == IF k = 0 THEN n ELSE found[k - 1] \div 10
<1>8. Is(found)
  <2>1. \E g : Is(g)
    BY <1>7
  <2> QED BY <2>1, Zenon
<1>9. util_uitoa_intern(n, maxLen) = [i \in 1 .. DigitCount(found, maxLen) |-> found[i - 1] % 10]
  BY Zenon DEF util_uitoa_intern, DigitCount
<1> HIDE DEF found
<1>10. \A k \in 0 .. N : found[k] = IF k = 0 THEN n ELSE next(k, found[k - 1])
  <2> HIDE DEF N, X, next
  <2> QED BY <1>8, Zenon
<1> HIDE DEF Is
<1>11. found[0] = n /\ \A k \in 1 .. N : found[k] = next(k, found[k - 1])
  <2> HIDE DEF N, X, next
  <2>1. 0 \in 0 .. N /\ \A k \in 1 .. N : k \in 0 .. N /\ k # 0
    BY <1>1
  <2>2. found[0] = n
    BY <1>10, <2>1, Zenon
  <2>3. ASSUME NEW k \in 1 .. N PROVE found[k] = next(k, found[k - 1])
    BY <1>10, <2>1, Zenon
  <2> QED BY <2>2, <2>3
<1>12. \A k \in 0 .. N : found[k] \in X
  <2> HIDE DEF N, X, next
  <2>1. found[0] \in X
    BY <1>2, <1>11
  <2>2. \A k \in 1 .. N : found[k - 1] \in X => found[k] \in X
    BY <1>3, <1>11
  <2> QED BY <1>1, <2>1, <2>2, RecursionStays
<1>13. IsTenths(found, n, maxLen)
  BY <1>11, Zenon DEF IsTenths
<1> QED BY <1>9, <1>12, <1>13, Zenon

LEMMA DigitCountIs ==
  ASSUME NEW maxLen \in Nat \ {0}, NEW f, \A k \in 0 .. maxLen : f[k] \in Nat
  PROVE  /\ DigitCount(f, maxLen) \in 1 .. maxLen
         /\ f[DigitCount(f, maxLen)] = 0 \/ DigitCount(f, maxLen) = maxLen
         /\ \A j \in 1 .. DigitCount(f, maxLen) - 1 : f[j] > 0
<1> DEFINE T == {k \in 1 .. maxLen : f[k] = 0 \/ k = maxLen}
<1>1. T \subseteq Nat /\ maxLen \in T
  OBVIOUS
<1>2. PICK m \in T : \A k \in T : m <= k
  <2> HIDE DEF T
  <2> QED BY <1>1, LeastNumber
<1>3. m \in 1 .. maxLen /\ (f[m] = 0 \/ m = maxLen)
  OBVIOUS
<1>4. \A j \in 1 .. m - 1 : f[j] > 0
  <2> SUFFICES ASSUME NEW j \in 1 .. m - 1 PROVE f[j] > 0
    OBVIOUS
  <2>1. j \in 1 .. maxLen /\ j < m
    BY <1>3
  <2>2. j \notin T
    <3> HIDE DEF T
    <3>1. m \in Nat
      BY <1>3
    <3> QED BY <1>2, <2>1, <3>1
  <2> QED BY <2>1, <2>2
<1> QED BY <1>3, <1>4, Zenon DEF DigitCount

\* The digits, the lowest first.
LEMMA DigitsAre ==
  ASSUME NEW n \in Nat, NEW maxLen \in Nat \ {0}
  PROVE  /\ util_uitoa_intern(n, maxLen) \in Seq(0 .. 9)
         /\ Len(util_uitoa_intern(n, maxLen)) \in 1 .. maxLen
<1>1. PICK f : /\ util_uitoa_intern(n, maxLen) = [i \in 1 .. DigitCount(f, maxLen) |-> f[i - 1] % 10]
               /\ \A k \in 0 .. maxLen : f[k] \in Nat
  BY TenthsBuild
<1> DEFINE c == DigitCount(f, maxLen)
<1>2. c \in 1 .. maxLen
  BY <1>1, DigitCountIs
<1> HIDE DEF c
<1>3. \A i \in 1 .. c : f[i - 1] % 10 \in 0 .. 9
  <2> SUFFICES ASSUME NEW i \in 1 .. c PROVE f[i - 1] % 10 \in 0 .. 9
    OBVIOUS
  <2>1. i - 1 \in 0 .. maxLen
    BY <1>2
  <2>2. f[i - 1] \in Nat
    BY <1>1, <2>1
  <2> QED BY <2>2
<1> DEFINE d(i) == f[i - 1] % 10
<1>4. util_uitoa_intern(n, maxLen) = [i \in 1 .. c |-> d(i)] /\ c \in Nat /\ \A i \in 1 .. c : d(i) \in 0 .. 9
  BY <1>1, <1>2, <1>3 DEF c
<1> HIDE DEF d
<1>5. [i \in 1 .. c |-> d(i)] \in Seq(0 .. 9) /\ Len([i \in 1 .. c |-> d(i)]) = c
  BY <1>4
<1> QED BY <1>2, <1>4, <1>5

LEMMA ReversedIs ==
  ASSUME NEW X, NEW q \in Seq(X)
  PROVE  /\ util_reverse(q) \in Seq(X) /\ Len(util_reverse(q)) = Len(q)
         /\ \A i \in 1 .. Len(q) : util_reverse(q)[i] = q[Len(q) + 1 - i]
BY DEF util_reverse

LEMMA ItoaIs ==
  ASSUME NEW n \in Int, NEW sLen \in Nat, sLen > 2
  PROVE  util_itoa(n, sLen) \in Seq(Nat) /\ Len(util_itoa(n, sLen)) \in 1 .. sLen - 1
<1> DEFINE m == IF n < 0 THEN -n ELSE n
           d == util_uitoa_intern(m, sLen - 2)
           e == IF n < 0 THEN Append(d, MinusSign) ELSE d
<1>1. m \in Nat /\ sLen - 2 \in Nat \ {0}
  OBVIOUS
<1>2. d \in Seq(0 .. 9) /\ Len(d) \in 1 .. sLen - 2
  <2> HIDE DEF m
  <2> QED BY <1>1, DigitsAre
<1>3. d \in Seq(Nat) /\ MinusSign \in Nat
  <2> HIDE DEF d
  <2> QED BY <1>2 DEF MinusSign
<1>4. util_itoa(n, sLen) = util_reverse(e)
  BY DEF util_itoa
<1> HIDE DEF d
<1>5. e \in Seq(Nat) /\ Len(e) \in 1 .. sLen - 1
  BY <1>2, <1>3
<1> HIDE DEF e
<1> QED BY <1>4, <1>5, ReversedIs

LEMMA NumberRanges ==
  /\ NumMod = 65536
  /\ \A n \in NumValues : n \in Nat /\ n < NumMod
  /\ \A n \in NumSizes : n \in Nat /\ n > 2
  /\ \A n \in DstSizes : n \in Nat \ {0}
  /\ Words \subseteq Seq(Nat)
<1>1. NumMod = 65536
  BY NumAssumption, SMT
<1>2. (\A n \in NumValues : n \in Nat /\ n < NumMod) /\ Words \subseteq Seq(Nat)
  BY NumAssumption, SMT
<1>3. NumSizes \subseteq Nat \ 0 .. 2 /\ DstSizes \subseteq Nat \ {0}
  BY NumAssumption, SMT
<1>4. \A n \in NumSizes : n \in Nat /\ n > 2
  BY <1>3
<1> QED BY <1>1, <1>2, <1>3, <1>4

LEMMA ToLowerIs ==
  ASSUME NEW q \in Seq(Digit)
  PROVE  ToLower(q) \in Seq(Nat) /\ Len(ToLower(q)) = Len(q)
BY DEF ToLower, Digit, LowerCase

\* The bytes of a word, and what is printed of it.
LEMMA WordIs ==
  ASSUME NEW n \in Nat, n < NumMod
  PROVE  /\ NumBytes(n) \in Seq(Byte) /\ Len(NumBytes(n)) = 2
         /\ CNV_BinToHexStr(NumBytes(n), FALSE) = ToLower(HexOf(NumBytes(n)))
         /\ AsSigned(n) \in Int
<1>1. n \div 256 \in Byte /\ n % 256 \in Byte
  BY NumberRanges, SMT DEF Byte
<1>2. NumBytes(n) \in Seq(Byte) /\ Len(NumBytes(n)) = 2
  <2> DEFINE x == n \div 256
             y == n % 256
  <2>1. NumBytes(n) = <<x, y>> /\ x \in Byte /\ y \in Byte
    BY <1>1 DEF NumBytes
  <2> HIDE DEF x, y
  <2>2. <<x, y>> \in Seq(Byte) /\ Len(<<x, y>>) = 2
    BY <2>1
  <2> QED BY <2>1, <2>2, Zenon
<1> DEFINE q == NumBytes(n)
<1>3. CNV_BinToHex(q, 2 * Len(q) + 1) = HexOf(Upto(q, 2))
  <2>1. (2 * Len(q) + 1 - 1) \div 2 = 2
    BY <1>2
  <2> QED BY <2>1 DEF CNV_BinToHex, Upto
<1>4. Upto(q, 2) = q
  <2> HIDE DEF q
  <2> QED BY <1>2, UptoIs, SMTT(30) DEF q
<1>5. AsSigned(n) \in Int
  BY NumberRanges, SMT DEF AsSigned
<1> QED BY <1>2, <1>3, <1>4, <1>5 DEF CNV_BinToHexStr

Items == {[kind |-> k, arg |-> numValue] : k \in {"%u", "%x", "%?"}}
           \cup {[kind |-> "%s", arg |-> w] : w \in Words}
           \cup {[kind |-> k, arg |-> OtherChar] : k \in {"c", "\\", "%%"}}

LEMMA ConvertedIs ==
  ASSUME numValue \in Nat, numValue < NumMod, NEW item \in Items
  PROVE  Converted(item) \in Seq(Nat)
<1>1. CASE item \in {[kind |-> k, arg |-> numValue] : k \in {"%u", "%x", "%?"}}
  <2>1. CASE item = [kind |-> "%u", arg |-> numValue]
    <3>1. Converted(item) = util_itoa(AsSigned(numValue), 32)
      BY <2>1 DEF Converted
    <3>2. AsSigned(numValue) \in Int
      BY WordIs
    <3>3. util_itoa(AsSigned(numValue), 32) \in Seq(Nat)
      BY <3>2, ItoaIs
    <3> QED BY <3>1, <3>3
  <2>2. CASE item = [kind |-> "%x", arg |-> numValue]
    <3>1. Converted(item) = ToLower(HexOf(NumBytes(numValue)))
      BY <2>2, WordIs DEF Converted
    <3>2. HexOf(NumBytes(numValue)) \in Seq(Digit)
      BY WordIs, HexOfIs
    <3> QED BY <3>1, <3>2, ToLowerIs
  <2>3. CASE item = [kind |-> "%?", arg |-> numValue]
    BY <2>3 DEF Converted
  <2> QED BY <1>1, <2>1, <2>2, <2>3
<1>2. CASE item \in {[kind |-> "%s", arg |-> w] : w \in Words}
  <2>1. PICK w \in Words : item = [kind |-> "%s", arg |-> w]
    BY <1>2
  <2>2. Converted(item) = w
    BY <2>1 DEF Converted
  <2> QED BY <2>2, NumberRanges
<1>3. CASE item \in {[kind |-> k, arg |-> OtherChar] : k \in {"c", "\\", "%%"}}
  <2>1. CASE item = [kind |-> "c", arg |-> OtherChar]
    BY <2>1 DEF Converted, OtherChar
  <2>2. CASE item = [kind |-> "\\", arg |-> OtherChar]
    BY <2>2 DEF Converted, OtherChar, Backslash
  <2>3. CASE item = [kind |-> "%%", arg |-> OtherChar]
    BY <2>3 DEF Converted, Percent
  <2> QED BY <1>3, <2>1, <2>2, <2>3
<1> QED BY <1>1, <1>2, <1>3 DEF Items

\* A text cut off, and what is appended to it as far as there is room, is both
\* texts cut off.
LEMMA CutConcat ==
  ASSUME NEW w \in Seq(Nat), NEW t \in Seq(Nat), NEW room \in Nat
  PROVE  (IF Len(Upto(w, room)) < room THEN copyStrToDst(Upto(w, room), room, t) ELSE Upto(w, room))
           = Upto(w \o t, room)
<1> DEFINE p == Len(w)
           q == Len(t)
           whole == w \o t
<1>1. p \in Nat /\ q \in Nat /\ whole \in Seq(Nat) /\ Len(whole) = p + q
  OBVIOUS
<1>2. /\ \A i \in 1 .. p : whole[i] = w[i]
      /\ \A i \in p + 1 .. p + q : whole[i] = t[i - p]
  OBVIOUS
<1> HIDE DEF whole, p, q
<1>3. CASE p < room
  <2> DEFINE m == AtMost(q, room - p)
             cut == SubSeq(t, 1, m)
             n == AtMost(room, p + q)
  <2>1. m \in Nat /\ m <= q /\ n = p + m
    BY <1>1, <1>3 DEF AtMost
  <2>2. cut \in Seq(Nat) /\ Len(cut) = m /\ \A i \in 1 .. m : cut[i] = t[i]
    <3> HIDE DEF m
    <3> QED BY <2>1 DEF q
  <2>3. Upto(w, room) = w
    BY <1>1, <1>3, UptoIs DEF p
  <2>4. copyStrToDst(Upto(w, room), room, t) = w \o cut
    BY <2>3 DEF copyStrToDst, p, q
  <2>5. Upto(whole, room) = SubSeq(whole, 1, n)
    BY <1>1 DEF Upto
  <2> HIDE DEF m, n, cut
  <2>6. SubSeq(whole, 1, n) \in Seq(Nat) /\ Len(SubSeq(whole, 1, n)) = n
        /\ \A i \in 1 .. n : SubSeq(whole, 1, n)[i] = whole[i]
    BY <1>1, <2>1
  <2>7. w \o cut \in Seq(Nat) /\ Len(w \o cut) = n
        /\ (\A i \in 1 .. p : (w \o cut)[i] = w[i])
        /\ (\A i \in p + 1 .. n : (w \o cut)[i] = cut[i - p])
    BY <2>1, <2>2 DEF p
  <2>8. ASSUME NEW i \in 1 .. n PROVE SubSeq(whole, 1, n)[i] = (w \o cut)[i]
    <3>1. CASE i \in 1 .. p
      BY <1>2, <2>6, <2>7, <3>1
    <3>2. CASE i \in p + 1 .. n
      <4>1. i \in p + 1 .. p + q /\ i - p \in 1 .. m
        BY <1>1, <2>1, <3>2
      <4> QED BY <1>2, <2>2, <2>6, <2>7, <3>2, <4>1
    <3>3. i \in 1 .. p \/ i \in p + 1 .. n
      BY <1>1, <2>1
    <3> QED BY <3>1, <3>2, <3>3
  <2>9. SubSeq(whole, 1, n) = w \o cut
    <3> DEFINE x == SubSeq(whole, 1, n)
               y == w \o cut
    <3>1. x \in Seq(Nat) /\ y \in Seq(Nat) /\ Len(x) = n /\ Len(y) = n /\ \A i \in 1 .. n : x[i] = y[i]
      BY <2>6, <2>7, <2>8
    <3> HIDE DEF x, y
    <3>2. x = y
      BY <3>1, SeqEqual
    <3> QED BY <3>2 DEF x, y
  <2>10. Len(Upto(w, room)) < room
    BY <1>3, <2>3 DEF p
  <2> QED BY <2>4, <2>5, <2>9, <2>10 DEF whole
<1>4. CASE ~(p < room)
  <2>1. AtMost(room, p) = room /\ AtMost(room, p + q) = room
    BY <1>1, <1>4 DEF AtMost
  <2>2. Upto(w, room) \in Seq(Nat) /\ Len(Upto(w, room)) = room
    BY <2>1, UptoIs DEF p
  <2>3. Upto(whole, room) \in Seq(Nat) /\ Len(Upto(whole, room)) = room
    BY <1>1, <2>1, UptoIs
  <2>4. ASSUME NEW i \in 1 .. room PROVE Upto(w, room)[i] = Upto(whole, room)[i]
    <3>1. Upto(w, room)[i] = w[i]
      BY <1>1, <1>4, <2>1 DEF Upto, p
    <3>2. Upto(whole, room)[i] = whole[i]
      BY <1>1, <1>4, <2>1 DEF Upto
    <3>3. i \in 1 .. p
      BY <1>1, <1>4
    <3> QED BY <1>2, <3>1, <3>2, <3>3
  <2>5. Upto(w, room) = Upto(whole, room)
    <3> DEFINE x == Upto(w, room)
               y == Upto(whole, room)
    <3>1. x \in Seq(Nat) /\ y \in Seq(Nat) /\ Len(x) = Len(y) /\ \A i \in 1 .. Len(x) : x[i] = y[i]
      BY <2>2, <2>3, <2>4
    <3> HIDE DEF x, y
    <3>2. x = y
      BY <3>1, SeqEqual
    <3> QED BY <3>2 DEF x, y
  <2> QED BY <2>2, <2>5 DEF whole
<1> QED BY <1>3, <1>4

LEMMA PutItemIs ==
  ASSUME NEW w \in Seq(Nat), NEW room \in Nat, NEW item, Converted(item) \in Seq(Nat)
  PROVE  /\ PutItem(Upto(w, room), room, item) = Upto(w \o Converted(item), room)
         /\ PutItem(w, room, item) \in Seq(Nat)
<1> DEFINE t == Converted(item)
<1>1. PutItem(Upto(w, room), room, item) = Upto(w \o t, room)
  <2> HIDE DEF t
  <2> QED BY CutConcat DEF t, PutItem
<1>2. PutItem(w, room, item) \in Seq(Nat)
  <2> DEFINE cut == SubSeq(t, 1, AtMost(Len(t), room - Len(w)))
  <2>1. CASE Len(w) < room
    <3>1. AtMost(Len(t), room - Len(w)) \in 0 .. Len(t)
      BY <2>1 DEF AtMost
    <3>2. cut \in Seq(Nat)
      <4> HIDE DEF t
      <4> QED BY <3>1 DEF t
    <3>3. PutItem(w, room, item) = w \o cut
      BY <2>1 DEF PutItem, copyStrToDst
    <3> HIDE DEF cut
    <3> QED BY <3>2, <3>3
  <2>2. CASE ~(Len(w) < room)
    BY <2>2 DEF PutItem
  <2> QED BY <2>1, <2>2
<1> QED BY <1>1, <1>2

\* The text after each item.
IsPrinted(f, format, dstSize) ==
  /\ f[0] = <<>>
  /\ \A k \in 1 .. Len(format) : f[k] = PutItem(f[k - 1], dstSize - 1, format[k])

LEMMA PrintBuilds ==
  ASSUME NEW format, Len(format) \in Nat, NEW dstSize \in Nat \ {0},
         \A k \in 1 .. Len(format) : Converted(format[k]) \in Seq(Nat)
  PROVE  \E f : /\ IsPrinted(f, format, dstSize) /\ util_vsnprintf(dstSize, format) = f[Len(format)]
                /\ \A k \in 0 .. Len(format) : f[k] \in Seq(Nat)
<1> DEFINE N == Len(format)
           X == Seq(Nat)
           next(k, s) == PutItem(s, dstSize - 1, format[k])
           step == [p \in (1 .. N) \X X |-> next(p[1], p[2])]
<1>1. N \in Nat
  OBVIOUS
<1>2. <<>> \in X
  OBVIOUS
<1>3. ASSUME NEW k \in 1 .. N, NEW s \in X PROVE next(k, s) \in X
  <2>1. Converted(format[k]) \in Seq(Nat) /\ dstSize - 1 \in Nat
    OBVIOUS
  <2> HIDE DEF N
  <2> QED BY <2>1, PutItemIs
<1>4. step \in [(1 .. N) \X X -> X] /\ \A k \in 1 .. N, s \in X : step[<<k, s>>] = next(k, s)
  <2> HIDE DEF next, N, X
  <2> QED BY <1>3
<1>5. PICK f : Follows(f, X, <<>>, step, N)
  <2> HIDE DEF step, N, X
  <2> QED BY <1>1, <1>2, <1>4, Recursion
<1> DEFINE Is(g) == g = [k \in 0 .. N |-> IF k = 0 THEN <<>> ELSE next(k, g[k - 1])]
<1>6. ASSUME NEW k \in 0 .. N PROVE f[k] = IF k = 0 THEN <<>> ELSE next(k, f[k - 1])
  <2> HIDE DEF next, step, N, X
  <2>1. CASE k = 0
    BY <1>5, <2>1 DEF Follows
  <2>2. CASE k # 0
    <3>1. k \in 1 .. N /\ k - 1 \in 0 .. N
      BY <1>1, <2>2
    <3>2. f[k - 1] \in X /\ f[k] = step[<<k, f[k - 1]>>]
      BY <1>5, <3>1 DEF Follows
    <3> QED BY <1>4, <2>2, <3>1, <3>2
  <2> QED BY <2>1, <2>2
<1>7. Is(f)
  <2>1. f = [k \in 0 .. N |-> f[k]]
    BY <1>5 DEF Follows
  <2> HIDE DEF step, X, next, N
  <2> QED BY <1>6, <2>1, Zenon
<1> DEFINE found[k \in 0 .. N] == IF k = 0 THEN <<>> ELSE PutItem(found[k - 1], dstSize - 1, format[k])
<1>8. Is(found)
  <2>1. \E g : Is(g)
    BY <1>7
  <2> QED BY <2>1, Zenon
<1>9. util_vsnprintf(dstSize, format) = found[N]
  BY Zenon DEF util_vsnprintf
<1> HIDE DEF found
<1>10. \A k \in 0 .. N : found[k] = IF k = 0 THEN <<>> ELSE next(k, found[k - 1])
  <2> HIDE DEF N, X, next
  <2> QED BY <1>8, Zenon
<1> HIDE DEF Is
<1>11. found[0] = <<>> /\ \A k \in 1 .. N : found[k] = next(k, found[k - 1])
  <2> HIDE DEF N, X, next
  <2>1. 0 \in 0 .. N /\ \A k \in 1 .. N : k \in 0 .. N /\ k # 0
    BY <1>1
  <2>2. found[0] = <<>>
    BY <1>10, <2>1, Zenon
  <2>3. ASSUME NEW k \in 1 .. N PROVE found[k] = next(k, found[k - 1])
    BY <1>10, <2>1, Zenon
  <2> QED BY <2>2, <2>3
<1>12. \A k \in 0 .. N : found[k] \in X
  <2> HIDE DEF N, X, next
  <2>1. found[0] \in X
    BY <1>2, <1>11
  <2>2. \A k \in 1 .. N : found[k - 1] \in X => found[k] \in X
    BY <1>3, <1>11
  <2> QED BY <1>1, <2>1, <2>2, RecursionStays
<1>13. IsPrinted(found, format, dstSize)
  BY <1>11, Zenon DEF IsPrinted
<1> QED BY <1>9, <1>12, <1>13, Zenon

LEMMA PrintCutsOff ==
  ASSUME numValue # NoNumber => numValue \in Nat /\ numValue < NumMod
  PROVE  VsnprintfCutsOff
<1> SUFFICES ASSUME numValue \in Nat, numValue < NumMod, NEW size \in DstSizes, NEW format \in Formats
             PROVE  util_vsnprintf(size, format) =
                      Upto(Converted(format[1]) \o Converted(format[2]), size - 1)
  BY DEF VsnprintfCutsOff, Upto
<1>1. PICK x \in Items, y \in Items : format = <<x, y>>
  BY DEF Formats, Items
<1> DEFINE cx == Converted(x)
           cy == Converted(y)
           room == size - 1
<1>2. cx \in Seq(Nat) /\ cy \in Seq(Nat)
  BY ConvertedIs
<1>3. Len(format) = 2 /\ format[1] = x /\ format[2] = y
  BY <1>1
<1>4. \A k \in 1 .. 2 : Converted(format[k]) \in Seq(Nat)
  <2> SUFFICES ASSUME NEW k \in 1 .. 2 PROVE Converted(format[k]) \in Seq(Nat)
    OBVIOUS
  <2>1. k = 1 \/ k = 2
    OBVIOUS
  <2> QED BY <1>2, <1>3, <2>1
<1>5. size \in Nat \ {0} /\ room \in Nat
  BY NumberRanges
<1>6. PICK f : IsPrinted(f, format, size) /\ util_vsnprintf(size, format) = f[2]
  <2>1. Len(format) \in Nat /\ \A k \in 1 .. Len(format) : Converted(format[k]) \in Seq(Nat)
    BY <1>3, <1>4
  <2>2. \E f : IsPrinted(f, format, size) /\ util_vsnprintf(size, format) = f[Len(format)]
    BY <1>5, <2>1, PrintBuilds, Zenon
  <2> QED BY <1>3, <2>2
<1>7. f[0] = <<>> /\ f[1] = PutItem(<<>>, room, x) /\ f[2] = PutItem(f[1], room, y)
  <2>1. f[0] = <<>> /\ \A k \in 1 .. 2 : f[k] = PutItem(f[k - 1], size - 1, format[k])
    BY <1>3, <1>6 DEF IsPrinted
  <2>2. 1 \in 1 .. 2 /\ 2 \in 1 .. 2 /\ 1 - 1 = 0 /\ 2 - 1 = 1
    OBVIOUS
  <2>3. f[1] = PutItem(f[0], size - 1, format[1]) /\ f[2] = PutItem(f[1], size - 1, format[2])
    BY <2>1, <2>2
  <2> QED BY <1>3, <2>1, <2>3
<1> HIDE DEF room
<1>8. <<>> \in Seq(Nat) /\ Upto(<<>>, room) = <<>>
  <2>1. <<>> \in Seq(Nat) /\ Len(<<>>) = 0
    OBVIOUS
  <2>2. room >= 0
    BY <1>5
  <2> QED BY <1>5, <2>1, <2>2, UptoIs
<1>9. f[1] = Upto(<<>> \o cx, room)
  BY <1>2, <1>5, <1>7, <1>8, PutItemIs
<1>10. <<>> \o cx = cx
  <2> HIDE DEF cx
  <2> QED BY <1>2
<1>11. f[2] = Upto(cx \o cy, room)
  <2>1. f[1] = Upto(cx, room)
    BY <1>9, <1>10
  <2> HIDE DEF cx
  <2> QED BY <1>2, <1>5, <1>7, <2>1, PutItemIs
<1> QED BY <1>3, <1>6, <1>11 DEF room

-----------------------------------------------------------------------------
(* Lines hold the text they are cut from.                                    *)

\* The text after each line.
IsTogether(f, lines) ==
  /\ f[0] = <<>>
  /\ \A k \in 1 .. Len(lines) : f[k] = f[k - 1] \o lines[k]

LEMMA TogetherBuilds ==
  ASSUME NEW lines \in Seq(Seq(Nat))
  PROVE  \E f : /\ IsTogether(f, lines) /\ Together(lines) = f[Len(lines)]
                /\ \A k \in 0 .. Len(lines) : f[k] \in Seq(Nat)
<1> DEFINE N == Len(lines)
           X == Seq(Nat)
           next(k, s) == s \o lines[k]
           step == [p \in (1 .. N) \X X |-> next(p[1], p[2])]
<1>1. N \in Nat
  OBVIOUS
<1>2. <<>> \in X
  OBVIOUS
<1>3. ASSUME NEW k \in 1 .. N, NEW s \in X PROVE next(k, s) \in X
  <2>1. lines[k] \in Seq(Nat)
    OBVIOUS
  <2> HIDE DEF N
  <2> QED BY <2>1, ConcatProperties, Zenon
<1>4. step \in [(1 .. N) \X X -> X] /\ \A k \in 1 .. N, s \in X : step[<<k, s>>] = next(k, s)
  <2> HIDE DEF next, N, X
  <2> QED BY <1>3
<1>5. PICK f : Follows(f, X, <<>>, step, N)
  <2> HIDE DEF step, N, X
  <2> QED BY <1>1, <1>2, <1>4, Recursion
<1> DEFINE Is(g) == g = [k \in 0 .. N |-> IF k = 0 THEN <<>> ELSE next(k, g[k - 1])]
<1>6. ASSUME NEW k \in 0 .. N PROVE f[k] = IF k = 0 THEN <<>> ELSE next(k, f[k - 1])
  <2> HIDE DEF next, step, N, X
  <2>1. CASE k = 0
    BY <1>5, <2>1 DEF Follows
  <2>2. CASE k # 0
    <3>1. k \in 1 .. N /\ k - 1 \in 0 .. N
      BY <1>1, <2>2
    <3>2. f[k - 1] \in X /\ f[k] = step[<<k, f[k - 1]>>]
      BY <1>5, <3>1 DEF Follows
    <3> QED BY <1>4, <2>2, <3>1, <3>2
  <2> QED BY <2>1, <2>2
<1>7. Is(f)
  <2>1. f = [k \in 0 .. N |-> f[k]]
    BY <1>5 DEF Follows
  <2> HIDE DEF step, X, next, N
  <2> QED BY <1>6, <2>1, Zenon
<1> DEFINE found[k \in 0 .. N] == IF k = 0 THEN <<>> ELSE found[k - 1] \o lines[k]
<1>8. Is(found)
  <2>1. \E g : Is(g)
    BY <1>7
  <2> QED BY <2>1, Zenon
<1>9. Together(lines) = found[N]
  BY Zenon DEF Together
<1> HIDE DEF found
<1>10. \A k \in 0 .. N : found[k] = IF k = 0 THEN <<>> ELSE next(k, found[k - 1])
  <2> HIDE DEF N, X, next
  <2> QED BY <1>8, Zenon
<1> HIDE DEF Is
<1>11. found[0] = <<>> /\ \A k \in 1 .. N : found[k] = next(k, found[k - 1])
  <2> HIDE DEF N, X, next
  <2>1. 0 \in 0 .. N /\ \A k \in 1 .. N : k \in 0 .. N /\ k # 0
    BY <1>1
  <2>2. found[0] = <<>>
    BY <1>10, <2>1, Zenon
  <2>3. ASSUME NEW k \in 1 .. N PROVE found[k] = next(k, found[k - 1])
    BY <1>10, <2>1, Zenon
  <2> QED BY <2>2, <2>3
<1>12. \A k \in 0 .. N : found[k] \in X
  <2> HIDE DEF N, X, next
  <2>1. found[0] \in X
    BY <1>2, <1>11
  <2>2. \A k \in 1 .. N : found[k - 1] \in X => found[k] \in X
    BY <1>3, <1>11
  <2> QED BY <1>1, <2>1, <2>2, RecursionStays
<1>13. IsTogether(found, lines)
  BY <1>11, Zenon DEF IsTogether
<1> QED BY <1>9, <1>12, <1>13, Zenon

LEMMA TogetherIs ==
  ASSUME NEW lines \in Seq(Seq(Nat))
  PROVE  Together(lines) \in Seq(Nat)
<1>1. PICK f : Together(lines) = f[Len(lines)] /\ \A k \in 0 .. Len(lines) : f[k] \in Seq(Nat)
  BY TogetherBuilds
<1> QED BY <1>1

LEMMA TogetherNothing == Together(<<>>) = <<>>
<1>1. <<>> \in Seq(Seq(Nat)) /\ Len(<<>>) = 0
  OBVIOUS
<1>2. PICK f : IsTogether(f, <<>>) /\ Together(<<>>) = f[Len(<<>>)]
  BY <1>1, TogetherBuilds, Zenon
<1> QED BY <1>1, <1>2, Zenon DEF IsTogether

LEMMA TogetherAppend ==
  ASSUME NEW lines \in Seq(Seq(Nat)), NEW line \in Seq(Nat)
  PROVE  Together(Append(lines, line)) = Together(lines) \o line
<1> DEFINE N == Len(lines)
           longer == Append(lines, line)
<1>0. /\ N \in Nat /\ longer \in Seq(Seq(Nat)) /\ Len(longer) = N + 1 /\ longer[N + 1] = line
      /\ \A k \in 1 .. N : longer[k] = lines[k]
  OBVIOUS
<1>1. PICK f : IsTogether(f, lines) /\ Together(lines) = f[N]
  BY TogetherBuilds
<1>2. PICK g : IsTogether(g, longer) /\ Together(longer) = g[N + 1]
  <2> HIDE DEF longer
  <2> QED BY <1>0, TogetherBuilds
<1> HIDE DEF longer, N
<1>3. Alike(f, g, N)
  <2>1. f[0] = g[0]
    BY <1>1, <1>2 DEF IsTogether
  <2>2. ASSUME NEW k \in 1 .. N, f[k - 1] = g[k - 1] PROVE f[k] = g[k]
    <3>1. f[k] = f[k - 1] \o lines[k]
      BY <1>1 DEF N, IsTogether
    <3>2. k \in 1 .. Len(longer) /\ longer[k] = lines[k]
      BY <1>0
    <3>3. g[k] = g[k - 1] \o longer[k]
      BY <1>2, <3>2, Zenon DEF IsTogether
    <3> QED BY <2>2, <3>1, <3>2, <3>3
  <2> QED BY <2>1, <2>2 DEF Alike
<1>4. f[N] = g[N]
  <2>0. N \in Nat
    BY <1>0
  <2> QED BY <2>0, <1>3, AlikeEqual, Zenon
<1>5. g[N + 1] = g[N] \o line
  <2>1. N + 1 \in 1 .. Len(longer) /\ (N + 1) - 1 = N
    BY <1>0
  <2>2. g[N + 1] = g[(N + 1) - 1] \o longer[N + 1]
    BY <1>2, <2>1, Zenon DEF IsTogether
  <2> QED BY <1>0, <2>1, <2>2, Zenon
<1> QED BY <1>1, <1>2, <1>4, <1>5, Zenon DEF longer

LEMMA ConcatIs ==
  ASSUME NEW X, NEW p \in Seq(X), NEW q \in Seq(X)
  PROVE  /\ p \o q \in Seq(X) /\ Len(p \o q) = Len(p) + Len(q)
         /\ \A i \in 1 .. Len(p) : (p \o q)[i] = p[i]
         /\ \A i \in Len(p) + 1 .. Len(p) + Len(q) : (p \o q)[i] = q[i - Len(p)]
OBVIOUS

\* The numbers of the first n characters.
Count(n) == [i \in 1 .. n |-> i]

LEMMA CountGrows ==
  ASSUME NEW n \in Nat, NEW k \in Nat
  PROVE  /\ [i \in 1 .. k |-> n + i] \in Seq(Nat) /\ Len([i \in 1 .. k |-> n + i]) = k
         /\ Range([i \in 1 .. k |-> n + i]) \subseteq n + 1 .. n + k
         /\ Count(n) \o [i \in 1 .. k |-> n + i] = Count(n + k)
<1> DEFINE line == [i \in 1 .. k |-> n + i]
<1>1. line \in Seq(Nat) /\ Len(line) = k /\ \A i \in 1 .. k : line[i] = n + i
  OBVIOUS
<1>2. Count(n) \in Seq(Nat) /\ Len(Count(n)) = n /\ \A i \in 1 .. n : Count(n)[i] = i
  BY DEF Count
<1>3. Count(n + k) \in Seq(Nat) /\ Len(Count(n + k)) = n + k /\ \A i \in 1 .. n + k : Count(n + k)[i] = i
  BY DEF Count
<1>4. Range(line) \subseteq n + 1 .. n + k
  BY DEF Range
<1> HIDE DEF line
<1>5. Count(n) \o line = Count(n + k)
  <2> DEFINE x == Count(n) \o line
             y == Count(n + k)
  <2>1. /\ x \in Seq(Nat) /\ Len(x) = n + k
        /\ (\A i \in 1 .. n : x[i] = Count(n)[i])
        /\ (\A i \in n + 1 .. n + k : x[i] = line[i - n])
    <3> DEFINE p == Count(n)
    <3>1. p \in Seq(Nat) /\ Len(p) = n
      BY <1>2
    <3> HIDE DEF p
    <3>2. /\ p \o line \in Seq(Nat) /\ Len(p \o line) = Len(p) + Len(line)
          /\ (\A i \in 1 .. Len(p) : (p \o line)[i] = p[i])
          /\ (\A i \in Len(p) + 1 .. Len(p) + Len(line) : (p \o line)[i] = line[i - Len(p)])
      BY <1>1, <3>1, ConcatIs, Zenon
    <3>3. Len(p) = n /\ Len(line) = k
      BY <1>1, <3>1
    <3> QED BY <3>2, <3>3, Zenon DEF p
  <2> HIDE DEF x
  <2>2. ASSUME NEW i \in 1 .. n + k PROVE x[i] = i
    <3>1. CASE i \in 1 .. n
      BY <1>2, <2>1, <3>1
    <3>2. CASE i \in n + 1 .. n + k
      <4>1. i - n \in 1 .. k
        BY <3>2
      <4> QED BY <1>1, <2>1, <3>2, <4>1
    <3>3. i \in 1 .. n \/ i \in n + 1 .. n + k
      OBVIOUS
    <3> QED BY <3>1, <3>2, <3>3
  <2>3. \A i \in 1 .. n + k : x[i] = y[i]
    BY <1>3, <2>2
  <2> HIDE DEF y
  <2>4. x \in Seq(Nat) /\ y \in Seq(Nat) /\ Len(x) = n + k /\ Len(y) = n + k
    BY <1>3, <2>1 DEF y
  <2>5. x = y
    BY <2>3, <2>4, SeqEqual
  <2> QED BY <2>5 DEF x, y
<1> QED BY <1>1, <1>4, <1>5 DEF line

SplitInv ==
  /\ splitLen \in Nat /\ splitSize \in Nat \ {0} /\ splitIdx \in Nat /\ splitLeft \in Nat
  /\ splitLines \in Seq(Seq(Nat)) /\ splitRead \subseteq 1 .. splitLen
  /\ splitLeft = 0 \/ splitIdx + splitLeft = splitLen
  /\ splitFn # "LOG_LargeStr" =>
       splitIdx + splitLeft = splitLen /\ Together(splitLines) = Count(splitIdx)

LEMMA SplitInitIs == SplitInit => SplitInv
<1> SUFFICES ASSUME SplitInit PROVE SplitInv
  OBVIOUS
<1>1. splitLen \in Nat /\ splitSize \in Nat \ {0}
  BY SplitAssumption DEF SplitInit
<1>2. Together(<<>>) = Count(0)
  <2>1. Count(0) = <<>>
    BY DEF Count
  <2> QED BY <2>1, TogetherNothing
<1> QED BY <1>1, <1>2 DEF SplitInit, SplitInv

\* What a line takes from the text.
LEMMA PutLineIs ==
  ASSUME SplitInv, splitLeft > 0, PutLine
  PROVE  /\ Len(NextLine) \in 1 .. splitLeft
         /\ splitIdx + Len(NextLine) <= splitLen
         /\ splitLines' \in Seq(Seq(Nat)) /\ splitRead' \subseteq 1 .. splitLen
         /\ splitFn # "LOG_LargeStr" => Together(splitLines') = Count(splitIdx + Len(NextLine))
         /\ UNCHANGED splitArgs
<1> DEFINE k == SplitMin(splitSize, splitLeft)
<1>1. k \in Nat /\ k \in 1 .. splitLeft /\ splitIdx \in Nat /\ splitIdx + k <= splitLen /\ splitLen \in Nat
  BY DEF SplitInv, SplitMin
<1> HIDE DEF k
<1>2. NextLine = [i \in 1 .. k |-> splitIdx + i]
  BY DEF NextLine, k
<1>3. /\ NextLine \in Seq(Nat) /\ Len(NextLine) = k /\ Range(NextLine) \subseteq splitIdx + 1 .. splitIdx + k
      /\ Count(splitIdx) \o NextLine = Count(splitIdx + k)
  BY <1>1, <1>2, CountGrows
<1>4. splitLines' = Append(splitLines, NextLine) /\ splitRead' = splitRead \cup Range(NextLine)
      /\ UNCHANGED splitArgs
  BY DEF PutLine
<1>5. splitLines' \in Seq(Seq(Nat)) /\ Together(splitLines') = Together(splitLines) \o NextLine
  BY <1>3, <1>4, TogetherAppend DEF SplitInv
<1>6. splitRead' \subseteq 1 .. splitLen
  <2>1. splitIdx + 1 .. splitIdx + k \subseteq 1 .. splitLen
    BY <1>1
  <2> QED BY <1>3, <1>4, <2>1 DEF SplitInv
<1> QED BY <1>1, <1>3, <1>4, <1>5, <1>6 DEF SplitInv

LEMMA SplitStep == SplitInv /\ (SplitNext \/ UNCHANGED splitVars) => SplitInv'
<1> SUFFICES ASSUME SplitInv, SplitNext \/ UNCHANGED splitVars PROVE SplitInv'
  OBVIOUS
<1> DEFINE n == Len(NextLine)
<1>1. CASE UNCHANGED splitVars
  BY <1>1 DEF splitVars, splitArgs, SplitInv, Together, Count
<1>2. ASSUME PutLine, splitLeft > 0, splitFn # "LOG_LargeStr",
             splitIdx' = splitIdx + n, splitLeft' = splitLeft - n
      PROVE  SplitInv'
  <2>1. /\ n \in 1 .. splitLeft /\ splitIdx + n <= splitLen
        /\ splitLines' \in Seq(Seq(Nat)) /\ splitRead' \subseteq 1 .. splitLen
        /\ Together(splitLines') = Count(splitIdx + n)
        /\ splitFn' = splitFn /\ splitLen' = splitLen /\ splitSize' = splitSize
    BY <1>2, PutLineIs DEF splitArgs
  <2> HIDE DEF n
  <2>2. /\ splitLen \in Nat /\ splitSize \in Nat \ {0} /\ splitIdx \in Nat /\ splitLeft \in Nat
        /\ splitIdx + splitLeft = splitLen
    BY <1>2 DEF SplitInv
  <2>3. splitIdx' \in Nat /\ splitLeft' \in Nat /\ splitIdx' + splitLeft' = splitLen
    BY <1>2, <2>1, <2>2
  <2>4. Together(splitLines)' = Count(splitIdx)'
    BY <1>2, <2>1
  <2> QED BY <2>1, <2>2, <2>3, <2>4 DEF SplitInv
<1>3. CASE LOG_Hex
  <2>1. n \in 1 .. splitLeft /\ splitIdx + splitLeft = splitLen /\ splitIdx \in Nat /\ splitLeft \in Nat
    BY <1>3, PutLineIs DEF LOG_Hex, SplitInv
  <2>2. splitIdx' = splitIdx + n /\ splitLeft' = splitLen - splitIdx'
    BY <1>3 DEF LOG_Hex
  <2> HIDE DEF n
  <2>3. splitLeft' = splitLeft - n
    BY <2>1, <2>2
  <2> QED BY <1>2, <1>3, <2>2, <2>3 DEF LOG_Hex
<1>4. CASE LOG_Base64
  BY <1>2, <1>4 DEF LOG_Base64
<1>5. CASE LOG_HexArr
  BY <1>2, <1>5 DEF LOG_HexArr
<1>6. CASE LOG_LargeStr
  <2> DEFINE c == n + (IF splitCrLf THEN 2 ELSE 0) + 1
  <2>1. /\ n \in 1 .. splitLeft
        /\ splitLines' \in Seq(Seq(Nat)) /\ splitRead' \subseteq 1 .. splitLen
        /\ splitFn' = splitFn /\ splitLen' = splitLen /\ splitSize' = splitSize
    BY <1>6, PutLineIs DEF splitArgs, LOG_LargeStr
  <2>2. splitFn = "LOG_LargeStr" /\ splitLeft > 0 /\ splitIdx' = splitIdx + c
        /\ splitLeft' = (IF c < splitLeft THEN splitLeft - c ELSE 0)
    BY <1>6 DEF LOG_LargeStr
  <2> HIDE DEF n
  <2>3. c \in Nat
    BY <2>1
  <2> HIDE DEF c
  <2>4. /\ splitLen \in Nat /\ splitSize \in Nat \ {0} /\ splitIdx \in Nat /\ splitLeft \in Nat
        /\ splitIdx + splitLeft = splitLen
    BY <2>2 DEF SplitInv
  <2>5. splitIdx' \in Nat /\ splitLeft' \in Nat /\ (splitLeft' = 0 \/ splitIdx' + splitLeft' = splitLen)
    BY <2>2, <2>3, <2>4
  <2> QED BY <2>1, <2>2, <2>4, <2>5 DEF SplitInv
<1> QED BY <1>1, <1>3, <1>4, <1>5, <1>6 DEF SplitNext

LEMMA SplitHolds == SplitInv => LinesHoldText
<1> SUFFICES ASSUME SplitInv PROVE LinesHoldText
  OBVIOUS
<1>1. ASSUME splitFn # "LOG_LargeStr"
      PROVE  Together(splitLines) = [i \in 1 .. splitLen - splitLeft |-> i]
  <2>1. splitLen - splitLeft = splitIdx /\ Together(splitLines) = Count(splitIdx)
    BY <1>1 DEF SplitInv
  <2> QED BY <2>1 DEF Count
<1>2. splitRead \subseteq 1 .. splitLen
  BY DEF SplitInv
<1> QED BY <1>1, <1>2 DEF LinesHoldText

\* What is converted and cut, and the lines.
TextInv ==
  /\ hexBin \in Seq(Byte) /\ hexText \in Seq(Nat)
  /\ numValue # NoNumber => numValue \in Nat /\ numValue < NumMod
  /\ SplitInv

LEMMA TextInitIs == HexInit /\ numValue = NoNumber /\ SplitInit => TextInv
BY SplitInitIs DEF HexInit, TextInv

LEMMA TextStep ==
  ASSUME TextInv, HexNext \/ UNCHANGED hexVars, NumNext \/ UNCHANGED numValue,
         SplitNext \/ UNCHANGED splitVars
  PROVE  TextInv'
<1>1. hexBin' \in Seq(Byte) /\ hexText' \in Seq(Nat)
  <2>1. hexBin \in Seq(Byte) /\ hexText \in Seq(Nat) /\ HexBytes \subseteq Byte
    BY HexAssumption DEF TextInv, Byte
  <2>2. CASE UNCHANGED hexVars
    BY <2>1, <2>2 DEF hexVars
  <2>3. CASE HexNext
    <3>1. ASSUME NEW v \in HexBytes, hexBin' = Append(hexBin, v), hexText' = hexText
          PROVE  hexBin' \in Seq(Byte) /\ hexText' \in Seq(Nat)
      <4>1. v \in Byte
        BY <2>1
      <4> QED BY <2>1, <3>1, <4>1
    <3>2. ASSUME NEW c \in Nat, hexText' = Append(hexText, c), hexBin' = hexBin
          PROVE  hexBin' \in Seq(Byte) /\ hexText' \in Seq(Nat)
      BY <2>1, <3>2
    <3>3. {1, 10, 10 + LowerCase, OtherChar} \subseteq Nat
      BY DEF LowerCase, OtherChar
    <3>4. \/ hexText' = hexText /\ \E v \in HexBytes : hexBin' = Append(hexBin, v)
          \/ hexBin' = hexBin /\ \E c \in Nat : hexText' = Append(hexText, c)
      BY <2>3, <3>3, Zenon DEF HexNext
    <3> QED BY <3>1, <3>2, <3>4, Zenon
  <2> QED BY <2>2, <2>3
<1>2. (numValue # NoNumber => numValue \in Nat /\ numValue < NumMod)'
  <2>1. CASE UNCHANGED numValue
    BY <2>1 DEF TextInv, NoNumber
  <2>2. CASE NumNext
    <3>1. numValue' \in NumValues
      BY <2>2 DEF NumNext
    <3>2. numValue' \in Nat /\ numValue' < NumMod
      BY <3>1, NumberRanges, SMT
    <3> QED BY <3>2, Zenon
  <2> QED BY <2>1, <2>2
<1>3. SplitInv'
  BY SplitStep DEF TextInv
<1> QED BY <1>1, <1>2, <1>3, Zenon DEF TextInv

LEMMA TextHolds == TextInv => TextFits
<1> SUFFICES ASSUME TextInv PROVE TextFits
  OBVIOUS
<1>1. HexStaysInBuffer
  BY HexFits DEF TextInv
<1>2. VsnprintfCutsOff
  BY PrintCutsOff, Zenon DEF TextInv
<1>3. LinesHoldText
  BY SplitHolds, Zenon DEF TextInv
<1> QED BY <1>1, <1>2, <1>3 DEF TextFits

-----------------------------------------------------------------------------
(* What is coded is read back: byte order.                                   *)

LEMMA SwappedTwice ==
  ASSUME NEW X, NEW w \in Seq(X)
  PROVE  /\ SWAPBYTES(w) \in Seq(X) /\ Len(SWAPBYTES(w)) = Len(w)
         /\ \A i \in 1 .. Len(w) : SWAPBYTES(w)[i] = w[Len(w) + 1 - i]
         /\ SWAPBYTES(SWAPBYTES(w)) = w
<1> DEFINE s == SWAPBYTES(w)
<1>1. s \in Seq(X) /\ Len(s) = Len(w) /\ \A i \in 1 .. Len(w) : s[i] = w[Len(w) + 1 - i]
  BY DEF SWAPBYTES, Width
<1> HIDE DEF s
<1>2. /\ SWAPBYTES(s) \in Seq(X) /\ Len(SWAPBYTES(s)) = Len(w)
      /\ \A i \in 1 .. Len(w) : SWAPBYTES(s)[i] = s[Len(w) + 1 - i]
  BY <1>1 DEF SWAPBYTES, Width
<1>3. \A i \in 1 .. Len(w) : SWAPBYTES(s)[i] = w[i]
  BY <1>1, <1>2
<1>4. SWAPBYTES(s) = w
  BY <1>2, <1>3, SeqEqual
<1> QED BY <1>1, <1>4 DEF s

EndInv == endHost \in {"LE", "BE"} /\ endWord \in Seq(WordBytesOf \cup {0})

LEMMA EndInitIs == EndInit => EndInv
BY DEF EndInit, EndInv

LEMMA EndStep == EndInv /\ (EndNext \/ UNCHANGED endVars) => EndInv'
<1> SUFFICES ASSUME EndInv, EndNext \/ UNCHANGED endVars PROVE EndInv'
  OBVIOUS
<1> DEFINE X == WordBytesOf \cup {0}
<1>1. CASE UNCHANGED endVars
  BY <1>1 DEF EndInv, endVars
<1>2. CASE endHost' \in Hosts /\ UNCHANGED endWord
  BY <1>2, EndianAssumption DEF EndInv
<1>3. ASSUME NEW n \in Widths, endWord' = [i \in 1 .. n |-> 0], UNCHANGED endHost PROVE EndInv'
  <2>1. n \in Nat
    BY EndianAssumption
  <2>2. [i \in 1 .. n |-> 0] \in Seq(X)
    BY <2>1
  <2> QED BY <1>3, <2>2 DEF EndInv
<1>4. ASSUME NEW i \in 1 .. Width(endWord), NEW v \in WordBytesOf,
             endWord' = [endWord EXCEPT ![i] = v], UNCHANGED endHost
      PROVE  EndInv'
  <2>1. endWord \in Seq(X) /\ v \in X /\ i \in 1 .. Len(endWord)
    BY DEF EndInv, Width
  <2> HIDE DEF X
  <2>2. [endWord EXCEPT ![i] = v] \in Seq(X)
    BY <2>1
  <2> QED BY <1>4, <2>2 DEF EndInv, X
<1> QED BY <1>1, <1>2, <1>3, <1>4 DEF EndNext

LEMMA EndHolds == EndInv => BytesInOrder
<1> SUFFICES ASSUME EndInv PROVE BytesInOrder
  OBVIOUS
<1> DEFINE w == endWord
<1>1. /\ SWAPBYTES(SWAPBYTES(w)) = w
      /\ \A i \in 1 .. Len(w) : SWAPBYTES(w)[i] = w[Len(w) + 1 - i]
  BY SwappedTwice DEF EndInv
<1>2. CASE endHost = "LE"
  BY <1>1, <1>2 DEF BytesInOrder, HostTo, ToHost, Memory, Convert, Width
<1>3. CASE endHost = "BE"
  BY <1>1, <1>3 DEF BytesInOrder, HostTo, ToHost, Memory, Convert, Width
<1> QED BY <1>2, <1>3 DEF EndInv

-----------------------------------------------------------------------------
(* Hexadecimal text is read back, whoever wrote it and whoever reads it.     *)

\* What ToLower makes of a digit is the same digit.
LEMMA LowerNybbles ==
  \A q \in Seq(Digit) : Nybbles(ToLower(q)) = q
<1> DEFINE S == {q \in Seq(Digit) : Nybbles(ToLower(q)) = q}
           lower(c) == IF c \in 10 .. 15 THEN c + LowerCase ELSE c
<1>1. <<>> \in S
  <2>1. ToLower(<<>>) = <<>>
    BY DEF ToLower
  <2> QED BY <2>1, NybblesEmpty
<1>2. ASSUME NEW q \in Seq(Digit), NEW c \in Digit, q \in S PROVE Append(q, c) \in S
  <2>1. lower(c) \in Nat /\ isHex(lower(c)) /\ CNV_AscHexByteToBinNybble(lower(c)) = c
    BY DEF Digit, LowerCase, isHex, CNV_AscHexByteToBinNybble
  <2>2. ToLower(q) \in Seq(Nat) /\ Len(ToLower(q)) = Len(q) /\ \A i \in 1 .. Len(q) : ToLower(q)[i] = lower(q[i])
    BY ToLowerIs DEF ToLower
  <2> HIDE DEF lower
  <2>3. ToLower(Append(q, c)) = Append(ToLower(q), lower(c))
    <3> DEFINE longer == Append(q, c)
               x == ToLower(longer)
               y == Append(ToLower(q), lower(c))
               n == Len(q) + 1
    <3>1. longer \in Seq(Digit) /\ Len(longer) = n /\ longer[n] = c /\ \A i \in 1 .. Len(q) : longer[i] = q[i]
      OBVIOUS
    <3>2. /\ y \in Seq(Nat) /\ Len(y) = n /\ y[n] = lower(c)
          /\ \A i \in 1 .. Len(q) : y[i] = ToLower(q)[i]
      BY <2>1, <2>2
    <3> HIDE DEF longer, y
    <3>3. x \in Seq(Nat) /\ Len(x) = n /\ \A i \in 1 .. n : x[i] = lower(longer[i])
      BY <3>1, ToLowerIs DEF ToLower, lower
    <3> HIDE DEF x
    <3>4. ASSUME NEW i \in 1 .. n PROVE x[i] = y[i]
      <4>1. CASE i = n
        BY <3>1, <3>2, <3>3, <4>1
      <4>2. CASE i # n
        <5>1. i \in 1 .. Len(q)
          BY <4>2
        <5> QED BY <2>2, <3>1, <3>2, <3>3, <5>1
      <4> QED BY <4>1, <4>2
    <3>5. x = y
      <4>1. Len(x) = Len(y) /\ \A i \in 1 .. Len(x) : x[i] = y[i]
        BY <3>2, <3>3, <3>4
      <4> QED BY <3>2, <3>3, <4>1, SeqEqual
    <3> QED BY <3>5 DEF x, y, longer
  <2>4. Nybbles(Append(ToLower(q), lower(c))) = Append(Nybbles(ToLower(q)), c)
    BY <2>1, <2>2, NybblesAppend
  <2>5. Nybbles(ToLower(q)) = q
    BY <1>2
  <2>6. Append(q, c) \in Seq(Digit)
    OBVIOUS
  <2> QED BY <2>3, <2>4, <2>5, <2>6
<1>3. S \subseteq Seq(Digit)
  OBVIOUS
<1>4. \A q \in Seq(Digit) : q \in S
  <2> HIDE DEF S
  <2> QED BY <1>1, <1>2, TextsByInduction
<1> QED BY <1>4

LEMMA PairedLength ==
  ASSUME NEW q \in Seq(Digit)
  PROVE  /\ Paired(q) \in Seq(Nat) /\ Len(Paired(q)) = Len(q) \div 2
<1> DEFINE n == Len(q) \div 2
           v(i) == 16 * q[2 * i - 1] + q[2 * i]
<1>1. n \in Nat /\ \A i \in 1 .. n : 2 * i - 1 \in 1 .. Len(q) /\ 2 * i \in 1 .. Len(q)
  OBVIOUS
<1>2. Paired(q) = [i \in 1 .. n |-> v(i)]
  BY DEF Paired
<1> HIDE DEF n
<1>3. \A i \in 1 .. n : v(i) \in Nat
  <2> SUFFICES ASSUME NEW i \in 1 .. n PROVE v(i) \in Nat
    OBVIOUS
  <2>1. q[2 * i - 1] \in Digit /\ q[2 * i] \in Digit
    BY <1>1
  <2>2. q[2 * i - 1] \in Nat /\ q[2 * i] \in Nat
    BY <2>1, DigitsAreNat
  <2> QED BY <2>2
<1> HIDE DEF v
<1>4. [i \in 1 .. n |-> v(i)] \in Seq(Nat) /\ Len([i \in 1 .. n |-> v(i)]) = n
  BY <1>1, <1>3
<1> QED BY <1>2, <1>4 DEF n

LEMMA HelperReads ==
  ASSUME NEW text \in Seq(Nat), NEW bin \in Seq(Byte), Nybbles(text) = HexOf(bin)
  PROVE  HELPER_StrAsciiToHex(text) = bin
<1> DEFINE hex == HexOf(bin)
           m == Len(bin)
<1>1. hex \in Seq(Digit) /\ Len(hex) = 2 * m /\ m \in Nat
  BY HexOfIs
<1>2. Len(hex) % 2 # 1
  <2>1. \A n \in Nat : (2 * n) % 2 # 1
    OBVIOUS
  <2> QED BY <1>1, <2>1
<1>3. 2 * m <= Len(text)
  BY <1>1, NybblesLength
<1>4. Paired(hex) = bin
  BY PairedHex
<1> HIDE DEF hex
<1>5. HELPER_StrAsciiToHex(text) = SubSeq(Paired(hex), 1, AtMost(Len(text), Len(Paired(hex))))
  BY <1>2, Zenon DEF hex, HELPER_StrAsciiToHex, HELPER_AsciiToHexBin
<1>6. AtMost(Len(text), m) = m
  BY <1>1, <1>3 DEF AtMost
<1> QED BY <1>4, <1>5, <1>6, SubSeqFull

\* The reader that starts from the last digit and the one that starts from the first.
LEMMA ReadersAgree ==
  ASSUME NEW text \in Seq(Nat)
  PROVE  /\ CNV_AsciiHexToBinStr(text) = HELPER_StrAsciiToHex(text)
         /\ Len(Nybbles(text)) % 2 = 0 => CNV_AsciiHexToBinStr(text) = Paired(Nybbles(text))
<1> DEFINE q == Nybbles(text)
           even == IF Len(q) % 2 = 1 THEN <<0>> \o q ELSE q
           rev == Reverse(q)
           evenRev == IF Len(rev) % 2 = 1 THEN Append(rev, 0) ELSE rev
<1>1. q \in Seq(Digit) /\ Len(q) <= Len(text) /\ Len(q) \in Nat /\ Len(text) \in Nat
  BY NybblesAre, NybblesLength
<1>2. CNV_AsciiHexToBinStr(text) = Paired(Reverse(evenRev))
  BY Zenon DEF CNV_AsciiHexToBinStr
<1>3. HELPER_StrAsciiToHex(text) = SubSeq(Paired(even), 1, AtMost(Len(text), Len(Paired(even))))
  BY Zenon DEF HELPER_StrAsciiToHex, HELPER_AsciiToHexBin
<1> HIDE DEF q
<1>4. rev \in Seq(Digit) /\ Len(rev) = Len(q) /\ Reverse(rev) = q
      /\ \A i \in 1 .. Len(q) : rev[i] = q[Len(q) - i + 1]
  BY <1>1, ReverseProperties
<1>5. even \in Seq(Digit) /\ (Len(q) % 2 # 1 => even = q) /\ Len(even) \div 2 <= Len(text)
  <2>1. CASE Len(q) % 2 = 1
    <3>1. 0 \in Digit /\ <<0>> \o q \in Seq(Digit) /\ Len(<<0>> \o q) = Len(q) + 1
      BY <1>1 DEF Digit
    <3>2. even = <<0>> \o q
      BY <2>1
    <3> HIDE DEF even
    <3>3. Len(even) = Len(q) + 1 /\ even \in Seq(Digit)
      BY <3>1, <3>2
    <3>4. \A n, l \in Nat : n % 2 = 1 /\ n <= l => (n + 1) \div 2 <= l
      OBVIOUS
    <3>5. Len(even) \div 2 <= Len(text)
      BY <1>1, <2>1, <3>3, <3>4
    <3> QED BY <2>1, <3>3, <3>5
  <2>2. CASE Len(q) % 2 # 1
    <3>1. even = q
      BY <2>2
    <3> HIDE DEF even
    <3>2. \A n, l \in Nat : n <= l => n \div 2 <= l
      OBVIOUS
    <3>3. Len(even) \div 2 <= Len(text)
      BY <1>1, <3>1, <3>2
    <3> QED BY <1>1, <3>1, <3>3
  <2> QED BY <2>1, <2>2
<1>6. Reverse(evenRev) = even
  <2>1. CASE Len(q) % 2 = 1
    <3> DEFINE x == Append(rev, 0)
               y == <<0>> \o q
               n == Len(q)
    <3>1. n \in Nat /\ 0 \in Digit
      BY <1>1 DEF Digit
    <3>2. x \in Seq(Digit) /\ Len(x) = n + 1 /\ x[n + 1] = 0 /\ \A i \in 1 .. n : x[i] = rev[i]
      <4> HIDE DEF rev
      <4> QED BY <1>4, <3>1
    <3>3. y \in Seq(Digit) /\ Len(y) = n + 1 /\ y[1] = 0 /\ \A i \in 2 .. n + 1 : y[i] = q[i - 1]
      BY <1>1, <3>1
    <3> HIDE DEF x, y, n
    <3>4. Reverse(x) \in Seq(Digit) /\ Len(Reverse(x)) = n + 1
          /\ \A i \in 1 .. n + 1 : Reverse(x)[i] = x[(n + 1) - i + 1]
      BY <3>2, ReverseProperties
    <3>5. ASSUME NEW i \in 1 .. n + 1 PROVE Reverse(x)[i] = y[i]
      <4>1. CASE i = 1
        <5>1. (n + 1) - i + 1 = n + 1
          BY <3>1, <4>1
        <5> QED BY <3>2, <3>3, <3>4, <4>1, <5>1
      <4>2. CASE i # 1
        <5>1. i \in 2 .. n + 1 /\ (n + 1) - i + 1 \in 1 .. n /\ n - ((n + 1) - i + 1) + 1 = i - 1
          BY <3>1, <4>2
        <5>2. Reverse(x)[i] = rev[(n + 1) - i + 1]
          BY <3>2, <3>4, <5>1
        <5>3. rev[(n + 1) - i + 1] = q[i - 1]
          BY <1>4, <5>1, Zenon DEF n
        <5> QED BY <3>3, <5>1, <5>2, <5>3
      <4> QED BY <4>1, <4>2
    <3>6. Reverse(x) = y
      <4>1. Len(Reverse(x)) = Len(y) /\ \A i \in 1 .. Len(Reverse(x)) : Reverse(x)[i] = y[i]
        BY <3>3, <3>4, <3>5
      <4> QED BY <3>3, <3>4, <4>1, SeqEqual
    <3>7. evenRev = x /\ even = y
      BY <1>4, <2>1, Zenon DEF x, y
    <3> QED BY <3>6, <3>7
  <2>2. CASE Len(q) % 2 # 1
    BY <1>4, <2>2, Zenon
  <2> QED BY <2>1, <2>2
<1> HIDE DEF even, evenRev
<1>7. SubSeq(Paired(even), 1, AtMost(Len(text), Len(Paired(even)))) = Paired(even)
  <2>1. Paired(even) \in Seq(Nat) /\ Len(Paired(even)) = Len(even) \div 2
    BY <1>5, PairedLength
  <2>2. Len(Paired(even)) \in Nat /\ Len(Paired(even)) <= Len(text)
    BY <1>5, <2>1
  <2>3. AtMost(Len(text), Len(Paired(even))) = Len(Paired(even))
    BY <1>1, <2>2 DEF AtMost
  <2> QED BY <2>1, <2>3, SubSeqFull
<1>8. Len(q) % 2 = 0 => even = q
  BY <1>1, <1>5
<1> QED BY <1>2, <1>3, <1>6, <1>7, <1>8 DEF q

LEMMA AddressReads ==
  ASSUME NEW bin \in Seq(Byte), NEW n \in Nat, 2 * Len(bin) <= n
  PROVE  reverse_uuid(CNV_AsciiHexToBinStr(CNV_convertBdAddr2Str(bin, n))) = bin
<1> DEFINE rev == Reverse(bin)
           hex == HexOf(rev)
<1>1. /\ rev \in Seq(Byte) /\ Len(rev) = Len(bin)
      /\ \A i \in 1 .. Len(bin) : rev[i] = bin[Len(bin) - i + 1]
  BY ReverseProperties
<1> HIDE DEF rev
<1>2. hex \in Seq(Digit) /\ Len(hex) = 2 * Len(bin) /\ Nybbles(hex) = hex /\ hex \in Seq(Nat)
  BY <1>1, HexOfIs, NybblesOfDigits, DigitsAreNat, Zenon
<1>3. CNV_convertBdAddr2Str(bin, n) = SubSeq(hex, 1, AtMost(n, Len(hex)))
  BY DEF CNV_convertBdAddr2Str, rev
<1>4. AtMost(n, Len(hex)) = Len(hex)
  BY <1>2 DEF AtMost
<1>5. CNV_convertBdAddr2Str(bin, n) = hex
  BY <1>2, <1>3, <1>4, SubSeqFull
<1>6. CNV_AsciiHexToBinStr(hex) = rev
  BY <1>1, <1>2, HexIsRead
<1>7. reverse_uuid(rev) = bin
  <2>1. /\ reverse_uuid(rev) \in Seq(Byte) /\ Len(reverse_uuid(rev)) = Len(bin)
        /\ \A i \in 1 .. Len(bin) : reverse_uuid(rev)[i] = rev[Len(bin) + 1 - i]
    BY <1>1 DEF reverse_uuid
  <2>2. \A i \in 1 .. Len(bin) : reverse_uuid(rev)[i] = bin[i]
    BY <1>1, <2>1
  <2> QED BY <2>1, <2>2, SeqEqual
<1> QED BY <1>5, <1>6, <1>7

\* A delimiter has no digits.
DelimText(d) == d \in Seq(Nat) /\ \A i \in 1 .. Len(d) : ~isHex(d[i])

LEMMA PutDelimKeeps ==
  ASSUME NEW s \in Seq(Nat), NEW room \in Nat, NEW d, DelimText(d)
  PROVE  /\ PutDelim(s, room, d) \in Seq(Nat) /\ Nybbles(PutDelim(s, room, d)) = Nybbles(s)
         /\ Len(s) + Len(d) < room => Len(PutDelim(s, room, d)) = Len(s) + Len(d)
         /\ Len(s) = room /\ Len(d) <= room => Len(PutDelim(s, room, d)) = room
<1>1. d \in Seq(Nat) /\ Nybbles(d) = <<>>
  BY NybblesOfNone DEF DelimText
<1>2. s \o d \in Seq(Nat) /\ Len(s \o d) = Len(s) + Len(d)
  BY <1>1
<1>3. Nybbles(s \o d) = Nybbles(s)
  <2>1. Nybbles(s \o d) = Nybbles(s) \o <<>> /\ Nybbles(s) \in Seq(Digit)
    BY <1>1, NybblesConcat, NybblesAre
  <2> QED BY <2>1, ConcatEmptySeq
<1>4. Len(s) \in Nat /\ Len(d) \in Nat /\ (Len(d) = 0 <=> d = <<>>)
  BY <1>1
<1>5. PutDelim(s, room, d) = s \/ PutDelim(s, room, d) = s \o d
  BY DEF PutDelim
<1>6. ASSUME Len(s) + Len(d) < room PROVE Len(PutDelim(s, room, d)) = Len(s) + Len(d)
  <2>1. CASE d = <<>>
    <3>1. PutDelim(s, room, d) = s /\ Len(d) = 0
      BY <1>4, <2>1 DEF PutDelim
    <3> QED BY <1>4, <3>1
  <2>2. CASE d # <<>>
    <3>1. FitsBefore(Len(s), room, Len(d))
      BY <1>4, <1>6 DEF FitsBefore
    <3> QED BY <1>2, <2>2, <3>1 DEF PutDelim
  <2> QED BY <2>1, <2>2
<1>7. ASSUME Len(s) = room, Len(d) <= room PROVE Len(PutDelim(s, room, d)) = room
  <2>1. CASE d = <<>>
    BY <1>7, <2>1 DEF PutDelim
  <2>2. CASE d # <<>>
    <3>1. ~FitsBefore(Len(s), room, Len(d))
      BY <1>4, <1>7 DEF FitsBefore
    <3> QED BY <1>7, <3>1 DEF PutDelim
  <2> QED BY <2>1, <2>2
<1> QED BY <1>2, <1>3, <1>5, <1>6, <1>7

\* A byte between its delimiters fits behind n characters, or is the last one and fits
\* without the second delimiter; and the text with it.
HasRoom(n, room, p, q) ==
  /\ n + 2 + p <= room
  /\ n + 2 + p + q < room \/ (n + 2 + p = room /\ q <= room)
BytePut(text, hex, n, room, p, q) ==
  /\ text \in Seq(Nat) /\ Nybbles(text) = hex
  /\ Len(text) = n + 2 + p + (IF n + 2 + p = room THEN 0 ELSE q)

LEMMA PutByteWhole ==
  ASSUME NEW s \in Seq(Nat), NEW room \in Nat, NEW v \in Byte, NEW pre, NEW post, NEW bin \in Seq(Byte),
         DelimText(pre), DelimText(post), Nybbles(s) = HexOf(bin), HasRoom(Len(s), room, Len(pre), Len(post))
  PROVE  BytePut(PutByte(s, room, pre, v, post), HexOf(Append(bin, v)), Len(s), room, Len(pre), Len(post))
<1> DEFINE before == PutDelim(s, room, pre)
           digits == PutDigits(before, room, v)
           after == PutDelim(digits, room, post)
           n == Len(s)
           p == Len(pre)
           q == Len(post)
<1>0. n \in Nat /\ p \in Nat /\ q \in Nat
  BY DEF DelimText
<1>2. n + 2 + p <= room /\ (n + 2 + p + q < room \/ (n + 2 + p = room /\ q <= room))
  BY Zenon DEF HasRoom
<1>1. before \in Seq(Nat) /\ Nybbles(before) = HexOf(bin) /\ Len(before) = n + p
  <2>1. Len(s) + Len(pre) < room
    <3>1. n + p < room
      <4> HIDE DEF n, p, q
      <4> QED BY <1>0, <1>2
    <3> QED BY <3>1
  <2> QED BY <2>1, PutDelimKeeps
<1>3. digits \in Seq(Nat) /\ Nybbles(digits) = HexOf(Append(bin, v)) /\ Len(digits) = n + p + 2
  <2> HIDE DEF before, n, p, q
  <2>1. ~(room < 2) /\ Len(before) <= room - 2
    BY <1>0, <1>1, <1>2
  <2>2. digits = before \o CNV_BinByteToAscHexByte(v)
    BY <2>1 DEF PutDigits
  <2>3. /\ before \o CNV_BinByteToAscHexByte(v) \in Seq(Nat)
        /\ Len(before \o CNV_BinByteToAscHexByte(v)) = Len(before) + 2
        /\ Nybbles(before \o CNV_BinByteToAscHexByte(v)) = HexOf(Append(bin, v))
    BY <1>1, NybblesOfByte
  <2> HIDE DEF digits
  <2> QED BY <1>0, <1>1, <2>2, <2>3
<1>4. PutByte(s, room, pre, v, post) = after
  <2>1. n < room
    BY <1>0, <1>2
  <2> QED BY <2>1 DEF PutByte
<1> HIDE DEF digits
<1>5. after \in Seq(Nat) /\ Nybbles(after) = HexOf(Append(bin, v))
  BY <1>3, PutDelimKeeps
<1>6. Len(after) = n + 2 + p + (IF n + 2 + p = room THEN 0 ELSE q)
  <2>1. CASE n + 2 + p = room
    <3>1. Len(digits) = room /\ Len(post) <= room
      BY <1>0, <1>2, <1>3, <2>1
    <3>2. Len(after) = room
      BY <1>3, <3>1, PutDelimKeeps
    <3> HIDE DEF after, n, p, q
    <3> QED BY <1>0, <2>1, <3>2
  <2>2. CASE n + 2 + p # room
    <3>1. Len(digits) + Len(post) < room
      BY <1>0, <1>2, <1>3, <2>2
    <3>2. Len(after) = Len(digits) + Len(post)
      BY <1>3, <3>1, PutDelimKeeps
    <3> HIDE DEF after, n, p
    <3> QED BY <1>0, <1>3, <2>2, <3>2
  <2> QED BY <2>1, <2>2
<1> QED BY <1>4, <1>5, <1>6, Zenon DEF n, p, q, BytePut

LEMMA Products ==
  ASSUME NEW c \in Nat, NEW k \in Nat, NEW n \in Nat
  PROVE  /\ k * c \in Nat /\ (k + 1) * c = k * c + c
         /\ k + 1 < n => k * c + 2 * c <= n * c
         /\ n = k + 1 => k * c + c = n * c
<1>1. k * c \in Nat /\ (k + 1) * c = k * c + c
  BY SMT
<1>2. ASSUME k + 1 < n PROVE k * c + 2 * c <= n * c
  <2> DEFINE d == n - k - 2
  <2>1. d \in Nat /\ n = k + 2 + d
    BY <1>2
  <2> HIDE DEF d
  <2>2. (k + 2 + d) * c = k * c + 2 * c + d * c /\ d * c \in Nat
    BY <2>1, SMT
  <2>3. n * c = k * c + 2 * c + d * c
    BY <2>1, <2>2
  <2> DEFINE x == k * c
             y == 2 * c
             z == d * c
  <2>4. x \in Nat /\ y \in Nat /\ z \in Nat
    BY <1>1, <2>2
  <2> HIDE DEF x, y, z
  <2>5. x + y <= x + y + z
    BY <2>4
  <2> QED BY <2>3, <2>5 DEF x, y, z
<1> QED BY <1>1, <1>2

LEMMA DelimitedWhole ==
  ASSUME NEW bin \in Seq(Byte), NEW pre, NEW post, DelimText(pre), DelimText(post),
         Len(post) < DelimLength(bin, pre, post)
  PROVE  /\ CNV_BinToHexDelimStr(bin, pre, post) \in Seq(Nat)
         /\ Nybbles(CNV_BinToHexDelimStr(bin, pre, post)) = HexOf(bin)
         /\ Len(CNV_BinToHexDelimStr(bin, pre, post)) = DelimLength(bin, pre, post) - 1
<1> DEFINE n == Len(bin)
           p == Len(pre)
           q == Len(post)
           c == 2 + p + q
           size == DelimLength(bin, pre, post)
           room == size - 1
<1>1. n \in Nat /\ p \in Nat /\ q \in Nat /\ c \in Nat /\ pre \in Seq(Nat) /\ post \in Seq(Nat)
  BY DEF DelimText
<1>2. (n = 0 => size = 1) /\ (n # 0 => size = n * c - q + 1)
  <2>1. CASE n = 0
    <3>1. bin = <<>>
      BY <2>1, EmptySeq
    <3>2. size = 2 * n + n * p + 0 * q + 1
      BY <3>1 DEF DelimLength
    <3>3. 0 * p = 0 /\ 0 * q = 0
      BY <1>1
    <3> HIDE DEF size, p, q
    <3> QED BY <2>1, <3>2, <3>3
  <2>2. CASE n # 0
    <3>1. bin # <<>>
      BY <2>2
    <3>2. size = 2 * n + n * p + (n - 1) * q + 1
      BY <3>1 DEF DelimLength
    <3> HIDE DEF n, p, q, size
    <3>3. n * (2 + p + q) = 2 * n + n * p + n * q /\ (n - 1) * q = n * q - q
      BY <1>1, SMT
    <3>4. n * p \in Nat /\ n * q \in Nat
      BY <1>1, SMT
    <3> DEFINE x == n * p
               y == n * q
    <3>5. n * c = 2 * n + x + y /\ size = 2 * n + x + (y - q) + 1
      BY <3>2, <3>3
    <3> HIDE DEF x, y, c
    <3>6. x \in Nat /\ y \in Nat
      BY <3>4 DEF x, y
    <3> QED BY <1>1, <2>2, <3>5, <3>6
  <2> QED BY <2>1, <2>2
<1>3. q < size
  OBVIOUS
<1>4. CNV_BinToHexDelimStr(bin, pre, post) = CNV_BinToHexDelim(bin, pre, size, post)
  BY DEF CNV_BinToHexDelimStr
<1> HIDE DEF size, n
<1>5. n * c \in Nat /\ size \in Nat \ {0} /\ room \in Nat
  <2>1. n * c \in Nat
    BY <1>1, Products
  <2> HIDE DEF c
  <2>2. n = 0 \/ n # 0
    OBVIOUS
  <2>3. size \in Int
    BY <1>1, <1>2, <2>1, <2>2
  <2>4. size > 0
    BY <1>1, <1>3, <2>3
  <2> QED BY <2>1, <2>3, <2>4
<1>6. PICK f : /\ IsDelimited(f, bin, pre, size, post) /\ CNV_BinToHexDelim(bin, pre, size, post) = f[n]
               /\ \A k \in 0 .. n : f[k] \in Seq(Nat)
  BY <1>1, <1>5, DelimBuilds DEF n
<1>7. f[0] = <<>> /\ \A k \in 1 .. n : f[k] = PutByte(f[k - 1], room, pre, bin[k], post)
  BY <1>6, Zenon DEF IsDelimited, n
<1> DEFINE Good(k) == /\ Nybbles(f[k]) = HexOf(Upto(bin, k))
                      /\ Len(f[k]) = IF k = n THEN room ELSE k * c
           S == {k \in Nat : k <= n => Good(k)}
<1>8. 0 \in S
  <2>1. Nybbles(<<>>) = HexOf(Upto(bin, 0))
    BY UptoIs, HexOfNothing, NybblesEmpty
  <2>2. 0 * c = 0 /\ (n = 0 => room = 0) /\ Len(<<>>) = 0
    BY <1>1, <1>2
  <2> QED BY <1>1, <1>7, <2>1, <2>2
<1>9. ASSUME NEW k \in Nat, k \in S PROVE k + 1 \in S
  <2> SUFFICES ASSUME k + 1 <= n PROVE Good(k + 1)
    OBVIOUS
  <2> DEFINE s == f[k]
             v == bin[k + 1]
             u == Upto(bin, k)
             l == k * c
             m == n * c
             r == f[k + 1]
  <2>1. k < n /\ k \in 0 .. n /\ k + 1 \in 1 .. n /\ (k + 1) - 1 = k /\ k # n
    BY <1>1
  <2>2. v \in Byte
    BY <2>1 DEF n
  <2>3. s \in Seq(Nat) /\ r = PutByte(s, room, pre, v, post)
    BY <1>6, <1>7, <2>1, Zenon
  <2>4. Nybbles(s) = HexOf(u) /\ Len(s) = l
    BY <1>9, <2>1
  <2>5. u \in Seq(Byte) /\ Upto(bin, k + 1) = Append(u, v)
    BY <2>1, UptoIs DEF n
  <2>6. /\ l \in Nat /\ (k + 1) * c = l + c /\ (k + 1 < n => l + 2 * c <= m) /\ (n = k + 1 => l + c = m)
        /\ m \in Nat /\ room = m - q
    <3>1. /\ l \in Nat /\ (k + 1) * c = l + c /\ (k + 1 < n => l + 2 * c <= m) /\ (n = k + 1 => l + c = m)
      BY <1>1, Products
    <3>2. size = m - q + 1
      BY <1>1, <1>2, <2>1
    <3> HIDE DEF m, q
    <3> QED BY <1>1, <1>5, <3>1, <3>2 DEF m
  <2> HIDE DEF s, v, u, l, m, r, room
  <2>7. CASE n = k + 1
    <3>1. l + 2 + p = room /\ q <= room /\ room \in Nat
      <4>1. l + c = m /\ q < size /\ room = size - 1 /\ size \in Nat
        BY <1>3, <1>5, <2>6, <2>7 DEF room
      <4>2. c = 2 + p + q
        OBVIOUS
      <4> HIDE DEF c, p, q
      <4> QED BY <1>1, <1>5, <2>6, <4>1, <4>2 DEF room
    <3>2. HasRoom(Len(s), room, Len(pre), Len(post))
      <4>1. l + 2 + p <= room
        BY <3>1
      <4> QED BY <2>4, <3>1, <4>1, Zenon DEF HasRoom
    <3>5. BytePut(r, HexOf(Append(u, v)), Len(s), room, Len(pre), Len(post))
      BY <2>2, <2>3, <2>4, <2>5, <3>1, <3>2, PutByteWhole, Zenon
    <3>3. /\ Nybbles(r) = HexOf(Append(u, v))
          /\ Len(r) = l + 2 + p + (IF l + 2 + p = room THEN 0 ELSE q)
      BY <2>4, <3>5, Zenon DEF BytePut
    <3>4. Len(r) = room
      <4>1. Len(r) = l + 2 + p + 0
        BY <3>1, <3>3
      <4> HIDE DEF p
      <4> QED BY <1>1, <2>6, <3>1, <4>1
    <3> QED BY <2>5, <2>7, <3>3, <3>4 DEF r
  <2>8. CASE n # k + 1
    <3>1. l + 2 + p + q < room /\ room \in Nat /\ l + 2 + p <= room /\ l + 2 + p # room
      <4>1. l + 2 * c <= m /\ room = m - q /\ room \in Nat
        BY <1>1, <1>5, <2>1, <2>6, <2>8 DEF room
      <4>2. c = 2 + p + q
        OBVIOUS
      <4> HIDE DEF c, p, q
      <4> QED BY <1>1, <2>6, <4>1, <4>2
    <3>2. HasRoom(Len(s), room, Len(pre), Len(post))
      BY <2>4, <3>1, Zenon DEF HasRoom
    <3>5. BytePut(r, HexOf(Append(u, v)), Len(s), room, Len(pre), Len(post))
      BY <2>2, <2>3, <2>4, <2>5, <3>1, <3>2, PutByteWhole, Zenon
    <3>3. /\ Nybbles(r) = HexOf(Append(u, v))
          /\ Len(r) = l + 2 + p + (IF l + 2 + p = room THEN 0 ELSE q)
      BY <2>4, <3>5, Zenon DEF BytePut
    <3>4. Len(r) = (k + 1) * c
      <4>1. Len(r) = l + 2 + p + q
        BY <3>1, <3>3
      <4>2. l + 2 + p + q = l + c
        BY <1>1, <2>6
      <4> QED BY <2>6, <4>1, <4>2
    <3> QED BY <2>5, <2>8, <3>3, <3>4 DEF r
  <2> QED BY <2>7, <2>8
<1>10. Good(n)
  <2>1. \A k \in Nat : k \in S
    <3> HIDE DEF S
    <3> QED BY <1>8, <1>9, NumbersByInduction
  <2> QED BY <1>1, <2>1
<1>11. Upto(bin, n) = bin
  BY UptoIs DEF n
<1>12. f[n] \in Seq(Nat)
  BY <1>1, <1>6
<1> QED BY <1>4, <1>6, <1>10, <1>11, <1>12 DEF room, size

-----------------------------------------------------------------------------
(* The groups of a UUID.                                                     *)

\* The digits up to the end of each group.
IsUuidEnd(f, last) ==
  /\ f[0] = 0
  /\ \A k \in 1 .. last : f[k] = f[k - 1] + UuidGroups[k]

LEMMA UuidBuilds ==
  ASSUME NEW last \in 0 .. Len(UuidGroups)
  PROVE  \E f : /\ IsUuidEnd(f, last) /\ UuidEnd(last) = f[last]
                /\ \A k \in 0 .. last : f[k] \in Nat
<1> DEFINE N == last
           X == Nat
           next(k, s) == s + UuidGroups[k]
           step == [p \in (1 .. N) \X X |-> next(p[1], p[2])]
<1>1. N \in Nat
  OBVIOUS
<1>2. 0 \in X
  OBVIOUS
<1>3. ASSUME NEW k \in 1 .. N, NEW s \in X PROVE next(k, s) \in X
  <2>1. k \in 1 .. Len(UuidGroups) /\ UuidGroups \in Seq(Nat \ {0})
    BY HexAssumption
  <2>2. UuidGroups[k] \in Nat
    BY <2>1
  <2> QED BY <2>2
<1>4. step \in [(1 .. N) \X X -> X] /\ \A k \in 1 .. N, s \in X : step[<<k, s>>] = next(k, s)
  <2> HIDE DEF next, N, X
  <2> QED BY <1>3
<1>5. PICK f : Follows(f, X, 0, step, N)
  <2> HIDE DEF step, N, X
  <2> QED BY <1>1, <1>2, <1>4, Recursion
<1> DEFINE Is(g) == g = [k \in 0 .. N |-> IF k = 0 THEN 0 ELSE next(k, g[k - 1])]
<1>6. ASSUME NEW k \in 0 .. N PROVE f[k] = IF k = 0 THEN 0 ELSE next(k, f[k - 1])
  <2> HIDE DEF next, step, N, X
  <2>1. CASE k = 0
    BY <1>5, <2>1 DEF Follows
  <2>2. CASE k # 0
    <3>1. k \in 1 .. N /\ k - 1 \in 0 .. N
      BY <1>1, <2>2
    <3>2. f[k - 1] \in X /\ f[k] = step[<<k, f[k - 1]>>]
      BY <1>5, <3>1 DEF Follows
    <3> QED BY <1>4, <2>2, <3>1, <3>2
  <2> QED BY <2>1, <2>2
<1>7. Is(f)
  <2>1. f = [k \in 0 .. N |-> f[k]]
    BY <1>5 DEF Follows
  <2> HIDE DEF step, X, next, N
  <2> QED BY <1>6, <2>1, Zenon
<1> DEFINE found[k \in 0 .. N] == IF k = 0 THEN 0 ELSE found[k - 1] + UuidGroups[k]
<1>8. Is(found)
  <2>1. \E g : Is(g)
    BY <1>7
  <2> QED BY <2>1, Zenon
<1>9. UuidEnd(last) = found[N]
  BY Zenon DEF UuidEnd
<1> HIDE DEF found
<1>10. \A k \in 0 .. N : found[k] = IF k = 0 THEN 0 ELSE next(k, found[k - 1])
  <2> HIDE DEF N, X, next
  <2> QED BY <1>8, Zenon
<1> HIDE DEF Is
<1>11. found[0] = 0 /\ \A k \in 1 .. N : found[k] = next(k, found[k - 1])
  <2> HIDE DEF N, X, next
  <2>1. 0 \in 0 .. N /\ \A k \in 1 .. N : k \in 0 .. N /\ k # 0
    BY <1>1
  <2>2. found[0] = 0
    BY <1>10, <2>1, Zenon
  <2>3. ASSUME NEW k \in 1 .. N PROVE found[k] = next(k, found[k - 1])
    BY <1>10, <2>1, Zenon
  <2> QED BY <2>2, <2>3
<1>12. \A k \in 0 .. N : found[k] \in X
  <2> HIDE DEF N, X, next
  <2>1. found[0] \in X
    BY <1>2, <1>11
  <2>2. \A k \in 1 .. N : found[k - 1] \in X => found[k] \in X
    BY <1>3, <1>11
  <2> QED BY <1>1, <2>1, <2>2, RecursionStays
<1>13. IsUuidEnd(found, last)
  BY <1>11, Zenon DEF IsUuidEnd
<1> QED BY <1>9, <1>12, <1>13, Zenon

LEMMA UuidEndIs ==
  /\ UuidEnd(0) = 0
  /\ \A g \in 0 .. Len(UuidGroups) : UuidEnd(g) \in Nat
  /\ \A g \in 0 .. Len(UuidGroups) : g + 1 <= Len(UuidGroups) =>
       /\ UuidEnd(g + 1) = UuidEnd(g) + UuidGroups[g + 1] /\ UuidGroups[g + 1] \in Nat
<1> DEFINE G == Len(UuidGroups)
<1>1. UuidGroups \in Seq(Nat \ {0}) /\ G \in Nat
  BY HexAssumption
<1>2. UuidEnd(0) = 0
  <2>1. 0 \in 0 .. G
    BY <1>1
  <2>2. PICK f : IsUuidEnd(f, 0) /\ UuidEnd(0) = f[0]
    BY <2>1, UuidBuilds, Zenon
  <2> QED BY <2>2 DEF IsUuidEnd
<1>3. ASSUME NEW g \in 0 .. G PROVE UuidEnd(g) \in Nat
  <2>1. PICK f : UuidEnd(g) = f[g] /\ \A k \in 0 .. g : f[k] \in Nat
    BY UuidBuilds
  <2> QED BY <2>1
<1>4. ASSUME NEW g \in 0 .. G, g + 1 <= G
      PROVE  UuidEnd(g + 1) = UuidEnd(g) + UuidGroups[g + 1] /\ UuidGroups[g + 1] \in Nat
  <2>1. g \in Nat /\ g + 1 \in 0 .. G /\ g + 1 \in 1 .. G /\ g + 1 \in 1 .. g + 1 /\ (g + 1) - 1 = g
    BY <1>1, <1>4
  <2>2. PICK f : IsUuidEnd(f, g) /\ UuidEnd(g) = f[g]
    BY UuidBuilds
  <2>3. PICK h : IsUuidEnd(h, g + 1) /\ UuidEnd(g + 1) = h[g + 1]
    BY <2>1, UuidBuilds, Zenon
  <2>4. Alike(f, h, g)
    <3>1. f[0] = h[0]
      BY <2>2, <2>3 DEF IsUuidEnd
    <3>2. ASSUME NEW k \in 1 .. g, f[k - 1] = h[k - 1] PROVE f[k] = h[k]
      <4>1. k \in 1 .. g + 1
        BY <2>1
      <4> QED BY <2>2, <2>3, <3>2, <4>1, Zenon DEF IsUuidEnd
    <3> QED BY <3>1, <3>2, Zenon DEF Alike
  <2>5. f[g] = h[g]
    BY <2>1, <2>4, AlikeEqual, Zenon
  <2>6. h[g + 1] = h[(g + 1) - 1] + UuidGroups[g + 1]
    BY <2>1, <2>3, Zenon DEF IsUuidEnd
  <2>7. UuidGroups[g + 1] \in Nat
    BY <1>1, <2>1
  <2> QED BY <2>1, <2>2, <2>3, <2>5, <2>6, <2>7
<1> QED BY <1>2, <1>3, <1>4

LEMMA UuidEndGrows ==
  \A g \in 0 .. Len(UuidGroups) : UuidEnd(g) <= UuidEnd(Len(UuidGroups))
<1> DEFINE G == Len(UuidGroups)
           S == {j \in Nat : j <= G => \A k \in 0 .. j : UuidEnd(k) <= UuidEnd(j)}
<1>1. G \in Nat
  BY HexAssumption
<1>2. 0 \in S
  <2>1. \A k \in 0 .. 0 : UuidEnd(k) <= UuidEnd(0)
    BY UuidEndIs
  <2> QED BY <2>1
<1>3. ASSUME NEW j \in Nat, j \in S PROVE j + 1 \in S
  <2> SUFFICES ASSUME j + 1 <= G, NEW k \in 0 .. j + 1 PROVE UuidEnd(k) <= UuidEnd(j + 1)
    OBVIOUS
  <2>1. j \in 0 .. G /\ k \in 0 .. G /\ j + 1 \in 0 .. G
    BY <1>1
  <2>2. UuidEnd(j) \in Nat /\ UuidEnd(k) \in Nat /\ UuidEnd(j + 1) \in Nat
        /\ \E n \in Nat : UuidEnd(j + 1) = UuidEnd(j) + n
    BY <2>1, UuidEndIs
  <2>3. CASE k = j + 1
    BY <2>2, <2>3
  <2>4. CASE k # j + 1
    <3>1. k \in 0 .. j
      BY <2>4
    <3>2. UuidEnd(k) <= UuidEnd(j)
      BY <1>1, <1>3, <2>1, <3>1
    <3> QED BY <2>2, <3>2
  <2> QED BY <2>3, <2>4
<1>4. \A j \in Nat : j \in S
  <2> HIDE DEF S
  <2> QED BY <1>2, <1>3, NumbersByInduction
<1> QED BY <1>1, <1>4

LEMMA CutInTwo ==
  ASSUME NEW X, NEW q \in Seq(X), NEW m \in Nat, NEW n \in Nat, m <= n, n <= Len(q)
  PROVE  /\ SubSeq(q, 1, m) \o SubSeq(q, m + 1, n) = SubSeq(q, 1, n)
         /\ SubSeq(q, m + 1, n) \in Seq(X) /\ SubSeq(q, 1, m) \in Seq(X)
<1> DEFINE u == SubSeq(q, 1, m)
           v == SubSeq(q, m + 1, n)
           whole == SubSeq(q, 1, n)
<1>1. u \in Seq(X) /\ Len(u) = m /\ \A i \in 1 .. m : u[i] = q[i]
  OBVIOUS
<1>2. v \in Seq(X) /\ Len(v) = n - m /\ \A i \in 1 .. n - m : v[i] = q[m + i]
  OBVIOUS
<1>3. whole \in Seq(X) /\ Len(whole) = n /\ \A i \in 1 .. n : whole[i] = q[i]
  OBVIOUS
<1> HIDE DEF u, v, whole
<1>4. /\ u \o v \in Seq(X) /\ Len(u \o v) = Len(u) + Len(v)
      /\ \A i \in 1 .. Len(u) : (u \o v)[i] = u[i]
      /\ \A i \in Len(u) + 1 .. Len(u) + Len(v) : (u \o v)[i] = v[i - Len(u)]
  BY <1>1, <1>2, ConcatIs, ZenonT(30)
<1>5. ASSUME NEW i \in 1 .. n PROVE (u \o v)[i] = whole[i]
  <2>1. CASE i <= m
    <3>1. i \in 1 .. m
      BY <2>1
    <3>2. (u \o v)[i] = u[i]
      BY <1>1, <1>4, <3>1, Zenon
    <3> QED BY <1>1, <1>3, <3>1, <3>2, Zenon
  <2>2. CASE ~(i <= m)
    <3>1. i - m \in 1 .. n - m /\ i \in m + 1 .. m + (n - m) /\ m + (i - m) = i
      BY <2>2
    <3>2. (u \o v)[i] = v[i - m]
      BY <1>1, <1>2, <1>4, <3>1, Zenon
    <3>3. v[i - m] = q[i]
      BY <1>2, <3>1, Zenon
    <3> QED BY <1>3, <3>2, <3>3, Zenon
  <2> QED BY <2>1, <2>2
<1>6. Len(u \o v) = n
  BY <1>1, <1>2, <1>4
<1>7. u \o v = whole
  <2>1. Len(u \o v) = Len(whole) /\ \A i \in 1 .. Len(u \o v) : (u \o v)[i] = whole[i]
    BY <1>3, <1>5, <1>6
  <2> QED BY <1>3, <1>4, <2>1, SeqEqual
<1> QED BY <1>1, <1>2, <1>7 DEF u, v, whole

\* What is in front of a group, and the group.
GroupStart(s, h) == IF h = 1 THEN <<>> ELSE s \o <<OtherChar>>
GroupDigits(t, h) == SubSeq(t, UuidEnd(h - 1) + 1, UuidEnd(h))

LEMMA GroupStartIs ==
  ASSUME NEW s \in Seq(Nat), NEW h
  PROVE  /\ GroupStart(s, h) \in Seq(Nat)
         /\ h # 1 \/ s = <<>> => Nybbles(GroupStart(s, h)) = Nybbles(s)
BY NybblesOfColon DEF GroupStart, Colon

LEMMA GroupDigitsIs ==
  ASSUME NEW t \in Seq(Digit), Len(t) = UuidEnd(Len(UuidGroups)), NEW h \in 1 .. Len(UuidGroups)
  PROVE  /\ GroupDigits(t, h) \in Seq(Digit) /\ GroupDigits(t, h) \in Seq(Nat)
         /\ SubSeq(t, 1, UuidEnd(h - 1)) \o GroupDigits(t, h) = SubSeq(t, 1, UuidEnd(h))
<1> DEFINE G == Len(UuidGroups)
           m == UuidEnd(h - 1)
           n == UuidEnd(h)
<1>1. G \in Nat
  BY HexAssumption
<1>2. h - 1 \in 0 .. G /\ h \in 0 .. G /\ (h - 1) + 1 = h
  BY <1>1
<1>3. m \in Nat /\ n \in Nat /\ n <= Len(t) /\ \E k \in Nat : n = m + k
  <2>1. UuidEnd((h - 1) + 1) = m + UuidGroups[(h - 1) + 1] /\ UuidGroups[(h - 1) + 1] \in Nat
    <3>1. (h - 1) + 1 <= G
      BY <1>1, <1>2
    <3> QED BY <1>2, <3>1, UuidEndIs, Zenon
  <2>2. UuidEnd(h - 1) \in Nat /\ UuidEnd(h) \in Nat
    BY <1>2, UuidEndIs, Zenon
  <2>3. UuidEnd(h) <= UuidEnd(G)
    BY <1>2, UuidEndGrows, Zenon
  <2>4. UuidEnd(h) = m + UuidGroups[h] /\ UuidGroups[h] \in Nat
    BY <1>2, <2>1
  <2> QED BY <2>2, <2>3, <2>4
<1> HIDE DEF m, n
<1>4. m <= n
  BY <1>3
<1>5. SubSeq(t, 1, m) \o SubSeq(t, m + 1, n) = SubSeq(t, 1, n) /\ SubSeq(t, m + 1, n) \in Seq(Digit)
  BY <1>3, <1>4, CutInTwo
<1> QED BY <1>5, DigitsAreNat, Zenon DEF GroupDigits, m, n

\* The text with each group.
IsGrouped(f, t, last) ==
  /\ f[0] = <<>>
  /\ \A k \in 1 .. last : f[k] = GroupStart(f[k - 1], k) \o GroupDigits(t, k)

LEMMA GroupsBuild ==
  ASSUME NEW t \in Seq(Digit), Len(t) = UuidEnd(Len(UuidGroups)), NEW last \in 0 .. Len(UuidGroups)
  PROVE  \E f : /\ IsGrouped(f, t, last) /\ Grouped(t, last) = f[last]
                /\ \A k \in 0 .. last : f[k] \in Seq(Nat)
<1> DEFINE N == last
           X == Seq(Nat)
           next(k, s) == GroupStart(s, k) \o GroupDigits(t, k)
           step == [p \in (1 .. N) \X X |-> next(p[1], p[2])]
<1>1. N \in Nat
  OBVIOUS
<1>2. <<>> \in X
  OBVIOUS
<1>3. ASSUME NEW k \in 1 .. N, NEW s \in X PROVE next(k, s) \in X
  <2>1. k \in 1 .. Len(UuidGroups)
    OBVIOUS
  <2>2. GroupStart(s, k) \in Seq(Nat) /\ GroupDigits(t, k) \in Seq(Nat)
    BY <2>1, GroupStartIs, GroupDigitsIs, Zenon
  <2> QED BY <2>2, ConcatProperties, Zenon
<1>4. step \in [(1 .. N) \X X -> X] /\ \A k \in 1 .. N, s \in X : step[<<k, s>>] = next(k, s)
  <2> HIDE DEF next, N, X
  <2> QED BY <1>3
<1>5. PICK f : Follows(f, X, <<>>, step, N)
  <2> HIDE DEF step, N, X
  <2> QED BY <1>1, <1>2, <1>4, Recursion
<1> DEFINE Is(g) == g = [k \in 0 .. N |-> IF k = 0 THEN <<>> ELSE next(k, g[k - 1])]
<1>6. ASSUME NEW k \in 0 .. N PROVE f[k] = IF k = 0 THEN <<>> ELSE next(k, f[k - 1])
  <2> HIDE DEF next, step, N, X
  <2>1. CASE k = 0
    BY <1>5, <2>1 DEF Follows
  <2>2. CASE k # 0
    <3>1. k \in 1 .. N /\ k - 1 \in 0 .. N
      BY <1>1, <2>2
    <3>2. f[k - 1] \in X /\ f[k] = step[<<k, f[k - 1]>>]
      BY <1>5, <3>1 DEF Follows
    <3> QED BY <1>4, <2>2, <3>1, <3>2
  <2> QED BY <2>1, <2>2
<1>7. Is(f)
  <2>1. f = [k \in 0 .. N |-> f[k]]
    BY <1>5 DEF Follows
  <2> HIDE DEF step, X, next, N
  <2> QED BY <1>6, <2>1, Zenon
<1> DEFINE found[k \in 0 .. N] == IF k = 0 THEN <<>> ELSE GroupStart(found[k - 1], k) \o GroupDigits(t, k)
<1>8. Is(found)
  <2>1. \E g : Is(g)
    BY <1>7
  <2> QED BY <2>1, Zenon
<1>9. Grouped(t, last) = found[N]
  BY Zenon DEF Grouped, GroupStart, GroupDigits
<1> HIDE DEF found
<1>10. \A k \in 0 .. N : found[k] = IF k = 0 THEN <<>> ELSE next(k, found[k - 1])
  <2> HIDE DEF N, X, next
  <2> QED BY <1>8, Zenon
<1> HIDE DEF Is
<1>11. found[0] = <<>> /\ \A k \in 1 .. N : found[k] = next(k, found[k - 1])
  <2> HIDE DEF N, X, next
  <2>1. 0 \in 0 .. N /\ \A k \in 1 .. N : k \in 0 .. N /\ k # 0
    BY <1>1
  <2>2. found[0] = <<>>
    BY <1>10, <2>1, Zenon
  <2>3. ASSUME NEW k \in 1 .. N PROVE found[k] = next(k, found[k - 1])
    BY <1>10, <2>1, Zenon
  <2> QED BY <2>2, <2>3
<1>12. \A k \in 0 .. N : found[k] \in X
  <2> HIDE DEF N, X, next
  <2>1. found[0] \in X
    BY <1>2, <1>11
  <2>2. \A k \in 1 .. N : found[k - 1] \in X => found[k] \in X
    BY <1>3, <1>11
  <2> QED BY <1>1, <2>1, <2>2, RecursionStays
<1>13. IsGrouped(found, t, last)
  BY <1>11, Zenon DEF IsGrouped
<1> QED BY <1>9, <1>12, <1>13, Zenon

LEMMA UuidReads ==
  ASSUME NEW text \in Seq(Nat), CNV_Uuidify(text) # <<>>
  PROVE  asc_to_uuid(CNV_Uuidify(text)) = CNV_AsciiHexToBinStr(text)
<1> DEFINE t == Nybbles(text)
           G == Len(UuidGroups)
<1>1. t \in Seq(Digit) /\ G \in Nat /\ UuidEnd(G) % 2 = 0 /\ G \in 0 .. G
  BY NybblesAre, HexAssumption
<1>2. Len(t) = UuidEnd(G) /\ CNV_Uuidify(text) = Grouped(t, G)
  BY DEF CNV_Uuidify, CNV_CleanupAsciiHex
<1> HIDE DEF t
<1>3. PICK f : IsGrouped(f, t, G) /\ Grouped(t, G) = f[G] /\ \A k \in 0 .. G : f[k] \in Seq(Nat)
  BY <1>1, <1>2, GroupsBuild
<1>4. f[0] = <<>> /\ \A h \in 1 .. G : f[h] = GroupStart(f[h - 1], h) \o GroupDigits(t, h)
  BY <1>3, Zenon DEF IsGrouped
<1> DEFINE S == {k \in Nat : k <= G => Nybbles(f[k]) = SubSeq(t, 1, UuidEnd(k))}
<1>5. 0 \in S
  <2>1. SubSeq(t, 1, UuidEnd(0)) = <<>>
    BY <1>1, UuidEndIs, SubSeqEmpty
  <2> QED BY <1>4, <2>1, NybblesEmpty
<1>6. ASSUME NEW k \in Nat, k \in S PROVE k + 1 \in S
  <2> SUFFICES ASSUME k + 1 <= G PROVE Nybbles(f[k + 1]) = SubSeq(t, 1, UuidEnd(k + 1))
    OBVIOUS
  <2> DEFINE h == k + 1
             start == GroupStart(f[k], h)
             digits == GroupDigits(t, h)
  <2>1. k \in 0 .. G /\ h \in 1 .. G /\ h - 1 = k
    BY <1>1
  <2>2. f[k] \in Seq(Nat) /\ f[h] = start \o digits
    BY <1>3, <1>4, <2>1, Zenon
  <2>3. h # 1 \/ f[k] = <<>>
    <3>1. CASE k = 0
      BY <1>4, <3>1
    <3>2. CASE k # 0
      BY <3>2
    <3> QED BY <3>1, <3>2
  <2>4. start \in Seq(Nat) /\ Nybbles(start) = Nybbles(f[k])
    <3> HIDE DEF h
    <3> QED BY <2>2, <2>3, GroupStartIs
  <2>5. digits \in Seq(Digit) /\ digits \in Seq(Nat)
        /\ SubSeq(t, 1, UuidEnd(k)) \o digits = SubSeq(t, 1, UuidEnd(h))
    <3>1. /\ digits \in Seq(Digit) /\ digits \in Seq(Nat)
          /\ SubSeq(t, 1, UuidEnd(h - 1)) \o digits = SubSeq(t, 1, UuidEnd(h))
      <4> HIDE DEF h
      <4> QED BY <1>1, <1>2, <2>1, GroupDigitsIs, Zenon
    <3> QED BY <2>1, <3>1
  <2>6. Nybbles(f[k]) = SubSeq(t, 1, UuidEnd(k))
    BY <1>1, <1>6, <2>1
  <2> HIDE DEF start, digits, h
  <2>7. Nybbles(start \o digits) = Nybbles(start) \o Nybbles(digits) /\ Nybbles(digits) = digits
    BY <2>4, <2>5, NybblesConcat, NybblesOfDigits
  <2>8. Nybbles(f[h]) = SubSeq(t, 1, UuidEnd(h))
    BY <2>2, <2>4, <2>5, <2>6, <2>7, Zenon
  <2> QED BY <2>8 DEF h
<1>7. Nybbles(f[G]) = SubSeq(t, 1, UuidEnd(G))
  <2>1. \A k \in Nat : k \in S
    <3> HIDE DEF S
    <3> QED BY <1>5, <1>6, NumbersByInduction
  <2> QED BY <1>1, <2>1
<1>8. SubSeq(t, 1, UuidEnd(G)) = t
  <2>1. SubSeq(t, 1, Len(t)) = t
    BY <1>1, SubSeqFull
  <2> QED BY <1>2, <2>1
<1>9. CNV_AsciiHexToBinStr(text) = Paired(t)
  BY <1>1, <1>2, ReadersAgree DEF t
<1> QED BY <1>2, <1>3, <1>7, <1>8, <1>9, Zenon DEF asc_to_uuid

LEMMA HexReads ==
  ASSUME hexBin \in Seq(Byte), Len(hexBin) <= MaxHexBytes, hexText \in Seq(Nat)
  PROVE  HexReadsBack
<1>1. ASSUME NEW pre \in Delims, NEW post \in Delims, DelimFits(hexBin, pre, post)
      PROVE  /\ CNV_AsciiHexToBinStr(CNV_BinToHexDelimStr(hexBin, pre, post)) = hexBin
             /\ Len(CNV_BinToHexDelimStr(hexBin, pre, post)) = DelimLength(hexBin, pre, post) - 1
  <2>1. DelimText(pre) /\ DelimText(post)
    BY HexAssumption DEF DelimText
  <2>2. Len(post) < DelimLength(hexBin, pre, post)
    BY <1>1 DEF DelimFits
  <2> DEFINE t == CNV_BinToHexDelimStr(hexBin, pre, post)
  <2>3. t \in Seq(Nat) /\ Nybbles(t) = HexOf(hexBin) /\ Len(t) = DelimLength(hexBin, pre, post) - 1
    BY <2>1, <2>2, DelimitedWhole
  <2> HIDE DEF t
  <2>4. CNV_AsciiHexToBinStr(t) = hexBin
    BY <2>3, HexIsRead
  <2> QED BY <2>3, <2>4 DEF t
<1>2. ASSUME NEW toUpper \in BOOLEAN PROVE HELPER_StrAsciiToHex(CNV_BinToHexStr(hexBin, toUpper)) = hexBin
  <2> DEFINE hex == HexOf(hexBin)
             m == Len(hexBin)
  <2>1. CNV_BinToHex(hexBin, 2 * m + 1) = hex
    <3>1. m \in Nat /\ (2 * m + 1 - 1) \div 2 = m
      OBVIOUS
    <3>2. Upto(hexBin, m) = hexBin
      BY <3>1, UptoIs
    <3>3. CNV_BinToHex(hexBin, 2 * m + 1) = HexOf(Upto(hexBin, (2 * m + 1 - 1) \div 2))
      BY DEF CNV_BinToHex, Upto
    <3> QED BY <3>1, <3>2, <3>3
  <2>2. CNV_BinToHexStr(hexBin, toUpper) = IF toUpper THEN hex ELSE ToLower(hex)
    BY <2>1, Zenon DEF CNV_BinToHexStr
  <2>3. hex \in Seq(Digit) /\ hex \in Seq(Nat) /\ Nybbles(hex) = hex
    BY HexOfIs, DigitsAreNat, NybblesOfDigits, Zenon
  <2>4. ToLower(hex) \in Seq(Nat) /\ Nybbles(ToLower(hex)) = hex
    BY <2>3, ToLowerIs, LowerNybbles, Zenon
  <2>5. HELPER_StrAsciiToHex(hex) = hexBin
    BY <2>3, HelperReads
  <2>6. HELPER_StrAsciiToHex(ToLower(hex)) = hexBin
    BY <2>4, HelperReads
  <2> QED BY <2>2, <2>5, <2>6
<1>3. reverse_uuid(CNV_AsciiHexToBinStr(CNV_convertBdAddr2Str(hexBin, 2 * MaxHexBytes))) = hexBin
  <2> DEFINE n == 2 * MaxHexBytes
  <2>1. n \in Nat /\ 2 * Len(hexBin) <= n
    BY HexAssumption
  <2> HIDE DEF n
  <2>2. reverse_uuid(CNV_AsciiHexToBinStr(CNV_convertBdAddr2Str(hexBin, n))) = hexBin
    BY <2>1, AddressReads
  <2> QED BY <2>2 DEF n
<1> QED BY <1>1, <1>2, <1>3, ReadersAgree, UuidReads, Zenon DEF HexReadsBack

-----------------------------------------------------------------------------
(* Numbers that are printed are read back.                                   *)

LEMMA PowersOfTen ==
  /\ Pow10(0) = 1 /\ Pow10(1) = 10 /\ Pow10(2) = 100 /\ Pow10(3) = 1000 /\ Pow10(4) = 10000
  /\ \A k \in Nat : k >= 5 => Pow10(k) = 100000
  /\ \A k \in 0 .. 4 : Pow10(k + 1) = 10 * Pow10(k) /\ Pow10(k) \in Nat
<1>1. /\ AtMost(0, 5) = 0 /\ AtMost(1, 5) = 1 /\ AtMost(2, 5) = 2 /\ AtMost(3, 5) = 3 /\ AtMost(4, 5) = 4
      /\ \A k \in Nat : k >= 5 => AtMost(k, 5) = 5
  BY DEF AtMost
<1>2. Pow10(0) = 1 /\ Pow10(1) = 10 /\ Pow10(2) = 100 /\ Pow10(3) = 1000 /\ Pow10(4) = 10000
  BY <1>1, SMT DEF Pow10
<1>3. ASSUME NEW k \in Nat, k >= 5 PROVE Pow10(k) = 100000
  BY <1>1, <1>3, SMT DEF Pow10
<1>4. Pow10(5) = 100000
  BY <1>3
<1>5. ASSUME NEW k \in 0 .. 4 PROVE Pow10(k + 1) = 10 * Pow10(k) /\ Pow10(k) \in Nat
  <2>1. k \in {0, 1, 2, 3, 4}
    OBVIOUS
  <2>2. CASE k = 0
    BY <1>2, <2>2, SMT
  <2>3. CASE k = 1
    BY <1>2, <2>3, SMT
  <2>4. CASE k = 2
    BY <1>2, <2>4, SMT
  <2>5. CASE k = 3
    BY <1>2, <2>5, SMT
  <2>6. CASE k = 4
    BY <1>2, <1>4, <2>6, SMT
  <2> QED BY <2>1, <2>2, <2>3, <2>4, <2>5, <2>6
<1> QED BY <1>2, <1>3, <1>5

\* The number that the first characters of a text stand for.
IsAtoi(f, text) ==
  /\ f[0] = 0
  /\ \A k \in 1 .. Len(text) : f[k] = IF text[k] \in 0 .. 9 THEN (f[k - 1] * 10 + text[k]) % NumMod ELSE f[k - 1]

LEMMA AtoiBuilds ==
  ASSUME NEW text \in Seq(Nat)
  PROVE  \E f : /\ IsAtoi(f, text) /\ CNV_atoi(text) = f[Len(text)]
                /\ \A k \in 0 .. Len(text) : f[k] \in Nat
<1> DEFINE N == Len(text)
           X == Nat
           next(k, s) == IF text[k] \in 0 .. 9 THEN (s * 10 + text[k]) % NumMod ELSE s
           step == [p \in (1 .. N) \X X |-> next(p[1], p[2])]
<1>1. N \in Nat
  OBVIOUS
<1>2. 0 \in X
  OBVIOUS
<1>3. ASSUME NEW k \in 1 .. N, NEW s \in X PROVE next(k, s) \in X
  <2>1. text[k] \in Nat
    OBVIOUS
  <2>2. s * 10 + text[k] \in Nat /\ NumMod \in Nat \ {0}
    BY <2>1, NumberRanges
  <2>3. (s * 10 + text[k]) % NumMod \in Nat
    <3> DEFINE x == s * 10 + text[k]
    <3> HIDE DEF x
    <3>1. x % NumMod \in Nat
      BY <2>2 DEF x
    <3> QED BY <3>1 DEF x
  <2> QED BY <2>3
<1>4. step \in [(1 .. N) \X X -> X] /\ \A k \in 1 .. N, s \in X : step[<<k, s>>] = next(k, s)
  <2> HIDE DEF next, N, X
  <2> QED BY <1>3
<1>5. PICK f : Follows(f, X, 0, step, N)
  <2> HIDE DEF step, N, X
  <2> QED BY <1>1, <1>2, <1>4, Recursion
<1> DEFINE Is(g) == g = [k \in 0 .. N |-> IF k = 0 THEN 0 ELSE next(k, g[k - 1])]
<1>6. ASSUME NEW k \in 0 .. N PROVE f[k] = IF k = 0 THEN 0 ELSE next(k, f[k - 1])
  <2> HIDE DEF next, step, N, X
  <2>1. CASE k = 0
    BY <1>5, <2>1 DEF Follows
  <2>2. CASE k # 0
    <3>1. k \in 1 .. N /\ k - 1 \in 0 .. N
      BY <1>1, <2>2
    <3>2. f[k - 1] \in X /\ f[k] = step[<<k, f[k - 1]>>]
      BY <1>5, <3>1 DEF Follows
    <3> QED BY <1>4, <2>2, <3>1, <3>2
  <2> QED BY <2>1, <2>2
<1>7. Is(f)
  <2>1. f = [k \in 0 .. N |-> f[k]]
    BY <1>5 DEF Follows
  <2> HIDE DEF step, X, next, N
  <2> QED BY <1>6, <2>1, Zenon
<1> DEFINE found[k \in 0 .. N] == IF k = 0 THEN 0 ELSE IF text[k] \in 0 .. 9 THEN (found[k - 1] * 10 + text[k]) % NumMod ELSE found[k - 1]
<1>8. Is(found)
  <2>1. \E g : Is(g)
    BY <1>7
  <2> QED BY <2>1, Zenon
<1>9. CNV_atoi(text) = found[N]
  BY Zenon DEF CNV_atoi
<1> HIDE DEF found
<1>10. \A k \in 0 .. N : found[k] = IF k = 0 THEN 0 ELSE next(k, found[k - 1])
  <2> HIDE DEF N, X, next
  <2> QED BY <1>8, Zenon
<1> HIDE DEF Is
<1>11. found[0] = 0 /\ \A k \in 1 .. N : found[k] = next(k, found[k - 1])
  <2> HIDE DEF N, X, next
  <2>1. 0 \in 0 .. N /\ \A k \in 1 .. N : k \in 0 .. N /\ k # 0
    BY <1>1
  <2>2. found[0] = 0
    BY <1>10, <2>1, Zenon
  <2>3. ASSUME NEW k \in 1 .. N PROVE found[k] = next(k, found[k - 1])
    BY <1>10, <2>1, Zenon
  <2> QED BY <2>2, <2>3
<1>12. \A k \in 0 .. N : found[k] \in X
  <2> HIDE DEF N, X, next
  <2>1. found[0] \in X
    BY <1>2, <1>11
  <2>2. \A k \in 1 .. N : found[k - 1] \in X => found[k] \in X
    BY <1>3, <1>11
  <2> QED BY <1>1, <2>1, <2>2, RecursionStays
<1>13. IsAtoi(found, text)
  BY <1>11, Zenon DEF IsAtoi
<1> QED BY <1>9, <1>12, <1>13, Zenon

\* Reading digits undoes the divisions that gave them, as far as these went.
LEMMA DigitsSum ==
  ASSUME NEW c \in 1 .. 5, NEW f, NEW r, \A k \in 0 .. c : f[k] \in Nat /\ f[k] < NumMod,
         \A k \in 1 .. c : f[k] = f[k - 1] \div 10,
         r[0] = 0, \A k \in 1 .. c : r[k] = (r[k - 1] * 10 + (f[c - k] % 10)) % NumMod
  PROVE  r[c] \in Nat /\ r[c] < Pow10(c) /\ f[0] = r[c] + f[c] * Pow10(c)
<1> DEFINE rest == f[c]
           S == {k \in Nat : k <= c => r[k] \in Nat /\ r[k] < Pow10(k) /\ f[c - k] = r[k] + rest * Pow10(k)}
<1>0. rest \in Nat
  OBVIOUS
<1> HIDE DEF rest
<1>1. 0 \in S
  <2>1. f[c - 0] = rest /\ rest * 1 = rest
    BY <1>0 DEF rest
  <2> QED BY <1>0, <2>1, PowersOfTen
<1>2. ASSUME NEW k \in Nat, k \in S PROVE k + 1 \in S
  <2> SUFFICES ASSUME k + 1 <= c
               PROVE  /\ r[k + 1] \in Nat /\ r[k + 1] < Pow10(k + 1)
                      /\ f[c - (k + 1)] = r[k + 1] + rest * Pow10(k + 1)
    OBVIOUS
  <2>1. /\ k \in 0 .. 4 /\ k + 1 \in 1 .. c /\ (k + 1) - 1 = k
        /\ c - (k + 1) \in 0 .. c /\ c - k \in 1 .. c /\ (c - k) - 1 = c - (k + 1) /\ c - k \in 0 .. c
    OBVIOUS
  <2>2. r[k] \in Nat /\ r[k] < Pow10(k) /\ f[c - k] = r[k] + rest * Pow10(k)
    BY <1>2
  <2> DEFINE x == f[c - (k + 1)]
             y == f[c - k]
             z == r[k]
             p == Pow10(k)
             w == rest * p
  <2>3. x \in Nat /\ x < NumMod /\ y \in Nat /\ p \in Nat /\ Pow10(k + 1) = 10 * p
    BY <2>1, PowersOfTen
  <2>4. y = x \div 10 /\ r[k + 1] = (z * 10 + (x % 10)) % NumMod
    BY <2>1
  <2>5. w \in Nat /\ rest * (10 * p) = 10 * w
    <3> HIDE DEF p
    <3> QED BY <1>0, <2>3, SMT
  <2>6. z \in Nat /\ z < p /\ y = z + w
    BY <2>2
  <2> HIDE DEF x, y, z, w, p
  <2>7. x = 10 * y + (x % 10) /\ x % 10 \in 0 .. 9
    BY <2>3, <2>4
  <2>8. z * 10 + (x % 10) \in Nat /\ z * 10 + (x % 10) <= x /\ z * 10 + (x % 10) < 10 * p
        /\ x = (z * 10 + (x % 10)) + 10 * w
    BY <2>3, <2>5, <2>6, <2>7
  <2>9. (z * 10 + (x % 10)) % NumMod = z * 10 + (x % 10)
    <3> DEFINE u == z * 10 + (x % 10)
    <3>1. u \in Nat /\ u < NumMod /\ NumMod = 65536
      BY <2>3, <2>8, NumberRanges
    <3> HIDE DEF u
    <3>2. u % NumMod = u
      BY <3>1, SMT
    <3> QED BY <3>2 DEF u
  <2>10. r[k + 1] = z * 10 + (x % 10)
    BY <2>4, <2>9
  <2>11. rest * Pow10(k + 1) = 10 * w
    BY <2>3, <2>5
  <2> QED BY <2>3, <2>8, <2>10, <2>11 DEF x
<1>3. \A k \in Nat : k \in S
  <2> HIDE DEF S
  <2> QED BY <1>1, <1>2, NumbersByInduction
<1>4. c \in Nat /\ c <= c /\ c - c = 0
  OBVIOUS
<1> QED BY <1>3, <1>4 DEF rest

LEMMA TextIsRead ==
  ASSUME NEW n \in Nat, n < NumMod, NEW maxLen \in Nat \ {0}
  PROVE  CNV_atoi(util_reverse(util_uitoa_intern(n, maxLen))) = n % Pow10(maxLen)
<1> DEFINE d == util_uitoa_intern(n, maxLen)
           text == util_reverse(d)
<1>1. PICK f : /\ IsTenths(f, n, maxLen) /\ d = [i \in 1 .. DigitCount(f, maxLen) |-> f[i - 1] % 10]
               /\ \A k \in 0 .. maxLen : f[k] \in Nat
  BY TenthsBuild, Zenon
<1> DEFINE c == DigitCount(f, maxLen)
<1>2. f[0] = n /\ \A k \in 1 .. maxLen : f[k] = f[k - 1] \div 10
  BY <1>1, Zenon DEF IsTenths
<1>3. /\ c \in 1 .. maxLen /\ (f[c] = 0 \/ c = maxLen)
      /\ \A j \in 1 .. c - 1 : f[j] > 0
  BY <1>1, DigitCountIs
<1>4. d \in Seq(0 .. 9) /\ Len(d) \in 1 .. maxLen
  BY DigitsAre
<1>5. Len(d) = c /\ \A i \in 1 .. c : d[i] = f[i - 1] % 10
  <2> DEFINE g(i) == f[i - 1] % 10
  <2>1. d = [i \in 1 .. c |-> g(i)] /\ c \in Nat
    BY <1>1, <1>3
  <2> HIDE DEF c, g, d
  <2>2. Len(d) = c /\ \A i \in 1 .. c : d[i] = g(i)
    BY <2>1
  <2> QED BY <2>2 DEF g
<1> HIDE DEF d, c
<1>6. text \in Seq(0 .. 9) /\ Len(text) = c /\ \A i \in 1 .. c : text[i] = d[c + 1 - i]
  BY <1>4, <1>5, ReversedIs
<1> HIDE DEF text
<1>7. text \in Seq(Nat)
  BY <1>6
<1>8. PICK r : IsAtoi(r, text) /\ CNV_atoi(text) = r[Len(text)]
  BY <1>7, AtoiBuilds
<1>9. \A k \in 0 .. maxLen : f[k] \in Nat /\ f[k] < NumMod
  <2> DEFINE X == {m \in Nat : m < NumMod}
  <2>1. f[0] \in X
    BY <1>2
  <2>2. ASSUME NEW k \in 1 .. maxLen, f[k - 1] \in X PROVE f[k] \in X
    <3> DEFINE x == f[k - 1]
    <3>1. f[k] = x \div 10 /\ x \in Nat /\ x < NumMod
      BY <1>2, <2>2
    <3> HIDE DEF x
    <3>2. x \div 10 \in Nat /\ x \div 10 <= x
      BY <3>1
    <3> QED BY <3>1, <3>2, NumberRanges
  <2> HIDE DEF X
  <2>3. \A k \in 0 .. maxLen : f[k] \in X
    BY <2>1, <2>2, RecursionStays
  <2> QED BY <2>3 DEF X
<1>10. 5 <= maxLen => f[5] = 0
  <2> SUFFICES ASSUME 5 <= maxLen PROVE f[5] = 0
    OBVIOUS
  <2>1. 1 \in 1 .. maxLen /\ 2 \in 1 .. maxLen /\ 3 \in 1 .. maxLen /\ 4 \in 1 .. maxLen /\ 5 \in 1 .. maxLen
    OBVIOUS
  <2>2. f[1] = n \div 10 /\ f[2] = f[1] \div 10 /\ f[3] = f[2] \div 10 /\ f[4] = f[3] \div 10 /\ f[5] = f[4] \div 10
    BY <1>2, <2>1
  <2>3. f[1] \in Nat /\ f[2] \in Nat /\ f[3] \in Nat /\ f[4] \in Nat
    BY <1>1, <2>1
  <2>4. n < 65536
    BY NumberRanges, SMT
  <2>5. f[2] < 656
    BY <2>2, <2>3, <2>4, SMT
  <2>6. f[4] < 7
    BY <2>2, <2>3, <2>5, SMT
  <2> QED BY <2>2, <2>3, <2>6, SMT
<1>11. c \in 1 .. 5
  <2>1. CASE c <= 5
    BY <1>3, <2>1
  <2>2. CASE ~(c <= 5)
    <3>1. 5 <= maxLen /\ 5 \in 1 .. c - 1
      BY <1>3, <2>2
    <3>2. f[5] > 0 /\ f[5] = 0
      BY <1>3, <1>10, <3>1
    <3> QED BY <3>2
  <2> QED BY <2>1, <2>2
<1>12. \A k \in 1 .. c : r[k] = (r[k - 1] * 10 + (f[c - k] % 10)) % NumMod
  <2> SUFFICES ASSUME NEW k \in 1 .. c PROVE r[k] = (r[k - 1] * 10 + (f[c - k] % 10)) % NumMod
    OBVIOUS
  <2>1. k \in 1 .. Len(text) /\ c + 1 - k \in 1 .. c /\ (c + 1 - k) - 1 = c - k
    BY <1>3, <1>6
  <2>2. text[k] \in 0 .. 9
    BY <1>6, <2>1
  <2>3. text[k] = f[c - k] % 10
    BY <1>5, <1>6, <2>1
  <2>4. r[k] = IF text[k] \in 0 .. 9 THEN (r[k - 1] * 10 + text[k]) % NumMod ELSE r[k - 1]
    BY <1>8, <2>1, Zenon DEF IsAtoi
  <2> QED BY <2>2, <2>3, <2>4, Zenon
<1>13. r[c] \in Nat /\ r[c] < Pow10(c) /\ n = r[c] + f[c] * Pow10(c)
  <2>1. r[0] = 0
    BY <1>8 DEF IsAtoi
  <2>2. \A k \in 0 .. c : f[k] \in Nat /\ f[k] < NumMod
    BY <1>3, <1>9
  <2>3. \A k \in 1 .. c : f[k] = f[k - 1] \div 10
    BY <1>2, <1>3
  <2>4. r[c] \in Nat /\ r[c] < Pow10(c) /\ f[0] = r[c] + f[c] * Pow10(c)
    BY <1>11, <1>12, <2>1, <2>2, <2>3, DigitsSum
  <2> QED BY <1>2, <2>4
<1>14. CNV_atoi(text) = r[c]
  BY <1>6, <1>8
<1>15. r[c] = n % Pow10(maxLen)
  <2> DEFINE q == r[c]
             e == f[c]
  <2>1. q \in Nat /\ e \in Nat /\ c \in {1, 2, 3, 4, 5} /\ n = q + e * Pow10(c) /\ q < Pow10(c)
    BY <1>3, <1>9, <1>11, <1>13
  <2>2. e = 0 \/ c = maxLen
    BY <1>3
  <2>3. c = 5 => e = 0
    BY <1>3, <1>10
  <2>4. /\ c \in {1, 2, 3, 4, 5} /\ maxLen \in Nat /\ c <= maxLen
        /\ Pow10(1) = 10 /\ Pow10(2) = 100 /\ Pow10(3) = 1000 /\ Pow10(4) = 10000
        /\ \A k \in Nat : k >= 5 => Pow10(k) = 100000
    BY <1>3, <1>11, PowersOfTen
  <2> HIDE DEF q, e
  <2>5. CASE c = maxLen
    <3>1. CASE c = 1
      <4>1. n = q + e * 10 /\ q < 10
        BY <2>1, <2>4, <3>1, SMT
      <4>2. n % 10 = q
        BY <2>1, <4>1, SMT
      <4> QED BY <2>4, <2>5, <3>1, <4>2, SMT DEF q
    <3>2. CASE c = 2
      <4>1. n = q + e * 100 /\ q < 100
        BY <2>1, <2>4, <3>2, SMT
      <4>2. n % 100 = q
        BY <2>1, <4>1, SMT
      <4> QED BY <2>4, <2>5, <3>2, <4>2, SMT DEF q
    <3>3. CASE c = 3
      <4>1. n = q + e * 1000 /\ q < 1000
        BY <2>1, <2>4, <3>3, SMT
      <4>2. n % 1000 = q
        BY <2>1, <4>1, SMT
      <4> QED BY <2>4, <2>5, <3>3, <4>2, SMT DEF q
    <3>4. CASE c = 4
      <4>1. n = q + e * 10000 /\ q < 10000
        BY <2>1, <2>4, <3>4, SMT
      <4>2. n % 10000 = q
        BY <2>1, <4>1, SMT
      <4> QED BY <2>4, <2>5, <3>4, <4>2, SMT DEF q
    <3>5. CASE c = 5
      <4>1. n = q + e * 100000 /\ q < 100000 /\ e = 0
        BY <2>1, <2>3, <2>4, <3>5, SMT
      <4>2. n % 100000 = q
        BY <2>1, <4>1, SMT
      <4> QED BY <2>4, <2>5, <3>5, <4>2, SMT DEF q
    <3> QED BY <2>1, <3>1, <3>2, <3>3, <3>4, <3>5
  <2>6. CASE c # maxLen
    <3>1. e = 0 /\ n = q /\ q < Pow10(c)
      <4>1. e * Pow10(c) = 0
        <5>1. e = 0 /\ Pow10(c) \in Nat
          BY <2>1, <2>2, <2>4, <2>6, SMT
        <5> QED BY <5>1, SMT
      <4> QED BY <2>1, <2>2, <2>6, <4>1
    <3>2. Pow10(maxLen) \in {100, 1000, 10000, 100000} /\ Pow10(c) <= Pow10(maxLen)
      BY <2>4, <2>6, SMT
    <3>3. n % Pow10(maxLen) = n
      <4> DEFINE P == Pow10(maxLen)
      <4>1. P \in {100, 1000, 10000, 100000} /\ n < P
        <5>1. Pow10(c) \in Nat
          BY <2>4, SMT
        <5> QED BY <3>1, <3>2, <5>1, SMT
      <4> HIDE DEF P
      <4>2. n % P = n
        BY <4>1, SMT
      <4> QED BY <4>2 DEF P
    <3> QED BY <3>1, <3>3 DEF q
  <2> QED BY <2>5, <2>6
<1> QED BY <1>14, <1>15 DEF text, d

\* The sign in front is skipped.
LEMMA SignIsSkipped ==
  ASSUME NEW d \in Seq(Nat)
  PROVE  /\ util_reverse(Append(d, MinusSign)) \in Seq(Nat)
         /\ util_reverse(Append(d, MinusSign))[1] = MinusSign
         /\ CNV_atoi(util_reverse(Append(d, MinusSign))) = CNV_atoi(util_reverse(d))
<1> DEFINE N == Len(d)
           e == Append(d, MinusSign)
           text == util_reverse(d)
           signed == util_reverse(e)
<1>1. MinusSign \in Nat /\ ~(MinusSign \in 0 .. 9)
  BY DEF MinusSign
<1>2. N \in Nat /\ e \in Seq(Nat) /\ Len(e) = N + 1 /\ e[N + 1] = MinusSign
      /\ \A i \in 1 .. N : e[i] = d[i]
  BY <1>1
<1>3. text \in Seq(Nat) /\ Len(text) = N /\ \A i \in 1 .. N : text[i] = d[N + 1 - i]
  BY ReversedIs
<1> HIDE DEF e, text
<1>4. signed \in Seq(Nat) /\ Len(signed) = N + 1 /\ \A i \in 1 .. N + 1 : signed[i] = e[(N + 1) + 1 - i]
  BY <1>2, ReversedIs
<1> HIDE DEF signed, N
<1>5. signed[1] = MinusSign
  <2>1. 1 \in 1 .. N + 1 /\ (N + 1) + 1 - 1 = N + 1
    BY <1>2
  <2> QED BY <1>2, <1>4, <2>1
<1>6. ASSUME NEW i \in 1 .. N PROVE signed[i + 1] = text[i]
  <2>1. i + 1 \in 1 .. N + 1 /\ (N + 1) + 1 - (i + 1) = N + 1 - i /\ N + 1 - i \in 1 .. N
    BY <1>2
  <2>2. signed[i + 1] = e[(N + 1) + 1 - (i + 1)]
    BY <1>4, <2>1, Zenon
  <2> QED BY <1>2, <1>3, <2>1, <2>2
<1>7. PICK f : IsAtoi(f, text) /\ CNV_atoi(text) = f[N]
  BY <1>3, AtoiBuilds
<1>8. PICK s : IsAtoi(s, signed) /\ CNV_atoi(signed) = s[N + 1]
  BY <1>4, AtoiBuilds
<1> DEFINE h == [k \in 0 .. N |-> s[k + 1]]
<1>9. h[0] = f[0]
  <2>1. 1 \in 1 .. Len(signed) /\ 1 - 1 = 0
    BY <1>2, <1>4
  <2>2. s[1] = IF signed[1] \in 0 .. 9 THEN (s[1 - 1] * 10 + signed[1]) % NumMod ELSE s[1 - 1]
    BY <1>8, <2>1, Zenon DEF IsAtoi
  <2>3. s[1] = 0
    BY <1>1, <1>5, <1>8, <2>1, <2>2 DEF IsAtoi
  <2>4. h[0] = s[1] /\ f[0] = 0
    BY <1>2, <1>7 DEF IsAtoi
  <2> QED BY <2>3, <2>4
<1>10. ASSUME NEW k \in 1 .. N, h[k - 1] = f[k - 1] PROVE h[k] = f[k]
  <2>1. k + 1 \in 1 .. Len(signed) /\ (k + 1) - 1 = k /\ k \in 1 .. Len(text)
        /\ k \in 0 .. N /\ k - 1 \in 0 .. N /\ (k - 1) + 1 = k
    BY <1>2, <1>3, <1>4
  <2>2. s[k + 1] = IF signed[k + 1] \in 0 .. 9 THEN (s[(k + 1) - 1] * 10 + signed[k + 1]) % NumMod ELSE s[(k + 1) - 1]
    BY <1>8, <2>1, Zenon DEF IsAtoi
  <2>3. f[k] = IF text[k] \in 0 .. 9 THEN (f[k - 1] * 10 + text[k]) % NumMod ELSE f[k - 1]
    BY <1>7, <2>1, Zenon DEF IsAtoi
  <2>4. h[k] = s[k + 1] /\ h[k - 1] = s[k]
    BY <2>1
  <2>5. s[k] = f[k - 1] /\ signed[k + 1] = text[k]
    BY <1>6, <1>10, <2>4
  <2> HIDE DEF h
  <2> QED BY <2>1, <2>2, <2>3, <2>4, <2>5, Zenon
<1>11. h[N] = f[N]
  <2>1. Alike(h, f, N)
    <3> HIDE DEF h
    <3> QED BY <1>9, <1>10, Zenon DEF Alike
  <2> HIDE DEF h
  <2> QED BY <1>2, <2>1, AlikeEqual, Zenon
<1>12. h[N] = s[N + 1]
  BY <1>2
<1> QED BY <1>4, <1>5, <1>7, <1>8, <1>11, <1>12 DEF signed, e, text

SignedRead(text, n, v, P) ==
  /\ text[1] = MinusSign <=> v < 0
  /\ v \in 0 .. P - 1 => CNV_atoi(text) = n
  /\ -v \in 1 .. P - 1 => CNV_atoi(text) = -v

LEMMA SignedIsRead ==
  ASSUME NEW n \in Nat, n < NumMod, NEW sLen \in Nat, sLen > 2
  PROVE  SignedRead(util_itoa(AsSigned(n), sLen), n, AsSigned(n), Pow10(sLen - 2))
<1> DEFINE v == AsSigned(n)
           maxLen == sLen - 2
           P == Pow10(maxLen)
<1>1. NumMod = 65536 /\ v \in Int /\ (v < 0 => -v \in Nat /\ -v < NumMod) /\ (~(v < 0) => v = n)
  BY NumberRanges, SMT DEF AsSigned
<1>2. maxLen \in Nat \ {0}
  OBVIOUS
<1>3. \A m \in Nat : m \in 0 .. P - 1 => m % P = m
  <2>1. P \in {1, 10, 100, 1000, 10000, 100000}
    <3>1. maxLen \in {1, 2, 3, 4} \/ maxLen >= 5
      BY <1>2
    <3> HIDE DEF maxLen
    <3> QED BY <1>2, <3>1, PowersOfTen, SMT
  <2> HIDE DEF P
  <2> QED BY <2>1, SMT
<1> HIDE DEF v, P
<1>4. CASE v < 0
  <2> DEFINE d == util_uitoa_intern(-v, maxLen)
  <2>1. util_itoa(v, sLen) = util_reverse(Append(d, MinusSign))
    BY <1>4 DEF util_itoa
  <2>2. d \in Seq(0 .. 9)
    <3>1. -v \in Nat
      BY <1>1, <1>4
    <3> HIDE DEF maxLen
    <3> QED BY <1>2, <3>1, DigitsAre
  <2>3. d \in Seq(Nat)
    <3> HIDE DEF d
    <3> QED BY <2>2
  <2>4. CNV_atoi(util_reverse(d)) = (-v) % P
    <3>1. -v \in Nat /\ -v < NumMod
      BY <1>1, <1>4
    <3> DEFINE m == -v
    <3> HIDE DEF maxLen, m
    <3>2. CNV_atoi(util_reverse(util_uitoa_intern(m, maxLen))) = m % Pow10(maxLen)
      BY <1>2, <3>1, TextIsRead, Zenon DEF m
    <3> QED BY <3>2 DEF m, P
  <2> HIDE DEF d
  <2>5. util_itoa(v, sLen)[1] = MinusSign /\ CNV_atoi(util_itoa(v, sLen)) = (-v) % P
    BY <2>1, <2>3, <2>4, SignIsSkipped, Zenon
  <2>6. ~(v \in 0 .. P - 1)
    BY <1>4
  <2>7. -v \in 1 .. P - 1 => (-v) % P = -v
    <3> DEFINE m == -v
    <3>1. m \in Nat /\ (m \in 1 .. P - 1 => m \in 0 .. P - 1)
      BY <1>1, <1>4
    <3> HIDE DEF m
    <3>2. m \in 1 .. P - 1 => m % P = m
      BY <1>3, <3>1, Zenon
    <3> QED BY <3>2 DEF m
  <2> QED BY <1>4, <2>5, <2>6, <2>7 DEF v, P, SignedRead
<1>5. CASE ~(v < 0)
  <2> DEFINE d == util_uitoa_intern(n, maxLen)
             text == util_reverse(d)
  <2>1. util_itoa(v, sLen) = text
    BY <1>1, <1>5 DEF util_itoa
  <2>2. d \in Seq(0 .. 9) /\ Len(d) \in 1 .. maxLen
    <3> HIDE DEF maxLen
    <3> QED BY <1>2, DigitsAre
  <2>3. CNV_atoi(text) = n % P
    <3> HIDE DEF maxLen
    <3> QED BY <1>2, TextIsRead, Zenon DEF P
  <2> HIDE DEF d
  <2>4. text[1] # MinusSign
    <3>1. 1 \in 1 .. Len(d) /\ Len(d) + 1 - 1 \in 1 .. Len(d)
      BY <1>2, <2>2
    <3>2. text[1] = d[Len(d) + 1 - 1] /\ d[Len(d) + 1 - 1] \in 0 .. 9
      BY <2>2, <3>1, ReversedIs
    <3> QED BY <3>2 DEF MinusSign
  <2> HIDE DEF text
  <2>5. ~(-v \in 1 .. P - 1)
    BY <1>1, <1>5
  <2>6. v \in 0 .. P - 1 => n % P = n
    <3>1. v = n
      BY <1>1, <1>5
    <3> QED BY <1>3, <3>1, Zenon
  <2> QED BY <1>5, <2>1, <2>3, <2>4, <2>5, <2>6 DEF v, P, SignedRead
<1> QED BY <1>4, <1>5

\* The number that the first digits of a text stand for.
IsHtoi(f, text) ==
  /\ f[0] = 0
  /\ \A k \in 1 .. Len(Nybbles(text)) : f[k] = (f[k - 1] * 16 + Nybbles(text)[k]) % NumMod

LEMMA HtoiBuilds ==
  ASSUME NEW text \in Seq(Nat)
  PROVE  \E f : /\ IsHtoi(f, text) /\ CNV_htoi(text) = f[Len(Nybbles(text))]
                /\ \A k \in 0 .. Len(Nybbles(text)) : f[k] \in Nat
<1> DEFINE N == Len(Nybbles(text))
           X == Nat
           next(k, s) == (s * 16 + Nybbles(text)[k]) % NumMod
           step == [p \in (1 .. N) \X X |-> next(p[1], p[2])]
<1>1. N \in Nat
  BY NybblesAre
<1>2. 0 \in X
  OBVIOUS
<1>3. ASSUME NEW k \in 1 .. N, NEW s \in X PROVE next(k, s) \in X
  <2>1. Nybbles(text) \in Seq(Digit)
    BY NybblesAre
  <2>2. Nybbles(text)[k] \in Nat
    <3>1. k \in 1 .. Len(Nybbles(text))
      OBVIOUS
    <3> HIDE DEF next, step, N, X
    <3> DEFINE q == Nybbles(text)
    <3> HIDE DEF q
    <3>2. q \in Seq(Digit) /\ k \in 1 .. Len(q)
      BY <2>1, <3>1 DEF q
    <3>3. q[k] \in Digit
      BY <3>2
    <3> QED BY <3>3 DEF q, Digit
  <2> DEFINE x == s * 16 + Nybbles(text)[k]
  <2>3. x \in Nat /\ NumMod \in Nat \ {0}
    BY <2>2, NumberRanges
  <2> HIDE DEF x
  <2>4. x % NumMod \in Nat
    BY <2>3
  <2> QED BY <2>4 DEF x
<1>4. step \in [(1 .. N) \X X -> X] /\ \A k \in 1 .. N, s \in X : step[<<k, s>>] = next(k, s)
  <2> HIDE DEF next, N, X
  <2> QED BY <1>3
<1>5. PICK f : Follows(f, X, 0, step, N)
  <2> HIDE DEF step, N, X
  <2> QED BY <1>1, <1>2, <1>4, Recursion
<1> DEFINE Is(g) == g = [k \in 0 .. N |-> IF k = 0 THEN 0 ELSE next(k, g[k - 1])]
<1>6. ASSUME NEW k \in 0 .. N PROVE f[k] = IF k = 0 THEN 0 ELSE next(k, f[k - 1])
  <2> HIDE DEF next, step, N, X
  <2>1. CASE k = 0
    BY <1>5, <2>1 DEF Follows
  <2>2. CASE k # 0
    <3>1. k \in 1 .. N /\ k - 1 \in 0 .. N
      BY <1>1, <2>2
    <3>2. f[k - 1] \in X /\ f[k] = step[<<k, f[k - 1]>>]
      BY <1>5, <3>1 DEF Follows
    <3> QED BY <1>4, <2>2, <3>1, <3>2
  <2> QED BY <2>1, <2>2
<1>7. Is(f)
  <2>1. f = [k \in 0 .. N |-> f[k]]
    BY <1>5 DEF Follows
  <2> HIDE DEF step, X, next, N
  <2> QED BY <1>6, <2>1, Zenon
<1> DEFINE found[k \in 0 .. N] == IF k = 0 THEN 0 ELSE (found[k - 1] * 16 + Nybbles(text)[k]) % NumMod
<1>8. Is(found)
  <2>1. \E g : Is(g)
    BY <1>7
  <2> QED BY <2>1, Zenon
<1>9. CNV_htoi(text) = found[N]
  BY Zenon DEF CNV_htoi
<1> HIDE DEF found
<1>10. \A k \in 0 .. N : found[k] = IF k = 0 THEN 0 ELSE next(k, found[k - 1])
  <2> HIDE DEF N, X, next
  <2> QED BY <1>8, Zenon
<1> HIDE DEF Is
<1>11. found[0] = 0 /\ \A k \in 1 .. N : found[k] = next(k, found[k - 1])
  <2> HIDE DEF N, X, next
  <2>1. 0 \in 0 .. N /\ \A k \in 1 .. N : k \in 0 .. N /\ k # 0
    BY <1>1
  <2>2. found[0] = 0
    BY <1>10, <2>1, Zenon
  <2>3. ASSUME NEW k \in 1 .. N PROVE found[k] = next(k, found[k - 1])
    BY <1>10, <2>1, Zenon
  <2> QED BY <2>2, <2>3
<1>12. \A k \in 0 .. N : found[k] \in X
  <2> HIDE DEF N, X, next
  <2>1. found[0] \in X
    BY <1>2, <1>11
  <2>2. \A k \in 1 .. N : found[k - 1] \in X => found[k] \in X
    BY <1>3, <1>11
  <2> QED BY <1>1, <2>1, <2>2, RecursionStays
<1>13. IsHtoi(found, text)
  BY <1>11, Zenon DEF IsHtoi
<1> QED BY <1>9, <1>12, <1>13, Zenon

\* A word that is printed in hexadecimal is read back.
LEMMA WordIsRead ==
  ASSUME NEW n \in Nat, n < NumMod
  PROVE  CNV_htoi(Converted([kind |-> "%x", arg |-> n])) = n
<1> DEFINE bytes == NumBytes(n)
           hex == HexOf(bytes)
           text == ToLower(hex)
<1>1. Converted([kind |-> "%x", arg |-> n]) = text
  BY WordIs DEF Converted
<1>2. bytes \in Seq(Byte) /\ Len(bytes) = 2
  BY WordIs
<1>3. bytes[1] = n \div 256 /\ bytes[2] = n % 256
  BY DEF NumBytes
<1> HIDE DEF bytes
<1>4. 1 \in 1 .. Len(bytes) /\ 2 \in 1 .. Len(bytes) /\ bytes[1] \in Byte /\ bytes[2] \in Byte
  <2>1. 1 \in 1 .. Len(bytes) /\ 2 \in 1 .. Len(bytes)
    BY <1>2
  <2>2. bytes[1] \in Byte
    BY <1>2, <2>1
  <2>3. bytes[2] \in Byte
    BY <1>2, <2>1
  <2> QED BY <2>1, <2>2, <2>3
<1> DEFINE x == bytes[1]
           y == bytes[2]
<1>5. hex \in Seq(Digit) /\ Len(hex) = 4
      /\ hex[1] = x \div 16 /\ hex[2] = x % 16 /\ hex[3] = y \div 16 /\ hex[4] = y % 16
  <2>1. hex \in Seq(Digit) /\ Len(hex) = 2 * Len(bytes)
        /\ \A k \in 1 .. Len(bytes) : hex[2 * k - 1] = bytes[k] \div 16 /\ hex[2 * k] = bytes[k] % 16
    BY <1>2, HexOfIs
  <2>2. hex[2 * 1 - 1] = x \div 16 /\ hex[2 * 1] = x % 16 /\ hex[2 * 2 - 1] = y \div 16 /\ hex[2 * 2] = y % 16
    <3> HIDE DEF hex
    <3> QED BY <1>4, <2>1, Zenon
  <2>3. 2 * 1 - 1 = 1 /\ 2 * 1 = 2 /\ 2 * 2 - 1 = 3 /\ 2 * 2 = 4 /\ 2 * Len(bytes) = 4
    BY <1>2
  <2> HIDE DEF hex
  <2> QED BY <2>1, <2>2, <2>3
<1> HIDE DEF hex
<1>6. text \in Seq(Nat) /\ Nybbles(text) = hex
  BY <1>5, ToLowerIs, LowerNybbles, Zenon
<1> HIDE DEF text
<1>7. PICK f : IsHtoi(f, text) /\ CNV_htoi(text) = f[4]
  <2>1. PICK f : IsHtoi(f, text) /\ CNV_htoi(text) = f[Len(Nybbles(text))]
    BY <1>6, HtoiBuilds
  <2> QED BY <1>5, <1>6, <2>1
<1>8. /\ f[0] = 0 /\ f[1] = (f[0] * 16 + hex[1]) % NumMod /\ f[2] = (f[1] * 16 + hex[2]) % NumMod
      /\ f[3] = (f[2] * 16 + hex[3]) % NumMod /\ f[4] = (f[3] * 16 + hex[4]) % NumMod
  <2>1. f[0] = 0 /\ \A k \in 1 .. 4 : f[k] = (f[k - 1] * 16 + hex[k]) % NumMod
    BY <1>5, <1>6, <1>7, Zenon DEF IsHtoi
  <2> QED BY <2>1
<1> HIDE DEF x, y
<1>9. x \in Nat /\ x < 256 /\ y \in Nat /\ y < 256 /\ NumMod = 65536 /\ n = 256 * x + y
  <2>1. x = n \div 256 /\ y = n % 256
    BY <1>3 DEF x, y
  <2>2. x \in Byte /\ y \in Byte
    BY <1>4 DEF x, y
  <2>3. n = 256 * x + y
    BY <2>1, SMT
  <2>4. x \in Nat /\ x < 256 /\ y \in Nat /\ y < 256
    BY <2>2, SMT DEF Byte
  <2> QED BY <2>3, <2>4, NumberRanges, SMT
<1>10. f[2] = x
  <2> DEFINE p == x \div 16
             r == x % 16
  <2>0. f[1] = (0 * 16 + hex[1]) % NumMod /\ f[2] = (f[1] * 16 + hex[2]) % NumMod
        /\ hex[1] = p /\ hex[2] = r /\ NumMod = 65536
    BY <1>5, <1>8, <1>9
  <2>1. f[1] = p % 65536 /\ p \in 0 .. 15 /\ r \in 0 .. 15 /\ x = 16 * p + r
    BY <1>9, <2>0, SMT
  <2>2. f[2] = (f[1] * 16 + r) % 65536
    BY <2>0, SMT
  <2> HIDE DEF p, r
  <2>3. f[1] = p
    BY <2>1, SMT
  <2> QED BY <1>9, <2>1, <2>2, <2>3, SMT
<1>11. f[4] = n
  <2> DEFINE p == y \div 16
             r == y % 16
  <2>0. f[3] = (x * 16 + hex[3]) % NumMod /\ hex[3] = p
    BY <1>5, <1>8, <1>10, Zenon
  <2>1. f[3] = (x * 16 + p) % 65536 /\ p \in 0 .. 15 /\ r \in 0 .. 15 /\ y = 16 * p + r
    BY <1>9, <2>0, SMT
  <2>2. f[4] = (f[3] * 16 + r) % 65536
    <3>1. f[4] = (f[3] * 16 + hex[4]) % NumMod
      BY <1>8, Zenon
    <3>2. hex[4] = r
      BY <1>5, Zenon
    <3>3. NumMod = 65536
      BY <1>9, SMT
    <3> HIDE DEF r
    <3> QED BY <3>1, <3>2, <3>3, SMT
  <2> HIDE DEF p, r
  <2>3. f[3] = x * 16 + p
    BY <1>9, <2>1, SMT
  <2> QED BY <1>9, <2>1, <2>2, <2>3, SMT
<1> QED BY <1>1, <1>7, <1>11 DEF text, hex, bytes

LEMMA NumbersHold ==
  ASSUME numValue # NoNumber => numValue \in Nat /\ numValue < NumMod
  PROVE  NumbersReadBack
<1> SUFFICES ASSUME numValue # NoNumber PROVE NumbersReadBack
  BY DEF NumbersReadBack
<1> DEFINE n == numValue
<1>1. n \in Nat /\ n < NumMod
  OBVIOUS
<1> HIDE DEF n
<1>2. ASSUME NEW sLen \in NumSizes
      PROVE  Len(util_uitoa(n, sLen)) \in 1 .. sLen - 1 /\ CNV_atoi(util_uitoa(n, sLen)) = n % Pow10(sLen - 1)
  <2>1. sLen \in Nat /\ sLen > 2 /\ sLen - 1 \in Nat \ {0}
    BY NumberRanges
  <2> DEFINE m == sLen - 1
             d == util_uitoa_intern(n, m)
  <2> HIDE DEF m
  <2>2. d \in Seq(0 .. 9) /\ Len(d) \in 1 .. m
    BY <1>1, <2>1, DigitsAre DEF m
  <2>3. CNV_atoi(util_reverse(d)) = n % Pow10(m)
    BY <1>1, <2>1, TextIsRead, Zenon DEF m
  <2> HIDE DEF d
  <2>4. Len(util_reverse(d)) \in 1 .. m
    BY <2>2, ReversedIs
  <2> QED BY <2>3, <2>4, Zenon DEF util_uitoa, d, m
<1> DEFINE v == AsSigned(n)
           signed(sLen) == util_itoa(v, sLen)
<1>3. ASSUME NEW sLen \in NumSizes
      PROVE  Len(signed(sLen)) \in 1 .. sLen - 1 /\ SignedRead(signed(sLen), n, v, Pow10(sLen - 2))
  <2>1. sLen \in Nat /\ sLen > 2
    BY NumberRanges
  <2>2. v \in Int
    BY <1>1, WordIs
  <2>3. SignedRead(signed(sLen), n, v, Pow10(sLen - 2))
    BY <1>1, <2>1, SignedIsRead, Zenon
  <2> HIDE DEF v
  <2>4. Len(signed(sLen)) \in 1 .. sLen - 1
    BY <2>1, <2>2, ItoaIs
  <2> QED BY <2>3, <2>4
<1>4. CNV_htoi(Converted([kind |-> "%x", arg |-> n])) = n
  BY <1>1, WordIsRead, Zenon
<1> HIDE DEF v, signed
<1>5. \A sLen \in NumSizes :
        /\ Len(util_uitoa(n, sLen)) \in 1 .. sLen - 1 /\ Len(signed(sLen)) \in 1 .. sLen - 1
        /\ CNV_atoi(util_uitoa(n, sLen)) = n % Pow10(sLen - 1)
        /\ signed(sLen)[1] = MinusSign <=> v < 0
        /\ v \in 0 .. Pow10(sLen - 2) - 1 => CNV_atoi(signed(sLen)) = n
        /\ -v \in 1 .. Pow10(sLen - 2) - 1 => CNV_atoi(signed(sLen)) = -v
  BY <1>2, <1>3, Zenon DEF SignedRead
<1> QED BY <1>4, <1>5, Zenon DEF NumbersReadBack, n, v, signed
=============================================================================
