--------------------------- MODULE NodeListsProofs ---------------------------
(***************************************************************************)
(* The linked lists implement sequences, for any nodes and any lists: the  *)
(* pointers of each list are a ring from its dummy node through the nodes  *)
(* of the sequence and back, which every operation preserves.              *)
(***************************************************************************)
EXTENDS NodeLists, SequenceTheorems, FiniteSetTheorems, WellFoundedInduction, TLAPS

------------------------------------------------------------------------------
(* Induction over the natural numbers, in first-order form.                *)

\* A set of natural numbers has a least element.
LEMMA LeastNumber ==
  ASSUME NEW T, T \subseteq Nat, T # {}
  PROVE  \E n \in T : \A m \in T : n <= m
<1> DEFINE F == {0 .. n : n \in T}
           R == StrictSubsetOrdering(Nat)
<1>1. \A n \in Nat : IsFiniteSet(0 .. n) /\ 0 .. n \in SUBSET Nat
  BY FS_Interval
<1>2. F \subseteq FiniteSubsetsOf(Nat) /\ F # {}
  BY <1>1 DEF FiniteSubsetsOf
<1>3. IsWellFoundedOn(R, FiniteSubsetsOf(Nat))
  BY FS_StrictSubsetOrderingWellFounded
<1>4. PICK x \in F : \A y \in F : ~(<<y, x>> \in R)
  <2> HIDE DEF F, R
  <2> QED BY <1>2, <1>3, WFMin
<1>5. PICK n \in T : x = 0 .. n
  OBVIOUS
<1>6. ASSUME NEW m \in T, m < n PROVE FALSE
  <2>1. 0 .. m \in F
    OBVIOUS
  <2>2. 0 .. m \subseteq 0 .. n /\ 0 .. m # 0 .. n
    BY <1>6
  <2>3. <<0 .. m, 0 .. n>> \in R
    BY <2>2, <1>1 DEF StrictSubsetOrdering
  <2> QED BY <1>4, <1>5, <2>1, <2>3
<1> QED BY <1>6

\* A set with 0 and with every successor of its elements holds every number.
LEMMA NumbersByInduction ==
  ASSUME NEW S, 0 \in S, \A k \in Nat : k \in S => k + 1 \in S
  PROVE  \A k \in Nat : k \in S
<1> SUFFICES ASSUME NEW j \in Nat, j \notin S PROVE FALSE
  OBVIOUS
<1> DEFINE T == {k \in Nat : k \notin S}
<1>1. T \subseteq Nat /\ T # {}
  OBVIOUS
<1>2. PICK n \in T : \A m \in T : n <= m
  <2> HIDE DEF T
  <2> QED BY <1>1, LeastNumber
<1>3. n \in Nat /\ n # 0 /\ n - 1 \in Nat /\ ~(n <= n - 1)
  BY <1>2
<1>4. n - 1 \in S
  BY <1>2, <1>3
<1> QED BY <1>2, <1>3, <1>4

\* Two functions that start alike and go on alike agree.
LEMMA SameRecursion ==
  ASSUME NEW N \in Nat, NEW f, NEW g, f[0] = g[0],
         \A k \in 1 .. N : f[k - 1] = g[k - 1] => f[k] = g[k]
  PROVE  \A k \in 0 .. N : f[k] = g[k]
<1> DEFINE S == {k \in Nat : k <= N => f[k] = g[k]}
<1>1. 0 \in S
  OBVIOUS
<1>2. ASSUME NEW k \in Nat, k \in S PROVE k + 1 \in S
  BY <1>2
<1>3. \A k \in Nat : k \in S
  <2> HIDE DEF S
  <2> QED BY <1>1, <1>2, NumbersByInduction
<1> QED BY <1>3

\* The greatest element of a set of numbers with a bound.
LEMMA GreatestNumber ==
  ASSUME NEW N \in Nat, NEW T, T \subseteq 0 .. N, T # {}
  PROVE  \E n \in T : \A m \in T : m <= n
<1> DEFINE U == {u \in 0 .. N : N - u \in T}
<1>0. \A m \in T : N - m \in U
  OBVIOUS
<1>1. U \subseteq Nat /\ U # {}
  <2> HIDE DEF U
  <2>1. U # {}
    BY <1>0
  <2>2. U \subseteq Nat
    BY DEF U
  <2> QED BY <2>1, <2>2
<1>2. PICK u \in U : \A v \in U : u <= v
  <2> HIDE DEF U
  <2> QED BY <1>1, LeastNumber
<1>3. N - u \in T /\ u \in 0 .. N
  BY <1>2
<1>4. \A m \in T : u <= N - m
  BY <1>0, <1>2
<1> QED BY <1>3, <1>4

------------------------------------------------------------------------------
(* Rings: what the pointers of a list are, by the nodes of the list.       *)

\* The i-th cell of a ring: its dummy before the first and after the last node.
At(q, l, i) == IF i \in 1 .. Len(q) THEN q[i] ELSE l

\* No node is twice in the sequences, within one of them or in two.
Distinct(Q) == \A l, m \in Dummies : \A i \in 1 .. Len(Q[l]), j \in 1 .. Len(Q[m]) :
                 Q[l][i] = Q[m][j] => l = m /\ i = j
NodeSeqs(Q) == Q \in [Dummies -> Seq(Nodes)] /\ Distinct(Q)
InNone(Q, n) == \A l \in Dummies : \A i \in 1 .. Len(Q[l]) : Q[l][i] # n

\* Following step, every cell of a ring leads to the next one.
Ring(step, Q) == \A l \in Dummies : \A i \in 0 .. Len(Q[l]) :
                   step[At(Q[l], l, i)] = At(Q[l], l, i + 1)

Inserted(Q, l, k, n) == [Q EXCEPT ![l] = InsertAt(@, k + 1, n)]
Removed(Q, l, k) == [Q EXCEPT ![l] = RemoveAt(@, k)]
Appended(Q, l, m) == [Q EXCEPT ![l] = @ \o Q[m], ![m] = <<>>]
Prepended(Q, l, m) == [Q EXCEPT ![l] = Q[m] \o @, ![m] = <<>>]
Reversed(Q) == [l \in Dummies |-> Reverse(Q[l])]

\* w is x, a long, and then y, b long.
Glued(S, w, x, y, a, b) ==
  /\ w \in Seq(S) /\ Len(w) = a + b
  /\ \A i \in 1 .. a : w[i] = x[i]
  /\ \A i \in a + 1 .. a + b : w[i] = y[i - a]

LEMMA ConcatAt ==
  ASSUME NEW S, NEW x \in Seq(S), NEW y \in Seq(S), NEW a \in Nat, NEW b \in Nat,
         Len(x) = a, Len(y) = b
  PROVE  Glued(S, x \o y, x, y, a, b)
<1> DEFINE z == x \o y
<1>1. /\ z \in Seq(S) /\ Len(z) = Len(x) + Len(y)
      /\ \A i \in 1 .. Len(x) + Len(y) : z[i] = IF i <= Len(x) THEN x[i] ELSE y[i - Len(x)]
  BY ConcatProperties, Zenon
<1> HIDE DEF z
<1>2. Len(z) = a + b /\ \A i \in 1 .. a + b : z[i] = IF i <= a THEN x[i] ELSE y[i - a]
  BY <1>1
<1>3. \A i \in 1 .. a : z[i] = x[i]
  BY <1>2
<1>4. \A i \in a + 1 .. a + b : z[i] = y[i - a]
  BY <1>2
<1> QED BY <1>1, <1>2, <1>3, <1>4 DEF z, Glued

\* r is q with n put at k, and with the k-th element taken away.
WithAt(S, r, q, k, n) ==
  /\ r \in Seq(S) /\ Len(r) = Len(q) + 1
  /\ \A i \in 1 .. Len(q) + 1 : r[i] = IF i < k THEN q[i] ELSE IF i = k THEN n ELSE q[i - 1]
WithoutAt(S, r, q, k) ==
  /\ r \in Seq(S) /\ Len(r) = Len(q) - 1
  /\ \A i \in 1 .. Len(q) - 1 : r[i] = IF i < k THEN q[i] ELSE q[i + 1]

LEMMA InsertAtProperties ==
  ASSUME NEW S, NEW q \in Seq(S), NEW n \in S, NEW k \in 1 .. Len(q) + 1
  PROVE  WithAt(S, InsertAt(q, k, n), q, k, n)
<1> DEFINE x == SubSeq(q, 1, k - 1)
           y == SubSeq(q, k, Len(q))
<1>0. Len(q) \in Nat /\ k \in Int
  BY LenProperties
<1>1. x \in Seq(S) /\ Len(x) = k - 1 /\ \A i \in 1 .. k - 1 : x[i] = q[i]
  BY <1>0, SubSeqProperties, ElementOfSeq
<1>2. y \in Seq(S) /\ Len(y) = Len(q) - k + 1 /\ \A i \in 1 .. Len(q) - k + 1 : y[i] = q[k + i - 1]
  BY <1>0, SubSeqProperties, ElementOfSeq
<1>3. <<n>> \in Seq(S) /\ Len(<<n>>) = 1 /\ <<n>>[1] = n
  OBVIOUS
<1> DEFINE z == x \o <<n>>
           w == z \o y
           b == Len(q) - k + 1
<1>4. k - 1 \in Nat /\ k \in Nat /\ b \in Nat /\ k + b = Len(q) + 1 /\ 1 \in Nat /\ (k - 1) + 1 = k
  BY <1>0
<1> HIDE DEF x, y, z, b
<1>5. Glued(S, z, x, <<n>>, k - 1, 1)
  BY <1>1, <1>3, <1>4, ConcatAt, Zenon DEF z
<1>6. z \in Seq(S) /\ Len(z) = k /\ (\A i \in 1 .. k - 1 : z[i] = q[i]) /\ z[k] = n
  <2> DEFINE e == <<n>>
  <2>1. e[1] = n
    OBVIOUS
  <2> HIDE DEF e
  <2>2. Glued(S, z, x, e, k - 1, 1)
    BY <1>5 DEF e
  <2>3. z \in Seq(S) /\ Len(z) = k /\ (\A i \in 1 .. k - 1 : z[i] = x[i]) /\ z[k] = e[k - (k - 1)]
    BY <1>4, <2>2 DEF Glued
  <2> QED BY <1>0, <1>1, <2>1, <2>3
<1>7. Glued(S, w, z, y, k, b)
  <2>1. Len(y) = b
    BY <1>2 DEF b
  <2> QED BY <1>2, <1>4, <1>6, <2>1, ConcatAt, Zenon
<1>8. InsertAt(q, k, n) = w
  BY DEF InsertAt, x, y, z
<1> HIDE DEF w
<1>9. \A i \in k + 1 .. Len(q) + 1 : w[i] = q[i - 1]
  <2> TAKE i \in k + 1 .. Len(q) + 1
  <2>1. i - k \in 1 .. Len(q) - k + 1 /\ k + (i - k) - 1 = i - 1
    BY <1>0
  <2>2. y[i - k] = q[i - 1]
    BY <1>2, <2>1
  <2> QED BY <1>4, <1>7, <2>2 DEF Glued
<1>10. \A i \in 1 .. Len(q) + 1 : w[i] = IF i < k THEN q[i] ELSE IF i = k THEN n ELSE q[i - 1]
  BY <1>0, <1>6, <1>7, <1>9 DEF Glued
<1> QED BY <1>4, <1>7, <1>8, <1>10 DEF Glued, WithAt

LEMMA RemoveAtProperties ==
  ASSUME NEW S, NEW q \in Seq(S), NEW k \in 1 .. Len(q)
  PROVE  WithoutAt(S, RemoveAt(q, k), q, k)
<1> DEFINE x == SubSeq(q, 1, k - 1)
           y == SubSeq(q, k + 1, Len(q))
<1>0. Len(q) \in Nat /\ k \in Int
  BY LenProperties
<1>1. x \in Seq(S) /\ Len(x) = k - 1 /\ \A i \in 1 .. k - 1 : x[i] = q[i]
  BY <1>0, SubSeqProperties, ElementOfSeq
<1>2. y \in Seq(S) /\ Len(y) = Len(q) - k /\ \A i \in 1 .. Len(q) - k : y[i] = q[k + i]
  BY <1>0, SubSeqProperties, ElementOfSeq
<1> DEFINE a == k - 1
           b == Len(q) - k
           w == x \o y
<1>3. a \in Nat /\ b \in Nat /\ a + b = Len(q) - 1 /\ a + 1 = k /\ Len(x) = a /\ Len(y) = b
  BY <1>0, <1>1, <1>2
<1> HIDE DEF x, y, a, b
<1>4. Glued(S, w, x, y, a, b)
  BY <1>1, <1>2, <1>3, ConcatAt, Zenon
<1>5. RemoveAt(q, k) = w
  BY DEF RemoveAt, x, y
<1> HIDE DEF w
<1>6. \A i \in k .. Len(q) - 1 : w[i] = q[i + 1]
  <2> TAKE i \in k .. Len(q) - 1
  <2>1. i - a \in 1 .. Len(q) - k /\ k + (i - a) = i + 1
    BY <1>0 DEF a
  <2>2. y[i - a] = q[i + 1]
    BY <1>2, <2>1
  <2> QED BY <1>3, <1>4, <2>2 DEF Glued
<1>7. \A i \in 1 .. Len(q) - 1 : w[i] = IF i < k THEN q[i] ELSE q[i + 1]
  BY <1>0, <1>1, <1>3, <1>4, <1>6 DEF a, Glued
<1> QED BY <1>3, <1>4, <1>5, <1>7 DEF Glued, WithoutAt

LEMMA ReverseProperties ==
  ASSUME NEW S, NEW q \in Seq(S)
  PROVE  /\ Reverse(q) \in Seq(S) /\ Len(Reverse(q)) = Len(q)
         /\ \A i \in 1 .. Len(q) : Reverse(q)[i] = q[Len(q) - i + 1]
         /\ Reverse(Reverse(q)) = q
<1>0. Len(q) \in Nat /\ \A i \in 1 .. Len(q) : q[i] \in S
  BY LenProperties, ElementOfSeq
<1>1. Reverse(q) = [i \in 1 .. Len(q) |-> q[Len(q) - i + 1]]
  BY DEF Reverse
<1>2. Reverse(q) \in Seq(S) /\ Len(Reverse(q)) = Len(q)
  BY <1>0, <1>1, IsASeq
<1>3. \A i \in 1 .. Len(q) : Reverse(q)[i] = q[Len(q) - i + 1]
  BY <1>1
<1>4. Reverse(Reverse(q)) = [i \in 1 .. Len(q) |-> Reverse(q)[Len(q) - i + 1]]
  BY <1>2 DEF Reverse
<1>5. \A i \in 1 .. Len(q) : Reverse(Reverse(q))[i] = q[i]
  BY <1>0, <1>3, <1>4
<1>6. Reverse(Reverse(q)) \in Seq(S) /\ Len(Reverse(Reverse(q))) = Len(q)
  <2> DEFINE r == Reverse(q)
  <2>1. \A i \in 1 .. Len(q) : r[Len(q) - i + 1] \in S
    BY <1>0, <1>3
  <2> HIDE DEF r
  <2> QED BY <1>0, <1>4, <2>1, IsASeq DEF r
<1> QED BY <1>2, <1>3, <1>5, <1>6, SeqEqual

LEMMA SeqFacts ==
  ASSUME NEW Q, NodeSeqs(Q), NEW l \in Dummies
  PROVE  /\ Q[l] \in Seq(Nodes) /\ Len(Q[l]) \in Nat
         /\ \A i \in 1 .. Len(Q[l]) : Q[l][i] \in Nodes
<1>1. Q[l] \in Seq(Nodes)
  BY DEF NodeSeqs
<1> QED BY <1>1, LenProperties, ElementOfSeq

\* The cells of the rings: the dummy at both ends, nodes between, no cell twice.
LEMMA AtEnds ==
  ASSUME NEW Q, NodeSeqs(Q), NEW l \in Dummies
  PROVE  /\ At(Q[l], l, 0) = l /\ At(Q[l], l, Len(Q[l]) + 1) = l
         /\ \A i \in Int : At(Q[l], l, i) \in ListCells
BY SeqFacts DEF At, ListCells

LEMMA AtDistinct ==
  ASSUME NEW Q, NodeSeqs(Q), NEW l \in Dummies, NEW m \in Dummies,
         NEW i \in 0 .. Len(Q[l]), NEW j \in 0 .. Len(Q[m]),
         At(Q[l], l, i) = At(Q[m], m, j)
  PROVE  l = m /\ i = j
<1>1. Nodes \cap Dummies = {} /\ l \notin Nodes /\ m \notin Nodes
  BY ListsAssumption
<1>2. Len(Q[l]) \in Nat /\ Len(Q[m]) \in Nat
  BY SeqFacts
<1>3. \A a \in 1 .. Len(Q[l]) : Q[l][a] \in Nodes
  BY SeqFacts
<1>4. \A a \in 1 .. Len(Q[m]) : Q[m][a] \in Nodes
  BY SeqFacts
<1>5. CASE i = 0
  BY <1>1, <1>2, <1>4, <1>5 DEF At
<1>6. CASE i # 0 /\ j = 0
  BY <1>1, <1>2, <1>3, <1>6 DEF At
<1>7. CASE i # 0 /\ j # 0
  BY <1>2, <1>7 DEF At, NodeSeqs, Distinct
<1> QED BY <1>5, <1>6, <1>7

LEMMA AtListed ==
  ASSUME NEW Q, NodeSeqs(Q), NEW l \in Dummies, NEW n \in Nodes, InNone(Q, n), NEW i \in Int
  PROVE  At(Q[l], l, i) # n
BY ListsAssumption DEF At, InNone

LEMMA InsertedSeqs ==
  ASSUME NEW Q, NodeSeqs(Q), NEW l \in Dummies, NEW k \in 0 .. Len(Q[l]),
         NEW n \in Nodes, InNone(Q, n)
  PROVE  /\ NodeSeqs(Inserted(Q, l, k, n))
         /\ Len(Inserted(Q, l, k, n)[l]) = Len(Q[l]) + 1
         /\ \A i \in 0 .. Len(Q[l]) + 2 :
              At(Inserted(Q, l, k, n)[l], l, i) =
                IF i <= k THEN At(Q[l], l, i) ELSE IF i = k + 1 THEN n ELSE At(Q[l], l, i - 1)
<1> DEFINE R == Inserted(Q, l, k, n)
           q == Q[l]
           r == InsertAt(q, k + 1, n)
<1>1. q \in Seq(Nodes) /\ Len(q) \in Nat /\ k \in Int
  BY SeqFacts
<1>2. /\ r \in Seq(Nodes) /\ Len(r) = Len(q) + 1
      /\ \A i \in 1 .. Len(q) + 1 :
           r[i] = IF i < k + 1 THEN q[i] ELSE IF i = k + 1 THEN n ELSE q[i - 1]
  <2>1. k + 1 \in 1 .. Len(q) + 1
    BY <1>1
  <2> HIDE DEF q
  <2>2. WithAt(Nodes, r, q, k + 1, n)
    BY <1>1, <2>1, InsertAtProperties
  <2> QED BY <2>2 DEF WithAt
<1>3. R = [Q EXCEPT ![l] = r]
  BY DEF Inserted
<1> HIDE DEF r, R
<1>4. R[l] = r /\ (\A m \in Dummies : m # l => R[m] = Q[m]) /\ R \in [Dummies -> Seq(Nodes)]
  BY <1>2, <1>3 DEF NodeSeqs
<1>5. \A m \in Dummies : Len(R[m]) \in Nat
  BY <1>4, LenProperties
<1>6. Distinct(R)
  <2> SUFFICES ASSUME NEW x \in Dummies, NEW y \in Dummies,
                      NEW i \in 1 .. Len(R[x]), NEW j \in 1 .. Len(R[y]), R[x][i] = R[y][j]
               PROVE  x = y /\ i = j
    BY DEF Distinct
  <2>1. /\ \A a \in 1 .. Len(Q[x]), b \in 1 .. Len(Q[y]) : Q[x][a] = Q[y][b] => x = y /\ a = b
        /\ \A a \in 1 .. Len(Q[x]) : Q[x][a] # n
        /\ \A b \in 1 .. Len(Q[y]) : Q[y][b] # n
    BY DEF NodeSeqs, Distinct, InNone
  <2> DEFINE src(a) == IF a <= k THEN a ELSE a - 1
  <2>0. \A a \in 1 .. Len(r) : IF a = k + 1 THEN r[a] = n
                               ELSE src(a) \in 1 .. Len(q) /\ r[a] = q[src(a)]
    BY <1>1, <1>2
  <2>2. CASE x = l /\ y = l
    <3>1. i \in 1 .. Len(r) /\ j \in 1 .. Len(r) /\ r[i] = r[j]
      BY <1>4, <2>2
    <3>2. \A a, b \in 1 .. Len(q) : q[a] = q[b] => a = b
      BY <2>1, <2>2
    <3>3. \A a \in 1 .. Len(q) : q[a] # n
      BY <2>1, <2>2
    <3>4. \A a, b \in 1 .. Len(r) : a # k + 1 /\ b # k + 1 /\ src(a) = src(b) => a = b
      <4>1. \A a, b \in Int : a # k + 1 /\ b # k + 1 /\ src(a) = src(b) => a = b
        BY <1>1
      <4> QED BY <4>1
    <3> HIDE DEF src, q
    <3>5. i = j
      BY SMTT(30), <2>0, <3>1, <3>2, <3>3, <3>4
    <3> QED BY <2>2, <3>5
  <2>3. CASE x = l /\ y # l
    <3>1. i \in 1 .. Len(r) /\ j \in 1 .. Len(Q[y]) /\ r[i] = Q[y][j]
      BY <1>4, <2>3
    <3> QED BY <2>0, <2>1, <2>3, <3>1
  <2>4. CASE x # l /\ y = l
    <3>1. i \in 1 .. Len(Q[x]) /\ j \in 1 .. Len(r) /\ Q[x][i] = r[j]
      BY <1>4, <2>4
    <3> QED BY <2>0, <2>1, <2>4, <3>1
  <2>5. CASE x # l /\ y # l
    BY <1>4, <2>1, <2>5
  <2> QED BY <2>2, <2>3, <2>4, <2>5
<1>7. \A i \in 0 .. Len(q) + 2 :
        At(r, l, i) = IF i <= k THEN At(q, l, i) ELSE IF i = k + 1 THEN n ELSE At(q, l, i - 1)
  BY <1>1, <1>2 DEF At
<1> QED BY <1>2, <1>4, <1>6, <1>7 DEF NodeSeqs, R

\* Putting a free node between two neighbours puts it into the sequence there.
LEMMA RingInsert ==
  ASSUME NEW Q, NodeSeqs(Q), NEW l \in Dummies, NEW k \in 0 .. Len(Q[l]),
         NEW n \in Nodes, InNone(Q, n), NEW f, Ring(f, Q), NEW g,
         g[At(Q[l], l, k)] = n, g[n] = At(Q[l], l, k + 1),
         \A c \in ListCells : c # n /\ c # At(Q[l], l, k) => g[c] = f[c]
  PROVE  Ring(g, Inserted(Q, l, k, n))
<1> DEFINE R == Inserted(Q, l, k, n)
<1>1. /\ NodeSeqs(R) /\ Len(R[l]) = Len(Q[l]) + 1
      /\ \A i \in 0 .. Len(Q[l]) + 2 :
           At(R[l], l, i) =
             IF i <= k THEN At(Q[l], l, i) ELSE IF i = k + 1 THEN n ELSE At(Q[l], l, i - 1)
  BY InsertedSeqs
<1>2. \A m \in Dummies : m # l => R[m] = Q[m]
  BY DEF Inserted, NodeSeqs
<1> HIDE DEF R
<1> SUFFICES ASSUME NEW m \in Dummies, NEW i \in 0 .. Len(R[m])
             PROVE  g[At(R[m], m, i)] = At(R[m], m, i + 1)
  BY DEF Ring, R
<1>3. Len(Q[l]) \in Nat /\ Len(Q[m]) \in Nat
  BY SeqFacts
<1>4. \A x \in Dummies : \A j \in 0 .. Len(Q[x]) :
        /\ At(Q[x], x, j) \in ListCells /\ At(Q[x], x, j) # n
        /\ f[At(Q[x], x, j)] = At(Q[x], x, j + 1)
        /\ At(Q[x], x, j) = At(Q[l], l, k) => x = l /\ j = k
  <2> TAKE x \in Dummies
  <2> TAKE j \in 0 .. Len(Q[x])
  <2>1. j \in Int
    BY SeqFacts
  <2> QED BY <2>1, AtEnds, AtListed, AtDistinct DEF Ring
<1>5. CASE m # l
  BY <1>2, <1>4, <1>5
<1>6. CASE m = l
  <2>1. CASE i < k
    <3>1. i \in 0 .. Len(Q[l]) /\ i \in 0 .. Len(Q[l]) + 2 /\ i + 1 \in 0 .. Len(Q[l]) + 2
      BY <1>3, <2>1
    <3>2. At(R[l], l, i) = At(Q[l], l, i) /\ At(R[l], l, i + 1) = At(Q[l], l, i + 1)
      BY <1>1, <1>3, <2>1, <3>1
    <3> QED BY <1>4, <1>6, <2>1, <3>1, <3>2
  <2>2. CASE i = k
    BY <1>1, <1>3, <1>6, <2>2
  <2>3. CASE i = k + 1
    <3>1. At(R[l], l, i) = n /\ At(R[l], l, i + 1) = At(Q[l], l, k + 1)
      BY <1>1, <1>3, <1>6, <2>3
    <3> QED BY <1>6, <3>1
  <2>4. CASE i > k + 1
    <3>1. /\ i - 1 \in 0 .. Len(Q[l]) /\ i - 1 # k /\ (i - 1) + 1 = i /\ (i + 1) - 1 = i
          /\ i \in 0 .. Len(Q[l]) + 2 /\ i + 1 \in 0 .. Len(Q[l]) + 2
      BY <1>1, <1>3, <1>6, <2>4
    <3>2. At(R[l], l, i) = At(Q[l], l, i - 1) /\ At(R[l], l, i + 1) = At(Q[l], l, i)
      BY <1>1, <1>3, <2>4, <3>1
    <3> QED BY <1>4, <1>6, <3>1, <3>2
  <2> QED BY <1>1, <1>3, <1>6, <2>1, <2>2, <2>3, <2>4
<1> QED BY <1>5, <1>6

LEMMA RemovedSeqs ==
  ASSUME NEW Q, NodeSeqs(Q), NEW l \in Dummies, NEW k \in 1 .. Len(Q[l])
  PROVE  /\ NodeSeqs(Removed(Q, l, k))
         /\ Len(Removed(Q, l, k)[l]) = Len(Q[l]) - 1
         /\ \A i \in 0 .. Len(Q[l]) :
              At(Removed(Q, l, k)[l], l, i) =
                IF i < k THEN At(Q[l], l, i) ELSE At(Q[l], l, i + 1)
         /\ InNone(Removed(Q, l, k), Q[l][k])
<1> DEFINE R == Removed(Q, l, k)
           q == Q[l]
           r == RemoveAt(q, k)
           src(a) == IF a < k THEN a ELSE a + 1
<1>1. q \in Seq(Nodes) /\ Len(q) \in Nat /\ k \in Int
  BY SeqFacts
<1>2. /\ r \in Seq(Nodes) /\ Len(r) = Len(q) - 1
      /\ \A i \in 1 .. Len(q) - 1 : r[i] = IF i < k THEN q[i] ELSE q[i + 1]
  <2> HIDE DEF q
  <2>1. k \in 1 .. Len(q)
    BY DEF q
  <2>2. WithoutAt(Nodes, r, q, k)
    BY <1>1, <2>1, RemoveAtProperties
  <2> QED BY <2>2 DEF WithoutAt
<1>3. R = [Q EXCEPT ![l] = r]
  BY DEF Removed
<1> HIDE DEF r, R
<1>4. R[l] = r /\ (\A m \in Dummies : m # l => R[m] = Q[m]) /\ R \in [Dummies -> Seq(Nodes)]
  BY <1>2, <1>3 DEF NodeSeqs
<1>5. \A a \in 1 .. Len(r) : src(a) \in 1 .. Len(q) /\ src(a) # k /\ r[a] = q[src(a)]
  BY <1>1, <1>2
<1>6. \A a, b \in 1 .. Len(r) : src(a) = src(b) => a = b
  <2>1. \A a, b \in Int : src(a) = src(b) => a = b
    BY <1>1
  <2> QED BY <2>1
<1>7. /\ \A x, y \in Dummies : \A a \in 1 .. Len(Q[x]), b \in 1 .. Len(Q[y]) :
           Q[x][a] = Q[y][b] => x = y /\ a = b
      /\ \A a, b \in 1 .. Len(q) : q[a] = q[b] => a = b
  BY DEF NodeSeqs, Distinct
<1>8. \A i \in 0 .. Len(q) : At(r, l, i) = IF i < k THEN At(q, l, i) ELSE At(q, l, i + 1)
  BY <1>1, <1>2 DEF At
<1>9. Distinct(R)
  <2> SUFFICES ASSUME NEW x \in Dummies, NEW y \in Dummies,
                      NEW i \in 1 .. Len(R[x]), NEW j \in 1 .. Len(R[y]), R[x][i] = R[y][j]
               PROVE  x = y /\ i = j
    BY DEF Distinct
  <2> HIDE DEF src
  <2>2. CASE x = l /\ y = l
    BY <1>4, <1>5, <1>6, <1>7, <2>2
  <2>3. CASE x = l /\ y # l
    BY <1>4, <1>5, <1>7, <2>3
  <2>4. CASE x # l /\ y = l
    BY <1>4, <1>5, <1>7, <2>4
  <2>5. CASE x # l /\ y # l
    BY <1>4, <1>7, <2>5
  <2> QED BY <2>2, <2>3, <2>4, <2>5
<1>10. InNone(R, q[k])
  <2> SUFFICES ASSUME NEW x \in Dummies, NEW i \in 1 .. Len(R[x]), R[x][i] = q[k]
               PROVE  FALSE
    BY DEF InNone
  <2> HIDE DEF src
  <2>1. CASE x = l
    BY <1>4, <1>5, <1>7, <2>1
  <2>2. CASE x # l
    BY <1>4, <1>7, <2>2
  <2> QED BY <2>1, <2>2
<1> QED BY <1>2, <1>4, <1>8, <1>9, <1>10 DEF NodeSeqs, R

\* Linking the neighbours of a node takes it out of the sequence.
LEMMA RingRemove ==
  ASSUME NEW Q, NodeSeqs(Q), NEW l \in Dummies, NEW k \in 1 .. Len(Q[l]),
         NEW f, Ring(f, Q), NEW g, g[At(Q[l], l, k - 1)] = At(Q[l], l, k + 1),
         \A c \in ListCells : c # Q[l][k] /\ c # At(Q[l], l, k - 1) => g[c] = f[c]
  PROVE  Ring(g, Removed(Q, l, k))
<1> DEFINE R == Removed(Q, l, k)
           n == Q[l][k]
<1>1. /\ NodeSeqs(R) /\ Len(R[l]) = Len(Q[l]) - 1
      /\ \A i \in 0 .. Len(Q[l]) :
           At(R[l], l, i) = IF i < k THEN At(Q[l], l, i) ELSE At(Q[l], l, i + 1)
  BY RemovedSeqs
<1>2. \A m \in Dummies : m # l => R[m] = Q[m]
  BY DEF Removed, NodeSeqs
<1> HIDE DEF R
<1> SUFFICES ASSUME NEW m \in Dummies, NEW i \in 0 .. Len(R[m])
             PROVE  g[At(R[m], m, i)] = At(R[m], m, i + 1)
  BY DEF Ring, R
<1>3. Len(Q[l]) \in Nat /\ Len(Q[m]) \in Nat /\ k \in Int /\ At(Q[l], l, k) = n
  BY SeqFacts DEF At
<1> HIDE DEF n
<1>4. \A x \in Dummies : \A j \in 0 .. Len(Q[x]) :
        /\ At(Q[x], x, j) \in ListCells
        /\ f[At(Q[x], x, j)] = At(Q[x], x, j + 1)
        /\ At(Q[x], x, j) = At(Q[l], l, k - 1) => x = l /\ j = k - 1
        /\ At(Q[x], x, j) = n => x = l /\ j = k
  <2> TAKE x \in Dummies
  <2> TAKE j \in 0 .. Len(Q[x])
  <2>1. j \in Int /\ k - 1 \in 0 .. Len(Q[l]) /\ k \in 0 .. Len(Q[l])
    BY <1>3, SeqFacts
  <2> QED BY <1>3, <2>1, AtEnds, AtDistinct DEF Ring
<1>5. CASE m # l
  BY <1>2, <1>4, <1>5 DEF n
<1>6. CASE m = l
  <2>1. CASE i < k - 1
    <3>1. i \in 0 .. Len(Q[l]) /\ i + 1 \in 0 .. Len(Q[l]) /\ i # k - 1 /\ i # k
      BY <1>3, <2>1
    <3>2. At(R[l], l, i) = At(Q[l], l, i) /\ At(R[l], l, i + 1) = At(Q[l], l, i + 1)
      BY <1>1, <1>3, <2>1, <3>1
    <3> QED BY <1>4, <1>6, <3>1, <3>2 DEF n
  <2>2. CASE i = k - 1
    <3>1. i \in 0 .. Len(Q[l]) /\ i + 1 \in 0 .. Len(Q[l]) /\ i + 1 = k
      BY <1>3, <2>2
    <3>2. At(R[l], l, i) = At(Q[l], l, k - 1) /\ At(R[l], l, i + 1) = At(Q[l], l, k + 1)
      BY <1>1, <1>3, <2>2, <3>1
    <3> QED BY <1>6, <3>2
  <2>3. CASE i > k - 1
    <3>1. /\ i \in 0 .. Len(Q[l]) /\ i + 1 \in 0 .. Len(Q[l]) /\ i + 1 # k /\ i + 1 # k - 1
          /\ ~(i < k) /\ ~(i + 1 < k)
      BY <1>1, <1>3, <1>6, <2>3
    <3>2. At(R[l], l, i) = At(Q[l], l, i + 1) /\ At(R[l], l, i + 1) = At(Q[l], l, (i + 1) + 1)
      BY <1>1, <3>1
    <3> QED BY <1>4, <1>6, <3>1, <3>2 DEF n
  <2> QED BY <1>1, <1>3, <1>6, <2>1, <2>2, <2>3
<1> QED BY <1>5, <1>6

\* Nothing in the first n of x is in the first m of y, at least not elsewhere.
Unlike(x, n, y, m, same) ==
  \A i \in 1 .. n, j \in 1 .. m : x[i] = y[j] => same /\ i = j

LEMMA GluedUnlike ==
  ASSUME NEW S, NEW r, NEW x, NEW y, NEW a \in Nat, NEW b \in Nat, Glued(S, r, x, y, a, b),
         Unlike(x, a, x, a, TRUE), Unlike(y, b, y, b, TRUE), Unlike(x, a, y, b, FALSE)
  PROVE  Unlike(r, a + b, r, a + b, TRUE)
<1> SUFFICES ASSUME NEW i \in 1 .. a + b, NEW j \in 1 .. a + b, r[i] = r[j] PROVE i = j
  BY DEF Unlike
<1>1. \A k \in 1 .. a + b : \/ k \in 1 .. a /\ r[k] = x[k]
                            \/ k > a /\ k - a \in 1 .. b /\ r[k] = y[k - a]
  BY DEF Glued
<1>2. i \in Int /\ j \in Int
  OBVIOUS
<1>3. CASE i \in 1 .. a /\ r[i] = x[i]
  BY <1>1, <1>3 DEF Unlike
<1>4. CASE i > a /\ i - a \in 1 .. b /\ r[i] = y[i - a]
  <2>1. CASE j \in 1 .. a /\ r[j] = x[j]
    BY <1>4, <2>1 DEF Unlike
  <2>2. CASE j > a /\ j - a \in 1 .. b /\ r[j] = y[j - a]
    <3>1. i - a = j - a
      BY <1>4, <2>2 DEF Unlike
    <3> QED BY <1>2, <3>1
  <2> QED BY <1>1, <2>1, <2>2
<1> QED BY <1>1, <1>3, <1>4

LEMMA GluedUnlikeOther ==
  ASSUME NEW S, NEW r, NEW x, NEW y, NEW a \in Nat, NEW b \in Nat, Glued(S, r, x, y, a, b),
         NEW z, NEW c, Unlike(x, a, z, c, FALSE), Unlike(y, b, z, c, FALSE)
  PROVE  Unlike(r, a + b, z, c, FALSE)
<1>1. \A k \in 1 .. a + b : \/ k \in 1 .. a /\ r[k] = x[k]
                            \/ k > a /\ k - a \in 1 .. b /\ r[k] = y[k - a]
  BY DEF Glued
<1> QED BY <1>1 DEF Unlike

\* The cells of a ring whose nodes are those of x and then those of y.
AtJoined(r, x, y, a, b, c) ==
  /\ At(r, c, 0) = c /\ At(r, c, a + b + 1) = c
  /\ \A d : \A i \in 1 .. a : At(r, c, i) = At(x, d, i)
  /\ \A d : \A i \in a + 1 .. a + b : At(r, c, i) = At(y, d, i - a)

LEMMA AtGlued ==
  ASSUME NEW S, NEW r, NEW x, NEW y, NEW a \in Nat, NEW b \in Nat, Glued(S, r, x, y, a, b),
         Len(x) = a, Len(y) = b, NEW c
  PROVE  AtJoined(r, x, y, a, b, c)
BY DEF Glued, At, AtJoined

LEMMA AppendedSeqs ==
  ASSUME NEW Q, NodeSeqs(Q), NEW l \in Dummies, NEW m \in Dummies, l # m
  PROVE  /\ NodeSeqs(Appended(Q, l, m))
         /\ Appended(Q, l, m)[m] = <<>>
         /\ Len(Appended(Q, l, m)[l]) = Len(Q[l]) + Len(Q[m])
         /\ AtJoined(Appended(Q, l, m)[l], Q[l], Q[m], Len(Q[l]), Len(Q[m]), l)
<1> DEFINE R == Appended(Q, l, m)
           x == Q[l]
           y == Q[m]
           r == x \o y
           a == Len(x)
           b == Len(y)
<1>1. x \in Seq(Nodes) /\ y \in Seq(Nodes) /\ a \in Nat /\ b \in Nat
  BY SeqFacts
<1>2. Glued(Nodes, r, x, y, a, b)
  <2> DEFINE c == a
             d == b
  <2>1. Len(x) = c /\ Len(y) = d /\ c \in Nat /\ d \in Nat
    BY <1>1
  <2> HIDE DEF x, y, c, d
  <2>2. Glued(Nodes, r, x, y, c, d)
    BY <1>1, <2>1, ConcatAt
  <2> QED BY <2>2 DEF c, d
<1>3. R = [Q EXCEPT ![l] = r, ![m] = <<>>]
  BY DEF Appended
<1> HIDE DEF r, R
<1>4. r \in Seq(Nodes) /\ Len(r) = a + b
  BY <1>2 DEF Glued
<1>5. /\ R[l] = r /\ R[m] = <<>> /\ (\A z \in Dummies : z # l /\ z # m => R[z] = Q[z])
      /\ R \in [Dummies -> Seq(Nodes)]
  <2> DEFINE none == <<>>
  <2>1. none \in Seq(Nodes)
    BY EmptySeq
  <2>2. R = [Q EXCEPT ![l] = r, ![m] = none]
    BY <1>3
  <2> HIDE DEF none, x, y, a, b
  <2>3. /\ R[l] = r /\ R[m] = none /\ (\A z \in Dummies : z # l /\ z # m => R[z] = Q[z])
        /\ R \in [Dummies -> Seq(Nodes)]
    BY <1>4, <2>1, <2>2 DEF NodeSeqs
  <2> QED BY <2>3 DEF none
<1>6. Unlike(x, a, x, a, TRUE) /\ Unlike(y, b, y, b, TRUE) /\ Unlike(x, a, y, b, FALSE)
  BY DEF Unlike, NodeSeqs, Distinct
<1>7. Unlike(r, a + b, r, a + b, TRUE)
  <2> HIDE DEF x, y, a, b
  <2> QED BY <1>1, <1>2, <1>6, GluedUnlike
<1>8. ASSUME NEW u \in Dummies, u # l, u # m
      PROVE  Unlike(r, a + b, Q[u], Len(Q[u]), FALSE)
  <2>1. Unlike(x, a, Q[u], Len(Q[u]), FALSE) /\ Unlike(y, b, Q[u], Len(Q[u]), FALSE)
    BY <1>8 DEF Unlike, NodeSeqs, Distinct
  <2> HIDE DEF x, y, a, b
  <2> QED BY <1>1, <1>2, <2>1, GluedUnlikeOther
<1>9. Distinct(R)
  <2> SUFFICES ASSUME NEW u \in Dummies, NEW v \in Dummies,
                      NEW i \in 1 .. Len(R[u]), NEW j \in 1 .. Len(R[v]), R[u][i] = R[v][j]
               PROVE  u = v /\ i = j
    BY DEF Distinct
  <2> HIDE DEF x, y, a, b
  <2>1. u # m /\ v # m
    BY <1>5
  <2>2. CASE u = l /\ v = l
    BY <1>4, <1>5, <1>7, <2>2 DEF Unlike
  <2>3. CASE u = l /\ v # l
    BY <1>4, <1>5, <1>8, <2>1, <2>3 DEF Unlike
  <2>4. CASE u # l /\ v = l
    BY <1>4, <1>5, <1>8, <2>1, <2>4 DEF Unlike
  <2>5. CASE u # l /\ v # l
    BY <1>5, <2>1, <2>5 DEF NodeSeqs, Distinct
  <2> QED BY <2>2, <2>3, <2>4, <2>5
<1>10. Len(r) = Len(Q[l]) + Len(Q[m])
  <2> DEFINE c == Len(Q[l])
             d == Len(Q[m])
  <2>1. c \in Nat /\ d \in Nat /\ Len(r) = c + d
    BY <1>1, <1>4, Zenon
  <2> HIDE DEF r, c, d
  <2>2. Len(r) = c + d
    BY <2>1
  <2> QED BY <2>2 DEF c, d
<1>11. AtJoined(r, x, y, a, b, l)
  <2>1. Len(x) = a /\ Len(y) = b
    OBVIOUS
  <2> HIDE DEF x, y, a, b
  <2> QED BY <1>1, <1>2, <2>1, AtGlued
<1> QED BY <1>5, <1>9, <1>10, <1>11 DEF NodeSeqs, R

\* Linking the last cell of a ring to the first node of another, and that one's
\* last node to the dummy, appends the other sequence.
LEMMA RingAppend ==
  ASSUME NEW Q, NodeSeqs(Q), NEW l \in Dummies, NEW m \in Dummies, l # m,
         NEW f, Ring(f, Q), NEW g, g[m] = m,
         Q[m] = <<>> => g[At(Q[l], l, Len(Q[l]))] = l,
         Q[m] # <<>> => /\ g[At(Q[l], l, Len(Q[l]))] = Q[m][1]
                        /\ g[Q[m][Len(Q[m])]] = l,
         \A c \in ListCells : /\ c # m /\ c # At(Q[l], l, Len(Q[l]))
                              /\ Q[m] # <<>> => c # Q[m][Len(Q[m])]
                              => g[c] = f[c]
  PROVE  Ring(g, Appended(Q, l, m))
<1> DEFINE R == Appended(Q, l, m)
           a == Len(Q[l])
           b == Len(Q[m])
<1>1. /\ NodeSeqs(R) /\ R[m] = <<>> /\ Len(R[l]) = a + b
      /\ \A i \in 0 .. a + b + 1 :
           At(R[l], l, i) = IF i <= a THEN At(Q[l], l, i)
                            ELSE IF i <= a + b THEN At(Q[m], m, i - a) ELSE l
  <2>1. NodeSeqs(R) /\ R[m] = <<>> /\ Len(R[l]) = a + b /\ AtJoined(R[l], Q[l], Q[m], a, b, l)
    BY AppendedSeqs, Zenon
  <2>2. a \in Nat /\ b \in Nat /\ At(Q[l], l, 0) = l /\ At(Q[l], l, a + 1) = l
    BY SeqFacts, AtEnds
  <2> HIDE DEF a, b, R
  <2>3. ASSUME NEW i \in 0 .. a + b + 1
        PROVE  At(R[l], l, i) = IF i <= a THEN At(Q[l], l, i)
                                ELSE IF i <= a + b THEN At(Q[m], m, i - a) ELSE l
    BY <2>1, <2>2 DEF AtJoined
  <2> QED BY <2>1, <2>3
<1>2. \A x \in Dummies : x # l /\ x # m => R[x] = Q[x]
  BY DEF Appended, NodeSeqs
<1>3. a \in Nat /\ b \in Nat /\ (Q[m] = <<>> <=> b = 0)
  BY SeqFacts, EmptySeq
<1>4. b # 0 => At(Q[m], m, 1) = Q[m][1] /\ At(Q[m], m, b) = Q[m][b]
  BY <1>3 DEF At
<1>5. /\ At(Q[l], l, 0) = l /\ At(Q[l], l, a + 1) = l /\ At(Q[m], m, 0) = m
  BY AtEnds
<1>6. /\ b = 0 => g[At(Q[l], l, a)] = l
      /\ b # 0 => g[At(Q[l], l, a)] = At(Q[m], m, 1) /\ g[At(Q[m], m, b)] = l
  BY <1>3, <1>4
<1>7. ASSUME NEW x \in Dummies, NEW j \in 0 .. Len(Q[x]),
             ~(x = l /\ j = a), ~(x = m /\ j = b), ~(x = m /\ j = 0)
      PROVE  g[At(Q[x], x, j)] = At(Q[x], x, j + 1)
  <2>1. j \in Int
    BY SeqFacts
  <2>2. At(Q[x], x, j) \in ListCells
    BY <2>1, AtEnds
  <2>3. At(Q[x], x, j) # At(Q[l], l, a)
    <3>1. a \in 0 .. Len(Q[l])
      BY <1>3
    <3> HIDE DEF a
    <3> QED BY <1>7, <3>1, AtDistinct
  <2>4. At(Q[x], x, j) # m
    <3>1. 0 \in 0 .. Len(Q[m])
      BY <1>3
    <3> QED BY <1>5, <1>7, <3>1, AtDistinct
  <2>5. b # 0 => At(Q[x], x, j) # Q[m][b]
    <3>1. b \in 0 .. Len(Q[m])
      BY <1>3
    <3> HIDE DEF b
    <3> QED BY <1>4, <1>7, <3>1, AtDistinct
  <2>6. f[At(Q[x], x, j)] = At(Q[x], x, j + 1)
    BY DEF Ring
  <2> QED BY <1>3, <2>2, <2>3, <2>4, <2>5, <2>6
<1> HIDE DEF R, a, b
<1> SUFFICES ASSUME NEW x \in Dummies, NEW i \in 0 .. Len(R[x])
             PROVE  g[At(R[x], x, i)] = At(R[x], x, i + 1)
  BY DEF Ring, R
<1>8. CASE x = m
  BY <1>1, <1>8 DEF At
<1>9. CASE x # l /\ x # m
  BY <1>2, <1>7, <1>9
<1>10. CASE x = l
  <2>1. i \in 0 .. a + b /\ i \in 0 .. a + b + 1 /\ i + 1 \in 0 .. a + b + 1
    BY <1>1, <1>3, <1>10
  <2>2. CASE i < a
    <3>1. At(R[l], l, i) = At(Q[l], l, i) /\ At(R[l], l, i + 1) = At(Q[l], l, i + 1)
      BY <1>1, <1>3, <2>1, <2>2
    <3>2. i \in 0 .. Len(Q[l])
      BY <1>3, <2>1, <2>2 DEF a
    <3> QED BY <1>3, <1>7, <1>10, <2>2, <3>1, <3>2
  <2>3. CASE i = a
    <3>1. /\ At(R[l], l, i) = At(Q[l], l, a)
          /\ At(R[l], l, i + 1) = IF b = 0 THEN l ELSE At(Q[m], m, 1)
      BY <1>1, <1>3, <2>1, <2>3
    <3> QED BY <1>6, <1>10, <3>1
  <2>4. CASE i > a /\ i < a + b
    <3>1. At(R[l], l, i) = At(Q[m], m, i - a) /\ At(R[l], l, i + 1) = At(Q[m], m, (i - a) + 1)
      BY <1>1, <1>3, <2>1, <2>4
    <3>2. i - a \in 0 .. Len(Q[m]) /\ i - a # 0 /\ i - a # b
      BY <1>3, <2>1, <2>4 DEF b
    <3> QED BY <1>7, <1>10, <3>1, <3>2
  <2>5. CASE i > a /\ i = a + b
    <3>1. At(R[l], l, i) = At(Q[m], m, b) /\ At(R[l], l, i + 1) = l
      BY <1>1, <1>3, <2>1, <2>5
    <3> QED BY <1>3, <1>6, <1>10, <2>5, <3>1
  <2> QED BY <1>3, <2>1, <2>2, <2>3, <2>4, <2>5
<1> QED BY <1>8, <1>9, <1>10

LEMMA PrependedSeqs ==
  ASSUME NEW Q, NodeSeqs(Q), NEW l \in Dummies, NEW m \in Dummies, l # m
  PROVE  /\ NodeSeqs(Prepended(Q, l, m))
         /\ Prepended(Q, l, m)[m] = <<>>
         /\ Len(Prepended(Q, l, m)[l]) = Len(Q[l]) + Len(Q[m])
         /\ AtJoined(Prepended(Q, l, m)[l], Q[m], Q[l], Len(Q[m]), Len(Q[l]), l)
<1> DEFINE R == Prepended(Q, l, m)
           x == Q[m]
           y == Q[l]
           r == x \o y
           a == Len(x)
           b == Len(y)
<1>1. x \in Seq(Nodes) /\ y \in Seq(Nodes) /\ a \in Nat /\ b \in Nat
  BY SeqFacts
<1>2. Glued(Nodes, r, x, y, a, b)
  <2> DEFINE c == a
             d == b
  <2>1. Len(x) = c /\ Len(y) = d /\ c \in Nat /\ d \in Nat
    BY <1>1
  <2> HIDE DEF x, y, c, d
  <2>2. Glued(Nodes, r, x, y, c, d)
    BY <1>1, <2>1, ConcatAt
  <2> QED BY <2>2 DEF c, d
<1>3. R = [Q EXCEPT ![l] = r, ![m] = <<>>]
  BY DEF Prepended
<1> HIDE DEF r, R
<1>4. r \in Seq(Nodes) /\ Len(r) = a + b
  BY <1>2 DEF Glued
<1>5. /\ R[l] = r /\ R[m] = <<>> /\ (\A z \in Dummies : z # l /\ z # m => R[z] = Q[z])
      /\ R \in [Dummies -> Seq(Nodes)]
  <2> DEFINE none == <<>>
  <2>1. none \in Seq(Nodes)
    BY EmptySeq
  <2>2. R = [Q EXCEPT ![l] = r, ![m] = none]
    BY <1>3
  <2> HIDE DEF none, x, y, a, b
  <2>3. /\ R[l] = r /\ R[m] = none /\ (\A z \in Dummies : z # l /\ z # m => R[z] = Q[z])
        /\ R \in [Dummies -> Seq(Nodes)]
    BY <1>4, <2>1, <2>2 DEF NodeSeqs
  <2> QED BY <2>3 DEF none
<1>6. Unlike(x, a, x, a, TRUE) /\ Unlike(y, b, y, b, TRUE) /\ Unlike(x, a, y, b, FALSE)
  BY DEF Unlike, NodeSeqs, Distinct
<1>7. Unlike(r, a + b, r, a + b, TRUE)
  <2> HIDE DEF x, y, a, b
  <2> QED BY <1>1, <1>2, <1>6, GluedUnlike
<1>8. ASSUME NEW u \in Dummies, u # l, u # m
      PROVE  Unlike(r, a + b, Q[u], Len(Q[u]), FALSE)
  <2>1. Unlike(x, a, Q[u], Len(Q[u]), FALSE) /\ Unlike(y, b, Q[u], Len(Q[u]), FALSE)
    BY <1>8 DEF Unlike, NodeSeqs, Distinct
  <2> HIDE DEF x, y, a, b
  <2> QED BY <1>1, <1>2, <2>1, GluedUnlikeOther
<1>9. Distinct(R)
  <2> SUFFICES ASSUME NEW u \in Dummies, NEW v \in Dummies,
                      NEW i \in 1 .. Len(R[u]), NEW j \in 1 .. Len(R[v]), R[u][i] = R[v][j]
               PROVE  u = v /\ i = j
    BY DEF Distinct
  <2> HIDE DEF x, y, a, b
  <2>1. u # m /\ v # m
    BY <1>5
  <2>2. CASE u = l /\ v = l
    BY <1>4, <1>5, <1>7, <2>2 DEF Unlike
  <2>3. CASE u = l /\ v # l
    BY <1>4, <1>5, <1>8, <2>1, <2>3 DEF Unlike
  <2>4. CASE u # l /\ v = l
    BY <1>4, <1>5, <1>8, <2>1, <2>4 DEF Unlike
  <2>5. CASE u # l /\ v # l
    BY <1>5, <2>1, <2>5 DEF NodeSeqs, Distinct
  <2> QED BY <2>2, <2>3, <2>4, <2>5
<1>10. Len(r) = Len(Q[l]) + Len(Q[m])
  <2> DEFINE c == Len(Q[l])
             d == Len(Q[m])
  <2>1. c \in Nat /\ d \in Nat /\ Len(r) = d + c
    BY <1>1, <1>4, Zenon
  <2> HIDE DEF r, c, d
  <2>2. Len(r) = c + d
    BY <2>1
  <2> QED BY <2>2 DEF c, d
<1>11. AtJoined(r, x, y, a, b, l)
  <2>1. Len(x) = a /\ Len(y) = b
    OBVIOUS
  <2> HIDE DEF x, y, a, b
  <2> QED BY <1>1, <1>2, <2>1, AtGlued
<1> QED BY <1>5, <1>9, <1>10, <1>11 DEF NodeSeqs, R

\* The same from the other side: the other sequence comes first.
LEMMA RingPrepend ==
  ASSUME NEW Q, NodeSeqs(Q), NEW l \in Dummies, NEW m \in Dummies, l # m,
         NEW f, Ring(f, Q), NEW g, g[m] = m,
         Q[m] = <<>> => g[l] = f[l],
         Q[m] # <<>> => /\ g[l] = Q[m][1]
                        /\ g[Q[m][Len(Q[m])]] = At(Q[l], l, 1),
         \A c \in ListCells : /\ c # m /\ c # l
                              /\ Q[m] # <<>> => c # Q[m][Len(Q[m])]
                              => g[c] = f[c]
  PROVE  Ring(g, Prepended(Q, l, m))
<1> DEFINE R == Prepended(Q, l, m)
           a == Len(Q[l])
           b == Len(Q[m])
<1>1. /\ NodeSeqs(R) /\ R[m] = <<>> /\ Len(R[l]) = a + b
      /\ \A i \in 0 .. a + b + 1 :
           At(R[l], l, i) = IF i = 0 THEN l ELSE IF i <= b THEN At(Q[m], m, i)
                            ELSE At(Q[l], l, i - b)
  <2>1. NodeSeqs(R) /\ R[m] = <<>> /\ Len(R[l]) = a + b /\ AtJoined(R[l], Q[m], Q[l], b, a, l)
    BY PrependedSeqs, Zenon
  <2>2. a \in Nat /\ b \in Nat /\ At(Q[l], l, 0) = l /\ At(Q[l], l, a + 1) = l
    BY SeqFacts, AtEnds
  <2> HIDE DEF a, b, R
  <2>3. ASSUME NEW i \in 0 .. a + b + 1
        PROVE  At(R[l], l, i) = IF i = 0 THEN l ELSE IF i <= b THEN At(Q[m], m, i)
                                ELSE At(Q[l], l, i - b)
    BY <2>1, <2>2 DEF AtJoined
  <2> QED BY <2>1, <2>3
<1>2. \A x \in Dummies : x # l /\ x # m => R[x] = Q[x]
  BY DEF Prepended, NodeSeqs
<1>3. a \in Nat /\ b \in Nat /\ (Q[m] = <<>> <=> b = 0)
  BY SeqFacts, EmptySeq
<1>4. b # 0 => At(Q[m], m, 1) = Q[m][1] /\ At(Q[m], m, b) = Q[m][b]
  BY <1>3 DEF At
<1>5. /\ At(Q[l], l, 0) = l /\ At(Q[l], l, a + 1) = l /\ At(Q[m], m, 0) = m
  BY AtEnds
<1>6. /\ b = 0 => g[l] = At(Q[l], l, 1)
      /\ b # 0 => g[l] = At(Q[m], m, 1) /\ g[At(Q[m], m, b)] = At(Q[l], l, 1)
  <2>1. f[At(Q[l], l, 0)] = At(Q[l], l, 0 + 1)
    BY <1>3 DEF Ring
  <2> QED BY <1>3, <1>4, <1>5, <2>1
<1>7. ASSUME NEW x \in Dummies, NEW j \in 0 .. Len(Q[x]),
             ~(x = l /\ j = 0), ~(x = m /\ j = b), ~(x = m /\ j = 0)
      PROVE  g[At(Q[x], x, j)] = At(Q[x], x, j + 1)
  <2>1. j \in Int
    BY SeqFacts
  <2>2. At(Q[x], x, j) \in ListCells
    BY <2>1, AtEnds
  <2>3. At(Q[x], x, j) # l
    <3>1. 0 \in 0 .. Len(Q[l])
      BY <1>3
    <3> QED BY <1>5, <1>7, <3>1, AtDistinct
  <2>4. At(Q[x], x, j) # m
    <3>1. 0 \in 0 .. Len(Q[m])
      BY <1>3
    <3> QED BY <1>5, <1>7, <3>1, AtDistinct
  <2>5. b # 0 => At(Q[x], x, j) # Q[m][b]
    <3>1. b \in 0 .. Len(Q[m])
      BY <1>3
    <3> HIDE DEF b
    <3> QED BY <1>4, <1>7, <3>1, AtDistinct
  <2>6. f[At(Q[x], x, j)] = At(Q[x], x, j + 1)
    BY DEF Ring
  <2> QED BY <1>3, <2>2, <2>3, <2>4, <2>5, <2>6
<1> HIDE DEF R, a, b
<1> SUFFICES ASSUME NEW x \in Dummies, NEW i \in 0 .. Len(R[x])
             PROVE  g[At(R[x], x, i)] = At(R[x], x, i + 1)
  BY DEF Ring, R
<1>8. CASE x = m
  BY <1>1, <1>8 DEF At
<1>9. CASE x # l /\ x # m
  BY <1>2, <1>7, <1>9
<1>10. CASE x = l
  <2>1. i \in 0 .. a + b /\ i \in 0 .. a + b + 1 /\ i + 1 \in 0 .. a + b + 1
    BY <1>1, <1>3, <1>10
  <2>2. CASE i = 0
    <3>1. /\ At(R[l], l, i) = l
          /\ At(R[l], l, i + 1) = IF b = 0 THEN At(Q[l], l, 1) ELSE At(Q[m], m, 1)
      BY <1>1, <1>3, <2>1, <2>2
    <3> QED BY <1>6, <1>10, <3>1
  <2>3. CASE i > 0 /\ i < b
    <3>1. At(R[l], l, i) = At(Q[m], m, i) /\ At(R[l], l, i + 1) = At(Q[m], m, i + 1)
      BY <1>1, <1>3, <2>1, <2>3
    <3>2. i \in 0 .. Len(Q[m]) /\ i # 0 /\ i # b
      BY <1>3, <2>1, <2>3 DEF b
    <3> QED BY <1>7, <1>10, <3>1, <3>2
  <2>4. CASE i > 0 /\ i = b
    <3>1. At(R[l], l, i) = At(Q[m], m, b) /\ At(R[l], l, i + 1) = At(Q[l], l, 1)
      BY <1>1, <1>3, <2>1, <2>4
    <3> QED BY <1>3, <1>6, <1>10, <2>4, <3>1
  <2>5. CASE i > 0 /\ i > b
    <3>1. At(R[l], l, i) = At(Q[l], l, i - b) /\ At(R[l], l, i + 1) = At(Q[l], l, (i - b) + 1)
      BY <1>1, <1>3, <2>1, <2>5
    <3>2. i - b \in 0 .. Len(Q[l]) /\ i - b # 0
      BY <1>3, <2>1, <2>5 DEF a
    <3> QED BY <1>7, <1>10, <3>1, <3>2
  <2> QED BY <1>3, <2>1, <2>2, <2>3, <2>4, <2>5
<1> QED BY <1>8, <1>9, <1>10

------------------------------------------------------------------------------
(* A ring read backwards.                                                  *)

LEMMA ReversedSeqs ==
  ASSUME NEW Q, NodeSeqs(Q)
  PROVE  /\ NodeSeqs(Reversed(Q))
         /\ \A l \in Dummies :
              /\ Reversed(Q)[l] = Reverse(Q[l]) /\ Len(Reversed(Q)[l]) = Len(Q[l])
              /\ \A i \in 0 .. Len(Q[l]) + 1 :
                   At(Reversed(Q)[l], l, i) = At(Q[l], l, Len(Q[l]) + 1 - i)
         /\ \A n \in Nodes : InNone(Q, n) => InNone(Reversed(Q), n)
<1> DEFINE R == Reversed(Q)
<1>1. \A l \in Dummies : /\ R[l] = Reverse(Q[l]) /\ R[l] \in Seq(Nodes)
                         /\ Len(R[l]) = Len(Q[l]) /\ Len(Q[l]) \in Nat
                         /\ \A i \in 1 .. Len(Q[l]) : R[l][i] = Q[l][Len(Q[l]) - i + 1]
  <2> TAKE l \in Dummies
  <2>1. Q[l] \in Seq(Nodes) /\ Len(Q[l]) \in Nat
    BY SeqFacts
  <2>2. R[l] = Reverse(Q[l])
    BY DEF Reversed
  <2> QED BY <2>1, <2>2, ReverseProperties
<1>2. R \in [Dummies -> Seq(Nodes)]
  BY <1>1 DEF Reversed
<1> HIDE DEF R
<1>3. Distinct(R)
  <2> SUFFICES ASSUME NEW l \in Dummies, NEW m \in Dummies,
                      NEW i \in 1 .. Len(R[l]), NEW j \in 1 .. Len(R[m]), R[l][i] = R[m][j]
               PROVE  l = m /\ i = j
    BY DEF Distinct
  <2>1. i \in Int /\ j \in Int /\ Len(Q[l]) \in Nat /\ Len(Q[m]) \in Nat
    BY <1>1
  <2>2. Q[l][Len(Q[l]) - i + 1] = Q[m][Len(Q[m]) - j + 1]
    BY <1>1
  <2>3. Len(Q[l]) - i + 1 \in 1 .. Len(Q[l]) /\ Len(Q[m]) - j + 1 \in 1 .. Len(Q[m])
    BY <1>1, <2>1
  <2>4. l = m /\ Len(Q[l]) - i + 1 = Len(Q[m]) - j + 1
    <3> DEFINE ii == Len(Q[l]) - i + 1
               jj == Len(Q[m]) - j + 1
    <3>1. Q[l][ii] = Q[m][jj] /\ ii \in 1 .. Len(Q[l]) /\ jj \in 1 .. Len(Q[m])
      BY <2>2, <2>3
    <3> HIDE DEF ii, jj
    <3>2. l = m /\ ii = jj
      BY <3>1 DEF NodeSeqs, Distinct
    <3> QED BY <3>2 DEF ii, jj
  <2> DEFINE c == Len(Q[l])
  <2>5. l = m /\ c \in Nat /\ c - i + 1 = c - j + 1
    BY <2>1, <2>4
  <2> HIDE DEF c
  <2>6. i = j
    BY <2>1, <2>5
  <2> QED BY <2>5, <2>6
<1>4. ASSUME NEW l \in Dummies, NEW i \in 0 .. Len(Q[l]) + 1
      PROVE  At(R[l], l, i) = At(Q[l], l, Len(Q[l]) + 1 - i)
  <2>1. /\ Len(Q[l]) \in Nat /\ Len(R[l]) = Len(Q[l])
        /\ \A j \in 1 .. Len(Q[l]) : R[l][j] = Q[l][Len(Q[l]) - j + 1]
    BY <1>1
  <2> DEFINE q == Q[l]
             r == R[l]
             a == Len(q)
  <2>2. /\ a \in Nat /\ Len(r) = a /\ Len(q) = a /\ i \in 0 .. a + 1
        /\ \A j \in 1 .. a : r[j] = q[a - j + 1]
    BY <2>1
  <2> HIDE DEF q, r, a
  <2>3. CASE i \in 1 .. a
    <3>1. a + 1 - i \in 1 .. a /\ a + 1 - i = a - i + 1
      BY <2>2, <2>3
    <3> QED BY <2>2, <2>3, <3>1 DEF At, q, r, a
  <2>4. CASE i = 0 \/ i = a + 1
    <3>1. a + 1 - i \notin 1 .. a /\ i \notin 1 .. a
      BY <2>2, <2>4
    <3>2. At(r, l, i) = l /\ At(q, l, a + 1 - i) = l
      BY <2>2, <3>1 DEF At
    <3> QED BY <3>2 DEF q, r, a
  <2> QED BY <2>2, <2>3, <2>4
<1>5. ASSUME NEW n \in Nodes, InNone(Q, n) PROVE InNone(R, n)
  <2> SUFFICES ASSUME NEW l \in Dummies, NEW i \in 1 .. Len(R[l]) PROVE R[l][i] # n
    BY DEF InNone
  <2>1. Len(Q[l]) - i + 1 \in 1 .. Len(Q[l]) /\ R[l][i] = Q[l][Len(Q[l]) - i + 1]
    BY <1>1
  <2> QED BY <1>5, <2>1 DEF InNone
<1> QED BY <1>1, <1>2, <1>3, <1>4, <1>5 DEF NodeSeqs, R

LEMMA ReverseInsert ==
  ASSUME NEW S, NEW q \in Seq(S), NEW n \in S, NEW k \in 0 .. Len(q)
  PROVE  Reverse(InsertAt(q, k + 1, n)) = InsertAt(Reverse(q), Len(q) - k + 1, n)
<1> DEFINE a == Len(q)
           r == InsertAt(q, k + 1, n)
           v == Reverse(q)
           w == Reverse(r)
           z == InsertAt(v, a - k + 1, n)
<1>1. a \in Nat /\ k \in Int /\ k + 1 \in 1 .. a + 1 /\ a - k + 1 \in 1 .. a + 1
  BY LenProperties
<1>2. WithAt(S, r, q, k + 1, n)
  BY <1>1, InsertAtProperties
<1>3. v \in Seq(S) /\ Len(v) = a /\ \A i \in 1 .. a : v[i] = q[a - i + 1]
  BY ReverseProperties
<1> HIDE DEF v
<1>4. WithAt(S, z, v, a - k + 1, n)
  BY <1>1, <1>3, InsertAtProperties
<1> HIDE DEF r, z
<1>5. /\ r \in Seq(S) /\ Len(r) = a + 1
      /\ \A i \in 1 .. a + 1 : r[i] = IF i < k + 1 THEN q[i] ELSE IF i = k + 1 THEN n ELSE q[i - 1]
  BY <1>2 DEF WithAt
<1>6. /\ z \in Seq(S) /\ Len(z) = a + 1
      /\ \A i \in 1 .. a + 1 :
           z[i] = IF i < a - k + 1 THEN v[i] ELSE IF i = a - k + 1 THEN n ELSE v[i - 1]
  BY <1>3, <1>4 DEF WithAt
<1>7. w \in Seq(S) /\ Len(w) = a + 1 /\ \A i \in 1 .. a + 1 : w[i] = r[(a + 1) - i + 1]
  BY <1>5, ReverseProperties
<1> HIDE DEF w, a
<1>8. ASSUME NEW i \in 1 .. a + 1 PROVE w[i] = z[i]
  <2>1. CASE i < a - k + 1
    <3>1. (a + 1) - i + 1 \in 1 .. a + 1 /\ (a + 1) - i + 1 > k + 1 /\ i \in 1 .. a
      BY <1>1, <2>1
    <3>2. r[(a + 1) - i + 1] = q[a - i + 1] /\ v[i] = q[a - i + 1]
      BY <1>1, <1>3, <1>5, <3>1
    <3> QED BY <1>6, <1>7, <2>1, <3>2
  <2>2. CASE i = a - k + 1
    BY <1>1, <1>5, <1>6, <1>7, <2>2
  <2>3. CASE i > a - k + 1
    <3>1. (a + 1) - i + 1 \in 1 .. a + 1 /\ (a + 1) - i + 1 < k + 1 /\ i - 1 \in 1 .. a
      BY <1>1, <2>3
    <3>2. r[(a + 1) - i + 1] = q[(a + 1) - i + 1] /\ v[i - 1] = q[a - (i - 1) + 1]
      BY <1>1, <1>3, <1>5, <3>1
    <3>3. z[i] = v[i - 1] /\ a - (i - 1) + 1 = (a + 1) - i + 1
      BY <1>1, <1>6, <2>3
    <3> QED BY <1>7, <3>2, <3>3
  <2> QED BY <1>1, <2>1, <2>2, <2>3
<1>9. w = z
  BY <1>6, <1>7, <1>8, SeqEqual
<1> QED BY <1>9 DEF w, z, r, v, a

LEMMA ReverseRemove ==
  ASSUME NEW S, NEW q \in Seq(S), NEW k \in 1 .. Len(q)
  PROVE  Reverse(RemoveAt(q, k)) = RemoveAt(Reverse(q), Len(q) + 1 - k)
<1> DEFINE a == Len(q)
           r == RemoveAt(q, k)
           v == Reverse(q)
           w == Reverse(r)
           z == RemoveAt(v, a + 1 - k)
<1>1. a \in Nat /\ k \in Int /\ k \in 1 .. a /\ a + 1 - k \in 1 .. a
  BY LenProperties
<1>2. WithoutAt(S, r, q, k)
  BY RemoveAtProperties
<1>3. v \in Seq(S) /\ Len(v) = a /\ \A i \in 1 .. a : v[i] = q[a - i + 1]
  BY ReverseProperties
<1> HIDE DEF v
<1>4. WithoutAt(S, z, v, a + 1 - k)
  BY <1>1, <1>3, RemoveAtProperties
<1> HIDE DEF r, z
<1>5. /\ r \in Seq(S) /\ Len(r) = a - 1
      /\ \A i \in 1 .. a - 1 : r[i] = IF i < k THEN q[i] ELSE q[i + 1]
  BY <1>2 DEF WithoutAt
<1>6. /\ z \in Seq(S) /\ Len(z) = a - 1
      /\ \A i \in 1 .. a - 1 : z[i] = IF i < a + 1 - k THEN v[i] ELSE v[i + 1]
  BY <1>3, <1>4 DEF WithoutAt
<1>7. w \in Seq(S) /\ Len(w) = a - 1 /\ \A i \in 1 .. a - 1 : w[i] = r[(a - 1) - i + 1]
  BY <1>5, ReverseProperties
<1> HIDE DEF w, a
<1>8. ASSUME NEW i \in 1 .. a - 1 PROVE w[i] = z[i]
  <2>1. CASE i < a + 1 - k
    <3>1. (a - 1) - i + 1 \in 1 .. a - 1 /\ ~((a - 1) - i + 1 < k) /\ i \in 1 .. a
      BY <1>1, <2>1
    <3>2. r[(a - 1) - i + 1] = q[a - i + 1] /\ v[i] = q[a - i + 1]
      BY <1>1, <1>3, <1>5, <3>1
    <3> QED BY <1>6, <1>7, <2>1, <3>2
  <2>2. CASE ~(i < a + 1 - k)
    <3>1. (a - 1) - i + 1 \in 1 .. a - 1 /\ (a - 1) - i + 1 < k /\ i + 1 \in 1 .. a
      BY <1>1, <2>2
    <3>2. r[(a - 1) - i + 1] = q[(a - 1) - i + 1] /\ v[i + 1] = q[a - (i + 1) + 1]
      BY <1>1, <1>3, <1>5, <3>1
    <3>3. z[i] = v[i + 1] /\ a - (i + 1) + 1 = (a - 1) - i + 1
      BY <1>1, <1>6, <2>2
    <3> QED BY <1>7, <3>2, <3>3
  <2> QED BY <2>1, <2>2
<1>9. w = z
  BY <1>6, <1>7, <1>8, SeqEqual
<1> QED BY <1>9 DEF w, z, r, v, a

LEMMA ReverseConcat ==
  ASSUME NEW S, NEW x \in Seq(S), NEW y \in Seq(S)
  PROVE  Reverse(x \o y) = Reverse(y) \o Reverse(x)
<1> DEFINE a == Len(x)
           b == Len(y)
           xr == Reverse(x)
           yr == Reverse(y)
           r == x \o y
           w == Reverse(r)
           z == yr \o xr
<1>1. a \in Nat /\ b \in Nat /\ Len(x) = a /\ Len(y) = b
  BY LenProperties
<1>2. xr \in Seq(S) /\ Len(xr) = a /\ \A i \in 1 .. a : xr[i] = x[a - i + 1]
  BY ReverseProperties
<1>3. yr \in Seq(S) /\ Len(yr) = b /\ \A i \in 1 .. b : yr[i] = y[b - i + 1]
  BY ReverseProperties
<1> HIDE DEF a, b, xr, yr
<1>4. Glued(S, r, x, y, a, b)
  BY <1>1, ConcatAt
<1>5. Glued(S, z, yr, xr, b, a)
  BY <1>1, <1>2, <1>3, ConcatAt
<1> HIDE DEF r, z
<1>6. r \in Seq(S) /\ Len(r) = a + b
  BY <1>4 DEF Glued
<1>7. w \in Seq(S) /\ Len(w) = a + b /\ \A i \in 1 .. a + b : w[i] = r[(a + b) - i + 1]
  BY <1>6, ReverseProperties
<1> HIDE DEF w
<1>8. ASSUME NEW i \in 1 .. a + b PROVE w[i] = z[i]
  <2>1. CASE i \in 1 .. b
    <3>1. (a + b) - i + 1 \in a + 1 .. a + b /\ (a + b) - i + 1 - a = b - i + 1
      BY <1>1, <2>1
    <3>2. r[(a + b) - i + 1] = y[b - i + 1]
      <4> DEFINE j == (a + b) - i + 1
      <4>1. j \in a + 1 .. a + b /\ j - a = b - i + 1
        BY <1>1, <2>1
      <4> HIDE DEF j
      <4>2. r[j] = y[j - a]
        BY <1>4, <4>1 DEF Glued
      <4> QED BY <4>1, <4>2 DEF j
    <3>3. z[i] = yr[i]
      BY <1>5, <2>1 DEF Glued
    <3> QED BY <1>3, <1>7, <2>1, <3>2, <3>3
  <2>2. CASE i \in b + 1 .. b + a
    <3>1. (a + b) - i + 1 \in 1 .. a /\ i - b \in 1 .. a /\ a - (i - b) + 1 = (a + b) - i + 1
      BY <1>1, <2>2
    <3>2. r[(a + b) - i + 1] = x[(a + b) - i + 1]
      BY <1>4, <3>1 DEF Glued
    <3>3. z[i] = xr[i - b]
      BY <1>5, <2>2 DEF Glued
    <3>4. xr[i - b] = x[(a + b) - i + 1]
      BY <1>2, <3>1
    <3> QED BY <1>7, <3>2, <3>3, <3>4
  <2> QED BY <1>1, <2>1, <2>2
<1>9. z \in Seq(S) /\ Len(z) = a + b
  BY <1>1, <1>5 DEF Glued
<1>10. w = z
  BY <1>7, <1>8, <1>9, SeqEqual
<1> QED BY <1>10 DEF w, z, r, xr, yr

LEMMA ReversedInserted ==
  ASSUME NEW Q, NodeSeqs(Q), NEW l \in Dummies, NEW k \in 0 .. Len(Q[l]), NEW n \in Nodes
  PROVE  Reversed(Inserted(Q, l, k, n)) = Inserted(Reversed(Q), l, Len(Q[l]) - k, n)
<1> DEFINE A == Reversed(Inserted(Q, l, k, n))
           B == Inserted(Reversed(Q), l, Len(Q[l]) - k, n)
<1>1. \A m \in Dummies : m # l => A[m] = B[m]
  BY DEF Reversed, Inserted, NodeSeqs
<1>2. A[l] = Reverse(InsertAt(Q[l], k + 1, n))
  BY DEF Reversed, Inserted, NodeSeqs
<1>3. B[l] = InsertAt(Reverse(Q[l]), Len(Q[l]) - k + 1, n)
  BY DEF Reversed, Inserted
<1>4. A[l] = B[l]
  BY <1>2, <1>3, SeqFacts, ReverseInsert
<1>5. A = [m \in Dummies |-> A[m]] /\ B = [m \in Dummies |-> B[m]]
  <2> DEFINE P == Inserted(Q, l, k, n)
             R == Reversed(Q)
  <2>1. R = [m \in Dummies |-> R[m]]
    BY DEF Reversed
  <2>2. A = [m \in Dummies |-> Reverse(P[m])]
    BY DEF Reversed
  <2> HIDE DEF P, R, A
  <2>3. A = [m \in Dummies |-> A[m]]
    BY <2>2
  <2> DEFINE e == InsertAt(R[l], Len(Q[l]) - k + 1, n)
  <2>4. B = [R EXCEPT ![l] = e]
    BY DEF Inserted, R
  <2> HIDE DEF B, e
  <2>5. B = [m \in Dummies |-> B[m]]
    BY <2>1, <2>4
  <2> QED BY <2>3, <2>5
<1> HIDE DEF A, B
<1>6. A = B
  BY <1>1, <1>4, <1>5
<1> QED BY <1>6 DEF A, B

LEMMA ReversedRemoved ==
  ASSUME NEW Q, NodeSeqs(Q), NEW l \in Dummies, NEW k \in 1 .. Len(Q[l])
  PROVE  Reversed(Removed(Q, l, k)) = Removed(Reversed(Q), l, Len(Q[l]) + 1 - k)
<1> DEFINE A == Reversed(Removed(Q, l, k))
           B == Removed(Reversed(Q), l, Len(Q[l]) + 1 - k)
<1>1. \A m \in Dummies : m # l => A[m] = B[m]
  BY DEF Reversed, Removed, NodeSeqs
<1>2. A[l] = Reverse(RemoveAt(Q[l], k))
  BY DEF Reversed, Removed, NodeSeqs
<1>3. B[l] = RemoveAt(Reverse(Q[l]), Len(Q[l]) + 1 - k)
  BY DEF Reversed, Removed
<1>4. A[l] = B[l]
  BY <1>2, <1>3, SeqFacts, ReverseRemove
<1>5. A = [m \in Dummies |-> A[m]] /\ B = [m \in Dummies |-> B[m]]
  <2> DEFINE P == Removed(Q, l, k)
             R == Reversed(Q)
  <2>1. R = [m \in Dummies |-> R[m]]
    BY DEF Reversed
  <2>2. A = [m \in Dummies |-> Reverse(P[m])]
    BY DEF Reversed
  <2> HIDE DEF P, R, A
  <2>3. A = [m \in Dummies |-> A[m]]
    BY <2>2
  <2> DEFINE e == RemoveAt(R[l], Len(Q[l]) + 1 - k)
  <2>4. B = [R EXCEPT ![l] = e]
    BY DEF Removed, R
  <2> HIDE DEF B, e
  <2>5. B = [m \in Dummies |-> B[m]]
    BY <2>1, <2>4
  <2> QED BY <2>3, <2>5
<1> HIDE DEF A, B
<1>6. A = B
  BY <1>1, <1>4, <1>5
<1> QED BY <1>6 DEF A, B

LEMMA ReversedAppended ==
  ASSUME NEW Q, NodeSeqs(Q), NEW l \in Dummies, NEW m \in Dummies, l # m
  PROVE  Reversed(Appended(Q, l, m)) = Prepended(Reversed(Q), l, m)
<1> DEFINE A == Reversed(Appended(Q, l, m))
           B == Prepended(Reversed(Q), l, m)
<1>1. \A x \in Dummies : x # l /\ x # m => A[x] = B[x]
  BY DEF Reversed, Appended, Prepended, NodeSeqs
<1>2. A[l] = Reverse(Q[l] \o Q[m]) /\ A[m] = Reverse(<<>>)
  BY DEF Reversed, Appended, NodeSeqs
<1>3. B[l] = Reverse(Q[m]) \o Reverse(Q[l]) /\ B[m] = <<>>
  BY DEF Reversed, Prepended
<1>4. A[l] = B[l] /\ A[m] = B[m]
  <2>1. Reverse(<<>>) = <<>>
    BY DEF Reverse
  <2>2. Q[l] \in Seq(Nodes) /\ Q[m] \in Seq(Nodes)
    BY SeqFacts
  <2>3. Reverse(Q[l] \o Q[m]) = Reverse(Q[m]) \o Reverse(Q[l])
    BY <2>2, ReverseConcat
  <2> HIDE DEF A, B
  <2> QED BY <1>2, <1>3, <2>1, <2>3, Zenon
<1>5. A = [x \in Dummies |-> A[x]] /\ B = [x \in Dummies |-> B[x]]
  BY DEF Reversed, Prepended
<1> HIDE DEF A, B
<1>6. A = B
  BY <1>1, <1>4, <1>5
<1> QED BY <1>6 DEF A, B

------------------------------------------------------------------------------
(* Walking a ring meets the nodes of its sequence.                         *)

LEMMA ListLength ==
  ASSUME NEW Q, NodeSeqs(Q), NEW l \in Dummies
  PROVE  Cardinality(Nodes) \in Nat /\ Len(Q[l]) <= Cardinality(Nodes)
<1>1. Q[l] \in [1 .. Len(Q[l]) -> Nodes] /\ Len(Q[l]) \in Nat
  BY SeqFacts, LenProperties
<1>2. \A i, j \in 1 .. Len(Q[l]) : Q[l][i] = Q[l][j] => i = j
  BY DEF NodeSeqs, Distinct
<1>3. Q[l] \in Injection(1 .. Len(Q[l]), Nodes)
  BY <1>1, <1>2 DEF Injection, IsInjective
<1>4. IsFiniteSet(Nodes)
  BY ListsAssumption
<1>5. Cardinality(1 .. Len(Q[l])) <= Cardinality(Nodes)
  BY <1>3, <1>4, FS_Injection
<1>6. Cardinality(1 .. Len(Q[l])) = Len(Q[l])
  <2> DEFINE a == Len(Q[l])
  <2>1. a \in Nat /\ a \in Int /\ 1 \in Int
    BY <1>1
  <2> HIDE DEF a
  <2>2. Cardinality(1 .. a) = IF 1 > a THEN 0 ELSE a - 1 + 1
    BY <2>1, FS_Interval
  <2>3. Cardinality(1 .. a) = a
    BY <2>1, <2>2
  <2> QED BY <2>3 DEF a
<1> QED BY <1>4, <1>5, <1>6, FS_CardinalityType

\* Each cell leads to the next one, so the walk is the sequence.
LEMMA NodesFromRing ==
  ASSUME NEW Q, NodeSeqs(Q), NEW f, Ring(f, Q), NEW l \in Dummies
  PROVE  NodesFrom(f, l) = Q[l]
<1> DEFINE q == Q[l]
           a == Len(q)
           N == Cardinality(Nodes)
           g == [k \in 0 .. N |-> IF k <= a THEN SubSeq(q, 1, k) ELSE q]
           met[k \in 0 .. N] ==
             IF k = 0 THEN <<>>
             ELSE LET c == f[IF k = 1 THEN l ELSE Last(met[k - 1])]
                  IN IF Len(met[k - 1]) = k - 1 /\ c \in Nodes
                     THEN Append(met[k - 1], c) ELSE met[k - 1]
<1>1. q \in Seq(Nodes) /\ a \in Nat /\ N \in Nat /\ a <= N /\ \A i \in 1 .. a : q[i] \in Nodes
  BY SeqFacts, ListLength
<1>2. l \notin Nodes
  BY ListsAssumption
<1>3. \A i \in 0 .. a : f[At(q, l, i)] = At(q, l, i + 1)
  BY DEF Ring
<1>4. \A k \in 0 .. a : /\ SubSeq(q, 1, k) \in Seq(Nodes) /\ Len(SubSeq(q, 1, k)) = k
                        /\ \A i \in 1 .. k : SubSeq(q, 1, k)[i] = q[i]
  <2> TAKE k \in 0 .. a
  <2>1. k \in Int /\ 1 \in Int /\ \A i \in 1 .. k : q[i] \in Nodes
    BY <1>1
  <2>2. /\ SubSeq(q, 1, k) \in Seq(Nodes)
        /\ Len(SubSeq(q, 1, k)) = IF 1 <= k THEN k - 1 + 1 ELSE 0
        /\ \A i \in 1 .. k - 1 + 1 : SubSeq(q, 1, k)[i] = q[1 + i - 1]
    <3> HIDE DEF q, a
    <3> QED BY <2>1, SubSeqProperties
  <2> QED BY <1>1, <2>2
<1>5. ASSUME NEW k \in 0 .. N
      PROVE  g[k] = IF k = 0 THEN <<>>
                    ELSE LET c == f[IF k = 1 THEN l ELSE Last(g[k - 1])]
                         IN IF Len(g[k - 1]) = k - 1 /\ c \in Nodes
                            THEN Append(g[k - 1], c) ELSE g[k - 1]
  <2> HIDE DEF q, a, N
  <2>1. CASE k = 0
    <3>1. g[k] = SubSeq(q, 1, 0)
      BY <1>1, <2>1
    <3> HIDE DEF g
    <3>2. g[k] \in Seq(Nodes) /\ Len(g[k]) = 0
      BY <1>1, <1>4, <3>1
    <3>3. g[k] = <<>>
      BY <3>2, EmptySeq
    <3> QED BY <2>1, <3>3
  <2>2. CASE k # 0 /\ k <= a
    <3> DEFINE x == SubSeq(q, 1, k - 1)
               c == f[IF k = 1 THEN l ELSE Last(x)]
    <3>1. k - 1 \in 0 .. a /\ k \in 0 .. a /\ k - 1 \in 0 .. N /\ k - 1 <= a /\ k \in 1 .. a
      BY <1>1, <2>2
    <3>2. g[k - 1] = x /\ g[k] = SubSeq(q, 1, k)
      BY <2>2, <3>1
    <3>3. x \in Seq(Nodes) /\ Len(x) = k - 1 /\ \A i \in 1 .. k - 1 : x[i] = q[i]
      BY <1>4, <3>1
    <3>4. (IF k = 1 THEN l ELSE Last(x)) = At(q, l, k - 1)
      <4>1. CASE k = 1
        BY <4>1 DEF At
      <4>2. CASE k # 1
        <5>1. k - 1 \in 1 .. k - 1 /\ k - 1 \in 1 .. a
          BY <3>1, <4>2
        <5>2. Last(x) = q[k - 1]
          BY <3>3, <5>1 DEF Last
        <5> HIDE DEF x
        <5> QED BY <4>2, <5>1, <5>2 DEF At, a
      <4> QED BY <4>1, <4>2
    <3>5. c = q[k]
      <4>1. f[At(q, l, k - 1)] = At(q, l, k - 1 + 1)
        BY <1>3, <3>1
      <4>2. k - 1 + 1 = k /\ At(q, l, k) = q[k]
        BY <3>1 DEF At, a
      <4> HIDE DEF x
      <4> QED BY <3>4, <4>1, <4>2
    <3>6. c \in Nodes
      BY <1>1, <3>1, <3>5
    <3> HIDE DEF x, g
    <3>7. SubSeq(q, 1, k) = Append(x, c)
      <4>1. /\ Append(x, c) \in Seq(Nodes) /\ Len(Append(x, c)) = k
            /\ \A i \in 1 .. k : Append(x, c)[i] = q[i]
        <5> HIDE DEF c
        <5>1. /\ Append(x, c) \in Seq(Nodes) /\ Len(Append(x, c)) = k - 1 + 1
              /\ \A i \in 1 .. k - 1 : Append(x, c)[i] = x[i]
              /\ Append(x, c)[k - 1 + 1] = c
          BY <3>3, <3>6, AppendProperties
        <5>2. \A i \in 1 .. k : Append(x, c)[i] = q[i]
          <6> TAKE i \in 1 .. k
          <6>1. CASE i = k
            BY <3>1, <3>5, <5>1, <6>1
          <6>2. CASE i # k
            <7>1. i \in 1 .. k - 1
              BY <3>1, <6>2
            <7> QED BY <3>3, <5>1, <7>1
          <6> QED BY <6>1, <6>2
        <5> QED BY <3>1, <5>1, <5>2
      <4> DEFINE y == SubSeq(q, 1, k)
                 z == Append(x, c)
      <4>2. y \in Seq(Nodes) /\ Len(y) = k /\ \A i \in 1 .. k : y[i] = q[i]
        BY <1>4, <3>1
      <4> HIDE DEF y, z
      <4>3. y = z
        BY <4>1, <4>2, SeqEqual DEF z
      <4> QED BY <4>3 DEF y, z
    <3>8. Len(g[k - 1]) = k - 1
      BY <3>2, <3>3
    <3> QED BY <2>2, <3>2, <3>6, <3>7, <3>8
  <2>3. CASE k > a
    <3> DEFINE c == f[IF k = 1 THEN l ELSE Last(g[k - 1])]
    <3>1. k # 0 /\ k - 1 \in 0 .. N /\ k - 1 >= a /\ g[k] = q
      BY <1>1, <2>3
    <3>2. g[k - 1] = q
      <4>1. CASE k - 1 = a
        <5>1. g[k - 1] = SubSeq(q, 1, a)
          BY <3>1, <4>1
        <5> QED BY <1>1, <5>1, SubSeqFull DEF a
      <4>2. CASE k - 1 # a
        <5>1. ~(k - 1 <= a)
          BY <1>1, <3>1, <4>2
        <5> QED BY <3>1, <5>1
      <4> QED BY <4>1, <4>2
    <3> HIDE DEF g
    <3>3. ~(Len(g[k - 1]) = k - 1 /\ c \in Nodes)
      <4> SUFFICES ASSUME a = k - 1 PROVE c \notin Nodes
        BY <3>2 DEF a
      <4>1. (IF k = 1 THEN l ELSE Last(g[k - 1])) = At(q, l, a)
        <5>1. CASE k = 1
          BY <5>1 DEF At
        <5>2. CASE k # 1
          <6>1. a \in 1 .. a
            BY <1>1, <5>2
          <6> QED BY <3>2, <5>2, <6>1 DEF At, Last, a
        <5> QED BY <5>1, <5>2
      <4>2. f[At(q, l, a)] = At(q, l, a + 1)
        BY <1>1, <1>3
      <4>3. At(q, l, a + 1) = l
        BY <1>1 DEF At, a
      <4> QED BY <1>2, <4>1, <4>2, <4>3
    <3> QED BY <3>1, <3>2, <3>3
  <2> QED BY <1>1, <2>1, <2>2, <2>3
<1>6. g = [k \in 0 .. N |-> IF k = 0 THEN <<>>
                            ELSE LET c == f[IF k = 1 THEN l ELSE Last(g[k - 1])]
                                 IN IF Len(g[k - 1]) = k - 1 /\ c \in Nodes
                                    THEN Append(g[k - 1], c) ELSE g[k - 1]]
  <2>1. g = [k \in 0 .. N |-> g[k]]
    BY SMTT(30)
  <2> HIDE DEF g, N
  <2> QED BY <1>5, <2>1, Zenon
<1>7. met = [k \in 0 .. N |-> IF k = 0 THEN <<>>
                              ELSE LET c == f[IF k = 1 THEN l ELSE Last(met[k - 1])]
                                   IN IF Len(met[k - 1]) = k - 1 /\ c \in Nodes
                                      THEN Append(met[k - 1], c) ELSE met[k - 1]]
  <2> HIDE DEF g
  <2> QED BY <1>6
<1>8. NodesFrom(f, l) = met[N]
  BY DEF NodesFrom
<1>9. \A k \in 0 .. N : met[k] = g[k]
  <2> HIDE DEF g, met, N, q, a
  <2>1. met[0] = g[0]
    BY <1>1, <1>6, <1>7
  <2>2. ASSUME NEW k \in 1 .. N, met[k - 1] = g[k - 1] PROVE met[k] = g[k]
    <3>1. k \in 0 .. N /\ k # 0
      BY <1>1
    <3>2. met[k] = LET c == f[IF k = 1 THEN l ELSE Last(met[k - 1])]
                   IN IF Len(met[k - 1]) = k - 1 /\ c \in Nodes
                      THEN Append(met[k - 1], c) ELSE met[k - 1]
      BY <1>7, <3>1
    <3> QED BY <1>5, <2>2, <3>1, <3>2
  <2>3. \A k \in 1 .. N : met[k - 1] = g[k - 1] => met[k] = g[k]
    BY <2>2
  <2> HIDE DEF met, g, N
  <2>4. N \in Nat
    BY <1>1
  <2> QED BY <2>1, <2>3, <2>4, SameRecursion
<1>10. g[N] = q
  <2> HIDE DEF q
  <2>1. CASE a = N
    <3>1. g[N] = SubSeq(q, 1, a)
      BY <1>1, <2>1
    <3> QED BY <1>1, <3>1, SubSeqFull
  <2>2. CASE a # N
    BY <1>1, <2>2
  <2> QED BY <2>1, <2>2
<1>11. N \in 0 .. N
  BY <1>1
<1> HIDE DEF met, g, N
<1>12. NodesFrom(f, l) = q
  BY <1>8, <1>9, <1>10, <1>11
<1> QED BY <1>12

------------------------------------------------------------------------------
(* Doubly linked cells that hold sequences.                                *)

DllCells == [ListCells -> [next : ListCells \cup {Null}, prev : ListCells \cup {Null}]]
NextOf(s) == [c \in ListCells |-> s[c].next]
PrevOf(s) == [c \in ListCells |-> s[c].prev]

\* Forwards and backwards the cells are the rings of the sequences, and a node
\* in none of them is unlinked.
DllRep(s, Q) ==
  /\ s \in DllCells /\ NodeSeqs(Q)
  /\ Ring(NextOf(s), Q) /\ Ring(PrevOf(s), Reversed(Q))
  /\ \A n \in Nodes : InNone(Q, n) => s[n] = Unlinked

\* t is s with the pNext of a set to x and the pPrev of b set to y.
Relinked(t, s, a, x, b, y) ==
  /\ t \in DllCells
  /\ \A c \in ListCells : /\ t[c].next = IF c = a THEN x ELSE s[c].next
                          /\ t[c].prev = IF c = b THEN y ELSE s[c].prev

LEMMA LinkCells ==
  ASSUME NEW s \in DllCells, NEW a \in ListCells, NEW b \in ListCells
  PROVE  Relinked(Link(s, a, b), s, a, b, b, a)
BY DEF Relinked, Link, DllCells

\* Neighbours in a sequence point at each other.
LEMMA DllNeighbours ==
  ASSUME NEW s, NEW Q, DllRep(s, Q), NEW l \in Dummies, NEW i \in 0 .. Len(Q[l])
  PROVE  /\ s[At(Q[l], l, i)].next = At(Q[l], l, i + 1)
         /\ s[At(Q[l], l, i + 1)].prev = At(Q[l], l, i)
         /\ At(Q[l], l, i) \in ListCells /\ At(Q[l], l, i + 1) \in ListCells
<1> DEFINE R == Reversed(Q)
           a == Len(Q[l])
<1>1. NodeSeqs(Q) /\ Ring(NextOf(s), Q) /\ Ring(PrevOf(s), R)
  BY DEF DllRep
<1>2. a \in Nat /\ \A j \in Int : At(Q[l], l, j) \in ListCells
  BY <1>1, SeqFacts, AtEnds
<1>3. Len(R[l]) = a /\ \A j \in 0 .. a + 1 : At(R[l], l, j) = At(Q[l], l, a + 1 - j)
  BY <1>1, ReversedSeqs
<1>4. At(Q[l], l, i) \in ListCells /\ At(Q[l], l, i + 1) \in ListCells
  BY <1>2
<1>5. NextOf(s)[At(Q[l], l, i)] = At(Q[l], l, i + 1)
  BY <1>1 DEF Ring
<1>6. PrevOf(s)[At(Q[l], l, i + 1)] = At(Q[l], l, i)
  <2>1. a - i \in 0 .. a /\ a + 1 - (a - i) = i + 1 /\ a - i + 1 \in 0 .. a + 1
        /\ a + 1 - (a - i + 1) = i /\ a - i \in 0 .. a + 1
    BY <1>2
  <2>2. PrevOf(s)[At(R[l], l, a - i)] = At(R[l], l, a - i + 1)
    BY <1>1, <1>3, <2>1 DEF Ring
  <2>3. At(R[l], l, a - i) = At(Q[l], l, i + 1) /\ At(R[l], l, a - i + 1) = At(Q[l], l, i)
    <3> HIDE DEF R, a
    <3> QED BY <1>3, <2>1
  <2> QED BY <2>2, <2>3
<1> QED BY <1>4, <1>5, <1>6 DEF NextOf, PrevOf

\* A node put between two neighbours is in the sequence between them.
LEMMA DllInsert ==
  ASSUME NEW s, NEW Q, DllRep(s, Q), NEW l \in Dummies, NEW k \in 0 .. Len(Q[l]),
         NEW n \in Nodes, InNone(Q, n), NEW t \in DllCells,
         t[At(Q[l], l, k)].next = n, t[n].next = At(Q[l], l, k + 1),
         t[At(Q[l], l, k + 1)].prev = n, t[n].prev = At(Q[l], l, k),
         \A c \in ListCells : c # n /\ c # At(Q[l], l, k) => t[c].next = s[c].next,
         \A c \in ListCells : c # n /\ c # At(Q[l], l, k + 1) => t[c].prev = s[c].prev
  PROVE  DllRep(t, Inserted(Q, l, k, n))
<1> DEFINE R == Reversed(Q)
           P == Inserted(Q, l, k, n)
           a == Len(Q[l])
<1>1. NodeSeqs(Q) /\ Ring(NextOf(s), Q) /\ Ring(PrevOf(s), R)
  BY DEF DllRep
<1>2. a \in Nat /\ \A j \in Int : At(Q[l], l, j) \in ListCells
  BY <1>1, SeqFacts, AtEnds
<1>3. /\ NodeSeqs(R) /\ Len(R[l]) = a /\ InNone(R, n)
      /\ \A j \in 0 .. a + 1 : At(R[l], l, j) = At(Q[l], l, a + 1 - j)
  BY <1>1, ReversedSeqs
<1>4. NodeSeqs(P)
  BY <1>1, InsertedSeqs
<1>5. n \in ListCells
  BY DEF ListCells
<1>6. Ring(NextOf(t), P)
  <2> DEFINE f == NextOf(s)
             g == NextOf(t)
  <2>1. g[At(Q[l], l, k)] = n /\ g[n] = At(Q[l], l, k + 1)
    BY <1>2, <1>5 DEF NextOf
  <2>2. \A c \in ListCells : c # n /\ c # At(Q[l], l, k) => g[c] = f[c]
    BY DEF NextOf
  <2>3. Ring(f, Q)
    BY <1>1
  <2> HIDE DEF f, g
  <2>4. Ring(g, Inserted(Q, l, k, n))
    BY <1>1, <2>1, <2>2, <2>3, RingInsert
  <2> QED BY <2>4 DEF g
<1>7. Ring(PrevOf(t), Reversed(P))
  <2> DEFINE f == PrevOf(s)
             g == PrevOf(t)
             b == a - k
  <2>1. b \in 0 .. a /\ b \in 0 .. a + 1 /\ b + 1 \in 0 .. a + 1 /\ a + 1 - b = k + 1 /\ a + 1 - (b + 1) = k
    BY <1>2
  <2>2. At(R[l], l, b) = At(Q[l], l, k + 1) /\ At(R[l], l, b + 1) = At(Q[l], l, k)
    <3> HIDE DEF R, a, b
    <3> QED BY <1>3, <2>1
  <2>3. g[At(R[l], l, b)] = n /\ g[n] = At(R[l], l, b + 1)
    BY <1>2, <1>5, <2>2 DEF PrevOf
  <2>4. \A c \in ListCells : c # n /\ c # At(R[l], l, b) => g[c] = f[c]
    BY <2>2 DEF PrevOf
  <2>5. Ring(f, R) /\ b \in 0 .. Len(R[l])
    BY <1>1, <1>3, <2>1
  <2>6. Reversed(P) = Inserted(R, l, b, n)
    BY <1>1, ReversedInserted
  <2> HIDE DEF f, g, R, b, P
  <2>7. Ring(g, Inserted(R, l, b, n))
    BY <1>3, <2>3, <2>4, <2>5, RingInsert
  <2> QED BY <2>6, <2>7 DEF g
<1>8. ASSUME NEW m \in Nodes, InNone(P, m) PROVE t[m] = Unlinked
  <2>1. m # n /\ InNone(Q, m)
    <3> DEFINE q == Q[l]
               p == P[l]
    <3>1. p = InsertAt(q, k + 1, n) /\ q \in Seq(Nodes) /\ a = Len(q) /\ k + 1 \in 1 .. Len(q) + 1
      <4>1. Q \in [Dummies -> Seq(Nodes)]
        BY <1>1 DEF NodeSeqs
      <4> QED BY <1>2, <4>1 DEF Inserted
    <3>2. \A c \in Dummies \ {l} : P[c] = Q[c]
      BY <1>1 DEF Inserted, NodeSeqs
    <3>3. \A i \in 1 .. Len(p) : p[i] # m
      BY <1>8 DEF InNone
    <3> HIDE DEF q, p, P
    <3>4. WithAt(Nodes, p, q, k + 1, n)
      BY <3>1, InsertAtProperties
    <3>5. m # n
      <4>1. k + 1 \in 1 .. a + 1 /\ k + 1 \in 1 .. Len(p) /\ ~(k + 1 < k + 1)
        BY <1>2, <3>1, <3>4 DEF WithAt
      <4>2. p[k + 1] = n
        BY <3>1, <3>4, <4>1 DEF WithAt
      <4> QED BY <3>3, <4>1, <4>2
    <3>6. \A i \in 1 .. Len(q) : q[i] # m
      <4> TAKE i \in 1 .. Len(q)
      <4>1. CASE i < k + 1
        <5>1. i \in 1 .. Len(p) /\ p[i] = q[i]
          BY <1>2, <3>1, <3>4, <4>1 DEF WithAt
        <5> QED BY <3>3, <5>1
      <4>2. CASE ~(i < k + 1)
        <5>1. i + 1 \in 1 .. Len(p) /\ i + 1 \in 1 .. Len(q) + 1 /\ ~(i + 1 < k + 1)
              /\ i + 1 # k + 1 /\ i + 1 - 1 = i
          BY <1>2, <3>1, <3>4, <4>2 DEF WithAt
        <5>2. p[i + 1] = q[i]
          BY <3>4, <5>1 DEF WithAt
        <5> QED BY <3>3, <5>1, <5>2
      <4> QED BY <4>1, <4>2
    <3>7. InNone(Q, m)
      <4> SUFFICES ASSUME NEW c \in Dummies, NEW i \in 1 .. Len(Q[c]) PROVE Q[c][i] # m
        BY DEF InNone
      <4>1. CASE c = l
        BY <3>6, <4>1 DEF q
      <4>2. CASE c # l
        BY <1>8, <3>2, <4>2 DEF InNone
      <4> QED BY <4>1, <4>2
    <3> QED BY <3>5, <3>7
  <2>2. m # At(Q[l], l, k) /\ m # At(Q[l], l, k + 1) /\ m \in ListCells
    BY <1>1, <1>2, <2>1, AtListed DEF ListCells
  <2>3. t[m].next = s[m].next /\ t[m].prev = s[m].prev /\ s[m] = Unlinked
    BY <2>1, <2>2 DEF DllRep
  <2>4. t[m] \in [next : ListCells \cup {Null}, prev : ListCells \cup {Null}]
    BY <2>2 DEF DllCells
  <2> QED BY <2>3, <2>4 DEF Unlinked
<1> QED BY <1>4, <1>6, <1>7, <1>8 DEF DllRep

\* Linking the neighbours of a listed node and unlinking it takes it out.
LEMMA DllRemove ==
  ASSUME NEW s, NEW Q, DllRep(s, Q), NEW l \in Dummies, NEW k \in 1 .. Len(Q[l])
  PROVE  DllRep(DLL_NodeUnlist(s, Q[l][k]), Removed(Q, l, k))
<1> DEFINE R == Reversed(Q)
           P == Removed(Q, l, k)
           a == Len(Q[l])
           n == Q[l][k]
           x == At(Q[l], l, k - 1)
           y == At(Q[l], l, k + 1)
           t == DLL_NodeUnlist(s, n)
<1>1. NodeSeqs(Q) /\ Ring(NextOf(s), Q) /\ Ring(PrevOf(s), R) /\ s \in DllCells
  BY DEF DllRep
<1>2. /\ a \in Nat /\ n \in Nodes /\ n \in ListCells
      /\ \A j \in Int : At(Q[l], l, j) \in ListCells
  BY <1>1, SeqFacts, AtEnds DEF ListCells
<1>3. /\ NodeSeqs(R) /\ Len(R[l]) = a
      /\ \A j \in 0 .. a + 1 : At(R[l], l, j) = At(Q[l], l, a + 1 - j)
  BY <1>1, ReversedSeqs
<1>4. NodeSeqs(P)
  BY <1>1, RemovedSeqs
<1>5. k - 1 \in 0 .. a /\ k \in 0 .. a /\ k - 1 + 1 = k /\ At(Q[l], l, k) = n
  BY <1>2 DEF At
<1>6. s[n].next = y /\ s[n].prev = x /\ x \in ListCells /\ y \in ListCells
  <2>1. s[At(Q[l], l, k)].next = y /\ y \in ListCells
    BY <1>5, DllNeighbours
  <2>2. s[At(Q[l], l, k - 1 + 1)].prev = x /\ x \in ListCells
    <3> DEFINE i == k - 1
    <3>1. i \in 0 .. Len(Q[l])
      BY <1>5
    <3> HIDE DEF i
    <3>2. s[At(Q[l], l, i + 1)].prev = At(Q[l], l, i) /\ At(Q[l], l, i) \in ListCells
      BY <3>1, DllNeighbours
    <3> QED BY <3>2 DEF i
  <2> QED BY <1>5, <2>1, <2>2
<1>7. /\ t \in DllCells /\ t[n] = Unlinked
      /\ \A c \in ListCells \ {n} : /\ t[c].next = IF c = x THEN y ELSE s[c].next
                                    /\ t[c].prev = IF c = y THEN x ELSE s[c].prev
  <2> DEFINE u == Link(s, x, y)
  <2>1. t = [u EXCEPT ![n] = Unlinked]
    BY <1>6, ListsAssumption DEF DLL_NodeUnlist
  <2>2. Relinked(u, s, x, y, y, x)
    BY <1>1, <1>6, LinkCells
  <2> HIDE DEF u, t, n, x, y
  <2> QED BY <1>2, <2>1, <2>2 DEF Relinked, DllCells, Unlinked
<1>8. x # n /\ y # n
  <2>1. k + 1 \in 0 .. a \/ k + 1 = a + 1
    BY <1>2
  <2>2. x # n
    <3> DEFINE i == k - 1
    <3>1. i \in 0 .. Len(Q[l]) /\ k \in 0 .. Len(Q[l]) /\ i # k
      BY <1>2, <1>5
    <3> HIDE DEF i
    <3>2. At(Q[l], l, i) # At(Q[l], l, k)
      BY <1>1, <3>1, AtDistinct
    <3> QED BY <1>5, <3>2 DEF i
  <2>3. CASE k + 1 \in 0 .. a
    <3> DEFINE i == k + 1
    <3>1. i \in 0 .. Len(Q[l]) /\ k \in 0 .. Len(Q[l]) /\ i # k
      BY <1>2, <1>5, <2>3
    <3> HIDE DEF i
    <3>2. At(Q[l], l, i) # At(Q[l], l, k)
      BY <1>1, <3>1, AtDistinct
    <3>3. y # n
      BY <1>5, <3>2 DEF i
    <3> QED BY <2>2, <3>3
  <2>4. CASE k + 1 = a + 1
    <3>1. y = l
      BY <1>1, <2>4, AtEnds
    <3>2. l \notin Nodes
      BY ListsAssumption
    <3> QED BY <1>2, <2>2, <3>1, <3>2
  <2> QED BY <2>1, <2>3, <2>4
<1>9. Ring(NextOf(t), P)
  <2> DEFINE f == NextOf(s)
             g == NextOf(t)
  <2>1. g[At(Q[l], l, k - 1)] = At(Q[l], l, k + 1)
    BY <1>6, <1>7, <1>8 DEF NextOf
  <2>2. \A c \in ListCells : c # Q[l][k] /\ c # At(Q[l], l, k - 1) => g[c] = f[c]
    BY <1>7 DEF NextOf
  <2>3. Ring(f, Q)
    BY <1>1
  <2> HIDE DEF f, g
  <2>4. Ring(g, Removed(Q, l, k))
    BY <1>1, <2>1, <2>2, <2>3, RingRemove
  <2> QED BY <2>4 DEF g
<1>10. Ring(PrevOf(t), Reversed(P))
  <2> DEFINE f == PrevOf(s)
             g == PrevOf(t)
             b == a + 1 - k
  <2>1. /\ b \in 1 .. a /\ b - 1 \in 0 .. a + 1 /\ b + 1 \in 0 .. a + 1 /\ b \in 0 .. a + 1
        /\ a + 1 - (b - 1) = k + 1 /\ a + 1 - (b + 1) = k - 1 /\ a + 1 - b = k
    BY <1>2
  <2>2. At(R[l], l, b - 1) = y /\ At(R[l], l, b + 1) = x /\ At(R[l], l, b) = n
    <3>1. At(R[l], l, b - 1) = At(Q[l], l, k + 1) /\ At(R[l], l, b + 1) = At(Q[l], l, k - 1)
          /\ At(R[l], l, b) = At(Q[l], l, k)
      <4> HIDE DEF R, a, b
      <4> QED BY <1>3, <2>1
    <3> QED BY <1>5, <3>1
  <2>3. R[l][b] = n
    BY <1>3, <2>1, <2>2 DEF At
  <2>4. g[At(R[l], l, b - 1)] = At(R[l], l, b + 1)
    BY <1>6, <1>7, <1>8, <2>2 DEF PrevOf
  <2>5. \A c \in ListCells : c # R[l][b] /\ c # At(R[l], l, b - 1) => g[c] = f[c]
    BY <1>7, <2>2, <2>3 DEF PrevOf
  <2>6. Ring(f, R) /\ b \in 1 .. Len(R[l])
    BY <1>1, <1>3, <2>1
  <2>7. Reversed(P) = Removed(R, l, b)
    BY <1>1, ReversedRemoved
  <2> HIDE DEF f, g, R, b, P, n, x, y, t
  <2>8. Ring(g, Removed(R, l, b))
    BY <1>3, <2>4, <2>5, <2>6, RingRemove
  <2> QED BY <2>7, <2>8 DEF g
<1>11. ASSUME NEW m \in Nodes, InNone(P, m) PROVE t[m] = Unlinked
  <2>1. CASE m = n
    BY <1>7, <2>1
  <2>2. CASE m # n
    <3>1. InNone(Q, m)
      <4> DEFINE q == Q[l]
                 p == P[l]
      <4>1. p = RemoveAt(q, k) /\ q \in Seq(Nodes) /\ a = Len(q) /\ k \in 1 .. Len(q)
        <5>1. Q \in [Dummies -> Seq(Nodes)]
          BY <1>1 DEF NodeSeqs
        <5> QED BY <1>2, <5>1 DEF Removed
      <4>2. \A c \in Dummies \ {l} : P[c] = Q[c]
        BY <1>1 DEF Removed, NodeSeqs
      <4>3. (\A i \in 1 .. Len(p) : p[i] # m) /\ q[k] # m
        BY <1>11, <2>2 DEF InNone
      <4> HIDE DEF q, p, P
      <4>4. WithoutAt(Nodes, p, q, k)
        BY <4>1, RemoveAtProperties
      <4>5. \A i \in 1 .. Len(q) : q[i] # m
        <5> TAKE i \in 1 .. Len(q)
        <5>1. CASE i < k
          <6>1. i \in 1 .. Len(p) /\ i \in 1 .. Len(q) - 1 /\ p[i] = q[i]
            BY <1>2, <4>1, <4>4, <5>1 DEF WithoutAt
          <6> QED BY <4>3, <6>1
        <5>2. CASE i = k
          BY <4>3, <5>2
        <5>3. CASE i > k
          <6>1. i - 1 \in 1 .. Len(p) /\ i - 1 \in 1 .. Len(q) - 1 /\ ~(i - 1 < k) /\ i - 1 + 1 = i
            BY <1>2, <4>1, <4>4, <5>3 DEF WithoutAt
          <6>2. p[i - 1] = q[i]
            BY <4>4, <6>1 DEF WithoutAt
          <6> QED BY <4>3, <6>1, <6>2
        <5> QED BY <1>2, <4>1, <5>1, <5>2, <5>3
      <4> SUFFICES ASSUME NEW c \in Dummies, NEW i \in 1 .. Len(Q[c]) PROVE Q[c][i] # m
        BY DEF InNone
      <4>6. CASE c = l
        BY <4>5, <4>6 DEF q
      <4>7. CASE c # l
        BY <1>11, <4>2, <4>7 DEF InNone
      <4> QED BY <4>6, <4>7
    <3>2. m # x /\ m # y /\ m \in ListCells
      BY <1>1, <1>2, <3>1, AtListed DEF ListCells
    <3>3. t[m].next = s[m].next /\ t[m].prev = s[m].prev /\ s[m] = Unlinked
      BY <1>7, <2>2, <3>1, <3>2 DEF DllRep
    <3>4. t[m] \in [next : ListCells \cup {Null}, prev : ListCells \cup {Null}]
      BY <1>7, <3>2 DEF DllCells
    <3> HIDE DEF t
    <3> QED BY <3>3, <3>4 DEF Unlinked
  <2> QED BY <2>1, <2>2
<1> QED BY <1>4, <1>7, <1>9, <1>10, <1>11 DEF DllRep

LEMMA DllAppend ==
  ASSUME NEW s, NEW Q, DllRep(s, Q), NEW l \in Dummies, NEW m \in Dummies, l # m
  PROVE  DllRep(DLL_AppendListToBack(s, l, m), Appended(Q, l, m))
<1> DEFINE R == Reversed(Q)
           P == Appended(Q, l, m)
           a == Len(Q[l])
           b == Len(Q[m])
           x == At(Q[l], l, a)
           y == At(Q[m], m, 1)
           z == At(Q[m], m, b)
           u == Link(Link(s, x, y), z, l)
           t == DLL_AppendListToBack(s, l, m)
<1>1. NodeSeqs(Q) /\ Ring(NextOf(s), Q) /\ Ring(PrevOf(s), R) /\ s \in DllCells
  BY DEF DllRep
<1>2. /\ a \in Nat /\ b \in Nat
      /\ \A j \in Int : At(Q[l], l, j) \in ListCells /\ At(Q[m], m, j) \in ListCells
      /\ At(Q[l], l, 0) = l /\ At(Q[m], m, 0) = m
      /\ At(Q[l], l, a + 1) = l /\ At(Q[m], m, b + 1) = m
      /\ l \in ListCells /\ m \in ListCells
  BY <1>1, SeqFacts, AtEnds DEF ListCells
<1>3. /\ NodeSeqs(R) /\ Len(R[l]) = a /\ Len(R[m]) = b
      /\ \A j \in 0 .. a + 1 : At(R[l], l, j) = At(Q[l], l, a + 1 - j)
      /\ \A j \in 0 .. b + 1 : At(R[m], m, j) = At(Q[m], m, b + 1 - j)
  BY <1>1, ReversedSeqs
<1>4. NodeSeqs(P)
  BY <1>1, AppendedSeqs
<1>5. s[l].prev = x /\ s[m].next = y /\ s[m].prev = z
  <2>1. 0 \in 0 .. Len(Q[m]) /\ a \in 0 .. Len(Q[l]) /\ b \in 0 .. Len(Q[m]) /\ 0 + 1 = 1
    BY <1>2
  <2>2. s[At(Q[m], m, 0)].next = At(Q[m], m, 0 + 1)
    BY <2>1, DllNeighbours
  <2>3. s[At(Q[l], l, a + 1)].prev = At(Q[l], l, a)
    <3> HIDE DEF a, b
    <3> QED BY <2>1, DllNeighbours
  <2>4. s[At(Q[m], m, b + 1)].prev = At(Q[m], m, b)
    <3> HIDE DEF a, b
    <3> QED BY <2>1, DllNeighbours
  <2> QED BY <1>2, <2>1, <2>2, <2>3, <2>4
<1>6. Q[m] = <<>> <=> y = m
  <2>1. CASE b = 0
    <3>1. Q[m] = <<>>
      BY <1>1, <2>1, SeqFacts, EmptySeq
    <3> QED BY <2>1, <3>1 DEF At
  <2>2. CASE b # 0
    <3>1. 1 \in 1 .. b /\ y = Q[m][1]
      BY <1>2, <2>2 DEF At
    <3>2. y \in Nodes
      BY <1>1, <3>1, SeqFacts
    <3>3. m \notin Nodes
      BY ListsAssumption
    <3>4. Q[m] # <<>>
      BY <2>2
    <3> QED BY <3>2, <3>3, <3>4
  <2> QED BY <2>1, <2>2
<1>7. t = [(IF y = m THEN s ELSE u) EXCEPT ![m] = [next |-> m, prev |-> m]]
  BY <1>5 DEF DLL_AppendListToBack, DLL_IsEmpty
<1>8. Q[m] # <<>> => b \in 1 .. b /\ 1 \in 1 .. b /\ y = Q[m][1] /\ z = Q[m][b] /\ y \in Nodes /\ z \in Nodes
  <2> HAVE Q[m] # <<>>
  <2>1. b # 0
    BY <1>1, SeqFacts, EmptySeq
  <2>2. b \in 1 .. b /\ 1 \in 1 .. b
    BY <1>2, <2>1
  <2> QED BY <1>1, <2>2, SeqFacts DEF At
<1>9. \A c \in ListCells :
        /\ u \in DllCells
        /\ u[c].next = IF c = z THEN l ELSE IF c = x THEN y ELSE s[c].next
        /\ u[c].prev = IF c = l THEN z ELSE IF c = y THEN x ELSE s[c].prev
  <2> DEFINE v == Link(s, x, y)
  <2>1. Relinked(v, s, x, y, y, x)
    BY <1>1, <1>2, LinkCells
  <2>2. Relinked(Link(v, z, l), v, z, l, l, z)
    <3>1. v \in DllCells /\ z \in ListCells /\ l \in ListCells
      BY <1>2, <2>1 DEF Relinked
    <3> HIDE DEF v, z
    <3> QED BY <3>1, LinkCells
  <2>3. u = Link(v, z, l)
    OBVIOUS
  <2> HIDE DEF u, v, x, y, z
  <2> QED BY <2>1, <2>2, <2>3 DEF Relinked
<1>10. /\ t \in DllCells /\ t[m] = [next |-> m, prev |-> m]
       /\ \A c \in ListCells \ {m} :
            /\ t[c].next = IF Q[m] = <<>> THEN s[c].next
                           ELSE IF c = z THEN l ELSE IF c = x THEN y ELSE s[c].next
            /\ t[c].prev = IF Q[m] = <<>> THEN s[c].prev
                           ELSE IF c = l THEN z ELSE IF c = y THEN x ELSE s[c].prev
  <2> DEFINE w == IF y = m THEN s ELSE u
  <2>1. w \in DllCells
    BY <1>1, <1>2, <1>9
  <2>2. \A c \in ListCells :
           /\ w[c].next = IF Q[m] = <<>> THEN s[c].next
                          ELSE IF c = z THEN l ELSE IF c = x THEN y ELSE s[c].next
           /\ w[c].prev = IF Q[m] = <<>> THEN s[c].prev
                          ELSE IF c = l THEN z ELSE IF c = y THEN x ELSE s[c].prev
    BY <1>6, <1>9
  <2>3. t = [w EXCEPT ![m] = [next |-> m, prev |-> m]]
    BY <1>7
  <2> HIDE DEF u, x, y, z, w, t
  <2> QED BY <1>2, <2>1, <2>2, <2>3 DEF DllCells
<1>11. x # m /\ l \notin Nodes /\ m \notin Nodes
  <2>1. l \notin Nodes /\ m \notin Nodes
    BY ListsAssumption
  <2>2. x # m
    <3>1. CASE a = 0
      BY <1>2, <3>1
    <3>2. CASE a # 0
      <4>1. a \in 1 .. a
        BY <1>2, <3>2
      <4>2. x \in Nodes
        BY <1>1, <4>1, SeqFacts DEF At
      <4> QED BY <2>1, <4>2
    <3> QED BY <3>1, <3>2
  <2> QED BY <2>1, <2>2
<1>12. Q[m] # <<>> => z # x /\ z # m /\ y # l /\ z # l
  <2> HAVE Q[m] # <<>>
  <2>1. z # m /\ z # l /\ y # l
    BY <1>8, <1>11
  <2>2. z # x
    <3>1. a \in 0 .. Len(Q[l]) /\ b \in 0 .. Len(Q[m])
      BY <1>2
    <3> HIDE DEF a, b
    <3>2. At(Q[l], l, a) # At(Q[m], m, b)
      BY <1>1, <3>1, AtDistinct
    <3> QED BY <3>2
  <2> QED BY <2>1, <2>2
<1>13. Ring(NextOf(t), P)
  <2> DEFINE f == NextOf(s)
             g == NextOf(t)
  <2>1. g[m] = m /\ Ring(f, Q)
    BY <1>1, <1>2, <1>10 DEF NextOf
  <2>2. Q[m] = <<>> => g[At(Q[l], l, Len(Q[l]))] = l
    <3> HAVE Q[m] = <<>>
    <3>1. g[x] = f[x]
      BY <1>2, <1>10, <1>11 DEF NextOf
    <3>2. f[At(Q[l], l, a)] = At(Q[l], l, a + 1)
      BY <1>1, <1>2 DEF Ring
    <3> QED BY <1>2, <3>1, <3>2
  <2>3. Q[m] # <<>> => /\ g[At(Q[l], l, Len(Q[l]))] = Q[m][1]
                       /\ g[Q[m][Len(Q[m])]] = l
    BY <1>2, <1>8, <1>10, <1>11, <1>12 DEF NextOf
  <2>4. \A c \in ListCells : /\ c # m /\ c # At(Q[l], l, Len(Q[l]))
                             /\ Q[m] # <<>> => c # Q[m][Len(Q[m])]
                             => g[c] = f[c]
    <3> TAKE c \in ListCells
    <3> HAVE /\ c # m /\ c # At(Q[l], l, Len(Q[l]))
             /\ Q[m] # <<>> => c # Q[m][Len(Q[m])]
    <3>1. t[c].next = s[c].next
      <4> HIDE DEF t
      <4> QED BY <1>8, <1>10
    <3> QED BY <3>1 DEF NextOf
  <2> HIDE DEF f, g
  <2>5. Ring(g, Appended(Q, l, m))
    BY <1>1, <2>1, <2>2, <2>3, <2>4, RingAppend, Zenon
  <2> QED BY <2>5 DEF g
<1>14. Ring(PrevOf(t), Reversed(P))
  <2> DEFINE f == PrevOf(s)
             g == PrevOf(t)
  <2>1. g[m] = m /\ Ring(f, R)
    BY <1>1, <1>2, <1>10 DEF PrevOf
  <2>2. R[m] = <<>> <=> Q[m] = <<>>
    <3>1. R[m] \in Seq(Nodes) /\ Q[m] \in Seq(Nodes)
      BY <1>1, <1>3 DEF NodeSeqs
    <3> QED BY <1>3, <3>1, EmptySeq
  <2>3. R[m] = <<>> => g[l] = f[l]
    BY <1>2, <1>10, <2>2 DEF PrevOf
  <2>4. R[m] # <<>> => R[m][1] = z /\ R[m][Len(R[m])] = y /\ At(R[l], l, 1) = x
    <3> HAVE R[m] # <<>>
    <3>1. b \in 1 .. b /\ 1 \in 1 .. b /\ b + 1 - 1 = b /\ b + 1 - b = 1 /\ a + 1 - 1 = a
          /\ 1 \in 0 .. b + 1 /\ b \in 0 .. b + 1 /\ 1 \in 0 .. a + 1
      BY <1>2, <1>8, <2>2
    <3>2. At(R[m], m, 1) = At(Q[m], m, b) /\ At(R[m], m, b) = At(Q[m], m, 1) /\ At(R[l], l, 1) = At(Q[l], l, a)
      <4> HIDE DEF R, a, b
      <4> QED BY <1>3, <3>1
    <3>3. At(R[m], m, 1) = R[m][1] /\ At(R[m], m, b) = R[m][b]
      BY <1>3, <3>1 DEF At
    <3> QED BY <1>3, <3>2, <3>3
  <2>5. R[m] # <<>> => /\ g[l] = R[m][1]
                       /\ g[R[m][Len(R[m])]] = At(R[l], l, 1)
    <3> HAVE R[m] # <<>>
    <3>1. t[l].prev = z /\ t[y].prev = x
      BY <1>2, <1>8, <1>10, <1>11, <1>12, <2>2
    <3>2. g[l] = z /\ g[y] = x
      BY <1>2, <3>1 DEF PrevOf
    <3> HIDE DEF g, R
    <3> QED BY <2>4, <3>2
  <2>6. \A c \in ListCells : /\ c # m /\ c # l
                             /\ R[m] # <<>> => c # R[m][Len(R[m])]
                             => g[c] = f[c]
    <3> TAKE c \in ListCells
    <3> HAVE /\ c # m /\ c # l
             /\ R[m] # <<>> => c # R[m][Len(R[m])]
    <3>1. t[c].prev = s[c].prev
      <4> HIDE DEF t, R
      <4> QED BY <1>10, <2>2, <2>4
    <3> QED BY <3>1 DEF PrevOf
  <2>7. Reversed(P) = Prepended(R, l, m)
    BY <1>1, ReversedAppended
  <2> HIDE DEF f, g, R, P
  <2>8. Ring(g, Prepended(R, l, m))
    BY <1>3, <2>1, <2>3, <2>5, <2>6, RingPrepend, Zenon
  <2> QED BY <2>7, <2>8 DEF g
<1>15. ASSUME NEW n \in Nodes, InNone(P, n) PROVE t[n] = Unlinked
  <2>1. InNone(Q, n)
    <3> DEFINE p == P[l]
               q == Q[l]
               r == Q[m]
    <3>1. p = q \o r /\ q \in Seq(Nodes) /\ r \in Seq(Nodes) /\ a = Len(q) /\ b = Len(r)
      <4>1. Q \in [Dummies -> Seq(Nodes)]
        BY <1>1 DEF NodeSeqs
      <4> QED BY <4>1 DEF Appended
    <3>2. \A c \in Dummies \ {l, m} : P[c] = Q[c]
      BY <1>1 DEF Appended, NodeSeqs
    <3>3. \A i \in 1 .. Len(p) : p[i] # n
      BY <1>15 DEF InNone
    <3> HIDE DEF q, p, r, P
    <3>4. Glued(Nodes, p, q, r, a, b)
      BY <1>2, <3>1, ConcatAt
    <3>5. \A i \in 1 .. Len(q) : q[i] # n
      BY <1>2, <3>1, <3>3, <3>4 DEF Glued
    <3>6. \A i \in 1 .. Len(r) : r[i] # n
      <4> TAKE i \in 1 .. Len(r)
      <4> DEFINE j == a + i
      <4>1. j \in 1 .. Len(p) /\ j \in a + 1 .. a + b /\ j - a = i
        BY <1>2, <3>1, <3>4 DEF Glued
      <4> HIDE DEF j
      <4>2. p[j] = r[j - a]
        BY <3>4, <4>1 DEF Glued
      <4> QED BY <3>3, <4>1, <4>2
    <3> SUFFICES ASSUME NEW c \in Dummies, NEW i \in 1 .. Len(Q[c]) PROVE Q[c][i] # n
      BY DEF InNone
    <3>7. CASE c = l
      BY <3>5, <3>7 DEF q
    <3>8. CASE c = m
      BY <3>6, <3>8 DEF r
    <3>9. CASE c # l /\ c # m
      BY <1>15, <3>2, <3>9 DEF InNone
    <3> QED BY <3>7, <3>8, <3>9
  <2>2. n # x /\ n # y /\ n # z /\ n \in ListCells /\ n # m /\ n # l
    BY <1>1, <1>2, <1>11, <2>1, AtListed DEF ListCells
  <2>3. t[n].next = s[n].next /\ t[n].prev = s[n].prev /\ s[n] = Unlinked
    <3> HIDE DEF t
    <3>1. s[n] = Unlinked
      BY <2>1 DEF DllRep
    <3> QED BY <1>10, <2>2, <3>1
  <2>4. t[n] \in [next : ListCells \cup {Null}, prev : ListCells \cup {Null}]
    <3> HIDE DEF t
    <3> QED BY <1>10, <2>2 DEF DllCells
  <2> HIDE DEF t
  <2> QED BY <2>3, <2>4 DEF Unlinked
<1> QED BY <1>4, <1>10, <1>13, <1>14, <1>15 DEF DllRep

------------------------------------------------------------------------------
(* The operations of dl_list.cpp on cells that hold sequences.             *)

\* Two links put a free node between two neighbours, in either order.
LEMMA DllBetween ==
  ASSUME NEW s, NEW Q, DllRep(s, Q), NEW l \in Dummies, NEW k \in 0 .. Len(Q[l]),
         NEW n \in Nodes, InNone(Q, n), NEW a, NEW b,
         a = At(Q[l], l, k), b = At(Q[l], l, k + 1)
  PROVE  /\ DllRep(Link(Link(s, a, n), n, b), Inserted(Q, l, k, n))
         /\ DllRep(Link(Link(s, n, b), a, n), Inserted(Q, l, k, n))
<1>1. NodeSeqs(Q) /\ s \in DllCells /\ n \in ListCells /\ k \in Int /\ k + 1 \in Int
  BY DEF DllRep, ListCells
<1>2. a \in ListCells /\ b \in ListCells
  BY DllNeighbours
<1>3. a # n /\ b # n
  BY <1>1, AtListed
<1>4. ASSUME NEW t \in DllCells,
             \A c \in ListCells :
               /\ t[c].next = IF c = a THEN n ELSE IF c = n THEN b ELSE s[c].next
               /\ t[c].prev = IF c = b THEN n ELSE IF c = n THEN a ELSE s[c].prev
      PROVE  DllRep(t, Inserted(Q, l, k, n))
  <2>1. /\ t[At(Q[l], l, k)].next = n /\ t[n].next = At(Q[l], l, k + 1)
        /\ t[At(Q[l], l, k + 1)].prev = n /\ t[n].prev = At(Q[l], l, k)
    BY <1>1, <1>2, <1>3, <1>4
  <2>2. /\ \A c \in ListCells : c # n /\ c # At(Q[l], l, k) => t[c].next = s[c].next
        /\ \A c \in ListCells : c # n /\ c # At(Q[l], l, k + 1) => t[c].prev = s[c].prev
    BY <1>4
  <2> QED BY <2>1, <2>2, DllInsert
<1>5. ASSUME NEW v, NEW t, NEW x \in ListCells, NEW y \in ListCells,
             Relinked(v, s, x, y, y, x)
      PROVE  \A p, q \in ListCells : Relinked(Link(v, p, q), v, p, q, q, p)
  BY <1>5, LinkCells DEF Relinked
<1>6. DllRep(Link(Link(s, a, n), n, b), Inserted(Q, l, k, n))
  <2> DEFINE v == Link(s, a, n)
             t == Link(v, n, b)
  <2>1. Relinked(v, s, a, n, n, a)
    BY <1>1, <1>2, LinkCells
  <2> HIDE DEF v
  <2>2. Relinked(t, v, n, b, b, n)
    BY <1>1, <1>2, <1>5, <2>1
  <2> HIDE DEF t
  <2>3. t \in DllCells
    BY <2>2 DEF Relinked
  <2>4. \A c \in ListCells :
               /\ t[c].next = IF c = a THEN n ELSE IF c = n THEN b ELSE s[c].next
               /\ t[c].prev = IF c = b THEN n ELSE IF c = n THEN a ELSE s[c].prev
    BY <1>3, <2>1, <2>2 DEF Relinked
  <2>5. DllRep(t, Inserted(Q, l, k, n))
    BY <1>4, <2>3, <2>4
  <2> QED BY <2>5 DEF t, v
<1>7. DllRep(Link(Link(s, n, b), a, n), Inserted(Q, l, k, n))
  <2> DEFINE v == Link(s, n, b)
             t == Link(v, a, n)
  <2>1. Relinked(v, s, n, b, b, n)
    BY <1>1, <1>2, LinkCells
  <2> HIDE DEF v
  <2>2. Relinked(t, v, a, n, n, a)
    BY <1>1, <1>2, <1>5, <2>1
  <2> HIDE DEF t
  <2>3. t \in DllCells
    BY <2>2 DEF Relinked
  <2>4. \A c \in ListCells :
               /\ t[c].next = IF c = a THEN n ELSE IF c = n THEN b ELSE s[c].next
               /\ t[c].prev = IF c = b THEN n ELSE IF c = n THEN a ELSE s[c].prev
    BY <1>3, <2>1, <2>2 DEF Relinked
  <2>5. DllRep(t, Inserted(Q, l, k, n))
    BY <1>4, <2>3, <2>4
  <2> QED BY <2>5 DEF t, v
<1> QED BY <1>6, <1>7

LEMMA DllPushBack ==
  ASSUME NEW s, NEW Q, DllRep(s, Q), NEW l \in Dummies, NEW n \in Nodes, InNone(Q, n)
  PROVE  DllRep(DLL_PushBack(s, l, n), Inserted(Q, l, Len(Q[l]), n))
<1> DEFINE k == Len(Q[l])
<1>1. k \in 0 .. Len(Q[l]) /\ At(Q[l], l, k + 1) = l
  BY SeqFacts, AtEnds DEF DllRep
<1> HIDE DEF k
<1>2. s[l].prev = At(Q[l], l, k)
  BY <1>1, DllNeighbours
<1>3. DllRep(DLL_PushBack(s, l, n), Inserted(Q, l, k, n))
  BY <1>1, <1>2, DllBetween DEF DLL_PushBack
<1> QED BY <1>3 DEF k

LEMMA DllPushFront ==
  ASSUME NEW s, NEW Q, DllRep(s, Q), NEW l \in Dummies, NEW n \in Nodes, InNone(Q, n)
  PROVE  DllRep(DLL_PushFront(s, l, n), Inserted(Q, l, 0, n))
<1> DEFINE k == 0
<1>1. k \in 0 .. Len(Q[l]) /\ At(Q[l], l, k) = l
  BY SeqFacts, AtEnds DEF DllRep
<1> HIDE DEF k
<1>2. s[l].next = At(Q[l], l, k + 1)
  BY <1>1, DllNeighbours
<1>3. DllRep(DLL_PushFront(s, l, n), Inserted(Q, l, k, n))
  BY <1>1, <1>2, DllBetween DEF DLL_PushFront
<1> QED BY <1>3 DEF k

LEMMA DllUnlistFree ==
  ASSUME NEW s, NEW Q, DllRep(s, Q), NEW n \in Nodes, InNone(Q, n)
  PROVE  DLL_NodeUnlist(s, n) = s
BY DEF DllRep, DLL_NodeUnlist, Unlinked

LEMMA DllInsertBefore ==
  ASSUME NEW s, NEW Q, DllRep(s, Q), NEW l \in Dummies, NEW k \in 0 .. Len(Q[l]),
         k + 1 <= Len(Q[l]), NEW n \in Nodes, InNone(Q, n)
  PROVE  DllRep(DLL_NodeInsertBefore(s, n, Q[l][k + 1]), Inserted(Q, l, k, n))
<1>1. DLL_NodeUnlist(s, n) = s
  BY DllUnlistFree
<1>2. At(Q[l], l, k + 1) = Q[l][k + 1]
  BY SeqFacts DEF At, DllRep
<1>3. s[At(Q[l], l, k + 1)].prev = At(Q[l], l, k)
  BY DllNeighbours
<1> DEFINE a == At(Q[l], l, k)
           b == At(Q[l], l, k + 1)
<1>4. DLL_NodeInsertBefore(s, n, Q[l][k + 1]) = Link(Link(s, a, n), n, b)
  BY <1>1, <1>2, <1>3 DEF DLL_NodeInsertBefore
<1>5. DllRep(Link(Link(s, a, n), n, b), Inserted(Q, l, k, n))
  BY DllBetween
<1> QED BY <1>4, <1>5

LEMMA DllInsertAfter ==
  ASSUME NEW s, NEW Q, DllRep(s, Q), NEW l \in Dummies, NEW k \in 1 .. Len(Q[l]),
         NEW n \in Nodes, InNone(Q, n)
  PROVE  DllRep(DLL_NodeInsertAfter(s, n, Q[l][k]), Inserted(Q, l, k, n))
<1>1. DLL_NodeUnlist(s, n) = s
  BY DllUnlistFree
<1>2. At(Q[l], l, k) = Q[l][k] /\ k \in 0 .. Len(Q[l])
  BY DEF At
<1>3. s[At(Q[l], l, k)].next = At(Q[l], l, k + 1)
  BY <1>2, DllNeighbours
<1> DEFINE a == At(Q[l], l, k)
           b == At(Q[l], l, k + 1)
<1>4. DLL_NodeInsertAfter(s, n, Q[l][k]) = Link(Link(s, n, b), a, n)
  BY <1>1, <1>2, <1>3 DEF DLL_NodeInsertAfter
<1>5. DllRep(Link(Link(s, n, b), a, n), Inserted(Q, l, k, n))
  BY <1>2, DllBetween
<1> QED BY <1>4, <1>5

\* What the queries read from cells that hold sequences.
DllAnswers(s, Q, l) ==
  /\ DLL_Nodes(s, l) = Q[l]
  /\ NodesFrom([c \in ListCells |-> s[c].prev], l) = Reverse(Q[l])
  /\ DLL_IsEmpty(s, l) <=> Q[l] = <<>>
  /\ s[l].next = At(Q[l], l, 1) /\ s[l].prev = At(Q[l], l, Len(Q[l]))
  /\ Q[l] # <<>> => /\ DLL_GetFront(s, l) = Q[l][1]
                    /\ DLL_GetBack(s, l) = Q[l][Len(Q[l])]
  /\ Q[l] = <<>> => DLL_GetFront(s, l) = Null /\ DLL_GetBack(s, l) = Null

LEMMA DllQueries ==
  ASSUME NEW s, NEW Q, DllRep(s, Q), NEW l \in Dummies
  PROVE  DllAnswers(s, Q, l)
<1>1. NodeSeqs(Q) /\ NodeSeqs(Reversed(Q)) /\ Ring(NextOf(s), Q) /\ Ring(PrevOf(s), Reversed(Q))
      /\ Reversed(Q)[l] = Reverse(Q[l])
  BY ReversedSeqs DEF DllRep
<1>2. DLL_Nodes(s, l) = Q[l]
  <2>1. NodesFrom(NextOf(s), l) = Q[l]
    BY <1>1, NodesFromRing
  <2> QED BY <2>1 DEF DLL_Nodes, NextOf
<1>3. NodesFrom([c \in ListCells |-> s[c].prev], l) = Reverse(Q[l])
  <2>1. NodesFrom(PrevOf(s), l) = Reversed(Q)[l]
    BY <1>1, NodesFromRing
  <2> QED BY <1>1, <2>1 DEF PrevOf
<1>4. s[l].next = At(Q[l], l, 1)
  <2> DEFINE i == 0
  <2>1. i \in 0 .. Len(Q[l]) /\ At(Q[l], l, i) = l
    BY <1>1, SeqFacts, AtEnds
  <2>2. i + 1 = 1
    OBVIOUS
  <2> HIDE DEF i
  <2>3. s[At(Q[l], l, i)].next = At(Q[l], l, i + 1)
    BY <2>1, DllNeighbours
  <2> QED BY <2>1, <2>2, <2>3
<1>5. s[l].prev = At(Q[l], l, Len(Q[l]))
  <2> DEFINE i == Len(Q[l])
  <2>1. i \in 0 .. Len(Q[l]) /\ At(Q[l], l, i + 1) = l
    BY <1>1, SeqFacts, AtEnds
  <2> HIDE DEF i
  <2>2. s[At(Q[l], l, i + 1)].prev = At(Q[l], l, i)
    BY <2>1, DllNeighbours
  <2> QED BY <2>1, <2>2 DEF i
<1>6. l \notin Nodes
  BY ListsAssumption
<1>7. Q[l] # <<>> => /\ 1 \in 1 .. Len(Q[l]) /\ Len(Q[l]) \in 1 .. Len(Q[l])
                     /\ Q[l][1] \in Nodes
  <2> HAVE Q[l] # <<>>
  <2>1. Len(Q[l]) \in Nat /\ Len(Q[l]) # 0
    BY <1>1, SeqFacts, EmptySeq
  <2>2. 1 \in 1 .. Len(Q[l])
    BY <2>1
  <2> QED BY <1>1, <2>1, <2>2, SeqFacts
<1>8. Q[l] = <<>> => At(Q[l], l, 1) = l
  BY DEF At
<1>9. Q[l] # <<>> => At(Q[l], l, 1) = Q[l][1] /\ At(Q[l], l, Len(Q[l])) = Q[l][Len(Q[l])]
  BY <1>7 DEF At
<1>10. DLL_IsEmpty(s, l) <=> Q[l] = <<>>
  BY <1>4, <1>6, <1>7, <1>8, <1>9 DEF DLL_IsEmpty
<1> QED BY <1>2, <1>3, <1>4, <1>5, <1>9, <1>10 DEF DllAnswers, DLL_GetFront, DLL_GetBack

LEMMA DllPopFront ==
  ASSUME NEW s, NEW Q, DllRep(s, Q), NEW l \in Dummies, Q[l] # <<>>
  PROVE  DllRep(DLL_PopFront(s, l), Removed(Q, l, 1)) /\ 1 \in 1 .. Len(Q[l])
<1>1. NodeSeqs(Q)
  BY DEF DllRep
<1>2. Len(Q[l]) \in Nat /\ Len(Q[l]) # 0
  BY <1>1, SeqFacts, EmptySeq
<1>3. 1 \in 1 .. Len(Q[l])
  BY <1>2
<1>4. DLL_PopFront(s, l) = DLL_NodeUnlist(s, Q[l][1])
  <2>1. DLL_GetFront(s, l) = Q[l][1]
    <3>1. DllAnswers(s, Q, l)
      BY DllQueries
    <3> QED BY <3>1 DEF DllAnswers
  <2> QED BY <2>1 DEF DLL_PopFront
<1> QED BY <1>3, <1>4, DllRemove

LEMMA DllPopBack ==
  ASSUME NEW s, NEW Q, DllRep(s, Q), NEW l \in Dummies, Q[l] # <<>>
  PROVE  DllRep(DLL_PopBack(s, l), Removed(Q, l, Len(Q[l]))) /\ Len(Q[l]) \in 1 .. Len(Q[l])
<1>1. NodeSeqs(Q)
  BY DEF DllRep
<1>2. Len(Q[l]) \in Nat /\ Len(Q[l]) # 0
  BY <1>1, SeqFacts, EmptySeq
<1>3. Len(Q[l]) \in 1 .. Len(Q[l])
  BY <1>2
<1>4. DLL_PopBack(s, l) = DLL_NodeUnlist(s, Q[l][Len(Q[l])])
  <2>1. DLL_GetBack(s, l) = Q[l][Len(Q[l])]
    <3>1. DllAnswers(s, Q, l)
      BY DllQueries
    <3> QED BY <3>1 DEF DllAnswers
  <2> QED BY <2>1 DEF DLL_PopBack
<1> QED BY <1>3, <1>4, DllRemove

------------------------------------------------------------------------------
(* Sorted sequences.                                                       *)

\* In a sorted sequence the keys up to a place are those that are not greater.
SplitAt(q, n, k) == \A i \in 1 .. Len(q) : Key(q[i]) <= Key(n) <=> i <= k

LEMMA SortedPlaceSplits ==
  ASSUME NEW q \in Seq(Nodes), IsSortedSeq(q), NEW n \in Nodes
  PROVE  \E k \in 0 .. Len(q) : SortedPlace(q, n) = k + 1 /\ SplitAt(q, n, k)
<1> DEFINE T == {i \in 1 .. Len(q) : Key(q[i]) <= Key(n)}
           N == Len(q)
<1>1. N \in Nat /\ (\A i \in 1 .. N : Key(q[i]) \in Int) /\ Key(n) \in Int
  <2>1. \A i \in 1 .. N : q[i] \in Nodes
    OBVIOUS
  <2> QED BY <2>1, ListsAssumption
<1>2. SortedPlace(q, n) = Cardinality(T) + 1
  BY DEF SortedPlace
<1>3. CASE T = {}
  <2>1. Cardinality(T) = 0
    BY <1>3, FS_EmptySet
  <2>2. SplitAt(q, n, 0)
    BY <1>1, <1>3 DEF SplitAt
  <2>3. 0 \in 0 .. N /\ SortedPlace(q, n) = 0 + 1
    BY <1>1, <1>2, <2>1
  <2> QED BY <2>2, <2>3
<1>4. CASE T # {}
  <2>1. T \subseteq 0 .. N
    BY <1>1
  <2>2. PICK k \in T : \A j \in T : j <= k
    <3> HIDE DEF T, N
    <3> QED BY <1>1, <1>4, <2>1, GreatestNumber
  <2>3. k \in 1 .. N /\ k \in Nat /\ Key(q[k]) <= Key(n)
    BY <1>1
  <2>4. \A i \in 1 .. N : i <= k => i \in T
    <3> SUFFICES ASSUME NEW i \in 1 .. N, i < k PROVE Key(q[i]) <= Key(n)
      BY <1>1, <2>3
    <3>1. Key(q[i]) <= Key(q[k])
      BY <2>3 DEF IsSortedSeq
    <3> QED BY <1>1, <2>3, <3>1
  <2>5. T = 1 .. k
    BY <1>1, <2>2, <2>3, <2>4
  <2>6. Cardinality(T) = k
    <3> HIDE DEF T, N
    <3>1. k \in Int /\ 1 \in Int
      BY <2>3
    <3>2. Cardinality(1 .. k) = IF 1 > k THEN 0 ELSE k - 1 + 1
      BY <3>1, FS_Interval
    <3>3. Cardinality(T) = IF 1 > k THEN 0 ELSE k - 1 + 1
      BY <2>5, <3>2
    <3>4. k \in 1 .. N
      BY <2>3
    <3> QED BY <1>1, <3>1, <3>3, <3>4
  <2>7. SplitAt(q, n, k)
    BY <1>1, <2>2, <2>3, <2>4 DEF SplitAt
  <2>8. k \in 0 .. Len(q) /\ SortedPlace(q, n) = k + 1
    BY <1>1, <1>2, <2>3, <2>6
  <2> QED BY <2>7, <2>8
<1> QED BY <1>3, <1>4

\* So a node put there leaves it sorted.
LEMMA SortedPutSorted ==
  ASSUME NEW q \in Seq(Nodes), IsSortedSeq(q), NEW n \in Nodes
  PROVE  SortedPut(q, n) \in Seq(Nodes) /\ IsSortedSeq(SortedPut(q, n))
<1>1. PICK k \in 0 .. Len(q) : SortedPlace(q, n) = k + 1 /\ SplitAt(q, n, k)
  BY SortedPlaceSplits
<1> DEFINE p == SortedPut(q, n)
           h == k + 1
<1>2. h \in 1 .. Len(q) + 1 /\ k \in Int /\ Len(q) \in Nat /\ p = InsertAt(q, h, n)
  BY <1>1 DEF SortedPut
<1>3. \A i \in 1 .. Len(q) : q[i] \in Nodes
  OBVIOUS
<1> HIDE DEF p, h
<1>4. WithAt(Nodes, p, q, h, n)
  BY <1>2, InsertAtProperties
<1>5. ASSUME NEW i \in 1 .. Len(p), NEW j \in 1 .. Len(p), i < j
      PROVE  Key(p[i]) <= Key(p[j])
  <2>1. i \in 1 .. Len(q) + 1 /\ j \in 1 .. Len(q) + 1 /\ i \in Int /\ j \in Int
    BY <1>4 DEF WithAt
  <2>2. /\ p[i] = IF i < h THEN q[i] ELSE IF i = h THEN n ELSE q[i - 1]
        /\ p[j] = IF j < h THEN q[j] ELSE IF j = h THEN n ELSE q[j - 1]
    BY <1>4, <2>1 DEF WithAt
  <2>3. \A a, b \in 1 .. Len(q) : a < b => Key(q[a]) <= Key(q[b])
    BY DEF IsSortedSeq
  <2>4. \A a \in 1 .. Len(q) : (Key(q[a]) <= Key(n) <=> a <= k) /\ Key(q[a]) \in Int
    BY <1>1, <1>3, ListsAssumption DEF SplitAt
  <2>5. Key(n) \in Int /\ h = k + 1
    BY ListsAssumption DEF h
  <2>6. CASE j < h
    <3>1. i \in 1 .. Len(q) /\ j \in 1 .. Len(q) /\ p[i] = q[i] /\ p[j] = q[j]
      BY <1>2, <1>5, <2>1, <2>2, <2>6
    <3> QED BY <1>5, <2>3, <3>1
  <2>7. CASE j = h
    <3>1. i < h /\ i \in 1 .. Len(q) /\ i <= k
      BY <1>2, <1>5, <2>1, <2>5, <2>7
    <3> QED BY <1>2, <2>1, <2>2, <2>4, <2>7, <3>1
  <2>8. CASE j > h
    <3>1. j - 1 \in 1 .. Len(q) /\ p[j] = q[j - 1] /\ ~(j - 1 <= k)
      BY <1>2, <2>1, <2>2, <2>5, <2>8
    <3>2. ~(Key(q[j - 1]) <= Key(n)) /\ Key(q[j - 1]) \in Int
      BY <2>4, <3>1
    <3>3. CASE i < h
      <4>1. i \in 1 .. Len(q) /\ i < j - 1 /\ p[i] = q[i]
        BY <1>2, <2>1, <2>2, <2>8, <3>3
      <4> QED BY <2>3, <3>1, <4>1
    <3>4. CASE i = h
      <4>1. p[i] = n
        BY <1>2, <2>1, <2>2, <3>4
      <4> QED BY <2>5, <3>1, <3>2, <4>1
    <3>5. CASE i > h
      <4>1. i - 1 \in 1 .. Len(q) /\ i - 1 < j - 1 /\ p[i] = q[i - 1]
        BY <1>2, <1>5, <2>1, <2>2, <3>5
      <4> QED BY <2>3, <3>1, <4>1
    <3> QED BY <1>2, <2>1, <3>3, <3>4, <3>5
  <2> QED BY <1>2, <2>1, <2>6, <2>7, <2>8
<1>6. p \in Seq(Nodes) /\ IsSortedSeq(p)
  BY <1>4, <1>5 DEF WithAt, IsSortedSeq
<1> QED BY <1>6 DEF p

\* The sequences with a node put into l where its key belongs.
SortedIn(Q, l, n) == [Q EXCEPT ![l] = SortedPut(@, n)]

LEMMA SortedInInserted ==
  ASSUME NEW Q, NEW l, NEW n, NEW k \in Int, SortedPlace(Q[l], n) = k + 1
  PROVE  SortedIn(Q, l, n) = Inserted(Q, l, k, n)
BY DEF SortedIn, Inserted, SortedPut

\* From the front, the first greater node is right after the keys that are not
\* greater; from the back, the first node that is not greater is the last of them.
LEMMA DllSorted ==
  ASSUME NEW s, NEW Q, DllRep(s, Q), NEW l \in Dummies, IsSortedSeq(Q[l]),
         NEW n \in Nodes, InNone(Q, n)
  PROVE  /\ DllRep(DLL_SortedInsert(s, l, n), SortedIn(Q, l, n))
         /\ DllRep(DLL_SortedInsertFromBack(s, l, n), SortedIn(Q, l, n))
<1> DEFINE q == Q[l]
<1>1. q \in Seq(Nodes) /\ Len(q) \in Nat /\ (\A i \in 1 .. Len(q) : Key(q[i]) \in Int) /\ Key(n) \in Int
  BY SeqFacts, ListsAssumption DEF DllRep
<1>2. PICK k \in 0 .. Len(q) : SortedPlace(q, n) = k + 1 /\ SplitAt(q, n, k)
  BY <1>1, SortedPlaceSplits
<1>3. SortedIn(Q, l, n) = Inserted(Q, l, k, n)
  BY <1>1, <1>2, SortedInInserted
<1>4. DLL_Nodes(s, l) = q /\ NodesFrom([c \in ListCells |-> s[c].prev], l) = Reverse(q)
  <2>1. DllAnswers(s, Q, l)
    BY DllQueries
  <2> QED BY <2>1 DEF DllAnswers
<1>5. Reverse(NodesFrom([c \in ListCells |-> s[c].prev], l)) = q
  <2>1. NodesFrom([c \in ListCells |-> s[c].prev], l) = Reverse(q)
    BY <1>4
  <2> QED BY <1>1, <2>1, ReverseProperties
<1> HIDE DEF q
<1>6. DllRep(DLL_SortedInsert(s, l, n), Inserted(Q, l, k, n))
  <2> DEFINE greater == {i \in 1 .. Len(q) : Key(n) < Key(q[i])}
             least == CHOOSE i \in greater : \A j \in greater : i <= j
  <2>1. greater = {i \in 1 .. Len(q) : i > k}
    BY <1>1, <1>2 DEF SplitAt
  <2>2. DLL_SortedInsert(s, l, n) = IF greater = {} THEN DLL_PushBack(s, l, n)
                                    ELSE DLL_NodeInsertBefore(s, n, q[least])
    BY <1>4 DEF DLL_SortedInsert
  <2>3. CASE k = Len(q)
    <3>1. greater = {}
      BY <1>1, <2>1, <2>3
    <3>2. DllRep(DLL_PushBack(s, l, n), Inserted(Q, l, k, n))
      BY <2>3, DllPushBack DEF q
    <3> HIDE DEF greater, least
    <3> QED BY <2>2, <3>1, <3>2
  <2>4. CASE k # Len(q)
    <3>1. k + 1 \in greater /\ k + 1 <= Len(q) /\ \A j \in greater : k + 1 <= j
      <4> HIDE DEF greater
      <4> QED BY <1>1, <2>1, <2>4
    <3>2. least = k + 1
      <4>1. least \in greater /\ \A j \in greater : least <= j
        <5> HIDE DEF greater
        <5> QED BY <3>1
      <4>2. least \in Int
        BY <4>1
      <4> HIDE DEF greater, least
      <4> QED BY <1>1, <3>1, <4>1, <4>2
    <3>3. DllRep(DLL_NodeInsertBefore(s, n, q[k + 1]), Inserted(Q, l, k, n))
      BY <3>1, DllInsertBefore DEF q
    <3> HIDE DEF greater, least
    <3> QED BY <2>2, <3>1, <3>2, <3>3
  <2> QED BY <2>3, <2>4
<1>7. DllRep(DLL_SortedInsertFromBack(s, l, n), Inserted(Q, l, k, n))
  <2> DEFINE r == Reverse(NodesFrom([c \in ListCells |-> s[c].prev], l))
             notGreater == {i \in 1 .. Len(r) : Key(r[i]) <= Key(n)}
             greatest == CHOOSE i \in notGreater : \A j \in notGreater : j <= i
  <2>1. DLL_SortedInsertFromBack(s, l, n) = IF notGreater = {} THEN DLL_PushFront(s, l, n)
                                            ELSE DLL_NodeInsertAfter(s, n, r[greatest])
    BY DEF DLL_SortedInsertFromBack
  <2>2. r = q
    BY <1>5
  <2> HIDE DEF r
  <2>3. notGreater = {i \in 1 .. Len(q) : i <= k}
    BY <1>2, <2>2 DEF SplitAt
  <2>4. CASE k = 0
    <3>1. notGreater = {}
      BY <1>1, <2>3, <2>4
    <3>2. DllRep(DLL_PushFront(s, l, n), Inserted(Q, l, k, n))
      BY <2>4, DllPushFront
    <3> HIDE DEF notGreater, greatest
    <3> QED BY <2>1, <3>1, <3>2
  <2>5. CASE k # 0
    <3>1. k \in notGreater /\ k \in 1 .. Len(q) /\ \A j \in notGreater : j <= k
      <4> HIDE DEF notGreater
      <4> QED BY <1>1, <2>3, <2>5
    <3>2. greatest = k
      <4>1. greatest \in notGreater /\ \A j \in notGreater : j <= greatest
        <5> HIDE DEF notGreater
        <5> QED BY <3>1
      <4> HIDE DEF greatest, notGreater
      <4>2. greatest \in Int
        BY <2>3, <4>1
      <4> QED BY <1>1, <3>1, <4>1, <4>2
    <3>3. DllRep(DLL_NodeInsertAfter(s, n, q[k]), Inserted(Q, l, k, n))
      BY <3>1, DllInsertAfter DEF q
    <3> HIDE DEF notGreater, greatest
    <3> QED BY <2>1, <2>2, <3>1, <3>2, <3>3
  <2> QED BY <2>4, <2>5
<1> QED BY <1>3, <1>6, <1>7

------------------------------------------------------------------------------
(* The loops: what they build exists, and what holds before a round holds   *)
(* after it.                                                               *)

\* The sequence PutAll builds, round by round.
LEMMA PutAllBuilds ==
  ASSUME NEW q
  PROVE  \A N \in Nat : \E f : f = [k \in 0 .. N |-> IF k = 0 THEN <<>>
                                                ELSE SortedPut(f[k - 1], q[k])]
<1> DEFINE S == {N \in Nat : \E f : f = [k \in 0 .. N |-> IF k = 0 THEN <<>>
                                                       ELSE SortedPut(f[k - 1], q[k])]}
<1>1. 0 \in S
  <2> DEFINE f == [k \in 0 .. 0 |-> <<>>]
  <2>1. f = [k \in 0 .. 0 |-> IF k = 0 THEN <<>> ELSE SortedPut(f[k - 1], q[k])]
    OBVIOUS
  <2> HIDE DEF f
  <2> QED BY <2>1
<1>2. ASSUME NEW N \in Nat, N \in S PROVE N + 1 \in S
  <2>1. PICK f : f = [k \in 0 .. N |-> IF k = 0 THEN <<>> ELSE SortedPut(f[k - 1], q[k])]
    BY <1>2
  <2> DEFINE g == [k \in 0 .. N + 1 |-> IF k = N + 1 THEN SortedPut(f[N], q[(N + 1)]) ELSE f[k]]
  <2>2. ASSUME NEW k \in 0 .. N + 1
        PROVE  g[k] = IF k = 0 THEN <<>> ELSE SortedPut(g[k - 1], q[k])
    <3>1. CASE k = N + 1
      <4>1. k # 0 /\ k - 1 = N /\ N \in 0 .. N + 1 /\ N # N + 1
        BY <3>1
      <4>2. g[k - 1] = f[N] /\ g[k] = SortedPut(f[N], q[(N + 1)])
        BY <3>1, <4>1
      <4> HIDE DEF g
      <4> QED BY <3>1, <4>1, <4>2
    <3>2. CASE k # N + 1
      <4>1. k \in 0 .. N /\ g[k] = f[k]
        BY <3>2
      <4>2. f[k] = IF k = 0 THEN <<>> ELSE SortedPut(f[k - 1], q[k])
        BY <2>1, <4>1
      <4>3. k # 0 => g[k - 1] = f[k - 1]
        <5> HAVE k # 0
        <5>1. k - 1 \in 0 .. N + 1 /\ k - 1 # N + 1
          BY <4>1
        <5> QED BY <5>1
      <4> HIDE DEF g
      <4> QED BY <4>1, <4>2, <4>3
    <3> QED BY <3>1, <3>2
  <2>3. g = [k \in 0 .. N + 1 |-> g[k]]
    OBVIOUS
  <2> HIDE DEF g
  <2>4. g = [k \in 0 .. N + 1 |-> IF k = 0 THEN <<>> ELSE SortedPut(g[k - 1], q[k])]
    BY <2>2, <2>3, Zenon
  <2> QED BY <2>4
<1> HIDE DEF S
<1>3. \A N \in Nat : N \in S
  BY <1>1, <1>2, NumbersByInduction
<1> QED BY <1>3 DEF S

\* The cells DLL_PopAll goes through.
LEMMA DllPopAllBuilds ==
  ASSUME NEW s, NEW l
  PROVE  \A N \in Nat : \E f : f = [k \in 0 .. N |-> IF k = 0 THEN s
                                                ELSE DLL_PopFront(f[k - 1], l)]
<1> DEFINE S == {N \in Nat : \E f : f = [k \in 0 .. N |-> IF k = 0 THEN s
                                                       ELSE DLL_PopFront(f[k - 1], l)]}
<1>1. 0 \in S
  <2> DEFINE f == [k \in 0 .. 0 |-> s]
  <2>1. f = [k \in 0 .. 0 |-> IF k = 0 THEN s ELSE DLL_PopFront(f[k - 1], l)]
    OBVIOUS
  <2> HIDE DEF f
  <2> QED BY <2>1
<1>2. ASSUME NEW N \in Nat, N \in S PROVE N + 1 \in S
  <2>1. PICK f : f = [k \in 0 .. N |-> IF k = 0 THEN s ELSE DLL_PopFront(f[k - 1], l)]
    BY <1>2
  <2> DEFINE g == [k \in 0 .. N + 1 |-> IF k = N + 1 THEN DLL_PopFront(f[N], l) ELSE f[k]]
  <2>2. ASSUME NEW k \in 0 .. N + 1
        PROVE  g[k] = IF k = 0 THEN s ELSE DLL_PopFront(g[k - 1], l)
    <3>1. CASE k = N + 1
      <4>1. k # 0 /\ k - 1 = N /\ N \in 0 .. N + 1 /\ N # N + 1
        BY <3>1
      <4>2. g[k - 1] = f[N] /\ g[k] = DLL_PopFront(f[N], l)
        BY <3>1, <4>1
      <4> HIDE DEF g
      <4> QED BY <3>1, <4>1, <4>2
    <3>2. CASE k # N + 1
      <4>1. k \in 0 .. N /\ g[k] = f[k]
        BY <3>2
      <4>2. f[k] = IF k = 0 THEN s ELSE DLL_PopFront(f[k - 1], l)
        BY <2>1, <4>1
      <4>3. k # 0 => g[k - 1] = f[k - 1]
        <5> HAVE k # 0
        <5>1. k - 1 \in 0 .. N + 1 /\ k - 1 # N + 1
          BY <4>1
        <5> QED BY <5>1
      <4> HIDE DEF g
      <4> QED BY <4>1, <4>2, <4>3
    <3> QED BY <3>1, <3>2
  <2>3. g = [k \in 0 .. N + 1 |-> g[k]]
    OBVIOUS
  <2> HIDE DEF g
  <2>4. g = [k \in 0 .. N + 1 |-> IF k = 0 THEN s ELSE DLL_PopFront(g[k - 1], l)]
    BY <2>2, <2>3, Zenon
  <2> QED BY <2>4
<1> HIDE DEF S
<1>3. \A N \in Nat : N \in S
  BY <1>1, <1>2, NumbersByInduction
<1> QED BY <1>3 DEF S

\* The cells DLL_SortList goes through.
IsDllSort(f, N, t, l) ==
  f = [k \in 0 .. N |-> IF k = 0 THEN t
                        ELSE DLL_SortedInsert(DLL_PopBack(f[k - 1], TmpList), l, f[k - 1][TmpList].prev)]

LEMMA DllSortBuilds ==
  ASSUME NEW t, NEW l
  PROVE  \A N \in Nat : \E f : IsDllSort(f, N, t, l)
<1> DEFINE S == {N \in Nat : \E f : f = [k \in 0 .. N |-> IF k = 0 THEN t
                                                       ELSE DLL_SortedInsert(DLL_PopBack(f[k - 1], TmpList), l, f[k - 1][TmpList].prev)]}
<1>1. 0 \in S
  <2> DEFINE f == [k \in 0 .. 0 |-> t]
  <2>1. f = [k \in 0 .. 0 |-> IF k = 0 THEN t ELSE DLL_SortedInsert(DLL_PopBack(f[k - 1], TmpList), l, f[k - 1][TmpList].prev)]
    OBVIOUS
  <2> HIDE DEF f
  <2> QED BY <2>1
<1>2. ASSUME NEW N \in Nat, N \in S PROVE N + 1 \in S
  <2>1. PICK f : f = [k \in 0 .. N |-> IF k = 0 THEN t ELSE DLL_SortedInsert(DLL_PopBack(f[k - 1], TmpList), l, f[k - 1][TmpList].prev)]
    BY <1>2
  <2> DEFINE g == [k \in 0 .. N + 1 |-> IF k = N + 1 THEN DLL_SortedInsert(DLL_PopBack(f[N], TmpList), l, f[N][TmpList].prev) ELSE f[k]]
  <2>2. ASSUME NEW k \in 0 .. N + 1
        PROVE  g[k] = IF k = 0 THEN t ELSE DLL_SortedInsert(DLL_PopBack(g[k - 1], TmpList), l, g[k - 1][TmpList].prev)
    <3>1. CASE k = N + 1
      <4>1. k # 0 /\ k - 1 = N /\ N \in 0 .. N + 1 /\ N # N + 1
        BY <3>1
      <4>2. g[k - 1] = f[N] /\ g[k] = DLL_SortedInsert(DLL_PopBack(f[N], TmpList), l, f[N][TmpList].prev)
        BY <3>1, <4>1
      <4> HIDE DEF g
      <4> QED BY <3>1, <4>1, <4>2
    <3>2. CASE k # N + 1
      <4>1. k \in 0 .. N /\ g[k] = f[k]
        BY <3>2
      <4>2. f[k] = IF k = 0 THEN t ELSE DLL_SortedInsert(DLL_PopBack(f[k - 1], TmpList), l, f[k - 1][TmpList].prev)
        BY <2>1, <4>1
      <4>3. k # 0 => g[k - 1] = f[k - 1]
        <5> HAVE k # 0
        <5>1. k - 1 \in 0 .. N + 1 /\ k - 1 # N + 1
          BY <4>1
        <5> QED BY <5>1
      <4> HIDE DEF g
      <4> QED BY <4>1, <4>2, <4>3
    <3> QED BY <3>1, <3>2
  <2>3. g = [k \in 0 .. N + 1 |-> g[k]]
    OBVIOUS
  <2> HIDE DEF g
  <2>4. g = [k \in 0 .. N + 1 |-> IF k = 0 THEN t ELSE DLL_SortedInsert(DLL_PopBack(g[k - 1], TmpList), l, g[k - 1][TmpList].prev)]
    BY <2>2, <2>3, Zenon
  <2> QED BY <2>4
<1> HIDE DEF S
<1>3. \A N \in Nat : N \in S
  BY <1>1, <1>2, NumbersByInduction
<1> QED BY <1>3, Zenon DEF S, IsDllSort

\* The rounds of PutAll, each with a sorted sequence.
Rounds(q, put) ==
  /\ put[0] = <<>> /\ put[Len(q)] = PutAll(q)
  /\ \A k \in 1 .. Len(q) : put[k] = SortedPut(put[k - 1], q[k])
  /\ \A k \in 0 .. Len(q) : put[k] \in Seq(Nodes) /\ IsSortedSeq(put[k])

LEMMA PutAllRounds ==
  ASSUME NEW q \in Seq(Nodes)
  PROVE  \E put : Rounds(q, put)
<1> DEFINE N == Len(q)
           put[k \in 0 .. Len(q)] == IF k = 0 THEN <<>> ELSE SortedPut(put[k - 1], q[k])
           S == {k \in Nat : k <= N => put[k] \in Seq(Nodes) /\ IsSortedSeq(put[k])}
<1>1. N \in Nat /\ \A i \in 1 .. N : q[i] \in Nodes
  OBVIOUS
<1>2. PutAll(q) = put[Len(q)]
  BY DEF PutAll
<1>3. put = [k \in 0 .. Len(q) |-> IF k = 0 THEN <<>> ELSE SortedPut(put[k - 1], q[k])]
  BY <1>1, PutAllBuilds
<1> HIDE DEF put
<1>4. put[0] = <<>>
  BY <1>1, <1>3
<1>5. \A k \in 1 .. N : put[k] = SortedPut(put[k - 1], q[k])
  <2> TAKE k \in 1 .. N
  <2>1. k \in 0 .. Len(q) /\ k # 0
    BY <1>1
  <2> QED BY <1>3, <2>1
<1>6. 0 \in S
  <2>1. <<>> \in Seq(Nodes) /\ IsSortedSeq(<<>>)
    BY DEF IsSortedSeq
  <2>2. put[0] \in Seq(Nodes) /\ IsSortedSeq(put[0])
    BY <1>4, <2>1
  <2> QED BY <2>2
<1>7. ASSUME NEW k \in Nat, k \in S PROVE k + 1 \in S
  <2> SUFFICES ASSUME k + 1 <= N
               PROVE  put[k + 1] \in Seq(Nodes) /\ IsSortedSeq(put[k + 1])
    OBVIOUS
  <2>1. put[k] \in Seq(Nodes) /\ IsSortedSeq(put[k])
    BY <1>1, <1>7
  <2>2. k + 1 \in 1 .. N /\ k + 1 - 1 = k
    BY <1>1
  <2>3. put[k + 1] = SortedPut(put[k], q[k + 1])
    BY <1>5, <2>2
  <2>4. q[k + 1] \in Nodes
    BY <1>1, <2>2
  <2> QED BY <2>1, <2>3, <2>4, SortedPutSorted
<1> HIDE DEF S
<1>8. \A k \in Nat : k \in S
  BY <1>6, <1>7, NumbersByInduction
<1>9. \A k \in 0 .. N : put[k] \in Seq(Nodes) /\ IsSortedSeq(put[k])
  <2> TAKE k \in 0 .. N
  <2>1. k \in Nat /\ k <= N /\ k \in S
    BY <1>1, <1>8
  <2> QED BY <2>1 DEF S
<1>10. Rounds(q, put)
  BY <1>2, <1>4, <1>5, <1>9 DEF Rounds
<1> QED BY <1>10

Emptied(Q, l) == [Q EXCEPT ![l] = <<>>]

LEMMA DllPopAll ==
  ASSUME NEW s, NEW Q, DllRep(s, Q), NEW l \in Dummies
  PROVE  DllRep(DLL_PopAll(s, l), Emptied(Q, l))
<1> DEFINE N == DLL_Size(s, l)
           popped[k \in 0 .. DLL_Size(s, l)] == IF k = 0 THEN s ELSE DLL_PopFront(popped[k - 1], l)
           Left(k, P) == /\ DllRep(popped[k], P) /\ Len(P[l]) = N - k
                         /\ \A c \in Dummies \ {l} : P[c] = Q[c]
           S == {k \in Nat : k <= N => \E P : Left(k, P)}
<1>1. N = Len(Q[l]) /\ N \in Nat
  <2>1. DllAnswers(s, Q, l) /\ NodeSeqs(Q)
    BY DllQueries DEF DllRep
  <2> QED BY <2>1, SeqFacts DEF DllAnswers, DLL_Size
<1>2. DLL_PopAll(s, l) = popped[N]
  BY DEF DLL_PopAll
<1>3. popped = [k \in 0 .. N |-> IF k = 0 THEN s ELSE DLL_PopFront(popped[k - 1], l)]
  <2> HIDE DEF N
  <2>1. \E f : f = [k \in 0 .. N |-> IF k = 0 THEN s ELSE DLL_PopFront(f[k - 1], l)]
    BY <1>1, DllPopAllBuilds
  <2> QED BY <2>1 DEF N
<1> HIDE DEF popped, N
<1>4. 0 \in S
  <2>1. popped[0] = s
    BY <1>1, <1>3
  <2>2. Left(0, Q)
    BY <1>1, <2>1
  <2> HIDE DEF Left
  <2> QED BY <2>2
<1>5. ASSUME NEW k \in Nat, k \in S PROVE k + 1 \in S
  <2> SUFFICES ASSUME k + 1 <= N PROVE \E P : Left(k + 1, P)
    <3> HIDE DEF Left
    <3> QED OBVIOUS
  <2>1. k <= N /\ k \in 0 .. N /\ k + 1 \in 0 .. N /\ k + 1 # 0 /\ k + 1 - 1 = k
    BY <1>1
  <2>2. PICK P : Left(k, P)
    <3> HIDE DEF Left
    <3> QED BY <1>5, <2>1
  <2>3. popped[k + 1] = DLL_PopFront(popped[k], l)
    BY <1>3, <2>1
  <2>4. NodeSeqs(P) /\ Len(P[l]) = N - k
    BY <2>2 DEF DllRep
  <2>5. P[l] # <<>>
    <3>1. Len(P[l]) # 0
      BY <1>1, <2>1, <2>4
    <3> QED BY <3>1
  <2>6. DllRep(popped[k + 1], Removed(P, l, 1)) /\ 1 \in 1 .. Len(P[l])
    BY <2>2, <2>3, <2>5, DllPopFront
  <2>7. Len(Removed(P, l, 1)[l]) = N - (k + 1)
    <3>1. Len(Removed(P, l, 1)[l]) = Len(P[l]) - 1
      BY <2>4, <2>6, RemovedSeqs
    <3> HIDE DEF Left
    <3> QED BY <1>1, <2>4, <3>1
  <2>8. \A c \in Dummies \ {l} : Removed(P, l, 1)[c] = Q[c]
    BY <2>2, <2>4 DEF Removed, NodeSeqs
  <2>9. Left(k + 1, Removed(P, l, 1))
    BY <2>6, <2>7, <2>8
  <2> HIDE DEF Left
  <2> QED BY <2>9
<1>6. N \in S
  <2> HIDE DEF S
  <2> QED BY <1>1, <1>4, <1>5, NumbersByInduction
<1>7. PICK P : Left(N, P)
  <2> HIDE DEF Left
  <2> QED BY <1>1, <1>6
<1>8. P = Emptied(Q, l)
  <2>1. NodeSeqs(P) /\ NodeSeqs(Q) /\ Len(P[l]) = 0
    BY <1>1, <1>7 DEF DllRep
  <2>2. P[l] = <<>>
    BY <2>1, SeqFacts, EmptySeq
  <2> QED BY <1>7, <2>1, <2>2 DEF Emptied, NodeSeqs
<1> QED BY <1>2, <1>7, <1>8

SortedAll(Q, l) == [Q EXCEPT ![l] = PutAll(Reverse(@))]
SortedAllFront(Q, l) == [Q EXCEPT ![l] = PutAll(@)]

LEMMA DllSortAll ==
  ASSUME NEW s, NEW Q, DllRep(s, Q), NEW l \in Lists, Q[TmpList] = <<>>
  PROVE  DllRep(DLL_SortList(s, l), SortedAll(Q, l))
<1> DEFINE M == Len(DLL_Nodes(s, l))
           N == Len(Q[l])
           T == TmpList
           q == Q[l]
           r == Reverse(q)
           t == DLL_AppendListToBack(s, TmpList, l)
           sorted[k \in 0 .. Len(DLL_Nodes(s, l))] ==
             IF k = 0 THEN t
             ELSE LET u == sorted[k - 1]
                  IN DLL_SortedInsert(DLL_PopBack(u, TmpList), l, u[TmpList].prev)
<1>1. /\ l \in Dummies /\ T \in Dummies /\ l # T
      /\ NodeSeqs(Q) /\ Q \in [Dummies -> Seq(Nodes)] /\ q \in Seq(Nodes) /\ N \in Nat
  <2>1. NodeSeqs(Q) /\ l \in Dummies
    BY DEF DllRep, Dummies
  <2>2. q \in Seq(Nodes) /\ N \in Nat
    BY <2>1, SeqFacts
  <2> QED BY <2>1, <2>2, ListsAssumption DEF Dummies, NodeSeqs
<1>2. M = N
  <2>1. DllAnswers(s, Q, l)
    BY <1>1, DllQueries
  <2> QED BY <2>1 DEF DllAnswers
<1>3. DLL_SortList(s, l) = sorted[M]
  BY Zenon DEF DLL_SortList
<1>4. sorted = [k \in 0 .. M |-> IF k = 0 THEN t
                ELSE DLL_SortedInsert(DLL_PopBack(sorted[k - 1], TmpList), l, sorted[k - 1][TmpList].prev)]
  <2> HIDE DEF t, M
  <2>1. M \in Nat
    BY <1>1, <1>2
  <2>2. \E f : IsDllSort(f, M, t, l)
    BY <2>1, DllSortBuilds
  <2> QED BY <2>2, Zenon DEF M, IsDllSort
<1>5. /\ r \in Seq(Nodes) /\ Len(r) = N
      /\ \A i \in 1 .. N : r[i] = q[N - i + 1]
  BY <1>1, ReverseProperties
<1>6. PICK put : Rounds(r, put)
  <2> HIDE DEF r
  <2> QED BY <1>5, PutAllRounds
<1>7. DllRep(t, Appended(Q, T, l))
  BY <1>1, DllAppend
<1> DEFINE Left(k, P) == /\ DllRep(sorted[k], P) /\ Len(P[T]) = N - k
                         /\ \A i \in 1 .. N - k : P[T][i] = q[i]
                         /\ P[l] = put[k]
                         /\ \A c \in Dummies \ {l, T} : P[c] = Q[c]
           S == {k \in Nat : k <= N => \E P : Left(k, P)}
<1> HIDE DEF sorted, M, t, r
<1>8. 0 \in S
  <2> DEFINE P == Appended(Q, T, l)
  <2>1. sorted[0] = t
    BY <1>1, <1>2, <1>4
  <2>2. P[T] = Q[T] \o q /\ P[l] = <<>> /\ \A c \in Dummies \ {l, T} : P[c] = Q[c]
    BY <1>1 DEF Appended
  <2>3. P[T] = q
    BY <1>1, <2>2
  <2>4. Left(0, P)
    <3> HIDE DEF P
    <3> QED BY <1>1, <1>6, <1>7, <2>1, <2>2, <2>3 DEF Rounds, P
  <2> HIDE DEF Left
  <2> QED BY <2>4
<1>9. ASSUME NEW k \in Nat, k \in S PROVE k + 1 \in S
  <2> SUFFICES ASSUME k + 1 <= N PROVE \E P : Left(k + 1, P)
    <3> HIDE DEF Left
    <3> QED OBVIOUS
  <2>1. /\ k <= N /\ k \in 0 .. M /\ k + 1 \in 0 .. M /\ k + 1 # 0 /\ k + 1 - 1 = k
        /\ k + 1 \in 1 .. N /\ N - k \in 1 .. N - k /\ N - (k + 1) + 1 = N - k /\ k \in 0 .. N
        /\ N - k \in Nat /\ N - k # 0
    BY <1>1, <1>2
  <2>2. PICK P : Left(k, P)
    <3> HIDE DEF Left
    <3> QED BY <1>9, <2>1
  <2> DEFINE u == sorted[k]
             n == q[N - k]
             v == DLL_PopBack(u, TmpList)
             P1 == Removed(P, T, Len(P[T]))
  <2>3. sorted[k + 1] = DLL_SortedInsert(v, l, u[TmpList].prev)
    BY <1>4, <2>1
  <2>4. NodeSeqs(P) /\ Len(P[T]) = N - k /\ DllRep(u, P) /\ P[T][N - k] = n
    BY <2>1, <2>2 DEF DllRep
  <2>5. P[T] # <<>>
    <3>1. Len(P[T]) # 0
      BY <2>1, <2>4
    <3> QED BY <3>1
  <2>6. DllRep(v, P1) /\ Len(P[T]) \in 1 .. Len(P[T])
    BY <1>1, <2>4, <2>5, DllPopBack
  <2>7. u[TmpList].prev = n
    <3>1. DllAnswers(u, P, T)
      BY <1>1, <2>4, DllQueries
    <3>2. u[T].prev = At(P[T], T, Len(P[T]))
      BY <3>1 DEF DllAnswers
    <3> QED BY <2>4, <2>6, <3>2 DEF At
  <2>8. n \in Nodes /\ n = r[k + 1]
    <3>1. N - (k + 1) + 1 = N - k /\ N - k \in 1 .. N
      BY <1>1, <2>1
    <3>2. r[k + 1] = q[N - (k + 1) + 1]
      BY <1>5, <2>1
    <3> QED BY <1>1, <3>1, <3>2
  <2>9. NodeSeqs(P1) /\ InNone(P1, n) /\ Len(P1[T]) = N - k - 1
    BY <1>1, <2>4, <2>6, RemovedSeqs
  <2>10. P1[l] = put[k] /\ \A c \in Dummies \ {l, T} : P1[c] = Q[c]
    BY <1>1, <2>2, <2>4 DEF Removed, NodeSeqs
  <2>11. \A i \in 1 .. N - (k + 1) : P1[T][i] = q[i]
    <3> DEFINE x == P[T]
               y == P1[T]
               a == N - k
    <3>1. y = RemoveAt(x, a) /\ x \in Seq(Nodes) /\ a \in 1 .. Len(x) /\ Len(x) = a
      BY <1>1, <2>4, <2>6 DEF Removed, NodeSeqs
    <3>2. \A i \in 1 .. a : x[i] = q[i]
      BY <2>2
    <3>3. a \in Nat /\ N - (k + 1) = a - 1
      BY <1>1, <2>1
    <3> HIDE DEF x, y, a
    <3>4. WithoutAt(Nodes, y, x, a)
      BY <3>1, RemoveAtProperties
    <3>5. \A i \in 1 .. a - 1 : y[i] = q[i]
      BY <3>1, <3>2, <3>3, <3>4 DEF WithoutAt
    <3> QED BY <3>3, <3>5 DEF y
  <2>12. IsSortedSeq(put[k])
    BY <1>5, <1>6, <2>1 DEF Rounds
  <2>13. DllRep(sorted[k + 1], SortedIn(P1, l, n))
    <3> HIDE DEF P1, v, u, n, Left
    <3>1. DllRep(DLL_SortedInsert(v, l, n), SortedIn(P1, l, n))
      BY <1>1, <2>6, <2>8, <2>9, <2>10, <2>12, DllSorted
    <3> QED BY <2>3, <2>7, <3>1
  <2>14. SortedIn(P1, l, n)[l] = put[k + 1]
    <3>1. put[k + 1] = SortedPut(put[k + 1 - 1], r[k + 1])
      BY <1>5, <1>6, <2>1 DEF Rounds
    <3> HIDE DEF P1, n, Left
    <3>2. SortedIn(P1, l, n)[l] = SortedPut(P1[l], n)
      BY <1>1, <2>9 DEF SortedIn, NodeSeqs
    <3> QED BY <2>1, <2>8, <2>10, <3>1, <3>2
  <2>15. \A c \in Dummies \ {l} : SortedIn(P1, l, n)[c] = P1[c]
    <3> HIDE DEF P1, n, Left
    <3> QED BY <2>9 DEF SortedIn, NodeSeqs
  <2> DEFINE P2 == SortedIn(P1, l, n)
  <2> HIDE DEF P2, P1
  <2>16. Len(P2[T]) = N - (k + 1) /\ \A i \in 1 .. N - (k + 1) : P2[T][i] = q[i]
    <3>1. P2[T] = P1[T]
      BY <1>1, <2>15 DEF P2
    <3>2. N - k - 1 = N - (k + 1)
      BY <1>1
    <3> QED BY <2>9, <2>11, <3>1, <3>2
  <2>17. \A c \in Dummies \ {l, T} : P2[c] = Q[c]
    BY <2>10, <2>15 DEF P2
  <2>18. Left(k + 1, P2)
    BY <2>13, <2>14, <2>16, <2>17 DEF P2
  <2> HIDE DEF Left
  <2> QED BY <2>18
<1>10. N \in S
  <2> HIDE DEF S
  <2> QED BY <1>1, <1>8, <1>9, NumbersByInduction
<1>11. PICK P : Left(N, P)
  <2> HIDE DEF Left
  <2> QED BY <1>1, <1>10
<1>12. P = SortedAll(Q, l)
  <2>1. NodeSeqs(P) /\ Len(P[T]) = 0 /\ P[l] = put[N] /\ \A c \in Dummies \ {l, T} : P[c] = Q[c]
    BY <1>1, <1>11 DEF DllRep
  <2>2. P[T] = Q[T]
    BY <1>1, <2>1, SeqFacts, EmptySeq
  <2>3. P[l] = PutAll(Reverse(Q[l]))
    BY <1>5, <1>6, <2>1 DEF Rounds, r
  <2> DEFINE P2 == SortedAll(Q, l)
  <2>4. P2 = [c \in Dummies |-> IF c = l THEN PutAll(Reverse(Q[l])) ELSE Q[c]]
    BY <1>1 DEF SortedAll
  <2>5. P = [c \in Dummies |-> P[c]]
    BY <2>1 DEF NodeSeqs
  <2> HIDE DEF P2
  <2> QED BY <1>1, <2>1, <2>2, <2>3, <2>4, <2>5 DEF P2
<1> QED BY <1>2, <1>3, <1>11, <1>12

------------------------------------------------------------------------------
(* Singly linked cells that hold sequences.                                *)

SllStates == [next : [ListCells -> ListCells \cup {Null}], last : [Dummies -> ListCells]]

\* The cells are the rings of the sequences, and pLast is the last cell.
SllRep(s, Q) ==
  /\ s \in SllStates /\ NodeSeqs(Q) /\ Ring(s.next, Q)
  /\ \A l \in Dummies : s.last[l] = At(Q[l], l, Len(Q[l]))

LEMMA SllNeighbours ==
  ASSUME NEW s, NEW Q, SllRep(s, Q), NEW l \in Dummies, NEW i \in 0 .. Len(Q[l])
  PROVE  /\ s.next[At(Q[l], l, i)] = At(Q[l], l, i + 1)
         /\ At(Q[l], l, i) \in ListCells /\ At(Q[l], l, i + 1) \in ListCells
<1>1. NodeSeqs(Q) /\ Ring(s.next, Q)
  BY DEF SllRep
<1>2. s.next[At(Q[l], l, i)] = At(Q[l], l, i + 1)
  BY <1>1 DEF Ring
<1>3. i \in Int /\ i + 1 \in Int
  BY <1>1, SeqFacts
<1> QED BY <1>1, <1>2, <1>3, AtEnds

LEMMA SllInsert ==
  ASSUME NEW s, NEW Q, SllRep(s, Q), NEW l \in Dummies, NEW k \in 0 .. Len(Q[l]),
         NEW n \in Nodes, InNone(Q, n), NEW t \in SllStates,
         t.next[At(Q[l], l, k)] = n, t.next[n] = At(Q[l], l, k + 1),
         \A c \in ListCells : c # n /\ c # At(Q[l], l, k) => t.next[c] = s.next[c],
         t.last[l] = IF k = Len(Q[l]) THEN n ELSE s.last[l],
         \A m \in Dummies : m # l => t.last[m] = s.last[m]
  PROVE  SllRep(t, Inserted(Q, l, k, n))
<1> DEFINE P == Inserted(Q, l, k, n)
           a == Len(Q[l])
<1>1. NodeSeqs(Q) /\ Ring(s.next, Q) /\ a \in Nat
  BY SeqFacts DEF SllRep
<1>2. /\ NodeSeqs(P) /\ Len(P[l]) = a + 1
      /\ \A i \in 0 .. a + 2 :
           At(P[l], l, i) = IF i <= k THEN At(Q[l], l, i) ELSE IF i = k + 1 THEN n ELSE At(Q[l], l, i - 1)
  BY <1>1, InsertedSeqs
<1>3. Ring(t.next, P)
  <2> DEFINE f == s.next
             g == t.next
  <2>1. Ring(f, Q) /\ g[At(Q[l], l, k)] = n /\ g[n] = At(Q[l], l, k + 1)
    BY <1>1
  <2>2. \A c \in ListCells : c # n /\ c # At(Q[l], l, k) => g[c] = f[c]
    OBVIOUS
  <2> HIDE DEF f, g
  <2>3. Ring(g, Inserted(Q, l, k, n))
    BY <1>1, <2>1, <2>2, RingInsert
  <2> QED BY <2>3 DEF g
<1>4. t.last[l] = At(P[l], l, Len(P[l]))
  <2>1. At(P[l], l, a + 1) = IF k = a THEN n ELSE At(Q[l], l, a)
    <3> HIDE DEF P, a
    <3> DEFINE j == a + 1
    <3>1. j \in 0 .. a + 2 /\ j - 1 = a /\ ~(j <= k) /\ (j = k + 1 <=> k = a)
      <4> USE DEF a
      <4> QED BY <1>1
    <3> HIDE DEF j
    <3>2. At(P[l], l, j) = IF k = a THEN n ELSE At(Q[l], l, a)
      BY <1>2, <3>1
    <3> QED BY <3>2 DEF j
  <2>2. s.last[l] = At(Q[l], l, a)
    BY DEF SllRep
  <2> QED BY <1>2, <2>1, <2>2
<1>5. \A m \in Dummies : m # l => t.last[m] = At(P[m], m, Len(P[m]))
  <2> TAKE m \in Dummies
  <2> HAVE m # l
  <2>1. P[m] = Q[m]
    BY <1>1 DEF Inserted, NodeSeqs
  <2> QED BY <2>1 DEF SllRep
<1> HIDE DEF P
<1>6. SllRep(t, P)
  BY <1>2, <1>3, <1>4, <1>5 DEF SllRep
<1> QED BY <1>6 DEF P

LEMMA SllRemove ==
  ASSUME NEW s, NEW Q, SllRep(s, Q), NEW l \in Dummies, NEW k \in 1 .. Len(Q[l]),
         NEW t \in SllStates, t.next[At(Q[l], l, k - 1)] = At(Q[l], l, k + 1),
         \A c \in ListCells : c # Q[l][k] /\ c # At(Q[l], l, k - 1) => t.next[c] = s.next[c],
         t.last[l] = IF k = Len(Q[l]) THEN At(Q[l], l, k - 1) ELSE s.last[l],
         \A m \in Dummies : m # l => t.last[m] = s.last[m]
  PROVE  SllRep(t, Removed(Q, l, k))
<1> DEFINE P == Removed(Q, l, k)
           a == Len(Q[l])
<1>1. NodeSeqs(Q) /\ Ring(s.next, Q) /\ a \in Nat
  BY SeqFacts DEF SllRep
<1>2. /\ NodeSeqs(P) /\ Len(P[l]) = a - 1
      /\ \A i \in 0 .. a : At(P[l], l, i) = IF i < k THEN At(Q[l], l, i) ELSE At(Q[l], l, i + 1)
  BY <1>1, RemovedSeqs
<1>3. Ring(t.next, P)
  <2> DEFINE f == s.next
             g == t.next
  <2>1. Ring(f, Q) /\ g[At(Q[l], l, k - 1)] = At(Q[l], l, k + 1)
    BY <1>1
  <2>2. \A c \in ListCells : c # Q[l][k] /\ c # At(Q[l], l, k - 1) => g[c] = f[c]
    OBVIOUS
  <2> HIDE DEF f, g
  <2>3. Ring(g, Removed(Q, l, k))
    BY <1>1, <2>1, <2>2, RingRemove
  <2> QED BY <2>3 DEF g
<1>4. t.last[l] = At(P[l], l, Len(P[l]))
  <2>1. At(P[l], l, a - 1) = IF k = a THEN At(Q[l], l, k - 1) ELSE At(Q[l], l, a)
    <3>1. a - 1 \in 0 .. a /\ (a - 1 < k <=> k = a) /\ a - 1 + 1 = a
      BY <1>1
    <3> HIDE DEF P, a
    <3> QED BY <1>2, <3>1
  <2>2. s.last[l] = At(Q[l], l, a)
    BY DEF SllRep
  <2> QED BY <1>2, <2>1, <2>2
<1>5. \A m \in Dummies : m # l => t.last[m] = At(P[m], m, Len(P[m]))
  <2> TAKE m \in Dummies
  <2> HAVE m # l
  <2>1. P[m] = Q[m]
    BY <1>1 DEF Removed, NodeSeqs
  <2> QED BY <2>1 DEF SllRep
<1> HIDE DEF P
<1>6. SllRep(t, P)
  BY <1>2, <1>3, <1>4, <1>5 DEF SllRep
<1> QED BY <1>6 DEF P

\* In t, n is between a, the k-th of size, and b.
PutBetween(t, s, l, k, size, n, a, b) ==
  /\ \/ t.next = [s.next EXCEPT ![a] = n, ![n] = b]
     \/ t.next = [s.next EXCEPT ![n] = b, ![a] = n]
  /\ t.last = [s.last EXCEPT ![l] = IF k = size THEN n ELSE @]
  /\ t = [next |-> t.next, last |-> t.last]

LEMMA SllFresh ==
  ASSUME NEW s, NEW Q, SllRep(s, Q), NEW l \in Dummies, NEW k \in 0 .. Len(Q[l]),
         NEW n \in Nodes, InNone(Q, n), NEW t, NEW a, NEW b,
         a = At(Q[l], l, k), b = At(Q[l], l, k + 1),
         PutBetween(t, s, l, k, Len(Q[l]), n, a, b)
  PROVE  SllRep(t, Inserted(Q, l, k, n))
<1>1. NodeSeqs(Q) /\ s \in SllStates /\ n \in ListCells /\ k \in Int /\ k + 1 \in Int
  BY SeqFacts DEF SllRep, ListCells
<1>2. a \in ListCells /\ b \in ListCells
  BY SllNeighbours
<1>3. a # n /\ b # n
  BY <1>1, AtListed
<1>4. s.next \in [ListCells -> ListCells \cup {Null}] /\ s.last \in [Dummies -> ListCells]
  BY <1>1 DEF SllStates
<1>5. /\ t.next \in [ListCells -> ListCells \cup {Null}] /\ t.next[a] = n /\ t.next[n] = b
      /\ \A c \in ListCells : c # n /\ c # a => t.next[c] = s.next[c]
  BY <1>1, <1>2, <1>3, <1>4 DEF PutBetween
<1>6. /\ t.last \in [Dummies -> ListCells]
      /\ t.last[l] = IF k = Len(Q[l]) THEN n ELSE s.last[l]
      /\ \A m \in Dummies : m # l => t.last[m] = s.last[m]
  BY <1>1, <1>4 DEF PutBetween
<1>7. t \in SllStates
  BY <1>5, <1>6 DEF SllStates, PutBetween
<1> QED BY <1>5, <1>6, <1>7, SllInsert

SllAnswers(s, Q, l) ==
  /\ SLL_Nodes(s, l) = Q[l]
  /\ SLL_IsEmpty(s, l) <=> Q[l] = <<>>
  /\ s.next[l] = At(Q[l], l, 1) /\ s.last[l] = At(Q[l], l, Len(Q[l]))
  /\ Q[l] # <<>> => /\ SLL_GetFront(s, l) = Q[l][1]
                    /\ SLL_GetBack(s, l) = Q[l][Len(Q[l])]
  /\ Q[l] = <<>> => SLL_GetFront(s, l) = Null /\ SLL_GetBack(s, l) = Null

LEMMA SllQueries ==
  ASSUME NEW s, NEW Q, SllRep(s, Q), NEW l \in Dummies
  PROVE  SllAnswers(s, Q, l)
<1>1. NodeSeqs(Q) /\ Ring(s.next, Q) /\ s.last[l] = At(Q[l], l, Len(Q[l]))
  BY DEF SllRep
<1>2. SLL_Nodes(s, l) = Q[l]
  <2>1. NodesFrom(s.next, l) = Q[l]
    <3> DEFINE f == s.next
    <3>1. Ring(f, Q)
      BY <1>1
    <3> HIDE DEF f
    <3>2. NodesFrom(f, l) = Q[l]
      BY <1>1, <3>1, NodesFromRing
    <3> QED BY <3>2 DEF f
  <2> QED BY <2>1 DEF SLL_Nodes
<1>3. s.next[l] = At(Q[l], l, 1)
  <2> DEFINE i == 0
  <2>1. i \in 0 .. Len(Q[l]) /\ At(Q[l], l, i) = l
    BY <1>1, SeqFacts, AtEnds
  <2>2. i + 1 = 1
    OBVIOUS
  <2> HIDE DEF i
  <2>3. s.next[At(Q[l], l, i)] = At(Q[l], l, i + 1)
    BY <2>1, SllNeighbours
  <2> QED BY <2>1, <2>2, <2>3
<1>4. l \notin Nodes
  BY ListsAssumption
<1>5. Q[l] # <<>> => /\ 1 \in 1 .. Len(Q[l]) /\ Len(Q[l]) \in 1 .. Len(Q[l])
                     /\ Q[l][1] \in Nodes
  <2> HAVE Q[l] # <<>>
  <2>1. Len(Q[l]) \in Nat /\ Len(Q[l]) # 0
    BY <1>1, SeqFacts, EmptySeq
  <2>2. 1 \in 1 .. Len(Q[l])
    BY <2>1
  <2> QED BY <1>1, <2>1, <2>2, SeqFacts
<1>6. Q[l] = <<>> => At(Q[l], l, 1) = l
  BY DEF At
<1>7. Q[l] # <<>> => At(Q[l], l, 1) = Q[l][1] /\ At(Q[l], l, Len(Q[l])) = Q[l][Len(Q[l])]
  BY <1>5 DEF At
<1>8. SLL_IsEmpty(s, l) <=> Q[l] = <<>>
  BY <1>3, <1>4, <1>5, <1>6, <1>7 DEF SLL_IsEmpty
<1> QED BY <1>1, <1>2, <1>3, <1>7, <1>8 DEF SllAnswers, SLL_GetFront, SLL_GetBack

LEMMA SllPushBack ==
  ASSUME NEW s, NEW Q, SllRep(s, Q), NEW l \in Dummies, NEW n \in Nodes, InNone(Q, n)
  PROVE  SllRep(SLL_PushBack(s, l, n), Inserted(Q, l, Len(Q[l]), n))
<1> DEFINE k == Len(Q[l])
           t == SLL_PushBack(s, l, n)
<1>1. k \in 0 .. Len(Q[l]) /\ At(Q[l], l, k + 1) = l /\ k = Len(Q[l])
  BY SeqFacts, AtEnds DEF SllRep
<1> HIDE DEF k
<1>2. s.last[l] = At(Q[l], l, k)
  BY <1>1 DEF SllRep
<1>3. PutBetween(t, s, l, k, Len(Q[l]), n, At(Q[l], l, k), At(Q[l], l, k + 1))
  BY <1>1, <1>2 DEF SLL_PushBack, PutBetween
<1> HIDE DEF t
<1>4. SllRep(t, Inserted(Q, l, k, n))
  BY <1>1, <1>3, SllFresh
<1> QED BY <1>4 DEF k, t

LEMMA SllPushFront ==
  ASSUME NEW s, NEW Q, SllRep(s, Q), NEW l \in Dummies, NEW n \in Nodes, InNone(Q, n)
  PROVE  SllRep(SLL_PushFront(s, l, n), Inserted(Q, l, 0, n))
<1> DEFINE k == 0
           t == SLL_PushFront(s, l, n)
           b == At(Q[l], l, k + 1)
<1>1. k \in 0 .. Len(Q[l]) /\ At(Q[l], l, k) = l /\ Len(Q[l]) \in Nat /\ NodeSeqs(Q)
  BY SeqFacts, AtEnds DEF SllRep
<1>2. s.last[l] = l <=> k = Len(Q[l])
  <2>1. s.last[l] = At(Q[l], l, Len(Q[l]))
    BY DEF SllRep
  <2>2. CASE Len(Q[l]) = 0
    BY <2>1, <2>2 DEF At
  <2>3. CASE Len(Q[l]) # 0
    <3>1. Len(Q[l]) \in 1 .. Len(Q[l])
      BY <1>1, <2>3
    <3>2. At(Q[l], l, Len(Q[l])) \in Nodes
      BY <1>1, <3>1, SeqFacts DEF At
    <3>3. l \notin Nodes
      BY ListsAssumption
    <3> QED BY <2>1, <2>3, <3>2, <3>3
  <2> QED BY <2>2, <2>3
<1> HIDE DEF k, b
<1>3. s.next[l] = b
  BY <1>1, SllNeighbours DEF b
<1>4. PutBetween(t, s, l, k, Len(Q[l]), n, At(Q[l], l, k), At(Q[l], l, k + 1))
  BY <1>1, <1>2, <1>3 DEF SLL_PushFront, PutBetween, b
<1> HIDE DEF t
<1>5. SllRep(t, Inserted(Q, l, k, n))
  BY <1>1, <1>4, SllFresh
<1> QED BY <1>5 DEF k, t

\* Put between two neighbours that are not the last node and the dummy.
LEMMA SllBetween ==
  ASSUME NEW s, NEW Q, SllRep(s, Q), NEW l \in Dummies, NEW k \in 0 .. Len(Q[l]), k # Len(Q[l]),
         NEW n \in Nodes, InNone(Q, n), NEW a, a = At(Q[l], l, k)
  PROVE  SllRep([s EXCEPT !.next = [@ EXCEPT ![n] = s.next[a], ![a] = n]], Inserted(Q, l, k, n))
<1> DEFINE t == [s EXCEPT !.next = [@ EXCEPT ![n] = s.next[a], ![a] = n]]
           b == At(Q[l], l, k + 1)
<1>1. s.next[a] = b /\ s \in SllStates
  BY SllNeighbours DEF SllRep
<1>2. t.next = [s.next EXCEPT ![n] = b, ![a] = n]
  BY <1>1 DEF SllStates
<1>3. t.last = [s.last EXCEPT ![l] = IF k = Len(Q[l]) THEN n ELSE @]
  BY <1>1 DEF SllStates
<1>4. t = [next |-> t.next, last |-> t.last]
  BY <1>1 DEF SllStates
<1>5. PutBetween(t, s, l, k, Len(Q[l]), n, At(Q[l], l, k), At(Q[l], l, k + 1))
  <2> HIDE DEF t
  <2> QED BY <1>2, <1>3, <1>4 DEF PutBetween, b
<1> HIDE DEF t
<1>6. SllRep(t, Inserted(Q, l, k, n))
  BY <1>5, SllFresh
<1> QED BY <1>6 DEF t

LEMMA SllSorted ==
  ASSUME NEW s, NEW Q, SllRep(s, Q), NEW l \in Dummies, IsSortedSeq(Q[l]),
         NEW n \in Nodes, InNone(Q, n)
  PROVE  SllRep(SLL_SortedInsert(s, l, n), SortedIn(Q, l, n))
<1> DEFINE q == Q[l]
<1>1. q \in Seq(Nodes) /\ Len(q) \in Nat /\ (\A i \in 1 .. Len(q) : Key(q[i]) \in Int) /\ Key(n) \in Int
  BY SeqFacts, ListsAssumption DEF SllRep
<1>2. PICK k \in 0 .. Len(q) : SortedPlace(q, n) = k + 1 /\ SplitAt(q, n, k)
  BY <1>1, SortedPlaceSplits
<1>3. SortedIn(Q, l, n) = Inserted(Q, l, k, n)
  BY <1>1, <1>2, SortedInInserted
<1>4. SLL_Nodes(s, l) = q
  <2>1. SllAnswers(s, Q, l)
    BY SllQueries
  <2> QED BY <2>1 DEF SllAnswers
<1> HIDE DEF q
<1> DEFINE greater == {i \in 1 .. Len(q) : Key(n) < Key(q[i])}
           first == CHOOSE i \in greater : \A j \in greater : i <= j
           before == IF first = 1 THEN l ELSE q[first - 1]
<1>5. greater = {i \in 1 .. Len(q) : i > k}
  BY <1>1, <1>2 DEF SplitAt
<1>6. SLL_SortedInsert(s, l, n) =
        IF greater = {} THEN SLL_PushBack(s, l, n)
        ELSE [s EXCEPT !.next = [@ EXCEPT ![n] = s.next[before], ![before] = n]]
  BY <1>4 DEF SLL_SortedInsert
<1>7. CASE k = Len(q)
  <2>1. greater = {}
    BY <1>1, <1>5, <1>7
  <2>2. SllRep(SLL_PushBack(s, l, n), Inserted(Q, l, k, n))
    BY <1>7, SllPushBack DEF q
  <2> HIDE DEF greater, before
  <2> QED BY <1>3, <1>6, <2>1, <2>2
<1>8. CASE k # Len(q)
  <2>1. k + 1 \in greater /\ \A j \in greater : k + 1 <= j
    <3> HIDE DEF greater
    <3> QED BY <1>1, <1>5, <1>8
  <2>2. first = k + 1
    <3>1. first \in greater /\ \A j \in greater : first <= j
      <4> HIDE DEF greater
      <4> QED BY <2>1
    <3>2. first \in Int
      BY <3>1
    <3> HIDE DEF greater, first
    <3> QED BY <1>1, <2>1, <3>1, <3>2
  <2> HIDE DEF greater, first
  <2>3. before = At(q, l, k)
    BY <1>1, <2>2 DEF At
  <2> HIDE DEF before
  <2>4. SllRep([s EXCEPT !.next = [@ EXCEPT ![n] = s.next[before], ![before] = n]], Inserted(Q, l, k, n))
    BY <1>8, <2>3, SllBetween DEF q
  <2> QED BY <1>3, <1>6, <2>1, <2>4
<1> QED BY <1>7, <1>8

LEMMA PlaceOfNode ==
  ASSUME NEW Q, NodeSeqs(Q), NEW l \in Dummies, NEW k \in 1 .. Len(Q[l])
  PROVE  PlaceOf(Q[l], Q[l][k]) = k /\ Q[l][k] \in Range(Q[l])
<1>1. \A i, j \in 1 .. Len(Q[l]) : Q[l][i] = Q[l][j] => i = j
  BY DEF NodeSeqs, Distinct
<1>2. Q[l] \in Seq(Nodes)
  BY SeqFacts
<1> DEFINE q == Q[l]
<1>3. (\A i, j \in 1 .. Len(q) : q[i] = q[j] => i = j) /\ DOMAIN q = 1 .. Len(q) /\ k \in 1 .. Len(q)
  BY <1>1, <1>2
<1> HIDE DEF q
<1>4. PlaceOf(q, q[k]) = k
  BY <1>3 DEF PlaceOf
<1>5. q[k] \in Range(q)
  BY <1>3 DEF Range
<1> QED BY <1>4, <1>5 DEF q

LEMMA RangeOf ==
  ASSUME NEW q \in Seq(Nodes), NEW n
  PROVE  n \in Range(q) <=> \E k \in 1 .. Len(q) : q[k] = n
<1>1. DOMAIN q = 1 .. Len(q)
  OBVIOUS
<1> QED BY <1>1 DEF Range

LEMMA RangePlaces ==
  ASSUME NEW Q, NodeSeqs(Q), NEW l \in Dummies, NEW n
  PROVE  n \in Range(Q[l]) <=> \E k \in 1 .. Len(Q[l]) : Q[l][k] = n
<1>1. DOMAIN Q[l] = 1 .. Len(Q[l])
  BY SeqFacts
<1> QED BY <1>1 DEF Range

\* In t, the k-th node n is out of the ring and before leads past it.
TakenOut(t, s, l, n, before) ==
  /\ t.next = [s.next EXCEPT ![before] = s.next[n], ![n] = n]
  /\ t.last = [s.last EXCEPT ![l] = IF @ = n THEN before ELSE @]
  /\ t = [next |-> t.next, last |-> t.last]

LEMMA SllTaken ==
  ASSUME NEW s, NEW Q, SllRep(s, Q), NEW l \in Dummies, NEW k \in 1 .. Len(Q[l]),
         NEW n, NEW before, NEW t, n = Q[l][k], before = At(Q[l], l, k - 1),
         TakenOut(t, s, l, n, before)
  PROVE  SllRep(t, Removed(Q, l, k))
<1> DEFINE a == Len(Q[l])
           y == At(Q[l], l, k + 1)
<1>1. NodeSeqs(Q) /\ s \in SllStates /\ a \in Nat /\ n \in Nodes /\ n \in ListCells
  BY SeqFacts DEF SllRep, ListCells
<1>2. k - 1 \in 0 .. a /\ k \in 0 .. a /\ k - 1 + 1 = k /\ At(Q[l], l, k) = n
  BY <1>1 DEF At
<1>3. s.next[n] = y /\ y \in ListCells
  BY <1>2, SllNeighbours
<1>4. before \in ListCells
  BY <1>1, <1>2, AtEnds
<1>5. before # n
  <2> DEFINE i == k - 1
  <2>1. i \in 0 .. Len(Q[l]) /\ k \in 0 .. Len(Q[l]) /\ i # k
    BY <1>1, <1>2
  <2> HIDE DEF i
  <2>2. At(Q[l], l, i) # At(Q[l], l, k)
    BY <1>1, <2>1, AtDistinct
  <2> QED BY <1>2, <2>2 DEF i
<1>6. s.last[l] = n <=> k = a
  <2>1. s.last[l] = At(Q[l], l, a) /\ a \in 0 .. Len(Q[l])
    BY <1>1 DEF SllRep
  <2>2. k # a => At(Q[l], l, a) # At(Q[l], l, k)
    <3> HIDE DEF a
    <3> QED BY <1>1, <1>2, <2>1, AtDistinct
  <2> QED BY <1>2, <2>1, <2>2
<1>7. s.next \in [ListCells -> ListCells \cup {Null}] /\ s.last \in [Dummies -> ListCells]
  BY <1>1 DEF SllStates
<1> HIDE DEF a, y
<1>8. /\ t.next \in [ListCells -> ListCells \cup {Null}] /\ t.next[before] = y
      /\ \A c \in ListCells : c # n /\ c # before => t.next[c] = s.next[c]
  BY <1>1, <1>3, <1>4, <1>5, <1>7 DEF TakenOut
<1>9. /\ t.last \in [Dummies -> ListCells]
      /\ t.last[l] = IF k = a THEN before ELSE s.last[l]
      /\ \A m \in Dummies : m # l => t.last[m] = s.last[m]
  BY <1>4, <1>6, <1>7 DEF TakenOut
<1>10. t \in SllStates
  BY <1>8, <1>9 DEF SllStates, TakenOut
<1> QED BY <1>8, <1>9, <1>10, SllRemove DEF a, y

\* Unlisting from a list takes the node out of it, or leaves the list alone.
LEMMA SllUnlist ==
  ASSUME NEW s, NEW Q, SllRep(s, Q), NEW l \in Dummies
  PROVE  /\ \A k \in 1 .. Len(Q[l]) : SllRep(SLL_NodeUnlist(s, l, Q[l][k]), Removed(Q, l, k))
         /\ \A n \in Nodes : n \notin Range(Q[l]) => SLL_NodeUnlist(s, l, n) = s
<1>1. NodeSeqs(Q) /\ s \in SllStates /\ Len(Q[l]) \in Nat /\ \A i \in 1 .. Len(Q[l]) : Q[l][i] \in Nodes
  BY SeqFacts DEF SllRep
<1>2. SLL_Nodes(s, l) = Q[l] /\ s.next[l] = At(Q[l], l, 1)
  <2>1. SllAnswers(s, Q, l)
    BY SllQueries
  <2> QED BY <2>1 DEF SllAnswers
<1>3. ASSUME NEW k \in 1 .. Len(Q[l])
      PROVE  SllRep(SLL_NodeUnlist(s, l, Q[l][k]), Removed(Q, l, k))
  <2> DEFINE n == Q[l][k]
             before == At(Q[l], l, k - 1)
             t == SLL_NodeUnlist(s, l, n)
  <2>1. PlaceOf(Q[l], n) = k /\ n \in Range(Q[l])
    BY <1>1, PlaceOfNode
  <2>2. (IF n \in Range(Q[l]) /\ PlaceOf(Q[l], n) > 1 THEN Q[l][PlaceOf(Q[l], n) - 1] ELSE l) = before
    <3>1. k > 1 <=> k - 1 \in 1 .. Len(Q[l])
      BY <1>1
    <3> QED BY <2>1, <3>1 DEF At
  <2>3. t = SLL_NodeUnlistQuick(s, l, before, n)
    <3> HIDE DEF before, n
    <3> QED BY <1>2, <2>2 DEF SLL_NodeUnlist
  <2>4. k \in 0 .. Len(Q[l]) /\ k - 1 \in 0 .. Len(Q[l]) /\ k - 1 + 1 = k /\ At(Q[l], l, k) = n
    BY <1>1 DEF At
  <2>5. s.next[n] # Null
    <3>1. s.next[n] \in ListCells
      BY <2>4, SllNeighbours
    <3> QED BY <3>1, ListsAssumption
  <2>6. s.next[before] = n
    <3> DEFINE i == k - 1
    <3>1. i \in 0 .. Len(Q[l]) /\ i + 1 = k
      BY <2>4
    <3> HIDE DEF i
    <3>2. s.next[At(Q[l], l, i)] = At(Q[l], l, i + 1)
      BY <3>1, SllNeighbours
    <3> QED BY <2>4, <3>1, <3>2 DEF i
  <2>7. TakenOut(t, s, l, n, before)
    <3> HIDE DEF before, n
    <3>1. t = [next |-> [s.next EXCEPT ![before] = s.next[n], ![n] = n],
               last |-> [s.last EXCEPT ![l] = IF @ = n THEN before ELSE @]]
      BY <2>3, <2>5, <2>6 DEF SLL_NodeUnlistQuick
    <3> HIDE DEF t
    <3> QED BY <3>1 DEF TakenOut
  <2> HIDE DEF t
  <2>8. SllRep(t, Removed(Q, l, k))
    BY <2>7, SllTaken
  <2> QED BY <2>8 DEF t
<1>4. ASSUME NEW n \in Nodes, n \notin Range(Q[l]) PROVE SLL_NodeUnlist(s, l, n) = s
  <2>1. SLL_NodeUnlist(s, l, n) = SLL_NodeUnlistQuick(s, l, l, n)
    BY <1>2, <1>4 DEF SLL_NodeUnlist
  <2>2. s.next[l] # n
    <3>1. l \notin Nodes
      BY ListsAssumption
    <3>2. \A k \in 1 .. Len(Q[l]) : Q[l][k] # n
      BY <1>1, <1>4, RangePlaces
    <3> QED BY <1>2, <1>4, <3>1, <3>2 DEF At
  <2> QED BY <2>1, <2>2 DEF SLL_NodeUnlistQuick
<1> QED BY <1>3, <1>4

LEMMA SllPopFront ==
  ASSUME NEW s, NEW Q, SllRep(s, Q), NEW l \in Dummies, Q[l] # <<>>
  PROVE  SllRep(SLL_PopFront(s, l), Removed(Q, l, 1)) /\ 1 \in 1 .. Len(Q[l])
<1> DEFINE k == 1
           n == Q[l][k]
           before == At(Q[l], l, k - 1)
           t == SLL_PopFront(s, l)
<1>1. NodeSeqs(Q) /\ Len(Q[l]) \in Nat /\ Len(Q[l]) # 0
  BY SeqFacts, EmptySeq DEF SllRep
<1>2. k \in 1 .. Len(Q[l]) /\ before = l
  BY <1>1 DEF At
<1>3. SLL_GetFront(s, l) = n
  <2>1. SllAnswers(s, Q, l)
    BY SllQueries
  <2> QED BY <2>1 DEF SllAnswers
<1> HIDE DEF k, n, before
<1>4. t = [next |-> [s.next EXCEPT ![l] = s.next[n], ![n] = n],
           last |-> [s.last EXCEPT ![l] = IF @ = n THEN l ELSE @]]
  BY <1>3 DEF SLL_PopFront
<1> HIDE DEF t
<1>5. TakenOut(t, s, l, n, before)
  BY <1>2, <1>4 DEF TakenOut
<1>6. SllRep(t, Removed(Q, l, k))
  BY <1>2, <1>5, SllTaken DEF n, before
<1> QED BY <1>2, <1>6 DEF t, k

LEMMA SllPopBack ==
  ASSUME NEW s, NEW Q, SllRep(s, Q), NEW l \in Dummies, Q[l] # <<>>
  PROVE  SllRep(SLL_PopBack(s, l), Removed(Q, l, Len(Q[l]))) /\ Len(Q[l]) \in 1 .. Len(Q[l])
<1>1. NodeSeqs(Q) /\ Len(Q[l]) \in Nat /\ Len(Q[l]) # 0
  BY SeqFacts, EmptySeq DEF SllRep
<1>2. Len(Q[l]) \in 1 .. Len(Q[l])
  BY <1>1
<1>3. SLL_GetBack(s, l) = Q[l][Len(Q[l])]
  <2>1. SllAnswers(s, Q, l)
    BY SllQueries
  <2> QED BY <2>1 DEF SllAnswers
<1>4. SllRep(SLL_NodeUnlist(s, l, Q[l][Len(Q[l])]), Removed(Q, l, Len(Q[l])))
  BY <1>2, SllUnlist
<1> QED BY <1>2, <1>3, <1>4 DEF SLL_PopBack

\* Appending leaves m's old nodes at the end of l, and m empty.
LEMMA SllAppend ==
  ASSUME NEW s, NEW Q, SllRep(s, Q), NEW l \in Dummies, NEW m \in Dummies, l # m
  PROVE  SllRep(SLL_AppendListToBack(s, l, m), Appended(Q, l, m))
<1> DEFINE P == Appended(Q, l, m)
           a == Len(Q[l])
           b == Len(Q[m])
           x == At(Q[l], l, a)
           y == At(Q[m], m, 1)
           z == At(Q[m], m, b)
           t == SLL_AppendListToBack(s, l, m)
<1>1. /\ NodeSeqs(Q) /\ Ring(s.next, Q) /\ a \in Nat /\ b \in Nat
      /\ s.next \in [ListCells -> ListCells \cup {Null}] /\ s.last \in [Dummies -> ListCells]
      /\ s = [next |-> s.next, last |-> s.last]
  BY SeqFacts DEF SllRep, SllStates
<1>2. /\ \A j \in Int : At(Q[l], l, j) \in ListCells /\ At(Q[m], m, j) \in ListCells
      /\ At(Q[l], l, 0) = l /\ At(Q[l], l, a + 1) = l
      /\ l \in ListCells /\ m \in ListCells
  BY <1>1, AtEnds DEF ListCells
<1>3. NodeSeqs(P) /\ P[m] = <<>> /\ Len(P[l]) = a + b
      /\ AtJoined(P[l], Q[l], Q[m], a, b, l)
  BY <1>1, AppendedSeqs
<1>4. s.last[l] = x /\ s.last[m] = z /\ s.next[m] = y /\ (SLL_IsEmpty(s, m) <=> Q[m] = <<>>)
  <2>1. SllAnswers(s, Q, m) /\ SllAnswers(s, Q, l)
    BY SllQueries
  <2> QED BY <2>1 DEF SllAnswers
<1>5. Q[m] # <<>> => b \in 1 .. b /\ 1 \in 1 .. b /\ y = Q[m][1] /\ z = Q[m][b] /\ y \in Nodes /\ z \in Nodes
  <2> HAVE Q[m] # <<>>
  <2>1. b # 0
    BY <1>1, SeqFacts, EmptySeq
  <2>2. b \in 1 .. b /\ 1 \in 1 .. b
    BY <1>1, <2>1
  <2> QED BY <1>1, <2>2, SeqFacts DEF At
<1>6. x # m /\ l \notin Nodes /\ m \notin Nodes /\ x \in ListCells /\ y \in ListCells /\ z \in ListCells
  <2>1. l \notin Nodes /\ m \notin Nodes
    BY ListsAssumption
  <2>2. x # m
    <3>1. CASE a = 0
      BY <1>2, <3>1
    <3>2. CASE a # 0
      <4>1. a \in 1 .. a
        BY <1>1, <3>2
      <4>2. x \in Nodes
        BY <1>1, <4>1, SeqFacts DEF At
      <4> QED BY <2>1, <4>2
    <3> QED BY <3>1, <3>2
  <2> QED BY <1>1, <1>2, <2>1, <2>2
<1>7. Q[m] # <<>> => z # x /\ z # m
  <2> HAVE Q[m] # <<>>
  <2>1. z # m
    BY <1>5, <1>6
  <2>2. z # x
    <3>1. a \in 0 .. Len(Q[l]) /\ b \in 0 .. Len(Q[m])
      BY <1>1
    <3> HIDE DEF a, b
    <3>2. At(Q[l], l, a) # At(Q[m], m, b)
      BY <1>1, <3>1, AtDistinct
    <3> QED BY <3>2
  <2> QED BY <2>1, <2>2
<1>8. /\ t.next = [(IF Q[m] = <<>> THEN s.next ELSE [s.next EXCEPT ![x] = y, ![z] = l]) EXCEPT ![m] = m]
      /\ t.last = [(IF Q[m] = <<>> THEN s.last ELSE [s.last EXCEPT ![l] = z]) EXCEPT ![m] = m]
      /\ t = [next |-> t.next, last |-> t.last]
  <2> HIDE DEF x, y, z
  <2> QED BY <1>4 DEF SLL_AppendListToBack
<1> HIDE DEF t
<1>9. /\ t.next \in [ListCells -> ListCells \cup {Null}] /\ t.next[m] = m
      /\ \A c \in ListCells \ {m} :
           t.next[c] = IF Q[m] = <<>> THEN s.next[c]
                       ELSE IF c = z THEN l ELSE IF c = x THEN y ELSE s.next[c]
  <2> HIDE DEF x, y, z
  <2> QED BY <1>1, <1>2, <1>6, <1>7, <1>8
<1>10. /\ t.last \in [Dummies -> ListCells] /\ t.last[m] = m
       /\ t.last[l] = IF Q[m] = <<>> THEN x ELSE z
       /\ \A c \in Dummies \ {l, m} : t.last[c] = s.last[c]
  <2> HIDE DEF x, y, z
  <2> QED BY <1>1, <1>2, <1>4, <1>6, <1>8
<1>11. Ring(t.next, P)
  <2> DEFINE f == s.next
             g == t.next
  <2>1. g[m] = m /\ Ring(f, Q)
    BY <1>1, <1>9
  <2>2. Q[m] = <<>> => g[At(Q[l], l, Len(Q[l]))] = l
    <3> HAVE Q[m] = <<>>
    <3>1. g[x] = f[x]
      BY <1>6, <1>9
    <3>2. f[At(Q[l], l, a)] = At(Q[l], l, a + 1)
      BY <1>1 DEF Ring
    <3> QED BY <1>2, <3>1, <3>2
  <2>3. Q[m] # <<>> => /\ g[At(Q[l], l, Len(Q[l]))] = Q[m][1]
                       /\ g[Q[m][Len(Q[m])]] = l
    BY <1>5, <1>6, <1>7, <1>9
  <2>4. \A c \in ListCells : /\ c # m /\ c # At(Q[l], l, Len(Q[l]))
                             /\ Q[m] # <<>> => c # Q[m][Len(Q[m])]
                             => g[c] = f[c]
    <3> TAKE c \in ListCells
    <3> HAVE /\ c # m /\ c # At(Q[l], l, Len(Q[l]))
             /\ Q[m] # <<>> => c # Q[m][Len(Q[m])]
    <3> QED BY <1>5, <1>9
  <2> HIDE DEF f, g
  <2>5. Ring(g, Appended(Q, l, m))
    BY <1>1, <2>1, <2>2, <2>3, <2>4, RingAppend, Zenon
  <2> QED BY <2>5 DEF g
<1>12. t.last[l] = At(P[l], l, Len(P[l]))
  <2>1. CASE Q[m] = <<>>
    <3>1. b = 0 /\ a + b = a
      BY <1>1, <2>1
    <3>2. At(P[l], l, a) = x
      <4>1. CASE a = 0
        BY <1>2, <1>3, <4>1 DEF AtJoined
      <4>2. CASE a # 0
        <5>1. a \in 1 .. a
          BY <1>1, <4>2
        <5> HIDE DEF a, b, P
        <5> QED BY <1>3, <5>1 DEF AtJoined
      <4> QED BY <4>1, <4>2
    <3> QED BY <1>3, <1>10, <2>1, <3>1, <3>2
  <2>2. CASE Q[m] # <<>>
    <3> DEFINE c == a + b
    <3>1. c \in a + 1 .. a + b /\ c - a = b
      <4>1. a \in Nat /\ b \in Nat /\ b \in 1 .. b
        BY <1>1, <1>5, <2>2
      <4> HIDE DEF a, b, x, y, z, P
      <4> QED BY <4>1
    <3>2. At(P[l], l, c) = At(Q[m], m, b)
      <4>1. \A d : \A i \in a + 1 .. a + b : At(P[l], l, i) = At(Q[m], d, i - a)
        <5> HIDE DEF a, b, c, P
        <5> QED BY <1>3 DEF AtJoined
      <4> HIDE DEF a, b, c, P
      <4>2. At(P[l], l, c) = At(Q[m], m, c - a)
        BY <3>1, <4>1
      <4> QED BY <3>1, <4>2
    <3> QED BY <1>3, <1>10, <2>2, <3>2
  <2> QED BY <2>1, <2>2
<1>13. \A c \in Dummies : t.last[c] = At(P[c], c, Len(P[c]))
  <2> TAKE c \in Dummies
  <2>1. CASE c = l
    BY <1>12, <2>1
  <2>2. CASE c = m
    BY <1>3, <1>10, <2>2 DEF At
  <2>3. CASE c # l /\ c # m
    <3>1. P[c] = Q[c]
      BY <1>1, <2>3 DEF Appended, NodeSeqs
    <3>2. s.last[c] = At(Q[c], c, Len(Q[c]))
      BY DEF SllRep
    <3> QED BY <1>10, <2>3, <3>1, <3>2
  <2> QED BY <2>1, <2>2, <2>3
<1>14. t \in SllStates
  BY <1>8, <1>9, <1>10 DEF SllStates
<1> HIDE DEF P
<1>15. SllRep(t, P)
  BY <1>3, <1>11, <1>13, <1>14 DEF SllRep
<1> QED BY <1>15 DEF t, P

\* The states SLL_PopAll goes through.
LEMMA SllPopAllBuilds ==
  ASSUME NEW s, NEW l
  PROVE  \A N \in Nat : \E f : f = [k \in 0 .. N |-> IF k = 0 THEN s
                                                ELSE SLL_PopFront(f[k - 1], l)]
<1> DEFINE S == {N \in Nat : \E f : f = [k \in 0 .. N |-> IF k = 0 THEN s
                                                       ELSE SLL_PopFront(f[k - 1], l)]}
<1>1. 0 \in S
  <2> DEFINE f == [k \in 0 .. 0 |-> s]
  <2>1. f = [k \in 0 .. 0 |-> IF k = 0 THEN s ELSE SLL_PopFront(f[k - 1], l)]
    OBVIOUS
  <2> HIDE DEF f
  <2> QED BY <2>1
<1>2. ASSUME NEW N \in Nat, N \in S PROVE N + 1 \in S
  <2>1. PICK f : f = [k \in 0 .. N |-> IF k = 0 THEN s ELSE SLL_PopFront(f[k - 1], l)]
    BY <1>2
  <2> DEFINE g == [k \in 0 .. N + 1 |-> IF k = N + 1 THEN SLL_PopFront(f[N], l) ELSE f[k]]
  <2>2. ASSUME NEW k \in 0 .. N + 1
        PROVE  g[k] = IF k = 0 THEN s ELSE SLL_PopFront(g[k - 1], l)
    <3>1. CASE k = N + 1
      <4>1. k # 0 /\ k - 1 = N /\ N \in 0 .. N + 1 /\ N # N + 1
        BY <3>1
      <4>2. g[k - 1] = f[N] /\ g[k] = SLL_PopFront(f[N], l)
        BY <3>1, <4>1
      <4> HIDE DEF g
      <4> QED BY <3>1, <4>1, <4>2
    <3>2. CASE k # N + 1
      <4>1. k \in 0 .. N /\ g[k] = f[k]
        BY <3>2
      <4>2. f[k] = IF k = 0 THEN s ELSE SLL_PopFront(f[k - 1], l)
        BY <2>1, <4>1
      <4>3. k # 0 => g[k - 1] = f[k - 1]
        <5> HAVE k # 0
        <5>1. k - 1 \in 0 .. N + 1 /\ k - 1 # N + 1
          BY <4>1
        <5> QED BY <5>1
      <4> HIDE DEF g
      <4> QED BY <4>1, <4>2, <4>3
    <3> QED BY <3>1, <3>2
  <2>3. g = [k \in 0 .. N + 1 |-> g[k]]
    OBVIOUS
  <2> HIDE DEF g
  <2>4. g = [k \in 0 .. N + 1 |-> IF k = 0 THEN s ELSE SLL_PopFront(g[k - 1], l)]
    BY <2>2, <2>3, Zenon
  <2> QED BY <2>4
<1> HIDE DEF S
<1>3. \A N \in Nat : N \in S
  BY <1>1, <1>2, NumbersByInduction
<1> QED BY <1>3 DEF S

\* The states SLL_SortList goes through.
IsSllSort(f, N, t, l) ==
  f = [k \in 0 .. N |-> IF k = 0 THEN t
                        ELSE SLL_SortedInsert(SLL_PopFront(f[k - 1], TmpList), l, f[k - 1].next[TmpList])]

LEMMA SllSortBuilds ==
  ASSUME NEW t, NEW l
  PROVE  \A N \in Nat : \E f : IsSllSort(f, N, t, l)
<1> DEFINE S == {N \in Nat : \E f : f = [k \in 0 .. N |-> IF k = 0 THEN t
                                                       ELSE SLL_SortedInsert(SLL_PopFront(f[k - 1], TmpList), l, f[k - 1].next[TmpList])]}
<1>1. 0 \in S
  <2> DEFINE f == [k \in 0 .. 0 |-> t]
  <2>1. f = [k \in 0 .. 0 |-> IF k = 0 THEN t ELSE SLL_SortedInsert(SLL_PopFront(f[k - 1], TmpList), l, f[k - 1].next[TmpList])]
    OBVIOUS
  <2> HIDE DEF f
  <2> QED BY <2>1
<1>2. ASSUME NEW N \in Nat, N \in S PROVE N + 1 \in S
  <2>1. PICK f : f = [k \in 0 .. N |-> IF k = 0 THEN t ELSE SLL_SortedInsert(SLL_PopFront(f[k - 1], TmpList), l, f[k - 1].next[TmpList])]
    BY <1>2
  <2> DEFINE g == [k \in 0 .. N + 1 |-> IF k = N + 1 THEN SLL_SortedInsert(SLL_PopFront(f[N], TmpList), l, f[N].next[TmpList]) ELSE f[k]]
  <2>2. ASSUME NEW k \in 0 .. N + 1
        PROVE  g[k] = IF k = 0 THEN t ELSE SLL_SortedInsert(SLL_PopFront(g[k - 1], TmpList), l, g[k - 1].next[TmpList])
    <3>1. CASE k = N + 1
      <4>1. k # 0 /\ k - 1 = N /\ N \in 0 .. N + 1 /\ N # N + 1
        BY <3>1
      <4>2. g[k - 1] = f[N] /\ g[k] = SLL_SortedInsert(SLL_PopFront(f[N], TmpList), l, f[N].next[TmpList])
        BY <3>1, <4>1
      <4> HIDE DEF g
      <4> QED BY <3>1, <4>1, <4>2
    <3>2. CASE k # N + 1
      <4>1. k \in 0 .. N /\ g[k] = f[k]
        BY <3>2
      <4>2. f[k] = IF k = 0 THEN t ELSE SLL_SortedInsert(SLL_PopFront(f[k - 1], TmpList), l, f[k - 1].next[TmpList])
        BY <2>1, <4>1
      <4>3. k # 0 => g[k - 1] = f[k - 1]
        <5> HAVE k # 0
        <5>1. k - 1 \in 0 .. N + 1 /\ k - 1 # N + 1
          BY <4>1
        <5> QED BY <5>1
      <4> HIDE DEF g
      <4> QED BY <4>1, <4>2, <4>3
    <3> QED BY <3>1, <3>2
  <2>3. g = [k \in 0 .. N + 1 |-> g[k]]
    OBVIOUS
  <2> HIDE DEF g
  <2>4. g = [k \in 0 .. N + 1 |-> IF k = 0 THEN t ELSE SLL_SortedInsert(SLL_PopFront(g[k - 1], TmpList), l, g[k - 1].next[TmpList])]
    BY <2>2, <2>3, Zenon
  <2> QED BY <2>4
<1> HIDE DEF S
<1>3. \A N \in Nat : N \in S
  BY <1>1, <1>2, NumbersByInduction
<1> QED BY <1>3, Zenon DEF S, IsSllSort

LEMMA SllPopAll ==
  ASSUME NEW s, NEW Q, SllRep(s, Q), NEW l \in Dummies
  PROVE  SllRep(SLL_PopAll(s, l), Emptied(Q, l))
<1> DEFINE N == SLL_Size(s, l)
           popped[k \in 0 .. SLL_Size(s, l)] == IF k = 0 THEN s ELSE SLL_PopFront(popped[k - 1], l)
           Left(k, P) == /\ SllRep(popped[k], P) /\ Len(P[l]) = N - k
                         /\ \A c \in Dummies \ {l} : P[c] = Q[c]
           S == {k \in Nat : k <= N => \E P : Left(k, P)}
<1>1. N = Len(Q[l]) /\ N \in Nat
  <2>1. SllAnswers(s, Q, l) /\ NodeSeqs(Q)
    BY SllQueries DEF SllRep
  <2> QED BY <2>1, SeqFacts DEF SllAnswers, SLL_Size
<1>2. SLL_PopAll(s, l) = popped[N]
  BY DEF SLL_PopAll
<1>3. popped = [k \in 0 .. N |-> IF k = 0 THEN s ELSE SLL_PopFront(popped[k - 1], l)]
  <2> HIDE DEF N
  <2>1. \E f : f = [k \in 0 .. N |-> IF k = 0 THEN s ELSE SLL_PopFront(f[k - 1], l)]
    BY <1>1, SllPopAllBuilds
  <2> QED BY <2>1 DEF N
<1> HIDE DEF popped, N
<1>4. 0 \in S
  <2>1. popped[0] = s
    BY <1>1, <1>3
  <2>2. Left(0, Q)
    BY <1>1, <2>1
  <2> HIDE DEF Left
  <2> QED BY <2>2
<1>5. ASSUME NEW k \in Nat, k \in S PROVE k + 1 \in S
  <2> SUFFICES ASSUME k + 1 <= N PROVE \E P : Left(k + 1, P)
    <3> HIDE DEF Left
    <3> QED OBVIOUS
  <2>1. k <= N /\ k \in 0 .. N /\ k + 1 \in 0 .. N /\ k + 1 # 0 /\ k + 1 - 1 = k
    BY <1>1
  <2>2. PICK P : Left(k, P)
    <3> HIDE DEF Left
    <3> QED BY <1>5, <2>1
  <2>3. popped[k + 1] = SLL_PopFront(popped[k], l)
    BY <1>3, <2>1
  <2>4. NodeSeqs(P) /\ Len(P[l]) = N - k
    BY <2>2 DEF SllRep
  <2>5. P[l] # <<>>
    <3>1. Len(P[l]) # 0
      BY <1>1, <2>1, <2>4
    <3> QED BY <3>1
  <2>6. SllRep(popped[k + 1], Removed(P, l, 1)) /\ 1 \in 1 .. Len(P[l])
    BY <2>2, <2>3, <2>5, SllPopFront
  <2>7. Len(Removed(P, l, 1)[l]) = N - (k + 1)
    <3>1. Len(Removed(P, l, 1)[l]) = Len(P[l]) - 1
      BY <2>4, <2>6, RemovedSeqs
    <3> HIDE DEF Left
    <3> QED BY <1>1, <2>4, <3>1
  <2>8. \A c \in Dummies \ {l} : Removed(P, l, 1)[c] = Q[c]
    BY <2>2, <2>4 DEF Removed, NodeSeqs
  <2>9. Left(k + 1, Removed(P, l, 1))
    BY <2>6, <2>7, <2>8
  <2> HIDE DEF Left
  <2> QED BY <2>9
<1>6. N \in S
  <2> HIDE DEF S
  <2> QED BY <1>1, <1>4, <1>5, NumbersByInduction
<1>7. PICK P : Left(N, P)
  <2> HIDE DEF Left
  <2> QED BY <1>1, <1>6
<1>8. P = Emptied(Q, l)
  <2>1. NodeSeqs(P) /\ NodeSeqs(Q) /\ Len(P[l]) = 0
    BY <1>1, <1>7 DEF SllRep
  <2>2. P[l] = <<>>
    BY <2>1, SeqFacts, EmptySeq
  <2> QED BY <1>7, <2>1, <2>2 DEF Emptied, NodeSeqs
<1> QED BY <1>2, <1>7, <1>8

LEMMA SllSortAll ==
  ASSUME NEW s, NEW Q, SllRep(s, Q), NEW l \in Lists, Q[TmpList] = <<>>
  PROVE  SllRep(SLL_SortList(s, l), SortedAllFront(Q, l))
<1> DEFINE M == Len(SLL_Nodes(s, l))
           N == Len(Q[l])
           T == TmpList
           q == Q[l]
           t == SLL_AppendListToBack(s, TmpList, l)
           sorted[k \in 0 .. Len(SLL_Nodes(s, l))] ==
             IF k = 0 THEN t
             ELSE LET u == sorted[k - 1]
                  IN SLL_SortedInsert(SLL_PopFront(u, TmpList), l, u.next[TmpList])
<1>1. /\ l \in Dummies /\ T \in Dummies /\ l # T
      /\ NodeSeqs(Q) /\ Q \in [Dummies -> Seq(Nodes)] /\ q \in Seq(Nodes) /\ N \in Nat
  <2>1. NodeSeqs(Q) /\ l \in Dummies
    BY DEF SllRep, Dummies
  <2>2. q \in Seq(Nodes) /\ N \in Nat
    BY <2>1, SeqFacts
  <2> QED BY <2>1, <2>2, ListsAssumption DEF Dummies, NodeSeqs
<1>2. M = N
  <2>1. SllAnswers(s, Q, l)
    BY <1>1, SllQueries
  <2> QED BY <2>1 DEF SllAnswers
<1>3. SLL_SortList(s, l) = sorted[M]
  BY Zenon DEF SLL_SortList
<1>4. sorted = [k \in 0 .. M |-> IF k = 0 THEN t
                ELSE SLL_SortedInsert(SLL_PopFront(sorted[k - 1], TmpList), l, sorted[k - 1].next[TmpList])]
  <2> HIDE DEF t, M
  <2>1. M \in Nat
    BY <1>1, <1>2
  <2>2. \E f : IsSllSort(f, M, t, l)
    BY <2>1, SllSortBuilds
  <2> QED BY <2>2, Zenon DEF M, IsSllSort
<1>5. PICK put : Rounds(q, put)
  BY <1>1, PutAllRounds
<1>6. SllRep(t, Appended(Q, T, l))
  BY <1>1, SllAppend
<1> DEFINE Left(k, P) == /\ SllRep(sorted[k], P) /\ Len(P[T]) = N - k
                         /\ \A i \in 1 .. N - k : P[T][i] = q[k + i]
                         /\ P[l] = put[k]
                         /\ \A c \in Dummies \ {l, T} : P[c] = Q[c]
           S == {k \in Nat : k <= N => \E P : Left(k, P)}
<1> HIDE DEF sorted, M, t
<1>7. 0 \in S
  <2> DEFINE P == Appended(Q, T, l)
  <2>1. sorted[0] = t
    BY <1>1, <1>2, <1>4
  <2>2. P[T] = Q[T] \o q /\ P[l] = <<>> /\ \A c \in Dummies \ {l, T} : P[c] = Q[c]
    BY <1>1 DEF Appended
  <2>3. P[T] = q
    BY <1>1, <2>2
  <2>4. Left(0, P)
    <3>1. Len(P[T]) = N - 0 /\ \A i \in 1 .. N - 0 : P[T][i] = q[0 + i]
      BY <1>1, <2>3
    <3> HIDE DEF P
    <3> QED BY <1>5, <1>6, <2>1, <2>2, <3>1 DEF Rounds, P
  <2> HIDE DEF Left
  <2> QED BY <2>4
<1>8. ASSUME NEW k \in Nat, k \in S PROVE k + 1 \in S
  <2> SUFFICES ASSUME k + 1 <= N PROVE \E P : Left(k + 1, P)
    <3> HIDE DEF Left
    <3> QED OBVIOUS
  <2>1. /\ k <= N /\ k \in 0 .. M /\ k + 1 \in 0 .. M /\ k + 1 # 0 /\ k + 1 - 1 = k
        /\ k + 1 \in 1 .. N /\ 1 \in 1 .. N - k /\ k \in 0 .. N
        /\ N - k \in Nat /\ N - k # 0
    BY <1>1, <1>2
  <2>2. PICK P : Left(k, P)
    <3> HIDE DEF Left
    <3> QED BY <1>8, <2>1
  <2> DEFINE u == sorted[k]
             n == q[k + 1]
             v == SLL_PopFront(u, TmpList)
             P1 == Removed(P, T, 1)
  <2>3. sorted[k + 1] = SLL_SortedInsert(v, l, u.next[TmpList])
    BY <1>4, <2>1
  <2>4. NodeSeqs(P) /\ Len(P[T]) = N - k /\ SllRep(u, P) /\ P[T][1] = n
    BY <2>1, <2>2 DEF SllRep
  <2>5. P[T] # <<>>
    <3>1. Len(P[T]) # 0
      BY <2>1, <2>4
    <3> QED BY <3>1
  <2>6. SllRep(v, P1) /\ 1 \in 1 .. Len(P[T])
    BY <1>1, <2>4, <2>5, SllPopFront
  <2>7. u.next[TmpList] = n
    <3>1. SllAnswers(u, P, T)
      BY <1>1, <2>4, SllQueries
    <3>2. u.next[T] = At(P[T], T, 1)
      BY <3>1 DEF SllAnswers
    <3> QED BY <2>4, <2>6, <3>2 DEF At
  <2>8. n \in Nodes
    BY <1>1, <2>1
  <2>9. NodeSeqs(P1) /\ InNone(P1, n) /\ Len(P1[T]) = N - k - 1
    BY <1>1, <2>4, <2>6, RemovedSeqs
  <2>10. P1[l] = put[k] /\ \A c \in Dummies \ {l, T} : P1[c] = Q[c]
    BY <1>1, <2>2, <2>4 DEF Removed, NodeSeqs
  <2>11. \A i \in 1 .. N - (k + 1) : P1[T][i] = q[k + 1 + i]
    <3> DEFINE x == P[T]
               y == P1[T]
               a == N - k
    <3>1. y = RemoveAt(x, 1) /\ x \in Seq(Nodes) /\ 1 \in 1 .. Len(x) /\ Len(x) = a
      BY <1>1, <2>4, <2>6 DEF Removed, NodeSeqs
    <3>2. \A i \in 1 .. a : x[i] = q[k + i]
      BY <2>2
    <3>3. a \in Nat /\ N - (k + 1) = a - 1
      BY <1>1, <2>1
    <3> HIDE DEF x, y, a
    <3>4. WithoutAt(Nodes, y, x, 1)
      BY <3>1, RemoveAtProperties
    <3>5. \A i \in 1 .. a - 1 : y[i] = x[i + 1]
      BY <3>1, <3>3, <3>4 DEF WithoutAt
    <3>6. \A i \in 1 .. a - 1 : i + 1 \in 1 .. a /\ k + (i + 1) = k + 1 + i
      BY <3>3
    <3>7. \A i \in 1 .. a - 1 : y[i] = q[k + 1 + i]
      BY <3>2, <3>5, <3>6
    <3> QED BY <3>3, <3>7 DEF y
  <2>12. IsSortedSeq(put[k])
    BY <1>5, <2>1 DEF Rounds
  <2>13. SllRep(sorted[k + 1], SortedIn(P1, l, n))
    <3> HIDE DEF P1, v, u, n, Left
    <3>1. SllRep(SLL_SortedInsert(v, l, n), SortedIn(P1, l, n))
      BY <1>1, <2>6, <2>8, <2>9, <2>10, <2>12, SllSorted
    <3> QED BY <2>3, <2>7, <3>1
  <2>14. SortedIn(P1, l, n)[l] = put[k + 1]
    <3>1. put[k + 1] = SortedPut(put[k + 1 - 1], q[k + 1])
      BY <1>5, <2>1 DEF Rounds
    <3>2. SortedIn(P1, l, n)[l] = SortedPut(P1[l], n)
      <4> HIDE DEF P1, n, Left
      <4> QED BY <1>1, <2>9 DEF SortedIn, NodeSeqs
    <3> QED BY <2>1, <2>10, <3>1, <3>2
  <2>15. \A c \in Dummies \ {l} : SortedIn(P1, l, n)[c] = P1[c]
    <3> HIDE DEF P1, n, Left
    <3> QED BY <2>9 DEF SortedIn, NodeSeqs
  <2> DEFINE P2 == SortedIn(P1, l, n)
  <2> HIDE DEF P2, P1
  <2>16. Len(P2[T]) = N - (k + 1) /\ \A i \in 1 .. N - (k + 1) : P2[T][i] = q[k + 1 + i]
    <3>1. P2[T] = P1[T]
      BY <1>1, <2>15 DEF P2
    <3>2. N - k - 1 = N - (k + 1)
      BY <1>1
    <3> QED BY <2>9, <2>11, <3>1, <3>2
  <2>17. \A c \in Dummies \ {l, T} : P2[c] = Q[c]
    BY <2>10, <2>15 DEF P2
  <2>18. Left(k + 1, P2)
    BY <2>13, <2>14, <2>16, <2>17 DEF P2
  <2> HIDE DEF Left
  <2> QED BY <2>18
<1>9. N \in S
  <2> HIDE DEF S
  <2> QED BY <1>1, <1>7, <1>8, NumbersByInduction
<1>10. PICK P : Left(N, P)
  <2> HIDE DEF Left
  <2> QED BY <1>1, <1>9
<1>11. P = SortedAllFront(Q, l)
  <2>1. NodeSeqs(P) /\ Len(P[T]) = 0 /\ P[l] = put[N] /\ \A c \in Dummies \ {l, T} : P[c] = Q[c]
    BY <1>1, <1>10 DEF SllRep
  <2>2. P[T] = Q[T]
    BY <1>1, <2>1, SeqFacts, EmptySeq
  <2>3. P[l] = PutAll(Q[l])
    BY <1>5, <2>1 DEF Rounds
  <2> DEFINE P2 == SortedAllFront(Q, l)
  <2>4. P2 = [c \in Dummies |-> IF c = l THEN PutAll(Q[l]) ELSE Q[c]]
    BY <1>1 DEF SortedAllFront
  <2>5. P = [c \in Dummies |-> P[c]]
    BY <2>1 DEF NodeSeqs
  <2> HIDE DEF P2
  <2> QED BY <1>1, <2>1, <2>2, <2>3, <2>4, <2>5 DEF P2
<1> QED BY <1>2, <1>3, <1>10, <1>11

------------------------------------------------------------------------------
(* The sequences of the model as insertions and removals.                  *)

LEMMA PutAtEnds ==
  ASSUME NEW S, NEW q \in Seq(S), NEW n \in S
  PROVE  Append(q, n) = InsertAt(q, Len(q) + 1, n) /\ <<n>> \o q = InsertAt(q, 1, n)
<1>1. Len(q) \in Nat /\ Len(q) + 1 \in 1 .. Len(q) + 1 /\ 1 \in 1 .. Len(q) + 1 /\ 1 \in Nat
  OBVIOUS
<1>2. Append(q, n) = InsertAt(q, Len(q) + 1, n)
  <2> DEFINE k == Len(q) + 1
             r == InsertAt(q, k, n)
             w == Append(q, n)
  <2>1. k \in 1 .. Len(q) + 1 /\ k = Len(q) + 1
    BY <1>1
  <2> HIDE DEF k
  <2>2. WithAt(S, r, q, k, n)
    BY <2>1, InsertAtProperties
  <2>3. /\ w \in Seq(S) /\ Len(w) = Len(q) + 1
        /\ \A i \in 1 .. Len(q) : w[i] = q[i]
        /\ w[Len(q) + 1] = n
    BY AppendProperties
  <2> HIDE DEF r, w
  <2>4. \A i \in 1 .. Len(q) + 1 : r[i] = w[i]
    <3> TAKE i \in 1 .. Len(q) + 1
    <3>1. r[i] = IF i < k THEN q[i] ELSE IF i = k THEN n ELSE q[i - 1]
      BY <2>2 DEF WithAt
    <3>2. i = k \/ (i < k /\ i \in 1 .. Len(q))
      BY <1>1, <2>1
    <3> QED BY <1>1, <2>1, <2>3, <3>1, <3>2
  <2>5. r \in Seq(S) /\ Len(r) = Len(w)
    BY <2>2, <2>3 DEF WithAt
  <2>6. r = w
    BY <2>3, <2>4, <2>5, SeqEqual
  <2> QED BY <2>1, <2>6 DEF r, w
<1>3. <<n>> \o q = InsertAt(q, 1, n)
  <2> DEFINE one == 1
             e == <<n>>
             r == InsertAt(q, one, n)
             w == e \o q
             m == Len(q)
  <2>1. e \in Seq(S) /\ Len(e) = 1 /\ e[1] = n
    OBVIOUS
  <2>2. WithAt(S, r, q, one, n)
    <3> HIDE DEF one
    <3>1. one \in 1 .. Len(q) + 1
      BY <1>1 DEF one
    <3> QED BY <3>1, InsertAtProperties
  <2>3. Glued(S, w, e, q, 1, m)
    <3> HIDE DEF e, m
    <3>1. Len(q) = m /\ m \in Nat
      BY <1>1 DEF m
    <3> QED BY <1>1, <2>1, <3>1, ConcatAt
  <2>4. \A i \in 1 .. Len(q) + 1 : r[i] = w[i]
    <3> HIDE DEF r, w, e
    <3> TAKE i \in 1 .. Len(q) + 1
    <3>1. r[i] = IF i < 1 THEN q[i] ELSE IF i = 1 THEN n ELSE q[i - 1]
      BY <2>2 DEF WithAt
    <3>2. CASE i = 1
      <4>1. w[1] = n
        BY <2>1, <2>3 DEF Glued
      <4> QED BY <3>1, <3>2, <4>1
    <3>3. CASE i # 1
      <4>1. i \in 1 + 1 .. 1 + m /\ ~(i < 1)
        BY <1>1, <3>3
      <4>2. w[i] = q[i - 1]
        BY <2>3, <4>1 DEF Glued
      <4> QED BY <3>1, <3>3, <4>1, <4>2
    <3> QED BY <3>2, <3>3
  <2> HIDE DEF r, w
  <2>5. r \in Seq(S) /\ w \in Seq(S) /\ Len(r) = Len(q) + 1 /\ Len(w) = Len(q) + 1
    <3>1. r \in Seq(S) /\ Len(r) = Len(q) + 1
      BY <2>2 DEF WithAt
    <3>2. w \in Seq(S) /\ Len(w) = 1 + m
      BY <2>3 DEF Glued
    <3> QED BY <1>1, <3>1, <3>2
  <2>6. r = w
    BY <2>4, <2>5, SeqEqual
  <2> QED BY <2>6 DEF r, w
<1> QED BY <1>2, <1>3

LEMMA TakenFromEnds ==
  ASSUME NEW S, NEW q \in Seq(S), q # <<>>
  PROVE  Tail(q) = RemoveAt(q, 1) /\ Front(q) = RemoveAt(q, Len(q))
<1>1. Len(q) \in Nat /\ Len(q) # 0
  BY EmptySeq
<1>2. 1 \in 1 .. Len(q) /\ Len(q) \in 1 .. Len(q)
  BY <1>1
<1>3. Tail(q) = RemoveAt(q, 1)
  <2> DEFINE one == 1
             r == RemoveAt(q, one)
             w == Tail(q)
  <2>1. WithoutAt(S, r, q, one)
    <3> HIDE DEF one
    <3>1. one \in 1 .. Len(q)
      BY <1>2 DEF one
    <3> QED BY <3>1, RemoveAtProperties
  <2>2. w \in Seq(S) /\ Len(w) = Len(q) - 1 /\ \A i \in 1 .. Len(q) - 1 : w[i] = q[i + 1]
    BY HeadTailProperties
  <2> HIDE DEF r, w
  <2>3. \A i \in 1 .. Len(q) - 1 : r[i] = w[i]
    BY <2>1, <2>2 DEF WithoutAt
  <2>4. r \in Seq(S) /\ Len(r) = Len(w)
    BY <2>1, <2>2 DEF WithoutAt
  <2>5. r = w
    BY <2>2, <2>3, <2>4, SeqEqual
  <2> QED BY <2>5 DEF r, w
<1>4. Front(q) = RemoveAt(q, Len(q))
  <2> DEFINE r == RemoveAt(q, Len(q))
             w == SubSeq(q, 1, Len(q) - 1)
  <2>1. WithoutAt(S, r, q, Len(q))
    BY <1>2, RemoveAtProperties
  <2>2. w \in Seq(S) /\ Len(w) = Len(q) - 1 /\ \A i \in 1 .. Len(q) - 1 : w[i] = q[i]
    BY <1>1, SubSeqProperties, ElementOfSeq
  <2> HIDE DEF r, w
  <2>3. \A i \in 1 .. Len(q) - 1 : r[i] = w[i]
    <3> TAKE i \in 1 .. Len(q) - 1
    <3>1. i < Len(q)
      BY <1>1
    <3> QED BY <2>1, <2>2, <3>1 DEF WithoutAt
  <2>4. r \in Seq(S) /\ Len(r) = Len(w)
    BY <2>1, <2>2 DEF WithoutAt
  <2>5. r = w
    BY <2>2, <2>3, <2>4, SeqEqual
  <2>6. Front(q) = w
    BY DEF Front, w
  <2> QED BY <2>5, <2>6 DEF r
<1> QED BY <1>3, <1>4

LEMMA RemoveFirstAt ==
  ASSUME NEW Q, NodeSeqs(Q), NEW l \in Dummies
  PROVE  /\ \A k \in 1 .. Len(Q[l]) : RemoveFirst(Q[l], Q[l][k]) = RemoveAt(Q[l], k)
         /\ \A n : n \notin Range(Q[l]) => RemoveFirst(Q[l], n) = Q[l]
<1> DEFINE q == Q[l]
<1>1. (\A i, j \in 1 .. Len(q) : q[i] = q[j] => i = j) /\ Len(q) \in Nat
  BY SeqFacts DEF NodeSeqs, Distinct
<1>2. ASSUME NEW n, n \notin Range(Q[l]) PROVE RemoveFirst(Q[l], n) = Q[l]
  BY <1>2, RangePlaces DEF RemoveFirst
<1> HIDE DEF q
<1>3. ASSUME NEW k \in 1 .. Len(q) PROVE RemoveFirst(q, q[k]) = RemoveAt(q, k)
  <2> DEFINE I == {i \in 1 .. Len(q) : q[i] = q[k]}
             m == CHOOSE x \in I : \A y \in I : x =< y
  <2>1. I = {k}
    BY <1>1, <1>3
  <2>2. m = k
    <3> HIDE DEF I
    <3>1. k \in I /\ \A y \in I : k =< y
      BY <1>1, <2>1
    <3>2. m \in I
      BY <3>1
    <3> QED BY <2>1, <3>2
  <2>3. RemoveFirst(q, q[k]) = RemoveAt(q, IF I # {} THEN m ELSE 0)
    <3>1. \E i \in 1 .. Len(q) : q[i] = q[k]
      BY <1>3
    <3> QED BY <3>1 DEF RemoveFirst, SelectInSeq, Min
  <2> HIDE DEF I, m
  <2> QED BY <2>1, <2>2, <2>3
<1> QED BY <1>2, <1>3 DEF q

\* The sequences of a list component, with tmpList's, which is empty in between.
Whole(seqs) == [c \in Dummies |-> IF c \in Lists THEN seqs[c] ELSE <<>>]

LEMMA WholeStep ==
  ASSUME NEW seqs \in [Lists -> Seq(Nodes)], NEW l \in Lists, NEW x
  PROVE  /\ Whole([seqs EXCEPT ![l] = x]) = [Whole(seqs) EXCEPT ![l] = x]
         /\ NodeSeqs([Whole(seqs) EXCEPT ![l] = x]) => [seqs EXCEPT ![l] = x] \in [Lists -> Seq(Nodes)]
<1>1. l \in Dummies
  BY DEF Dummies
<1>2. Whole([seqs EXCEPT ![l] = x]) = [Whole(seqs) EXCEPT ![l] = x]
  BY <1>1 DEF Whole
<1>3. NodeSeqs([Whole(seqs) EXCEPT ![l] = x]) => x \in Seq(Nodes)
  <2> DEFINE P == [Whole(seqs) EXCEPT ![l] = x]
  <2>1. P[l] = x
    BY <1>1 DEF Whole
  <2> HIDE DEF P
  <2>2. NodeSeqs(P) => x \in Seq(Nodes)
    BY <1>1, <2>1 DEF NodeSeqs
  <2> QED BY <2>2 DEF P
<1> QED BY <1>2, <1>3

LEMMA WholeFacts ==
  ASSUME NEW seqs \in [Lists -> Seq(Nodes)]
  PROVE  /\ TmpList \in Dummies /\ Whole(seqs)[TmpList] = <<>>
         /\ \A l \in Lists : l \in Dummies /\ l # TmpList /\ Whole(seqs)[l] = seqs[l]
         /\ \A n \in Nodes : NodeSeqs(Whole(seqs)) => (IsFree(seqs, n) <=> InNone(Whole(seqs), n))
<1>1. /\ TmpList \in Dummies /\ Whole(seqs)[TmpList] = <<>>
      /\ \A l \in Lists : l \in Dummies /\ l # TmpList /\ Whole(seqs)[l] = seqs[l]
  BY ListsAssumption DEF Whole, Dummies
<1>2. ASSUME NEW n \in Nodes, NodeSeqs(Whole(seqs))
      PROVE  IsFree(seqs, n) <=> InNone(Whole(seqs), n)
  <2> DEFINE W == Whole(seqs)
  <2>1. \A l \in Dummies : n \in Range(W[l]) <=> \E k \in 1 .. Len(W[l]) : W[l][k] = n
    <3>1. NodeSeqs(W)
      BY <1>2
    <3> HIDE DEF W
    <3> QED BY <3>1, RangePlaces
  <2>2. W[TmpList] = <<>> /\ \A l \in Lists : W[l] = seqs[l]
    BY <1>1
  <2> HIDE DEF W
  <2>3. \A l \in Dummies : l \in Lists \/ l = TmpList
    BY DEF Dummies
  <2>4. IsFree(seqs, n) <=> \A l \in Dummies : n \notin Range(W[l])
    <3>1. n \notin Range(W[TmpList])
      BY <1>1, <2>1, <2>2
    <3> QED BY <1>1, <2>2, <2>3, <3>1 DEF IsFree
  <2> QED BY <2>1, <2>4 DEF InNone, W
<1> QED BY <1>1, <1>2

------------------------------------------------------------------------------
(* The invariant, and that every step of a list keeps it.                  *)

ListInv ==
  /\ dllSeqs \in [Lists -> Seq(Nodes)] /\ DllRep(dllCells, Whole(dllSeqs))
  /\ sllSeqs \in [Lists -> Seq(Nodes)] /\ SllRep(Sll, Whole(sllSeqs))

LEMMA ListInitHolds == ListInit => ListInv
<1> SUFFICES ASSUME ListInit PROVE ListInv
  OBVIOUS
<1> DEFINE Q == [c \in Dummies |-> <<>>]
<1>1. NodeSeqs(Q)
  BY DEF NodeSeqs, Distinct
<1>2. Whole(dllSeqs) = Q /\ Whole(sllSeqs) = Q
  BY DEF ListInit, Whole
<1>3. Reversed(Q) = Q
  <2> DEFINE none == <<>>
  <2>1. none \in Seq(Nodes) /\ Len(none) = 0
    OBVIOUS
  <2> HIDE DEF none
  <2>2. Reverse(none) \in Seq(Nodes) /\ Len(Reverse(none)) = 0
    BY <2>1, ReverseProperties
  <2>3. Reverse(none) = none
    BY <2>1, <2>2, EmptySeq
  <2> QED BY <2>3 DEF Reversed, none
<1>4. \A c \in Dummies : c \in ListCells /\ At(Q[c], c, 0) = c /\ At(Q[c], c, 0 + 1) = c /\ Len(Q[c]) = 0
  BY DEF At, ListCells
<1>5. ASSUME NEW f, \A c \in Dummies : f[c] = c PROVE Ring(f, Q)
  <2> SUFFICES ASSUME NEW l \in Dummies, NEW i \in 0 .. Len(Q[l])
               PROVE  f[At(Q[l], l, i)] = At(Q[l], l, i + 1)
    BY DEF Ring
  <2>1. i = 0
    BY <1>4
  <2> HIDE DEF Q
  <2> QED BY <1>4, <1>5, <2>1
<1>6. Nodes \cap Dummies = {} /\ Nodes \subseteq ListCells
  BY ListsAssumption DEF ListCells
<1>7. DllRep(dllCells, Q)
  <2>1. dllCells \in DllCells
    BY DEF ListInit, DllCells, Unlinked, ListCells
  <2>2. Ring(NextOf(dllCells), Q)
    <3>1. \A c \in Dummies : NextOf(dllCells)[c] = c
      BY <1>4 DEF ListInit, NextOf
    <3> QED BY <1>5, <3>1
  <2>3. Ring(PrevOf(dllCells), Q)
    <3>1. \A c \in Dummies : PrevOf(dllCells)[c] = c
      BY <1>4 DEF ListInit, PrevOf
    <3> QED BY <1>5, <3>1
  <2>4. \A n \in Nodes : dllCells[n] = Unlinked
    BY <1>6 DEF ListInit
  <2> HIDE DEF Q
  <2> QED BY <1>1, <1>3, <2>1, <2>2, <2>3, <2>4 DEF DllRep
<1>8. SllRep(Sll, Q)
  <2>1. Sll \in SllStates
    BY <1>4 DEF ListInit, SllStates, Sll
  <2>2. Ring(Sll.next, Q)
    <3>1. \A c \in Dummies : Sll.next[c] = c
      BY <1>4 DEF ListInit, Sll
    <3> QED BY <1>5, <3>1
  <2>3. \A l \in Dummies : Sll.last[l] = At(Q[l], l, Len(Q[l]))
    BY <1>4 DEF ListInit, Sll
  <2> QED BY <1>1, <2>1, <2>2, <2>3 DEF SllRep
<1> QED BY <1>2, <1>7, <1>8 DEF ListInv, ListInit

\* What a step of one list makes of the sequences.
Becomes(seqs, new, P) == new \in [Lists -> Seq(Nodes)] /\ Whole(new) = P

LEMMA BecomesOne ==
  ASSUME NEW seqs \in [Lists -> Seq(Nodes)], NEW l \in Lists, NEW x, NEW P,
         P = [Whole(seqs) EXCEPT ![l] = x], NodeSeqs(P)
  PROVE  Becomes(seqs, [seqs EXCEPT ![l] = x], P)
BY WholeStep DEF Becomes

LEMMA NodePlaced ==
  ASSUME NEW seqs \in [Lists -> Seq(Nodes)], NEW l \in Lists, NodeSeqs(Whole(seqs)),
         NEW n \in Nodes, IsFree(seqs, n)
  PROVE  LET W == Whole(seqs)
         IN /\ Becomes(seqs, [seqs EXCEPT ![l] = Append(@, n)], Inserted(W, l, Len(W[l]), n))
            /\ Becomes(seqs, [seqs EXCEPT ![l] = <<n>> \o @], Inserted(W, l, 0, n))
            /\ \A k \in 0 .. Len(W[l]) :
                 Becomes(seqs, [seqs EXCEPT ![l] = InsertAt(@, k + 1, n)], Inserted(W, l, k, n))
            /\ IsSortedSeq(seqs[l]) =>
                 Becomes(seqs, [seqs EXCEPT ![l] = SortedPut(@, n)], SortedIn(W, l, n))
<1> DEFINE W == Whole(seqs)
<1>1. l \in Dummies /\ W[l] = seqs[l] /\ InNone(W, n) /\ seqs[l] \in Seq(Nodes)
  BY WholeFacts
<1>2. Len(W[l]) \in Nat /\ NodeSeqs(W)
  BY <1>1, SeqFacts
<1>3. ASSUME NEW k \in 0 .. Len(W[l])
      PROVE  Becomes(seqs, [seqs EXCEPT ![l] = InsertAt(@, k + 1, n)], Inserted(W, l, k, n))
  <2>1. NodeSeqs(Inserted(W, l, k, n))
    <3> HIDE DEF W
    <3> QED BY <1>1, <1>2, InsertedSeqs
  <2>2. Inserted(W, l, k, n) = [W EXCEPT ![l] = InsertAt(seqs[l], k + 1, n)]
    BY <1>1 DEF Inserted
  <2> QED BY <2>1, <2>2, BecomesOne
<1>4. Becomes(seqs, [seqs EXCEPT ![l] = Append(@, n)], Inserted(W, l, Len(W[l]), n))
  <2>1. Append(seqs[l], n) = InsertAt(seqs[l], Len(seqs[l]) + 1, n)
    BY <1>1, PutAtEnds
  <2>2. Len(W[l]) \in 0 .. Len(W[l]) /\ Len(W[l]) = Len(seqs[l])
    BY <1>1, <1>2
  <2> HIDE DEF W
  <2> QED BY <1>3, <2>1, <2>2
<1>5. Becomes(seqs, [seqs EXCEPT ![l] = <<n>> \o @], Inserted(W, l, 0, n))
  <2>1. <<n>> \o seqs[l] = InsertAt(seqs[l], 0 + 1, n)
    BY <1>1, PutAtEnds
  <2>2. 0 \in 0 .. Len(W[l])
    BY <1>2
  <2> HIDE DEF W
  <2> QED BY <1>3, <2>1, <2>2
<1>6. ASSUME IsSortedSeq(seqs[l])
      PROVE  Becomes(seqs, [seqs EXCEPT ![l] = SortedPut(@, n)], SortedIn(W, l, n))
  <2>1. PICK k \in 0 .. Len(seqs[l]) : SortedPlace(seqs[l], n) = k + 1
    BY <1>1, <1>6, SortedPlaceSplits
  <2>2. SortedIn(W, l, n) = Inserted(W, l, k, n) /\ SortedPut(seqs[l], n) = InsertAt(seqs[l], k + 1, n)
        /\ k \in 0 .. Len(W[l])
    <3>1. k \in Int /\ SortedPlace(W[l], n) = k + 1 /\ k \in 0 .. Len(W[l])
      BY <1>1, <2>1
    <3> HIDE DEF W
    <3> QED BY <2>1, <3>1, SortedInInserted DEF SortedPut
  <2> HIDE DEF W
  <2> QED BY <1>3, <2>2
<1> QED BY <1>3, <1>4, <1>5, <1>6

LEMMA NodeTaken ==
  ASSUME NEW seqs \in [Lists -> Seq(Nodes)], NEW l \in Lists, NodeSeqs(Whole(seqs))
  PROVE  LET W == Whole(seqs)
         IN /\ \A k \in 1 .. Len(W[l]) :
                 Becomes(seqs, [seqs EXCEPT ![l] = RemoveAt(@, k)], Removed(W, l, k))
            /\ W[l] # <<>> =>
                 /\ Becomes(seqs, [seqs EXCEPT ![l] = Tail(@)], Removed(W, l, 1))
                 /\ Becomes(seqs, [seqs EXCEPT ![l] = Front(@)], Removed(W, l, Len(W[l])))
            /\ Becomes(seqs, [seqs EXCEPT ![l] = <<>>], Emptied(W, l))
<1> DEFINE W == Whole(seqs)
<1>1. l \in Dummies /\ W[l] = seqs[l] /\ seqs[l] \in Seq(Nodes)
  BY WholeFacts
<1>2. Len(W[l]) \in Nat /\ NodeSeqs(W)
  BY <1>1, SeqFacts
<1>3. ASSUME NEW k \in 1 .. Len(W[l])
      PROVE  Becomes(seqs, [seqs EXCEPT ![l] = RemoveAt(@, k)], Removed(W, l, k))
  <2>1. NodeSeqs(Removed(W, l, k))
    <3> HIDE DEF W
    <3> QED BY <1>1, <1>2, RemovedSeqs
  <2>2. Removed(W, l, k) = [W EXCEPT ![l] = RemoveAt(seqs[l], k)]
    BY <1>1 DEF Removed
  <2> QED BY <2>1, <2>2, BecomesOne
<1>4. ASSUME W[l] # <<>>
      PROVE  /\ Becomes(seqs, [seqs EXCEPT ![l] = Tail(@)], Removed(W, l, 1))
             /\ Becomes(seqs, [seqs EXCEPT ![l] = Front(@)], Removed(W, l, Len(W[l])))
  <2>1. Len(W[l]) # 0
    BY <1>1, <1>4, EmptySeq
  <2>2. 1 \in 1 .. Len(W[l]) /\ Len(W[l]) \in 1 .. Len(W[l])
    BY <1>2, <2>1
  <2>3. Tail(seqs[l]) = RemoveAt(seqs[l], 1) /\ Front(seqs[l]) = RemoveAt(seqs[l], Len(W[l]))
    BY <1>1, <1>4, TakenFromEnds
  <2> HIDE DEF W
  <2> QED BY <1>3, <2>2, <2>3
<1>5. Becomes(seqs, [seqs EXCEPT ![l] = <<>>], Emptied(W, l))
  <2>1. NodeSeqs(Emptied(W, l))
    <3> HIDE DEF W
    <3> DEFINE none == <<>>
               P == [W EXCEPT ![l] = none]
    <3>1. none \in Seq(Nodes) /\ Len(none) = 0
      OBVIOUS
    <3> HIDE DEF none
    <3>2. P \in [Dummies -> Seq(Nodes)] /\ P[l] = none /\ \A c \in Dummies : c # l => P[c] = W[c]
      BY <1>1, <1>2, <3>1 DEF NodeSeqs
    <3> HIDE DEF P
    <3>3. Distinct(P)
      <4> SUFFICES ASSUME NEW c \in Dummies, NEW d \in Dummies,
                          NEW i \in 1 .. Len(P[c]), NEW j \in 1 .. Len(P[d]), P[c][i] = P[d][j]
                   PROVE  c = d /\ i = j
        BY DEF Distinct
      <4>1. c # l /\ d # l
        BY <3>1, <3>2
      <4> QED BY <1>2, <3>2, <4>1 DEF NodeSeqs, Distinct
    <3>4. NodeSeqs(P)
      BY <3>2, <3>3 DEF NodeSeqs
    <3> QED BY <3>4 DEF Emptied, P, none
  <2>2. Emptied(W, l) = [W EXCEPT ![l] = <<>>]
    BY DEF Emptied
  <2> QED BY <2>1, <2>2, BecomesOne
<1> QED BY <1>3, <1>4, <1>5

LEMMA ListAppended ==
  ASSUME NEW seqs \in [Lists -> Seq(Nodes)], NEW l \in Lists, NEW m \in Lists, l # m,
         NodeSeqs(Whole(seqs))
  PROVE  Becomes(seqs, [seqs EXCEPT ![l] = @ \o seqs[m], ![m] = <<>>], Appended(Whole(seqs), l, m))
<1> DEFINE W == Whole(seqs)
<1>1. l \in Dummies /\ m \in Dummies /\ W[l] = seqs[l] /\ W[m] = seqs[m]
      /\ seqs[l] \in Seq(Nodes) /\ seqs[m] \in Seq(Nodes) /\ W \in [Dummies -> Seq(Nodes)]
  BY WholeFacts DEF NodeSeqs
<1> DEFINE joined == seqs[l] \o seqs[m]
           none == <<>>
           new == [[seqs EXCEPT ![l] = joined] EXCEPT ![m] = none]
<1>2. joined \in Seq(Nodes) /\ none \in Seq(Nodes)
  BY <1>1
<1>3. Appended(W, l, m) = [[W EXCEPT ![l] = joined] EXCEPT ![m] = none]
  BY <1>1 DEF Appended
<1>4. new = [seqs EXCEPT ![l] = @ \o seqs[m], ![m] = <<>>]
  BY <1>1
<1> HIDE DEF joined, none
<1>5. new \in [Lists -> Seq(Nodes)]
  BY <1>2
<1>6. Whole(new) = [[W EXCEPT ![l] = joined] EXCEPT ![m] = none]
  BY <1>1 DEF Whole
<1> QED BY <1>3, <1>4, <1>5, <1>6 DEF Becomes

LEMMA ListSorted ==
  ASSUME NEW seqs \in [Lists -> Seq(Nodes)], NEW l \in Lists
  PROVE  LET W == Whole(seqs)
         IN /\ NodeSeqs(SortedAll(W, l)) =>
                 Becomes(seqs, [seqs EXCEPT ![l] = PutAll(Reverse(@))], SortedAll(W, l))
            /\ NodeSeqs(SortedAllFront(W, l)) =>
                 Becomes(seqs, [seqs EXCEPT ![l] = PutAll(@)], SortedAllFront(W, l))
<1> DEFINE W == Whole(seqs)
<1>1. l \in Dummies /\ W[l] = seqs[l]
  BY WholeFacts
<1>2. SortedAll(W, l) = [W EXCEPT ![l] = PutAll(Reverse(seqs[l]))]
  BY <1>1 DEF SortedAll
<1>3. SortedAllFront(W, l) = [W EXCEPT ![l] = PutAll(seqs[l])]
  BY <1>1 DEF SortedAllFront
<1> QED BY <1>2, <1>3, BecomesOne

\* Every step of a doubly linked list does to the cells what it does to the
\* sequences.
LEMMA DllNodeStep ==
  ASSUME dllSeqs \in [Lists -> Seq(Nodes)], DllRep(dllCells, Whole(dllSeqs)), DllNode
  PROVE  dllSeqs' \in [Lists -> Seq(Nodes)] /\ DllRep(dllCells', Whole(dllSeqs'))
<1> DEFINE W == Whole(dllSeqs)
           s == dllCells
<1>1. NodeSeqs(W) /\ DllRep(s, W)
  BY DEF DllRep
<1>2. ASSUME NEW t, NEW new, NEW P, dllCells' = t, dllSeqs' = new,
             DllRep(t, P), Becomes(dllSeqs, new, P)
      PROVE  dllSeqs' \in [Lists -> Seq(Nodes)] /\ DllRep(dllCells', Whole(dllSeqs'))
  BY <1>2 DEF Becomes
<1>3. PICK n \in Nodes, l \in Lists :
    \/ /\ IsFree(dllSeqs, n)
       /\ \/ /\ dllCells' = DLL_PushBack(dllCells, l, n)
             /\ dllSeqs' = [dllSeqs EXCEPT ![l] = Append(@, n)]
          \/ /\ dllCells' = DLL_PushFront(dllCells, l, n)
             /\ dllSeqs' = [dllSeqs EXCEPT ![l] = <<n>> \o @]
          \/ /\ IsSortedSeq(dllSeqs[l])
             /\ \/ dllCells' = DLL_SortedInsert(dllCells, l, n)
                \/ dllCells' = DLL_SortedInsertFromBack(dllCells, l, n)
             /\ dllSeqs' = [dllSeqs EXCEPT ![l] = SortedPut(@, n)]
          \/ \E old \in Range(dllSeqs[l]) :
               \/ /\ dllCells' = DLL_NodeInsertBefore(dllCells, n, old)
                  /\ dllSeqs' = [dllSeqs EXCEPT ![l] = InsertAt(@, PlaceOf(@, old), n)]
               \/ /\ dllCells' = DLL_NodeInsertAfter(dllCells, n, old)
                  /\ dllSeqs' = [dllSeqs EXCEPT ![l] = InsertAt(@, PlaceOf(@, old) + 1, n)]
    \/ /\ dllCells' = DLL_NodeUnlist(dllCells, n)
       /\ dllSeqs' = Without(dllSeqs, n)
  BY Zenon DEF DllNode
<1>4. l \in Dummies /\ W[l] = dllSeqs[l] /\ (IsFree(dllSeqs, n) <=> InNone(W, n))
  BY <1>1, WholeFacts
<1> HIDE DEF W, s
<1>5. CASE /\ IsFree(dllSeqs, n)
           /\ dllCells' = DLL_PushBack(dllCells, l, n)
           /\ dllSeqs' = [dllSeqs EXCEPT ![l] = Append(@, n)]
  <2>1. DllRep(DLL_PushBack(s, l, n), Inserted(W, l, Len(W[l]), n))
    BY <1>1, <1>4, <1>5, DllPushBack
  <2>2. Becomes(dllSeqs, [dllSeqs EXCEPT ![l] = Append(@, n)], Inserted(W, l, Len(W[l]), n))
    BY <1>1, <1>5, NodePlaced DEF W
  <2> QED BY <1>2, <1>5, <2>1, <2>2 DEF s
<1>6. CASE /\ IsFree(dllSeqs, n)
           /\ dllCells' = DLL_PushFront(dllCells, l, n)
           /\ dllSeqs' = [dllSeqs EXCEPT ![l] = <<n>> \o @]
  <2>1. DllRep(DLL_PushFront(s, l, n), Inserted(W, l, 0, n))
    BY <1>1, <1>4, <1>6, DllPushFront
  <2>2. Becomes(dllSeqs, [dllSeqs EXCEPT ![l] = <<n>> \o @], Inserted(W, l, 0, n))
    BY <1>1, <1>6, NodePlaced DEF W
  <2> QED BY <1>2, <1>6, <2>1, <2>2 DEF s
<1>7. CASE /\ IsFree(dllSeqs, n) /\ IsSortedSeq(dllSeqs[l])
           /\ \/ dllCells' = DLL_SortedInsert(dllCells, l, n)
              \/ dllCells' = DLL_SortedInsertFromBack(dllCells, l, n)
           /\ dllSeqs' = [dllSeqs EXCEPT ![l] = SortedPut(@, n)]
  <2>1. /\ DllRep(DLL_SortedInsert(s, l, n), SortedIn(W, l, n))
        /\ DllRep(DLL_SortedInsertFromBack(s, l, n), SortedIn(W, l, n))
    BY <1>1, <1>4, <1>7, DllSorted
  <2>2. Becomes(dllSeqs, [dllSeqs EXCEPT ![l] = SortedPut(@, n)], SortedIn(W, l, n))
    BY <1>1, <1>7, NodePlaced DEF W
  <2> QED BY <1>2, <1>7, <2>1, <2>2 DEF s
<1>8. ASSUME NEW old \in Range(dllSeqs[l])
      PROVE  \E k \in 1 .. Len(W[l]) : old = W[l][k] /\ PlaceOf(dllSeqs[l], old) = k
  <2>1. PICK k \in 1 .. Len(W[l]) : W[l][k] = old
    <3>1. W[l] \in Seq(Nodes) /\ old \in Range(W[l])
      BY <1>1, <1>4, <1>8, SeqFacts
    <3> HIDE DEF W
    <3> QED BY <3>1, RangeOf
  <2>2. PlaceOf(W[l], W[l][k]) = k
    BY <1>1, <1>4, PlaceOfNode
  <2> QED BY <1>4, <2>1, <2>2
<1>9. CASE /\ IsFree(dllSeqs, n)
           /\ \E old \in Range(dllSeqs[l]) :
                /\ dllCells' = DLL_NodeInsertBefore(dllCells, n, old)
                /\ dllSeqs' = [dllSeqs EXCEPT ![l] = InsertAt(@, PlaceOf(@, old), n)]
  <2>1. PICK old \in Range(dllSeqs[l]) :
                /\ dllCells' = DLL_NodeInsertBefore(dllCells, n, old)
                /\ dllSeqs' = [dllSeqs EXCEPT ![l] = InsertAt(@, PlaceOf(@, old), n)]
    BY <1>9
  <2>2. PICK k \in 1 .. Len(W[l]) : old = W[l][k] /\ PlaceOf(dllSeqs[l], old) = k
    BY <1>8
  <2> DEFINE h == k - 1
  <2>3. h \in 0 .. Len(W[l]) /\ h + 1 <= Len(W[l]) /\ h + 1 = k
    BY <1>1, <1>4, SeqFacts
  <2> HIDE DEF h
  <2>4. DllRep(DLL_NodeInsertBefore(s, n, W[l][h + 1]), Inserted(W, l, h, n))
    BY <1>1, <1>4, <1>9, <2>3, DllInsertBefore
  <2>5. Becomes(dllSeqs, [dllSeqs EXCEPT ![l] = InsertAt(@, h + 1, n)], Inserted(W, l, h, n))
    BY <1>1, <1>9, <2>3, NodePlaced DEF W
  <2> QED BY <1>2, <2>1, <2>2, <2>3, <2>4, <2>5 DEF s
<1>10. CASE /\ IsFree(dllSeqs, n)
            /\ \E old \in Range(dllSeqs[l]) :
                 /\ dllCells' = DLL_NodeInsertAfter(dllCells, n, old)
                 /\ dllSeqs' = [dllSeqs EXCEPT ![l] = InsertAt(@, PlaceOf(@, old) + 1, n)]
  <2>1. PICK old \in Range(dllSeqs[l]) :
                 /\ dllCells' = DLL_NodeInsertAfter(dllCells, n, old)
                 /\ dllSeqs' = [dllSeqs EXCEPT ![l] = InsertAt(@, PlaceOf(@, old) + 1, n)]
    BY <1>10
  <2>2. PICK k \in 1 .. Len(W[l]) : old = W[l][k] /\ PlaceOf(dllSeqs[l], old) = k
    BY <1>8
  <2>3. DllRep(DLL_NodeInsertAfter(s, n, W[l][k]), Inserted(W, l, k, n))
    BY <1>1, <1>4, <1>10, DllInsertAfter
  <2>4. k \in 0 .. Len(W[l])
    BY <1>1, <1>4, SeqFacts
  <2>5. Becomes(dllSeqs, [dllSeqs EXCEPT ![l] = InsertAt(@, k + 1, n)], Inserted(W, l, k, n))
    BY <1>1, <1>10, <2>4, NodePlaced DEF W
  <2> QED BY <1>2, <2>1, <2>2, <2>3, <2>5 DEF s
<1>11. CASE /\ dllCells' = DLL_NodeUnlist(dllCells, n)
            /\ dllSeqs' = Without(dllSeqs, n)
  <2>1. CASE InNone(W, n)
    <3>1. DLL_NodeUnlist(s, n) = s
      BY <1>1, <2>1, DllUnlistFree
    <3>2. \A c \in Lists : RemoveFirst(dllSeqs[c], n) = dllSeqs[c]
      <4> TAKE c \in Lists
      <4>1. c \in Dummies /\ W[c] = dllSeqs[c] /\ n \notin Range(dllSeqs[c])
        BY <1>4, <2>1, WholeFacts DEF IsFree, W
      <4> QED BY <1>1, <4>1, RemoveFirstAt
    <3>3. Without(dllSeqs, n) = dllSeqs
      BY <3>2 DEF Without
    <3> QED BY <1>1, <1>11, <3>1, <3>3 DEF s, W
  <2>2. CASE ~InNone(W, n)
    <3>0. PICK d \in Dummies : \E k \in 1 .. Len(W[d]) : W[d][k] = n
      BY <2>2 DEF InNone
    <3>1. PICK k \in 1 .. Len(W[d]) : W[d][k] = n
      BY <3>0
    <3>2. d \in Lists
      <4>1. W[TmpList] = <<>>
        BY WholeFacts DEF W
      <4> QED BY <3>1, <4>1 DEF Dummies
    <3>3. W[d] = dllSeqs[d]
      BY <3>2, WholeFacts DEF W
    <3>4. DllRep(DLL_NodeUnlist(s, W[d][k]), Removed(W, d, k))
      BY <1>1, DllRemove
    <3>5. \A c \in Lists \ {d} : RemoveFirst(dllSeqs[c], n) = dllSeqs[c]
      <4> TAKE c \in Lists \ {d}
      <4>1. c \in Dummies /\ W[c] = dllSeqs[c]
        BY WholeFacts DEF W
      <4>2. n \notin Range(W[c])
        <5>1. \A i \in 1 .. Len(W[c]) : W[c][i] # n
          BY <1>1, <3>1, <4>1 DEF NodeSeqs, Distinct
        <5>2. W[c] \in Seq(Nodes)
          BY <1>1, <4>1, SeqFacts
        <5> HIDE DEF W
        <5> QED BY <5>1, <5>2, RangeOf
      <4> QED BY <1>1, <4>1, <4>2, RemoveFirstAt
    <3>6. RemoveFirst(dllSeqs[d], n) = RemoveAt(dllSeqs[d], k)
      BY <1>1, <3>1, <3>3, RemoveFirstAt
    <3>7. Without(dllSeqs, n) = [dllSeqs EXCEPT ![d] = RemoveAt(@, k)]
      BY <3>2, <3>5, <3>6 DEF Without
    <3>8. Becomes(dllSeqs, [dllSeqs EXCEPT ![d] = RemoveAt(@, k)], Removed(W, d, k))
      BY <1>1, <3>2, NodeTaken DEF W
    <3> QED BY <1>2, <1>11, <3>1, <3>4, <3>7, <3>8 DEF s
  <2> QED BY <2>1, <2>2
<1> QED BY <1>3, <1>5, <1>6, <1>7, <1>9, <1>10, <1>11, Zenon

LEMMA DllWholeStep ==
  ASSUME dllSeqs \in [Lists -> Seq(Nodes)], DllRep(dllCells, Whole(dllSeqs)), DllWhole
  PROVE  dllSeqs' \in [Lists -> Seq(Nodes)] /\ DllRep(dllCells', Whole(dllSeqs'))
<1> DEFINE W == Whole(dllSeqs)
           s == dllCells
<1>1. NodeSeqs(W) /\ DllRep(s, W)
  BY DEF DllRep
<1>2. ASSUME NEW t, NEW new, NEW P, dllCells' = t, dllSeqs' = new,
             DllRep(t, P), Becomes(dllSeqs, new, P)
      PROVE  dllSeqs' \in [Lists -> Seq(Nodes)] /\ DllRep(dllCells', Whole(dllSeqs'))
  BY <1>2 DEF Becomes
<1>3. PICK l \in Lists :
    \/ /\ ~DLL_IsEmpty(dllCells, l)
       /\ \/ /\ dllCells' = DLL_PopFront(dllCells, l)
             /\ dllSeqs' = [dllSeqs EXCEPT ![l] = Tail(@)]
          \/ /\ dllCells' = DLL_PopBack(dllCells, l)
             /\ dllSeqs' = [dllSeqs EXCEPT ![l] = Front(@)]
    \/ /\ dllCells' = DLL_PopAll(dllCells, l)
       /\ dllSeqs' = [dllSeqs EXCEPT ![l] = <<>>]
    \/ \E m \in Lists \ {l} :
         /\ dllCells' = DLL_AppendListToBack(dllCells, l, m)
         /\ dllSeqs' = [dllSeqs EXCEPT ![l] = @ \o dllSeqs[m], ![m] = <<>>]
    \/ /\ dllCells' = DLL_SortList(dllCells, l)
       /\ dllSeqs' = [dllSeqs EXCEPT ![l] = PutAll(Reverse(@))]
  BY Zenon DEF DllWhole
<1>4. l \in Dummies /\ W[l] = dllSeqs[l] /\ W[TmpList] = <<>>
  BY <1>1, WholeFacts
<1> HIDE DEF W, s
<1>5. CASE /\ ~DLL_IsEmpty(dllCells, l)
           /\ dllCells' = DLL_PopFront(dllCells, l)
           /\ dllSeqs' = [dllSeqs EXCEPT ![l] = Tail(@)]
  <2>1. W[l] # <<>>
    <3>1. DllAnswers(s, W, l)
      BY <1>1, <1>4, DllQueries
    <3> QED BY <1>5, <3>1 DEF DllAnswers, s
  <2>2. DllRep(DLL_PopFront(s, l), Removed(W, l, 1))
    BY <1>1, <1>4, <2>1, DllPopFront
  <2>3. Becomes(dllSeqs, [dllSeqs EXCEPT ![l] = Tail(@)], Removed(W, l, 1))
    BY <1>1, <2>1, NodeTaken DEF W
  <2> QED BY <1>2, <1>5, <2>2, <2>3 DEF s
<1>6. CASE /\ ~DLL_IsEmpty(dllCells, l)
           /\ dllCells' = DLL_PopBack(dllCells, l)
           /\ dllSeqs' = [dllSeqs EXCEPT ![l] = Front(@)]
  <2>1. W[l] # <<>>
    <3>1. DllAnswers(s, W, l)
      BY <1>1, <1>4, DllQueries
    <3> QED BY <1>6, <3>1 DEF DllAnswers, s
  <2>2. DllRep(DLL_PopBack(s, l), Removed(W, l, Len(W[l])))
    BY <1>1, <1>4, <2>1, DllPopBack
  <2>3. Becomes(dllSeqs, [dllSeqs EXCEPT ![l] = Front(@)], Removed(W, l, Len(W[l])))
    BY <1>1, <2>1, NodeTaken DEF W
  <2> QED BY <1>2, <1>6, <2>2, <2>3 DEF s
<1>7. CASE /\ dllCells' = DLL_PopAll(dllCells, l)
           /\ dllSeqs' = [dllSeqs EXCEPT ![l] = <<>>]
  <2>1. DllRep(DLL_PopAll(s, l), Emptied(W, l))
    BY <1>1, <1>4, DllPopAll
  <2>2. Becomes(dllSeqs, [dllSeqs EXCEPT ![l] = <<>>], Emptied(W, l))
    BY <1>1, NodeTaken DEF W
  <2> QED BY <1>2, <1>7, <2>1, <2>2 DEF s
<1>8. CASE \E m \in Lists \ {l} :
             /\ dllCells' = DLL_AppendListToBack(dllCells, l, m)
             /\ dllSeqs' = [dllSeqs EXCEPT ![l] = @ \o dllSeqs[m], ![m] = <<>>]
  <2>1. PICK m \in Lists \ {l} :
             /\ dllCells' = DLL_AppendListToBack(dllCells, l, m)
             /\ dllSeqs' = [dllSeqs EXCEPT ![l] = @ \o dllSeqs[m], ![m] = <<>>]
    BY <1>8
  <2>2. m \in Dummies /\ m \in Lists /\ l # m
    BY DEF Dummies
  <2>3. DllRep(DLL_AppendListToBack(s, l, m), Appended(W, l, m))
    BY <1>1, <1>4, <2>2, DllAppend
  <2>4. Becomes(dllSeqs, [dllSeqs EXCEPT ![l] = @ \o dllSeqs[m], ![m] = <<>>], Appended(W, l, m))
    BY <1>1, <2>2, ListAppended DEF W
  <2> QED BY <1>2, <2>1, <2>3, <2>4 DEF s
<1>9. CASE /\ dllCells' = DLL_SortList(dllCells, l)
           /\ dllSeqs' = [dllSeqs EXCEPT ![l] = PutAll(Reverse(@))]
  <2>1. DllRep(DLL_SortList(s, l), SortedAll(W, l))
    BY <1>1, <1>4, DllSortAll
  <2>2. NodeSeqs(SortedAll(W, l))
    BY <2>1 DEF DllRep
  <2>3. Becomes(dllSeqs, [dllSeqs EXCEPT ![l] = PutAll(Reverse(@))], SortedAll(W, l))
    BY <2>2, ListSorted DEF W
  <2> QED BY <1>2, <1>9, <2>1, <2>3 DEF s
<1> QED BY <1>3, <1>5, <1>6, <1>7, <1>8, <1>9, Zenon

\* The same of a singly linked list.
LEMMA SllNodeStep ==
  ASSUME ~AfterLast,
         sllSeqs \in [Lists -> Seq(Nodes)], SllRep(Sll, Whole(sllSeqs)), SllNode
  PROVE  sllSeqs' \in [Lists -> Seq(Nodes)] /\ SllRep(Sll', Whole(sllSeqs'))
<1> DEFINE W == Whole(sllSeqs)
           s == Sll
<1>1. NodeSeqs(W) /\ SllRep(s, W)
  BY DEF SllRep
<1>2. ASSUME NEW t, NEW new, NEW P, SllBecomes(t), sllSeqs' = new,
             SllRep(t, P), Becomes(sllSeqs, new, P)
      PROVE  sllSeqs' \in [Lists -> Seq(Nodes)] /\ SllRep(Sll', Whole(sllSeqs'))
  <2>1. Sll' = [next |-> t.next, last |-> t.last]
    BY <1>2 DEF SllBecomes, Sll
  <2>2. t = [next |-> t.next, last |-> t.last]
    BY <1>2 DEF SllRep, SllStates
  <2>3. SllRep(Sll', P)
    BY <1>2, <2>1, <2>2
  <2> QED BY <1>2, <2>3 DEF Becomes
<1>3. PICK n \in Nodes, l \in Lists :
    \/ /\ IsFree(sllSeqs, n)
       /\ \/ /\ SllBecomes(SLL_PushBack(Sll, l, n))
             /\ sllSeqs' = [sllSeqs EXCEPT ![l] = Append(@, n)]
          \/ /\ SllBecomes(SLL_PushFront(Sll, l, n))
             /\ sllSeqs' = [sllSeqs EXCEPT ![l] = <<n>> \o @]
          \/ /\ IsSortedSeq(sllSeqs[l])
             /\ SllBecomes(SLL_SortedInsert(Sll, l, n))
             /\ sllSeqs' = [sllSeqs EXCEPT ![l] = SortedPut(@, n)]
          \/ \E old \in Range(sllSeqs[l]) :
               /\ AfterLast \/ old # Last(sllSeqs[l])
               /\ SllBecomes(SLL_NodeInsertAfter(Sll, n, old))
               /\ sllSeqs' = [sllSeqs EXCEPT ![l] = InsertAt(@, PlaceOf(@, old) + 1, n)]
    \/ /\ SllBecomes(SLL_NodeUnlist(Sll, l, n))
       /\ sllSeqs' = [sllSeqs EXCEPT ![l] = RemoveFirst(@, n)]
  BY Zenon DEF SllNode
<1>4. l \in Dummies /\ W[l] = sllSeqs[l] /\ (IsFree(sllSeqs, n) <=> InNone(W, n))
  BY <1>1, WholeFacts
<1> HIDE DEF W, s
<1>5. CASE /\ IsFree(sllSeqs, n)
           /\ SllBecomes(SLL_PushBack(Sll, l, n))
           /\ sllSeqs' = [sllSeqs EXCEPT ![l] = Append(@, n)]
  <2>1. SllRep(SLL_PushBack(s, l, n), Inserted(W, l, Len(W[l]), n))
    BY <1>1, <1>4, <1>5, SllPushBack
  <2>2. Becomes(sllSeqs, [sllSeqs EXCEPT ![l] = Append(@, n)], Inserted(W, l, Len(W[l]), n))
    BY <1>1, <1>5, NodePlaced DEF W
  <2> QED BY <1>2, <1>5, <2>1, <2>2 DEF s
<1>6. CASE /\ IsFree(sllSeqs, n)
           /\ SllBecomes(SLL_PushFront(Sll, l, n))
           /\ sllSeqs' = [sllSeqs EXCEPT ![l] = <<n>> \o @]
  <2>1. SllRep(SLL_PushFront(s, l, n), Inserted(W, l, 0, n))
    BY <1>1, <1>4, <1>6, SllPushFront
  <2>2. Becomes(sllSeqs, [sllSeqs EXCEPT ![l] = <<n>> \o @], Inserted(W, l, 0, n))
    BY <1>1, <1>6, NodePlaced DEF W
  <2> QED BY <1>2, <1>6, <2>1, <2>2 DEF s
<1>7. CASE /\ IsFree(sllSeqs, n) /\ IsSortedSeq(sllSeqs[l])
           /\ SllBecomes(SLL_SortedInsert(Sll, l, n))
           /\ sllSeqs' = [sllSeqs EXCEPT ![l] = SortedPut(@, n)]
  <2>1. SllRep(SLL_SortedInsert(s, l, n), SortedIn(W, l, n))
    BY <1>1, <1>4, <1>7, SllSorted
  <2>2. Becomes(sllSeqs, [sllSeqs EXCEPT ![l] = SortedPut(@, n)], SortedIn(W, l, n))
    BY <1>1, <1>7, NodePlaced DEF W
  <2> QED BY <1>2, <1>7, <2>1, <2>2 DEF s
<1>8. CASE /\ IsFree(sllSeqs, n)
           /\ \E old \in Range(sllSeqs[l]) :
               /\ AfterLast \/ old # Last(sllSeqs[l])
               /\ SllBecomes(SLL_NodeInsertAfter(Sll, n, old))
               /\ sllSeqs' = [sllSeqs EXCEPT ![l] = InsertAt(@, PlaceOf(@, old) + 1, n)]
  <2>1. PICK old \in Range(sllSeqs[l]) :
               /\ AfterLast \/ old # Last(sllSeqs[l])
               /\ SllBecomes(SLL_NodeInsertAfter(Sll, n, old))
               /\ sllSeqs' = [sllSeqs EXCEPT ![l] = InsertAt(@, PlaceOf(@, old) + 1, n)]
    BY <1>8
  <2>2. PICK k \in 1 .. Len(W[l]) : W[l][k] = old
    <3>1. W[l] \in Seq(Nodes) /\ old \in Range(W[l])
      BY <1>1, <1>4, SeqFacts
    <3> HIDE DEF W
    <3> QED BY <3>1, RangeOf
  <2>3. PlaceOf(sllSeqs[l], old) = k
    <3>1. PlaceOf(W[l], W[l][k]) = k
      BY <1>1, <1>4, PlaceOfNode
    <3> QED BY <1>4, <2>2, <3>1
  <2>4. k \in 0 .. Len(W[l]) /\ k # Len(W[l]) /\ old = At(W[l], l, k)
    <3>1. k # Len(W[l])
      BY <1>4, <2>1, <2>2 DEF Last
    <3> QED BY <1>1, <1>4, <2>2, <3>1, SeqFacts DEF At
  <2>5. SllRep(SLL_NodeInsertAfter(s, n, old), Inserted(W, l, k, n))
    BY <1>1, <1>4, <1>8, <2>4, SllBetween DEF SLL_NodeInsertAfter
  <2>6. Becomes(sllSeqs, [sllSeqs EXCEPT ![l] = InsertAt(@, k + 1, n)], Inserted(W, l, k, n))
    BY <1>1, <1>8, <2>4, NodePlaced DEF W
  <2> QED BY <1>2, <2>1, <2>3, <2>5, <2>6 DEF s
<1>9. CASE /\ SllBecomes(SLL_NodeUnlist(Sll, l, n))
           /\ sllSeqs' = [sllSeqs EXCEPT ![l] = RemoveFirst(@, n)]
  <2>1. CASE n \notin Range(W[l])
    <3>1. SLL_NodeUnlist(s, l, n) = s
      BY <1>1, <1>4, <2>1, SllUnlist
    <3>2. RemoveFirst(sllSeqs[l], n) = sllSeqs[l]
      BY <1>1, <1>4, <2>1, RemoveFirstAt
    <3>3. sllSeqs' = sllSeqs
      BY <1>9, <3>2
    <3>4. Becomes(sllSeqs, sllSeqs, W)
      BY DEF Becomes, W
    <3> QED BY <1>1, <1>2, <1>9, <3>1, <3>3, <3>4 DEF s
  <2>2. CASE n \in Range(W[l])
    <3>1. PICK k \in 1 .. Len(W[l]) : W[l][k] = n
      <4>1. W[l] \in Seq(Nodes)
        BY <1>1, <1>4, SeqFacts
      <4> HIDE DEF W
      <4> QED BY <2>2, <4>1, RangeOf
    <3>2. SllRep(SLL_NodeUnlist(s, l, W[l][k]), Removed(W, l, k))
      BY <1>1, <1>4, SllUnlist
    <3>3. RemoveFirst(sllSeqs[l], n) = RemoveAt(sllSeqs[l], k)
      BY <1>1, <1>4, <3>1, RemoveFirstAt
    <3>4. Becomes(sllSeqs, [sllSeqs EXCEPT ![l] = RemoveAt(@, k)], Removed(W, l, k))
      BY <1>1, NodeTaken DEF W
    <3> QED BY <1>2, <1>9, <3>1, <3>2, <3>3, <3>4 DEF s
  <2> QED BY <2>1, <2>2
<1> QED BY <1>3, <1>5, <1>6, <1>7, <1>8, <1>9, Zenon

LEMMA SllWholeStep ==
  ASSUME sllSeqs \in [Lists -> Seq(Nodes)], SllRep(Sll, Whole(sllSeqs)), SllWhole
  PROVE  sllSeqs' \in [Lists -> Seq(Nodes)] /\ SllRep(Sll', Whole(sllSeqs'))
<1> DEFINE W == Whole(sllSeqs)
           s == Sll
<1>1. NodeSeqs(W) /\ SllRep(s, W)
  BY DEF SllRep
<1>2. ASSUME NEW t, NEW new, NEW P, SllBecomes(t), sllSeqs' = new,
             SllRep(t, P), Becomes(sllSeqs, new, P)
      PROVE  sllSeqs' \in [Lists -> Seq(Nodes)] /\ SllRep(Sll', Whole(sllSeqs'))
  <2>1. Sll' = [next |-> t.next, last |-> t.last]
    BY <1>2 DEF SllBecomes, Sll
  <2>2. t = [next |-> t.next, last |-> t.last]
    BY <1>2 DEF SllRep, SllStates
  <2>3. SllRep(Sll', P)
    BY <1>2, <2>1, <2>2
  <2> QED BY <1>2, <2>3 DEF Becomes
<1>3. PICK l \in Lists :
    \/ /\ ~SLL_IsEmpty(Sll, l)
       /\ \/ /\ SllBecomes(SLL_PopFront(Sll, l))
             /\ sllSeqs' = [sllSeqs EXCEPT ![l] = Tail(@)]
          \/ /\ SllBecomes(SLL_PopBack(Sll, l))
             /\ sllSeqs' = [sllSeqs EXCEPT ![l] = Front(@)]
    \/ /\ SllBecomes(SLL_PopAll(Sll, l))
       /\ sllSeqs' = [sllSeqs EXCEPT ![l] = <<>>]
    \/ \E m \in Lists \ {l} :
         /\ SllBecomes(SLL_AppendListToBack(Sll, l, m))
         /\ sllSeqs' = [sllSeqs EXCEPT ![l] = @ \o sllSeqs[m], ![m] = <<>>]
    \/ /\ SllBecomes(SLL_SortList(Sll, l))
       /\ sllSeqs' = [sllSeqs EXCEPT ![l] = PutAll(@)]
  BY Zenon DEF SllWhole
<1>4. l \in Dummies /\ W[l] = sllSeqs[l] /\ W[TmpList] = <<>>
  BY <1>1, WholeFacts
<1> HIDE DEF W, s
<1>5. CASE /\ ~SLL_IsEmpty(Sll, l)
           /\ SllBecomes(SLL_PopFront(Sll, l))
           /\ sllSeqs' = [sllSeqs EXCEPT ![l] = Tail(@)]
  <2>1. W[l] # <<>>
    <3>1. SllAnswers(s, W, l)
      BY <1>1, <1>4, SllQueries
    <3> QED BY <1>5, <3>1 DEF SllAnswers, s
  <2>2. SllRep(SLL_PopFront(s, l), Removed(W, l, 1))
    BY <1>1, <1>4, <2>1, SllPopFront
  <2>3. Becomes(sllSeqs, [sllSeqs EXCEPT ![l] = Tail(@)], Removed(W, l, 1))
    BY <1>1, <2>1, NodeTaken DEF W
  <2> QED BY <1>2, <1>5, <2>2, <2>3 DEF s
<1>6. CASE /\ ~SLL_IsEmpty(Sll, l)
           /\ SllBecomes(SLL_PopBack(Sll, l))
           /\ sllSeqs' = [sllSeqs EXCEPT ![l] = Front(@)]
  <2>1. W[l] # <<>>
    <3>1. SllAnswers(s, W, l)
      BY <1>1, <1>4, SllQueries
    <3> QED BY <1>6, <3>1 DEF SllAnswers, s
  <2>2. SllRep(SLL_PopBack(s, l), Removed(W, l, Len(W[l])))
    BY <1>1, <1>4, <2>1, SllPopBack
  <2>3. Becomes(sllSeqs, [sllSeqs EXCEPT ![l] = Front(@)], Removed(W, l, Len(W[l])))
    BY <1>1, <2>1, NodeTaken DEF W
  <2> QED BY <1>2, <1>6, <2>2, <2>3 DEF s
<1>7. CASE /\ SllBecomes(SLL_PopAll(Sll, l))
           /\ sllSeqs' = [sllSeqs EXCEPT ![l] = <<>>]
  <2>1. SllRep(SLL_PopAll(s, l), Emptied(W, l))
    BY <1>1, <1>4, SllPopAll
  <2>2. Becomes(sllSeqs, [sllSeqs EXCEPT ![l] = <<>>], Emptied(W, l))
    BY <1>1, NodeTaken DEF W
  <2> QED BY <1>2, <1>7, <2>1, <2>2 DEF s
<1>8. CASE \E m \in Lists \ {l} :
             /\ SllBecomes(SLL_AppendListToBack(Sll, l, m))
             /\ sllSeqs' = [sllSeqs EXCEPT ![l] = @ \o sllSeqs[m], ![m] = <<>>]
  <2>1. PICK m \in Lists \ {l} :
             /\ SllBecomes(SLL_AppendListToBack(Sll, l, m))
             /\ sllSeqs' = [sllSeqs EXCEPT ![l] = @ \o sllSeqs[m], ![m] = <<>>]
    BY <1>8
  <2>2. m \in Dummies /\ m \in Lists /\ l # m
    BY DEF Dummies
  <2>3. SllRep(SLL_AppendListToBack(s, l, m), Appended(W, l, m))
    BY <1>1, <1>4, <2>2, SllAppend
  <2>4. Becomes(sllSeqs, [sllSeqs EXCEPT ![l] = @ \o sllSeqs[m], ![m] = <<>>], Appended(W, l, m))
    BY <1>1, <2>2, ListAppended DEF W
  <2> QED BY <1>2, <2>1, <2>3, <2>4 DEF s
<1>9. CASE /\ SllBecomes(SLL_SortList(Sll, l))
           /\ sllSeqs' = [sllSeqs EXCEPT ![l] = PutAll(@)]
  <2>1. SllRep(SLL_SortList(s, l), SortedAllFront(W, l))
    BY <1>1, <1>4, SllSortAll
  <2>2. NodeSeqs(SortedAllFront(W, l))
    BY <2>1 DEF SllRep
  <2>3. Becomes(sllSeqs, [sllSeqs EXCEPT ![l] = PutAll(@)], SortedAllFront(W, l))
    BY <2>2, ListSorted DEF W
  <2> QED BY <1>2, <1>9, <2>1, <2>3 DEF s
<1> QED BY <1>3, <1>5, <1>6, <1>7, <1>8, <1>9, Zenon

LEMMA ListStep ==
  ASSUME ~AfterLast, ListInv, ListNext \/ UNCHANGED listVars
  PROVE  ListInv'
<1> USE DEF ListInv
<1>1. CASE (DllNode \/ DllWhole) /\ UNCHANGED sllVars
  <2>1. dllSeqs' \in [Lists -> Seq(Nodes)] /\ DllRep(dllCells', Whole(dllSeqs'))
    BY <1>1, DllNodeStep, DllWholeStep
  <2>2. Sll' = Sll /\ sllSeqs' = sllSeqs
    BY <1>1 DEF sllVars, Sll
  <2> QED BY <2>1, <2>2
<1>2. CASE (SllNode \/ SllWhole) /\ UNCHANGED dllVars
  <2>1. sllSeqs' \in [Lists -> Seq(Nodes)] /\ SllRep(Sll', Whole(sllSeqs'))
    BY <1>2, SllNodeStep, SllWholeStep
  <2>2. dllCells' = dllCells /\ dllSeqs' = dllSeqs
    BY <1>2 DEF dllVars
  <2> QED BY <2>1, <2>2
<1>3. CASE UNCHANGED listVars
  <2>1. Sll' = Sll /\ sllSeqs' = sllSeqs /\ dllCells' = dllCells /\ dllSeqs' = dllSeqs
    BY <1>3 DEF listVars, Sll
  <2> QED BY <2>1
<1> QED BY <1>1, <1>2, <1>3 DEF ListNext

\* What a query reads is what the sequence says.
LEMMA DllReads ==
  ASSUME ListInv PROVE DllHoldsSequence
<1> DEFINE W == Whole(dllSeqs)
           s == dllCells
<1>1. NodeSeqs(W) /\ DllRep(s, W) /\ dllSeqs \in [Lists -> Seq(Nodes)]
  BY DEF ListInv, DllRep
<1>2. ASSUME NEW l \in Lists
      PROVE /\ NodesFrom(DllNext, l) = dllSeqs[l]
            /\ NodesFrom(DllPrev, l) = Reverse(dllSeqs[l])
            /\ \A i \in 0 .. Cardinality(Nodes) :
                 DLL_GetNodeAtIdx(dllCells, l, i) = ItemAt(dllSeqs[l], i + 1)
            /\ DLL_GetFront(dllCells, l) = ItemAt(dllSeqs[l], 1)
            /\ DLL_GetBack(dllCells, l) = ItemAt(dllSeqs[l], Len(dllSeqs[l]))
            /\ \A n \in Nodes :
                 /\ DLL_IsListed(dllCells, l, n) <=> n \in Range(dllSeqs[l])
                 /\ DLL_ForEachNode(dllCells, l, n) = UpTo(dllSeqs[l], n)
  <2>1. l \in Dummies /\ W[l] = dllSeqs[l]
    BY <1>1, WholeFacts
  <2>2. DllAnswers(s, W, l)
    <3> HIDE DEF W, s
    <3> QED BY <1>1, <2>1, DllQueries
  <2>3. DLL_Nodes(s, l) = dllSeqs[l] /\ NodesFrom(DllPrev, l) = Reverse(dllSeqs[l])
    BY <2>1, <2>2 DEF DllAnswers, DllPrev
  <2>4. NodesFrom(DllNext, l) = dllSeqs[l]
    BY <2>3 DEF DLL_Nodes, DllNext
  <2>5. Len(dllSeqs[l]) \in Nat /\ Cardinality(Nodes) \in Nat /\ Len(dllSeqs[l]) <= Cardinality(Nodes)
    <3>1. Cardinality(Nodes) \in Nat /\ Len(W[l]) <= Cardinality(Nodes) /\ Len(W[l]) \in Nat
      <4> HIDE DEF W
      <4> QED BY <1>1, <2>1, ListLength, SeqFacts
    <3> QED BY <2>1, <3>1
  <2>6. \A i \in 0 .. Cardinality(Nodes) :
          DLL_GetNodeAtIdx(dllCells, l, i) = ItemAt(dllSeqs[l], i + 1)
    <3> TAKE i \in 0 .. Cardinality(Nodes)
    <3>1. i < Len(dllSeqs[l]) <=> i + 1 \in 1 .. Len(dllSeqs[l])
      BY <2>5
    <3> QED BY <2>3, <3>1 DEF DLL_GetNodeAtIdx, DLL_Size, ItemAt
  <2>7. /\ DLL_GetFront(dllCells, l) = ItemAt(dllSeqs[l], 1)
        /\ DLL_GetBack(dllCells, l) = ItemAt(dllSeqs[l], Len(dllSeqs[l]))
    <3>1. CASE dllSeqs[l] = <<>>
      BY <2>1, <2>2, <3>1 DEF DllAnswers, ItemAt
    <3>2. CASE dllSeqs[l] # <<>>
      <4>1. Len(dllSeqs[l]) # 0
        BY <1>1, <3>2, EmptySeq
      <4>2. 1 \in 1 .. Len(dllSeqs[l]) /\ Len(dllSeqs[l]) \in 1 .. Len(dllSeqs[l])
        BY <2>5, <4>1
      <4> QED BY <2>1, <2>2, <3>2, <4>2 DEF DllAnswers, ItemAt
    <3> QED BY <3>1, <3>2
  <2>8. \A n \in Nodes :
          /\ DLL_IsListed(dllCells, l, n) <=> n \in Range(dllSeqs[l])
          /\ DLL_ForEachNode(dllCells, l, n) = UpTo(dllSeqs[l], n)
    BY <2>3 DEF DLL_IsListed, DLL_ForEachNode
  <2> QED BY <2>3, <2>4, <2>6, <2>7, <2>8
<1>3. ASSUME NEW n \in Nodes
      PROVE  /\ IsFree(dllSeqs, n) <=> dllCells[n] = Unlinked
             /\ IsFree(dllSeqs, n) <=> ~DLL_NodeIsListed(dllCells, n)
  <2>1. IsFree(dllSeqs, n) <=> InNone(W, n)
    BY <1>1, WholeFacts
  <2>2. CASE InNone(W, n)
    <3>1. s[n] = Unlinked
      BY <1>1, <2>2 DEF DllRep
    <3> QED BY <2>1, <2>2, <3>1 DEF DLL_NodeIsListed, Unlinked
  <2>3. CASE ~InNone(W, n)
    <3>0. PICK l \in Dummies : \E k \in 1 .. Len(W[l]) : W[l][k] = n
      BY <2>3 DEF InNone
    <3>1. PICK k \in 1 .. Len(W[l]) : W[l][k] = n
      BY <3>0
    <3> HIDE DEF W, s
    <3>2. Len(W[l]) \in Nat /\ At(W[l], l, k) = n
      BY <1>1, <3>1, SeqFacts DEF At
    <3> DEFINE h == k - 1
    <3>3. h \in 0 .. Len(W[l]) /\ k \in 0 .. Len(W[l]) /\ h + 1 = k /\ k + 1 \in 0 .. Len(W[l]) + 1
          /\ h # k
      BY <3>2
    <3> HIDE DEF h
    <3>4. s[n].next = At(W[l], l, k + 1) /\ At(W[l], l, k + 1) \in ListCells
      BY <1>1, <3>2, <3>3, DllNeighbours
    <3>5. s[n].prev = At(W[l], l, h) /\ At(W[l], l, h) \in ListCells
      <4>1. s[At(W[l], l, h + 1)].prev = At(W[l], l, h) /\ At(W[l], l, h) \in ListCells
        BY <1>1, <3>3, DllNeighbours
      <4> QED BY <3>2, <3>3, <4>1
    <3>6. Null \notin ListCells /\ l \notin Nodes
      BY ListsAssumption
    <3>7. s[n].prev # n
      <4>1. At(W[l], l, h) # At(W[l], l, k)
        BY <1>1, <3>3, AtDistinct
      <4> QED BY <3>2, <3>5, <4>1
    <3>8. s[n].next # n
      <4>1. CASE k = Len(W[l])
        <5>1. At(W[l], l, k + 1) = l
          BY <1>1, <4>1, AtEnds
        <5> QED BY <3>4, <3>6, <5>1
      <4>2. CASE k # Len(W[l])
        <5> DEFINE m == k + 1
        <5>1. m \in 0 .. Len(W[l]) /\ m # k
          BY <3>2, <3>3, <4>2
        <5> HIDE DEF m
        <5>2. At(W[l], l, m) # At(W[l], l, k)
          BY <1>1, <3>3, <5>1, AtDistinct
        <5> QED BY <3>2, <3>4, <5>2 DEF m
      <4> QED BY <4>1, <4>2
    <3>9. s[n] # Unlinked
      BY <3>4, <3>6 DEF Unlinked
    <3> QED BY <2>1, <2>3, <3>4, <3>5, <3>6, <3>7, <3>8, <3>9 DEF DLL_NodeIsListed, s
  <2> QED BY <2>2, <2>3
<1> QED BY <1>2, <1>3 DEF DllHoldsSequence

LEMMA SllReads ==
  ASSUME ListInv PROVE SllHoldsSequence
<1> DEFINE W == Whole(sllSeqs)
           s == Sll
<1>1. NodeSeqs(W) /\ SllRep(s, W) /\ sllSeqs \in [Lists -> Seq(Nodes)]
  BY DEF ListInv, SllRep
<1> SUFFICES ASSUME NEW l \in Lists
             PROVE /\ NodesFrom(sllNext, l) = sllSeqs[l]
                   /\ sllNext[sllLast[l]] = l
                   /\ sllLast[l] = Last(<<l>> \o sllSeqs[l])
                   /\ SLL_GetFront(Sll, l) = ItemAt(sllSeqs[l], 1)
                   /\ SLL_GetBack(Sll, l) = ItemAt(sllSeqs[l], Len(sllSeqs[l]))
                   /\ \A i \in 0 .. Cardinality(Nodes) :
                        SLL_GetNodeAtIdx(Sll, l, i) = ItemAt(sllSeqs[l], i + 1)
                   /\ \A n \in Nodes :
                        /\ SLL_IsListed(Sll, l, n) <=> n \in Range(sllSeqs[l])
                        /\ SLL_ForEachNode(Sll, l, n) = UpTo(sllSeqs[l], n)
  BY Zenon DEF SllHoldsSequence
<1>2. l \in Dummies /\ W[l] = sllSeqs[l]
  BY <1>1, WholeFacts
<1>3. SllAnswers(s, W, l)
  <2> HIDE DEF W, s
  <2> QED BY <1>1, <1>2, SllQueries
<1>4. SLL_Nodes(s, l) = sllSeqs[l] /\ sllLast[l] = At(sllSeqs[l], l, Len(sllSeqs[l]))
  BY <1>2, <1>3 DEF SllAnswers, Sll
<1>5. NodesFrom(sllNext, l) = sllSeqs[l]
  BY <1>4 DEF SLL_Nodes, Sll
<1>6. Len(sllSeqs[l]) \in Nat /\ Cardinality(Nodes) \in Nat /\ Len(sllSeqs[l]) <= Cardinality(Nodes)
  <2>1. Cardinality(Nodes) \in Nat /\ Len(W[l]) <= Cardinality(Nodes) /\ Len(W[l]) \in Nat
    <3> HIDE DEF W
    <3> QED BY <1>1, <1>2, ListLength, SeqFacts
  <2> QED BY <1>2, <2>1
<1>7. sllNext[sllLast[l]] = l
  <2> DEFINE k == Len(W[l])
  <2>1. k \in 0 .. Len(W[l]) /\ At(W[l], l, k + 1) = l
    BY <1>1, <1>2, <1>6, AtEnds
  <2> HIDE DEF k, W
  <2>2. s.next[At(W[l], l, k)] = At(W[l], l, k + 1)
    BY <1>1, <1>2, <2>1, SllNeighbours
  <2> QED BY <1>2, <1>4, <2>1, <2>2 DEF Sll, k
<1>8. sllLast[l] = Last(<<l>> \o sllSeqs[l])
  <2> DEFINE e == <<l>>
             q == sllSeqs[l]
             w == e \o q
             m == Len(q)
             C == ListCells
  <2>1. e \in Seq(C) /\ Len(e) = 1 /\ e[1] = l /\ q \in Seq(C)
    <3>1. l \in C /\ Nodes \subseteq C
      BY <1>2 DEF ListCells
    <3>2. q \in Seq(Nodes)
      BY <1>1
    <3> HIDE DEF q, C
    <3> QED BY <3>1, <3>2
  <2>2. m \in Nat /\ 1 \in Nat /\ Len(q) = m
    BY <1>6
  <2> HIDE DEF e, q, C, m
  <2>3. Glued(C, w, e, q, 1, m)
    BY <2>1, <2>2, ConcatAt
  <2> HIDE DEF w
  <2>4. Last(w) = w[1 + m]
    BY <2>3 DEF Glued, Last
  <2>5. CASE m = 0
    <3>1. w[1] = l
      BY <2>1, <2>3 DEF Glued
    <3>2. At(q, l, m) = l
      BY <2>2, <2>5 DEF At
    <3> QED BY <1>4, <2>2, <2>4, <2>5, <3>1, <3>2 DEF q, w, e
  <2>6. CASE m # 0
    <3> DEFINE k == 1 + m
    <3>1. k \in 1 + 1 .. 1 + m /\ k - 1 = m /\ m \in 1 .. m
      BY <2>2, <2>6
    <3> HIDE DEF k
    <3>2. w[k] = q[k - 1]
      BY <2>3, <3>1 DEF Glued
    <3>3. At(q, l, m) = q[m]
      BY <2>2, <3>1 DEF At
    <3> QED BY <1>4, <2>2, <2>4, <3>1, <3>2, <3>3 DEF q, w, e, k
  <2> QED BY <2>5, <2>6
<1>9. /\ SLL_GetFront(Sll, l) = ItemAt(sllSeqs[l], 1)
      /\ SLL_GetBack(Sll, l) = ItemAt(sllSeqs[l], Len(sllSeqs[l]))
  <2>1. CASE sllSeqs[l] = <<>>
    BY <1>2, <1>3, <2>1 DEF SllAnswers, ItemAt
  <2>2. CASE sllSeqs[l] # <<>>
    <3>1. Len(sllSeqs[l]) # 0
      BY <1>1, <2>2, EmptySeq
    <3>2. 1 \in 1 .. Len(sllSeqs[l]) /\ Len(sllSeqs[l]) \in 1 .. Len(sllSeqs[l])
      BY <1>6, <3>1
    <3> QED BY <1>2, <1>3, <2>2, <3>2 DEF SllAnswers, ItemAt
  <2> QED BY <2>1, <2>2
<1>10. \A i \in 0 .. Cardinality(Nodes) :
         SLL_GetNodeAtIdx(Sll, l, i) = ItemAt(sllSeqs[l], i + 1)
  <2> TAKE i \in 0 .. Cardinality(Nodes)
  <2>1. i < Len(sllSeqs[l]) <=> i + 1 \in 1 .. Len(sllSeqs[l])
    BY <1>6
  <2> QED BY <1>4, <2>1 DEF SLL_GetNodeAtIdx, SLL_Size, ItemAt
<1>11. \A n \in Nodes :
         /\ SLL_IsListed(Sll, l, n) <=> n \in Range(sllSeqs[l])
         /\ SLL_ForEachNode(Sll, l, n) = UpTo(sllSeqs[l], n)
  BY <1>4 DEF SLL_IsListed, SLL_ForEachNode
<1> QED BY <1>5, <1>7, <1>8, <1>9, <1>10, <1>11
=============================================================================
