----------------------------- MODULE NodeLists ------------------------------
(***************************************************************************)
(* The intrusive lists of utils: dl_list.cpp, a ring of doubly linked      *)
(* cells, and sl_list.cpp, a ring of singly linked cells with a pointer to *)
(* the last one.  Both are modelled with their pointers, next to the plain *)
(* sequences of nodes they stand for; the properties compare the two.      *)
(***************************************************************************)
EXTENDS Integers, Sequences, FiniteSets, SequencesExt

CONSTANTS Nodes,      \* DLLNode and SLLNode objects of the application
          Lists,      \* the lists, each named as its dummy node
          TmpList,    \* tmpList of DLL_SortList and SLL_SortList
          Null,       \* the null pointer
          Key(_),     \* what the compare callback compares
          AfterLast   \* SLL_NodeInsertAfter is called for the last node, too

VARIABLES
  dllCells,   \* per cell: pNext and pPrev
  dllSeqs,    \* per list: the nodes that should be in it
  sllNext,    \* per cell: pNext
  sllLast,    \* per list: pLast
  sllSeqs     \* per list: the nodes that should be in it

dllVars == <<dllCells, dllSeqs>>
sllVars == <<sllNext, sllLast, sllSeqs>>
listVars == <<dllCells, dllSeqs, sllNext, sllLast, sllSeqs>>

Dummies == Lists \cup {TmpList}
ListCells == Nodes \cup Dummies
Unlinked == [next |-> Null, prev |-> Null]

\* Objects at addresses of their own, and a callback that compares numbers.
ASSUME ListsAssumption ==
  /\ IsFiniteSet(Nodes) /\ Null \notin ListCells
  /\ Nodes \cap Dummies = {} /\ TmpList \notin Lists
  /\ \A n \in Nodes : Key(n) \in Int

ListInit ==
  /\ dllCells = [c \in ListCells |-> IF c \in Dummies THEN [next |-> c, prev |-> c]
                                                      ELSE Unlinked]
  /\ sllNext = [c \in ListCells |-> IF c \in Dummies THEN c ELSE Null]
  /\ sllLast = [l \in Dummies |-> l]
  /\ dllSeqs = [l \in Lists |-> <<>>] /\ sllSeqs = [l \in Lists |-> <<>>]

\* The nodes met from a dummy node on, where step[c] is the cell after c.
NodesFrom(step, l) ==
  LET met[k \in 0 .. Cardinality(Nodes)] ==
        IF k = 0 THEN <<>>
        ELSE LET c == step[IF k = 1 THEN l ELSE Last(met[k - 1])]
             IN IF Len(met[k - 1]) = k - 1 /\ c \in Nodes
                THEN Append(met[k - 1], c) ELSE met[k - 1]
  IN met[Cardinality(Nodes)]

------------------------------------------------------------------------------
\* The sequences: what each operation should do.

\* Where a sorted insert belongs: after every node whose key is not greater.
SortedPlace(q, n) == Cardinality({i \in 1 .. Len(q) : Key(q[i]) <= Key(n)}) + 1
SortedPut(q, n) == InsertAt(q, SortedPlace(q, n), n)
\* The nodes of q, put one after the other into an empty list.
PutAll(q) ==
  LET put[k \in 0 .. Len(q)] == IF k = 0 THEN <<>> ELSE SortedPut(put[k - 1], q[k])
  IN put[Len(q)]
IsSortedSeq(q) == \A i, j \in 1 .. Len(q) : i < j => Key(q[i]) <= Key(q[j])
PlaceOf(q, n) == CHOOSE i \in 1 .. Len(q) : q[i] = n
Without(seqs, n) == [l \in Lists |-> RemoveFirst(seqs[l], n)]
IsFree(seqs, n) == \A l \in Lists : n \notin Range(seqs[l])

------------------------------------------------------------------------------
\* dl_list.cpp.  Every operation links pairs of neighbours.

DllNext == [c \in ListCells |-> dllCells[c].next]
DllPrev == [c \in ListCells |-> dllCells[c].prev]
Link(s, a, b) == [s EXCEPT ![a].next = b, ![b].prev = a]
DLL_IsEmpty(s, l) == s[l].next = l
DLL_Nodes(s, l) == NodesFrom([c \in ListCells |-> s[c].next], l)

DLL_Size(s, l) == Len(DLL_Nodes(s, l))
DLL_IsListed(s, l, n) == n \in Range(DLL_Nodes(s, l))
DLL_NodeIsListed(s, n) == s[n].next \notin {Null, n} /\ s[n].prev \notin {Null, n}
DLL_GetFront(s, l) == IF DLL_IsEmpty(s, l) THEN Null ELSE s[l].next
DLL_GetBack(s, l) == IF DLL_IsEmpty(s, l) THEN Null ELSE s[l].prev
DLL_GetNodeAtIdx(s, l, i) == IF i < DLL_Size(s, l) THEN DLL_Nodes(s, l)[i + 1] ELSE Null
\* The nodes the callback sees if it asks to stop at one of them.
UpTo(q, stop) == IF stop \in Range(q) THEN SubSeq(q, 1, PlaceOf(q, stop)) ELSE q
DLL_ForEachNode(s, l, stop) == UpTo(DLL_Nodes(s, l), stop)

DLL_PushBack_NoBackLink(s, l, n) ==  \* (variant: forgets pNode->pPrev)
  [s EXCEPT ![s[l].prev].next = n, ![n].next = l, ![l].prev = n]
DLL_PushBack(s, l, n) == Link(Link(s, s[l].prev, n), n, l)
DLL_PushFront(s, l, n) == Link(Link(s, n, s[l].next), l, n)

DLL_NodeUnlist(s, n) ==
  IF s[n].next = Null THEN s
  ELSE [Link(s, s[n].prev, s[n].next) EXCEPT ![n] = Unlinked]

DLL_NodeInsertBefore(s, n, old) ==
  LET t == DLL_NodeUnlist(s, n) IN Link(Link(t, t[old].prev, n), n, old)
DLL_NodeInsertAfter(s, n, old) ==
  LET t == DLL_NodeUnlist(s, n) IN Link(Link(t, n, t[old].next), old, n)

DLL_AppendListToBack(s, l, m) ==
  LET t == IF DLL_IsEmpty(s, m) THEN s
           ELSE Link(Link(s, s[l].prev, s[m].next), s[m].prev, l)
  IN [t EXCEPT ![m] = [next |-> m, prev |-> m]]

\* From the front, before the first greater node; from the back, after the
\* first node that is not greater.
DLL_SortedInsert(s, l, n) ==
  LET q == DLL_Nodes(s, l)
      greater == {i \in 1 .. Len(q) : Key(n) < Key(q[i])}
  IN IF greater = {} THEN DLL_PushBack(s, l, n)
     ELSE DLL_NodeInsertBefore(s, n, q[CHOOSE i \in greater : \A j \in greater : i <= j])
DLL_SortedInsertFromBack(s, l, n) ==
  LET q == Reverse(NodesFrom([c \in ListCells |-> s[c].prev], l))
      notGreater == {i \in 1 .. Len(q) : Key(q[i]) <= Key(n)}
  IN IF notGreater = {} THEN DLL_PushFront(s, l, n)
     ELSE DLL_NodeInsertAfter(s, n, q[CHOOSE i \in notGreater : \A j \in notGreater : j <= i])

DLL_PopFront(s, l) == DLL_NodeUnlist(s, DLL_GetFront(s, l))
DLL_PopBack(s, l) == DLL_NodeUnlist(s, DLL_GetBack(s, l))
DLL_PopAll(s, l) ==
  LET popped[k \in 0 .. DLL_Size(s, l)] == IF k = 0 THEN s ELSE DLL_PopFront(popped[k - 1], l)
  IN popped[DLL_Size(s, l)]

\* The nodes leave tmpList from its back.
DLL_SortList(s, l) ==
  LET t == DLL_AppendListToBack(s, TmpList, l)
      sorted[k \in 0 .. Len(DLL_Nodes(s, l))] ==
        IF k = 0 THEN t
        ELSE LET u == sorted[k - 1]
             IN DLL_SortedInsert(DLL_PopBack(u, TmpList), l, u[TmpList].prev)
  IN sorted[Len(DLL_Nodes(s, l))]

DllNode ==
  \E n \in Nodes, l \in Lists :
    \/ /\ IsFree(dllSeqs, n)
       /\ \/ /\ dllCells' = DLL_PushBack(dllCells, l, n)
             /\ dllSeqs' = [dllSeqs EXCEPT ![l] = Append(@, n)]
          \/ /\ dllCells' = DLL_PushFront(dllCells, l, n)
             /\ dllSeqs' = [dllSeqs EXCEPT ![l] = <<n>> \o @]
          \/ /\ IsSortedSeq(dllSeqs[l])
             /\ \/ dllCells' = DLL_SortedInsert(dllCells, l, n)
                \/ dllCells' = DLL_SortedInsertFromBack(dllCells, l, n)
             /\ dllSeqs' = [dllSeqs EXCEPT ![l] = SortedPut(@, n)]
          \/ \E old \in Range(dllSeqs[l]) :
               \/ /\ dllCells' = DLL_NodeInsertBefore(dllCells, n, old)
                  /\ dllSeqs' = [dllSeqs EXCEPT ![l] = InsertAt(@, PlaceOf(@, old), n)]
               \/ /\ dllCells' = DLL_NodeInsertAfter(dllCells, n, old)
                  /\ dllSeqs' = [dllSeqs EXCEPT ![l] = InsertAt(@, PlaceOf(@, old) + 1, n)]
    \/ /\ dllCells' = DLL_NodeUnlist(dllCells, n)   \* listed or not
       /\ dllSeqs' = Without(dllSeqs, n)

DllWhole ==
  \E l \in Lists :
    \/ /\ ~DLL_IsEmpty(dllCells, l)
       /\ \/ /\ dllCells' = DLL_PopFront(dllCells, l)
             /\ dllSeqs' = [dllSeqs EXCEPT ![l] = Tail(@)]
          \/ /\ dllCells' = DLL_PopBack(dllCells, l)
             /\ dllSeqs' = [dllSeqs EXCEPT ![l] = Front(@)]
    \/ /\ dllCells' = DLL_PopAll(dllCells, l)
       /\ dllSeqs' = [dllSeqs EXCEPT ![l] = <<>>]
    \/ \E m \in Lists \ {l} :
         /\ dllCells' = DLL_AppendListToBack(dllCells, l, m)
         /\ dllSeqs' = [dllSeqs EXCEPT ![l] = @ \o dllSeqs[m], ![m] = <<>>]
    \/ /\ dllCells' = DLL_SortList(dllCells, l)
       /\ dllSeqs' = [dllSeqs EXCEPT ![l] = PutAll(Reverse(@))]

------------------------------------------------------------------------------
\* sl_list.cpp, on s = [next, last].

Sll == [next |-> sllNext, last |-> sllLast]
SLL_IsEmpty(s, l) == s.next[l] = l
SLL_Nodes(s, l) == NodesFrom(s.next, l)
SLL_Size(s, l) == Len(SLL_Nodes(s, l))
SLL_IsListed(s, l, n) == n \in Range(SLL_Nodes(s, l))
SLL_GetFront(s, l) == IF SLL_IsEmpty(s, l) THEN Null ELSE s.next[l]
SLL_GetBack(s, l) == IF SLL_IsEmpty(s, l) THEN Null ELSE s.last[l]
SLL_GetNodeAtIdx(s, l, i) == IF i < SLL_Size(s, l) THEN SLL_Nodes(s, l)[i + 1] ELSE Null
SLL_ForEachNode(s, l, stop) == UpTo(SLL_Nodes(s, l), stop)

SLL_PushBack(s, l, n) ==
  [next |-> [s.next EXCEPT ![s.last[l]] = n, ![n] = l],
   last |-> [s.last EXCEPT ![l] = n]]
SLL_PushFront(s, l, n) ==
  [next |-> [s.next EXCEPT ![n] = s.next[l], ![l] = n],
   last |-> [s.last EXCEPT ![l] = IF @ = l THEN n ELSE @]]
SLL_AppendListToBack(s, l, m) ==
  LET t == IF SLL_IsEmpty(s, m) THEN s
           ELSE [next |-> [s.next EXCEPT ![s.last[l]] = s.next[m], ![s.last[m]] = l],
                 last |-> [s.last EXCEPT ![l] = s.last[m]]]
  IN [next |-> [t.next EXCEPT ![m] = m], last |-> [t.last EXCEPT ![m] = m]]
SLL_SortedInsert(s, l, n) ==
  LET q == SLL_Nodes(s, l)
      greater == {i \in 1 .. Len(q) : Key(n) < Key(q[i])}
      first == CHOOSE i \in greater : \A j \in greater : i <= j
      before == IF first = 1 THEN l ELSE q[first - 1]
  IN IF greater = {} THEN SLL_PushBack(s, l, n)
     ELSE [s EXCEPT !.next = [@ EXCEPT ![n] = s.next[before], ![before] = n]]

SLL_NodeUnlistQuick_KeepLast(s, l, before, n) ==  \* (variant: pLast stays)
  IF s.next[n] = Null \/ s.next[before] # n THEN s
  ELSE [s EXCEPT !.next = [@ EXCEPT ![before] = s.next[n], ![n] = n]]
SLL_NodeUnlistQuick(s, l, before, n) ==
  IF s.next[n] = Null \/ s.next[before] # n THEN s
  ELSE [next |-> [s.next EXCEPT ![before] = s.next[n], ![n] = n],
        last |-> [s.last EXCEPT ![l] = IF @ = n THEN before ELSE @]]
\* The search for the node before goes once round the ring.
SLL_NodeUnlist(s, l, n) ==
  LET q == SLL_Nodes(s, l)
  IN SLL_NodeUnlistQuick(s, l, IF n \in Range(q) /\ PlaceOf(q, n) > 1
                                 THEN q[PlaceOf(q, n) - 1] ELSE l, n)
SLL_PopFront(s, l) ==
  LET n == SLL_GetFront(s, l)
  IN [next |-> [s.next EXCEPT ![l] = s.next[n], ![n] = n],
      last |-> [s.last EXCEPT ![l] = IF @ = n THEN l ELSE @]]
SLL_PopBack(s, l) == SLL_NodeUnlist(s, l, SLL_GetBack(s, l))
SLL_PopAll(s, l) ==
  LET popped[k \in 0 .. SLL_Size(s, l)] == IF k = 0 THEN s ELSE SLL_PopFront(popped[k - 1], l)
  IN popped[SLL_Size(s, l)]
SLL_NodeInsertAfter(s, n, old) ==
  [s EXCEPT !.next = [@ EXCEPT ![n] = s.next[old], ![old] = n]]

\* The nodes leave tmpList from its front.
SLL_SortList(s, l) ==
  LET t == SLL_AppendListToBack(s, TmpList, l)
      sorted[k \in 0 .. Len(SLL_Nodes(s, l))] ==
        IF k = 0 THEN t
        ELSE LET u == sorted[k - 1]
             IN SLL_SortedInsert(SLL_PopFront(u, TmpList), l, u.next[TmpList])
  IN sorted[Len(SLL_Nodes(s, l))]

SllBecomes(s) == sllNext' = s.next /\ sllLast' = s.last

SllNode ==
  \E n \in Nodes, l \in Lists :
    \/ /\ IsFree(sllSeqs, n)
       /\ \/ /\ SllBecomes(SLL_PushBack(Sll, l, n))
             /\ sllSeqs' = [sllSeqs EXCEPT ![l] = Append(@, n)]
          \/ /\ SllBecomes(SLL_PushFront(Sll, l, n))
             /\ sllSeqs' = [sllSeqs EXCEPT ![l] = <<n>> \o @]
          \/ /\ IsSortedSeq(sllSeqs[l])
             /\ SllBecomes(SLL_SortedInsert(Sll, l, n))
             /\ sllSeqs' = [sllSeqs EXCEPT ![l] = SortedPut(@, n)]
          \/ \E old \in Range(sllSeqs[l]) :
               /\ AfterLast \/ old # Last(sllSeqs[l])
               /\ SllBecomes(SLL_NodeInsertAfter(Sll, n, old))
               /\ sllSeqs' = [sllSeqs EXCEPT ![l] = InsertAt(@, PlaceOf(@, old) + 1, n)]
    \/ /\ SllBecomes(SLL_NodeUnlist(Sll, l, n))   \* from this list, if it is there
       /\ sllSeqs' = [sllSeqs EXCEPT ![l] = RemoveFirst(@, n)]

SllWhole ==
  \E l \in Lists :
    \/ /\ ~SLL_IsEmpty(Sll, l)
       /\ \/ /\ SllBecomes(SLL_PopFront(Sll, l))
             /\ sllSeqs' = [sllSeqs EXCEPT ![l] = Tail(@)]
          \/ /\ SllBecomes(SLL_PopBack(Sll, l))
             /\ sllSeqs' = [sllSeqs EXCEPT ![l] = Front(@)]
    \/ /\ SllBecomes(SLL_PopAll(Sll, l))
       /\ sllSeqs' = [sllSeqs EXCEPT ![l] = <<>>]
    \/ \E m \in Lists \ {l} :
         /\ SllBecomes(SLL_AppendListToBack(Sll, l, m))
         /\ sllSeqs' = [sllSeqs EXCEPT ![l] = @ \o sllSeqs[m], ![m] = <<>>]
    \/ /\ SllBecomes(SLL_SortList(Sll, l))
       /\ sllSeqs' = [sllSeqs EXCEPT ![l] = PutAll(@)]

ListNext ==
  \/ (DllNode \/ DllWhole) /\ UNCHANGED sllVars
  \/ (SllNode \/ SllWhole) /\ UNCHANGED dllVars

------------------------------------------------------------------------------
ItemAt(q, i) == IF i \in 1 .. Len(q) THEN q[i] ELSE Null

\* Read forwards and backwards the doubly linked lists hold the nodes they
\* should, every query answers from them, and a node's pointers are null exactly
\* when it is in no list.
DllHoldsSequence ==
  /\ \A l \in Lists : /\ NodesFrom(DllNext, l) = dllSeqs[l]
                      /\ NodesFrom(DllPrev, l) = Reverse(dllSeqs[l])
                      /\ \A i \in 0 .. Cardinality(Nodes) :
                           DLL_GetNodeAtIdx(dllCells, l, i) = ItemAt(dllSeqs[l], i + 1)
                      /\ DLL_GetFront(dllCells, l) = ItemAt(dllSeqs[l], 1)
                      /\ DLL_GetBack(dllCells, l) = ItemAt(dllSeqs[l], Len(dllSeqs[l]))
                      /\ \A n \in Nodes :
                           /\ DLL_IsListed(dllCells, l, n) <=> n \in Range(dllSeqs[l])
                           /\ DLL_ForEachNode(dllCells, l, n) = UpTo(dllSeqs[l], n)
  /\ \A n \in Nodes : /\ IsFree(dllSeqs, n) <=> dllCells[n] = Unlinked
                      /\ IsFree(dllSeqs, n) <=> ~DLL_NodeIsListed(dllCells, n)

\* The singly linked lists hold the nodes they should and the queries answer from
\* them, and pLast is the last node or the dummy: the assertions of
\* SLL_SortedInsert and SLL_PopBack.
SllHoldsSequence ==
  \A l \in Lists : /\ NodesFrom(sllNext, l) = sllSeqs[l]
                   /\ sllNext[sllLast[l]] = l
                   /\ sllLast[l] = Last(<<l>> \o sllSeqs[l])
                   /\ SLL_GetFront(Sll, l) = ItemAt(sllSeqs[l], 1)
                   /\ SLL_GetBack(Sll, l) = ItemAt(sllSeqs[l], Len(sllSeqs[l]))
                   /\ \A i \in 0 .. Cardinality(Nodes) :
                        SLL_GetNodeAtIdx(Sll, l, i) = ItemAt(sllSeqs[l], i + 1)
                   /\ \A n \in Nodes :
                        /\ SLL_IsListed(Sll, l, n) <=> n \in Range(sllSeqs[l])
                        /\ SLL_ForEachNode(Sll, l, n) = UpTo(sllSeqs[l], n)
=============================================================================
