----------------------------- MODULE SchedLists -----------------------------
(***************************************************************************)
(* The time arithmetic and the sorted lists the task scheduler is built    *)
(* from (task_sched.cpp over dl_list.cpp).                                 *)
(*                                                                         *)
(* Milliseconds and iterations are uint32_t counters that wrap; every      *)
(* comparison in the code is the sign of an int32_t difference.  TimeMod   *)
(* stands for 2^32.  A list is the sequence of its entries, front first;   *)
(* a schedulable that is in no list has no state the code ever reads, so   *)
(* its nextExecutionTime and executionPeriod live in the list entry.       *)
(***************************************************************************)
EXTENDS Integers, Sequences, SequencesExt

CONSTANTS TimeMod,     \* number of values of the wrapping clock (2^32)
          NULL         \* the null pointer, no schedulable

ASSUME TimeModAssumption == TimeMod \in Nat /\ TimeMod > 1

Times == 0 .. (TimeMod - 1)

\* (int32_t)(a - b), NodeCompareCb and the timeDiff of PollTimed
TimeDiff(a, b) ==
  LET d == (a - b) % TimeMod
  IN  IF d < TimeMod \div 2 THEN d ELSE d - TimeMod

\* a uint32_t sum
TimeAdd(t, d) == (t + d) % TimeMod

-----------------------------------------------------------------------------
NodesOf(list) == { list[i].node : i \in DOMAIN list }

\* DLL_BeginFast: the node in front, or the end marker
FirstNode(list) == IF list = << >> THEN NULL ELSE list[1].node

\* pIter->pNext
NodeAfter(list, i) == IF i < Len(list) THEN list[i + 1].node ELSE NULL

\* DLL_NodeUnlist: out of the list it is in, if it is in it
Unlist(list, n) ==
  IF n \in NodesOf(list)
  THEN RemoveAt(list, CHOOSE i \in DOMAIN list : list[i].node = n)
  ELSE list

\* (variant: times compared as plain numbers)
IsInsertPosition_Unsigned(list, at, p) ==
  /\ \A i \in 1 .. (p - 1) : at >= list[i].at
  /\ p <= Len(list) => at < list[p].at

\* DLL_SortedInsert puts a node before the first one that is strictly later,
\* at the end when there is none; this is the position it gets.
IsInsertPosition(list, at, p) ==
  /\ \A i \in 1 .. (p - 1) : TimeDiff(at, list[i].at) >= 0
  /\ p <= Len(list) => TimeDiff(at, list[p].at) < 0

SortedByTime(list) ==
  \A i, j \in DOMAIN list : i < j => TimeDiff(list[j].at, list[i].at) >= 0
=============================================================================
