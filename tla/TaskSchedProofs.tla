--------------------------- MODULE TaskSchedProofs ---------------------------
(***************************************************************************)
(* Theorems about TaskSched, for every number of schedulables and events,  *)
(* every batch size and every clock range.                                 *)
(***************************************************************************)
EXTENDS TaskSched, TLAPS, SequenceTheorems, FiniteSetTheorems

LEMMA ModRange == ASSUME NEW a \in Int PROVE a % TimeMod \in Times
  BY TimeModAssumption DEF Times

LEMMA TimeAddType == ASSUME NEW a \in Int, NEW b \in Int PROVE TimeAdd(a, b) \in Times
  BY ModRange DEF TimeAdd

LEMMA TimeDiffType == ASSUME NEW a \in Int, NEW b \in Int PROVE TimeDiff(a, b) \in Int
  BY TimeModAssumption DEF TimeDiff

LEMMA RemoveAtType ==
  ASSUME NEW S, NEW s \in Seq(S), NEW i \in DOMAIN s
  PROVE  RemoveAt(s, i) \in Seq(S)
  BY DEF RemoveAt

LEMMA InsertAtType ==
  ASSUME NEW S, NEW s \in Seq(S), NEW i \in 1 .. (Len(s) + 1), NEW e \in S
  PROVE  InsertAt(s, i, e) \in Seq(S)
  BY DEF InsertAt

LEMMA UnlistType ==
  ASSUME NEW S, NEW s \in Seq(S), NEW n
  PROVE  /\ Unlist(s, n) \in Seq(S)
         /\ s = << >> => Unlist(s, n) = << >>
  BY RemoveAtType DEF Unlist, NodesOf

LEMMA NodeAfterType ==
  ASSUME NEW list, NEW E, list \in Seq(E), \A e \in E : e.node \in Nodes,
         NEW i \in DOMAIN list
  PROVE  NodeAfter(list, i) \in Nodes \cup {NULL}
<1>1. CASE i < Len(list)
  <2>1. list[i + 1] \in E
    BY <1>1
  <2> QED
    BY <1>1, <2>1 DEF NodeAfter
<1>2. CASE ~(i < Len(list))
  BY <1>2 DEF NodeAfter
<1> QED
  BY <1>1, <1>2

LEMMA FirstNodeType ==
  ASSUME NEW list, NEW E, list \in Seq(E), \A e \in E : e.node \in Nodes
  PROVE  FirstNode(list) \in Nodes \cup {NULL}
<1>1. CASE list # << >>
  <2>1. list[1] \in E
    BY <1>1
  <2> QED
    BY <1>1, <2>1 DEF FirstNode
<1>2. CASE list = << >>
  BY <1>2 DEF FirstNode
<1> QED
  BY <1>1, <1>2

\* What the entries of the lists and of the queue are made of.
LEMMA EntryFields ==
  /\ \A e \in OneShotEntry : e.node \in Nodes /\ e.period \in Nat
  /\ \A e \in TimedEntry : e.node \in Nodes /\ e.at \in Times /\ e.period \in Nat
<1>1. Periods \cup Iterations \subseteq Nat
  BY SchedAssumption
<1>2. \A e \in TimedEntry : e.period \in Periods \cup Iterations
  BY DEF TimedEntry
<1> QED
  BY <1>1, <1>2 DEF OneShotEntry, TimedEntry

LEMMA TimesInt == \A t \in Times : t \in Int
  BY DEF Times

LEMMA NextExecutionType ==
  ASSUME NEW e \in TimedEntry, NEW t \in Times
  PROVE  [e EXCEPT !.at = NextExecution(e, t)] \in TimedEntry
<1>1. e.at \in Int /\ e.period \in Int /\ t \in Int
  BY EntryFields, TimesInt
<1>2. TimeDiff(e.at, t) \in Int
  BY <1>1, TimeDiffType
<1>3. TimeAdd(t, 1) \in Times /\ TimeAdd(t, e.period + TimeDiff(e.at, t)) \in Times
  BY <1>1, <1>2, TimeAddType
<1>4. NextExecution(e, t) \in Times
  BY <1>3 DEF NextExecution
<1> QED
  BY <1>4 DEF TimedEntry

LEMMA CollectType ==
  ASSUME mQtl \in Seq(QtlElement), NEW e, e.node \in Nodes, Collect(e)
  PROVE  mQtl' \in Seq(QtlElement)
<1> DEFINE q == [node |-> e.node, isPeriodic |-> e.period # 0]
<1>1. (e.period # 0) \in BOOLEAN
  OBVIOUS
<1>2. q \in QtlElement
  BY <1>1, Zenon DEF QtlElement
<1>3. mQtl' = mQtl \/ mQtl' = Append(mQtl, q)
  BY DEF Collect
<1> HIDE DEF q
<1> QED
  BY <1>2, <1>3

\* The iterator never leaves the nodes of the lists.
LEMMA IterType ==
  ASSUME TypeOK
  PROVE  /\ FirstNode(mOneShotsList) \in Nodes \cup {NULL}
         /\ FirstNode(mTimerBasedList) \in Nodes \cup {NULL}
         /\ FirstNode(mIterationsBasedList) \in Nodes \cup {NULL}
         /\ \A i \in DOMAIN mOneShotsList : NodeAfter(mOneShotsList, i) \in Nodes \cup {NULL}
         /\ \A list \in Seq(TimedEntry) : \A i \in DOMAIN list :
              NodeAfter(list, i) \in Nodes \cup {NULL}
<1>1. /\ mOneShotsList \in Seq(OneShotEntry)
      /\ mTimerBasedList \in Seq(TimedEntry)
      /\ mIterationsBasedList \in Seq(TimedEntry)
  BY DEF TypeOK
<1>2. /\ FirstNode(mOneShotsList) \in Nodes \cup {NULL}
      /\ FirstNode(mTimerBasedList) \in Nodes \cup {NULL}
      /\ FirstNode(mIterationsBasedList) \in Nodes \cup {NULL}
  BY <1>1, EntryFields, FirstNodeType
<1>3. \A i \in DOMAIN mOneShotsList : NodeAfter(mOneShotsList, i) \in Nodes \cup {NULL}
  BY <1>1, EntryFields, NodeAfterType
<1>4. \A list \in Seq(TimedEntry) : \A i \in DOMAIN list :
         NodeAfter(list, i) \in Nodes \cup {NULL}
  BY EntryFields, NodeAfterType
<1> QED
  BY <1>2, <1>3, <1>4

\* One turn of PollTimed over a list of timed entries.
LEMMA PollTimedType ==
  ASSUME TypeOK, NEW list \in Seq(TimedEntry), NEW list2, NEW t \in Times,
         \/ \E i \in DOMAIN list :
              /\ list2 = RemoveAt(list, i)
              /\ cur' = {list[i]}
              /\ pIter' = NodeAfter(list, i)
              /\ mQtl' = mQtl
         \/ /\ \E e \in cur :
                 /\ IF e.period = 0 THEN list2 = list
                    ELSE LET again == [e EXCEPT !.at = NextExecution(e, t)] IN
                         \E p \in 1 .. (Len(list) + 1) :
                           /\ IsInsertPosition(list, again.at, p)
                           /\ list2 = InsertAt(list, p, again)
                 /\ Collect(e)
            /\ cur' = {}
            /\ pIter' = IF Len(mQtl') = MaxTasks THEN NULL ELSE pIter
  PROVE  /\ list2 \in Seq(TimedEntry)
         /\ cur' \in SUBSET TimedEntry
         /\ pIter' \in Nodes \cup {NULL}
         /\ mQtl' \in Seq(QtlElement)
<1>0. /\ mQtl \in Seq(QtlElement) /\ pIter \in Nodes \cup {NULL}
      /\ cur \in SUBSET TimedEntry
  BY DEF TypeOK
<1>1. CASE \E i \in DOMAIN list :
             /\ list2 = RemoveAt(list, i)
             /\ cur' = {list[i]}
             /\ pIter' = NodeAfter(list, i)
             /\ mQtl' = mQtl
  <2>1. PICK i \in DOMAIN list :
             /\ list2 = RemoveAt(list, i)
             /\ cur' = {list[i]}
             /\ pIter' = NodeAfter(list, i)
             /\ mQtl' = mQtl
    BY <1>1
  <2>2. list2 \in Seq(TimedEntry)
    BY <2>1, RemoveAtType
  <2>3. list[i] \in TimedEntry
    BY <2>1
  <2> QED
    BY <1>0, <2>1, <2>2, <2>3, IterType
<1>2. CASE /\ \E e \in cur :
                /\ IF e.period = 0 THEN list2 = list
                   ELSE LET again == [e EXCEPT !.at = NextExecution(e, t)] IN
                        \E p \in 1 .. (Len(list) + 1) :
                          /\ IsInsertPosition(list, again.at, p)
                          /\ list2 = InsertAt(list, p, again)
                /\ Collect(e)
           /\ cur' = {}
           /\ pIter' = IF Len(mQtl') = MaxTasks THEN NULL ELSE pIter
  <2>1. PICK e \in cur :
                /\ IF e.period = 0 THEN list2 = list
                   ELSE LET again == [e EXCEPT !.at = NextExecution(e, t)] IN
                        \E p \in 1 .. (Len(list) + 1) :
                          /\ IsInsertPosition(list, again.at, p)
                          /\ list2 = InsertAt(list, p, again)
                /\ Collect(e)
    BY <1>2
  <2>2. e \in TimedEntry
    BY <1>0
  <2> DEFINE again == [e EXCEPT !.at = NextExecution(e, t)]
  <2>3. again \in TimedEntry
    BY <2>2, NextExecutionType
  <2>4. list2 = list \/ \E p \in 1 .. (Len(list) + 1) : list2 = InsertAt(list, p, again)
    BY <2>1
  <2> HIDE DEF again
  <2>5. list2 \in Seq(TimedEntry)
    BY <2>3, <2>4, InsertAtType
  <2>6. mQtl' \in Seq(QtlElement)
    BY <1>0, <2>1, <2>2, EntryFields, CollectType
  <2> QED
    BY <1>0, <1>2, <2>5, <2>6
<1> QED
  BY <1>1, <1>2

LEMMA TypeInit == Init => TypeOK
  BY SchedAssumption, TimeModAssumption DEF Init, TypeOK, Times, NoWait

LEMMA TypeStep == TypeOK /\ [Next]_vars => TypeOK'
<1> SUFFICES ASSUME TypeOK, [Next]_vars PROVE TypeOK'
  OBVIOUS
<1> USE DEF vars, lists, times, poller, clients, flags, Goto
<1>1. CASE CheckRunning
  BY <1>1 DEF TypeOK, CheckRunning
<1>2. CASE TestEnabled
  BY <1>2 DEF TypeOK, TestEnabled
<1>3. CASE ReadEvents
  BY <1>3 DEF TypeOK, ReadEvents
<1>4. CASE ClearEvents
  BY <1>4 DEF TypeOK, ClearEvents
<1>5. CASE RunEvent
  BY <1>5 DEF TypeOK, RunEvent
<1>6. CASE EventsDone
  BY <1>6 DEF TypeOK, EventsDone
<1>7. CASE EnterPoll
  BY <1>7, IterType DEF TypeOK, EnterPoll
<1>8. CASE BeginIterations
  BY <1>8, IterType DEF TypeOK, BeginIterations
<1>9. CASE BeginTimers
  BY <1>9, IterType DEF TypeOK, BeginTimers
<1>10. CASE ExitPoll
  BY <1>10, TimeModAssumption DEF TypeOK, ExitPoll, Times
<1>11. CASE TakeToken
  BY <1>11, TimeModAssumption DEF TypeOK, TakeToken, NoWait, Times
<1>12. CASE WaitTimeout
  BY <1>12, TimeModAssumption DEF TypeOK, WaitTimeout, NoWait, Times
<1>13. CASE TriggerEvent
  BY <1>13 DEF TypeOK, TriggerEvent, Signal
<1>14. CASE EnablePrio
  BY <1>14 DEF TypeOK, EnablePrio
<1>15. CASE DisablePrio
  BY <1>15 DEF TypeOK, DisablePrio
<1>16. CASE Quit
  BY <1>16, ZenonT(30) DEF TypeOK, Quit
<1>17. CASE CtlSignal
  BY <1>17 DEF TypeOK, CtlSignal, Signal
<1>18. CASE BeginPoll
  <2>1. mIterationsCounter' \in Times
    BY <1>18, TimeAddType, TimesInt DEF TypeOK, BeginPoll
  <2> QED
    BY <1>18, <2>1 DEF TypeOK, BeginPoll
<1>19. CASE CollectOneShot
  <2>1. PICK i \in DOMAIN mOneShotsList :
          /\ mOneShotsList' = IF mOneShotsList[i].period = 0
                              THEN RemoveAt(mOneShotsList, i) ELSE mOneShotsList
          /\ Collect(mOneShotsList[i])
          /\ pIter' = IF Len(mQtl') = MaxTasks THEN NULL ELSE NodeAfter(mOneShotsList, i)
    BY <1>19 DEF CollectOneShot
  <2>2. mOneShotsList \in Seq(OneShotEntry) /\ mQtl \in Seq(QtlElement)
    BY DEF TypeOK
  <2>3. mOneShotsList' \in Seq(OneShotEntry)
    BY <2>1, <2>2, RemoveAtType
  <2>4. mOneShotsList[i].node \in Nodes
    BY <2>2, EntryFields
  <2>5. mQtl' \in Seq(QtlElement)
    BY <2>1, <2>2, <2>4, CollectType
  <2>6. pIter' \in Nodes \cup {NULL}
    BY <2>1, IterType
  <2> QED
    BY <1>19, <2>3, <2>5, <2>6 DEF TypeOK, CollectOneShot
<1>20. CASE PollIterations
  <2>1. CASE \/ PollTimedUnlist(mIterationsBasedList, mIterationsCounter)
             \/ PollTimedRelist(mIterationsBasedList, mIterationsCounter)
    <3>1. mIterationsBasedList \in Seq(TimedEntry) /\ mIterationsCounter \in Times
      BY DEF TypeOK
    <3>2. /\ mIterationsBasedList' \in Seq(TimedEntry)
          /\ cur' \in SUBSET TimedEntry
          /\ pIter' \in Nodes \cup {NULL}
          /\ mQtl' \in Seq(QtlElement)
      BY <2>1, <3>1, PollTimedType DEF PollTimedUnlist, PollTimedRelist
    <3> QED
      BY <1>20, <2>1, <3>2
         DEF TypeOK, PollIterations, PollTimedUnlist, PollTimedRelist, PollTimedDone
  <2>2. CASE PollTimedDone(mIterationsBasedList, mIterationsCounter, "beginTimers")
    BY <2>2 DEF TypeOK, PollTimedDone
  <2> QED
    BY <1>20, <2>1, <2>2 DEF PollIterations
<1>21. CASE PollTimers
  <2>1. CASE \/ PollTimedUnlist(mTimerBasedList, mCurrentTime)
             \/ PollTimedRelist(mTimerBasedList, mCurrentTime)
    <3>1. mTimerBasedList \in Seq(TimedEntry) /\ mCurrentTime \in Times
      BY DEF TypeOK
    <3>2. /\ mTimerBasedList' \in Seq(TimedEntry)
          /\ cur' \in SUBSET TimedEntry
          /\ pIter' \in Nodes \cup {NULL}
          /\ mQtl' \in Seq(QtlElement)
      BY <2>1, <3>1, PollTimedType DEF PollTimedUnlist, PollTimedRelist
    <3> QED
      BY <1>21, <2>1, <3>2
         DEF TypeOK, PollTimers, PollTimedUnlist, PollTimedRelist, PollTimedDone
  <2>2. CASE PollTimedDone(mTimerBasedList, mCurrentTime, "exit")
    BY <2>2 DEF TypeOK, PollTimedDone
  <2> QED
    BY <1>21, <2>1, <2>2 DEF PollTimers
<1>22. CASE RunTask
  BY <1>22 DEF TypeOK, RunTask
<1>23. CASE Decide
  <2>1. TimeToNextRun \in Int
    <3>1. CASE mTimerBasedList # << >>
      <4>1. mTimerBasedList[1].at \in Times /\ clock \in Times
        BY <3>1, EntryFields DEF TypeOK
      <4>2. TimeDiff(mTimerBasedList[1].at, clock) \in Int
        BY <4>1, TimesInt, TimeDiffType
      <4> QED
        BY <4>2 DEF TimeToNextRun, NoWait
    <3>2. CASE mTimerBasedList = << >>
      BY <3>2 DEF TimeToNextRun, NoWait
    <3> QED
      BY <3>1, <3>2
  <2> QED
    BY <1>23, <2>1 DEF TypeOK, Decide
<1>24. ASSUME NEW n \in Nodes, AddOneShot(n) PROVE TypeOK'
  <2>1. [node |-> n, period |-> 0] \in OneShotEntry
    BY DEF OneShotEntry
  <2>2. mOneShotsList' \in Seq(OneShotEntry)
    BY <1>24, <2>1 DEF TypeOK, AddOneShot
  <2> QED
    BY <1>24, <2>2 DEF TypeOK, AddOneShot, SignalIfFront, Signal
<1>25. ASSUME NEW n \in Nodes, NEW period \in Periods, NEW offset \in Offsets,
              StampTimer(n, period, offset)
       PROVE  TypeOK'
  <2>1. TimeAdd(clock, offset) \in Times
    BY SchedAssumption, TimeAddType, TimesInt DEF TypeOK
  <2>2. [list |-> "timer", entry |->
          [node |-> n, at |-> TimeAdd(clock, offset), period |-> period]] \in StampedEntry
    BY <2>1 DEF StampedEntry, TimedEntry
  <2> QED
    BY <1>25, <2>2 DEF TypeOK, StampTimer
<1>26. ASSUME NEW s \in stamped, InsertTimer(s) PROVE TypeOK'
  <2>1. s.entry \in TimedEntry
    BY DEF TypeOK, StampedEntry
  <2>2. mTimerBasedList' \in Seq(TimedEntry)
    BY <1>26, <2>1, InsertAtType DEF TypeOK, InsertTimer
  <2> QED
    BY <1>26, <2>2 DEF TypeOK, InsertTimer, SignalIfFront, Signal
<1>27. ASSUME NEW n \in Nodes, AddIdlePoller(n) PROVE TypeOK'
  <2>1. [node |-> n, period |-> 1] \in OneShotEntry
    BY DEF OneShotEntry
  <2>2. mOneShotsList' \in Seq(OneShotEntry)
    BY <1>27, <2>1 DEF TypeOK, AddIdlePoller
  <2> QED
    BY <1>27, <2>2 DEF TypeOK, AddIdlePoller
<1>28. ASSUME NEW n \in Nodes, NEW k \in Iterations, StampIdlePoller(n, k) PROVE TypeOK'
  <2>1. TimeAdd(mIterationsCounter, k) \in Times
    BY SchedAssumption, TimeAddType, TimesInt DEF TypeOK
  <2>2. [list |-> "iteration", entry |->
          [node |-> n, at |-> TimeAdd(mIterationsCounter, k), period |-> k]] \in StampedEntry
    BY <2>1 DEF StampedEntry, TimedEntry
  <2> QED
    BY <1>28, <2>2 DEF TypeOK, StampIdlePoller
<1>29. ASSUME NEW s \in stamped, InsertIdlePoller(s) PROVE TypeOK'
  <2>1. s.entry \in TimedEntry
    BY DEF TypeOK, StampedEntry
  <2>2. mIterationsBasedList' \in Seq(TimedEntry)
    BY <1>29, <2>1, InsertAtType DEF TypeOK, InsertIdlePoller
  <2> QED
    BY <1>29, <2>2 DEF TypeOK, InsertIdlePoller
<1>30. ASSUME NEW n \in Nodes, Cancel(n) \/ CancelScheduledTask(n) PROVE TypeOK'
  <2>1. /\ mOneShotsList' \in Seq(OneShotEntry)
        /\ mTimerBasedList' \in Seq(TimedEntry)
        /\ mIterationsBasedList' \in Seq(TimedEntry)
    BY <1>30, UnlistType DEF TypeOK, Cancel, CancelScheduledTask, UnlistEverywhere
  <2> QED
    BY <1>30, <2>1 DEF TypeOK, Cancel, CancelScheduledTask
<1>31. ASSUME NEW n \in Nodes, TestScheduled(n) PROVE TypeOK'
  BY <1>31 DEF TypeOK, TestScheduled
<1>32. ASSUME NEW e \in Events, LoadMask(e) PROVE TypeOK'
  BY <1>32 DEF TypeOK, LoadMask
<1>33. ASSUME NEW e \in Events, TriggerEventFromIsr(e) PROVE TypeOK'
  BY <1>33 DEF TypeOK, TriggerEventFromIsr, Signal
<1>34. CASE Tick
  <2>1. clock' \in Times
    BY <1>34, TimeAddType, TimesInt DEF TypeOK, Tick
  <2> QED
    BY <1>34, <2>1 DEF TypeOK, Tick
<1>35. CASE UNCHANGED vars
  BY <1>35 DEF TypeOK
<1>36. CASE Poller
  BY <1>36, <1>1, <1>2, <1>3, <1>4, <1>5, <1>6, <1>7, <1>8, <1>9, <1>10, <1>11, <1>12,
     <1>18, <1>19, <1>20, <1>21, <1>22, <1>23 DEF Poller
<1>37. CASE Finish
  BY <1>37, <1>13, <1>17, <1>26, <1>29, <1>30 DEF Finish
<1>38. CASE Call
  BY <1>38, <1>14, <1>15, <1>16, <1>24, <1>25, <1>27, <1>28, <1>30, <1>31, <1>32, <1>33
     DEF Call
<1> QED
  BY <1>34, <1>35, <1>36, <1>37, <1>38 DEF Next

\* Every variable keeps its type: lists hold entries, times stay within the clock's
\* range, the semaphore never holds more than its one token, whatever the order of
\* the API calls and the polling thread's steps.
THEOREM TypeCorrect == Spec => []TypeOK
<1>1. TypeOK /\ [Next]_vars => TypeOK'
  BY TypeStep
<1> QED
  BY TypeInit, <1>1, PTL DEF Spec

-----------------------------------------------------------------------------
LEMMA WakeInit == Init => WakeInv
  BY DEF Init, WakeInv, IdleHasNoThread, QuitLeavesToken, EnableLeavesToken,
         EventLeavesToken, OneShotLeavesToken, TimerLeavesToken, AfterEvents

\* DoPoll computes an unlimited wait only when no timer is listed, and no wait at all
\* when a one-shot is.
LEMMA TimeToNextRunMeans ==
  ASSUME TypeOK
  PROVE  /\ TimeToNextRun # 0 => mOneShotsList = << >>
         /\ TimeToNextRun = NoWait => mTimerBasedList = << >>
<1>1. CASE mTimerBasedList # << >>
  <2>1. mTimerBasedList[1].at \in Times /\ clock \in Times
    BY <1>1, EntryFields DEF TypeOK
  <2>2. TimeDiff(mTimerBasedList[1].at, clock) \in Int
    BY <2>1, TimesInt, TimeDiffType
  <2> QED
    BY <1>1, <2>2 DEF TimeToNextRun, NoWait
<1>2. CASE mTimerBasedList = << >>
  BY <1>2 DEF TimeToNextRun, NoWait
<1> QED
  BY <1>1, <1>2

LEMMA WakeStep == TypeOK /\ WakeInv /\ [Next]_vars => WakeInv'
<1> SUFFICES ASSUME TypeOK, WakeInv, [Next]_vars PROVE WakeInv'
  OBVIOUS
<1> USE DEF vars, lists, times, poller, clients, flags, Goto, AfterEvents
<1>a. sem \in {0, 1} /\ ctl \in {"idle", "signal"}
  BY DEF TypeOK
<1> USE <1>a DEF WakeInv, IdleHasNoThread, QuitLeavesToken, EnableLeavesToken,
        EventLeavesToken, OneShotLeavesToken, TimerLeavesToken
<1>1. CASE CheckRunning
  BY <1>1 DEF CheckRunning
<1>2. CASE TestEnabled
  BY <1>2 DEF TestEnabled
<1>3. CASE ReadEvents
  BY <1>3 DEF ReadEvents
<1>4. CASE ClearEvents
  BY <1>4 DEF ClearEvents
<1>5. CASE RunEvent
  BY <1>5 DEF RunEvent
<1>6. CASE EventsDone
  BY <1>6 DEF EventsDone
<1>7. CASE BeginPoll
  BY <1>7 DEF BeginPoll
<1>8. CASE EnterPoll
  BY <1>8 DEF EnterPoll
<1>9. CASE CollectOneShot
  BY <1>9 DEF CollectOneShot
<1>10. CASE BeginIterations
  BY <1>10 DEF BeginIterations
<1>11. CASE BeginTimers
  BY <1>11 DEF BeginTimers
<1>12. CASE ExitPoll
  BY <1>12 DEF ExitPoll
<1>13. CASE RunTask
  BY <1>13 DEF RunTask
<1>14. CASE TakeToken
  BY <1>14 DEF TakeToken
<1>15. CASE WaitTimeout
  BY <1>15 DEF WaitTimeout
<1>16. CASE EnablePrio
  BY <1>16 DEF EnablePrio
<1>17. CASE DisablePrio
  BY <1>17 DEF DisablePrio
<1>18. CASE Quit
  BY <1>18 DEF Quit
<1>19. CASE Tick
  BY <1>19 DEF Tick
<1>20. CASE TriggerEvent
  BY <1>20 DEF TriggerEvent, Signal
<1>21. CASE CtlSignal
  BY <1>21 DEF CtlSignal, Signal
<1>22. CASE PollIterations
  BY <1>22 DEF PollIterations, PollTimedUnlist, PollTimedRelist, PollTimedDone
<1>23. CASE PollTimers
  BY <1>23 DEF PollTimers, PollTimedUnlist, PollTimedRelist, PollTimedDone
<1>24. CASE Decide
  BY <1>24, TimeToNextRunMeans DEF Decide
<1>25. ASSUME NEW n \in Nodes, AddOneShot(n) PROVE WakeInv'
  <2>1. mOneShotsList = << >> => Len(mOneShotsList') = 1
    BY <1>25 DEF AddOneShot, TypeOK
  <2> QED
    BY <1>25, <2>1 DEF AddOneShot, SignalIfFront, Signal
<1>26. ASSUME NEW n \in Nodes, NEW period \in Periods, NEW offset \in Offsets,
              StampTimer(n, period, offset)
       PROVE  WakeInv'
  BY <1>26 DEF StampTimer
<1>27. ASSUME NEW s \in stamped, InsertTimer(s) PROVE WakeInv'
  <2>1. mTimerBasedList = << >> /\ ~IsIdle => sem' = 1
    BY <1>27 DEF InsertTimer, SignalIfFront, Signal
  <2>2. sem' = sem \/ sem' = 1
    BY <1>27 DEF InsertTimer, SignalIfFront, Signal
  <2> QED
    BY <1>27, <2>1, <2>2 DEF InsertTimer
<1>28. ASSUME NEW n \in Nodes, AddIdlePoller(n) PROVE WakeInv'
  BY <1>28 DEF AddIdlePoller
<1>29. ASSUME NEW n \in Nodes, NEW k \in Iterations, StampIdlePoller(n, k) PROVE WakeInv'
  BY <1>29 DEF StampIdlePoller
<1>30. ASSUME NEW s \in stamped, InsertIdlePoller(s) PROVE WakeInv'
  BY <1>30 DEF InsertIdlePoller
<1>31. ASSUME NEW n \in Nodes, Cancel(n) \/ CancelScheduledTask(n) PROVE WakeInv'
  <2>1. /\ mOneShotsList = << >> => mOneShotsList' = << >>
        /\ mTimerBasedList = << >> => mTimerBasedList' = << >>
    BY <1>31, UnlistType DEF TypeOK, Cancel, CancelScheduledTask, UnlistEverywhere
  <2> QED
    BY <1>31, <2>1 DEF Cancel, CancelScheduledTask
<1>32. ASSUME NEW n \in Nodes, TestScheduled(n) PROVE WakeInv'
  BY <1>32 DEF TestScheduled
<1>33. ASSUME NEW e \in Events, LoadMask(e) PROVE WakeInv'
  BY <1>33 DEF LoadMask
<1>34. ASSUME NEW e \in Events, TriggerEventFromIsr(e) PROVE WakeInv'
  BY <1>34 DEF TriggerEventFromIsr, Signal
<1>35. CASE UNCHANGED vars
  BY <1>35
<1>36. CASE Poller
  BY <1>36, <1>1, <1>2, <1>3, <1>4, <1>5, <1>6, <1>7, <1>8, <1>9, <1>10,
     <1>22, <1>11, <1>23, <1>12, <1>13, <1>24, <1>14, <1>15 DEF Poller
<1>37. CASE Finish
  BY <1>37, <1>27, <1>30, <1>31, <1>20, <1>21 DEF Finish
<1>38. CASE Call
  BY <1>38, <1>25, <1>26, <1>28, <1>29, <1>31, <1>32,
     <1>33, <1>34, <1>16, <1>17, <1>18 DEF Call
<1> QED
  BY <1>36, <1>37, <1>38, <1>19, <1>35 DEF Next

\* What the polling thread tested before it waits stays as tested or has left a token,
\* for any number of schedulables, events and API callers.
THEOREM WakeupsKept == Spec => []WakeInv
<1>1. Init => TypeOK /\ WakeInv
  BY TypeInit, WakeInit
<1>2. TypeOK /\ WakeInv /\ [Next]_vars => (TypeOK /\ WakeInv)'
  BY TypeStep, WakeStep
<1> QED
  BY <1>1, <1>2, PTL DEF Spec

\* So no wakeup is lost: a blocked thread has nothing to do that it was not told about.
THEOREM WakeupSafe == Spec => []NoLostWakeup
<1>1. TypeOK /\ WakeInv => NoLostWakeup
  BY DEF TypeOK, NoLostWakeup, Blocked, WakeInv, IdleHasNoThread, QuitLeavesToken,
         EnableLeavesToken, EventLeavesToken, OneShotLeavesToken, TimerLeavesToken,
         AfterEvents
<1> QED
  BY <1>1, TypeCorrect, WakeupsKept, PTL

-----------------------------------------------------------------------------
(* Lists: what removing and inserting an entry does to them.                *)

\* What taking an entry out of a list, and putting one in, leaves at each place.
LEMMA RemoveAtMeans ==
  ASSUME NEW S, NEW s \in Seq(S), NEW i \in DOMAIN s
  PROVE  /\ RemoveAt(s, i) \in Seq(S) /\ Len(RemoveAt(s, i)) = Len(s) - 1
         /\ \A j \in 1 .. (Len(s) - 1) : RemoveAt(s, i)[j] = IF j < i THEN s[j] ELSE s[j + 1]
<1> DEFINE a == SubSeq(s, 1, i - 1)  b == SubSeq(s, i + 1, Len(s))  p == i - 1
<1>1. Len(s) \in Nat /\ p \in 0 .. (Len(s) - 1) /\ i = p + 1
  OBVIOUS
<1>2. /\ a \in Seq(S) /\ Len(a) = p /\ \A j \in 1 .. p : a[j] = s[j]
      /\ b \in Seq(S) /\ Len(b) = Len(s) - p - 1
      /\ \A j \in 1 .. (Len(s) - p - 1) : b[j] = s[p + 1 + j]
  OBVIOUS
<1>3. RemoveAt(s, i) = a \o b
  BY DEF RemoveAt
<1> HIDE DEF a, b, p
<1>4. a \o b \in Seq(S) /\ Len(a \o b) = Len(s) - 1
  <2>1. a \o b \in Seq(S) /\ Len(a \o b) = Len(a) + Len(b)
    BY <1>2, ConcatProperties
  <2>2. Len(a) + Len(b) = Len(s) - 1
    BY <1>1, <1>2
  <2> QED BY <2>1, <2>2
<1>5. ASSUME NEW j \in 1 .. (Len(s) - 1)
      PROVE  (a \o b)[j] = IF j < i THEN s[j] ELSE s[j + 1]
  <2>1. CASE j <= p
    <3>1. (a \o b)[j] = a[j]
      BY <1>1, <1>2, <2>1
    <3> QED BY <1>1, <1>2, <2>1, <3>1
  <2>2. CASE ~(j <= p)
    <3>1. (a \o b)[j] = b[j - p] /\ j - p \in 1 .. (Len(s) - p - 1)
      BY <1>1, <1>2, <2>2
    <3>2. b[j - p] = s[p + 1 + (j - p)] /\ p + 1 + (j - p) = j + 1
      BY <1>1, <1>2, <3>1
    <3> QED BY <1>1, <2>2, <3>1, <3>2
  <2> QED BY <2>1, <2>2
<1> QED BY <1>3, <1>4, <1>5

LEMMA InsertAtMeans ==
  ASSUME NEW S, NEW s \in Seq(S), NEW p \in 1 .. (Len(s) + 1), NEW e \in S
  PROVE  /\ InsertAt(s, p, e) \in Seq(S) /\ Len(InsertAt(s, p, e)) = Len(s) + 1
         /\ \A j \in 1 .. (Len(s) + 1) :
              InsertAt(s, p, e)[j] = IF j < p THEN s[j] ELSE IF j = p THEN e ELSE s[j - 1]
<1> DEFINE a == SubSeq(s, 1, p - 1)  b == SubSeq(s, p, Len(s))
<1>1. /\ a \in Seq(S) /\ Len(a) = p - 1 /\ \A j \in 1 .. (p - 1) : a[j] = s[j]
      /\ b \in Seq(S) /\ Len(b) = Len(s) - p + 1
      /\ \A j \in 1 .. (Len(s) - p + 1) : b[j] = s[p + j - 1]
  OBVIOUS
<1>2. InsertAt(s, p, e) = (a \o <<e>>) \o b
  BY DEF InsertAt
<1>3. Len(s) \in Nat /\ p \in 1 .. (Len(s) + 1)
  OBVIOUS
<1> DEFINE c == a \o <<e>>
<1> HIDE DEF a, b
<1>4. c \in Seq(S) /\ Len(c) = p
  BY <1>1, <1>3
<1>5. c[p] = e /\ \A j \in 1 .. (p - 1) : c[j] = s[j]
  BY <1>1, <1>3
<1> HIDE DEF c
<1>6. c \o b \in Seq(S) /\ Len(c \o b) = Len(s) + 1
  BY <1>1, <1>3, <1>4
<1>7. ASSUME NEW j \in 1 .. (Len(s) + 1)
      PROVE  (c \o b)[j] = IF j < p THEN s[j] ELSE IF j = p THEN e ELSE s[j - 1]
  <2>1. CASE j <= p
    <3>1. (c \o b)[j] = c[j]
      BY <1>1, <1>3, <1>4, <2>1
    <3> QED BY <1>3, <1>5, <2>1, <3>1
  <2>2. CASE ~(j <= p)
    <3>1. (c \o b)[j] = b[j - p] /\ j - p \in 1 .. (Len(s) - p + 1)
      BY <1>1, <1>3, <1>4, <2>2
    <3>2. b[j - p] = s[p + (j - p) - 1] /\ p + (j - p) - 1 = j - 1
      BY <1>1, <1>3, <3>1
    <3> QED BY <1>3, <2>2, <3>1, <3>2
  <2> QED BY <2>1, <2>2
<1> QED BY <1>2, <1>6, <1>7 DEF c

\* A list that has each node once.
Distinct(list) == \A i, j \in DOMAIN list : list[i].node = list[j].node => i = j

LEMMA RemoveAtNodes ==
  ASSUME NEW S, NEW s \in Seq(S), NEW i \in DOMAIN s, Distinct(s)
  PROVE  /\ Distinct(RemoveAt(s, i))
         /\ NodesOf(RemoveAt(s, i)) = NodesOf(s) \ {s[i].node}
<1> DEFINE r == RemoveAt(s, i)
<1>1. /\ r \in Seq(S) /\ Len(r) = Len(s) - 1
      /\ \A j \in 1 .. (Len(s) - 1) : r[j] = IF j < i THEN s[j] ELSE s[j + 1]
  BY RemoveAtMeans
<1> HIDE DEF r
<1>2. DOMAIN r = 1 .. (Len(s) - 1) /\ DOMAIN s = 1 .. Len(s) /\ Len(s) \in Nat /\ i \in 1 .. Len(s)
  BY <1>1
<1>3. Distinct(r)
  <2> SUFFICES ASSUME NEW j \in DOMAIN r, NEW k \in DOMAIN r, r[j].node = r[k].node, j < k
               PROVE  FALSE
    BY <1>2 DEF Distinct
  <2>1. r[j] = s[j] \/ (j >= i /\ r[j] = s[j + 1])
    BY <1>1, <1>2
  <2>2. r[k] = s[k + 1] \/ (k < i /\ r[k] = s[k])
    BY <1>1, <1>2
  <2> QED BY <2>1, <2>2, <1>2 DEF Distinct
<1>4. \A j \in DOMAIN r : r[j].node \in NodesOf(s) \ {s[i].node}
  BY <1>1, <1>2 DEF Distinct, NodesOf
<1>5. ASSUME NEW k \in DOMAIN s, k # i PROVE s[k].node \in NodesOf(r)
  <2>1. CASE k < i
    <3>1. k \in DOMAIN r /\ r[k] = s[k]
      BY <1>1, <1>2, <2>1
    <3> QED BY <3>1 DEF NodesOf
  <2>2. CASE k > i
    <3>1. k - 1 \in DOMAIN r /\ r[k - 1] = s[k]
      BY <1>1, <1>2, <2>2
    <3> QED BY <3>1 DEF NodesOf
  <2> QED BY <1>2, <1>5, <2>1, <2>2
<1>6. NodesOf(r) = NodesOf(s) \ {s[i].node}
  BY <1>4, <1>5 DEF NodesOf
<1> QED BY <1>3, <1>6 DEF r

LEMMA InsertAtNodes ==
  ASSUME NEW S, NEW s \in Seq(S), NEW p \in 1 .. (Len(s) + 1), NEW e \in S, Distinct(s),
         e.node \notin NodesOf(s)
  PROVE  /\ Distinct(InsertAt(s, p, e))
         /\ NodesOf(InsertAt(s, p, e)) = NodesOf(s) \cup {e.node}
<1> DEFINE r == InsertAt(s, p, e)
<1>1. /\ r \in Seq(S) /\ Len(r) = Len(s) + 1
      /\ \A j \in 1 .. (Len(s) + 1) :
           r[j] = IF j < p THEN s[j] ELSE IF j = p THEN e ELSE s[j - 1]
  BY InsertAtMeans
<1> HIDE DEF r
<1>2. DOMAIN r = 1 .. (Len(s) + 1) /\ DOMAIN s = 1 .. Len(s) /\ Len(s) \in Nat
  BY <1>1
<1>a. \A k \in DOMAIN s : s[k].node # e.node
  BY DEF NodesOf
<1>3. Distinct(r)
  <2> SUFFICES ASSUME NEW j \in DOMAIN r, NEW k \in DOMAIN r, r[j].node = r[k].node, j < k
               PROVE  FALSE
    BY <1>2 DEF Distinct
  <2>1. CASE k < p
    BY <2>1, <1>1, <1>2 DEF Distinct
  <2>2. CASE k = p
    BY <2>2, <1>1, <1>2, <1>a
  <2>3. CASE k > p /\ j = p
    <3>1. r[k] = s[k - 1] /\ k - 1 \in DOMAIN s /\ r[j] = e
      BY <2>3, <1>1, <1>2
    <3> QED BY <3>1, <1>a
  <2>4. CASE k > p /\ j < p
    <3>1. r[k] = s[k - 1] /\ k - 1 \in DOMAIN s /\ r[j] = s[j] /\ j \in DOMAIN s
      BY <2>4, <1>1, <1>2
    <3> QED BY <3>1, <2>4, <1>2 DEF Distinct
  <2>5. CASE k > p /\ j > p
    <3>1. r[k] = s[k - 1] /\ k - 1 \in DOMAIN s /\ r[j] = s[j - 1] /\ j - 1 \in DOMAIN s
      BY <2>5, <1>1, <1>2
    <3> QED BY <3>1, <2>5, <1>2 DEF Distinct
  <2> QED BY <1>2, <2>1, <2>2, <2>3, <2>4, <2>5
<1>4. \A j \in DOMAIN r : r[j].node \in NodesOf(s) \cup {e.node}
  BY <1>1, <1>2 DEF NodesOf
<1>5. ASSUME NEW k \in DOMAIN s PROVE s[k].node \in NodesOf(r)
  <2>1. CASE k < p
    <3>1. k \in DOMAIN r /\ r[k] = s[k]
      BY <1>1, <1>2, <2>1
    <3> QED BY <3>1 DEF NodesOf
  <2>2. CASE k >= p
    <3>1. k + 1 \in DOMAIN r /\ r[k + 1] = s[k]
      BY <1>1, <1>2, <2>2
    <3> QED BY <3>1 DEF NodesOf
  <2> QED BY <1>2, <2>1, <2>2
<1>6. e.node \in NodesOf(r)
  <2>1. p \in DOMAIN r /\ r[p] = e
    BY <1>1, <1>2
  <2> QED BY <2>1 DEF NodesOf
<1>7. NodesOf(r) = NodesOf(s) \cup {e.node}
  BY <1>4, <1>5, <1>6 DEF NodesOf
<1> QED BY <1>3, <1>7 DEF r

LEMMA AppendNodes ==
  ASSUME NEW S, NEW s \in Seq(S), NEW e \in S, Distinct(s), e.node \notin NodesOf(s)
  PROVE  /\ Distinct(Append(s, e))
         /\ NodesOf(Append(s, e)) = NodesOf(s) \cup {e.node}
<1> DEFINE r == Append(s, e)
<1>1. /\ DOMAIN r = 1 .. (Len(s) + 1) /\ DOMAIN s = 1 .. Len(s) /\ Len(s) \in Nat
      /\ \A j \in 1 .. Len(s) : r[j] = s[j]
      /\ r[Len(s) + 1] = e
  OBVIOUS
<1> HIDE DEF r
<1>2. \A k \in DOMAIN s : s[k].node # e.node
  BY DEF NodesOf
<1>3. Distinct(r)
  BY <1>1, <1>2 DEF Distinct
<1>4. \A j \in DOMAIN r : r[j].node \in NodesOf(s) \cup {e.node}
  BY <1>1 DEF NodesOf
<1>5. \A k \in DOMAIN s : k \in DOMAIN r /\ r[k] = s[k]
  BY <1>1
<1>6. Len(s) + 1 \in DOMAIN r
  BY <1>1
<1>7. NodesOf(r) = NodesOf(s) \cup {e.node}
  BY <1>1, <1>4, <1>5, <1>6 DEF NodesOf
<1> QED BY <1>3, <1>7 DEF r

\* Unlisting a node takes exactly that node out.
LEMMA UnlistMeans ==
  ASSUME NEW S, NEW s \in Seq(S), NEW n, n \in NodesOf(s)
  PROVE  \E i \in DOMAIN s : s[i].node = n /\ Unlist(s, n) = RemoveAt(s, i)
<1> DEFINE i == CHOOSE i \in DOMAIN s : s[i].node = n
<1>1. i \in DOMAIN s /\ s[i].node = n
  BY DEF NodesOf
<1>2. Unlist(s, n) = RemoveAt(s, i)
  BY DEF Unlist
<1> QED BY <1>1, <1>2

LEMMA UnlistNodes ==
  ASSUME NEW S, NEW s \in Seq(S), NEW n, Distinct(s)
  PROVE  /\ Unlist(s, n) \in Seq(S)
         /\ Distinct(Unlist(s, n))
         /\ NodesOf(Unlist(s, n)) = NodesOf(s) \ {n}
<1>1. CASE n \in NodesOf(s)
  <2>1. PICK i \in DOMAIN s : s[i].node = n /\ Unlist(s, n) = RemoveAt(s, i)
    BY <1>1, UnlistMeans
  <2>2. RemoveAt(s, i) \in Seq(S)
    BY RemoveAtMeans
  <2>3. Distinct(RemoveAt(s, i)) /\ NodesOf(RemoveAt(s, i)) = NodesOf(s) \ {s[i].node}
    BY RemoveAtNodes
  <2> QED BY <2>1, <2>2, <2>3
<1>2. CASE n \notin NodesOf(s)
  BY <1>2 DEF Unlist
<1> QED BY <1>1, <1>2

-----------------------------------------------------------------------------
(* Places: every schedulable is in one list, or in nobody's.                *)

ControlInv ==
  /\ lock = "poll" <=>
       pc \in {"clearEvents", "oneShots", "iterations", "beginTimers", "timers", "exit"}
  /\ lock = "trig" <=> trig # {}
  /\ cur # {} => pc \in {"iterations", "timers"}
  /\ eventsMask # {} => pc \in {"clearEvents", "runEvents"}

CurNodes == { e.node : e \in cur }

\* Every schedulable is in one place.
PlacesInv ==
  /\ Distinct(mOneShotsList) /\ Distinct(mTimerBasedList) /\ Distinct(mIterationsBasedList)
  /\ NodesOf(mOneShotsList) \cap NodesOf(mTimerBasedList) = {}
  /\ NodesOf(mOneShotsList) \cap NodesOf(mIterationsBasedList) = {}
  /\ NodesOf(mTimerBasedList) \cap NodesOf(mIterationsBasedList) = {}
  /\ \A e, f \in cur : e = f
  /\ \A n \in CurNodes : ~Linked(n)
  /\ \A n \in StampedNodes : ~Linked(n) /\ n \notin CurNodes
  /\ \A s, t \in stamped : s.entry.node = t.entry.node => s = t

LEMMA ControlInit == Init => ControlInv
  BY DEF Init, ControlInv

LEMMA ControlStep == TypeOK /\ ControlInv /\ [Next]_vars => ControlInv'
<1> SUFFICES ASSUME TypeOK, ControlInv, [Next]_vars PROVE ControlInv'
  OBVIOUS
<1> USE DEF vars, lists, times, poller, clients, flags, Goto, LockFree, ControlInv
<1>1. CASE CheckRunning \/ TestEnabled \/ EventsDone \/ BeginPoll
  BY <1>1 DEF CheckRunning, TestEnabled, EventsDone, BeginPoll
<1>2. CASE ReadEvents \/ ClearEvents \/ RunEvent
  BY <1>2 DEF ReadEvents, ClearEvents, RunEvent
<1>3. CASE EnterPoll \/ CollectOneShot \/ BeginIterations \/ BeginTimers \/ ExitPoll
  BY <1>3 DEF EnterPoll, CollectOneShot, BeginIterations, BeginTimers, ExitPoll
<1>4. CASE PollIterations
  BY <1>4 DEF PollIterations, PollTimedUnlist, PollTimedRelist, PollTimedDone
<1>5. CASE PollTimers
  BY <1>5 DEF PollTimers, PollTimedUnlist, PollTimedRelist, PollTimedDone
<1>6. CASE RunTask \/ Decide \/ TakeToken \/ WaitTimeout
  BY <1>6 DEF RunTask, Decide, TakeToken, WaitTimeout
<1>7. CASE TriggerEvent
  BY <1>7 DEF TriggerEvent
<1>8. CASE EnablePrio \/ DisablePrio \/ Quit \/ CtlSignal \/ Tick \/ UNCHANGED vars
  BY <1>8 DEF EnablePrio, DisablePrio, Quit, CtlSignal, Tick
<1>9. ASSUME NEW n \in Nodes,
             \/ AddOneShot(n) \/ AddIdlePoller(n)
             \/ \E period \in Periods, offset \in Offsets : StampTimer(n, period, offset)
             \/ \E k \in Iterations : StampIdlePoller(n, k)
             \/ Cancel(n) \/ TestScheduled(n) \/ CancelScheduledTask(n)
      PROVE  ControlInv'
  BY <1>9 DEF AddOneShot, AddIdlePoller, StampTimer, StampIdlePoller, Cancel,
              TestScheduled, CancelScheduledTask
<1>10. ASSUME NEW s \in stamped, InsertTimer(s) \/ InsertIdlePoller(s) PROVE ControlInv'
  BY <1>10 DEF InsertTimer, InsertIdlePoller
<1>11. ASSUME NEW e \in Events, LoadMask(e) \/ TriggerEventFromIsr(e) PROVE ControlInv'
  BY <1>11 DEF LoadMask, TriggerEventFromIsr
<1> QED
  BY <1>1, <1>2, <1>3, <1>4, <1>5, <1>6, <1>7, <1>8, <1>9, <1>10, <1>11
     DEF Next, Poller, Finish, Call

\* The steps that move a schedulable from one place to another; the others leave the
\* lists, the entry in PollTimed's hands and the stamped entries as they are.
ListStep ==
  \/ CollectOneShot \/ PollIterations \/ PollTimers
  \/ \E n \in Nodes :
       \/ AddOneShot(n) \/ AddIdlePoller(n) \/ Cancel(n) \/ CancelScheduledTask(n)
       \/ \E period \in Periods, offset \in Offsets : StampTimer(n, period, offset)
       \/ \E k \in Iterations : StampIdlePoller(n, k)
  \/ \E s \in stamped : InsertTimer(s) \/ InsertIdlePoller(s)

LEMMA OtherSteps ==
  ASSUME [Next]_vars, ~ListStep
  PROVE  UNCHANGED <<lists, cur, stamped>>
<1> USE DEF vars, lists, times, poller, clients, flags
<1>1. CASE Poller
  BY <1>1 DEF ListStep, Poller, CheckRunning, TestEnabled, ReadEvents, ClearEvents,
     RunEvent, EventsDone, BeginPoll, EnterPoll, BeginIterations, BeginTimers, ExitPoll,
     RunTask, Decide, TakeToken, WaitTimeout
<1>2. CASE Finish
  BY <1>2 DEF ListStep, Finish, TriggerEvent, CtlSignal
<1>3. CASE Call
  BY <1>3 DEF ListStep, Call, TestScheduled, LoadMask, TriggerEventFromIsr, EnablePrio,
     DisablePrio, Quit
<1>4. CASE Tick \/ UNCHANGED vars
  BY <1>4 DEF Tick
<1> QED
  BY <1>1, <1>2, <1>3, <1>4 DEF Next

LEMMA ListTypes ==
  ASSUME TypeOK
  PROVE  /\ mOneShotsList \in Seq(OneShotEntry)
         /\ mTimerBasedList \in Seq(TimedEntry)
         /\ mIterationsBasedList \in Seq(TimedEntry)
         /\ mQtl \in Seq(QtlElement)
         /\ cur \in SUBSET TimedEntry /\ stamped \in SUBSET StampedEntry
         /\ \A s \in stamped : s.entry \in TimedEntry
  BY DEF TypeOK, StampedEntry

\* One turn of PollTimed takes an entry in hand, or puts it back or lets it go.
LEMMA PollTimedMoves ==
  ASSUME TypeOK, PlacesInv, NEW list \in Seq(TimedEntry), NEW list2, NEW t \in Times,
         Distinct(list), CurNodes \cap NodesOf(list) = {},
         \/ /\ cur = {}
            /\ \E i \in DOMAIN list : list2 = RemoveAt(list, i) /\ cur' = {list[i]}
         \/ /\ \E e \in cur :
                 IF e.period = 0 THEN list2 = list
                 ELSE LET again == [e EXCEPT !.at = NextExecution(e, t)] IN
                      \E p \in 1 .. (Len(list) + 1) :
                        /\ IsInsertPosition(list, again.at, p)
                        /\ list2 = InsertAt(list, p, again)
            /\ cur' = {}
  PROVE  /\ Distinct(list2)
         /\ NodesOf(list2) \cup CurNodes' \subseteq NodesOf(list) \cup CurNodes
         /\ NodesOf(list2) \cap CurNodes' = {}
         /\ \A e, f \in cur' : e = f
<1>1. ASSUME cur = {}, NEW i \in DOMAIN list, list2 = RemoveAt(list, i), cur' = {list[i]}
      PROVE  /\ Distinct(list2)
             /\ NodesOf(list2) \cup CurNodes' \subseteq NodesOf(list) \cup CurNodes
             /\ NodesOf(list2) \cap CurNodes' = {}
             /\ \A e, f \in cur' : e = f
  <2>1. Distinct(list2) /\ NodesOf(list2) = NodesOf(list) \ {list[i].node}
    BY <1>1, RemoveAtNodes
  <2>2. CurNodes' = {list[i].node}
    BY <1>1 DEF CurNodes
  <2>3. list[i].node \in NodesOf(list)
    BY DEF NodesOf
  <2> QED
    BY <1>1, <2>1, <2>2, <2>3
<1>2. ASSUME cur' = {}, NEW e \in cur,
             IF e.period = 0 THEN list2 = list
             ELSE LET again == [e EXCEPT !.at = NextExecution(e, t)] IN
                  \E p \in 1 .. (Len(list) + 1) :
                    /\ IsInsertPosition(list, again.at, p)
                    /\ list2 = InsertAt(list, p, again)
      PROVE  /\ Distinct(list2)
             /\ NodesOf(list2) \cup CurNodes' \subseteq NodesOf(list) \cup CurNodes
             /\ NodesOf(list2) \cap CurNodes' = {}
             /\ \A f, g \in cur' : f = g
  <2> DEFINE again == [e EXCEPT !.at = NextExecution(e, t)]
  <2>1. e \in TimedEntry /\ again \in TimedEntry
    BY ListTypes, NextExecutionType
  <2>2. again.node = e.node
    BY <2>1 DEF TimedEntry
  <2>3. e.node \in CurNodes /\ CurNodes' = {}
    BY <1>2 DEF CurNodes
  <2>4. list2 = list \/ \E p \in 1 .. (Len(list) + 1) : list2 = InsertAt(list, p, again)
    BY <1>2
  <2> HIDE DEF again
  <2>5. CASE list2 = list
    BY <1>2, <2>3, <2>5
  <2>6. ASSUME NEW p \in 1 .. (Len(list) + 1), list2 = InsertAt(list, p, again)
        PROVE  Distinct(list2) /\ NodesOf(list2) = NodesOf(list) \cup {e.node}
    BY <2>1, <2>2, <2>3, <2>6, InsertAtNodes
  <2> QED
    BY <1>2, <2>3, <2>4, <2>5, <2>6
<1> QED
  BY <1>1, <1>2

LEMMA PlacesInit == Init => PlacesInv
  BY DEF Init, PlacesInv, Distinct, NodesOf, CurNodes, StampedNodes

LEMMA PlacesStep == TypeOK /\ ControlInv /\ PlacesInv /\ [Next]_vars => PlacesInv'
<1> SUFFICES ASSUME TypeOK, ControlInv, PlacesInv, [Next]_vars PROVE PlacesInv'
  OBVIOUS
<1> USE DEF lists, times, poller, clients, flags
<1>0. CASE ~ListStep
  <2>1. UNCHANGED <<lists, cur, stamped>>
    BY <1>0, OtherSteps
  <2> QED
    BY <2>1 DEF PlacesInv, CurNodes, StampedNodes, Linked
<1>1. CASE CollectOneShot
  <2>1. PICK i \in DOMAIN mOneShotsList :
          mOneShotsList' = IF mOneShotsList[i].period = 0
                           THEN RemoveAt(mOneShotsList, i) ELSE mOneShotsList
    BY <1>1 DEF CollectOneShot
  <2>2. Distinct(mOneShotsList') /\ NodesOf(mOneShotsList') \subseteq NodesOf(mOneShotsList)
    BY <2>1, ListTypes, RemoveAtNodes DEF PlacesInv
  <2>3. UNCHANGED <<mTimerBasedList, mIterationsBasedList, cur, stamped>>
    BY <1>1 DEF CollectOneShot
  <2> QED
    BY <2>2, <2>3 DEF PlacesInv, CurNodes, StampedNodes, Linked
<1>2. CASE PollIterations
  <2>1. CASE PollTimedDone(mIterationsBasedList, mIterationsCounter, "beginTimers")
    BY <2>1 DEF PollTimedDone, PlacesInv, CurNodes, StampedNodes, Linked
  <2>2. CASE ~PollTimedDone(mIterationsBasedList, mIterationsCounter, "beginTimers")
    <3>1. /\ Distinct(mIterationsBasedList')
          /\ NodesOf(mIterationsBasedList') \cup CurNodes'
               \subseteq NodesOf(mIterationsBasedList) \cup CurNodes
          /\ NodesOf(mIterationsBasedList') \cap CurNodes' = {}
          /\ \A e, f \in cur' : e = f
      <4>1. mIterationsCounter \in Times
        BY DEF TypeOK
      <4>2. Distinct(mIterationsBasedList) /\ CurNodes \cap NodesOf(mIterationsBasedList) = {}
        BY DEF PlacesInv, Linked
      <4> QED
        BY <1>2, <2>2, <4>1, <4>2, ListTypes, PollTimedMoves
           DEF PollIterations, PollTimedUnlist, PollTimedRelist
    <3>2. UNCHANGED <<mOneShotsList, mTimerBasedList, stamped>>
      BY <1>2 DEF PollIterations, PollTimedUnlist, PollTimedRelist, PollTimedDone
    <3> QED
      BY <3>1, <3>2 DEF PlacesInv, StampedNodes, Linked
  <2> QED
    BY <2>1, <2>2
<1>3. CASE PollTimers
  <2>1. CASE PollTimedDone(mTimerBasedList, mCurrentTime, "exit")
    BY <2>1 DEF PollTimedDone, PlacesInv, CurNodes, StampedNodes, Linked
  <2>2. CASE ~PollTimedDone(mTimerBasedList, mCurrentTime, "exit")
    <3>1. /\ Distinct(mTimerBasedList')
          /\ NodesOf(mTimerBasedList') \cup CurNodes'
               \subseteq NodesOf(mTimerBasedList) \cup CurNodes
          /\ NodesOf(mTimerBasedList') \cap CurNodes' = {}
          /\ \A e, f \in cur' : e = f
      <4>1. mCurrentTime \in Times
        BY DEF TypeOK
      <4>2. Distinct(mTimerBasedList) /\ CurNodes \cap NodesOf(mTimerBasedList) = {}
        BY DEF PlacesInv, Linked
      <4> QED
        BY <1>3, <2>2, <4>1, <4>2, ListTypes, PollTimedMoves
           DEF PollTimers, PollTimedUnlist, PollTimedRelist
    <3>2. UNCHANGED <<mOneShotsList, mIterationsBasedList, stamped>>
      BY <1>3 DEF PollTimers, PollTimedUnlist, PollTimedRelist, PollTimedDone
    <3> QED
      BY <3>1, <3>2 DEF PlacesInv, StampedNodes, Linked
  <2> QED
    BY <2>1, <2>2
<1>4. ASSUME NEW n \in Nodes, AddOneShot(n) \/ AddIdlePoller(n) PROVE PlacesInv'
  <2>1. PICK period \in {0, 1} :
          mOneShotsList' = Append(mOneShotsList, [node |-> n, period |-> period])
    BY <1>4 DEF AddOneShot, AddIdlePoller
  <2>2. [node |-> n, period |-> period] \in OneShotEntry
    BY DEF OneShotEntry
  <2>3. ~Linked(n) /\ n \notin CurNodes /\ n \notin StampedNodes
    BY <1>4 DEF AddOneShot, AddIdlePoller, MayAdd, CurNodes
  <2>4. /\ Distinct(mOneShotsList')
        /\ NodesOf(mOneShotsList') = NodesOf(mOneShotsList) \cup {n}
    BY <2>1, <2>2, <2>3, ListTypes, AppendNodes DEF PlacesInv, Linked
  <2>5. UNCHANGED <<mTimerBasedList, mIterationsBasedList, cur, stamped>>
    BY <1>4 DEF AddOneShot, AddIdlePoller
  <2> QED
    BY <2>3, <2>4, <2>5 DEF PlacesInv, CurNodes, StampedNodes, Linked
<1>5. ASSUME NEW n \in Nodes, Cancel(n) \/ CancelScheduledTask(n) PROVE PlacesInv'
  <2>1. UnlistEverywhere(n) /\ UNCHANGED <<cur, stamped>>
    BY <1>5 DEF Cancel, CancelScheduledTask
  <2>2. /\ Distinct(mOneShotsList') /\ NodesOf(mOneShotsList') \subseteq NodesOf(mOneShotsList)
        /\ Distinct(mTimerBasedList')
        /\ NodesOf(mTimerBasedList') \subseteq NodesOf(mTimerBasedList)
        /\ Distinct(mIterationsBasedList')
        /\ NodesOf(mIterationsBasedList') \subseteq NodesOf(mIterationsBasedList)
    BY <2>1, ListTypes, UnlistNodes DEF PlacesInv, UnlistEverywhere
  <2> QED
    BY <2>1, <2>2 DEF PlacesInv, CurNodes, StampedNodes, Linked
<1>6. ASSUME NEW n \in Nodes, NEW s \in StampedEntry, s.entry.node = n, MayAdd(n),
             stamped' = stamped \cup {s}, UNCHANGED <<lists, cur>>
      PROVE  PlacesInv'
  <2>1. ~Linked(n) /\ n \notin CurNodes /\ n \notin StampedNodes
    BY <1>6 DEF MayAdd, CurNodes
  <2>2. StampedNodes' = StampedNodes \cup {n}
    BY <1>6 DEF StampedNodes
  <2>3. \A t \in stamped : t.entry.node # n
    BY <2>1 DEF StampedNodes
  <2> QED
    BY <1>6, <2>1, <2>2, <2>3 DEF PlacesInv, CurNodes, Linked
<1>7. ASSUME NEW s \in stamped, InsertTimer(s) PROVE PlacesInv'
  <2>1. PICK p \in 1 .. (Len(mTimerBasedList) + 1) :
          mTimerBasedList' = InsertAt(mTimerBasedList, p, s.entry)
    BY <1>7 DEF InsertTimer
  <2>2. /\ stamped' = stamped \ {s}
        /\ UNCHANGED <<mOneShotsList, mIterationsBasedList, cur>>
    BY <1>7 DEF InsertTimer
  <2>3. s.entry.node \in StampedNodes
    BY DEF StampedNodes
  <2>4. /\ Distinct(mTimerBasedList')
        /\ NodesOf(mTimerBasedList') = NodesOf(mTimerBasedList) \cup {s.entry.node}
    BY <2>1, <2>3, ListTypes, InsertAtNodes DEF PlacesInv, Linked
  <2>5. StampedNodes' \subseteq StampedNodes \ {s.entry.node}
    BY <2>2 DEF StampedNodes, PlacesInv
  <2> QED
    BY <2>2, <2>3, <2>4, <2>5 DEF PlacesInv, CurNodes, Linked
<1>8. ASSUME NEW s \in stamped, InsertIdlePoller(s) PROVE PlacesInv'
  <2>1. PICK p \in 1 .. (Len(mIterationsBasedList) + 1) :
          mIterationsBasedList' = InsertAt(mIterationsBasedList, p, s.entry)
    BY <1>8 DEF InsertIdlePoller
  <2>2. /\ stamped' = stamped \ {s}
        /\ UNCHANGED <<mOneShotsList, mTimerBasedList, cur>>
    BY <1>8 DEF InsertIdlePoller
  <2>3. s.entry.node \in StampedNodes
    BY DEF StampedNodes
  <2>4. /\ Distinct(mIterationsBasedList')
        /\ NodesOf(mIterationsBasedList') = NodesOf(mIterationsBasedList) \cup {s.entry.node}
    BY <2>1, <2>3, ListTypes, InsertAtNodes DEF PlacesInv, Linked
  <2>5. StampedNodes' \subseteq StampedNodes \ {s.entry.node}
    BY <2>2 DEF StampedNodes, PlacesInv
  <2> QED
    BY <2>2, <2>3, <2>4, <2>5 DEF PlacesInv, CurNodes, Linked
<1>9. ASSUME NEW n \in Nodes, NEW period \in Periods, NEW offset \in Offsets,
             StampTimer(n, period, offset)
      PROVE  PlacesInv'
  <2> DEFINE s == [list |-> "timer", entry |->
                    [node |-> n, at |-> TimeAdd(clock, offset), period |-> period]]
  <2>1. s \in StampedEntry
    <3>1. TimeAdd(clock, offset) \in Times
      BY SchedAssumption, TimeAddType, TimesInt DEF TypeOK
    <3> QED BY <3>1 DEF StampedEntry, TimedEntry
  <2>2. s.entry.node = n /\ MayAdd(n) /\ stamped' = stamped \cup {s} /\ UNCHANGED <<lists, cur>>
    BY <1>9 DEF StampTimer
  <2> QED
    BY <1>6, <2>1, <2>2
<1>10. ASSUME NEW n \in Nodes, NEW k \in Iterations, StampIdlePoller(n, k) PROVE PlacesInv'
  <2> DEFINE s == [list |-> "iteration", entry |->
                    [node |-> n, at |-> TimeAdd(mIterationsCounter, k), period |-> k]]
  <2>1. s \in StampedEntry
    <3>1. TimeAdd(mIterationsCounter, k) \in Times
      BY SchedAssumption, TimeAddType, TimesInt DEF TypeOK
    <3> QED BY <3>1 DEF StampedEntry, TimedEntry
  <2>2. s.entry.node = n /\ MayAdd(n) /\ stamped' = stamped \cup {s} /\ UNCHANGED <<lists, cur>>
    BY <1>10 DEF StampIdlePoller
  <2> QED
    BY <1>6, <2>1, <2>2
<1> QED
  BY <1>0, <1>1, <1>2, <1>3, <1>4, <1>5, <1>7, <1>8, <1>9, <1>10 DEF ListStep

-----------------------------------------------------------------------------
(* Time: the wrapping differences.                                          *)

\* The half of the clock's range, as far as a signed difference reaches.
Half == TimeMod \div 2

LEMMA HalfMeans == Half \in Nat /\ 2 * Half <= TimeMod /\ TimeMod <= 2 * Half + 1 /\ Half >= 1
  BY TimeModAssumption DEF Half

LEMMA ModMeans ==
  ASSUME NEW a \in Int
  PROVE  a % TimeMod \in Times /\ a \div TimeMod \in Int
         /\ a = TimeMod * (a \div TimeMod) + (a % TimeMod)
  BY TimeModAssumption DEF Times

LEMMA RemainderUnique ==
  ASSUME NEW q \in Int, NEW r \in Int, TimeMod * q = r, - TimeMod < r, r < TimeMod
  PROVE  r = 0
<1>1. ASSUME NEW d \in Int, d >= 1 PROVE TimeMod * d >= TimeMod
  BY <1>1, TimeModAssumption
<1>2. CASE q = 0
  BY <1>2, TimeModAssumption
<1>3. CASE q >= 1
  BY <1>1, <1>3, TimeModAssumption
<1>4. CASE q <= -1
  <2>1. TimeMod * (-q) >= TimeMod
    BY <1>1, <1>4
  <2>2. TimeMod * (-q) = -r
    BY TimeModAssumption
  <2> QED BY <2>1, <2>2, TimeModAssumption
<1> QED BY <1>2, <1>3, <1>4

\* A signed difference differs from the true one by whole laps of the clock.
LEMMA DiffMeans ==
  ASSUME NEW a \in Int, NEW b \in Int
  PROVE  /\ TimeDiff(a, b) \in Int
         /\ TimeDiff(a, b) < Half /\ TimeDiff(a, b) >= Half - TimeMod
         /\ \E k \in Int : a - b = TimeDiff(a, b) + TimeMod * k
<1> DEFINE x == a - b  q == x \div TimeMod  r == x % TimeMod
<1>1. x = TimeMod * q + r /\ q \in Int /\ r \in Times
  BY ModMeans
<1>2. TimeDiff(a, b) = IF r < Half THEN r ELSE r - TimeMod
  BY DEF TimeDiff, Half
<1>3. x \in Int /\ x = a - b
  OBVIOUS
<1> HIDE DEF x, q, r
<1>4. CASE r < Half
  BY <1>1, <1>2, <1>3, <1>4, HalfMeans, TimeModAssumption DEF Times
<1>5. CASE ~(r < Half)
  <2>1. TimeMod * (q + 1) = TimeMod * q + TimeMod
    BY <1>1, TimeModAssumption
  <2>2. x = (r - TimeMod) + TimeMod * (q + 1) /\ q + 1 \in Int
    BY <1>1, <2>1, TimeModAssumption DEF Times
  <2>3. TimeDiff(a, b) = r - TimeMod /\ r \in 0 .. (TimeMod - 1) /\ r >= Half
    BY <1>1, <1>2, <1>5, HalfMeans DEF Times
  <2>4. \E k \in Int : a - b = (r - TimeMod) + TimeMod * k
    BY <1>3, <2>2
  <2> QED BY <2>3, <2>4, HalfMeans, TimeModAssumption
<1> QED BY <1>4, <1>5

\* and is the only number in its range that does.
LEMMA DiffUnique ==
  ASSUME NEW a \in Int, NEW b \in Int, NEW d \in Int, NEW k \in Int,
         a - b = d + TimeMod * k, d < Half, d >= - Half
  PROVE  TimeDiff(a, b) = d
<1>1. PICK j \in Int : a - b = TimeDiff(a, b) + TimeMod * j
  BY DiffMeans
<1>2. TimeDiff(a, b) \in Int /\ TimeDiff(a, b) < Half /\ TimeDiff(a, b) >= Half - TimeMod
  BY DiffMeans
<1> DEFINE e == TimeDiff(a, b)
<1> HIDE DEF e
<1>3. TimeMod * (k - j) = e - d
  BY <1>1, <1>2, TimeModAssumption DEF e
<1>4. -TimeMod < e - d /\ e - d < TimeMod
  BY <1>2, HalfMeans, TimeModAssumption DEF e
<1>5. e - d = 0
  BY <1>2, <1>3, <1>4, RemainderUnique DEF e
<1> QED BY <1>2, <1>5 DEF e

\* Of three times within half the clock's range of each other, the differences add up.
LEMMA DiffAddsUp ==
  ASSUME NEW a \in Int, NEW b \in Int, NEW c \in Int,
         TimeDiff(a, c) - TimeDiff(b, c) < Half, TimeDiff(a, c) - TimeDiff(b, c) >= - Half
  PROVE  TimeDiff(a, b) = TimeDiff(a, c) - TimeDiff(b, c)
<1>1. TimeDiff(a, c) \in Int /\ TimeDiff(b, c) \in Int
  BY DiffMeans
<1>2. PICK j \in Int : a - c = TimeDiff(a, c) + TimeMod * j
  BY DiffMeans
<1>3. PICK k \in Int : b - c = TimeDiff(b, c) + TimeMod * k
  BY DiffMeans
<1> DEFINE x == TimeDiff(a, c)  y == TimeDiff(b, c)
<1> HIDE DEF x, y
<1> DEFINE laps == TimeMod * (j - k)
<1>4. laps = TimeMod * j - TimeMod * k
  BY TimeModAssumption
<1>a. laps = (a - c - x) - (b - c - y)
  BY <1>1, <1>2, <1>3, <1>4, TimeModAssumption DEF x, y
<1>b. laps \in Int /\ x \in Int /\ y \in Int
  BY <1>1, TimeModAssumption DEF x, y
<1>5. a - b = (x - y) + TimeMod * (j - k)
  <2> HIDE DEF laps
  <2>1. a - b = (x - y) + laps
    BY <1>a, <1>b
  <2> QED BY <2>1 DEF laps
<1>6. j - k \in Int /\ x - y \in Int /\ x - y < Half /\ x - y >= -Half
  BY <1>1 DEF x, y
<1>7. TimeDiff(a, b) = x - y
  BY <1>5, <1>6, DiffUnique
<1> QED BY <1>7 DEF x, y

\* A sum is as far from a time as its parts say.
LEMMA DiffOfSum ==
  ASSUME NEW t \in Int, NEW d \in Int, NEW c \in Int,
         TimeDiff(t, c) + d < Half, TimeDiff(t, c) + d >= - Half
  PROVE  TimeDiff(TimeAdd(t, d), c) = TimeDiff(t, c) + d
<1>1. TimeDiff(t, c) \in Int
  BY DiffMeans
<1>2. PICK j \in Int : t - c = TimeDiff(t, c) + TimeMod * j
  BY DiffMeans
<1> DEFINE x == TimeDiff(t, c)  u == t + d  v == u % TimeMod  q == u \div TimeMod
<1>3. u = TimeMod * q + v /\ q \in Int /\ v \in Int /\ u = t + d
  BY ModMeans DEF Times
<1>4. TimeAdd(t, d) = v
  BY DEF TimeAdd
<1> HIDE DEF x, u, v, q
<1>5. TimeMod * (j - q) = TimeMod * j - TimeMod * q
  BY <1>3, TimeModAssumption
<1>6. v - c = (x + d) + TimeMod * (j - q)
  BY <1>1, <1>2, <1>3, <1>5, TimeModAssumption DEF x
<1>7. j - q \in Int /\ x + d \in Int /\ x + d < Half /\ x + d >= -Half
  BY <1>1, <1>3 DEF x
<1>8. TimeDiff(v, c) = x + d
  BY <1>3, <1>6, <1>7, DiffUnique
<1> QED BY <1>4, <1>8 DEF x

LEMMA DiffSelf == ASSUME NEW t \in Int PROVE TimeDiff(t, t) = 0
<1>1. t - t = 0 + TimeMod * 0
  BY TimeModAssumption
<1> QED BY <1>1, DiffUnique, HalfMeans

\* The same difference from the next millisecond.
LEMMA DiffNextTick ==
  ASSUME NEW a \in Int, NEW c \in Int, TimeDiff(a, c) > - Half
  PROVE  TimeDiff(a, TimeAdd(c, 1)) = TimeDiff(a, c) - 1
<1>1. PICK j \in Int : a - c = TimeDiff(a, c) + TimeMod * j
  BY DiffMeans
<1>2. TimeDiff(a, c) \in Int /\ TimeDiff(a, c) < Half
  BY DiffMeans
<1> DEFINE x == TimeDiff(a, c)  u == c + 1  v == u % TimeMod  q == u \div TimeMod
<1>3. u = TimeMod * q + v /\ q \in Int /\ v \in Int /\ u = c + 1
  BY ModMeans DEF Times
<1>4. TimeAdd(c, 1) = v
  BY DEF TimeAdd
<1> HIDE DEF x, u, v, q
<1> DEFINE laps == TimeMod * (j + q)
<1>5. laps = TimeMod * j + TimeMod * q
  BY <1>3, TimeModAssumption
<1>a. laps = (a - c - x) + (c + 1 - v)
  BY <1>1, <1>2, <1>3, <1>5, TimeModAssumption DEF x
<1>b. laps \in Int /\ x \in Int
  BY <1>2, <1>3, TimeModAssumption DEF x
<1>6. a - v = (x - 1) + TimeMod * (j + q)
  <2> HIDE DEF laps
  <2>1. a - v = (x - 1) + laps
    BY <1>3, <1>a, <1>b
  <2> QED BY <2>1 DEF laps
<1>7. j + q \in Int /\ x - 1 \in Int /\ x - 1 < Half /\ x - 1 >= -Half
  BY <1>2, <1>3, HalfMeans DEF x
<1>8. TimeDiff(a, v) = x - 1
  BY <1>3, <1>6, <1>7, DiffUnique
<1> QED BY <1>4, <1>8 DEF x

LEMMA RemoveAtEntries ==
  ASSUME NEW S, NEW s \in Seq(S), NEW i \in DOMAIN s, NEW j \in DOMAIN RemoveAt(s, i)
  PROVE  \E k \in DOMAIN s : RemoveAt(s, i)[j] = s[k] /\ k # i /\ k = IF j < i THEN j ELSE j + 1
<1> DEFINE r == RemoveAt(s, i)
<1>1. /\ r \in Seq(S) /\ Len(r) = Len(s) - 1
      /\ \A l \in 1 .. (Len(s) - 1) : r[l] = IF l < i THEN s[l] ELSE s[l + 1]
  BY RemoveAtMeans
<1>2. j \in DOMAIN r
  OBVIOUS
<1> HIDE DEF r
<1>3. j \in 1 .. (Len(s) - 1) /\ Len(s) \in Nat /\ i \in 1 .. Len(s)
  BY <1>1, <1>2
<1> DEFINE k == IF j < i THEN j ELSE j + 1
<1>4. k \in DOMAIN s /\ k # i /\ r[j] = s[k]
  BY <1>1, <1>3
<1> QED BY <1>4 DEF r

LEMMA InsertAtEntries ==
  ASSUME NEW S, NEW s \in Seq(S), NEW p \in 1 .. (Len(s) + 1), NEW e \in S,
         NEW j \in DOMAIN InsertAt(s, p, e)
  PROVE  \/ j = p /\ InsertAt(s, p, e)[j] = e
         \/ \E k \in DOMAIN s :
              InsertAt(s, p, e)[j] = s[k] /\ j # p /\ k = IF j < p THEN j ELSE j - 1
<1> DEFINE r == InsertAt(s, p, e)
<1>1. r \in Seq(S) /\ Len(r) = Len(s) + 1
  BY InsertAtMeans
<1>a. \A l \in 1 .. (Len(s) + 1) :
        r[l] = IF l < p THEN s[l] ELSE IF l = p THEN e ELSE s[l - 1]
  BY InsertAtMeans
<1>2. j \in DOMAIN r
  OBVIOUS
<1> HIDE DEF r
<1>3. j \in 1 .. (Len(s) + 1) /\ Len(s) \in Nat
  BY <1>1, <1>2
<1> DEFINE k == IF j < p THEN j ELSE j - 1
<1>4. CASE j = p
  BY <1>a, <1>3, <1>4 DEF r
<1>5. CASE j # p
  <2>1. k \in DOMAIN s /\ r[j] = s[k]
    BY <1>a, <1>3, <1>5
  <2> QED BY <1>5, <2>1 DEF r
<1> QED BY <1>4, <1>5

LEMMA InsertAtMembers ==
  ASSUME NEW S, NEW s \in Seq(S), NEW p \in 1 .. (Len(s) + 1), NEW e \in S, NEW r,
         r = InsertAt(s, p, e)
  PROVE  \A j \in DOMAIN r : r[j] = e \/ \E k \in DOMAIN s : r[j] = s[k]
<1> SUFFICES ASSUME NEW j \in DOMAIN InsertAt(s, p, e)
             PROVE  InsertAt(s, p, e)[j] = e \/ \E k \in DOMAIN s : InsertAt(s, p, e)[j] = s[k]
  OBVIOUS
<1> QED BY InsertAtEntries

\* Every period and every offset is well within the clock's range.
LEMMA DelayBound ==
  /\ Cardinality(Nodes) \in Nat /\ MaxLag \in Nat
  /\ MaxLag + Cardinality(Nodes) + 1 < Half
  /\ \A d \in Periods \cup Offsets \cup Iterations :
       d \in Nat /\ MaxLag + Cardinality(Nodes) + 1 + d < Half
<1>1. Cardinality(Nodes) \in Nat
  BY SchedAssumption, FS_CardinalityType
<1>2. \A d \in {0} \cup Periods \cup Offsets \cup Iterations :
        d \in Nat /\ MaxLag + Cardinality(Nodes) + 1 + d < Half
  BY SchedAssumption DEF Half
<1>3. MaxLag \in Nat
  BY SchedAssumption
<1>4. 0 \in {0} \cup Periods \cup Offsets \cup Iterations
  OBVIOUS
<1>5. MaxLag + Cardinality(Nodes) + 1 + 0 < Half
  BY <1>2, <1>4
<1>6. MaxLag + Cardinality(Nodes) + 1 < Half
  BY <1>1, <1>3, <1>5, HalfMeans
<1> QED BY <1>1, <1>2, <1>3, <1>6

LEMMA EntryPeriod == \A e \in TimedEntry : e.period \in Nat /\ MaxLag + Cardinality(Nodes) + 1 + e.period < Half
  BY DelayBound DEF TimedEntry

\* A timer put back is due later than now, by no more than its period.
LEMMA NextExecutionLater ==
  ASSUME NEW e \in TimedEntry, NEW t \in Times, TimeDiff(e.at, t) <= 0, e.period # 0
  PROVE  TimeDiff(NextExecution(e, t), t) \in 1 .. e.period
<1> DEFINE x == TimeDiff(e.at, t)
<1>1. t \in Int /\ e.at \in Int /\ e.period \in Nat /\ e.period < Half /\ e.period >= 1
  BY EntryFields, TimesInt, EntryPeriod, DelayBound, HalfMeans
<1>2. x \in Int /\ x <= 0
  BY <1>1, DiffMeans
<1>3. TimeDiff(t, t) = 0
  BY <1>1, DiffSelf
<1> HIDE DEF x
<1>4. ASSUME NEW d \in 1 .. e.period PROVE TimeDiff(TimeAdd(t, d), t) = d
  <2>1. d \in Int /\ 0 + d < Half /\ 0 + d >= - Half
    BY <1>1, HalfMeans
  <2> QED BY <1>1, <1>3, <2>1, DiffOfSum
<1>5. CASE -x >= e.period
  <2>1. NextExecution(e, t) = TimeAdd(t, 1) /\ 1 \in 1 .. e.period
    BY <1>1, <1>5 DEF NextExecution, x
  <2> QED BY <1>1, <1>4, <2>1
<1>6. CASE ~(-x >= e.period)
  <2>1. NextExecution(e, t) = TimeAdd(t, e.period + x)
    BY <1>6 DEF NextExecution, x
  <2>2. e.period + x \in 1 .. e.period
    BY <1>1, <1>2, <1>6
  <2> QED BY <1>4, <2>1, <2>2
<1> QED BY <1>5, <1>6

-----------------------------------------------------------------------------
(* The queue of a pass: no node is in it twice.                             *)

Queued == NodesOf(mQtl)

NotDueIfQueued(list, now) ==
  \A i \in DOMAIN list : list[i].node \in Queued => TimeDiff(list[i].at, now) > 0

\* What the pass over the lists has put into the queue it does not meet again.
QueueInv ==
  /\ Distinct(mQtl)
  /\ CurNodes \cap Queued = {}
  /\ pc = "enter" => mQtl = << >>
  /\ pc = "oneShots" =>
       /\ Queued \cap NodesOf(mIterationsBasedList) = {}
       /\ \A i, j \in DOMAIN mOneShotsList :
            mOneShotsList[i].node \in Queued /\ mOneShotsList[j].node = pIter => i < j
  /\ pc \in {"oneShots", "iterations", "beginTimers"} =>
       Queued \cap NodesOf(mTimerBasedList) = {}
  /\ pc = "iterations" =>
       /\ NotDueIfQueued(mIterationsBasedList, mIterationsCounter)
       /\ \A e \in cur : TimeDiff(e.at, mIterationsCounter) <= 0
  /\ pc = "timers" =>
       /\ NotDueIfQueued(mTimerBasedList, mCurrentTime)
       /\ \A e \in cur : TimeDiff(e.at, mCurrentTime) <= 0
  /\ pc \in {"oneShots", "iterations", "timers"} /\ (pIter # NULL \/ cur # {}) =>
       Len(mQtl) < MaxTasks

LEMMA QueueInit == Init => QueueInv
  BY DEF Init, QueueInv, Distinct, CurNodes, Queued, NodesOf

\* With room in the queue what is collected is put at its end.
LEMMA CollectMeans ==
  ASSUME TypeOK, NEW e, e.node \in Nodes, Collect(e), Len(mQtl) < MaxTasks, Distinct(mQtl),
         e.node \notin Queued
  PROVE  /\ mQtl' = Append(mQtl, [node |-> e.node, isPeriodic |-> e.period # 0])
         /\ Distinct(mQtl') /\ Queued' = Queued \cup {e.node}
         /\ Len(mQtl') # MaxTasks => Len(mQtl') < MaxTasks
<1> DEFINE q == [node |-> e.node, isPeriodic |-> e.period # 0]
<1>1. (e.period # 0) \in BOOLEAN
  OBVIOUS
<1>2. q \in QtlElement
  BY <1>1, Zenon DEF QtlElement
<1>3. Len(mQtl) \in Nat /\ MaxTasks \in Nat /\ mQtl \in Seq(QtlElement)
  BY ListTypes, SchedAssumption
<1>4. mQtl' = Append(mQtl, q)
  BY <1>3 DEF Collect
<1>5. q.node = e.node
  OBVIOUS
<1> HIDE DEF q
<1>6. Distinct(mQtl') /\ NodesOf(mQtl') = NodesOf(mQtl) \cup {e.node}
  BY <1>2, <1>3, <1>4, <1>5, AppendNodes DEF Queued
<1>7. Len(mQtl') = Len(mQtl) + 1
  BY <1>2, <1>3, <1>4
<1>8. Len(mQtl') # MaxTasks => Len(mQtl') < MaxTasks
  BY <1>3, <1>7
<1> QED BY <1>4, <1>6, <1>8 DEF q, Queued

\* PollTimed takes no entry twice: what it puts back is not due any more.
LEMMA PollTimedQueues ==
  ASSUME TypeOK, PlacesInv, QueueInv, NEW list \in Seq(TimedEntry), NEW list2,
         NEW t \in Times, NotDueIfQueued(list, t), Distinct(list),
         CurNodes \cap NodesOf(list) = {}, \A e \in cur : TimeDiff(e.at, t) <= 0,
         pIter # NULL \/ cur # {} => Len(mQtl) < MaxTasks,
         \/ /\ pIter # NULL /\ cur = {}
            /\ \E i \in DOMAIN list :
                 /\ TimeDiff(list[i].at, t) <= 0
                 /\ list2 = RemoveAt(list, i)
                 /\ cur' = {list[i]}
            /\ mQtl' = mQtl
         \/ /\ \E e \in cur :
                 /\ IF e.period = 0 THEN list2 = list
                    ELSE LET again == [e EXCEPT !.at = NextExecution(e, t)] IN
                         \E p \in 1 .. (Len(list) + 1) :
                           /\ IsInsertPosition(list, again.at, p)
                           /\ list2 = InsertAt(list, p, again)
                 /\ Collect(e)
            /\ cur' = {}
            /\ pIter' = IF Len(mQtl') = MaxTasks THEN NULL ELSE pIter
  PROVE  /\ \A j \in DOMAIN list2 : list2[j].node \in Queued' => TimeDiff(list2[j].at, t) > 0
         /\ \A e \in cur' : TimeDiff(e.at, t) <= 0
         /\ Distinct(mQtl')
         /\ Queued' \subseteq Queued \cup CurNodes
         /\ CurNodes' \cap Queued' = {}
         /\ pIter' # NULL \/ cur' # {} => Len(mQtl') < MaxTasks
<1>1. ASSUME pIter # NULL, cur = {}, mQtl' = mQtl, NEW i \in DOMAIN list,
             TimeDiff(list[i].at, t) <= 0, list2 = RemoveAt(list, i), cur' = {list[i]}
      PROVE  /\ \A j \in DOMAIN list2 : list2[j].node \in Queued' => TimeDiff(list2[j].at, t) > 0
             /\ \A e \in cur' : TimeDiff(e.at, t) <= 0
             /\ Distinct(mQtl')
             /\ Queued' \subseteq Queued \cup CurNodes
             /\ CurNodes' \cap Queued' = {}
             /\ pIter' # NULL \/ cur' # {} => Len(mQtl') < MaxTasks
  <2>1. Queued' = Queued
    BY <1>1 DEF Queued
  <2>2. \A j \in DOMAIN list2 : \E k \in DOMAIN list : list2[j] = list[k]
    BY <1>1, RemoveAtEntries
  <2>3. \A j \in DOMAIN list2 : list2[j].node \in Queued' => TimeDiff(list2[j].at, t) > 0
    BY <2>1, <2>2 DEF NotDueIfQueued
  <2>4. list[i].at \in Times
    BY EntryFields
  <2>5. TimeDiff(list[i].at, t) \in Int
    BY <2>4, TimesInt, TimeDiffType
  <2>6. list[i].node \notin Queued
    BY <1>1, <2>5 DEF NotDueIfQueued
  <2>7. CurNodes' = {list[i].node}
    BY <1>1 DEF CurNodes
  <2> QED
    BY <1>1, <2>1, <2>3, <2>6, <2>7 DEF QueueInv
<1>2. ASSUME cur' = {}, pIter' = (IF Len(mQtl') = MaxTasks THEN NULL ELSE pIter), NEW e \in cur,
             IF e.period = 0 THEN list2 = list
             ELSE LET again == [e EXCEPT !.at = NextExecution(e, t)] IN
                  \E p \in 1 .. (Len(list) + 1) :
                    /\ IsInsertPosition(list, again.at, p)
                    /\ list2 = InsertAt(list, p, again),
             Collect(e)
      PROVE  /\ \A j \in DOMAIN list2 : list2[j].node \in Queued' => TimeDiff(list2[j].at, t) > 0
             /\ \A f \in cur' : TimeDiff(f.at, t) <= 0
             /\ Distinct(mQtl')
             /\ Queued' \subseteq Queued \cup CurNodes
             /\ CurNodes' \cap Queued' = {}
             /\ pIter' # NULL \/ cur' # {} => Len(mQtl') < MaxTasks
  <2>1. e \in TimedEntry /\ e.node \in Nodes /\ e.node \in CurNodes /\ e.period \in Nat
    BY ListTypes, EntryFields DEF CurNodes
  <2>2. e.node \notin Queued /\ Len(mQtl) < MaxTasks /\ Distinct(mQtl)
    BY <2>1 DEF QueueInv
  <2>3. Queued' = Queued \cup {e.node} /\ Distinct(mQtl')
        /\ (Len(mQtl') # MaxTasks => Len(mQtl') < MaxTasks)
    BY <1>2, <2>1, <2>2, CollectMeans
  <2>4. \A k \in DOMAIN list : list[k].node # e.node
    BY <2>1 DEF NodesOf
  <2>5. \A j \in DOMAIN list2 : list2[j].node \in Queued' => TimeDiff(list2[j].at, t) > 0
    <3>1. CASE e.period = 0
      BY <1>2, <2>3, <2>4, <3>1 DEF NotDueIfQueued
    <3>2. CASE e.period # 0
      <4> DEFINE again == [e EXCEPT !.at = NextExecution(e, t)]
      <4>1. PICK p \in 1 .. (Len(list) + 1) : list2 = InsertAt(list, p, again)
        BY <1>2, <3>2
      <4>2. again \in TimedEntry /\ again.at = NextExecution(e, t)
        BY <2>1, NextExecutionType DEF TimedEntry
      <4>3. TimeDiff(again.at, t) > 0
        BY <2>1, <3>2, <4>2, NextExecutionLater
      <4> HIDE DEF again
      <4>4. \A j \in DOMAIN list2 : list2[j] = again \/ \E k \in DOMAIN list : list2[j] = list[k]
        BY <4>1, <4>2, InsertAtEntries
      <4> QED
        BY <2>3, <2>4, <4>3, <4>4 DEF NotDueIfQueued
    <3> QED BY <3>1, <3>2
  <2>6. CurNodes' = {}
    BY <1>2 DEF CurNodes
  <2> QED
    BY <1>2, <2>1, <2>3, <2>5, <2>6
<1> QED
  BY <1>1, <1>2

\* A step of a caller: it leaves the queue alone, and moves no schedulable while a pass
\* holds the lock.
CallerStep == Finish \/ Call

LEMMA CallerKeepsQueue ==
  ASSUME TypeOK, CallerStep
  PROVE  /\ UNCHANGED <<mQtl, pc, pIter, cur, mIterationsCounter, mCurrentTime>>
         /\ lock = "poll" => UNCHANGED lists
<1> USE DEF lists, times, poller, clients, flags, LockFree
<1>1. CASE Finish
  BY <1>1 DEF Finish, InsertTimer, InsertIdlePoller, CancelScheduledTask, TriggerEvent,
     CtlSignal
<1>2. CASE Call
  BY <1>2 DEF Call, AddOneShot, StampTimer, AddIdlePoller, StampIdlePoller, Cancel,
     TestScheduled, LoadMask, TriggerEventFromIsr, EnablePrio, DisablePrio, Quit
<1> QED
  BY <1>1, <1>2 DEF CallerStep

LEMMA TailNodes ==
  ASSUME NEW S, NEW s \in Seq(S), s # << >>, Distinct(s)
  PROVE  /\ Distinct(Tail(s)) /\ NodesOf(Tail(s)) \subseteq NodesOf(s)
         /\ NodesOf(Tail(s)) = NodesOf(s) \ {s[1].node}
<1> DEFINE r == Tail(s)
<1>1. /\ r \in Seq(S) /\ DOMAIN r = 1 .. (Len(s) - 1) /\ Len(s) \in Nat /\ Len(s) >= 1
      /\ DOMAIN s = 1 .. Len(s) /\ \A j \in 1 .. (Len(s) - 1) : r[j] = s[j + 1]
  OBVIOUS
<1> HIDE DEF r
<1>2. \A j \in DOMAIN r : j + 1 \in DOMAIN s /\ r[j] = s[j + 1] /\ j + 1 # 1
  BY <1>1
<1>3. Distinct(r)
  BY <1>1, <1>2 DEF Distinct
<1>4. \A k \in DOMAIN s : k # 1 => k - 1 \in DOMAIN r /\ r[k - 1] = s[k]
  BY <1>1
<1>5. 1 \in DOMAIN s /\ \A k \in DOMAIN s : s[k].node = s[1].node => k = 1
  BY <1>1 DEF Distinct
<1>6. \A j \in DOMAIN r : r[j].node \in NodesOf(s) \ {s[1].node}
  BY <1>2, <1>5 DEF NodesOf
<1>7. \A k \in DOMAIN s : s[k].node = s[1].node \/ s[k].node \in NodesOf(r)
  BY <1>4 DEF NodesOf
<1>8. NodesOf(r) = NodesOf(s) \ {s[1].node}
  BY <1>6, <1>7 DEF NodesOf
<1> QED BY <1>3, <1>8 DEF r

LEMMA QueueStep ==
  TypeOK /\ ControlInv /\ PlacesInv /\ QueueInv /\ [Next]_vars => QueueInv'
<1> SUFFICES ASSUME TypeOK, ControlInv, PlacesInv, QueueInv, [Next]_vars PROVE QueueInv'
  OBVIOUS
<1> USE DEF lists, times, poller, clients, flags, Goto
<1>0. Len(mQtl) \in Nat /\ MaxTasks \in Nat /\ MaxTasks > 0 /\ NULL \notin Nodes
  BY ListTypes, SchedAssumption
<1>1. CASE CallerStep
  <2>1. /\ UNCHANGED <<mQtl, pc, pIter, cur, mIterationsCounter, mCurrentTime>>
        /\ lock = "poll" => UNCHANGED lists
    BY <1>1, CallerKeepsQueue
  <2>2. CASE lock = "poll"
    BY <2>1, <2>2 DEF QueueInv, Queued, CurNodes, NotDueIfQueued
  <2>3. CASE lock # "poll"
    <3>1. pc \notin {"oneShots", "iterations", "beginTimers", "timers"}
      BY <2>3 DEF ControlInv
    <3> QED
      BY <2>1, <3>1 DEF QueueInv, Queued, CurNodes
  <2> QED BY <2>2, <2>3
<1>2. CASE CheckRunning \/ TestEnabled \/ ReadEvents \/ ClearEvents \/ RunEvent
           \/ EventsDone \/ Decide \/ TakeToken \/ WaitTimeout \/ ExitPoll \/ Tick
           \/ UNCHANGED vars
  <2>1. UNCHANGED <<lists, mQtl, cur, pIter, mIterationsCounter>>
    BY <1>2 DEF CheckRunning, TestEnabled, ReadEvents, ClearEvents, RunEvent, EventsDone,
       Decide, TakeToken, WaitTimeout, ExitPoll, Tick, vars
  <2>2. \/ UNCHANGED <<pc, mCurrentTime>>
        \/ pc' \notin {"enter", "oneShots", "iterations", "beginTimers", "timers"}
    BY <1>2 DEF CheckRunning, TestEnabled, ReadEvents, ClearEvents, RunEvent, EventsDone,
       Decide, TakeToken, WaitTimeout, ExitPoll, Tick, vars
  <2> QED
    BY <2>1, <2>2 DEF QueueInv, Queued, CurNodes, NotDueIfQueued
<1>3. CASE BeginPoll
  <2>1. mQtl' = << >> /\ pc' = "enter" /\ cur' = cur
    BY <1>3 DEF BeginPoll
  <2> QED
    BY <2>1 DEF QueueInv, Queued, CurNodes, Distinct, NodesOf
<1>4. CASE EnterPoll
  <2>1. mQtl = << >> /\ pc' = "oneShots" /\ UNCHANGED <<mQtl, cur, lists>>
    BY <1>4 DEF EnterPoll, QueueInv
  <2>2. Queued' = {} /\ Len(mQtl') = 0
    BY <2>1 DEF Queued, NodesOf
  <2>3. \A i \in DOMAIN mOneShotsList' : mOneShotsList'[i].node \notin Queued'
    BY <2>2
  <2> QED
    BY <1>0, <2>1, <2>2, <2>3 DEF QueueInv, CurNodes
<1>5. CASE CollectOneShot
  <2>1. PICK i \in DOMAIN mOneShotsList :
          /\ mOneShotsList[i].node = pIter
          /\ mOneShotsList' = IF mOneShotsList[i].period = 0
                              THEN RemoveAt(mOneShotsList, i) ELSE mOneShotsList
          /\ Collect(mOneShotsList[i])
          /\ pIter' = IF Len(mQtl') = MaxTasks THEN NULL ELSE NodeAfter(mOneShotsList, i)
    BY <1>5 DEF CollectOneShot
  <2> DEFINE e == mOneShotsList[i]
  <2>2. /\ pc = "oneShots" /\ pc' = "oneShots" /\ pIter # NULL
        /\ UNCHANGED <<mTimerBasedList, mIterationsBasedList, cur>>
    BY <1>5 DEF CollectOneShot
  <2>3. cur = {} /\ Len(mQtl) < MaxTasks /\ Distinct(mQtl)
    BY <2>2 DEF ControlInv, QueueInv
  <2>4. e.node \in Nodes /\ e.node \in NodesOf(mOneShotsList)
    BY ListTypes, EntryFields DEF NodesOf
  <2>5. e.node \notin Queued
    BY <2>1, <2>2, ListTypes DEF QueueInv
  <2>6. /\ Distinct(mQtl') /\ Queued' = Queued \cup {e.node}
        /\ Len(mQtl') # MaxTasks => Len(mQtl') < MaxTasks
    BY <2>1, <2>3, <2>4, <2>5, CollectMeans
  <2>7. /\ Queued' \cap NodesOf(mIterationsBasedList') = {}
        /\ Queued' \cap NodesOf(mTimerBasedList') = {}
    BY <2>2, <2>4, <2>6 DEF QueueInv, PlacesInv
  <2>8. pIter' # NULL => Len(mQtl') < MaxTasks
    BY <2>1, <2>6
  <2>9. ASSUME NEW j \in DOMAIN mOneShotsList', NEW k \in DOMAIN mOneShotsList',
               mOneShotsList'[j].node \in Queued', mOneShotsList'[k].node = pIter'
        PROVE  j < k
    <3>0. Distinct(mOneShotsList) /\ DOMAIN mOneShotsList = 1 .. Len(mOneShotsList)
          /\ Len(mOneShotsList) \in Nat
      BY ListTypes DEF PlacesInv
    <3>1. mOneShotsList' \in Seq(OneShotEntry)
      BY <2>1, ListTypes, RemoveAtMeans
    <3>2. mOneShotsList'[k].node \in Nodes
      BY <3>1, EntryFields
    <3>3. i < Len(mOneShotsList) /\ pIter' = mOneShotsList[i + 1].node
      BY <1>0, <2>1, <2>9, <3>2 DEF NodeAfter
    <3>4. \A l \in DOMAIN mOneShotsList : mOneShotsList[l].node \in Queued => l < i
      BY <2>1, <2>2 DEF QueueInv
    <3>5. CASE e.period = 0
      <4>1. mOneShotsList' = RemoveAt(mOneShotsList, i)
        BY <2>1, <3>5
      <4>2. PICK j1 \in DOMAIN mOneShotsList :
              /\ mOneShotsList'[j] = mOneShotsList[j1] /\ j1 # i
              /\ j1 = IF j < i THEN j ELSE j + 1
        BY <4>1, ListTypes, RemoveAtEntries
      <4>3. PICK k1 \in DOMAIN mOneShotsList :
              /\ mOneShotsList'[k] = mOneShotsList[k1]
              /\ k1 = IF k < i THEN k ELSE k + 1
        BY <4>1, ListTypes, RemoveAtEntries
      <4>4. i + 1 \in DOMAIN mOneShotsList
        BY <3>0, <3>3
      <4>5. k1 = i + 1
        BY <2>9, <3>0, <3>3, <4>3, <4>4 DEF Distinct
      <4>6. mOneShotsList[j1].node # e.node
        BY <3>0, <4>2 DEF Distinct
      <4>7. j1 < i
        BY <2>6, <2>9, <3>4, <4>2, <4>6
      <4>8. j \in Int /\ k \in Int
        BY <3>1
      <4> QED BY <3>0, <4>2, <4>3, <4>5, <4>7, <4>8
    <3>6. CASE e.period # 0
      <4>1. mOneShotsList' = mOneShotsList
        BY <2>1, <3>6
      <4>2. i + 1 \in DOMAIN mOneShotsList /\ k = i + 1
        BY <2>9, <3>0, <3>3, <4>1 DEF Distinct
      <4>3. j <= i
        BY <2>6, <2>9, <3>0, <3>4, <4>1 DEF Distinct
      <4> QED BY <3>0, <4>1, <4>2, <4>3
    <3> QED BY <3>5, <3>6
  <2> QED
    BY <2>2, <2>3, <2>6, <2>7, <2>8, <2>9 DEF QueueInv, CurNodes
<1>6. CASE BeginIterations
  <2>1. /\ UNCHANGED <<lists, mQtl, cur, mIterationsCounter>> /\ pc = "oneShots"
        /\ \/ pc' = "iterations" /\ Len(mQtl) < MaxTasks
           \/ pc' = "beginTimers"
    BY <1>6 DEF BeginIterations
  <2>2. cur = {}
    BY <2>1 DEF ControlInv
  <2>3. \A i \in DOMAIN mIterationsBasedList : mIterationsBasedList[i].node \notin Queued
    BY <2>1 DEF QueueInv, NodesOf
  <2> QED
    BY <2>1, <2>2, <2>3 DEF QueueInv, Queued, CurNodes, NotDueIfQueued
<1>7. CASE BeginTimers
  <2>1. /\ UNCHANGED <<lists, mQtl, cur, mCurrentTime>> /\ pc = "beginTimers"
        /\ \/ pc' = "timers" /\ Len(mQtl) < MaxTasks
           \/ pc' = "exit"
    BY <1>7 DEF BeginTimers
  <2>2. cur = {}
    BY <2>1 DEF ControlInv
  <2>3. \A i \in DOMAIN mTimerBasedList : mTimerBasedList[i].node \notin Queued
    BY <2>1 DEF QueueInv, NodesOf
  <2> QED
    BY <2>1, <2>2, <2>3 DEF QueueInv, Queued, CurNodes, NotDueIfQueued
<1>8. CASE PollIterations
  <2>1. CASE PollTimedDone(mIterationsBasedList, mIterationsCounter, "beginTimers")
    <3>1. pc = "iterations" /\ pc' = "beginTimers" /\ UNCHANGED <<lists, mQtl, cur>> /\ cur = {}
      BY <1>8, <2>1 DEF PollIterations, PollTimedDone
    <3> QED BY <3>1 DEF QueueInv, Queued, CurNodes
  <2>2. CASE ~PollTimedDone(mIterationsBasedList, mIterationsCounter, "beginTimers")
    <3>1. /\ pc = "iterations" /\ pc' = "iterations"
          /\ UNCHANGED <<mTimerBasedList, mIterationsCounter>>
      BY <1>8, <2>2 DEF PollIterations, PollTimedUnlist, PollTimedRelist
    <3>2. /\ mIterationsCounter \in Times
          /\ Distinct(mIterationsBasedList) /\ CurNodes \cap NodesOf(mIterationsBasedList) = {}
          /\ CurNodes \cap NodesOf(mTimerBasedList) = {}
          /\ NotDueIfQueued(mIterationsBasedList, mIterationsCounter)
          /\ \A e \in cur : TimeDiff(e.at, mIterationsCounter) <= 0
          /\ pIter # NULL \/ cur # {} => Len(mQtl) < MaxTasks
      BY <3>1 DEF TypeOK, PlacesInv, Linked, QueueInv
    <3>3. /\ \A j \in DOMAIN mIterationsBasedList' :
               mIterationsBasedList'[j].node \in Queued' => TimeDiff(mIterationsBasedList'[j].at, mIterationsCounter) > 0
          /\ \A e \in cur' : TimeDiff(e.at, mIterationsCounter) <= 0
          /\ Distinct(mQtl')
          /\ Queued' \subseteq Queued \cup CurNodes
          /\ CurNodes' \cap Queued' = {}
          /\ pIter' # NULL \/ cur' # {} => Len(mQtl') < MaxTasks
      BY <1>8, <2>2, <3>2, ListTypes, PollTimedQueues
         DEF PollIterations, PollTimedUnlist, PollTimedRelist
    <3> QED BY <3>1, <3>2, <3>3 DEF QueueInv, NotDueIfQueued
  <2> QED BY <2>1, <2>2
<1>9. CASE PollTimers
  <2>1. CASE PollTimedDone(mTimerBasedList, mCurrentTime, "exit")
    <3>1. pc = "timers" /\ pc' = "exit" /\ UNCHANGED <<lists, mQtl, cur>> /\ cur = {}
      BY <1>9, <2>1 DEF PollTimers, PollTimedDone
    <3> QED BY <3>1 DEF QueueInv, Queued, CurNodes
  <2>2. CASE ~PollTimedDone(mTimerBasedList, mCurrentTime, "exit")
    <3>1. /\ pc = "timers" /\ pc' = "timers" /\ UNCHANGED mCurrentTime
      BY <1>9, <2>2 DEF PollTimers, PollTimedUnlist, PollTimedRelist
    <3>2. /\ mCurrentTime \in Times
          /\ Distinct(mTimerBasedList) /\ CurNodes \cap NodesOf(mTimerBasedList) = {}
          /\ NotDueIfQueued(mTimerBasedList, mCurrentTime)
          /\ \A e \in cur : TimeDiff(e.at, mCurrentTime) <= 0
          /\ pIter # NULL \/ cur # {} => Len(mQtl) < MaxTasks
      BY <3>1 DEF TypeOK, PlacesInv, Linked, QueueInv
    <3>3. /\ \A j \in DOMAIN mTimerBasedList' :
               mTimerBasedList'[j].node \in Queued' => TimeDiff(mTimerBasedList'[j].at, mCurrentTime) > 0
          /\ \A e \in cur' : TimeDiff(e.at, mCurrentTime) <= 0
          /\ Distinct(mQtl')
          /\ Queued' \subseteq Queued \cup CurNodes
          /\ CurNodes' \cap Queued' = {}
          /\ pIter' # NULL \/ cur' # {} => Len(mQtl') < MaxTasks
      BY <1>9, <2>2, <3>2, ListTypes, PollTimedQueues
         DEF PollTimers, PollTimedUnlist, PollTimedRelist
    <3> QED BY <3>1, <3>2, <3>3 DEF QueueInv, NotDueIfQueued
  <2> QED BY <2>1, <2>2
<1>10. CASE RunTask
  <2>1. /\ pc = "run" /\ pc' = "run" /\ mQtl # << >> /\ mQtl' = Tail(mQtl)
        /\ UNCHANGED <<lists, cur>>
    BY <1>10 DEF RunTask
  <2>2. Distinct(mQtl') /\ Queued' \subseteq Queued
    BY <2>1, ListTypes, TailNodes DEF QueueInv, Queued
  <2> QED BY <2>1, <2>2 DEF QueueInv, CurNodes
<1> QED
  BY <1>1, <1>2, <1>3, <1>4, <1>5, <1>6, <1>7, <1>8, <1>9, <1>10
     DEF Next, Poller, CallerStep

LEMMA UnlistEntries ==
  ASSUME NEW S, NEW s \in Seq(S), NEW n, NEW j \in DOMAIN Unlist(s, n)
  PROVE  \E k \in DOMAIN s : Unlist(s, n)[j] = s[k] /\ (k = j \/ k = j + 1)
<1>1. CASE n \in NodesOf(s)
  <2>1. PICK i \in DOMAIN s : s[i].node = n /\ Unlist(s, n) = RemoveAt(s, i)
    BY <1>1, UnlistMeans
  <2>2. j \in DOMAIN RemoveAt(s, i)
    BY <2>1
  <2>3. \E k \in DOMAIN s : RemoveAt(s, i)[j] = s[k] /\ k # i /\ k = IF j < i THEN j ELSE j + 1
    BY <2>2, RemoveAtEntries
  <2> QED BY <2>1, <2>3
<1>2. CASE n \notin NodesOf(s)
  BY <1>2 DEF Unlist
<1> QED BY <1>1, <1>2

\* A function polled every few iterations has a period.
PeriodsInv ==
  /\ \A i \in DOMAIN mIterationsBasedList : mIterationsBasedList[i].period # 0
  /\ \A s \in stamped : s.list = "iteration" => s.entry.period # 0
  /\ pc = "iterations" => \A e \in cur : e.period # 0

LEMMA PeriodsInit == Init => PeriodsInv
  BY DEF Init, PeriodsInv

LEMMA PeriodsStep == TypeOK /\ ControlInv /\ PeriodsInv /\ [Next]_vars => PeriodsInv'
<1> SUFFICES ASSUME TypeOK, ControlInv, PeriodsInv, [Next]_vars PROVE PeriodsInv'
  OBVIOUS
<1> USE DEF lists, times, poller, clients, flags, Goto
<1>0. ASSUME UNCHANGED <<mIterationsBasedList, cur, stamped>>, pc' = "iterations" => cur = {} \/ pc' = pc
      PROVE  PeriodsInv'
  BY <1>0 DEF PeriodsInv
<1>1. CASE ~ListStep
  <2>1. UNCHANGED <<lists, cur, stamped>>
    BY <1>1, OtherSteps
  <2>2. pc' = "iterations" => cur = {} \/ pc' = pc
    <3>1. CASE Poller
      BY <1>1, <3>1 DEF ListStep, Poller, CheckRunning, TestEnabled, ReadEvents, ClearEvents,
         RunEvent, EventsDone, BeginPoll, EnterPoll, BeginIterations, BeginTimers, ExitPoll,
         RunTask, Decide, TakeToken, WaitTimeout, ControlInv
    <3>2. CASE CallerStep
      BY <3>2, CallerKeepsQueue
    <3>3. CASE Tick \/ UNCHANGED vars
      BY <3>3 DEF Tick, vars
    <3> QED BY <3>1, <3>2, <3>3 DEF Next, CallerStep
  <2> QED BY <1>0, <2>1, <2>2
<1>2. CASE CollectOneShot
  BY <1>0, <1>2 DEF CollectOneShot
<1>3. CASE PollTimers
  <2>1. UNCHANGED <<mIterationsBasedList, stamped>> /\ pc' # "iterations"
    BY <1>3 DEF PollTimers, PollTimedUnlist, PollTimedRelist, PollTimedDone
  <2> QED BY <2>1 DEF PeriodsInv
<1>4. CASE PollIterations
  <2>0. UNCHANGED stamped /\ pc = "iterations"
    BY <1>4 DEF PollIterations, PollTimedUnlist, PollTimedRelist, PollTimedDone
  <2>1. CASE PollTimedDone(mIterationsBasedList, mIterationsCounter, "beginTimers")
    BY <1>0, <2>1 DEF PollTimedDone
  <2>2. CASE PollTimedUnlist(mIterationsBasedList, mIterationsCounter)
    <3>1. PICK i \in DOMAIN mIterationsBasedList :
            /\ mIterationsBasedList' = RemoveAt(mIterationsBasedList, i)
            /\ cur' = {mIterationsBasedList[i]}
      BY <2>2 DEF PollTimedUnlist
    <3>2. \A j \in DOMAIN mIterationsBasedList' : \E k \in DOMAIN mIterationsBasedList :
            mIterationsBasedList'[j] = mIterationsBasedList[k]
      BY <3>1, ListTypes, RemoveAtEntries
    <3> QED BY <2>0, <3>1, <3>2 DEF PeriodsInv
  <2>3. CASE PollTimedRelist(mIterationsBasedList, mIterationsCounter)
    <3>1. cur' = {}
      BY <2>3 DEF PollTimedRelist
    <3>2. PICK e \in cur :
            IF e.period = 0 THEN mIterationsBasedList' = mIterationsBasedList
            ELSE \E p \in 1 .. (Len(mIterationsBasedList) + 1) :
                   mIterationsBasedList' = InsertAt(mIterationsBasedList, p,
                     [e EXCEPT !.at = NextExecution(e, mIterationsCounter)])
      BY <2>3 DEF PollTimedRelist
    <3> DEFINE again == [e EXCEPT !.at = NextExecution(e, mIterationsCounter)]
    <3>3. e.period # 0
      BY <2>0 DEF PeriodsInv
    <3>4. e \in TimedEntry /\ mIterationsCounter \in Times
      BY DEF TypeOK
    <3>5. again \in TimedEntry /\ again.period = e.period
      BY <3>4, NextExecutionType DEF TimedEntry
    <3>6. PICK p \in 1 .. (Len(mIterationsBasedList) + 1) :
            mIterationsBasedList' = InsertAt(mIterationsBasedList, p, again)
      BY <3>2, <3>3
    <3> HIDE DEF again
    <3>7. \A j \in DOMAIN mIterationsBasedList' :
            \/ mIterationsBasedList'[j] = again
            \/ \E k \in DOMAIN mIterationsBasedList :
                 mIterationsBasedList'[j] = mIterationsBasedList[k]
      BY <3>5, <3>6, ListTypes, InsertAtEntries
    <3> QED BY <2>0, <3>1, <3>3, <3>5, <3>7 DEF PeriodsInv
  <2> QED BY <1>4, <2>1, <2>2, <2>3 DEF PollIterations
<1>5. ASSUME NEW n \in Nodes, AddOneShot(n) \/ AddIdlePoller(n) PROVE PeriodsInv'
  BY <1>0, <1>5 DEF AddOneShot, AddIdlePoller
<1>6. ASSUME NEW n \in Nodes, Cancel(n) \/ CancelScheduledTask(n) PROVE PeriodsInv'
  <2>1. /\ mIterationsBasedList' = Unlist(mIterationsBasedList, n)
        /\ UNCHANGED <<cur, stamped, pc>>
    BY <1>6 DEF Cancel, CancelScheduledTask, UnlistEverywhere
  <2>2. \A j \in DOMAIN mIterationsBasedList' : \E k \in DOMAIN mIterationsBasedList :
          mIterationsBasedList'[j] = mIterationsBasedList[k]
    BY <2>1, ListTypes, UnlistEntries
  <2> QED BY <2>1, <2>2 DEF PeriodsInv
<1>7. ASSUME NEW n \in Nodes, NEW period \in Periods, NEW offset \in Offsets,
             StampTimer(n, period, offset)
      PROVE  PeriodsInv'
  BY <1>7 DEF StampTimer, PeriodsInv
<1>8. ASSUME NEW n \in Nodes, NEW k \in Iterations, StampIdlePoller(n, k) PROVE PeriodsInv'
  BY <1>8, SchedAssumption DEF StampIdlePoller, PeriodsInv
<1>9. ASSUME NEW s \in stamped, InsertTimer(s) PROVE PeriodsInv'
  BY <1>9 DEF InsertTimer, PeriodsInv
<1>10. ASSUME NEW s \in stamped, InsertIdlePoller(s) PROVE PeriodsInv'
  <2>1. PICK p \in 1 .. (Len(mIterationsBasedList) + 1) :
          mIterationsBasedList' = InsertAt(mIterationsBasedList, p, s.entry)
    BY <1>10 DEF InsertIdlePoller
  <2>2. s.list = "iteration" /\ stamped' = stamped \ {s} /\ UNCHANGED <<cur, pc>>
    BY <1>10 DEF InsertIdlePoller
  <2>3. \A j \in DOMAIN mIterationsBasedList' :
          \/ mIterationsBasedList'[j] = s.entry
          \/ \E k \in DOMAIN mIterationsBasedList :
               mIterationsBasedList'[j] = mIterationsBasedList[k]
    BY <2>1, ListTypes, InsertAtEntries
  <2> QED BY <2>2, <2>3 DEF PeriodsInv
<1> QED
  BY <1>1, <1>2, <1>3, <1>4, <1>5, <1>6, <1>7, <1>8, <1>9, <1>10 DEF ListStep

-----------------------------------------------------------------------------
\* The parts together.
OrderInv == TypeOK /\ ControlInv /\ PlacesInv /\ QueueInv /\ PeriodsInv

LEMMA OrderStep == OrderInv /\ [Next]_vars => OrderInv'
  BY TypeStep, ControlStep, PlacesStep, QueueStep, PeriodsStep DEF OrderInv

LEMMA OrderKept == Spec => []OrderInv
<1>1. Init => OrderInv
  BY TypeInit, ControlInit, PlacesInit, QueueInit, PeriodsInit DEF OrderInv
<1> QED BY <1>1, OrderStep, PTL DEF Spec

LEMMA AtMostOne ==
  ASSUME NEW T, \A x, y \in T : x = y
  PROVE  Cardinality(T) = IF T = {} THEN 0 ELSE 1
<1>1. CASE T = {}
  BY <1>1, FS_EmptySet
<1>2. CASE T # {}
  <2>1. PICK x \in T : T = {x}
    BY <1>2
  <2> QED BY <2>1, FS_Singleton
<1> QED BY <1>1, <1>2

LEMMA OnceLinked == OrderInv => LinkedOnce
<1> SUFFICES ASSUME OrderInv, NEW n \in Nodes
             PROVE  /\ Cardinality({ i \in DOMAIN mOneShotsList : mOneShotsList[i].node = n })
                       + Cardinality({ i \in DOMAIN mTimerBasedList : mTimerBasedList[i].node = n })
                       + Cardinality({ i \in DOMAIN mIterationsBasedList :
                                         mIterationsBasedList[i].node = n }) <= 1
                    /\ Cardinality({ i \in DOMAIN mQtl : mQtl[i].node = n }) <= 1
  BY DEF LinkedOnce
<1>1. ASSUME NEW list, Distinct(list)
      PROVE  Cardinality({ i \in DOMAIN list : list[i].node = n })
               = IF n \in NodesOf(list) THEN 1 ELSE 0
  <2> DEFINE T == { i \in DOMAIN list : list[i].node = n }
  <2>1. \A x, y \in T : x = y
    BY <1>1 DEF Distinct
  <2>2. T = {} <=> n \notin NodesOf(list)
    BY DEF NodesOf
  <2> HIDE DEF T
  <2>3. Cardinality(T) = IF T = {} THEN 0 ELSE 1
    BY <2>1, AtMostOne
  <2> QED BY <2>2, <2>3 DEF T
<1> DEFINE count(list) == Cardinality({ i \in DOMAIN list : list[i].node = n })
<1>2. /\ Distinct(mOneShotsList) /\ Distinct(mTimerBasedList)
      /\ Distinct(mIterationsBasedList) /\ Distinct(mQtl)
  BY DEF OrderInv, PlacesInv, QueueInv
<1>3. /\ count(mOneShotsList) = IF n \in NodesOf(mOneShotsList) THEN 1 ELSE 0
      /\ count(mTimerBasedList) = IF n \in NodesOf(mTimerBasedList) THEN 1 ELSE 0
      /\ count(mIterationsBasedList) = IF n \in NodesOf(mIterationsBasedList) THEN 1 ELSE 0
      /\ count(mQtl) = IF n \in NodesOf(mQtl) THEN 1 ELSE 0
  BY <1>1, <1>2
<1> HIDE DEF count
<1>4. /\ count(mOneShotsList) + count(mTimerBasedList) + count(mIterationsBasedList) <= 1
      /\ count(mQtl) <= 1
  BY <1>3 DEF OrderInv, PlacesInv
<1> QED
  BY <1>4 DEF count

\* A schedulable is linked once over the three lists, and queued once for a batch,
\* for any number of them and any batch size.
THEOREM ListedOnce == Spec => []LinkedOnce
  BY OnceLinked, OrderKept, PTL

LEMMA PutBackLater ==
  OrderInv /\ [Next]_vars =>
    \A e \in cur : e.period # 0 =>
       \/ cur' = cur
       \/ \E i \in DOMAIN mTimerBasedList' :
             /\ mTimerBasedList'[i].node = e.node
             /\ TimeDiff(mTimerBasedList'[i].at, mCurrentTime) > 0
       \/ \E i \in DOMAIN mIterationsBasedList' :
             /\ mIterationsBasedList'[i].node = e.node
             /\ TimeDiff(mIterationsBasedList'[i].at, mIterationsCounter) > 0
<1> SUFFICES ASSUME OrderInv, [Next]_vars, NEW e \in cur, e.period # 0, cur' # cur
             PROVE  \/ \E i \in DOMAIN mTimerBasedList' :
                          /\ mTimerBasedList'[i].node = e.node
                          /\ TimeDiff(mTimerBasedList'[i].at, mCurrentTime) > 0
                    \/ \E i \in DOMAIN mIterationsBasedList' :
                          /\ mIterationsBasedList'[i].node = e.node
                          /\ TimeDiff(mIterationsBasedList'[i].at, mIterationsCounter) > 0
  OBVIOUS
<1>1. ASSUME NEW list \in Seq(TimedEntry), NEW list2, NEW t \in Times,
             TimeDiff(e.at, t) <= 0,
             NEW p \in 1 .. (Len(list) + 1),
             list2 = InsertAt(list, p, [e EXCEPT !.at = NextExecution(e, t)])
      PROVE  \E i \in DOMAIN list2 : list2[i].node = e.node /\ TimeDiff(list2[i].at, t) > 0
  <2> DEFINE again == [e EXCEPT !.at = NextExecution(e, t)]
  <2>1. e \in TimedEntry
    BY ListTypes DEF OrderInv
  <2>2. again \in TimedEntry /\ again.node = e.node /\ again.at = NextExecution(e, t)
    BY <2>1, NextExecutionType DEF TimedEntry
  <2>3. TimeDiff(again.at, t) \in 1 .. e.period /\ e.period \in Nat
    BY <1>1, <2>1, <2>2, NextExecutionLater, EntryFields
  <2>4. list2 = InsertAt(list, p, again)
    BY <1>1
  <2> HIDE DEF again
  <2>5. p \in DOMAIN list2 /\ list2[p] = again
    BY <2>2, <2>4, InsertAtMeans
  <2> QED BY <2>2, <2>3, <2>5
<1>2. pc \in {"iterations", "timers"} /\ (\A f \in cur : f = e) /\ cur # {}
  BY DEF OrderInv, ControlInv, PlacesInv
<1>3. mCurrentTime \in Times /\ mIterationsCounter \in Times
  BY DEF OrderInv, TypeOK
<1>4. CASE PollTimers
  <2>1. pc = "timers" /\ PollTimedRelist(mTimerBasedList, mCurrentTime)
    BY <1>2, <1>4 DEF PollTimers, PollTimedUnlist, PollTimedDone
  <2>2. TimeDiff(e.at, mCurrentTime) <= 0
    BY <2>1 DEF OrderInv, QueueInv
  <2>3. PICK p \in 1 .. (Len(mTimerBasedList) + 1) :
          mTimerBasedList' = InsertAt(mTimerBasedList, p,
                               [e EXCEPT !.at = NextExecution(e, mCurrentTime)])
    BY <1>2, <2>1 DEF PollTimedRelist
  <2> QED BY <1>1, <1>3, <2>2, <2>3, ListTypes DEF OrderInv
<1>5. CASE PollIterations
  <2>1. pc = "iterations" /\ PollTimedRelist(mIterationsBasedList, mIterationsCounter)
    BY <1>2, <1>5 DEF PollIterations, PollTimedUnlist, PollTimedDone
  <2>2. TimeDiff(e.at, mIterationsCounter) <= 0
    BY <2>1 DEF OrderInv, QueueInv
  <2>3. PICK p \in 1 .. (Len(mIterationsBasedList) + 1) :
          mIterationsBasedList' = InsertAt(mIterationsBasedList, p,
                                    [e EXCEPT !.at = NextExecution(e, mIterationsCounter)])
    BY <1>2, <2>1 DEF PollTimedRelist
  <2> QED BY <1>1, <1>3, <2>2, <2>3, ListTypes DEF OrderInv
<1>6. ListStep
  BY OtherSteps
<1>7. CASE CollectOneShot
  BY <1>2, <1>7 DEF CollectOneShot
<1>8. ASSUME NEW n \in Nodes,
             \/ AddOneShot(n) \/ AddIdlePoller(n) \/ Cancel(n) \/ CancelScheduledTask(n)
             \/ \E period \in Periods, offset \in Offsets : StampTimer(n, period, offset)
             \/ \E k \in Iterations : StampIdlePoller(n, k)
      PROVE  FALSE
  BY <1>8 DEF AddOneShot, AddIdlePoller, Cancel, CancelScheduledTask, StampTimer,
              StampIdlePoller, poller
<1>9. ASSUME NEW s \in stamped, InsertTimer(s) \/ InsertIdlePoller(s) PROVE FALSE
  BY <1>9 DEF InsertTimer, InsertIdlePoller, poller
<1> QED
  BY <1>4, <1>5, <1>6, <1>7, <1>8, <1>9 DEF ListStep

\* PollTimed puts every periodic schedulable it takes off a list back into it, due
\* strictly later than the pass that ran it, however late it was and across wraps.
THEOREM PeriodicsGoOn == Spec => PeriodicStaysScheduled
  BY PutBackLater, OrderKept, PTL DEF Spec, PeriodicStaysScheduled

-----------------------------------------------------------------------------
(* Executions owed.                                                         *)

\* The nodes of the entries that run once, and of the queued ones.
OneTimers(entries) == { e.node : e \in { f \in entries : f.period = 0 } }
OneTimersQueued(queue) == { q.node : q \in { r \in Range(queue) : ~r.isPeriodic } }

\* The executions owed, as a function of the lists.
OwedIn(one, timers, c, queue, n) ==
  Cardinality({ i \in DOMAIN one : one[i].node = n /\ one[i].period = 0 })
  + Cardinality({ i \in DOMAIN timers : timers[i].node = n /\ timers[i].period = 0 })
  + Cardinality({ e \in c : e.node = n /\ e.period = 0 })
  + Cardinality({ i \in DOMAIN queue : queue[i].node = n /\ ~queue[i].isPeriodic })

\* What they come to when each node is in one place.
LEMMA OwedMeans ==
  ASSUME NEW one, NEW timers, NEW c, NEW queue, NEW n,
         Distinct(one), Distinct(timers), Distinct(queue), \A e, f \in c : e = f,
         NodesOf(one) \cap NodesOf(timers) = {},
         \A e \in c : e.node \notin NodesOf(one) /\ e.node \notin NodesOf(timers)
  PROVE  OwedIn(one, timers, c, queue, n)
         = (IF n \in OneTimers(Range(one) \cup Range(timers) \cup c) THEN 1 ELSE 0)
           + (IF n \in OneTimersQueued(queue) THEN 1 ELSE 0)
<1> DEFINE A == { i \in DOMAIN one : one[i].node = n /\ one[i].period = 0 }
           B == { i \in DOMAIN timers : timers[i].node = n /\ timers[i].period = 0 }
           C == { e \in c : e.node = n /\ e.period = 0 }
           Q == { i \in DOMAIN queue : queue[i].node = n /\ ~queue[i].isPeriodic }
           W == Range(one) \cup Range(timers) \cup c
<1>1. /\ \A x, y \in A : x = y
      /\ \A x, y \in B : x = y
      /\ \A x, y \in C : x = y
      /\ \A x, y \in Q : x = y
  BY DEF Distinct
<1>2. A # {} => n \in NodesOf(one)
  BY DEF NodesOf
<1>3. B # {} => n \in NodesOf(timers)
  BY DEF NodesOf
<1>4. /\ A # {} => B = {} /\ C = {}
      /\ B # {} => C = {}
  BY <1>2, <1>3
<1>5. n \in OneTimers(W) <=> \E e \in W : e.period = 0 /\ e.node = n
  BY DEF OneTimers
<1>6. (\E e \in W : e.period = 0 /\ e.node = n) <=> A # {} \/ B # {} \/ C # {}
  BY DEF Range
<1>7. n \in OneTimersQueued(queue) <=> Q # {}
  BY DEF OneTimersQueued, Range
<1> HIDE DEF A, B, C, Q, W
<1>8. /\ Cardinality(A) = IF A = {} THEN 0 ELSE 1
      /\ Cardinality(B) = IF B = {} THEN 0 ELSE 1
      /\ Cardinality(C) = IF C = {} THEN 0 ELSE 1
      /\ Cardinality(Q) = IF Q = {} THEN 0 ELSE 1
  BY <1>1, AtMostOne
<1>9. Cardinality(A) + Cardinality(B) + Cardinality(C) + Cardinality(Q)
        = (IF n \in OneTimers(W) THEN 1 ELSE 0)
          + (IF n \in OneTimersQueued(queue) THEN 1 ELSE 0)
  BY <1>4, <1>5, <1>6, <1>7, <1>8
<1> QED BY <1>9 DEF A, B, C, Q, W, OwedIn

LEMMA RangeRemoveAt ==
  ASSUME NEW S, NEW s \in Seq(S), NEW i \in DOMAIN s, Distinct(s)
  PROVE  Range(RemoveAt(s, i)) = Range(s) \ {s[i]}
<1> DEFINE r == RemoveAt(s, i)
<1>1. /\ r \in Seq(S) /\ Len(r) = Len(s) - 1 /\ Len(s) \in Nat /\ i \in 1 .. Len(s)
      /\ DOMAIN s = 1 .. Len(s)
  BY RemoveAtMeans
<1>2. \A j \in 1 .. (Len(s) - 1) : r[j] = IF j < i THEN s[j] ELSE s[j + 1]
  BY RemoveAtMeans
<1>3. \A j \in DOMAIN r : \E k \in DOMAIN s : r[j] = s[k] /\ k # i
  BY RemoveAtEntries
<1> HIDE DEF r
<1>4. DOMAIN r = 1 .. (Len(s) - 1)
  BY <1>1
<1>5. \A k \in DOMAIN s : k < i => k \in DOMAIN r /\ r[k] = s[k]
  BY <1>1, <1>2, <1>4
<1>6. \A k \in DOMAIN s : k > i => k - 1 \in DOMAIN r /\ r[k - 1] = s[k]
  BY <1>1, <1>2, <1>4
<1>7. \A k \in DOMAIN s : k # i => s[k] # s[i] /\ s[k] \in Range(r)
  BY <1>1, <1>5, <1>6 DEF Distinct, Range
<1>8. \A j \in DOMAIN r : r[j] \in Range(s) \ {s[i]}
  BY <1>3, <1>7 DEF Range
<1>9. Range(r) = Range(s) \ {s[i]}
  BY <1>7, <1>8 DEF Range
<1> QED BY <1>9 DEF r

LEMMA RangeInsertAt ==
  ASSUME NEW S, NEW s \in Seq(S), NEW p \in 1 .. (Len(s) + 1), NEW e \in S
  PROVE  Range(InsertAt(s, p, e)) = Range(s) \cup {e}
<1> DEFINE r == InsertAt(s, p, e)
<1>1. r \in Seq(S) /\ Len(r) = Len(s) + 1 /\ Len(s) \in Nat /\ DOMAIN s = 1 .. Len(s)
  BY InsertAtMeans
<1>2. \A j \in 1 .. (Len(s) + 1) :
        r[j] = IF j < p THEN s[j] ELSE IF j = p THEN e ELSE s[j - 1]
  BY InsertAtMeans
<1>3. \A j \in DOMAIN r : r[j] = e \/ \E k \in DOMAIN s : r[j] = s[k]
  BY InsertAtEntries
<1> HIDE DEF r
<1>4. DOMAIN r = 1 .. (Len(s) + 1)
  BY <1>1
<1>5. \A k \in DOMAIN s : k < p => k \in DOMAIN r /\ r[k] = s[k]
  BY <1>1, <1>2, <1>4
<1>6. \A k \in DOMAIN s : k >= p => k + 1 \in DOMAIN r /\ r[k + 1] = s[k]
  BY <1>1, <1>2, <1>4
<1>7. p \in DOMAIN r /\ r[p] = e
  BY <1>1, <1>2, <1>4
<1>8. \A k \in DOMAIN s : s[k] \in Range(r)
  BY <1>1, <1>5, <1>6 DEF Range
<1>9. Range(r) = Range(s) \cup {e}
  BY <1>3, <1>7, <1>8 DEF Range
<1> QED BY <1>9 DEF r

LEMMA RangeAppend ==
  ASSUME NEW S, NEW s \in Seq(S), NEW e \in S
  PROVE  Range(Append(s, e)) = Range(s) \cup {e}
<1> DEFINE r == Append(s, e)
<1>1. /\ DOMAIN r = 1 .. (Len(s) + 1) /\ DOMAIN s = 1 .. Len(s) /\ Len(s) \in Nat
      /\ \A j \in 1 .. Len(s) : r[j] = s[j]
      /\ r[Len(s) + 1] = e
  OBVIOUS
<1> HIDE DEF r
<1>2. \A j \in DOMAIN r : r[j] = e \/ \E k \in DOMAIN s : r[j] = s[k]
  BY <1>1
<1>3. \A k \in DOMAIN s : k \in DOMAIN r /\ r[k] = s[k]
  BY <1>1
<1>4. Len(s) + 1 \in DOMAIN r
  BY <1>1
<1>5. Range(r) = Range(s) \cup {e}
  BY <1>1, <1>2, <1>3, <1>4 DEF Range
<1> QED BY <1>5 DEF r

\* The entries a pass may still collect from: all but those polled by iterations.
Waiting == Range(mOneShotsList) \cup Range(mTimerBasedList) \cup cur

LEMMA OwedIs ==
  OrderInv => \A n \in Nodes :
    Owed(n) = (IF n \in OneTimers(Waiting) THEN 1 ELSE 0)
              + (IF n \in OneTimersQueued(mQtl) THEN 1 ELSE 0)
<1> SUFFICES ASSUME OrderInv, NEW n \in Nodes
             PROVE  Owed(n) = (IF n \in OneTimers(Waiting) THEN 1 ELSE 0)
                              + (IF n \in OneTimersQueued(mQtl) THEN 1 ELSE 0)
  OBVIOUS
<1>1. /\ Distinct(mOneShotsList) /\ Distinct(mTimerBasedList) /\ Distinct(mQtl)
      /\ \A e, f \in cur : e = f
      /\ NodesOf(mOneShotsList) \cap NodesOf(mTimerBasedList) = {}
      /\ \A e \in cur : e.node \notin NodesOf(mOneShotsList)
                         /\ e.node \notin NodesOf(mTimerBasedList)
  BY DEF OrderInv, PlacesInv, QueueInv, CurNodes, Linked
<1>2. Owed(n) = OwedIn(mOneShotsList, mTimerBasedList, cur, mQtl, n)
  BY DEF Owed, OwedIn
<1> QED
  BY <1>1, <1>2, OwedMeans DEF Waiting

\* No two entries of them have the same node.
LEMMA WaitingDistinct ==
  ASSUME OrderInv, NEW x \in Waiting, NEW y \in Waiting, x.node = y.node
  PROVE  x = y
<1>1. \A e \in Range(mOneShotsList) : e.node \in NodesOf(mOneShotsList)
  BY DEF Range, NodesOf
<1>2. \A e \in Range(mTimerBasedList) : e.node \in NodesOf(mTimerBasedList)
  BY DEF Range, NodesOf
<1>3. \A e \in cur : e.node \notin NodesOf(mOneShotsList)
                      /\ e.node \notin NodesOf(mTimerBasedList)
  BY DEF OrderInv, PlacesInv, CurNodes, Linked
<1>4. NodesOf(mOneShotsList) \cap NodesOf(mTimerBasedList) = {}
  BY DEF OrderInv, PlacesInv
<1>5. /\ \A e, f \in Range(mOneShotsList) : e.node = f.node => e = f
      /\ \A e, f \in Range(mTimerBasedList) : e.node = f.node => e = f
      /\ \A e, f \in cur : e = f
  BY DEF OrderInv, PlacesInv, Distinct, Range
<1> QED
  BY <1>1, <1>2, <1>3, <1>4, <1>5 DEF Waiting

\* Collecting an entry that has no period moves its execution, one that has adds none.
LEMMA CollectMovesExecution ==
  ASSUME OrderInv, NEW e \in Waiting, Collect(e), Len(mQtl) < MaxTasks,
         e.node \in Nodes, e.node \notin Queued, NEW W2,
         e.period = 0 => W2 = Waiting \ {e},
         e.period # 0 => OneTimers(W2) = OneTimers(Waiting)
  PROVE  \A n : (IF n \in OneTimers(W2) THEN 1 ELSE 0)
                + (IF n \in OneTimersQueued(mQtl') THEN 1 ELSE 0)
                = (IF n \in OneTimers(Waiting) THEN 1 ELSE 0)
                  + (IF n \in OneTimersQueued(mQtl) THEN 1 ELSE 0)
<1> DEFINE q == [node |-> e.node, isPeriodic |-> e.period # 0]
<1>1. mQtl' = Append(mQtl, q)
  BY CollectMeans DEF OrderInv, QueueInv
<1>2. (e.period # 0) \in BOOLEAN
  OBVIOUS
<1>3. q \in QtlElement
  BY <1>2, Zenon DEF QtlElement
<1>4. q.node = e.node /\ (q.isPeriodic <=> e.period # 0)
  OBVIOUS
<1> HIDE DEF q
<1>5. Range(mQtl') = Range(mQtl) \cup {q}
  BY <1>1, <1>3, ListTypes, RangeAppend DEF OrderInv
<1>6. OneTimersQueued(mQtl')
        = OneTimersQueued(mQtl) \cup IF e.period = 0 THEN {e.node} ELSE {}
  BY <1>4, <1>5 DEF OneTimersQueued
<1>7. e.node \notin OneTimersQueued(mQtl)
  BY DEF OneTimersQueued, Queued, NodesOf, Range
<1>8. CASE e.period = 0
  <2>1. e.node \in OneTimers(Waiting)
    BY <1>8 DEF OneTimers
  <2>2. OneTimers(W2) = OneTimers(Waiting) \ {e.node}
    BY <1>8, WaitingDistinct DEF OneTimers
  <2> QED BY <1>6, <1>7, <1>8, <2>1, <2>2
<1>9. CASE e.period # 0
  BY <1>6, <1>9
<1> QED BY <1>8, <1>9

LEMMA WaitingKept ==
  ASSUME OrderInv, OrderInv', [Next]_vars, lock = "poll"
  PROVE  \A n : (IF n \in OneTimers(Waiting') THEN 1 ELSE 0)
                + (IF n \in OneTimersQueued(mQtl') THEN 1 ELSE 0)
                = (IF n \in OneTimers(Waiting) THEN 1 ELSE 0)
                  + (IF n \in OneTimersQueued(mQtl) THEN 1 ELSE 0)
<1> USE DEF lists, times, poller, clients, flags
<1>0. CASE UNCHANGED <<mOneShotsList, mTimerBasedList, cur, mQtl>>
  BY <1>0 DEF Waiting
<1>1. CASE CallerStep
  BY <1>0, <1>1, CallerKeepsQueue DEF OrderInv
<1>2. CASE CollectOneShot
  <2>1. PICK i \in DOMAIN mOneShotsList :
          /\ mOneShotsList[i].node = pIter
          /\ mOneShotsList' = IF mOneShotsList[i].period = 0
                              THEN RemoveAt(mOneShotsList, i) ELSE mOneShotsList
          /\ Collect(mOneShotsList[i])
    BY <1>2 DEF CollectOneShot
  <2> DEFINE e == mOneShotsList[i]
  <2>2. pc = "oneShots" /\ pIter # NULL /\ UNCHANGED <<mTimerBasedList, cur>>
    BY <1>2 DEF CollectOneShot
  <2>3. e \in Range(mOneShotsList) /\ e \in Waiting
    BY DEF Waiting, Range
  <2>4. Len(mQtl) < MaxTasks /\ cur = {}
    BY <2>2 DEF OrderInv, QueueInv, ControlInv
  <2>5. e.node \in Nodes
    BY ListTypes, EntryFields DEF OrderInv
  <2>6. e.node \notin Queued
    <3>1. i \in Nat
      BY ListTypes DEF OrderInv
    <3> QED BY <2>1, <2>2, <3>1 DEF OrderInv, QueueInv
  <2>7. e \notin Range(mTimerBasedList)
    BY DEF OrderInv, PlacesInv, Range, NodesOf
  <2>8. e.period = 0 => Waiting' = Waiting \ {e}
    <3>1. e.period = 0 => Range(mOneShotsList') = Range(mOneShotsList) \ {e}
      BY <2>1, ListTypes, RangeRemoveAt DEF OrderInv, PlacesInv
    <3> QED BY <2>2, <2>4, <2>7, <3>1 DEF Waiting
  <2>9. e.period # 0 => Waiting' = Waiting
    BY <2>1, <2>2 DEF Waiting
  <2>10. Collect(e)
    BY <2>1
  <2> HIDE DEF e
  <2> QED
    BY <2>3, <2>4, <2>5, <2>6, <2>8, <2>9, <2>10, CollectMovesExecution
<1>3. CASE PollTimers
  <2>1. CASE PollTimedDone(mTimerBasedList, mCurrentTime, "exit")
    BY <1>0, <2>1 DEF PollTimedDone
  <2>2. CASE PollTimedUnlist(mTimerBasedList, mCurrentTime)
    <3>1. PICK i \in DOMAIN mTimerBasedList :
            mTimerBasedList' = RemoveAt(mTimerBasedList, i) /\ cur' = {mTimerBasedList[i]}
      BY <2>2 DEF PollTimedUnlist
    <3>2. Range(mTimerBasedList') = Range(mTimerBasedList) \ {mTimerBasedList[i]}
      BY <3>1, ListTypes, RangeRemoveAt DEF OrderInv, PlacesInv
    <3>3. mTimerBasedList[i] \in Range(mTimerBasedList)
      BY DEF Range
    <3>4. cur = {} /\ UNCHANGED <<mOneShotsList, mQtl>>
      BY <2>2 DEF PollTimedUnlist
    <3>5. Waiting' = Waiting
      BY <3>1, <3>2, <3>3, <3>4 DEF Waiting
    <3> QED BY <3>4, <3>5
  <2>3. CASE PollTimedRelist(mTimerBasedList, mCurrentTime)
    <3>1. PICK e \in cur :
            /\ IF e.period = 0 THEN mTimerBasedList' = mTimerBasedList
               ELSE \E p \in 1 .. (Len(mTimerBasedList) + 1) :
                      mTimerBasedList' = InsertAt(mTimerBasedList, p,
                        [e EXCEPT !.at = NextExecution(e, mCurrentTime)])
            /\ Collect(e)
      BY <2>3 DEF PollTimedRelist
    <3>2. cur' = {} /\ cur = {e} /\ UNCHANGED mOneShotsList /\ pc = "timers"
      BY <1>3, <2>3 DEF PollTimers, PollTimedRelist, OrderInv, PlacesInv
    <3>3. e \in Waiting /\ e \in TimedEntry /\ e.node \in Nodes /\ mCurrentTime \in Times
      BY ListTypes, EntryFields DEF Waiting, OrderInv, TypeOK
    <3>4. e.node \notin Queued /\ Len(mQtl) < MaxTasks
      BY <3>2 DEF OrderInv, QueueInv, CurNodes
    <3>5. e \notin Range(mOneShotsList) /\ e \notin Range(mTimerBasedList)
      BY DEF OrderInv, PlacesInv, CurNodes, Linked, NodesOf, Range
    <3>6. e.period = 0 => Waiting' = Waiting \ {e}
      BY <3>1, <3>2, <3>5 DEF Waiting
    <3>7. e.period # 0 => OneTimers(Waiting') = OneTimers(Waiting)
      <4> SUFFICES ASSUME e.period # 0 PROVE OneTimers(Waiting') = OneTimers(Waiting)
        OBVIOUS
      <4> DEFINE again == [e EXCEPT !.at = NextExecution(e, mCurrentTime)]
      <4>1. again \in TimedEntry /\ again.period = e.period
        BY <3>3, NextExecutionType DEF TimedEntry
      <4>2. PICK p \in 1 .. (Len(mTimerBasedList) + 1) :
              mTimerBasedList' = InsertAt(mTimerBasedList, p, again)
        BY <3>1
      <4> HIDE DEF again
      <4>3. Range(mTimerBasedList') = Range(mTimerBasedList) \cup {again}
        BY <4>1, <4>2, ListTypes, RangeInsertAt DEF OrderInv
      <4>4. Waiting' = (Waiting \ {e}) \cup {again}
        BY <3>2, <3>5, <4>3 DEF Waiting
      <4> QED BY <4>1, <4>4 DEF OneTimers
    <3> QED
      BY <3>1, <3>3, <3>4, <3>6, <3>7, CollectMovesExecution
  <2> QED BY <1>3, <2>1, <2>2, <2>3 DEF PollTimers
<1>4. CASE PollIterations
  <2>1. CASE PollTimedDone(mIterationsBasedList, mIterationsCounter, "beginTimers")
    BY <1>0, <2>1 DEF PollTimedDone
  <2>2. CASE PollTimedUnlist(mIterationsBasedList, mIterationsCounter)
    <3>1. PICK i \in DOMAIN mIterationsBasedList : cur' = {mIterationsBasedList[i]}
      BY <2>2 DEF PollTimedUnlist
    <3>2. cur = {} /\ UNCHANGED <<mOneShotsList, mTimerBasedList, mQtl>>
      BY <1>4, <2>2 DEF PollTimedUnlist, PollIterations, PollTimedRelist, PollTimedDone
    <3>3. mIterationsBasedList[i].period # 0
      BY DEF OrderInv, PeriodsInv
    <3>4. Waiting' = Waiting \cup {mIterationsBasedList[i]}
      BY <3>1, <3>2 DEF Waiting
    <3>5. OneTimers(Waiting') = OneTimers(Waiting)
      BY <3>3, <3>4 DEF OneTimers
    <3> QED BY <3>2, <3>5
  <2>3. CASE PollTimedRelist(mIterationsBasedList, mIterationsCounter)
    <3>1. PICK e \in cur : Collect(e)
      BY <2>3 DEF PollTimedRelist
    <3>2. cur' = {} /\ cur = {e} /\ UNCHANGED <<mOneShotsList, mTimerBasedList>>
          /\ pc = "iterations"
      BY <1>4, <2>3 DEF PollIterations, PollTimedRelist, PollTimedUnlist, PollTimedDone,
         OrderInv, PlacesInv
    <3>3. e \in Waiting /\ e.node \in Nodes
      BY ListTypes, EntryFields DEF Waiting, OrderInv
    <3>4. e.node \notin Queued /\ Len(mQtl) < MaxTasks
      BY <3>2 DEF OrderInv, QueueInv, CurNodes
    <3>5. e.period # 0
      BY <3>2 DEF OrderInv, PeriodsInv
    <3>6. Waiting \subseteq Waiting' \cup {e} /\ Waiting' \subseteq Waiting
      BY <3>2 DEF Waiting
    <3>7. OneTimers(Waiting') = OneTimers(Waiting)
      BY <3>5, <3>6 DEF OneTimers
    <3> QED
      BY <3>1, <3>3, <3>4, <3>5, <3>7, CollectMovesExecution
  <2> QED BY <1>4, <2>1, <2>2, <2>3 DEF PollIterations
<1>5. CASE BeginPoll \/ RunTask
  BY <1>5 DEF BeginPoll, RunTask, OrderInv, ControlInv
<1>6. CASE CheckRunning \/ TestEnabled \/ ReadEvents \/ ClearEvents \/ RunEvent
           \/ EventsDone \/ EnterPoll \/ BeginIterations \/ BeginTimers \/ ExitPoll
           \/ Decide \/ TakeToken \/ WaitTimeout \/ Tick \/ UNCHANGED vars
  BY <1>0, <1>6 DEF CheckRunning, TestEnabled, ReadEvents, ClearEvents, RunEvent,
     EventsDone, EnterPoll, BeginIterations, BeginTimers, ExitPoll, Decide, TakeToken,
     WaitTimeout, Tick, vars
<1> QED
  BY <1>1, <1>2, <1>3, <1>4, <1>5, <1>6 DEF Next, Poller, CallerStep

LEMMA OwedStep ==
  OrderInv /\ OrderInv' /\ [Next]_vars =>
    (lock = "poll" => \A n \in Nodes : Owed(n)' = Owed(n))
<1> SUFFICES ASSUME OrderInv, OrderInv', [Next]_vars, lock = "poll", NEW n \in Nodes
             PROVE  Owed(n)' = Owed(n)
  OBVIOUS
<1>1. Owed(n) = (IF n \in OneTimers(Waiting) THEN 1 ELSE 0)
                + (IF n \in OneTimersQueued(mQtl) THEN 1 ELSE 0)
  BY OwedIs
<1>2. /\ Distinct(mOneShotsList') /\ Distinct(mTimerBasedList') /\ Distinct(mQtl')
      /\ \A e, f \in cur' : e = f
      /\ NodesOf(mOneShotsList') \cap NodesOf(mTimerBasedList') = {}
      /\ \A e \in cur' : e.node \notin NodesOf(mOneShotsList')
                          /\ e.node \notin NodesOf(mTimerBasedList')
  BY DEF OrderInv, PlacesInv, QueueInv, CurNodes, Linked
<1>3. Owed(n)' = (IF n \in OneTimers(Waiting') THEN 1 ELSE 0)
                 + (IF n \in OneTimersQueued(mQtl') THEN 1 ELSE 0)
  <2>1. Owed(n)' = OwedIn(mOneShotsList', mTimerBasedList', cur', mQtl', n)
    BY DEF Owed, OwedIn
  <2> QED
    BY <1>2, <2>1, OwedMeans DEF Waiting
<1> QED
  BY <1>1, <1>3, WaitingKept

\* DoPoll neither loses nor repeats an execution while it fills its queue, for any
\* number of schedulables and any batch size.
THEOREM CollectSafe == Spec => CollectKeepsExecutions
<1>1. OrderInv /\ OrderInv' /\ [Next]_vars =>
        [lock = "poll" => \A n \in Nodes : Owed(n)' = Owed(n)]_vars
  BY OwedStep
<1> QED
  BY <1>1, OrderKept, PTL DEF Spec, CollectKeepsExecutions

-----------------------------------------------------------------------------
\* Without the interrupt handlers, which take no lock, nobody sets a bit of the mask
\* between a load and its store.
MaskInv ==
  /\ \A t \in trig : t.mask = mInterruptEventsPendingMask
  /\ pc = "clearEvents" => eventsMask = mInterruptEventsPendingMask

LEMMA MaskInit == Init => MaskInv
  BY DEF Init, MaskInv

LEMMA MaskStep ==
  ASSUME "isr" \notin Calls
  PROVE  TypeOK /\ ControlInv /\ MaskInv /\ [Next]_vars => MaskInv'
<1> SUFFICES ASSUME TypeOK, ControlInv, MaskInv, [Next]_vars PROVE MaskInv'
  OBVIOUS
<1> USE DEF vars, lists, times, poller, clients, flags, Goto, MaskInv, ControlInv, LockFree
<1>1. CASE Poller
  BY <1>1 DEF Poller, CheckRunning, TestEnabled, ReadEvents, ClearEvents, RunEvent,
     EventsDone, BeginPoll, EnterPoll, CollectOneShot, BeginIterations, PollIterations,
     BeginTimers, PollTimers, PollTimedUnlist, PollTimedRelist, PollTimedDone, ExitPoll,
     RunTask, Decide, TakeToken, WaitTimeout
<1>2. CASE Finish
  BY <1>2 DEF Finish, InsertTimer, InsertIdlePoller, CancelScheduledTask, TriggerEvent,
     CtlSignal
<1>3. CASE Call
  <2>1. CASE \E e \in Events : "event" \in Calls /\ LoadMask(e)
    BY <2>1 DEF LoadMask
  <2>2. CASE \/ \E n \in Nodes :
                  \/ AddOneShot(n) \/ AddIdlePoller(n) \/ Cancel(n) \/ TestScheduled(n)
                  \/ \E period \in Periods, offset \in Offsets : StampTimer(n, period, offset)
                  \/ \E k \in Iterations : StampIdlePoller(n, k)
             \/ EnablePrio \/ DisablePrio \/ Quit
    BY <2>2 DEF AddOneShot, StampTimer, AddIdlePoller, StampIdlePoller, Cancel,
       TestScheduled, EnablePrio, DisablePrio, Quit
  <2> QED
    BY <1>3, <2>1, <2>2 DEF Call
<1>4. CASE Tick \/ UNCHANGED vars
  BY <1>4 DEF Tick
<1> QED
  BY <1>1, <1>2, <1>3, <1>4 DEF Next

LEMMA EventStep ==
  ASSUME "isr" \notin Calls
  PROVE  TypeOK /\ ControlInv /\ MaskInv /\ [Next]_vars =>
         \A e \in Events :
           /\ e \in mInterruptEventsPendingMask \cup eventsMask
           /\ e \notin (mInterruptEventsPendingMask \cup eventsMask)'
           => pc = "runEvents" /\ eventsMask \ eventsMask' = {e}
<1> SUFFICES ASSUME TypeOK, ControlInv, MaskInv, [Next]_vars, NEW e \in Events,
                    e \in mInterruptEventsPendingMask \cup eventsMask,
                    e \notin (mInterruptEventsPendingMask \cup eventsMask)'
             PROVE  pc = "runEvents" /\ eventsMask \ eventsMask' = {e}
  OBVIOUS
<1> USE DEF vars, lists, times, poller, clients, flags, Goto, MaskInv, ControlInv, LockFree
<1>1. CASE RunEvent
  BY <1>1 DEF RunEvent
<1>2. CASE Poller /\ ~RunEvent
  BY <1>2 DEF Poller, CheckRunning, TestEnabled, ReadEvents, ClearEvents,
     EventsDone, BeginPoll, EnterPoll, CollectOneShot, BeginIterations, PollIterations,
     BeginTimers, PollTimers, PollTimedUnlist, PollTimedRelist, PollTimedDone, ExitPoll,
     RunTask, Decide, TakeToken, WaitTimeout
<1>3. CASE Finish
  BY <1>3 DEF Finish, InsertTimer, InsertIdlePoller, CancelScheduledTask, TriggerEvent,
     CtlSignal
<1>4. CASE Call
  BY <1>4 DEF Call, AddOneShot, StampTimer, AddIdlePoller, StampIdlePoller, Cancel,
     TestScheduled, LoadMask, EnablePrio, DisablePrio, Quit
<1>5. CASE Tick \/ UNCHANGED vars
  BY <1>5 DEF Tick
<1> QED
  BY <1>1, <1>2, <1>3, <1>4, <1>5 DEF Next

\* No event that was triggered is forgotten before its callback has run, as long as
\* none is triggered by TaskSchedTriggerEventFromIsr, which takes no lock.
THEOREM EventsKept == ASSUME "isr" \notin Calls PROVE Spec => NoEventLost
<1>1. Init => TypeOK /\ ControlInv /\ MaskInv
  BY TypeInit, ControlInit, MaskInit
<1>2. TypeOK /\ ControlInv /\ MaskInv /\ [Next]_vars => (TypeOK /\ ControlInv /\ MaskInv)'
  BY TypeStep, ControlStep, MaskStep
<1>3. TypeOK /\ ControlInv /\ MaskInv /\ [Next]_vars =>
        [\A e \in Events :
           /\ e \in mInterruptEventsPendingMask \cup eventsMask
           /\ e \notin (mInterruptEventsPendingMask \cup eventsMask)'
           => pc = "runEvents" /\ eventsMask \ eventsMask' = {e}]_vars
  BY EventStep
<1> QED
  BY <1>1, <1>2, <1>3, PTL DEF Spec, NoEventLost

-----------------------------------------------------------------------------
(* The window: no timer is so late that the signs of the differences mislead. *)

\* A timer may be this late: MaxLag of its thread, and the batches it waited for,
\* one a millisecond, behind the others of its list.
Late == MaxLag + Cardinality(Nodes) + 1

InWindow(t, now) == TimeDiff(t, now) >= - Late /\ TimeDiff(t, now) + Late < Half

\* The timers of a list are within the window, those behind in it less late, and each
\* in order.
TimersFit(list, now, slack) ==
  /\ \A i \in DOMAIN list :
       /\ InWindow(list[i].at, now)
       /\ \/ TimeDiff(list[i].at, now) >= - MaxLag
          \/ i - TimeDiff(list[i].at, now) <= Late + slack
  /\ \A i, j \in DOMAIN list :
       i < j => TimeDiff(list[i].at, now) <= TimeDiff(list[j].at, now)

LEMMA LateMeans == MaxLag \in Nat /\ Late \in Nat /\ MaxLag < Late /\ Late < Half /\ Half \in Nat
  BY DelayBound, HalfMeans DEF Late

LEMMA DiffSwap ==
  ASSUME NEW t \in Int, NEW c \in Int, TimeDiff(t, c) > - Half
  PROVE  TimeDiff(c, t) = - TimeDiff(t, c)
<1>1. TimeDiff(c, c) = 0 /\ TimeDiff(t, c) \in Int /\ TimeDiff(t, c) < Half
  BY DiffSelf, DiffMeans
<1>2. 0 - TimeDiff(t, c) < Half /\ 0 - TimeDiff(t, c) >= - Half
  BY <1>1, HalfMeans
<1> QED BY <1>1, <1>2, DiffAddsUp

\* Within the window times compare as their distances from now do.
LEMMA WindowOrder ==
  ASSUME NEW a \in Int, NEW b \in Int, NEW now \in Int, InWindow(a, now), InWindow(b, now)
  PROVE  TimeDiff(a, b) = TimeDiff(a, now) - TimeDiff(b, now)
<1>1. TimeDiff(a, now) \in Int /\ TimeDiff(b, now) \in Int
  BY DiffMeans
<1>2. /\ TimeDiff(a, now) - TimeDiff(b, now) < Half
      /\ TimeDiff(a, now) - TimeDiff(b, now) >= - Half
  BY <1>1, LateMeans DEF InWindow
<1> QED BY <1>2, DiffAddsUp

LEMMA EntryTimes ==
  ASSUME NEW list \in Seq(TimedEntry), NEW now \in Int
  PROVE  \A i \in DOMAIN list :
           list[i].at \in Int /\ TimeDiff(list[i].at, now) \in Int /\ i \in Nat
<1>1. \A i \in DOMAIN list : list[i] \in TimedEntry /\ i \in Nat
  OBVIOUS
<1>2. \A i \in DOMAIN list : list[i].at \in Int
  BY <1>1, EntryFields, TimesInt
<1> QED BY <1>1, <1>2, DiffMeans

LEMMA FitSorted ==
  ASSUME NEW list \in Seq(TimedEntry), NEW now \in Int, NEW slack, TimersFit(list, now, slack)
  PROVE  SortedByTime(list)
<1> SUFFICES ASSUME NEW i \in DOMAIN list, NEW j \in DOMAIN list, i < j
             PROVE  TimeDiff(list[j].at, list[i].at) >= 0
  BY DEF SortedByTime
<1>1. list[i].at \in Int /\ list[j].at \in Int
      /\ TimeDiff(list[i].at, now) \in Int /\ TimeDiff(list[j].at, now) \in Int
  BY EntryTimes
<1>2. InWindow(list[i].at, now) /\ InWindow(list[j].at, now)
      /\ TimeDiff(list[i].at, now) <= TimeDiff(list[j].at, now)
  BY DEF TimersFit
<1>3. TimeDiff(list[j].at, list[i].at) = TimeDiff(list[j].at, now) - TimeDiff(list[i].at, now)
  BY <1>1, <1>2, WindowOrder
<1> QED BY <1>1, <1>2, <1>3

LEMMA FitLooser ==
  ASSUME NEW list \in Seq(TimedEntry), NEW now \in Int, NEW a \in Int, NEW b \in Int, a <= b,
         TimersFit(list, now, a)
  PROVE  TimersFit(list, now, b)
<1>1. \A i \in DOMAIN list : TimeDiff(list[i].at, now) \in Int /\ i \in Nat
  BY EntryTimes
<1> QED BY <1>1, LateMeans DEF TimersFit

\* When the first timer is hardly late none is.
LEMMA FirstInTime ==
  ASSUME NEW list \in Seq(TimedEntry), NEW now \in Int, NEW a, NEW b,
         TimersFit(list, now, a),
         list # << >> => TimeDiff(list[1].at, now) >= - MaxLag
  PROVE  TimersFit(list, now, b)
<1>1. \A i \in DOMAIN list : TimeDiff(list[i].at, now) \in Int /\ i \in Nat
  BY EntryTimes
<1>2. \A i \in DOMAIN list : 1 \in DOMAIN list /\ i >= 1 /\ list # << >>
  OBVIOUS
<1>3. \A i \in DOMAIN list : TimeDiff(list[i].at, now) >= TimeDiff(list[1].at, now)
  BY <1>1, <1>2 DEF TimersFit
<1>4. \A i \in DOMAIN list : TimeDiff(list[i].at, now) >= - MaxLag
  BY <1>1, <1>2, <1>3, LateMeans
<1> QED BY <1>4 DEF TimersFit

\* A timer less moves those behind it one place forward.
LEMMA FitRemove ==
  ASSUME NEW list \in Seq(TimedEntry), NEW now \in Int, NEW slack \in Int,
         TimersFit(list, now, slack), NEW k \in DOMAIN list
  PROVE  /\ TimersFit(RemoveAt(list, k), now, slack)
         /\ k = 1 => TimersFit(RemoveAt(list, k), now, slack - 1)
<1> DEFINE r == RemoveAt(list, k)
           from(i) == IF i < k THEN i ELSE i + 1
<1>1. \A i \in DOMAIN list : TimeDiff(list[i].at, now) \in Int /\ i \in Nat
  BY EntryTimes
<1>2. \A i \in DOMAIN r : i \in Nat /\ i >= 1 /\ from(i) \in DOMAIN list /\ r[i] = list[from(i)]
  <2>1. r \in Seq(TimedEntry)
    BY RemoveAtMeans
  <2> QED BY <2>1, RemoveAtEntries
<1> HIDE DEF r
<1>3. \A i \in DOMAIN r : from(i) >= i /\ (k = 1 => from(i) = i + 1)
  BY <1>1, <1>2
<1>4. \A i, j \in DOMAIN r : i < j => from(i) < from(j)
  BY <1>1, <1>2
<1> HIDE DEF from
<1>5. \A i \in DOMAIN r : InWindow(r[i].at, now)
  BY <1>2 DEF TimersFit
<1>6. \A i, j \in DOMAIN r : i < j => TimeDiff(r[i].at, now) <= TimeDiff(r[j].at, now)
  BY <1>2, <1>4 DEF TimersFit
<1>7. \A i \in DOMAIN r : \/ TimeDiff(r[i].at, now) >= - MaxLag
                          \/ /\ i - TimeDiff(r[i].at, now) <= Late + slack
                             /\ k = 1 => i - TimeDiff(r[i].at, now) <= Late + (slack - 1)
  BY <1>1, <1>2, <1>3, LateMeans, SMTT(30) DEF TimersFit
<1> QED BY <1>5, <1>6, <1>7 DEF TimersFit, r

\* A timer that is hardly late goes before later ones only.
LEMMA FitInsert ==
  ASSUME NEW list \in Seq(TimedEntry), NEW now \in Int, NEW slack \in Int,
         TimersFit(list, now, slack), NEW e \in TimedEntry,
         InWindow(e.at, now), TimeDiff(e.at, now) >= - MaxLag,
         NEW p \in 1 .. (Len(list) + 1), IsInsertPosition(list, e.at, p)
  PROVE  TimersFit(InsertAt(list, p, e), now, slack)
<1> DEFINE r == InsertAt(list, p, e)
           from(i) == IF i < p THEN i ELSE i - 1
<1>1. \A i \in DOMAIN list : /\ TimeDiff(list[i].at, now) \in Int /\ list[i].at \in Int
                             /\ i \in Nat /\ i >= 1
  BY EntryTimes
<1>2. e.at \in Int /\ TimeDiff(e.at, now) \in Int
  BY EntryFields, TimesInt, DiffMeans
<1>3. \A i \in DOMAIN list : TimeDiff(e.at, list[i].at) = TimeDiff(e.at, now) - TimeDiff(list[i].at, now)
  BY <1>1, <1>2, WindowOrder DEF TimersFit
<1>4. \A i \in DOMAIN list : i < p => TimeDiff(list[i].at, now) <= TimeDiff(e.at, now)
  <2>1. \A i \in DOMAIN list : i < p => TimeDiff(e.at, list[i].at) >= 0
    BY <1>1 DEF IsInsertPosition
  <2> QED BY <1>1, <1>2, <1>3, <2>1
<1>5. p \in DOMAIN list => TimeDiff(list[p].at, now) > TimeDiff(e.at, now)
  <2>1. p \in DOMAIN list => TimeDiff(e.at, list[p].at) < 0
    BY <1>1 DEF IsInsertPosition
  <2> QED BY <1>1, <1>2, <1>3, <2>1
<1>6. \A i \in DOMAIN list : i >= p => TimeDiff(list[i].at, now) > TimeDiff(e.at, now)
  <2> SUFFICES ASSUME NEW i \in DOMAIN list, i >= p
               PROVE  TimeDiff(list[i].at, now) > TimeDiff(e.at, now)
    OBVIOUS
  <2>1. p \in DOMAIN list
    BY <1>1
  <2>2. TimeDiff(list[p].at, now) <= TimeDiff(list[i].at, now)
    BY <1>1, <2>1 DEF TimersFit
  <2> QED BY <1>1, <1>2, <1>5, <2>1, <2>2
<1>7. \A i \in DOMAIN r : i \in Nat /\ (i = p => r[i] = e)
                          /\ (i # p => from(i) \in DOMAIN list /\ r[i] = list[from(i)])
  <2>1. r \in Seq(TimedEntry)
    BY InsertAtMeans
  <2> QED BY <2>1, InsertAtEntries
<1> HIDE DEF r
<1>8. \A i \in DOMAIN r : InWindow(r[i].at, now)
  BY <1>7 DEF TimersFit
<1>9. \A i \in DOMAIN r : \/ TimeDiff(r[i].at, now) >= - MaxLag
                          \/ i - TimeDiff(r[i].at, now) <= Late + slack
  <2> SUFFICES ASSUME NEW i \in DOMAIN r
               PROVE  \/ TimeDiff(r[i].at, now) >= - MaxLag
                      \/ i - TimeDiff(r[i].at, now) <= Late + slack
    OBVIOUS
  <2>1. CASE i = p
    BY <1>7, <2>1
  <2>2. CASE i < p
    BY <1>7, <2>2 DEF TimersFit
  <2>3. CASE i > p
    <3>1. TimeDiff(r[i].at, now) > TimeDiff(e.at, now) /\ TimeDiff(r[i].at, now) \in Int
      BY <1>1, <1>6, <1>7, <2>3
    <3> QED BY <1>2, <3>1, LateMeans
  <2> QED BY <1>7, <2>1, <2>2, <2>3
<1>10. ASSUME NEW i \in DOMAIN r, NEW j \in DOMAIN r, i < j
       PROVE  TimeDiff(r[i].at, now) <= TimeDiff(r[j].at, now)
  <2>1. CASE i # p /\ j # p
    <3>1. from(i) < from(j)
      BY <1>7, <1>10, <2>1
    <3> QED BY <1>7, <2>1, <3>1 DEF TimersFit
  <2>2. CASE i = p
    <3>1. from(j) >= p
      BY <1>7, <1>10, <2>2
    <3>2. TimeDiff(list[from(j)].at, now) > TimeDiff(e.at, now)
      BY <1>6, <1>7, <1>10, <2>2, <3>1
    <3> QED BY <1>1, <1>2, <1>7, <1>10, <2>2, <3>2, SMTT(30)
  <2>3. CASE j = p
    BY <1>4, <1>7, <1>10, <2>3
  <2> QED BY <2>1, <2>2, <2>3
<1> QED BY <1>8, <1>9, <1>10 DEF TimersFit, r

LEMMA FitUnlist ==
  ASSUME NEW list \in Seq(TimedEntry), NEW now \in Int, NEW slack \in Int,
         TimersFit(list, now, slack), NEW n
  PROVE  TimersFit(Unlist(list, n), now, slack)
<1>1. CASE n \in NodesOf(list)
  BY <1>1, UnlistMeans, FitRemove
<1>2. CASE n \notin NodesOf(list)
  BY <1>2 DEF Unlist
<1> QED BY <1>1, <1>2

\* PollTimed has not yet taken the first timer of this millisecond's pass.
Fresh == pc = "timers" /\ cur = {} /\ pIter = FirstNode(mTimerBasedList)

\* A pass that was made in this millisecond has taken one timer, one that begins will.
Slack == (IF mLastTimerProcessTime = clock THEN -1 ELSE 0) + (IF Fresh THEN 1 ELSE 0)

WindowInv ==
  /\ TimersFit(mTimerBasedList, clock, Slack)
  /\ \A s \in stamped : s.list = "timer" =>
       InWindow(s.entry.at, clock) /\ TimeDiff(s.entry.at, clock) >= - MaxLag
  /\ InPoll => TimeDiff(mCurrentTime, clock) \in - MaxLag .. 0
  /\ pc = "timers" => mLastTimerProcessTime = mCurrentTime

LEMMA TimeTypes ==
  ASSUME TypeOK
  PROVE  /\ clock \in Int /\ mCurrentTime \in Int /\ waitFrom \in Int /\ wait \in Int
         /\ Slack \in Int
         /\ mTimerBasedList \in Seq(TimedEntry)
         /\ \A s \in stamped : s.entry \in TimedEntry /\ s.entry.at \in Int
         /\ \A e \in cur : e \in TimedEntry
<1>1. /\ clock \in Int /\ mCurrentTime \in Int /\ waitFrom \in Int /\ wait \in Int
      /\ Slack \in Int
  BY TimesInt DEF TypeOK, Slack
<1> QED BY <1>1, ListTypes, EntryFields, TimesInt

\* There are no more entries in a list than nodes.
LEMMA ListLength ==
  ASSUME NEW list \in Seq(TimedEntry), Distinct(list), NEW i \in DOMAIN list
  PROVE  i <= Cardinality(Nodes)
<1> DEFINE f == [k \in 1 .. Len(list) |-> list[k].node]
           img == { f[k] : k \in 1 .. Len(list) }
<1>1. Len(list) \in Nat /\ DOMAIN list = 1 .. Len(list) /\ i <= Len(list)
  OBVIOUS
<1>2. f \in Injection(1 .. Len(list), Nodes)
  <2>1. \A k \in 1 .. Len(list) : list[k].node \in Nodes
    BY <1>1, EntryFields
  <2>2. \A k, m \in 1 .. Len(list) : f[k] = f[m] => k = m
    BY <1>1 DEF Distinct
  <2> QED BY <2>1, <2>2 DEF Injection, IsInjective
<1>3. IsFiniteSet(1 .. Len(list)) /\ Cardinality(1 .. Len(list)) = Len(list)
  <2> DEFINE m == Len(list)
  <2>1. m \in Nat
    BY <1>1
  <2> HIDE DEF m
  <2>2. IsFiniteSet(1 .. m) /\ Cardinality(1 .. m) = IF 1 > m THEN 0 ELSE m - 1 + 1
    BY <2>1, FS_Interval
  <2>3. Cardinality(1 .. m) = m
    BY <2>1, <2>2
  <2> QED BY <2>2, <2>3 DEF m
<1>4. IsFiniteSet(Nodes) /\ Cardinality(Nodes) \in Nat
  BY SchedAssumption, FS_CardinalityType
<1>5. Cardinality(1 .. Len(list)) <= Cardinality(Nodes)
  BY <1>2, <1>4, FS_Injection
<1> QED BY <1>1, <1>3, <1>4, <1>5

\* One millisecond later.
LEMMA NextTick ==
  ASSUME NEW t \in Int, NEW now \in Int, InWindow(t, now)
  PROVE  /\ TimeDiff(t, TimeAdd(now, 1)) = TimeDiff(t, now) - 1
         /\ TimeDiff(now, t) = - TimeDiff(t, now)
         /\ TimeDiff(t, now) \in Int
         /\ TimeDiff(t, now) > - Late => InWindow(t, TimeAdd(now, 1))
<1>1. TimeDiff(t, now) \in Int /\ TimeDiff(t, now) > - Half
  <2>1. TimeDiff(t, now) \in Int
    BY DiffMeans
  <2> QED BY <2>1, LateMeans DEF InWindow
<1>2. TimeDiff(t, TimeAdd(now, 1)) = TimeDiff(t, now) - 1
  BY <1>1, DiffNextTick
<1>3. TimeDiff(now, t) = - TimeDiff(t, now)
  BY <1>1, DiffSwap
<1> QED BY <1>1, <1>2, <1>3, LateMeans DEF InWindow

LEMMA TickFit ==
  ASSUME NEW list \in Seq(TimedEntry), NEW now \in Int, NEW slack \in Int, NEW next \in Int,
         TimersFit(list, now, slack), Distinct(list), slack \in {-1, 0, 1},
         \/ slack < 1 /\ slack + 1 <= next /\ next >= 0
         \/ \A i \in DOMAIN list : TimeDiff(now, list[i].at) < MaxLag
  PROVE  TimersFit(list, TimeAdd(now, 1), next)
<1> DEFINE later == TimeAdd(now, 1)
<1>1. \A i \in DOMAIN list : /\ TimeDiff(list[i].at, later) = TimeDiff(list[i].at, now) - 1
                             /\ TimeDiff(now, list[i].at) = - TimeDiff(list[i].at, now)
                             /\ TimeDiff(list[i].at, now) \in Int
                             /\ i \in Nat /\ i >= 1
                             /\ TimeDiff(list[i].at, now) > - Late => InWindow(list[i].at, later)
  <2>1. \A i \in DOMAIN list : /\ list[i].at \in Int /\ InWindow(list[i].at, now)
                                 /\ i \in Nat /\ i >= 1
    BY EntryTimes DEF TimersFit
  <2> QED BY <2>1, NextTick
<1> HIDE DEF later
<1>2. \A i, j \in DOMAIN list :
        i < j => TimeDiff(list[i].at, later) <= TimeDiff(list[j].at, later)
  BY <1>1 DEF TimersFit
<1>3. CASE \A i \in DOMAIN list : TimeDiff(now, list[i].at) < MaxLag
  <2>1. \A i \in DOMAIN list : /\ TimeDiff(list[i].at, later) >= - MaxLag
                               /\ TimeDiff(list[i].at, now) > - Late
    BY <1>1, <1>3, LateMeans
  <2> QED BY <1>1, <1>2, <2>1 DEF TimersFit, later
<1>4. CASE slack < 1 /\ slack + 1 <= next /\ next >= 0
  <2>1. \A i \in DOMAIN list : i <= Cardinality(Nodes)
    BY ListLength
  <2>2. Cardinality(Nodes) \in Nat /\ Late = MaxLag + Cardinality(Nodes) + 1
    BY DelayBound DEF Late
  <2>3. ASSUME NEW i \in DOMAIN list
        PROVE  /\ TimeDiff(list[i].at, now) > - Late
               /\ \/ TimeDiff(list[i].at, later) >= - MaxLag
                  \/ i - TimeDiff(list[i].at, later) <= Late + next
    <3> DEFINE d == TimeDiff(list[i].at, now)
    <3>1. \/ d >= - MaxLag
          \/ i - d <= Late + slack
      BY DEF TimersFit
    <3>2. d \in Int /\ i \in Nat /\ i >= 1 /\ TimeDiff(list[i].at, later) = d - 1
          /\ i <= Cardinality(Nodes)
      BY <1>1, <2>1
    <3> HIDE DEF d
    <3>3. d > - Late
      <4>1. CASE d >= - MaxLag
        BY <3>2, <4>1, LateMeans
      <4>2. CASE i - d <= Late + slack
        BY <1>4, <3>2, <4>2, LateMeans, SMTT(30)
      <4> QED BY <3>1, <4>1, <4>2
    <3>4. d - 1 >= - MaxLag \/ i - (d - 1) <= Late + next
      <4>1. CASE d >= - MaxLag
        BY <1>4, <2>2, <3>2, <4>1, LateMeans, SMTT(30)
      <4>2. CASE i - d <= Late + slack
        BY <1>4, <3>2, <4>2, LateMeans, SMTT(30)
      <4> QED BY <3>1, <4>1, <4>2
    <3> QED BY <3>2, <3>3, <3>4 DEF d
  <2> QED BY <1>1, <1>2, <2>3 DEF TimersFit, later
<1> QED BY <1>3, <1>4

-----------------------------------------------------------------------------
\* Tick's guards, read as distances from now.
LEMMA TickTimes ==
  ASSUME OrderInv, WindowInv, Tick
  PROVE  /\ clock' = TimeAdd(clock, 1)
         /\ InPoll => TimeDiff(mCurrentTime, clock) \in (1 - MaxLag) .. 0
         /\ \A s \in stamped : s.list = "timer" => TimeDiff(s.entry.at, clock) > - MaxLag
<1>1. \A t \in TimesInUse : TimeDiff(clock, t) < MaxLag
  BY DEF Tick
<1>2. clock' = TimeAdd(clock, 1)
  BY DEF Tick
<1>3. ASSUME InPoll PROVE TimeDiff(mCurrentTime, clock) \in (1 - MaxLag) .. 0
  <2>1. mCurrentTime \in TimesInUse
    BY <1>3 DEF TimesInUse
  <2>2. TimeDiff(mCurrentTime, clock) \in - MaxLag .. 0
    BY <1>3 DEF WindowInv
  <2>3. TimeDiff(clock, mCurrentTime) = - TimeDiff(mCurrentTime, clock)
    BY <2>2, TimeTypes, LateMeans, DiffSwap DEF OrderInv
  <2>4. TimeDiff(clock, mCurrentTime) < MaxLag
    BY <1>1, <2>1
  <2> QED BY <2>2, <2>3, <2>4, LateMeans
<1>4. ASSUME NEW s \in stamped, s.list = "timer" PROVE TimeDiff(s.entry.at, clock) > - MaxLag
  <2>1. s.entry.at \in TimesInUse
    BY <1>4 DEF TimesInUse
  <2>2. InWindow(s.entry.at, clock)
    BY <1>4 DEF WindowInv
  <2>3. TimeDiff(clock, s.entry.at) = - TimeDiff(s.entry.at, clock)
        /\ TimeDiff(s.entry.at, clock) \in Int
    BY <2>2, TimeTypes, NextTick DEF OrderInv
  <2>4. TimeDiff(clock, s.entry.at) < MaxLag
    BY <1>1, <2>1
  <2> QED BY <2>3, <2>4, LateMeans
<1> QED BY <1>2, <1>3, <1>4

LEMMA WindowTick == OrderInv /\ WindowInv /\ Tick => WindowInv'
<1> SUFFICES ASSUME OrderInv, WindowInv, Tick PROVE WindowInv'
  OBVIOUS
<1>1. UNCHANGED <<lists, stamped, pc, pIter, cur, mCurrentTime>>
  BY DEF Tick, poller, clients
<1>2. TimeAdd(clock, 1) \in Int /\ clock \in Int /\ mCurrentTime \in Int
  BY TimeTypes, TimeAddType, TimesInt DEF OrderInv
<1>3. InPoll => /\ TimeDiff(mCurrentTime, clock) \in (1 - MaxLag) .. 0
                /\ TimeDiff(mCurrentTime, TimeAdd(clock, 1)) = TimeDiff(mCurrentTime, clock) - 1
  BY <1>2, TickTimes, DiffNextTick, LateMeans
<1>4. (InPoll => TimeDiff(mCurrentTime, clock) \in - MaxLag .. 0)'
  BY <1>1, <1>3, TickTimes, LateMeans DEF InPoll
<1>5. (pc = "timers" => mLastTimerProcessTime = mCurrentTime)'
  BY <1>1 DEF Tick, WindowInv, InPoll
<1>6. (\A s \in stamped : s.list = "timer" =>
         InWindow(s.entry.at, clock) /\ TimeDiff(s.entry.at, clock) >= - MaxLag)'
  <2> SUFFICES ASSUME NEW s \in stamped, s.list = "timer"
               PROVE  /\ InWindow(s.entry.at, TimeAdd(clock, 1))
                      /\ TimeDiff(s.entry.at, TimeAdd(clock, 1)) >= - MaxLag
    BY <1>1, TickTimes
  <2>1. s.entry.at \in Int /\ InWindow(s.entry.at, clock)
    BY TimeTypes DEF OrderInv, WindowInv
  <2>2. TimeDiff(s.entry.at, clock) > - MaxLag
    BY TickTimes
  <2> QED BY <1>2, <2>1, <2>2, NextTick, LateMeans
<1>7. mLastTimerProcessTime' # clock'
  <2>1. clock' = TimeAdd(clock, 1) /\ NULL # TimeAdd(clock, 1)
    BY <1>2, TickTimes, TimeAddType, SchedAssumption
  <2>2. CASE ~InPoll
    BY <2>1, <2>2 DEF Tick
  <2>3. CASE InPoll
    <3>1. mCurrentTime # TimeAdd(clock, 1)
      <4>1. TimeDiff(mCurrentTime, TimeAdd(clock, 1)) <= -1
        BY <1>3, <2>3, LateMeans
      <4> QED BY <1>2, <4>1, DiffSelf
    <3>2. mLastTimerProcessTime' = mCurrentTime \/ mLastTimerProcessTime' = NULL
      BY DEF Tick
    <3> QED BY <2>1, <3>1, <3>2
  <2> QED BY <2>2, <2>3
<1>8. Slack' = Slack + IF mLastTimerProcessTime = clock THEN 1 ELSE 0
  BY <1>1, <1>7 DEF Slack, Fresh, lists
<1>9. TimersFit(mTimerBasedList, TimeAdd(clock, 1), Slack')
  <2>1. \/ mLastTimerProcessTime = clock
        \/ \A i \in DOMAIN mTimerBasedList : TimeDiff(clock, mTimerBasedList[i].at) < MaxLag
    BY DEF Tick
  <2>2. Slack \in {-1, 0, 1} /\ Slack' \in Int
        /\ (mLastTimerProcessTime = clock => Slack < 1 /\ Slack + 1 <= Slack' /\ Slack' >= 0)
    BY <1>8 DEF Slack
  <2>3. Distinct(mTimerBasedList) /\ TimersFit(mTimerBasedList, clock, Slack)
    BY DEF OrderInv, PlacesInv, WindowInv
  <2> QED BY <1>2, <2>1, <2>2, <2>3, TimeTypes, TickFit DEF OrderInv
<1>10. TimersFit(mTimerBasedList, clock, Slack)'
  BY <1>1, <1>9, TickTimes DEF lists, TimersFit, InWindow
<1> QED BY <1>4, <1>5, <1>6, <1>10 DEF WindowInv

LEMMA WindowInit == Init => WindowInv
<1> SUFFICES ASSUME Init PROVE WindowInv
  OBVIOUS
<1>1. mTimerBasedList = << >> /\ stamped = {} /\ pc = "check"
  BY DEF Init
<1> QED BY <1>1 DEF WindowInv, TimersFit, InPoll

\* What the stamped entries and the poller's clock value keep, in every step but Tick.
LEMMA StampsInTime ==
  ASSUME OrderInv, WindowInv, [Next]_vars, clock' = clock
  PROVE  \A s \in stamped' : s.list = "timer" =>
           InWindow(s.entry.at, clock) /\ TimeDiff(s.entry.at, clock) >= - MaxLag
<1> SUFFICES ASSUME NEW s \in stamped', s.list = "timer"
             PROVE  InWindow(s.entry.at, clock) /\ TimeDiff(s.entry.at, clock) >= - MaxLag
  OBVIOUS
<1>1. CASE s \in stamped
  BY <1>1 DEF WindowInv
<1>2. ASSUME NEW n \in Nodes, NEW period \in Periods, NEW offset \in Offsets,
             StampTimer(n, period, offset), s \notin stamped
      PROVE  InWindow(s.entry.at, clock) /\ TimeDiff(s.entry.at, clock) >= - MaxLag
  <2>1. s.entry.at = TimeAdd(clock, offset)
    BY <1>2 DEF StampTimer
  <2>2. offset \in Nat /\ offset < Half /\ offset + Late < Half
    BY DelayBound, LateMeans DEF Late
  <2>3. clock \in Int /\ TimeDiff(clock, clock) = 0
    BY TimeTypes, DiffSelf DEF OrderInv
  <2>4. TimeDiff(TimeAdd(clock, offset), clock) = offset
    BY <2>2, <2>3, DiffOfSum, LateMeans
  <2> QED BY <2>1, <2>2, <2>4, LateMeans DEF InWindow
<1>3. ASSUME NEW n \in Nodes, NEW k \in Iterations, StampIdlePoller(n, k) PROVE s \in stamped
  BY <1>3 DEF StampIdlePoller
<1>4. CASE \/ \E n \in Nodes :
                \/ \E period \in Periods, offset \in Offsets : StampTimer(n, period, offset)
                \/ \E k \in Iterations : StampIdlePoller(n, k)
  BY <1>1, <1>2, <1>3, <1>4
<1>5. CASE ~(\E n \in Nodes :
                \/ \E period \in Periods, offset \in Offsets : StampTimer(n, period, offset)
                \/ \E k \in Iterations : StampIdlePoller(n, k))
  <2>1. CASE ~ListStep
    BY <1>1, <2>1, OtherSteps
  <2>2. CASE ListStep
    BY <1>1, <1>5, <2>2 DEF ListStep, CollectOneShot, PollIterations, PollTimers,
       PollTimedUnlist, PollTimedRelist, PollTimedDone, AddOneShot, AddIdlePoller, Cancel,
       CancelScheduledTask, InsertTimer, InsertIdlePoller, clients
  <2> QED BY <2>1, <2>2
<1> QED BY <1>4, <1>5

LEMMA PollerInTime ==
  ASSUME OrderInv, WindowInv, [Next]_vars, clock' = clock
  PROVE  /\ (InPoll => TimeDiff(mCurrentTime, clock) \in - MaxLag .. 0)'
         /\ (pc = "timers" => mLastTimerProcessTime = mCurrentTime)'
<1> USE DEF InPoll, WindowInv, lists, times, flags, poller, clients, Goto
<1>1. CASE CallerStep
  <2>1. UNCHANGED <<pc, mCurrentTime>>
    BY <1>1, CallerKeepsQueue DEF OrderInv
  <2>2. UNCHANGED mLastTimerProcessTime
    <3>1. CASE Finish
      BY <3>1 DEF Finish, InsertTimer, InsertIdlePoller, CancelScheduledTask, TriggerEvent,
         CtlSignal
    <3>2. CASE Call
      BY <3>2 DEF Call, AddOneShot, StampTimer, AddIdlePoller, StampIdlePoller, Cancel,
         TestScheduled, LoadMask, TriggerEventFromIsr, EnablePrio, DisablePrio, Quit
    <3> QED BY <1>1, <3>1, <3>2 DEF CallerStep
  <2> QED BY <1>1, <2>1, <2>2
<1>2. CASE BeginPoll
  <2>1. mCurrentTime' = clock /\ pc' = "enter"
    BY <1>2 DEF BeginPoll
  <2>2. TimeDiff(clock, clock) = 0
    BY TimeTypes, DiffSelf DEF OrderInv
  <2> QED BY <2>1, <2>2, LateMeans
<1>3. CASE BeginTimers
  BY <1>3 DEF BeginTimers
<1>4. CASE ExitPoll
  BY <1>4 DEF ExitPoll
<1>5. CASE CheckRunning \/ TestEnabled \/ ReadEvents \/ ClearEvents \/ RunEvent \/ EventsDone
           \/ EnterPoll \/ CollectOneShot \/ BeginIterations \/ RunTask \/ Decide \/ TakeToken
           \/ WaitTimeout \/ UNCHANGED vars
  BY <1>5 DEF CheckRunning, TestEnabled, ReadEvents, ClearEvents, RunEvent, EventsDone,
     EnterPoll, CollectOneShot, BeginIterations, RunTask, Decide, TakeToken, WaitTimeout, vars
<1>6. CASE PollIterations \/ PollTimers
  BY <1>6 DEF PollIterations, PollTimers, PollTimedUnlist, PollTimedRelist, PollTimedDone
<1>7. CASE Tick
  <2>1. UNCHANGED <<pc, mCurrentTime>>
    BY <1>7 DEF Tick
  <2>2. pc = "timers" => mLastTimerProcessTime' = mCurrentTime
    BY <1>7 DEF Tick
  <2> QED BY <2>1, <2>2
<1> QED
  BY <1>1, <1>2, <1>3, <1>4, <1>5, <1>6, <1>7 DEF Next, Poller, CallerStep

-----------------------------------------------------------------------------
\* A pass over the timers: the first removal uses up what the millisecond allows.
LEMMA PollTimersFit ==
  ASSUME OrderInv, WindowInv, PollTimers
  PROVE  TimersFit(mTimerBasedList', clock, Slack')
<1> DEFINE list == mTimerBasedList
<1>1. /\ pc = "timers" /\ clock' = clock /\ UNCHANGED <<mLastTimerProcessTime, mCurrentTime>>
  BY DEF PollTimers, PollTimedUnlist, PollTimedRelist, PollTimedDone, times
<1>2. TimersFit(list, clock, Slack) /\ list \in Seq(TimedEntry) /\ clock \in Int
      /\ Slack \in Int /\ mCurrentTime \in Int /\ Distinct(list)
  BY TimeTypes DEF OrderInv, WindowInv, PlacesInv
<1>3. TimeDiff(mCurrentTime, clock) \in - MaxLag .. 0
  BY <1>1 DEF WindowInv, InPoll
<1>4. list # << >> => 1 \in DOMAIN list
  BY <1>2
<1>5. \A i \in DOMAIN list : list # << >> /\ list[i].node \in Nodes
  BY <1>2, EntryFields
<1>6. ASSUME Fresh, NEW i \in DOMAIN list, list[i].node = pIter PROVE i = 1
  BY <1>2, <1>4, <1>5, <1>6 DEF Fresh, FirstNode, Distinct
<1>7. CASE PollTimedUnlist(mTimerBasedList, mCurrentTime)
  <2>1. PICK i \in DOMAIN list :
          list[i].node = pIter /\ list' = RemoveAt(list, i) /\ cur' = {list[i]}
    BY <1>7 DEF PollTimedUnlist
  <2>2. ~Fresh'
    BY <2>1 DEF Fresh
  <2>3. CASE Fresh
    <3>1. Slack' = Slack - 1
      BY <1>1, <2>2, <2>3 DEF Slack
    <3>2. i = 1
      BY <1>6, <2>1, <2>3
    <3> QED BY <1>2, <2>1, <3>1, <3>2, FitRemove
  <2>4. CASE ~Fresh
    <3>1. Slack' = Slack
      BY <1>1, <2>2, <2>4 DEF Slack
    <3> QED BY <1>2, <2>1, <3>1, FitRemove
  <2> QED BY <2>3, <2>4
<1>8. CASE PollTimedRelist(mTimerBasedList, mCurrentTime)
  <2>1. PICK e \in cur :
          IF e.period = 0 THEN list' = list
          ELSE \E p \in 1 .. (Len(list) + 1) :
                 LET again == [e EXCEPT !.at = NextExecution(e, mCurrentTime)] IN
                 IsInsertPosition(list, again.at, p) /\ list' = InsertAt(list, p, again)
    BY <1>8 DEF PollTimedRelist
  <2>2. ~Fresh
    BY <2>1 DEF Fresh
  <2>3. Slack' \in Int /\ Slack <= Slack'
    BY <1>1, <2>2 DEF Slack
  <2>4. CASE e.period = 0
    BY <1>2, <2>1, <2>3, <2>4, FitLooser
  <2>5. CASE e.period # 0
    <3> DEFINE again == [e EXCEPT !.at = NextExecution(e, mCurrentTime)]
               d == TimeDiff(again.at, mCurrentTime)
    <3>1. e \in TimedEntry /\ mCurrentTime \in Times
      BY DEF OrderInv, TypeOK
    <3>2. again \in TimedEntry /\ again.at = NextExecution(e, mCurrentTime)
      BY <3>1, NextExecutionType DEF TimedEntry
    <3>3. TimeDiff(e.at, mCurrentTime) <= 0
      BY <1>1 DEF OrderInv, QueueInv
    <3>4. d \in 1 .. e.period
      BY <2>5, <3>1, <3>2, <3>3, NextExecutionLater
    <3>5. e.period \in Nat /\ Late + e.period < Half
      BY <3>1, EntryPeriod DEF Late
    <3>6. PICK p \in 1 .. (Len(list) + 1) :
            IsInsertPosition(list, again.at, p) /\ list' = InsertAt(list, p, again)
      BY <2>1, <2>5
    <3>7. again.at \in Int
      BY <3>2, EntryFields, TimesInt
    <3>8. TimeDiff(again.at, clock) = d + TimeDiff(mCurrentTime, clock)
      <4>1. TimeDiff(clock, mCurrentTime) = - TimeDiff(mCurrentTime, clock)
        BY <1>2, <1>3, DiffSwap, LateMeans
      <4>2. d - TimeDiff(clock, mCurrentTime) < Half /\ d - TimeDiff(clock, mCurrentTime) >= - Half
        <5> HIDE DEF d
        <5> QED BY <1>3, <3>4, <3>5, <4>1, LateMeans
      <4>3. TimeDiff(again.at, clock) = d - TimeDiff(clock, mCurrentTime)
        BY <1>2, <3>7, <4>2, DiffAddsUp
      <4> HIDE DEF d, again
      <4> QED BY <1>3, <3>4, <3>5, <4>1, <4>3, LateMeans
    <3>9. InWindow(again.at, clock) /\ TimeDiff(again.at, clock) >= - MaxLag
      <4> HIDE DEF d, again
      <4> QED BY <1>3, <3>4, <3>5, <3>8, LateMeans DEF InWindow
    <3>10. TimersFit(list, clock, Slack')
      BY <1>2, <2>3, FitLooser
    <3> HIDE DEF again
    <3> QED BY <1>2, <2>3, <3>2, <3>6, <3>9, <3>10, FitInsert
  <2> QED BY <2>4, <2>5
<1>9. CASE PollTimedDone(mTimerBasedList, mCurrentTime, "exit")
  <2>1. list' = list /\ ~Fresh'
    BY <1>9 DEF PollTimedDone, Fresh, Goto, lists
  <2>2. CASE ~Fresh
    <3>1. Slack' = Slack
      BY <1>1, <2>1, <2>2 DEF Slack
    <3> QED BY <1>2, <2>1, <3>1
  <2>3. CASE Fresh
    <3>1. list # << >> => pIter # NULL
      BY <1>4, <1>5, <2>3, SchedAssumption DEF Fresh, FirstNode
    <3>2. list # << >> => TimeDiff(list[1].at, mCurrentTime) > 0
      BY <1>6, <1>9, <2>3, <3>1 DEF PollTimedDone
    <3>3. ASSUME list # << >> PROVE TimeDiff(list[1].at, clock) >= - MaxLag
      <4>1. list[1].at \in Int /\ InWindow(list[1].at, clock)
        BY <1>2, <1>4, <3>3, EntryTimes DEF TimersFit
      <4>2. InWindow(mCurrentTime, clock)
        BY <1>3, LateMeans DEF InWindow
      <4>3. TimeDiff(list[1].at, mCurrentTime)
              = TimeDiff(list[1].at, clock) - TimeDiff(mCurrentTime, clock)
        BY <1>2, <4>1, <4>2, WindowOrder
      <4>4. TimeDiff(list[1].at, clock) \in Int
        BY <1>2, <4>1, DiffMeans
      <4> QED BY <1>3, <3>2, <3>3, <4>3, <4>4, LateMeans
    <3> QED BY <1>2, <2>1, <3>3, FirstInTime
  <2> QED BY <2>2, <2>3
<1> QED BY <1>7, <1>8, <1>9 DEF PollTimers

\* Outside a pass over the timers the slack depends on the clock alone.
LEMMA SlackKept ==
  ASSUME UNCHANGED <<clock, mLastTimerProcessTime>>,
         \/ pc # "timers" /\ pc' # "timers"
         \/ UNCHANGED <<pc, cur, pIter, mTimerBasedList>>
  PROVE  Slack' = Slack
  BY DEF Slack, Fresh

LEMMA TimersStep ==
  ASSUME OrderInv, WindowInv, [Next]_vars, clock' = clock
  PROVE  TimersFit(mTimerBasedList', clock, Slack')
<1> USE DEF lists, times, flags, poller, clients, Goto
<1>1. TimersFit(mTimerBasedList, clock, Slack) /\ clock \in Int /\ Slack \in Int
      /\ mTimerBasedList \in Seq(TimedEntry)
  BY TimeTypes DEF OrderInv, WindowInv
<1>2. LockFree => pc # "timers"
  BY DEF OrderInv, ControlInv, LockFree
<1>3. CASE PollTimers
  BY <1>3, PollTimersFit
<1>4. CASE BeginTimers
  <2>1. UNCHANGED <<clock, mTimerBasedList, mCurrentTime, cur>> /\ ~Fresh /\ cur = {}
    BY <1>4 DEF BeginTimers, Fresh, OrderInv, ControlInv
  <2>2. CASE mLastTimerProcessTime' = mLastTimerProcessTime /\ pc' = "exit"
    BY <1>1, <1>4, <2>1, <2>2, SlackKept DEF BeginTimers
  <2>3. CASE /\ mLastTimerProcessTime # mCurrentTime /\ mLastTimerProcessTime' = mCurrentTime
             /\ pIter' = FirstNode(mTimerBasedList) /\ pc' = "timers"
    <3>1. Fresh'
      BY <2>1, <2>3 DEF Fresh
    <3>2. Slack' = (IF mCurrentTime = clock THEN -1 ELSE 0) + 1
      BY <2>1, <2>3, <3>1 DEF Slack
    <3>3. Slack = (IF mLastTimerProcessTime = clock THEN -1 ELSE 0)
      BY <2>1 DEF Slack
    <3>4. Slack <= Slack' /\ Slack' \in Int
      BY <2>3, <3>2, <3>3
    <3> QED BY <1>1, <2>1, <3>4, FitLooser
  <2> QED BY <1>4, <2>2, <2>3 DEF BeginTimers
<1>5. ASSUME NEW s \in stamped, InsertTimer(s) PROVE TimersFit(mTimerBasedList', clock, Slack')
  <2>1. UNCHANGED <<clock, mLastTimerProcessTime, pc>> /\ pc # "timers" /\ s.list = "timer"
    BY <1>2, <1>5 DEF InsertTimer
  <2>2. Slack' = Slack
    BY <2>1, SlackKept
  <2>3. s.entry \in TimedEntry
    BY TimeTypes DEF OrderInv
  <2>4. InWindow(s.entry.at, clock) /\ TimeDiff(s.entry.at, clock) >= - MaxLag
    BY <2>1 DEF WindowInv
  <2>5. PICK p \in 1 .. (Len(mTimerBasedList) + 1) :
          /\ IsInsertPosition(mTimerBasedList, s.entry.at, p)
          /\ mTimerBasedList' = InsertAt(mTimerBasedList, p, s.entry)
    BY <1>5 DEF InsertTimer
  <2> QED BY <1>1, <2>2, <2>3, <2>4, <2>5, FitInsert
<1>6. ASSUME NEW n \in Nodes, Cancel(n) \/ CancelScheduledTask(n)
      PROVE  TimersFit(mTimerBasedList', clock, Slack')
  <2>1. UNCHANGED <<clock, mLastTimerProcessTime, pc>> /\ pc # "timers"
    BY <1>2, <1>6 DEF Cancel, CancelScheduledTask
  <2>2. mTimerBasedList' = Unlist(mTimerBasedList, n)
    BY <1>6 DEF Cancel, CancelScheduledTask, UnlistEverywhere
  <2>3. Slack' = Slack
    BY <2>1, SlackKept
  <2> QED BY <1>1, <2>2, <2>3, FitUnlist
<1>7. CASE CollectOneShot \/ PollIterations
  <2>1. UNCHANGED <<clock, mLastTimerProcessTime, mTimerBasedList>>
        /\ pc # "timers" /\ pc' # "timers"
    BY <1>7 DEF CollectOneShot, PollIterations, PollTimedUnlist, PollTimedRelist, PollTimedDone
  <2> QED BY <1>1, <2>1, SlackKept
<1>8. CASE CheckRunning \/ TestEnabled \/ ReadEvents \/ ClearEvents \/ RunEvent \/ EventsDone
           \/ BeginPoll \/ EnterPoll \/ BeginIterations \/ ExitPoll \/ RunTask \/ Decide
           \/ TakeToken \/ WaitTimeout
  <2>1. UNCHANGED <<clock, mLastTimerProcessTime, mTimerBasedList>>
        /\ pc # "timers" /\ pc' # "timers"
    BY <1>8 DEF CheckRunning, TestEnabled, ReadEvents, ClearEvents, RunEvent, EventsDone,
       BeginPoll, EnterPoll, BeginIterations, ExitPoll, RunTask, Decide, TakeToken, WaitTimeout
  <2> QED BY <1>1, <2>1, SlackKept
<1>9. CASE CallerStep /\ ~(\E s \in stamped : InsertTimer(s))
           /\ ~(\E n \in Nodes : Cancel(n) \/ CancelScheduledTask(n))
  <2>1. UNCHANGED <<clock, mLastTimerProcessTime, mTimerBasedList, pc, cur, pIter>>
    <3>1. CASE Finish
      BY <1>9, <3>1 DEF Finish, InsertIdlePoller, TriggerEvent, CtlSignal
    <3>2. CASE Call
      BY <1>9, <3>2 DEF Call, AddOneShot, StampTimer, AddIdlePoller, StampIdlePoller,
         TestScheduled, LoadMask, TriggerEventFromIsr, EnablePrio, DisablePrio, Quit
    <3> QED BY <1>9, <3>1, <3>2 DEF CallerStep
  <2> QED BY <1>1, <2>1, SlackKept
<1>10. CASE UNCHANGED vars
  BY <1>1, <1>10, SlackKept DEF vars
<1>11. ~Tick
  <2>1. ASSUME Tick PROVE FALSE
    <3>1. TimeAdd(clock, 1) = clock
      BY <2>1 DEF Tick
    <3>2. TimeDiff(clock, TimeAdd(clock, 1)) = TimeDiff(clock, clock) - 1
      BY <1>1, DiffSelf, DiffNextTick, HalfMeans
    <3> QED BY <1>1, <3>1, <3>2, DiffSelf
  <2> QED BY <2>1
<1> QED
  BY <1>3, <1>4, <1>5, <1>6, <1>7, <1>8, <1>9, <1>10, <1>11 DEF Next, Poller, CallerStep

LEMMA ClockMoves == [Next]_vars => clock' = clock \/ Tick
<1> SUFFICES ASSUME [Next]_vars PROVE clock' = clock \/ Tick
  OBVIOUS
<1> USE DEF vars, times, lists
<1>1. CASE Poller
  BY <1>1 DEF Poller, CheckRunning, TestEnabled, ReadEvents, ClearEvents, RunEvent,
     EventsDone, BeginPoll, EnterPoll, CollectOneShot, BeginIterations, PollIterations,
     BeginTimers, PollTimers, PollTimedUnlist, PollTimedRelist, PollTimedDone, ExitPoll,
     RunTask, Decide, TakeToken, WaitTimeout
<1>2. CASE Finish
  BY <1>2 DEF Finish, InsertTimer, InsertIdlePoller, CancelScheduledTask, TriggerEvent,
     CtlSignal
<1>3. CASE Call
  BY <1>3 DEF Call, AddOneShot, StampTimer, AddIdlePoller, StampIdlePoller, Cancel,
     TestScheduled, LoadMask, TriggerEventFromIsr, EnablePrio, DisablePrio, Quit
<1> QED BY <1>1, <1>2, <1>3 DEF Next

LEMMA WindowStep == OrderInv /\ WindowInv /\ [Next]_vars => WindowInv'
<1> SUFFICES ASSUME OrderInv, WindowInv, [Next]_vars PROVE WindowInv'
  OBVIOUS
<1>1. CASE Tick
  BY <1>1, WindowTick
<1>2. CASE clock' = clock
  <2>1. TimersFit(mTimerBasedList, clock, Slack)'
    BY <1>2, TimersStep DEF TimersFit, InWindow
  <2>2. (\A s \in stamped : s.list = "timer" =>
           InWindow(s.entry.at, clock) /\ TimeDiff(s.entry.at, clock) >= - MaxLag)'
    BY <1>2, StampsInTime DEF InWindow
  <2> QED BY <1>2, <2>1, <2>2, PollerInTime DEF WindowInv
<1> QED BY <1>1, <1>2, ClockMoves

LEMMA WindowKept == Spec => [](OrderInv /\ WindowInv)
<1>1. Init => OrderInv /\ WindowInv
  BY WindowInit, TypeInit, ControlInit, PlacesInit, QueueInit, PeriodsInit DEF OrderInv
<1>2. (OrderInv /\ WindowInv) /\ [Next]_vars => (OrderInv /\ WindowInv)'
  BY OrderStep, WindowStep
<1> QED BY <1>1, <1>2, PTL DEF Spec

\* Timers stay in the order of their next execution, across wraps of the clock, for
\* every priority and every batch size.
THEOREM TimersInOrder == Spec => []SortedByTime(mTimerBasedList)
<1>1. OrderInv /\ WindowInv => SortedByTime(mTimerBasedList)
  BY TimeTypes, FitSorted DEF OrderInv, WindowInv
<1> QED BY <1>1, WindowKept, PTL

-----------------------------------------------------------------------------
\* The end of the wait.
WaitEnd == TimeAdd(waitFrom, wait)

WaitInv ==
  /\ wait # NoWait => pc = "wait" /\ InWindow(WaitEnd, clock) /\ wait >= 0
  /\ pc = "wait" /\ sem = 0 /\ wait # 0 =>
       \A i \in DOMAIN mTimerBasedList :
         wait # NoWait /\ TimeDiff(mTimerBasedList[i].at, WaitEnd) >= 0

\* A wait ends when the first timer is due, or at once.
LEMMA TimeToNextRunEnds ==
  ASSUME OrderInv, WindowInv, TimeToNextRun # NoWait
  PROVE  /\ TimeToNextRun \in Nat
         /\ InWindow(TimeAdd(clock, TimeToNextRun), clock)
         /\ TimeToNextRun # 0 =>
              \A i \in DOMAIN mTimerBasedList :
                TimeDiff(mTimerBasedList[i].at, TimeAdd(clock, TimeToNextRun)) >= 0
<1> DEFINE t == TimeToNextRun
           first == TimeDiff(mTimerBasedList[1].at, clock)
<1>1. clock \in Int /\ TimeDiff(clock, clock) = 0 /\ mTimerBasedList \in Seq(TimedEntry)
      /\ TimersFit(mTimerBasedList, clock, Slack)
  BY TimeTypes, DiffSelf DEF OrderInv, WindowInv
<1>2. t = 0 \/ (mTimerBasedList # << >> /\ t = first /\ first > 0)
  BY DEF TimeToNextRun
<1>3. mTimerBasedList # << >> => 1 \in DOMAIN mTimerBasedList
  BY <1>1
<1>4. mTimerBasedList # << >> => first \in Int /\ first + Late < Half
  BY <1>1, <1>3, EntryTimes DEF TimersFit, InWindow
<1> HIDE DEF t, first
<1>5. t \in Nat /\ t + Late < Half
  BY <1>2, <1>4, LateMeans
<1>6. TimeDiff(TimeAdd(clock, t), clock) = t
  <2>1. 0 + t < Half /\ 0 + t >= - Half
    BY <1>5, LateMeans
  <2> QED BY <1>1, <1>5, <2>1, DiffOfSum
<1>7. InWindow(TimeAdd(clock, t), clock)
  BY <1>5, <1>6, LateMeans DEF InWindow
<1>8. ASSUME t # 0, NEW i \in DOMAIN mTimerBasedList
      PROVE  TimeDiff(mTimerBasedList[i].at, TimeAdd(clock, t)) >= 0
  <2>1. i \in Nat /\ i >= 1 /\ 1 \in DOMAIN mTimerBasedList /\ t = first
    BY <1>1, <1>2, <1>3, <1>8
  <2>2. first <= TimeDiff(mTimerBasedList[i].at, clock) /\ first \in Int
        /\ TimeDiff(mTimerBasedList[i].at, clock) \in Int /\ mTimerBasedList[i].at \in Int
        /\ InWindow(mTimerBasedList[i].at, clock)
    <3>1. /\ TimeDiff(mTimerBasedList[i].at, clock) \in Int /\ mTimerBasedList[i].at \in Int
          /\ TimeDiff(mTimerBasedList[1].at, clock) \in Int
      BY <1>1, <2>1, EntryTimes
    <3>2. 1 < i => TimeDiff(mTimerBasedList[1].at, clock) <= TimeDiff(mTimerBasedList[i].at, clock)
      BY <1>1, <2>1 DEF TimersFit
    <3>3. InWindow(mTimerBasedList[i].at, clock)
      BY <1>1 DEF TimersFit
    <3> QED BY <2>1, <3>1, <3>2, <3>3 DEF first
  <2>3. TimeAdd(clock, t) \in Int
    BY <1>1, <1>5, TimeAddType, TimesInt
  <2>4. TimeDiff(mTimerBasedList[i].at, TimeAdd(clock, t))
          = TimeDiff(mTimerBasedList[i].at, clock) - t
    BY <1>1, <1>6, <1>7, <2>2, <2>3, WindowOrder
  <2> QED BY <2>1, <2>2, <2>4
<1> QED BY <1>5, <1>7, <1>8 DEF t

LEMMA WaitInit == Init => WaitInv
<1> SUFFICES ASSUME Init PROVE WaitInv
  OBVIOUS
<1>1. wait = NoWait /\ pc = "check"
  BY DEF Init
<1> QED BY <1>1 DEF WaitInv

\* A timer put behind another is not due before the wait ends.
LEMMA InsertBehind ==
  ASSUME OrderInv, WindowInv, WaitInv, wait # NoWait, NEW s \in stamped, s.list = "timer",
         NEW p \in 1 .. (Len(mTimerBasedList) + 1), p # 1,
         IsInsertPosition(mTimerBasedList, s.entry.at, p),
         TimeDiff(mTimerBasedList[1].at, WaitEnd) >= 0
  PROVE  TimeDiff(s.entry.at, WaitEnd) >= 0
<1> DEFINE first == mTimerBasedList[1]
<1>1. 1 \in DOMAIN mTimerBasedList /\ 1 \in 1 .. (p - 1) /\ clock \in Int /\ s.entry.at \in Int
      /\ mTimerBasedList \in Seq(TimedEntry)
  BY TimeTypes DEF OrderInv
<1>2. first.at \in Int /\ TimeDiff(first.at, clock) \in Int
  BY <1>1, EntryTimes
<1>3. InWindow(first.at, clock)
  BY <1>1 DEF WindowInv, TimersFit
<1>4. InWindow(s.entry.at, clock) /\ InWindow(WaitEnd, clock)
  BY DEF WindowInv, WaitInv
<1>5. WaitEnd \in Int
  BY TimeTypes, TimeAddType, TimesInt DEF WaitEnd, OrderInv
<1>6. TimeDiff(s.entry.at, first.at) >= 0
  BY <1>1 DEF IsInsertPosition
<1>7. TimeDiff(s.entry.at, clock) \in Int /\ TimeDiff(WaitEnd, clock) \in Int
  BY <1>1, <1>5, DiffMeans
<1>8. /\ TimeDiff(s.entry.at, first.at) = TimeDiff(s.entry.at, clock) - TimeDiff(first.at, clock)
      /\ TimeDiff(first.at, WaitEnd) = TimeDiff(first.at, clock) - TimeDiff(WaitEnd, clock)
      /\ TimeDiff(s.entry.at, WaitEnd) = TimeDiff(s.entry.at, clock) - TimeDiff(WaitEnd, clock)
  BY <1>1, <1>2, <1>3, <1>4, <1>5, WindowOrder
<1> HIDE DEF first
<1>9. TimeDiff(first.at, WaitEnd) >= 0
  BY DEF first
<1> QED BY <1>2, <1>6, <1>7, <1>8, <1>9

LEMMA WaitStep ==
  OrderInv /\ WindowInv /\ IdleHasNoThread /\ WaitInv /\ [Next]_vars => WaitInv'
<1> SUFFICES ASSUME OrderInv, WindowInv, IdleHasNoThread, WaitInv, [Next]_vars PROVE WaitInv'
  OBVIOUS
<1> USE DEF lists, times, flags, poller, clients, Goto
<1>0. ASSUME UNCHANGED <<wait, waitFrom, clock>>, pc' = "wait" <=> pc = "wait",
             pc = "wait" => sem' = 1 \/ UNCHANGED sem,
             \A i \in DOMAIN mTimerBasedList' : \E k \in DOMAIN mTimerBasedList :
               mTimerBasedList'[i].at = mTimerBasedList[k].at
      PROVE  WaitInv'
  BY <1>0 DEF WaitInv, WaitEnd, InWindow
<1>1. CASE Decide
  <2>1. UNCHANGED <<clock, mTimerBasedList>>
    BY <1>1 DEF Decide
  <2>2. CASE wait' = TimeToNextRun /\ waitFrom' = clock /\ pc' = "wait"
    <3>1. WaitEnd' = TimeAdd(clock, TimeToNextRun)
      BY <2>2 DEF WaitEnd
    <3>2. wait' # NoWait => wait' \in Nat /\ InWindow(WaitEnd', clock)
      BY <2>2, <3>1, TimeToNextRunEnds
    <3>3. wait' = NoWait => mTimerBasedList = << >>
      BY <2>2, TimeToNextRunMeans DEF OrderInv
    <3>4. wait' # NoWait /\ wait' # 0 => \A i \in DOMAIN mTimerBasedList :
            TimeDiff(mTimerBasedList[i].at, WaitEnd') >= 0
      BY <2>2, <3>1, TimeToNextRunEnds
    <3> QED BY <2>1, <2>2, <3>2, <3>3, <3>4 DEF WaitInv, InWindow
  <2>3. CASE UNCHANGED <<wait, waitFrom>> /\ pc' = "check"
    <3>1. wait = NoWait
      BY <1>1 DEF WaitInv, Decide
    <3> QED BY <2>3, <3>1 DEF WaitInv
  <2> QED BY <1>1, <2>2, <2>3 DEF Decide
<1>2. CASE TakeToken \/ WaitTimeout
  <2>1. wait' = NoWait /\ pc' = "check"
    BY <1>2 DEF TakeToken, WaitTimeout
  <2> QED BY <2>1 DEF WaitInv
<1>3. CASE Tick
  <2>1. UNCHANGED <<wait, waitFrom, pc, sem, mTimerBasedList>> /\ clock' = TimeAdd(clock, 1)
    BY <1>3 DEF Tick
  <2>2. ASSUME wait # NoWait PROVE InWindow(WaitEnd, TimeAdd(clock, 1))
    <3>1. WaitEnd \in TimesInUse
      BY <2>2 DEF TimesInUse, WaitEnd
    <3>2. TimeDiff(clock, WaitEnd) < MaxLag
      BY <1>3, <3>1 DEF Tick
    <3>3. InWindow(WaitEnd, clock)
      BY <2>2 DEF WaitInv
    <3>4. WaitEnd \in Int /\ clock \in Int
      BY TimeTypes, TimeAddType, TimesInt DEF WaitEnd, OrderInv
    <3>5. TimeDiff(clock, WaitEnd) = - TimeDiff(WaitEnd, clock) /\ TimeDiff(WaitEnd, clock) \in Int
      BY <3>3, <3>4, NextTick
    <3>6. TimeDiff(WaitEnd, clock) > - Late
      BY <3>2, <3>5, LateMeans
    <3> QED BY <3>3, <3>4, <3>6, NextTick
  <2> QED BY <2>1, <2>2 DEF WaitInv, WaitEnd, InWindow
<1>4. ASSUME NEW s \in stamped, InsertTimer(s) PROVE WaitInv'
  <2>1. UNCHANGED <<clock, pc, wait, waitFrom>> /\ s.list = "timer"
    BY <1>4 DEF InsertTimer
  <2>2. PICK p \in 1 .. (Len(mTimerBasedList) + 1) :
          /\ IsInsertPosition(mTimerBasedList, s.entry.at, p)
          /\ mTimerBasedList' = InsertAt(mTimerBasedList, p, s.entry)
          /\ SignalIfFront(p)
    BY <1>4 DEF InsertTimer
  <2>3. s.entry \in TimedEntry /\ mTimerBasedList \in Seq(TimedEntry)
    BY TimeTypes DEF OrderInv
  <2>4. \A j \in DOMAIN mTimerBasedList' :
          \/ mTimerBasedList'[j] = s.entry
          \/ \E k \in DOMAIN mTimerBasedList : mTimerBasedList'[j] = mTimerBasedList[k]
    <3>1. mTimerBasedList' = InsertAt(mTimerBasedList, p, s.entry)
      BY <2>2
    <3> QED BY <2>3, <3>1, InsertAtMembers
  <2>5. ASSUME pc = "wait", sem' = 0, wait # 0
        PROVE  \A i \in DOMAIN mTimerBasedList' :
                 wait # NoWait /\ TimeDiff(mTimerBasedList'[i].at, WaitEnd) >= 0
    <3>1. p # 1 /\ UNCHANGED sem
      BY <2>2, <2>5 DEF SignalIfFront, Signal, IdleHasNoThread
    <3>2. 1 \in DOMAIN mTimerBasedList
      BY <2>2, <2>3, <3>1
    <3>3. wait # NoWait /\ \A k \in DOMAIN mTimerBasedList :
            TimeDiff(mTimerBasedList[k].at, WaitEnd) >= 0
      BY <2>5, <3>1, <3>2 DEF WaitInv
    <3>4. TimeDiff(s.entry.at, WaitEnd) >= 0
      BY <2>1, <2>2, <3>1, <3>2, <3>3, InsertBehind
    <3> QED BY <2>4, <3>3, <3>4
  <2> QED BY <2>1, <2>5 DEF WaitInv, WaitEnd, InWindow
<1>5. ASSUME NEW n \in Nodes, Cancel(n) \/ CancelScheduledTask(n) PROVE WaitInv'
  <2>1. UNCHANGED <<clock, pc, wait, waitFrom, sem>>
        /\ mTimerBasedList' = Unlist(mTimerBasedList, n)
    BY <1>5 DEF Cancel, CancelScheduledTask, UnlistEverywhere
  <2>2. \A i \in DOMAIN mTimerBasedList' : \E k \in DOMAIN mTimerBasedList :
          mTimerBasedList'[i].at = mTimerBasedList[k].at
    BY <2>1, TimeTypes, UnlistEntries DEF OrderInv
  <2> QED BY <1>0, <2>1, <2>2
<1>6. CASE PollTimers \/ PollIterations
  <2>1. UNCHANGED <<clock, wait, waitFrom>> /\ pc # "wait" /\ pc' # "wait"
    BY <1>6 DEF PollTimers, PollIterations, PollTimedUnlist, PollTimedRelist, PollTimedDone
  <2> QED BY <2>1 DEF WaitInv
<1>7. CASE CheckRunning \/ TestEnabled \/ ReadEvents \/ ClearEvents \/ RunEvent \/ EventsDone
           \/ BeginPoll \/ EnterPoll \/ CollectOneShot \/ BeginIterations \/ BeginTimers
           \/ ExitPoll \/ RunTask
  <2>1. UNCHANGED <<clock, wait, waitFrom>> /\ pc # "wait" /\ pc' # "wait"
    BY <1>7 DEF CheckRunning, TestEnabled, ReadEvents, ClearEvents, RunEvent, EventsDone,
       BeginPoll, EnterPoll, CollectOneShot, BeginIterations, BeginTimers, ExitPoll, RunTask
  <2> QED BY <2>1 DEF WaitInv
<1>8. CASE CallerStep /\ ~(\E s \in stamped : InsertTimer(s))
           /\ ~(\E n \in Nodes : Cancel(n) \/ CancelScheduledTask(n))
  <2>1. UNCHANGED <<clock, wait, waitFrom, pc, mTimerBasedList>> /\ (sem' = 1 \/ UNCHANGED sem)
    <3> USE DEF Signal, SignalIfFront
    <3>1. CASE Finish
      BY <1>8, <3>1 DEF Finish, InsertIdlePoller, TriggerEvent, CtlSignal
    <3>2. CASE Call
      BY <1>8, <3>2 DEF Call, AddOneShot, StampTimer, AddIdlePoller, StampIdlePoller,
         TestScheduled, LoadMask, TriggerEventFromIsr, EnablePrio, DisablePrio, Quit
    <3> QED BY <1>8, <3>1, <3>2 DEF CallerStep
  <2> QED BY <1>0, <2>1
<1>9. CASE UNCHANGED vars
  BY <1>0, <1>9 DEF vars
<1> QED
  BY <1>1, <1>2, <1>3, <1>4, <1>5, <1>6, <1>7, <1>8, <1>9 DEF Next, Poller, CallerStep

\* A blocked thread wakes up no later than its earliest timer is due, whatever timers
\* were added while it waited.
THEOREM EarliestCovered == Spec => []EarliestTimerCovered
<1>1. Init => WaitInv
  BY WaitInit
<1>2. (OrderInv /\ WindowInv /\ WakeInv) /\ WaitInv /\ [Next]_vars => WaitInv'
  BY WaitStep DEF WakeInv
<1>3. WaitInv => EarliestTimerCovered
  BY DEF WaitInv, WaitEnd, EarliestTimerCovered, Blocked
<1> QED BY <1>1, <1>2, <1>3, WindowKept, WakeupsKept, PTL DEF Spec

-----------------------------------------------------------------------------
(* The iterations-based list, read with the counter as its clock.           *)

\* A batch that holds as many entries as there are nodes holds every node.
LEMMA AllQueued ==
  ASSUME mQtl \in Seq(QtlElement), Distinct(mQtl), Len(mQtl) >= Cardinality(Nodes)
  PROVE  Nodes \subseteq Queued
<1> DEFINE m == Len(mQtl)
           f == [k \in 1 .. m |-> mQtl[k].node]
<1>1. m \in Nat /\ DOMAIN mQtl = 1 .. m
  OBVIOUS
<1>2. f \in Injection(1 .. m, Nodes)
  <2>1. \A k \in 1 .. m : mQtl[k].node \in Nodes
    <3>1. \A q \in QtlElement : q.node \in Nodes
      BY DEF QtlElement
    <3>2. \A k \in 1 .. m : mQtl[k] \in QtlElement
      BY <1>1
    <3> QED BY <3>1, <3>2
  <2>2. \A k, l \in 1 .. m : f[k] = f[l] => k = l
    BY <1>1 DEF Distinct
  <2> HIDE DEF m
  <2> QED BY <2>1, <2>2 DEF Injection, IsInjective
<1>3. IsFiniteSet(Nodes) /\ Cardinality(Nodes) \in Nat
  BY SchedAssumption, FS_CardinalityType
<1>4. Cardinality(1 .. m) = m
  <2> HIDE DEF m
  <2>1. Cardinality(1 .. m) = IF 1 > m THEN 0 ELSE m - 1 + 1
    BY <1>1, FS_Interval
  <2> QED BY <1>1, <2>1
<1>5. /\ Cardinality(1 .. m) <= Cardinality(Nodes)
      /\ Cardinality(1 .. m) = Cardinality(Nodes) <=> f \in Surjection(1 .. m, Nodes)
  BY <1>2, <1>3, FS_Injection
<1>6. m >= Cardinality(Nodes)
  OBVIOUS
<1>7. f \in Surjection(1 .. m, Nodes)
  <2> HIDE DEF m, f
  <2> QED BY <1>1, <1>3, <1>4, <1>5, <1>6
<1>8. \A n \in Nodes : \E k \in 1 .. m : f[k] = n
  <2> HIDE DEF f, m
  <2> QED BY <1>7 DEF Surjection
<1> QED BY <1>1, <1>8 DEF Queued, NodesOf

\* The idle priority's iterations-based list, read like a list of timers: the counter
\* is its clock, and a batch with room for every node leaves nothing due in it.
IterSlack == IF pc \in {"enter", "oneShots", "iterations"} THEN 0 ELSE -1

NoneDueBefore(n) ==
  \A j, k \in DOMAIN mIterationsBasedList :
    mIterationsBasedList[j].node = n /\ k < j =>
      TimeDiff(mIterationsBasedList[k].at, mIterationsCounter) > 0
NoneDue ==
  \A k \in DOMAIN mIterationsBasedList :
    TimeDiff(mIterationsBasedList[k].at, mIterationsCounter) > 0

IterationsInv ==
  /\ TimersFit(mIterationsBasedList, mIterationsCounter, IterSlack)
  /\ \A s \in stamped : s.list = "iteration" =>
       InWindow(s.entry.at, mIterationsCounter)
       /\ TimeDiff(s.entry.at, mIterationsCounter) >= - MaxLag
  /\ ~IsIdle => mIterationsBasedList = << >> /\ \A s \in stamped : s.list = "timer"
  /\ pc = "iterations" => IsIdle
  /\ pc = "iterations" =>
       IF pIter = NULL THEN NoneDue \/ Len(mQtl) = MaxTasks
       ELSE pIter \in NodesOf(mIterationsBasedList) /\ NoneDueBefore(pIter)

LEMMA IterationsInit == Init => IterationsInv
<1> SUFFICES ASSUME Init PROVE IterationsInv
  OBVIOUS
<1>1. mIterationsBasedList = << >> /\ stamped = {} /\ pc = "check"
  BY DEF Init
<1> QED BY <1>1 DEF IterationsInv, TimersFit

LEMMA IterationTypes ==
  ASSUME TypeOK
  PROVE  /\ mIterationsCounter \in Int /\ mIterationsCounter \in Times /\ IterSlack \in Int
         /\ mIterationsBasedList \in Seq(TimedEntry)
         /\ \A i \in DOMAIN mIterationsBasedList :
              /\ i \in Nat /\ i >= 1 /\ 1 \in DOMAIN mIterationsBasedList
              /\ mIterationsBasedList[i].node \in Nodes
              /\ mIterationsBasedList[i].at \in Int
              /\ TimeDiff(mIterationsBasedList[i].at, mIterationsCounter) \in Int
<1>1. mIterationsCounter \in Int /\ mIterationsCounter \in Times /\ IterSlack \in Int
  BY TimesInt DEF TypeOK, IterSlack
<1>2. mIterationsBasedList \in Seq(TimedEntry)
  BY ListTypes
<1>3. \A i \in DOMAIN mIterationsBasedList :
        /\ i \in Nat /\ i >= 1 /\ 1 \in DOMAIN mIterationsBasedList
        /\ mIterationsBasedList[i] \in TimedEntry
  BY <1>2
<1> QED BY <1>1, <1>2, <1>3, EntryTimes, EntryFields

\* What an insertion or a removal outside a pass does to the list.
LEMMA IterationsKept ==
  ASSUME OrderInv, IterationsInv,
         TimersFit(mIterationsBasedList', mIterationsCounter, IterSlack),
         mIterationsCounter' = mIterationsCounter, IterSlack' = IterSlack,
         pc' # "iterations", stamped' \subseteq stamped,
         ~IsIdle => mIterationsBasedList' = << >>
  PROVE  IterationsInv'
<1>1. TimersFit(mIterationsBasedList, mIterationsCounter, IterSlack)'
  BY DEF TimersFit, InWindow
<1>2. (\A s \in stamped : s.list = "iteration" =>
        InWindow(s.entry.at, mIterationsCounter)
        /\ TimeDiff(s.entry.at, mIterationsCounter) >= - MaxLag)'
  BY DEF IterationsInv, InWindow
<1> QED BY <1>1, <1>2 DEF IterationsInv

LEMMA BeginPollIterations ==
  ASSUME OrderInv, IterationsInv, BeginPoll
  PROVE  IterationsInv'
<1> USE DEF lists, clients, flags
<1>1. UNCHANGED <<mIterationsBasedList, stamped>> /\ pc' = "enter" /\ IterSlack' = 0
      /\ IterSlack = -1
  BY DEF BeginPoll, IterSlack, Goto
<1>2. mIterationsCounter \in Int /\ TimeAdd(mIterationsCounter, 1) \in Int
      /\ mIterationsBasedList \in Seq(TimedEntry)
  BY IterationTypes, TimeAddType, TimesInt DEF OrderInv
<1>3. CASE IsIdle
  <2>1. mIterationsCounter' = TimeAdd(mIterationsCounter, 1)
    BY <1>3 DEF BeginPoll
  <2>2. Distinct(mIterationsBasedList)
    BY DEF OrderInv, PlacesInv
  <2>3. TimersFit(mIterationsBasedList, mIterationsCounter, -1)
    BY <1>1 DEF IterationsInv
  <2>4. TimersFit(mIterationsBasedList, TimeAdd(mIterationsCounter, 1), 0)
    BY <1>2, <2>2, <2>3, TickFit
  <2>5. ASSUME NEW s \in stamped, s.list = "iteration"
        PROVE  /\ InWindow(s.entry.at, TimeAdd(mIterationsCounter, 1))
               /\ TimeDiff(s.entry.at, TimeAdd(mIterationsCounter, 1)) >= - MaxLag
    <3>1. s.entry.at \in Int /\ InWindow(s.entry.at, mIterationsCounter)
      BY <2>5, TimeTypes DEF OrderInv, IterationsInv
    <3>2. TimeDiff(mIterationsCounter, s.entry.at) < MaxLag
      BY <2>5 DEF BeginPoll
    <3>3. TimeDiff(mIterationsCounter, s.entry.at) = - TimeDiff(s.entry.at, mIterationsCounter)
          /\ TimeDiff(s.entry.at, mIterationsCounter) \in Int
          /\ TimeDiff(s.entry.at, TimeAdd(mIterationsCounter, 1))
               = TimeDiff(s.entry.at, mIterationsCounter) - 1
      BY <1>2, <3>1, NextTick
    <3>4. TimeDiff(s.entry.at, mIterationsCounter) > - Late
      BY <3>2, <3>3, LateMeans
    <3> QED BY <1>2, <3>1, <3>2, <3>3, <3>4, NextTick, LateMeans
  <2>6. TimersFit(mIterationsBasedList, mIterationsCounter, IterSlack)'
    BY <1>1, <2>1, <2>4 DEF TimersFit, InWindow
  <2> QED BY <1>1, <1>3, <2>1, <2>5, <2>6 DEF IterationsInv, InWindow
<1>4. CASE ~IsIdle
  <2>1. mIterationsBasedList = << >> /\ \A s \in stamped : s.list = "timer"
    BY <1>4 DEF IterationsInv
  <2> QED BY <1>1, <1>4, <2>1 DEF IterationsInv, TimersFit
<1> QED BY <1>3, <1>4

\* A batch that is full holds every node, so no entry of the list can be due.
LEMMA FullBatchLeavesNone ==
  ASSUME OrderInv, Cardinality(Nodes) <= MaxTasks, Len(mQtl) >= MaxTasks
  PROVE  Nodes \subseteq Queued
<1>1. mQtl \in Seq(QtlElement) /\ Distinct(mQtl)
  BY ListTypes DEF OrderInv, QueueInv
<1>2. Len(mQtl) \in Nat /\ Cardinality(Nodes) \in Nat /\ MaxTasks \in Nat
  BY <1>1, DelayBound, SchedAssumption
<1> QED BY <1>1, <1>2, AllQueued

LEMMA BeginIterationsKeeps ==
  ASSUME IsIdle => Cardinality(Nodes) <= MaxTasks, OrderInv, IterationsInv, BeginIterations
  PROVE  IterationsInv'
<1> USE DEF lists, clients, flags, times
<1> DEFINE list == mIterationsBasedList
<1>1. UNCHANGED <<list, stamped, mIterationsCounter, mQtl>> /\ pc = "oneShots" /\ IterSlack = 0
  BY DEF BeginIterations, IterSlack
<1>2. TimersFit(list, mIterationsCounter, 0) /\ list \in Seq(TimedEntry)
      /\ mIterationsCounter \in Int /\ Distinct(list)
  BY <1>1, IterationTypes DEF IterationsInv, OrderInv, PlacesInv
<1>3. CASE pc' = "iterations" /\ pIter' = FirstNode(list) /\ list # << >>
  <2>1. IterSlack' = 0
    BY <1>3 DEF IterSlack
  <2>2. 1 \in DOMAIN list /\ pIter' = list[1].node /\ list[1].node \in Nodes
    BY <1>2, <1>3, EntryFields DEF FirstNode
  <2>3. pIter' # NULL /\ pIter' \in NodesOf(list)
    BY <2>2, SchedAssumption DEF NodesOf
  <2>4. \A j, k \in DOMAIN list : ~(list[j].node = pIter' /\ k < j)
    BY <1>2, <2>2 DEF Distinct
  <2> QED BY <1>1, <1>2, <1>3, <2>1, <2>3, <2>4 DEF IterationsInv, NoneDueBefore, TimersFit, InWindow, OrderInv, ControlInv
<1>4. CASE pc' = "beginTimers" /\ ~(IsIdle /\ Len(mQtl) < MaxTasks /\ list # << >>)
  <2>1. list = << >>
    <3>1. ASSUME IsIdle, ~(Len(mQtl) < MaxTasks) PROVE NodesOf(list) = {}
      <4>1. Nodes \subseteq Queued
        BY <3>1, FullBatchLeavesNone, ListTypes, SchedAssumption DEF OrderInv
      <4>2. Queued \cap NodesOf(list) = {}
        BY <1>1 DEF OrderInv, QueueInv
      <4>3. NodesOf(list) \subseteq Nodes
        BY <1>2, EntryFields DEF NodesOf
      <4> QED BY <4>1, <4>2, <4>3
    <3>2. NodesOf(list) = {} => list = << >>
      <4>1. list # << >> => 1 \in DOMAIN list
        BY <1>2
      <4> QED BY <4>1 DEF NodesOf
    <3> QED BY <1>4, <3>1, <3>2 DEF IterationsInv
  <2> QED BY <1>1, <1>4, <2>1 DEF IterationsInv, TimersFit
<1> QED BY <1>3, <1>4 DEF BeginIterations, Goto

LEMMA PollIterationsKeeps ==
  ASSUME IsIdle => Cardinality(Nodes) <= MaxTasks, OrderInv, IterationsInv, PollIterations
  PROVE  IterationsInv'
<1> USE DEF lists, clients, flags, times, poller
<1> DEFINE list == mIterationsBasedList
           due(i) == TimeDiff(list[i].at, mIterationsCounter) <= 0
<1>1. UNCHANGED <<stamped, mIterationsCounter>> /\ pc = "iterations" /\ IterSlack = 0
  BY DEF PollIterations, PollTimedUnlist, PollTimedRelist, PollTimedDone, IterSlack
<1>2. TimersFit(list, mIterationsCounter, 0) /\ list \in Seq(TimedEntry)
      /\ mIterationsCounter \in Int /\ mIterationsCounter \in Times /\ Distinct(list)
  BY <1>1, IterationTypes DEF IterationsInv, OrderInv, PlacesInv
<1>3. \A i \in DOMAIN list : /\ i \in Nat /\ i >= 1 /\ 1 \in DOMAIN list
                             /\ list[i].node \in Nodes /\ list[i].at \in Int
                             /\ TimeDiff(list[i].at, mIterationsCounter) \in Int
  BY IterationTypes DEF OrderInv
<1>4. IF pIter = NULL THEN NoneDue \/ Len(mQtl) = MaxTasks
      ELSE pIter \in NodesOf(list) /\ NoneDueBefore(pIter)
  BY <1>1 DEF IterationsInv
<1>5. IsIdle \/ list = << >>
  BY DEF IterationsInv
<1>6. CASE PollTimedUnlist(list, mIterationsCounter)
  <2>1. PICK i \in DOMAIN list : /\ list[i].node = pIter /\ list' = RemoveAt(list, i)
                                 /\ pIter' = NodeAfter(list, i)
    BY <1>6 DEF PollTimedUnlist
  <2>2. UNCHANGED <<pc, mQtl>> /\ pIter # NULL /\ IsIdle
    BY <1>5, <1>6, <1>3 DEF PollTimedUnlist
  <2>3. TimersFit(list', mIterationsCounter, 0)
    BY <1>2, <2>1, FitRemove
  <2>4. \A k \in DOMAIN list : k < i => ~due(k)
    BY <1>3, <1>4, <2>1, <2>2 DEF NoneDueBefore
  <2>5. list' \in Seq(TimedEntry) /\ Len(list') = Len(list) - 1 /\ Len(list) \in Nat
        /\ i \in 1 .. Len(list)
        /\ \A j \in 1 .. (Len(list) - 1) : list'[j] = IF j < i THEN list[j] ELSE list[j + 1]
    BY <1>2, <2>1, RemoveAtMeans
  <2>6. \A k \in DOMAIN list' : k < i => TimeDiff(list'[k].at, mIterationsCounter) > 0
    BY <1>3, <2>4, <2>5
  <2>7. CASE i < Len(list)
    <3>1. pIter' = list[i + 1].node /\ i + 1 \in DOMAIN list
      BY <2>1, <2>5, <2>7 DEF NodeAfter
    <3>2. i \in DOMAIN list' /\ list'[i].node = pIter' /\ pIter' # NULL
      BY <1>3, <2>5, <2>7, <3>1, SchedAssumption
    <3>3. Distinct(list')
      BY <1>2, <2>1, RemoveAtNodes
    <3>4. \A j \in DOMAIN list' : list'[j].node = pIter' => j = i
      BY <3>2, <3>3 DEF Distinct
    <3>5. NoneDueBefore(pIter)' /\ pIter' \in NodesOf(list')
      BY <1>1, <2>6, <3>2, <3>4 DEF NoneDueBefore, NodesOf
    <3> QED BY <1>1, <2>2, <2>3, <3>2, <3>5 DEF IterationsInv, IterSlack, TimersFit, InWindow
  <2>8. CASE i = Len(list)
    <3>1. pIter' = NULL
      BY <2>1, <2>8 DEF NodeAfter
    <3>2. NoneDue'
      BY <1>1, <2>5, <2>6, <2>8 DEF NoneDue
    <3> QED BY <1>1, <2>2, <2>3, <3>1, <3>2 DEF IterationsInv, IterSlack, TimersFit, InWindow
  <2> QED BY <2>5, <2>7, <2>8
<1>7. CASE PollTimedRelist(list, mIterationsCounter)
  <2>1. PICK e \in cur :
          IF e.period = 0 THEN list' = list
          ELSE \E p \in 1 .. (Len(list) + 1) :
                 LET again == [e EXCEPT !.at = NextExecution(e, mIterationsCounter)] IN
                 IsInsertPosition(list, again.at, p) /\ list' = InsertAt(list, p, again)
    BY <1>7 DEF PollTimedRelist
  <2>2. pc' = pc /\ pIter' = IF Len(mQtl') = MaxTasks THEN NULL ELSE pIter
    BY <1>7 DEF PollTimedRelist
  <2> DEFINE again == [e EXCEPT !.at = NextExecution(e, mIterationsCounter)]
             d == TimeDiff(again.at, mIterationsCounter)
  <2>3. e \in TimedEntry /\ e.period # 0 /\ TimeDiff(e.at, mIterationsCounter) <= 0
    BY <1>1, ListTypes DEF OrderInv, PeriodsInv, QueueInv
  <2>4. again \in TimedEntry /\ again.at = NextExecution(e, mIterationsCounter)
        /\ again.node = e.node
    BY <1>2, <2>3, NextExecutionType DEF TimedEntry
  <2>5. d \in 1 .. e.period /\ e.period \in Nat /\ Late + e.period < Half
    BY <1>2, <2>3, <2>4, NextExecutionLater, EntryPeriod DEF Late
  <2>6. PICK p \in 1 .. (Len(list) + 1) :
          IsInsertPosition(list, again.at, p) /\ list' = InsertAt(list, p, again)
    BY <2>1, <2>3
  <2>7. e.node \notin NodesOf(list)
    BY DEF OrderInv, PlacesInv, CurNodes, Linked
  <2>8. d > 0 /\ InWindow(again.at, mIterationsCounter) /\ d >= - MaxLag
    <3> HIDE DEF again
    <3> QED BY <2>5, LateMeans DEF InWindow
  <2> HIDE DEF again
  <2>9. TimersFit(list', mIterationsCounter, 0)
    BY <1>2, <2>4, <2>6, <2>8, FitInsert
  <2>10. Len(list) \in Nat /\ DOMAIN list = 1 .. Len(list) /\ DOMAIN list' = 1 .. (Len(list) + 1)
         /\ \A j \in 1 .. (Len(list) + 1) :
              list'[j] = IF j < p THEN list[j] ELSE IF j = p THEN again ELSE list[j - 1]
    <3>0. list' = InsertAt(list, p, again)
      BY <2>6
    <3>1. list' \in Seq(TimedEntry) /\ Len(list') = Len(list) + 1
      BY <1>2, <2>4, <3>0, InsertAtMeans
    <3> DEFINE inserted(r) == \A j \in 1 .. (Len(list) + 1) :
                 r[j] = IF j < p THEN list[j] ELSE IF j = p THEN again ELSE list[j - 1]
    <3>2. inserted(InsertAt(list, p, again))
      BY <1>2, <2>4, InsertAtMeans
    <3>3. Len(list) \in Nat /\ DOMAIN list = 1 .. Len(list)
      BY <1>2
    <3> QED BY <3>0, <3>1, <3>2, <3>3
  <2>11. ASSUME NoneDue PROVE NoneDue'
    <3> SUFFICES ASSUME NEW k \in DOMAIN list'
                 PROVE  TimeDiff(list'[k].at, mIterationsCounter) > 0
      BY <1>1 DEF NoneDue
    <3> QED BY <2>8, <2>10, <2>11 DEF NoneDue
  <2>12. ASSUME pIter # NULL
         PROVE  pIter \in NodesOf(list') /\ (pIter' = pIter => NoneDueBefore(pIter)')
    <3>1. PICK i \in DOMAIN list : list[i].node = pIter
      BY <1>4, <2>12 DEF NodesOf
    <3>2. \A k \in DOMAIN list : k < i => ~due(k)
      BY <1>3, <1>4, <2>12, <3>1 DEF NoneDueBefore
    <3>3. again.node # pIter
      BY <1>4, <2>4, <2>7, <2>12
    <3>4. NodesOf(list') = NodesOf(list) \cup {again.node}
      BY <1>2, <2>4, <2>6, <2>7, InsertAtNodes
    <3> DEFINE at == IF i < p THEN i ELSE i + 1
    <3>5. \A j \in DOMAIN list' : list'[j].node = pIter => j = at
      <4> SUFFICES ASSUME NEW j \in DOMAIN list', list'[j].node = pIter PROVE j = at
        OBVIOUS
      <4>1. CASE j < p
        <5>1. j \in DOMAIN list /\ list[j].node = pIter
          BY <2>10, <4>1
        <5> QED BY <1>2, <3>1, <4>1, <5>1 DEF Distinct
      <4>2. CASE j = p
        BY <2>10, <3>3, <4>2
      <4>3. CASE j > p
        <5>1. j - 1 \in DOMAIN list /\ list[j - 1].node = pIter /\ j \in Int
          BY <2>10, <4>3
        <5>2. j - 1 = i
          BY <1>2, <3>1, <5>1 DEF Distinct
        <5> QED BY <4>3, <5>1, <5>2
      <4> QED BY <2>10, <4>1, <4>2, <4>3
    <3>6. \A k \in DOMAIN list' : k < at => TimeDiff(list'[k].at, mIterationsCounter) > 0
      <4> SUFFICES ASSUME NEW k \in DOMAIN list', k < at
                   PROVE  TimeDiff(list'[k].at, mIterationsCounter) > 0
        OBVIOUS
      <4>1. CASE k = p
        BY <2>8, <2>10, <4>1
      <4>2. CASE k < p
        BY <1>3, <2>10, <3>1, <3>2, <4>2
      <4>3. CASE k > p
        <5>1. k - 1 \in DOMAIN list /\ k - 1 < i /\ list'[k] = list[k - 1]
          BY <1>3, <2>10, <3>1, <4>3
        <5> QED BY <1>3, <3>2, <5>1
      <4> QED BY <2>10, <4>1, <4>2, <4>3
    <3>7. ASSUME pIter' = pIter PROVE NoneDueBefore(pIter)'
      <4> HIDE DEF at
      <4> QED BY <1>1, <3>5, <3>6, <3>7 DEF NoneDueBefore
    <3> QED BY <1>4, <2>12, <3>4, <3>7
  <2>13. IF pIter' = NULL THEN NoneDue' \/ Len(mQtl') = MaxTasks
         ELSE pIter' \in NodesOf(list') /\ NoneDueBefore(pIter)'
    <3>1. CASE Len(mQtl') = MaxTasks
      BY <2>2, <3>1
    <3>2. CASE Len(mQtl') # MaxTasks /\ pIter = NULL
      <4>1. Len(mQtl) # MaxTasks
        <5>1. Len(mQtl) < MaxTasks
          BY <1>1, <2>1 DEF OrderInv, QueueInv
        <5>2. Len(mQtl) \in Nat /\ MaxTasks \in Nat
          BY ListTypes, SchedAssumption DEF OrderInv
        <5> QED BY <5>1, <5>2
      <4> QED BY <1>4, <2>2, <2>11, <3>2, <4>1
    <3>3. CASE Len(mQtl') # MaxTasks /\ pIter # NULL
      BY <2>2, <2>12, <3>3
    <3> QED BY <3>1, <3>2, <3>3
  <2>14. IsIdle
    BY <1>1 DEF IterationsInv
  <2> QED
    BY <1>1, <2>2, <2>9, <2>13, <2>14 DEF IterationsInv, IterSlack, TimersFit, InWindow
<1>8. CASE PollTimedDone(list, mIterationsCounter, "beginTimers")
  <2>1. list' = list /\ pc' = "beginTimers"
    BY <1>8 DEF PollTimedDone, Goto
  <2>2. list # << >> => TimeDiff(list[1].at, mIterationsCounter) > 0
    <3> SUFFICES ASSUME list # << >> PROVE TimeDiff(list[1].at, mIterationsCounter) > 0
      OBVIOUS
    <3>1. 1 \in DOMAIN list /\ IsIdle
      BY <1>2, <1>5
    <3>2. CASE pIter = NULL
      <4>1. CASE NoneDue
        BY <3>1, <4>1 DEF NoneDue
      <4>2. CASE Len(mQtl) = MaxTasks
        <5>1. Nodes \subseteq Queued
          BY <3>1, <4>2, FullBatchLeavesNone, SchedAssumption
        <5> QED BY <1>1, <1>3, <3>1, <5>1 DEF OrderInv, QueueInv, NotDueIfQueued
      <4> QED BY <1>4, <3>2, <4>1, <4>2
    <3>3. CASE pIter # NULL
      <4>1. PICK i \in DOMAIN list :
              list[i].node = pIter /\ TimeDiff(list[i].at, mIterationsCounter) > 0
        BY <1>8, <3>3 DEF PollTimedDone
      <4>2. 1 < i => TimeDiff(list[1].at, mIterationsCounter) > 0
        BY <1>4, <3>1, <3>3, <4>1 DEF NoneDueBefore
      <4> QED BY <1>3, <4>1, <4>2
    <3> QED BY <3>2, <3>3
  <2>3. list # << >> => TimeDiff(list[1].at, mIterationsCounter) >= - MaxLag
    <3>1. list # << >> => TimeDiff(list[1].at, mIterationsCounter) \in Int
      BY <1>2, <1>3
    <3> QED BY <2>2, <3>1, LateMeans
  <2>4. TimersFit(list, mIterationsCounter, -1)
    BY <1>2, <2>3, FirstInTime
  <2> QED BY <1>1, <2>1, <2>4 DEF IterationsInv, IterSlack, TimersFit, InWindow
<1> QED BY <1>6, <1>7, <1>8 DEF PollIterations

LEMMA IterationsStep ==
  ASSUME IsIdle => Cardinality(Nodes) <= MaxTasks
  PROVE  OrderInv /\ IterationsInv /\ [Next]_vars => IterationsInv'
<1> SUFFICES ASSUME OrderInv, IterationsInv, [Next]_vars PROVE IterationsInv'
  OBVIOUS
<1> USE DEF lists, times, flags, poller, clients, Goto
<1>0. ASSUME UNCHANGED <<mIterationsBasedList, mIterationsCounter, stamped>>,
             pc' # "iterations", IterSlack' = IterSlack
      PROVE  IterationsInv'
  BY <1>0 DEF IterationsInv, TimersFit, InWindow
<1>1. mIterationsCounter \in Int /\ mIterationsBasedList \in Seq(TimedEntry) /\ IterSlack \in Int
      /\ TimersFit(mIterationsBasedList, mIterationsCounter, IterSlack)
  BY IterationTypes DEF OrderInv, IterationsInv
<1>2. LockFree => pc \notin {"oneShots", "iterations"}
  BY DEF OrderInv, ControlInv, LockFree
<1>3. CASE BeginPoll
  BY <1>3, BeginPollIterations
<1>4. CASE BeginIterations
  BY <1>4, BeginIterationsKeeps
<1>5. CASE PollIterations
  BY <1>5, PollIterationsKeeps
<1>6. CASE CheckRunning \/ TestEnabled \/ ReadEvents \/ ClearEvents \/ RunEvent \/ EventsDone
           \/ EnterPoll \/ CollectOneShot \/ BeginTimers \/ ExitPoll \/ RunTask \/ Decide
           \/ TakeToken \/ WaitTimeout \/ Tick
  <2>1. UNCHANGED <<mIterationsBasedList, mIterationsCounter, stamped>>
    BY <1>6 DEF CheckRunning, TestEnabled, ReadEvents, ClearEvents, RunEvent, EventsDone,
       EnterPoll, CollectOneShot, BeginTimers, ExitPoll, RunTask, Decide, TakeToken,
       WaitTimeout, Tick
  <2>2. CASE ~Tick
    <3>1. pc' # "iterations" /\ IterSlack' = IterSlack
      BY <1>6, <2>2 DEF CheckRunning, TestEnabled, ReadEvents, ClearEvents, RunEvent, EventsDone,
         EnterPoll, CollectOneShot, BeginTimers, ExitPoll, RunTask, Decide, TakeToken,
         WaitTimeout, IterSlack
    <3> QED BY <1>0, <2>1, <3>1
  <2>3. CASE Tick
    <3>1. UNCHANGED <<pc, pIter, mQtl>>
      BY <2>3 DEF Tick
    <3> QED BY <2>1, <3>1 DEF IterationsInv, IterSlack, TimersFit, InWindow, NoneDue, NoneDueBefore
  <2> QED BY <2>2, <2>3
<1>7. CASE PollTimers
  <2>1. UNCHANGED <<mIterationsBasedList, mIterationsCounter, stamped>>
        /\ pc = "timers" /\ pc' \in {"timers", "exit"}
    BY <1>7 DEF PollTimers, PollTimedUnlist, PollTimedRelist, PollTimedDone
  <2> QED BY <1>0, <2>1 DEF IterSlack
<1>8. ASSUME NEW n \in Nodes, Cancel(n) \/ CancelScheduledTask(n) PROVE IterationsInv'
  <2>1. UNCHANGED <<mIterationsCounter, pc, stamped>> /\ LockFree
        /\ mIterationsBasedList' = Unlist(mIterationsBasedList, n)
    BY <1>8 DEF Cancel, CancelScheduledTask, UnlistEverywhere
  <2>2. TimersFit(mIterationsBasedList', mIterationsCounter, IterSlack)
    BY <1>1, <2>1, FitUnlist
  <2>3. ~IsIdle => mIterationsBasedList' = << >>
    BY <2>1, UnlistType, ListTypes DEF IterationsInv, OrderInv
  <2>4. pc' # "iterations" /\ IterSlack' = IterSlack
    BY <1>2, <2>1 DEF IterSlack
  <2> QED BY <2>1, <2>2, <2>3, <2>4, IterationsKept
<1>9. ASSUME NEW s \in stamped, InsertIdlePoller(s) PROVE IterationsInv'
  <2>1. UNCHANGED <<mIterationsCounter, pc>> /\ LockFree /\ s.list = "iteration"
        /\ stamped' = stamped \ {s}
    BY <1>9 DEF InsertIdlePoller
  <2>2. PICK p \in 1 .. (Len(mIterationsBasedList) + 1) :
          /\ IsInsertPosition(mIterationsBasedList, s.entry.at, p)
          /\ mIterationsBasedList' = InsertAt(mIterationsBasedList, p, s.entry)
    BY <1>9 DEF InsertIdlePoller
  <2>3. s.entry \in TimedEntry /\ IsIdle
    BY <2>1, ListTypes DEF OrderInv, IterationsInv
  <2>4. InWindow(s.entry.at, mIterationsCounter)
        /\ TimeDiff(s.entry.at, mIterationsCounter) >= - MaxLag
    BY <2>1 DEF IterationsInv
  <2>5. TimersFit(mIterationsBasedList', mIterationsCounter, IterSlack)
    BY <1>1, <2>2, <2>3, <2>4, FitInsert
  <2>6. pc' # "iterations" /\ IterSlack' = IterSlack
    BY <1>2, <2>1 DEF IterSlack
  <2> QED BY <2>1, <2>3, <2>5, <2>6, IterationsKept
<1>10. ASSUME NEW s \in stamped, InsertTimer(s) PROVE IterationsInv'
  <2>1. UNCHANGED <<mIterationsBasedList, mIterationsCounter, pc>> /\ LockFree
        /\ stamped' \subseteq stamped
    BY <1>10 DEF InsertTimer
  <2>2. pc' # "iterations" /\ IterSlack' = IterSlack
    BY <1>2, <2>1 DEF IterSlack
  <2>3. ~IsIdle => mIterationsBasedList' = << >>
    BY <2>1 DEF IterationsInv
  <2> QED BY <1>1, <2>1, <2>2, <2>3, IterationsKept
<1>11. ASSUME NEW n \in Nodes, NEW k \in Iterations, StampIdlePoller(n, k) PROVE IterationsInv'
  <2> DEFINE at == TimeAdd(mIterationsCounter, k)
  <2>1. /\ UNCHANGED <<mIterationsBasedList, mIterationsCounter, pc, pIter, mQtl>>
        /\ IsIdle
        /\ \A s \in stamped' : s \in stamped \/ s.entry.at = at
    BY <1>11 DEF StampIdlePoller
  <2>2. k \in Nat /\ k + Late < Half
    BY DelayBound DEF Late
  <2>3. TimeDiff(mIterationsCounter, mIterationsCounter) = 0
    BY <1>1, DiffSelf
  <2>4. TimeDiff(at, mIterationsCounter) = k
    BY <1>1, <2>2, <2>3, DiffOfSum, LateMeans
  <2>5. InWindow(at, mIterationsCounter) /\ TimeDiff(at, mIterationsCounter) >= - MaxLag
    BY <2>2, <2>4, LateMeans DEF InWindow
  <2> HIDE DEF at
  <2>6. \A s \in stamped' : s.list = "iteration" =>
          InWindow(s.entry.at, mIterationsCounter)
          /\ TimeDiff(s.entry.at, mIterationsCounter) >= - MaxLag
    BY <2>1, <2>5 DEF IterationsInv
  <2> QED
    BY <2>1, <2>6 DEF IterationsInv, IterSlack, TimersFit, InWindow, NoneDue, NoneDueBefore
<1>12. ASSUME NEW n \in Nodes, NEW period \in Periods, NEW offset \in Offsets,
              StampTimer(n, period, offset)
       PROVE  IterationsInv'
  <2>1. /\ UNCHANGED <<mIterationsBasedList, mIterationsCounter, pc, pIter, mQtl>>
        /\ \A s \in stamped' : s \in stamped \/ s.list = "timer"
    BY <1>12 DEF StampTimer
  <2> QED
    BY <2>1 DEF IterationsInv, IterSlack, TimersFit, InWindow, NoneDue, NoneDueBefore
<1>13. CASE CallerStep /\ ~(\E s \in stamped : InsertTimer(s) \/ InsertIdlePoller(s))
            /\ ~(\E n \in Nodes :
                   \/ Cancel(n) \/ CancelScheduledTask(n)
                   \/ \E period \in Periods, offset \in Offsets : StampTimer(n, period, offset)
                   \/ \E k \in Iterations : StampIdlePoller(n, k))
  <2>1. UNCHANGED <<mIterationsBasedList, mIterationsCounter, pc, pIter, mQtl, stamped>>
    <3>1. CASE Finish
      BY <1>13, <3>1 DEF Finish, TriggerEvent, CtlSignal
    <3>2. CASE Call
      BY <1>13, <3>2 DEF Call, AddOneShot, AddIdlePoller, TestScheduled, LoadMask,
         TriggerEventFromIsr, EnablePrio, DisablePrio, Quit
    <3> QED BY <1>13, <3>1, <3>2 DEF CallerStep
  <2> QED
    BY <2>1 DEF IterationsInv, IterSlack, TimersFit, InWindow, NoneDue, NoneDueBefore
<1>14. CASE UNCHANGED vars
  BY <1>14 DEF vars, IterationsInv, IterSlack, TimersFit, InWindow, NoneDue, NoneDueBefore
<1> QED
  BY <1>3, <1>4, <1>5, <1>6, <1>7, <1>8, <1>9, <1>10, <1>11, <1>12, <1>13, <1>14
     DEF Next, Poller, CallerStep

\* Both timed lists hold each schedulable once and in the order of execution.  The
\* idle pollers' list needs a batch with room for all: one-shot pollers that fill
\* every batch hold up the others until the counter has wrapped around them.
THEOREM ListsKeptInOrder ==
  ASSUME IsIdle => Cardinality(Nodes) <= MaxTasks
  PROVE  Spec => []ListsInOrder
<1>1. Init => IterationsInv
  BY IterationsInit
<1>2. OrderInv /\ IterationsInv /\ [Next]_vars => IterationsInv'
  BY IterationsStep
<1>3. (OrderInv /\ WindowInv) /\ IterationsInv => ListsInOrder
  <2> SUFFICES ASSUME OrderInv, WindowInv, IterationsInv PROVE ListsInOrder
    OBVIOUS
  <2>1. SortedByTime(mTimerBasedList)
    BY TimeTypes, FitSorted DEF OrderInv, WindowInv
  <2>2. SortedByTime(mIterationsBasedList)
    BY IterationTypes, FitSorted DEF OrderInv, IterationsInv
  <2> QED BY <2>1, <2>2, OnceLinked DEF ListsInOrder, TimersSorted
<1> QED BY <1>1, <1>2, <1>3, OrderKept, WindowKept, PTL DEF Spec
=============================================================================
