------------------------------ MODULE TaskSched ------------------------------
(***************************************************************************)
(* One priority of the task scheduler, class TaskSchedPrio of              *)
(* task_sched/task_sched.cpp, with the API calls other threads, callbacks  *)
(* and interrupt handlers make on it.                                      *)
(*                                                                         *)
(* IsIdle = FALSE is a priority that has a thread of its own (PollTask),   *)
(* woken through the semaphore mpWakeyWakeySem (at most one token).        *)
(* IsIdle = TRUE is TS_PRIO_IDLE_TASK: the main loop calls                 *)
(* TaskSchedPollIdle, there is no thread and no semaphore.                 *)
(*                                                                         *)
(* A step is what one thread does between two points where another thread  *)
(* can see its effect.  Code inside OSALEnterTaskCritical is split into    *)
(* steps that hold `lock`: threads cannot enter in between, but an         *)
(* interrupt handler and code that reads without the lock can.             *)
(***************************************************************************)
EXTENDS SchedLists, FiniteSets

CONSTANTS Nodes,       \* TaskSchedulables
          Events,      \* indices of registered event functions (NUM_ISR_EVENTS)
          MaxTasks,    \* MAX_TASKS_PER_EXECUTION
          Periods,     \* periodMs values of TaskSchedAddTimerFn
          Offsets,     \* timeOffsetMs values of TaskSchedAddTimerFn
          Iterations,  \* iterationsBetweenPolls of TaskSchedAddIdlePollerFn
          Calls,       \* the kinds of API calls the clients make
          IsIdle,      \* this is the idle priority
          MaxLag       \* no thread is kept from running for longer than this

ASSUME SchedAssumption ==
  /\ NULL \notin Nodes /\ NULL \notin Times
  /\ Events \subseteq Nat
  /\ MaxTasks \in Nat \ {0}
  /\ Periods \subseteq Nat
  /\ Offsets \subseteq Nat
  /\ Iterations \subseteq Nat \ {0}
  /\ Calls \subseteq {"oneShot", "timer", "idlePoller", "cancel", "event", "isr", "control"}
  /\ IsIdle \in BOOLEAN
  /\ MaxLag \in Nat
  /\ IsFiniteSet(Nodes)
  /\ \A d \in {0} \cup Periods \cup Offsets \cup Iterations :
       MaxLag + Cardinality(Nodes) + 1 + d < TimeMod \div 2

VARIABLES
  clock,                 \* OSALGetMS()
  lock,                  \* holder of the task-critical section
  mOneShotsList, mTimerBasedList, mIterationsBasedList,
  mIterationsCounter, mLastTimerProcessTime, mCurrentTime,
  mInterruptEventsPendingMask,
  mQtl,                  \* the queue of tasks collected for this execution
  sem,                   \* tokens of mpWakeyWakeySem
  mEnabled, mChk,
  pc,                    \* where the polling thread is
  pIter,                 \* the list iterator of DoPoll and PollTimed
  cur,                   \* {the entry PollTimed has unlisted, not yet relisted}
  eventsMask,            \* local mask of DoPollEvents
  wait,                  \* nextWaitTime of PollTask, -1 for no limit
  waitFrom,              \* the clock value `wait` counts from
  stamped,               \* entries of API calls that wait to insert them
  cancelling,            \* nodes TaskSchedCancelScheduledTask is about to unlist
  trig,                  \* {event, loaded mask} of a TaskSchedTriggerEvent
  ctl                    \* what the thread that enables, disables and quits does

lists == <<mOneShotsList, mTimerBasedList, mIterationsBasedList>>
times == <<mIterationsCounter, mLastTimerProcessTime, mCurrentTime>>
poller == <<pc, pIter, cur, eventsMask, wait, waitFrom>>
clients == <<stamped, cancelling, trig, ctl>>
flags == <<mEnabled, mChk>>

vars == <<clock, lock, lists, times, mInterruptEventsPendingMask, mQtl, sem,
          flags, poller, clients>>

OneShotEntry == [node : Nodes, period : {0, 1}]
TimedEntry == [node : Nodes, at : Times, period : Periods \cup Iterations]
StampedEntry == [list : {"timer", "iteration"}, entry : TimedEntry]
QtlElement == [node : Nodes, isPeriodic : BOOLEAN]

NoWait == -1   \* OSAL_WAIT_INFINITE

LockFree == lock = "free"

Linked(n) == n \in NodesOf(mOneShotsList) \cup NodesOf(mTimerBasedList)
                   \cup NodesOf(mIterationsBasedList)

StampedNodes == { s.entry.node : s \in stamped }

\* (variant: a semaphore without a maximum)
Signal_Counts == sem' = sem + 1
\* OSALSemaphoreSignal(sem, 1) on a semaphore made with a maximum of 1
Signal == sem' = 1

\* (variant: a node in front wakes nobody)
SignalIfFront_Never(p) == UNCHANGED sem
\* the API signals a thread's semaphore only when the new node is in front
SignalIfFront(p) == IF p = 1 /\ ~IsIdle THEN Signal ELSE UNCHANGED sem

Init ==
  /\ clock = 0
  /\ lock = "free"
  /\ mOneShotsList = << >> /\ mTimerBasedList = << >> /\ mIterationsBasedList = << >>
  /\ mIterationsCounter = 0 /\ mLastTimerProcessTime = 0 /\ mCurrentTime = 0
  /\ mInterruptEventsPendingMask = {}
  /\ mQtl = << >>
  /\ sem = 0
  /\ mEnabled = TRUE /\ mChk = TRUE
  /\ pc = "check" /\ pIter = NULL /\ cur = {} /\ eventsMask = {}
  /\ wait = NoWait /\ waitFrom = 0
  /\ stamped = {} /\ cancelling = {} /\ trig = {} /\ ctl = "idle"

-----------------------------------------------------------------------------
(* The polling thread: PollTask, DoPollEvents, DoPoll, PollTimed.          *)

Goto(label) == pc' = label

\* while (TASK_SCHED_CHECK == mChk); the idle main loop has no such test
CheckRunning ==
  /\ pc = "check"
  /\ Goto(IF IsIdle THEN "poll" ELSE IF mChk THEN "testEnabled" ELSE "done")
  /\ UNCHANGED <<clock, lock, lists, times, mInterruptEventsPendingMask, mQtl, sem,
                 flags, pIter, cur, eventsMask, wait, waitFrom, clients>>

TestEnabled ==
  /\ pc = "testEnabled"
  /\ Goto(IF mEnabled THEN "readEvents" ELSE "waitDisabled")
  /\ UNCHANGED <<clock, lock, lists, times, mInterruptEventsPendingMask, mQtl, sem,
                 flags, pIter, cur, eventsMask, wait, waitFrom, clients>>

\* DoPollEvents takes the pending mask and then clears it, in a task-critical section
ReadEvents ==
  /\ pc = "readEvents" /\ LockFree
  /\ lock' = "poll"
  /\ eventsMask' = mInterruptEventsPendingMask
  /\ Goto("clearEvents")
  /\ UNCHANGED <<clock, lists, times, mInterruptEventsPendingMask, mQtl, sem, flags,
                 pIter, cur, wait, waitFrom, clients>>

ClearEvents ==
  /\ pc = "clearEvents"
  /\ mInterruptEventsPendingMask' = {}
  /\ lock' = "free"
  /\ Goto("runEvents")
  /\ UNCHANGED <<clock, lists, times, mQtl, sem, flags, pIter, cur, eventsMask, wait,
                 waitFrom, clients>>

\* the callbacks of the events taken, lowest index first
RunEvent ==
  /\ pc = "runEvents" /\ eventsMask # {}
  /\ \E e \in eventsMask :
       /\ \A f \in eventsMask : e <= f
       /\ eventsMask' = eventsMask \ {e}
  /\ UNCHANGED <<clock, lock, lists, times, mInterruptEventsPendingMask, mQtl, sem,
                 flags, pc, pIter, cur, wait, waitFrom, clients>>

EventsDone ==
  /\ pc = "runEvents" /\ eventsMask = {}
  /\ Goto("poll")
  /\ UNCHANGED <<clock, lock, lists, times, mInterruptEventsPendingMask, mQtl, sem,
                 flags, pIter, cur, eventsMask, wait, waitFrom, clients>>

\* DoPoll, up to its critical section.  Only the idle priority reads the
\* iterations counter, so only its model counts.
BeginPoll ==
  /\ pc = "poll"
  /\ \A s \in stamped : s.list = "iteration" =>
       TimeDiff(mIterationsCounter, s.entry.at) < MaxLag
  /\ mCurrentTime' = clock
  /\ mQtl' = << >>
  /\ mIterationsCounter' =
       IF IsIdle THEN TimeAdd(mIterationsCounter, 1) ELSE mIterationsCounter
  /\ Goto("enter")
  /\ UNCHANGED <<clock, lock, lists, mLastTimerProcessTime, mInterruptEventsPendingMask,
                 sem, flags, pIter, cur, eventsMask, wait, waitFrom, clients>>

EnterPoll ==
  /\ pc = "enter" /\ LockFree
  /\ lock' = "poll"
  /\ pIter' = FirstNode(mOneShotsList)
  /\ Goto("oneShots")
  /\ UNCHANGED <<clock, lists, times, mInterruptEventsPendingMask, mQtl, sem, flags,
                 cur, eventsMask, wait, waitFrom, clients>>

\* TaskSchedQueue::push_back drops what does not fit
Collect(e) ==
  mQtl' = IF Len(mQtl) >= MaxTasks THEN mQtl
          ELSE Append(mQtl, [node |-> e.node, isPeriodic |-> e.period # 0])

\* (variant: the loop does not stop when the queue is full)
CollectOneShot_NoBound ==
  /\ pc = "oneShots" /\ pIter # NULL
  /\ \E i \in DOMAIN mOneShotsList :
       LET e == mOneShotsList[i] IN
       /\ e.node = pIter
       /\ mOneShotsList' = IF e.period = 0 THEN RemoveAt(mOneShotsList, i)
                                           ELSE mOneShotsList
       /\ Collect(e)
       /\ pIter' = NodeAfter(mOneShotsList, i)
  /\ UNCHANGED <<clock, lock, mTimerBasedList, mIterationsBasedList, times,
                 mInterruptEventsPendingMask, sem, flags, pc, cur, eventsMask, wait,
                 waitFrom, clients>>

\* one turn of the loop over the one-shots: a real one-shot is unlisted, an
\* every-iteration poller of the idle priority stays
CollectOneShot ==
  /\ pc = "oneShots" /\ pIter # NULL
  /\ \E i \in DOMAIN mOneShotsList :
       LET e == mOneShotsList[i] IN
       /\ e.node = pIter
       /\ mOneShotsList' = IF e.period = 0 THEN RemoveAt(mOneShotsList, i)
                                           ELSE mOneShotsList
       /\ Collect(e)
       /\ pIter' = IF Len(mQtl') = MaxTasks THEN NULL ELSE NodeAfter(mOneShotsList, i)
  /\ UNCHANGED <<clock, lock, mTimerBasedList, mIterationsBasedList, times,
                 mInterruptEventsPendingMask, sem, flags, pc, cur, eventsMask, wait,
                 waitFrom, clients>>

\* the iterations-based list is processed if there is room, by the idle priority
BeginIterations ==
  /\ pc = "oneShots" /\ pIter = NULL
  /\ IF IsIdle /\ Len(mQtl) < MaxTasks /\ mIterationsBasedList # << >>
     THEN Goto("iterations") /\ pIter' = FirstNode(mIterationsBasedList)
     ELSE Goto("beginTimers") /\ UNCHANGED pIter
  /\ UNCHANGED <<clock, lock, lists, times, mInterruptEventsPendingMask, mQtl, sem, flags,
                 cur, eventsMask, wait, waitFrom, clients>>

\* the timer list is processed if there is room, once per millisecond
BeginTimers ==
  /\ pc = "beginTimers"
  /\ IF /\ Len(mQtl) < MaxTasks
        /\ mTimerBasedList # << >>
        /\ mLastTimerProcessTime # mCurrentTime
     THEN /\ mLastTimerProcessTime' = mCurrentTime
          /\ pIter' = FirstNode(mTimerBasedList)
          /\ Goto("timers")
     ELSE /\ pIter' = NULL
          /\ Goto("exit")
          /\ UNCHANGED mLastTimerProcessTime
  /\ UNCHANGED <<clock, lock, lists, mIterationsCounter, mCurrentTime,
                 mInterruptEventsPendingMask, mQtl, sem, flags, cur, eventsMask, wait,
                 waitFrom, clients>>

\* (variant: a due node is queued without being taken off the list)
PollTimedUnlist_KeepsLinked(list, compareTimer) ==
  /\ pIter # NULL /\ cur = {}
  /\ \E i \in DOMAIN list :
       /\ list[i].node = pIter
       /\ TimeDiff(list[i].at, compareTimer) <= 0
       /\ cur' = {list[i]}
       /\ pIter' = NodeAfter(list, i)
  /\ UNCHANGED <<clock, lock, lists, times, mInterruptEventsPendingMask, mQtl, sem, flags,
                 pc, eventsMask, wait, waitFrom, clients>>

\* PollTimed on `list`, against the time `compareTimer`
PollTimedUnlist(list, compareTimer) ==
  /\ pIter # NULL /\ cur = {}
  /\ \E i \in DOMAIN list :
       /\ list[i].node = pIter
       /\ TimeDiff(list[i].at, compareTimer) <= 0
       /\ list' = RemoveAt(list, i)
       /\ cur' = {list[i]}
       /\ pIter' = NodeAfter(list, i)
  /\ UNCHANGED <<clock, lock, mOneShotsList, times, mInterruptEventsPendingMask, mQtl,
                 sem, flags, pc, eventsMask, wait, waitFrom, clients>>

\* (variant: an overrun of more than a period is not detected)
NextExecution_NoOverrun(e, compareTimer) ==
  TimeAdd(compareTimer, e.period + TimeDiff(e.at, compareTimer))

\* "Ensure we always schedule in the future", compensating for latency
NextExecution(e, compareTimer) ==
  LET timeDiff == TimeDiff(e.at, compareTimer) IN
  IF -timeDiff >= e.period THEN TimeAdd(compareTimer, 1)
  ELSE TimeAdd(compareTimer, e.period + timeDiff)

PollTimedRelist(list, compareTimer) ==
  /\ \E e \in cur :
       /\ IF e.period = 0 THEN UNCHANGED list
          ELSE LET again == [e EXCEPT !.at = NextExecution(e, compareTimer)] IN
               \E p \in 1 .. (Len(list) + 1) :
                 /\ IsInsertPosition(list, again.at, p)
                 /\ list' = InsertAt(list, p, again)
       /\ Collect(e)
  /\ cur' = {}
  /\ pIter' = IF Len(mQtl') = MaxTasks THEN NULL ELSE pIter
  /\ UNCHANGED <<clock, lock, mOneShotsList, times, mInterruptEventsPendingMask, sem,
                 flags, pc, eventsMask, wait, waitFrom, clients>>

PollTimedDone(list, compareTimer, label) ==
  /\ cur = {}
  /\ \/ pIter = NULL
     \/ \E i \in DOMAIN list :
          list[i].node = pIter /\ TimeDiff(list[i].at, compareTimer) > 0
  /\ pIter' = NULL
  /\ Goto(label)
  /\ UNCHANGED <<clock, lock, lists, times, mInterruptEventsPendingMask, mQtl, sem, flags,
                 cur, eventsMask, wait, waitFrom, clients>>

PollIterations ==
  /\ pc = "iterations"
  /\ \/ /\ PollTimedUnlist(mIterationsBasedList, mIterationsCounter)
        /\ UNCHANGED mTimerBasedList
     \/ /\ PollTimedRelist(mIterationsBasedList, mIterationsCounter)
        /\ UNCHANGED mTimerBasedList
     \/ PollTimedDone(mIterationsBasedList, mIterationsCounter, "beginTimers")

PollTimers ==
  /\ pc = "timers"
  /\ \/ /\ PollTimedUnlist(mTimerBasedList, mCurrentTime)
        /\ UNCHANGED mIterationsBasedList
     \/ /\ PollTimedRelist(mTimerBasedList, mCurrentTime)
        /\ UNCHANGED mIterationsBasedList
     \/ PollTimedDone(mTimerBasedList, mCurrentTime, "exit")

ExitPoll ==
  /\ pc = "exit"
  /\ lock' = "free"
  /\ mCurrentTime' = 0   \* not read again in this pass
  /\ Goto("run")
  /\ UNCHANGED <<clock, lists, mIterationsCounter, mLastTimerProcessTime, mInterruptEventsPendingMask, mQtl, sem, flags,
                 pIter, cur, eventsMask, wait, waitFrom, clients>>

\* call the next collected function.  What the callback itself does to the
\* scheduler are API steps taken while pc = "run".
RunTask ==
  /\ pc = "run" /\ mQtl # << >>
  /\ mQtl' = Tail(mQtl)
  /\ UNCHANGED <<clock, lock, lists, times, mInterruptEventsPendingMask, sem, flags,
                 poller, clients>>

\* (variant: timers are forgotten)
TimeToNextRun_NoTimers == IF mOneShotsList # << >> THEN 0 ELSE NoWait

\* the time to the next execution, computed in the last critical section of DoPoll
TimeToNextRun ==
  IF mOneShotsList # << >> \/ mIterationsBasedList # << >> THEN 0
  ELSE IF mTimerBasedList = << >> THEN NoWait
  ELSE LET t == TimeDiff(mTimerBasedList[1].at, clock) IN IF t > 0 THEN t ELSE 0

Decide ==
  /\ pc = "run" /\ mQtl = << >> /\ LockFree
  /\ IF IsIdle THEN Goto("check") /\ UNCHANGED <<wait, waitFrom>>
     ELSE /\ wait' = TimeToNextRun
          /\ waitFrom' = clock
          /\ Goto("wait")
  /\ UNCHANGED <<clock, lock, lists, times, mInterruptEventsPendingMask, mQtl, sem, flags,
                 pIter, cur, eventsMask, clients>>

\* OSALSemaphoreWait: a token ends the wait at once.  The model starts to count
\* the timeout at the clock value the wait was computed from; the delay up to the
\* call is part of the delay after it.
TakeToken ==
  /\ pc \in {"wait", "waitDisabled"} /\ sem = 1
  /\ sem' = 0
  /\ wait' = NoWait /\ waitFrom' = 0
  /\ Goto("check")
  /\ UNCHANGED <<clock, lock, lists, times, mInterruptEventsPendingMask, mQtl, flags,
                 pIter, cur, eventsMask, clients>>

WaitTimeout ==
  /\ pc = "wait" /\ wait # NoWait
  /\ TimeDiff(clock, waitFrom) >= wait
  /\ wait' = NoWait /\ waitFrom' = 0
  /\ Goto("check")
  /\ UNCHANGED <<clock, lock, lists, times, mInterruptEventsPendingMask, mQtl, sem, flags,
                 pIter, cur, eventsMask, clients>>

Poller ==
  \/ CheckRunning \/ TestEnabled
  \/ ReadEvents \/ ClearEvents \/ RunEvent \/ EventsDone
  \/ BeginPoll \/ EnterPoll \/ CollectOneShot \/ BeginIterations \/ PollIterations
  \/ BeginTimers \/ PollTimers \/ ExitPoll \/ RunTask \/ Decide
  \/ TakeToken \/ WaitTimeout

-----------------------------------------------------------------------------
(* The API, called from any thread unless its comment in task_sched.h says  *)
(* otherwise.                                                               *)

\* a node its owner may pass to an add function: in no list and in no other call
MayAdd(n) ==
  /\ ~Linked(n)
  /\ \A e \in cur : e.node # n
  /\ n \notin StampedNodes /\ n \notin cancelling

\* (variant: one-shots are pushed in front)
AddOneShot_PushFront(n) ==
  /\ MayAdd(n) /\ LockFree
  /\ mOneShotsList' = << [node |-> n, period |-> 0] >> \o mOneShotsList
  /\ SignalIfFront(1)
  /\ UNCHANGED <<clock, lock, mTimerBasedList, mIterationsBasedList, times,
                 mInterruptEventsPendingMask, mQtl, flags, poller, clients>>

\* TaskSchedAddTimerFn with neither period nor offset
AddOneShot(n) ==
  /\ MayAdd(n) /\ LockFree
  /\ mOneShotsList' = Append(mOneShotsList, [node |-> n, period |-> 0])
  /\ SignalIfFront(Len(mOneShotsList'))
  /\ UNCHANGED <<clock, lock, mTimerBasedList, mIterationsBasedList, times,
                 mInterruptEventsPendingMask, mQtl, flags, poller, clients>>

\* TaskSchedAddTimerFn with a period or an offset reads the clock before it locks
StampTimer(n, period, offset) ==
  /\ MayAdd(n)
  /\ period # 0 \/ offset # 0
  /\ stamped' = stamped \cup {[list |-> "timer", entry |->
                   [node |-> n, at |-> TimeAdd(clock, offset), period |-> period]]}
  /\ UNCHANGED <<clock, lock, lists, times, mInterruptEventsPendingMask, mQtl, sem,
                 flags, poller, cancelling, trig, ctl>>

\* (variant: the thread is woken for the first timer, not for an earlier one)
InsertTimer_SignalsFirst(s) ==
  /\ s.list = "timer" /\ LockFree
  /\ \E p \in 1 .. (Len(mTimerBasedList) + 1) :
       /\ IsInsertPosition(mTimerBasedList, s.entry.at, p)
       /\ mTimerBasedList' = InsertAt(mTimerBasedList, p, s.entry)
       /\ SignalIfFront(Len(mTimerBasedList'))
  /\ stamped' = stamped \ {s}
  /\ UNCHANGED <<clock, lock, mOneShotsList, mIterationsBasedList, times,
                 mInterruptEventsPendingMask, mQtl, flags, poller, cancelling, trig, ctl>>

InsertTimer(s) ==
  /\ s.list = "timer" /\ LockFree
  /\ \E p \in 1 .. (Len(mTimerBasedList) + 1) :
       /\ IsInsertPosition(mTimerBasedList, s.entry.at, p)
       /\ mTimerBasedList' = InsertAt(mTimerBasedList, p, s.entry)
       /\ SignalIfFront(p)
  /\ stamped' = stamped \ {s}
  /\ UNCHANGED <<clock, lock, mOneShotsList, mIterationsBasedList, times,
                 mInterruptEventsPendingMask, mQtl, flags, poller, cancelling, trig, ctl>>

\* TaskSchedAddIdlePollerFn: every iteration, on the one-shots list
AddIdlePoller(n) ==
  /\ IsIdle /\ MayAdd(n) /\ LockFree
  /\ mOneShotsList' = Append(mOneShotsList, [node |-> n, period |-> 1])
  /\ UNCHANGED <<clock, lock, mTimerBasedList, mIterationsBasedList, times,
                 mInterruptEventsPendingMask, mQtl, sem, flags, poller, clients>>

\* or every few iterations; the counter is read before the lock is taken
StampIdlePoller(n, iterations) ==
  /\ IsIdle /\ MayAdd(n) /\ iterations > 1
  /\ stamped' = stamped \cup {[list |-> "iteration", entry |->
                   [node |-> n, at |-> TimeAdd(mIterationsCounter, iterations),
                    period |-> iterations]]}
  /\ UNCHANGED <<clock, lock, lists, times, mInterruptEventsPendingMask, mQtl, sem,
                 flags, poller, cancelling, trig, ctl>>

InsertIdlePoller(s) ==
  /\ s.list = "iteration" /\ LockFree
  /\ \E p \in 1 .. (Len(mIterationsBasedList) + 1) :
       /\ IsInsertPosition(mIterationsBasedList, s.entry.at, p)
       /\ mIterationsBasedList' = InsertAt(mIterationsBasedList, p, s.entry)
  /\ stamped' = stamped \ {s}
  /\ UNCHANGED <<clock, lock, mOneShotsList, mTimerBasedList, times,
                 mInterruptEventsPendingMask, mQtl, sem, flags, poller, cancelling, trig,
                 ctl>>

UnlistEverywhere(n) ==
  /\ mOneShotsList' = Unlist(mOneShotsList, n)
  /\ mTimerBasedList' = Unlist(mTimerBasedList, n)
  /\ mIterationsBasedList' = Unlist(mIterationsBasedList, n)

\* TaskSchedCancel, "from the same context as the schedulable executes in": a
\* callback of this priority
Cancel(n) ==
  /\ pc \in {"run", "runEvents"} /\ LockFree
  /\ Linked(n)
  /\ UnlistEverywhere(n)
  /\ UNCHANGED <<clock, lock, times, mInterruptEventsPendingMask, mQtl, sem, flags,
                 poller, clients>>

\* TaskSchedCancelScheduledTask looks at the node before it takes the lock
TestScheduled(n) ==
  /\ Linked(n) /\ n \notin cancelling
  /\ cancelling' = cancelling \cup {n}
  /\ UNCHANGED <<clock, lock, lists, times, mInterruptEventsPendingMask, mQtl, sem, flags,
                 poller, stamped, trig, ctl>>

CancelScheduledTask(n) ==
  /\ n \in cancelling /\ LockFree
  /\ UnlistEverywhere(n)
  /\ cancelling' = cancelling \ {n}
  /\ UNCHANGED <<clock, lock, times, mInterruptEventsPendingMask, mQtl, sem, flags,
                 poller, stamped, trig, ctl>>

\* (variant: the mask is read outside the critical section)
LoadMask_NoLock(e) ==
  /\ trig = {}
  /\ trig' = {[event |-> e, mask |-> mInterruptEventsPendingMask]}
  /\ UNCHANGED <<clock, lock, lists, times, mInterruptEventsPendingMask, mQtl, sem, flags,
                 poller, stamped, cancelling, ctl>>

\* TaskSchedTriggerEvent sets a bit of the mask: a load and, with the lock still
\* held, a store.  The idle priority has no semaphore to signal.
LoadMask(e) ==
  /\ LockFree
  /\ lock' = "trig"
  /\ trig' = {[event |-> e, mask |-> mInterruptEventsPendingMask]}
  /\ UNCHANGED <<clock, lists, times, mInterruptEventsPendingMask, mQtl, sem, flags,
                 poller, stamped, cancelling, ctl>>

\* (variant: the event waits for the thread's next turn)
TriggerEvent_NoSignal ==
  /\ \E t \in trig : mInterruptEventsPendingMask' = t.mask \cup {t.event}
  /\ lock' = "free"
  /\ trig' = {}
  /\ UNCHANGED <<clock, lists, times, mQtl, sem, flags, poller, stamped, cancelling, ctl>>

TriggerEvent ==
  /\ \E t \in trig : mInterruptEventsPendingMask' = t.mask \cup {t.event}
  /\ IF IsIdle THEN UNCHANGED sem ELSE Signal
  /\ lock' = "free"
  /\ trig' = {}
  /\ UNCHANGED <<clock, lists, times, mQtl, flags, poller, stamped, cancelling, ctl>>

\* TaskSchedTriggerEventFromIsr runs to its end before any thread goes on, and
\* takes no lock
TriggerEventFromIsr(e) ==
  /\ mInterruptEventsPendingMask' = mInterruptEventsPendingMask \cup {e}
  /\ IF IsIdle THEN UNCHANGED sem ELSE Signal
  /\ UNCHANGED <<clock, lock, lists, times, mQtl, flags, poller, clients>>

\* TaskSchedEnablePrio, TaskSchedDisablePrio and TaskSchedQuit, by one thread: the
\* flag first, then the token.  None of them takes the lock.
EnablePrio ==
  /\ ~IsIdle /\ ctl = "idle" /\ mChk
  /\ mEnabled' = TRUE
  /\ ctl' = "signal"
  /\ UNCHANGED <<clock, lock, lists, times, mInterruptEventsPendingMask, mQtl, sem, mChk,
                 poller, stamped, cancelling, trig>>

DisablePrio ==
  /\ ~IsIdle /\ ctl = "idle" /\ mChk
  /\ mEnabled' = FALSE
  /\ UNCHANGED <<clock, lock, lists, times, mInterruptEventsPendingMask, mQtl, sem, mChk,
                 poller, clients>>

\* (variant: the flag is cleared and nobody is woken)
Quit_NoSignal ==
  /\ ~IsIdle /\ ctl = "idle" /\ mChk
  /\ mChk' = FALSE
  /\ UNCHANGED <<clock, lock, lists, times, mInterruptEventsPendingMask, mQtl, sem,
                 mEnabled, poller, clients>>

Quit ==
  /\ ~IsIdle /\ ctl = "idle" /\ mChk
  /\ mChk' = FALSE
  /\ ctl' = "signal"
  /\ UNCHANGED <<clock, lock, lists, times, mInterruptEventsPendingMask, mQtl, sem,
                 mEnabled, poller, stamped, cancelling, trig>>

CtlSignal ==
  /\ ctl = "signal"
  /\ Signal
  /\ ctl' = "idle"
  /\ UNCHANGED <<clock, lock, lists, times, mInterruptEventsPendingMask, mQtl, flags,
                 poller, stamped, cancelling, trig>>

Finish == \/ \E s \in stamped : InsertTimer(s) \/ InsertIdlePoller(s)
          \/ \E n \in Nodes : CancelScheduledTask(n)
          \/ TriggerEvent
          \/ CtlSignal

Call ==
  \/ \E n \in Nodes :
       \/ "oneShot" \in Calls /\ AddOneShot(n)
       \/ "timer" \in Calls /\ \E period \in Periods, offset \in Offsets :
                                 StampTimer(n, period, offset)
       \/ "idlePoller" \in Calls /\ \/ AddIdlePoller(n)
                                     \/ \E k \in Iterations : StampIdlePoller(n, k)
       \/ "cancel" \in Calls /\ (Cancel(n) \/ TestScheduled(n))
  \/ \E e \in Events :
       \/ "event" \in Calls /\ LoadMask(e)
       \/ "isr" \in Calls /\ TriggerEventFromIsr(e)
  \/ "control" \in Calls /\ (EnablePrio \/ DisablePrio \/ Quit)

-----------------------------------------------------------------------------
\* Between reading the clock and the end of the pass over the lists.
InPoll == pc \in {"enter", "oneShots", "iterations", "beginTimers", "timers"}

\* The clock values threads still work with, apart from the timers that are listed.
TimesInUse ==
  { e.at : e \in IF pc = "timers" THEN cur ELSE {} }
    \cup { s.entry.at : s \in { t \in stamped : t.list = "timer" } }
    \cup (IF InPoll THEN {mCurrentTime} ELSE {})
    \cup (IF wait # NoWait THEN {TimeAdd(waitFrom, wait)} ELSE {})

\* A millisecond passes.  Signed differences are meaningful as long as nothing is
\* left behind for half the clock's range (24.8 days).  MaxLag bounds how late a
\* thread is; a timer that did not fit into this millisecond's batch is later than
\* that, by the batches it waits for.  Of mLastTimerProcessTime only the equality
\* with the current millisecond matters, so an older value becomes NULL.
Tick ==
  /\ \A t \in TimesInUse : TimeDiff(clock, t) < MaxLag
  /\ \/ mLastTimerProcessTime = clock
     \/ \A i \in DOMAIN mTimerBasedList : TimeDiff(clock, mTimerBasedList[i].at) < MaxLag
  /\ clock' = TimeAdd(clock, 1)
  /\ mLastTimerProcessTime' =
       IF InPoll /\ mLastTimerProcessTime = mCurrentTime THEN mCurrentTime ELSE NULL
  /\ UNCHANGED <<lock, lists, mIterationsCounter, mCurrentTime, mInterruptEventsPendingMask, mQtl, sem, flags,
                 poller, clients>>

Next == Poller \/ Finish \/ Call \/ Tick

Spec == Init /\ [][Next]_vars

\* The polling thread runs when it can.  It competes for the critical section with
\* every other thread, so its steps are enabled again and again rather than all the
\* time: the mutex has to let a waiting thread in.  A thread that holds the critical
\* section, or is between a flag and its signal, goes on; and time passes.
Fairness ==
  /\ SF_vars(Poller)
  /\ WF_vars(TriggerEvent) /\ WF_vars(CtlSignal)
  /\ \A n \in Nodes : SF_vars(\E s \in stamped : s.entry.node = n /\ InsertTimer(s))
  /\ WF_vars(Tick)

FairSpec == Spec /\ Fairness

-----------------------------------------------------------------------------
(* Properties.                                                              *)

TypeOK ==
  /\ clock \in Times /\ mCurrentTime \in Times
  /\ mLastTimerProcessTime \in Times \cup {NULL} /\ mIterationsCounter \in Times
  /\ lock \in {"free", "poll", "trig", "resched"}   \* the last is TaskRescheduler's
  /\ mOneShotsList \in Seq(OneShotEntry)
  /\ mTimerBasedList \in Seq(TimedEntry)
  /\ mIterationsBasedList \in Seq(TimedEntry)
  /\ mInterruptEventsPendingMask \in SUBSET Events
  /\ mQtl \in Seq(QtlElement)
  /\ sem \in {0, 1}
  /\ mEnabled \in BOOLEAN /\ mChk \in BOOLEAN
  /\ pc \in {"check", "testEnabled", "readEvents", "clearEvents", "runEvents", "poll",
             "enter", "oneShots", "iterations", "beginTimers", "timers", "exit", "run",
             "wait", "waitDisabled", "done"}
  /\ pIter \in Nodes \cup {NULL}
  /\ cur \in SUBSET TimedEntry
  /\ eventsMask \in SUBSET Events
  /\ wait \in Int /\ waitFrom \in Times
  /\ stamped \in SUBSET StampedEntry
  /\ cancelling \in SUBSET Nodes
  /\ trig \in SUBSET [event : Events, mask : SUBSET Events]
  /\ ctl \in {"idle", "signal"}

\* The polling thread is blocked in OSALSemaphoreWait and no token is on its way.
Blocked == pc \in {"wait", "waitDisabled"} /\ sem = 0 /\ ctl = "idle" /\ lock = "free"

\* No wakeup is lost: while the thread of an enabled priority is blocked, no event is
\* pending, no one-shot is listed, and if a timer is listed the wait has a limit; and
\* a thread told to quit is not blocked.  (The semaphore is signalled only for a node
\* that lands in front, and Enable, Disable and Quit take no lock.)
NoLostWakeup ==
  Blocked =>
    /\ mChk
    /\ mEnabled => /\ pc = "wait"
                   /\ mInterruptEventsPendingMask = {}
                   /\ wait # 0 => mOneShotsList = << >>
                   /\ mTimerBasedList # << >> => wait # NoWait

\* Why no wakeup is lost, as an inductive invariant: each condition the thread tests
\* before it waits stays as it was tested, or a token is left, up to the wait's end.
AfterEvents == {"runEvents", "poll", "enter", "oneShots", "iterations", "beginTimers",
                "timers", "exit", "run", "wait"}

IdleHasNoThread ==
  IsIdle => mChk /\ pc \in (AfterEvents \ {"runEvents", "wait"}) \cup {"check"}
QuitLeavesToken == ~mChk /\ ctl = "idle" /\ sem = 0 => pc \in {"check", "done"}
EnableLeavesToken == pc = "waitDisabled" /\ ctl = "idle" /\ sem = 0 => ~mEnabled
EventLeavesToken ==
  ~IsIdle /\ pc \in AfterEvents /\ sem = 0 => mInterruptEventsPendingMask = {}
OneShotLeavesToken == pc = "wait" /\ sem = 0 /\ wait # 0 => mOneShotsList = << >>
TimerLeavesToken == pc = "wait" /\ sem = 0 /\ wait = NoWait => mTimerBasedList = << >>

WakeInv ==
  /\ IdleHasNoThread
  /\ QuitLeavesToken /\ EnableLeavesToken
  /\ EventLeavesToken /\ OneShotLeavesToken /\ TimerLeavesToken

\* The thread sleeps no longer than until its earliest timer: a timer that was put in
\* before the one the wait was computed for has left a token.
EarliestTimerCovered ==
  Blocked /\ pc = "wait" /\ wait # 0 =>
    \A i \in DOMAIN mTimerBasedList :
      wait # NoWait /\ TimeDiff(mTimerBasedList[i].at, TimeAdd(waitFrom, wait)) >= 0

\* A schedulable is linked at most once over all lists (its one DLLNode), and is
\* queued at most once for a batch although PollTimed puts periodic ones back into
\* the list it walks.
LinkedOnce ==
  LET count(list, n) == Cardinality({ i \in DOMAIN list : list[i].node = n }) IN
  \A n \in Nodes :
    /\ count(mOneShotsList, n) + count(mTimerBasedList, n)
         + count(mIterationsBasedList, n) <= 1
    /\ count(mQtl, n) <= 1

\* Timers stay in the order of their next execution, across wraps of the clock and
\* although the time of an added timer is computed before the list is locked.
TimersSorted == SortedByTime(mTimerBasedList) /\ SortedByTime(mIterationsBasedList)

\* The lists hold each schedulable once, and in order, whatever PollTimed, the callers
\* and the cancelling callbacks do to them in between.
ListsInOrder == LinkedOnce /\ TimersSorted

\* Executions a non-periodic schedulable still has to come.
Owed(n) ==
  Cardinality({ i \in DOMAIN mOneShotsList :
                  mOneShotsList[i].node = n /\ mOneShotsList[i].period = 0 })
  + Cardinality({ i \in DOMAIN mTimerBasedList :
                  mTimerBasedList[i].node = n /\ mTimerBasedList[i].period = 0 })
  + Cardinality({ e \in cur : e.node = n /\ e.period = 0 })
  + Cardinality({ i \in DOMAIN mQtl : mQtl[i].node = n /\ ~mQtl[i].isPeriodic })

\* DoPoll neither loses nor repeats an execution while it moves schedulables from the
\* lists to its queue, even when the queue is full.
CollectKeepsExecutions ==
  [][lock = "poll" => \A n \in Nodes : Owed(n)' = Owed(n)]_vars

\* A periodic timer that is put back is due strictly later than the pass that ran it,
\* and is back in its list when the pass ends.
PeriodicStaysScheduled ==
  [][\A e \in cur : e.period # 0 =>
       \/ cur' = cur
       \/ \E i \in DOMAIN mTimerBasedList' :
             /\ mTimerBasedList'[i].node = e.node
             /\ TimeDiff(mTimerBasedList'[i].at, mCurrentTime) > 0
       \/ \E i \in DOMAIN mIterationsBasedList' :
             /\ mIterationsBasedList'[i].node = e.node
             /\ TimeDiff(mIterationsBasedList'[i].at, mIterationsCounter) > 0]_vars

\* An event that was triggered stays in the pending mask or the thread's local mask
\* until its callback has been called.
NoEventLost ==
  [][\A e \in Events :
       /\ e \in mInterruptEventsPendingMask \cup eventsMask
       /\ e \notin (mInterruptEventsPendingMask \cup eventsMask)'
       => pc = "runEvents" /\ eventsMask \ eventsMask' = {e}]_vars

Serving == mEnabled /\ mChk

\* Every triggered event is taken up, as long as its priority is enabled: again and
\* again it is not pending.  (P ~> ~P, written without the implication.)
EventRuns ==
  \A e \in Events : []<>(Serving => e \notin mInterruptEventsPendingMask)

\* Every one-shot leaves its list for a batch ("Remaining tasks will be run next
\* time"), however many others keep coming.
OneShotRuns ==
  \A n \in Nodes : []<>(Serving => n \notin NodesOf(mOneShotsList))

\* Every timer is collected, or cancelled, unless one-shots fill every batch for ever:
\* batches are collected again and again, and from some point on every one of them is
\* already full when the thread comes to the timers.
TimerCollected(n) ==
  \/ n \notin NodesOf(mTimerBasedList)
  \/ n \in NodesOf(mQtl)
OneShotsFillEveryBatch ==
  /\ []<>(pc = "beginTimers")
  /\ <>[](pc = "beginTimers" => Len(mQtl) = MaxTasks)
TimerRuns ==
  \/ OneShotsFillEveryBatch
  \/ \A n \in Nodes : []<>(Serving => TimerCollected(n))

\* After TaskSchedQuit, which nothing undoes, the polling thread ends.
QuitStops == []<>(mChk \/ pc = "done")

\* Nobody who asked for something waits for ever: events, one-shots and timers are all
\* taken up, although they share one bounded batch, and a thread told to quit ends.
AllServed == EventRuns /\ OneShotRuns /\ TimerRuns /\ QuitStops

\* Every function the idle priority is asked to poll is polled again and again.
IdlePollerRuns ==
  \A n \in Nodes :
    n \in NodesOf(mOneShotsList) ~> n \notin NodesOf(mOneShotsList) \/ n \in NodesOf(mQtl)
=============================================================================
