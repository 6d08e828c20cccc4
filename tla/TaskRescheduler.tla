--------------------------- MODULE TaskRescheduler ---------------------------
(***************************************************************************)
(* task_sched/task_rescheduler.cpp over one priority of the scheduler: a   *)
(* TaskRescheduler owns the schedulable Self and keeps it scheduled at     *)
(* most once, while any thread reschedules, cancels, disables, enables or  *)
(* destroys it and the polling thread takes it from the lists, through the *)
(* queue of a batch, into OnSchedCallback.                                 *)
(*                                                                         *)
(* Every method holds the task-critical section from beginning to end, so  *)
(* it is one step; its two readings of the clock are taken to fall into    *)
(* one millisecond.  The callback is split where the unlocked writes of    *)
(* the destructor can interfere: flags is one word of bit-fields, which    *)
(* the destructor loads and stores without the lock.                       *)
(***************************************************************************)
EXTENDS TaskSched

CONSTANTS Self,        \* mCObj.sched
          Delays,      \* delays passed to doReschedule and forceReschedule
          CanDestroy   \* the rescheduler may be destroyed

ASSUME ReschedAssumption ==
  /\ Self \in Nodes
  /\ Delays \subseteq Nat
  /\ CanDestroy \in BOOLEAN
  /\ ~IsIdle
  /\ 0 \in Periods           \* what the rescheduler's timers are added with
  /\ "oneShot" \in Calls     \* what the other schedulables do
  /\ \A d \in Delays : MaxLag + Cardinality(Nodes) + d < TimeMod \div 2

VARIABLES
  rflags,              \* the bit-fields mIsEnabled, mIsScheduled, mLocks
  mNextExec,
  cb,                  \* where the polling thread is in OnSchedCallback
  dtor,                \* where the destructor is
  word,                \* {the flags the destructor has loaded}
  undone               \* history: storing them unscheduled a task scheduled meanwhile

rvars == <<rflags, mNextExec, cb, dtor, word, undone>>
allVars == <<vars, rvars>>

FlagsT == [mIsEnabled : BOOLEAN, mIsScheduled : BOOLEAN, mLocks : 0 .. 15]

AddLocks(k) == [rflags EXCEPT !.mLocks = (@ + k) % 16]

NextExec(delay) == TimeAdd(clock, delay)

ReschedInit ==
  /\ Init
  /\ rflags = [mIsEnabled |-> TRUE, mIsScheduled |-> FALSE, mLocks |-> 0]
  /\ mNextExec = 0
  /\ cb = "none" /\ dtor = "alive" /\ word = {}
  /\ undone = FALSE

-----------------------------------------------------------------------------
(* The methods.                                                             *)

\* Nobody calls a method of an object whose destruction has begun, but the function its
\* callback is running, which OnSchedCallback calls outside of the lock: until the
\* destructor has returned.
MayCall ==
  /\ LockFree
  /\ dtor = "alive" \/ (dtor # "dead" /\ cb = "call")

\* TaskSchedAddTimerFn(prio, &mCObj.sched, 0, delay), into lists from which the node
\* has been taken
AddTimer(oneShots, timers, delay) ==
  IF delay = 0
  THEN /\ mOneShotsList' = Append(oneShots, [node |-> Self, period |-> 0])
       /\ mTimerBasedList' = timers
       /\ SignalIfFront(Len(mOneShotsList'))
  ELSE \E p \in 1 .. (Len(timers) + 1) :
         LET at == TimeAdd(clock, delay) IN
         /\ IsInsertPosition(timers, at, p)
         /\ mTimerBasedList' =
              InsertAt(timers, p, [node |-> Self, at |-> at, period |-> 0])
         /\ mOneShotsList' = oneShots
         /\ SignalIfFront(p)

\* TaskSchedCancelScheduledTask(&mCObj.sched) first, then TaskSchedAddTimerFn
Reschedule(delay) ==
  /\ AddTimer(Unlist(mOneShotsList, Self), Unlist(mTimerBasedList, Self), delay)
  /\ mNextExec' = NextExec(delay)
  /\ rflags' = [rflags EXCEPT !.mIsScheduled = TRUE]
  /\ UNCHANGED <<clock, lock, mIterationsBasedList, times, mInterruptEventsPendingMask,
                 mQtl, flags, poller, clients, cb, dtor, word, undone>>

\* (variant: times compared as plain numbers)
Earlier_Unsigned(delay) == NextExec(delay) < mNextExec

Earlier(delay) == TimeDiff(NextExec(delay), mNextExec) < 0

\* doReschedule: unless it is scheduled, or when it was scheduled for a later time.
\* Called on a disabled task, or for a later time, it does nothing; its assertions stop
\* the program if a task that counts as unscheduled is listed.
DoReschedule(delay) ==
  /\ MayCall /\ rflags.mIsEnabled
  /\ \/ /\ ~rflags.mIsScheduled /\ ~Linked(Self)
        /\ AddTimer(mOneShotsList, mTimerBasedList, delay)
        /\ mNextExec' = NextExec(delay)
        /\ rflags' = [rflags EXCEPT !.mIsScheduled = TRUE]
        /\ UNCHANGED <<clock, lock, mIterationsBasedList, times,
                       mInterruptEventsPendingMask, mQtl, flags, poller, clients, cb, dtor,
                       word, undone>>
     \/ /\ rflags.mIsScheduled /\ Earlier(delay)
        /\ Reschedule(delay)

ForceReschedule(delay) ==
  /\ MayCall /\ rflags.mIsEnabled
  /\ Reschedule(delay)

\* the node is taken out of its list only if the task counts as scheduled
CancelIfScheduled ==
  IF rflags.mIsScheduled THEN UnlistEverywhere(Self) ELSE UNCHANGED lists

\* (variant: the flag survives)
DisableTask_KeepsScheduled ==
  /\ MayCall
  /\ rflags' = [rflags EXCEPT !.mIsEnabled = FALSE]
  /\ CancelIfScheduled
  /\ UNCHANGED <<clock, lock, times, mInterruptEventsPendingMask, mQtl, sem, flags, poller,
                 clients, mNextExec, cb, dtor, word, undone>>

DisableTask ==
  /\ MayCall
  /\ rflags' = [rflags EXCEPT !.mIsEnabled = FALSE, !.mIsScheduled = FALSE]
  /\ CancelIfScheduled
  /\ UNCHANGED <<clock, lock, times, mInterruptEventsPendingMask, mQtl, sem, flags, poller,
                 clients, mNextExec, cb, dtor, word, undone>>

EnableTask ==
  /\ MayCall
  /\ rflags' = [rflags EXCEPT !.mIsEnabled = TRUE]
  /\ UNCHANGED <<vars, mNextExec, cb, dtor, word, undone>>

CancelTask ==
  /\ MayCall
  /\ rflags' = [rflags EXCEPT !.mIsScheduled = FALSE]
  /\ CancelIfScheduled
  /\ UNCHANGED <<clock, lock, times, mInterruptEventsPendingMask, mQtl, sem, flags, poller,
                 clients, mNextExec, cb, dtor, word, undone>>

-----------------------------------------------------------------------------
(* The callback, in the polling thread's RunTask.                           *)

\* OnSchedCallbackC: the object is looked at without the lock
EnterCallback ==
  /\ cb = "none" /\ mQtl # << >> /\ mQtl[1].node = Self
  /\ RunTask
  /\ cb' = IF dtor = "alive" THEN "lock" ELSE "none"
  /\ UNCHANGED <<rflags, mNextExec, dtor, word, undone>>

CallbackStep == UNCHANGED <<clock, lists, times, mInterruptEventsPendingMask, mQtl, sem,
                            flags, poller, clients, mNextExec, dtor, word, undone>>

LockCallback ==
  /\ cb = "lock" /\ LockFree
  /\ lock' = "resched"
  /\ rflags' = AddLocks(1)
  /\ cb' = "decide"
  /\ CallbackStep

\* (variant: the callback does not look whether it was listed again)
DecideCallback_IgnoresList ==
  /\ cb = "decide"
  /\ IF rflags.mIsScheduled
     THEN /\ rflags' = [rflags EXCEPT !.mIsScheduled = FALSE]
          /\ cb' = IF rflags.mIsEnabled THEN "unlockAndCall" ELSE "unlock"
     ELSE UNCHANGED rflags /\ cb' = "unlock"
  /\ UNCHANGED lock
  /\ CallbackStep

\* a task that was cancelled, or is listed again, does not run now
DecideCallback ==
  /\ cb = "decide"
  /\ IF rflags.mIsScheduled /\ ~Linked(Self)
     THEN /\ rflags' = [rflags EXCEPT !.mIsScheduled = FALSE]
          /\ cb' = IF rflags.mIsEnabled THEN "unlockAndCall" ELSE "unlock"
     ELSE UNCHANGED rflags /\ cb' = "unlock"
  /\ UNCHANGED lock
  /\ CallbackStep

UnlockCallback ==
  /\ cb \in {"unlock", "unlockAndCall"}
  /\ rflags' = AddLocks(-1)
  /\ lock' = "free"
  /\ cb' = IF cb = "unlock" THEN "none" ELSE "call"
  /\ CallbackStep

\* pAppFn, outside of the lock.  What it does to the rescheduler are method steps.
CallApp ==
  /\ cb = "call"
  /\ cb' = "none"
  /\ UNCHANGED <<lock, rflags>>
  /\ CallbackStep

Callback == LockCallback \/ DecideCallback \/ UnlockCallback \/ CallApp

-----------------------------------------------------------------------------
(* The destructor: mChk = 0 and flags.mIsEnabled = false come before the lock. *)

LoadFlags ==
  /\ CanDestroy /\ dtor = "alive"
  /\ dtor' = "store"
  /\ word' = {rflags}
  /\ UNCHANGED <<vars, rflags, mNextExec, cb, undone>>

StoreFlags ==
  /\ dtor = "store"
  /\ \E w \in word : /\ rflags' = [w EXCEPT !.mIsEnabled = FALSE]
                     /\ undone' = (rflags.mIsScheduled /\ ~w.mIsScheduled)
  /\ word' = {}
  /\ dtor' = "lock"
  /\ UNCHANGED <<vars, mNextExec, cb>>

\* (variant: the destructor leaves the node where it is)
EndDestroy_KeepsNode ==
  /\ dtor = "lock" /\ LockFree
  /\ rflags' = [rflags EXCEPT !.mIsEnabled = FALSE, !.mIsScheduled = FALSE]
  /\ dtor' = "dead"
  /\ UNCHANGED <<vars, mNextExec, cb, word, undone>>

EndDestroy ==
  /\ dtor = "lock" /\ LockFree
  /\ CancelIfScheduled
  /\ rflags' = [rflags EXCEPT !.mIsEnabled = FALSE, !.mIsScheduled = FALSE]
  /\ dtor' = "dead"
  /\ UNCHANGED <<clock, lock, times, mInterruptEventsPendingMask, mQtl, sem, flags, poller,
                 clients, mNextExec, cb, word, undone>>

-----------------------------------------------------------------------------
\* the polling thread outside of Self's callback
OtherPoller ==
  /\ cb = "none"
  /\ pc = "run" /\ mQtl # << >> => mQtl[1].node # Self
  /\ Poller
  /\ UNCHANGED rvars

ReschedPoller == OtherPoller \/ EnterCallback \/ Callback

\* the other schedulables are one-shots that keep coming
OtherCall ==
  /\ \E n \in Nodes \ {Self} : AddOneShot(n)
  /\ UNCHANGED rvars

Method ==
  \/ \E delay \in Delays : DoReschedule(delay) \/ ForceReschedule(delay)
  \/ DisableTask \/ EnableTask \/ CancelTask

Destroy == LoadFlags \/ StoreFlags \/ EndDestroy

\* as Tick; and mNextExec of a scheduled task is compared while it is meaningful
ReschedTick ==
  /\ rflags.mIsScheduled => TimeDiff(clock, mNextExec) < MaxLag
  /\ Tick
  /\ UNCHANGED rvars

ReschedNext == ReschedPoller \/ OtherCall \/ Method \/ Destroy \/ ReschedTick

ReschedSpec == ReschedInit /\ [][ReschedNext]_allVars

\* as Fairness of TaskSched, and a destructor that has begun goes on
ReschedFairSpec ==
  /\ ReschedSpec
  /\ SF_allVars(ReschedPoller)
  /\ WF_allVars(StoreFlags) /\ SF_allVars(EndDestroy)
  /\ WF_allVars(ReschedTick)

-----------------------------------------------------------------------------
ReschedTypeOK ==
  /\ rflags \in FlagsT
  /\ mNextExec \in Times
  /\ cb \in {"none", "lock", "decide", "unlock", "unlockAndCall", "call"}
  /\ dtor \in {"alive", "store", "lock", "dead"}
  /\ word \in SUBSET FlagsT
  /\ undone \in BOOLEAN

\* Self is in a list, in the batch, or its callback is about to decide.
OnItsWay ==
  \/ Linked(Self) \/ Self \in NodesOf(mQtl)
  \/ cb \in {"lock", "decide"}
  \/ \E e \in cur : e.node = Self

\* mIsScheduled tells the truth while the object lives: a listed node is never
\* listed a second time (the assertions of doReschedule), and a task that counts as
\* scheduled is on its way to run - or doReschedule would never schedule it again.
ScheduledIsTrue ==
  dtor = "alive" =>
    /\ Linked(Self) => rflags.mIsScheduled
    /\ rflags.mIsScheduled => OnItsWay

\* After the destructor, and although it competes with the callback for the flags,
\* the node of the dead object is in no list.  There is one way round it: the function
\* of the callback schedules the task after the destructor has loaded the flags, and
\* what the destructor then stores says that it is not scheduled.
DestroyedIsUnlisted == dtor = "dead" /\ ~undone => ~Linked(Self)

\* doReschedule may leave a scheduled task alone: wherever it does, the node is
\* listed for no later than is asked for, across wraps of the clock.
ReschedulesInTime ==
  MayCall /\ rflags.mIsScheduled =>
    \A delay \in Delays : \A i \in DOMAIN mTimerBasedList :
      mTimerBasedList[i].node = Self =>
        Earlier(delay) \/ TimeDiff(mTimerBasedList[i].at, NextExec(delay)) <= 0

\* A task that is scheduled runs, or is cancelled or destroyed, unless it is put off
\* by forceReschedule for ever.
ReschedRuns ==
  \/ []<><<\E delay \in Delays : ForceReschedule(delay)>>_allVars
  \/ rflags.mIsScheduled ~> ~rflags.mIsScheduled

\* LOG_ASSERT(1 == ++flags.mLocks) and LOG_ASSERT(0 == --flags.mLocks)
LocksBalanced ==
  [][/\ LockCallback \/ EndDestroy => rflags.mLocks = 0
     /\ UnlockCallback => rflags.mLocks = 1]_allVars
=============================================================================
