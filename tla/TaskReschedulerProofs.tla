------------------------ MODULE TaskReschedulerProofs ------------------------
(***************************************************************************)
(* Proofs about TaskRescheduler: what its flags say about the lists of the *)
(* scheduler, whoever calls, calls back or destroys it meanwhile, and that *)
(* the scheduler underneath keeps what TaskSchedProofs shows of it.        *)
(***************************************************************************)
EXTENDS TaskRescheduler, TaskSchedProofs

-----------------------------------------------------------------------------
(* The invariants.                                                          *)

\* Nothing is queued before a pass has begun, nor while the thread waits.
OutsidePass == {"check", "testEnabled", "readEvents", "clearEvents", "runEvents", "poll",
                "enter", "wait", "waitDisabled", "done"}

CallbackInv ==
  /\ lock = "resched" <=> cb \in {"decide", "unlock", "unlockAndCall"}
  /\ cb # "none" => pc = "run"
  /\ word # {} => dtor = "store"
  /\ pc \in OutsidePass => mQtl = << >>

\* The only timer there can be is Self's, and for the time mNextExec; all the others
\* are one-shots.
OnlyTimer == [node |-> Self, at |-> mNextExec, period |-> 0]

SoloInv ==
  /\ mIterationsBasedList = << >> /\ stamped = {} /\ pc # "iterations"
  /\ \A i \in DOMAIN mOneShotsList : mOneShotsList[i].period = 0
  /\ \A i \in DOMAIN mTimerBasedList : mTimerBasedList[i] = OnlyTimer
  /\ \A e \in cur : e.node = Self /\ e.period = 0

\* A listed node counts as scheduled, unless the flags the destructor stored say
\* otherwise; a living object that counts as scheduled is on its way.
ScheduledInv ==
  /\ dtor = "alive" /\ rflags.mIsScheduled => OnItsWay
  /\ Linked(Self) => undone \/ (dtor # "dead" /\ rflags.mIsScheduled)
  /\ undone => dtor \in {"lock", "dead"}

ReschedInv == OrderInv /\ WakeInv /\ ReschedTypeOK /\ CallbackInv /\ SoloInv /\ ScheduledInv

-----------------------------------------------------------------------------
(* The steps: one of the scheduler's own, one that leaves the scheduler as   *)
(* it is but for the critical section, or one that moves Self in the lists.  *)

LEMMA Parameters ==
  /\ Self \in Nodes /\ ~IsIdle /\ "oneShot" \in Calls /\ 0 \in Periods
  /\ \A delay \in Delays : delay \in Nat
  BY ReschedAssumption

\* Only the critical section is taken or given back.
SectionStep ==
  /\ \/ lock = "free" /\ lock' = "resched"
     \/ lock = "resched" /\ lock' = "free"
     \/ UNCHANGED lock
  /\ UNCHANGED <<clock, lists, times, mInterruptEventsPendingMask, mQtl, sem, flags,
                 poller, clients>>

\* Self is taken out of the lists, and put back into one of them if `delay` is given.
Unlists ==
  /\ LockFree
  /\ UnlistEverywhere(Self)
  /\ UNCHANGED <<clock, lock, times, mInterruptEventsPendingMask, mQtl, sem, flags,
                 poller, clients>>

Relists(delay) ==
  /\ LockFree
  /\ AddTimer(Unlist(mOneShotsList, Self), Unlist(mTimerBasedList, Self), delay)
  /\ UNCHANGED <<clock, lock, mIterationsBasedList, times, mInterruptEventsPendingMask,
                 mQtl, flags, poller, clients>>

OwnStep == \/ OtherPoller \/ EnterCallback \/ OtherCall \/ ReschedTick
ListChange == \/ Unlists \/ \E delay \in Delays : Relists(delay)

LEMMA NotLinked ==
  ASSUME ~Linked(Self)
  PROVE  /\ Unlist(mOneShotsList, Self) = mOneShotsList
         /\ Unlist(mTimerBasedList, Self) = mTimerBasedList
  BY DEF Linked, Unlist

LEMMA OwnSteps == OwnStep => [Next]_vars
  BY Parameters DEF OwnStep, OtherPoller, EnterCallback, OtherCall, ReschedTick, Next,
     Poller, Call

LEMMA Rescheduled ==
  ASSUME NEW delay \in Delays, DoReschedule(delay) \/ ForceReschedule(delay)
  PROVE  /\ Relists(delay) /\ MayCall
         /\ mNextExec' = NextExec(delay)
         /\ rflags' = [rflags EXCEPT !.mIsScheduled = TRUE]
         /\ UNCHANGED <<cb, dtor, word, undone>>
<1>1. CASE ForceReschedule(delay)
  BY <1>1 DEF ForceReschedule, Reschedule, Relists, MayCall, times
<1>2. CASE DoReschedule(delay) /\ rflags.mIsScheduled
  BY <1>2 DEF DoReschedule, Reschedule, Relists, MayCall, times
<1>3. CASE DoReschedule(delay) /\ ~rflags.mIsScheduled
  <2>1. ~Linked(Self)
    BY <1>3 DEF DoReschedule
  <2> QED BY <1>3, <2>1, NotLinked DEF DoReschedule, Relists, MayCall
<1> QED BY <1>1, <1>2, <1>3

\* Cancelling, disabling and destroying take the node out if the task counts as
\* scheduled, and leave the scheduler alone if it does not.
LEMMA Cancelled ==
  ASSUME DisableTask \/ CancelTask \/ EndDestroy
  PROVE  /\ UNCHANGED <<mNextExec, cb, word, undone>>
         /\ \/ Unlists
            \/ ~rflags.mIsScheduled /\ UNCHANGED vars
         /\ \/ MayCall /\ UNCHANGED dtor
            \/ dtor = "lock" /\ dtor' = "dead"
         /\ \E b \in {rflags.mIsEnabled, FALSE} :
              rflags' = [rflags EXCEPT !.mIsEnabled = b, !.mIsScheduled = FALSE]
<1>1. LockFree
  BY DEF DisableTask, CancelTask, EndDestroy, MayCall
<1>2. CASE rflags.mIsScheduled
  BY <1>1, <1>2 DEF DisableTask, CancelTask, EndDestroy, CancelIfScheduled, Unlists, MayCall
<1>3. CASE ~rflags.mIsScheduled
  BY <1>3 DEF DisableTask, CancelTask, EndDestroy, CancelIfScheduled, MayCall, vars, lists,
     UnlistEverywhere
<1> QED BY <1>2, <1>3

-----------------------------------------------------------------------------
(* What moving Self does to the lists.                                      *)

Others == Unlist(mOneShotsList, Self)

LEMMA UnlistedLists ==
  ASSUME OrderInv, SoloInv
  PROVE  /\ Others \in Seq(OneShotEntry) /\ Distinct(Others)
         /\ NodesOf(Others) = NodesOf(mOneShotsList) \ {Self}
         /\ \A i \in DOMAIN Others : Others[i].period = 0
         /\ mOneShotsList = << >> => Others = << >>
         /\ Unlist(mTimerBasedList, Self) = << >>
         /\ Unlist(mIterationsBasedList, Self) = << >>
<1>1. /\ mOneShotsList \in Seq(OneShotEntry) /\ mTimerBasedList \in Seq(TimedEntry)
      /\ Distinct(mOneShotsList) /\ Distinct(mTimerBasedList)
  BY ListTypes DEF OrderInv, PlacesInv
<1>2. /\ Others \in Seq(OneShotEntry) /\ Distinct(Others)
      /\ NodesOf(Others) = NodesOf(mOneShotsList) \ {Self}
  BY <1>1, UnlistNodes DEF Others
<1>3. \A i \in DOMAIN Others : Others[i].period = 0
  <2> SUFFICES ASSUME NEW i \in DOMAIN Others PROVE Others[i].period = 0
    OBVIOUS
  <2>1. \E k \in DOMAIN mOneShotsList : Others[i] = mOneShotsList[k]
    BY <1>1, UnlistEntries DEF Others
  <2> QED BY <2>1 DEF SoloInv
<1>4. mOneShotsList = << >> => Others = << >>
  BY DEF Others, Unlist, NodesOf
<1>5. Unlist(mTimerBasedList, Self) = << >>
  <2> DEFINE r == Unlist(mTimerBasedList, Self)
  <2>1. r \in Seq(TimedEntry) /\ NodesOf(r) = NodesOf(mTimerBasedList) \ {Self}
    BY <1>1, UnlistNodes
  <2>2. NodesOf(mTimerBasedList) \subseteq {Self}
    BY DEF NodesOf, SoloInv, OnlyTimer
  <2> HIDE DEF r
  <2>3. DOMAIN r = {}
    BY <2>1, <2>2 DEF NodesOf
  <2>4. r = << >>
    BY <2>1, <2>3
  <2> QED BY <2>4 DEF r
<1>6. Unlist(mIterationsBasedList, Self) = << >>
  BY DEF SoloInv, Unlist, NodesOf
<1> QED BY <1>2, <1>3, <1>4, <1>5, <1>6

\* Self listed for `at`, alone on the timers.
TimerAt(at) == << [node |-> Self, at |-> at, period |-> 0] >>

LEMMA Unlisted ==
  ASSUME OrderInv, SoloInv, Unlists
  PROVE  /\ mOneShotsList' = Others /\ mTimerBasedList' = << >>
         /\ UNCHANGED <<mIterationsBasedList, sem>>
  BY UnlistedLists DEF Unlists, UnlistEverywhere, Others, SoloInv

LEMMA InsertFirst ==
  ASSUME NEW S, NEW s \in Seq(S), NEW p \in 1 .. (Len(s) + 1), NEW e \in S, s = << >>
  PROVE  InsertAt(s, p, e) = << e >>
<1> DEFINE a == SubSeq(s, 1, p - 1)  b == SubSeq(s, p, Len(s))
<1>1. p = 1 /\ Len(s) = 0
  OBVIOUS
<1>2. a = << >> /\ b = << >>
  BY <1>1
<1>3. InsertAt(s, p, e) = (a \o <<e>>) \o b
  BY DEF InsertAt
<1> HIDE DEF a, b
<1>4. (a \o <<e>>) \o b = <<e>>
  BY <1>2
<1> QED BY <1>3, <1>4

LEMMA Relisted ==
  ASSUME OrderInv, SoloInv, NEW delay \in Delays, Relists(delay)
  PROVE  \/ /\ mOneShotsList' = Append(Others, [node |-> Self, period |-> 0])
            /\ mTimerBasedList' = << >> /\ UNCHANGED mIterationsBasedList
            /\ sem' \in {sem, 1} /\ (mOneShotsList = << >> => sem' = 1)
         \/ /\ mOneShotsList' = Others
            /\ mTimerBasedList' = TimerAt(NextExec(delay)) /\ UNCHANGED mIterationsBasedList
            /\ sem' = 1
<1>1. AddTimer(Others, << >>, delay) /\ UNCHANGED mIterationsBasedList
  BY UnlistedLists DEF Relists, Others
<1>2. CASE delay = 0
  <2>1. /\ mOneShotsList' = Append(Others, [node |-> Self, period |-> 0])
        /\ mTimerBasedList' = << >> /\ SignalIfFront(Len(mOneShotsList'))
    BY <1>1, <1>2 DEF AddTimer
  <2>2. Others = << >> => Len(mOneShotsList') = 1
    BY <2>1
  <2>3. sem' \in {sem, 1} /\ (Others = << >> => sem' = 1)
    BY <2>1, <2>2, Parameters DEF SignalIfFront, Signal
  <2> QED BY <1>1, <2>1, <2>3, UnlistedLists
<1>3. CASE delay # 0
  <2> DEFINE e == [node |-> Self, at |-> NextExec(delay), period |-> 0]
  <2>1. PICK p \in 1 .. (Len(<< >>) + 1) :
          /\ mTimerBasedList' = InsertAt(<< >>, p, e)
          /\ mOneShotsList' = Others /\ SignalIfFront(p)
    BY <1>1, <1>3 DEF AddTimer, NextExec
  <2>2. p = 1
    BY <2>1
  <2>3. InsertAt(<< >>, p, e) = << e >>
    <3>1. << >> \in Seq({e}) /\ e \in {e}
      OBVIOUS
    <3> HIDE DEF e
    <3> QED BY <3>1, InsertFirst
  <2>4. mTimerBasedList' = << e >> /\ SignalIfFront(1)
    BY <2>1, <2>2, <2>3
  <2>5. sem' = 1
    BY <2>4, Parameters DEF SignalIfFront, Signal
  <2>6. mTimerBasedList' = TimerAt(NextExec(delay))
    BY <2>4 DEF TimerAt
  <2> QED BY <1>1, <2>1, <2>5, <2>6
<1> QED BY <1>2, <1>3, <1>1

\* Where Self may be after such a step.
LEMMA ListsAfter ==
  ASSUME OrderInv, SoloInv, ListChange
  PROVE  /\ mOneShotsList' \in Seq(OneShotEntry) /\ mTimerBasedList' \in Seq(TimedEntry)
         /\ Distinct(mOneShotsList') /\ Distinct(mTimerBasedList')
         /\ NodesOf(mOneShotsList') \cap NodesOf(mTimerBasedList') = {}
         /\ \A i \in DOMAIN mOneShotsList' : mOneShotsList'[i].period = 0
         /\ NodesOf(mOneShotsList') \ {Self} = NodesOf(mOneShotsList) \ {Self}
         /\ Unlists => ~Linked(Self)'
         /\ (\E delay \in Delays : Relists(delay)) => Linked(Self)'
         /\ sem' \in {sem, 1}
         /\ mOneShotsList = << >> /\ sem' = 0 => mOneShotsList' = << >>
         /\ mTimerBasedList = << >> /\ sem' = 0 => mTimerBasedList' = << >>
         /\ UNCHANGED mIterationsBasedList
<1>u. /\ Others \in Seq(OneShotEntry) /\ Distinct(Others) /\ Self \notin NodesOf(Others)
      /\ NodesOf(Others) = NodesOf(mOneShotsList) \ {Self}
      /\ \A i \in DOMAIN Others : Others[i].period = 0
      /\ mOneShotsList = << >> => Others = << >>
  BY UnlistedLists
<1>e. << >> \in Seq(TimedEntry) /\ Distinct(<< >>) /\ NodesOf(<< >>) = {}
  BY DEF Distinct, NodesOf
<1>i. mIterationsBasedList = << >>
  BY DEF SoloInv
<1>2. ASSUME NEW delay \in Delays, Relists(delay),
             mOneShotsList' = Append(Others, [node |-> Self, period |-> 0]),
             mTimerBasedList' = << >>, UNCHANGED mIterationsBasedList
      PROVE  /\ mOneShotsList' \in Seq(OneShotEntry) /\ Distinct(mOneShotsList')
             /\ NodesOf(mOneShotsList') = NodesOf(Others) \cup {Self}
             /\ \A i \in DOMAIN mOneShotsList' : mOneShotsList'[i].period = 0
             /\ Linked(Self)'
  <2> DEFINE e == [node |-> Self, period |-> 0]
  <2>1. e \in OneShotEntry
    BY Parameters DEF OneShotEntry
  <2>2. e.node = Self /\ e.period = 0
    OBVIOUS
  <2> HIDE DEF e
  <2>3. mOneShotsList' = Append(Others, e)
    BY <1>2 DEF e
  <2>4. /\ Distinct(Append(Others, e)) /\ NodesOf(Append(Others, e)) = NodesOf(Others) \cup {Self}
    BY <1>u, <2>1, <2>2, AppendNodes
  <2>5. \A i \in DOMAIN Append(Others, e) : Append(Others, e)[i].period = 0
    <3>1. /\ \A i \in DOMAIN Append(Others, e) :
               (i \in DOMAIN Others /\ Append(Others, e)[i] = Others[i]) \/ Append(Others, e)[i] = e
      BY <1>u, <2>1
    <3> QED BY <3>1, <2>2, <1>u
  <2>6. Linked(Self)'
    BY <2>3, <2>4 DEF Linked
  <2> QED BY <1>u, <2>1, <2>3, <2>4, <2>5, <2>6
<1>3. ASSUME NEW delay \in Delays, Relists(delay), mOneShotsList' = Others,
             mTimerBasedList' = TimerAt(NextExec(delay))
      PROVE  /\ mTimerBasedList' \in Seq(TimedEntry) /\ Distinct(mTimerBasedList')
             /\ NodesOf(mTimerBasedList') = {Self} /\ Linked(Self)'
  <2> DEFINE e == [node |-> Self, at |-> NextExec(delay), period |-> 0]
  <2>1. NextExec(delay) \in Times
    BY Parameters, TimeTypes, TimeAddType, TimesInt DEF NextExec, OrderInv
  <2>2. e \in TimedEntry /\ e.node = Self
    BY <2>1, Parameters DEF TimedEntry
  <2> HIDE DEF e
  <2>3. mTimerBasedList' = << e >>
    BY <1>3 DEF TimerAt, e
  <2>4. << e >> \in Seq(TimedEntry) /\ Distinct(<< e >>) /\ NodesOf(<< e >>) = {Self}
    BY <2>2 DEF Distinct, NodesOf
  <2> QED BY <2>3, <2>4 DEF Linked
<1>4. ASSUME NEW delay \in Delays, Relists(delay) PROVE LockFree
  BY <1>4 DEF Relists
<1>5. ASSUME NEW delay \in Delays, Relists(delay)
      PROVE  /\ mOneShotsList' \in Seq(OneShotEntry) /\ mTimerBasedList' \in Seq(TimedEntry)
             /\ Distinct(mOneShotsList') /\ Distinct(mTimerBasedList')
             /\ NodesOf(mOneShotsList') \cap NodesOf(mTimerBasedList') = {}
             /\ \A i \in DOMAIN mOneShotsList' : mOneShotsList'[i].period = 0
             /\ NodesOf(mOneShotsList') \ {Self} = NodesOf(mOneShotsList) \ {Self}
             /\ Linked(Self)'
             /\ sem' \in {sem, 1}
             /\ mOneShotsList = << >> /\ sem' = 0 => mOneShotsList' = << >>
             /\ mTimerBasedList = << >> /\ sem' = 0 => mTimerBasedList' = << >>
             /\ UNCHANGED mIterationsBasedList
  <2>1. CASE mOneShotsList' = Append(Others, [node |-> Self, period |-> 0])
             /\ mTimerBasedList' = << >> /\ UNCHANGED mIterationsBasedList
             /\ sem' \in {sem, 1} /\ (mOneShotsList = << >> => sem' = 1)
    BY <1>2, <1>5, <1>u, <1>e, <2>1
  <2>2. CASE /\ mOneShotsList' = Others
             /\ mTimerBasedList' = TimerAt(NextExec(delay)) /\ UNCHANGED mIterationsBasedList
             /\ sem' = 1
    BY <1>3, <1>5, <1>u, <2>2
  <2> QED BY <1>5, <2>1, <2>2, Relisted
<1>6. (\E delay \in Delays : Relists(delay)) => Linked(Self)'
  BY <1>5
<1>7. CASE Unlists
  <2>1. /\ mOneShotsList' = Others /\ mTimerBasedList' = << >>
        /\ UNCHANGED <<mIterationsBasedList, sem>>
    BY <1>7, Unlisted
  <2>2. ~Linked(Self)'
    BY <2>1, <1>u, <1>e, <1>i DEF Linked
  <2> QED BY <1>6, <1>7, <2>1, <2>2, <1>u, <1>e
<1> QED BY <1>5, <1>6, <1>7 DEF ListChange

\* The scheduler's own invariants survive it.
LEMMA SchedulerKept ==
  ASSUME OrderInv, WakeInv, SoloInv, CallbackInv, SectionStep \/ ListChange
  PROVE  OrderInv' /\ WakeInv'
<1> USE DEF lists, times, poller, clients, flags
<1>1. CASE SectionStep
  <2>1. TypeOK' /\ ControlInv'
    BY <1>1 DEF SectionStep, OrderInv, TypeOK, ControlInv
  <2>2. PlacesInv' /\ QueueInv' /\ PeriodsInv'
    BY <1>1 DEF SectionStep, OrderInv, PlacesInv, QueueInv, PeriodsInv, CurNodes,
       StampedNodes, Linked, Queued, NotDueIfQueued
  <2>3. WakeInv'
    BY <1>1 DEF SectionStep, WakeInv, IdleHasNoThread, QuitLeavesToken,
       EnableLeavesToken, EventLeavesToken, OneShotLeavesToken, TimerLeavesToken
  <2> QED BY <2>1, <2>2, <2>3 DEF OrderInv
<1>2. CASE ListChange
  <2>1. /\ LockFree
        /\ UNCHANGED <<clock, lock, times, mInterruptEventsPendingMask, mQtl, flags, poller,
                       clients>>
    BY <1>2 DEF ListChange, Unlists, Relists
  <2>2. /\ mOneShotsList' \in Seq(OneShotEntry) /\ mTimerBasedList' \in Seq(TimedEntry)
        /\ Distinct(mOneShotsList') /\ Distinct(mTimerBasedList')
        /\ NodesOf(mOneShotsList') \cap NodesOf(mTimerBasedList') = {}
        /\ sem' \in {sem, 1}
        /\ mOneShotsList = << >> /\ sem' = 0 => mOneShotsList' = << >>
        /\ mTimerBasedList = << >> /\ sem' = 0 => mTimerBasedList' = << >>
        /\ UNCHANGED mIterationsBasedList
    BY <1>2, ListsAfter
  <2>3. /\ pc \notin {"oneShots", "iterations", "beginTimers", "timers"} /\ cur = {}
        /\ mIterationsBasedList = << >> /\ stamped = {}
    BY <2>1 DEF OrderInv, ControlInv, SoloInv, LockFree
  <2>4. TypeOK' /\ ControlInv'
    <3>1. sem' \in {0, 1}
      BY <2>2 DEF OrderInv, TypeOK
    <3> QED BY <2>1, <2>2, <3>1 DEF OrderInv, TypeOK, ControlInv
  <2>5. PlacesInv'
    <3>1. NodesOf(mIterationsBasedList') = {} /\ Distinct(mIterationsBasedList')
      BY <2>2, <2>3 DEF NodesOf, Distinct
    <3>2. CurNodes' = {} /\ StampedNodes' = {} /\ cur' = {} /\ stamped' = {}
      BY <2>1, <2>3 DEF CurNodes, StampedNodes
    <3> QED BY <2>2, <3>1, <3>2 DEF PlacesInv
  <2>6. QueueInv'
    BY <2>1, <2>3 DEF OrderInv, QueueInv, CurNodes, Queued
  <2>7. PeriodsInv'
    BY <2>1, <2>2, <2>3 DEF OrderInv, PeriodsInv
  <2>8. WakeInv'
    <3>1. sem' = 0 => sem = 0
      BY <2>2 DEF OrderInv, TypeOK
    <3> QED
      BY <2>1, <2>2, <3>1 DEF WakeInv, IdleHasNoThread, QuitLeavesToken,
         EnableLeavesToken, EventLeavesToken, OneShotLeavesToken, TimerLeavesToken
  <2> QED BY <2>4, <2>5, <2>6, <2>7, <2>8 DEF OrderInv
<1> QED BY <1>1, <1>2

-----------------------------------------------------------------------------
(* What the polling thread does to the lists.                               *)

InHand == Linked(Self) \/ Self \in Queued \/ Self \in CurNodes

LEMMA OnItsWayMeans == OnItsWay <=> InHand \/ cb \in {"lock", "decide"}
  BY DEF OnItsWay, InHand, Queued, CurNodes

LEMMA CollectKeeps ==
  ASSUME OrderInv, SoloInv, CollectOneShot, UNCHANGED mNextExec
  PROVE  /\ Linked(Self)' => Linked(Self)
         /\ InHand => InHand'
         /\ SoloInv'
<1>1. PICK i \in DOMAIN mOneShotsList :
        /\ mOneShotsList[i].node = pIter
        /\ mOneShotsList' = IF mOneShotsList[i].period = 0 THEN RemoveAt(mOneShotsList, i)
                                                           ELSE mOneShotsList
        /\ Collect(mOneShotsList[i])
  BY DEF CollectOneShot
<1>2. /\ mOneShotsList \in Seq(OneShotEntry) /\ Distinct(mOneShotsList)
      /\ mOneShotsList[i].node \in Nodes
  BY ListTypes, EntryFields DEF OrderInv, PlacesInv
<1>3. mOneShotsList' = RemoveAt(mOneShotsList, i)
  BY <1>1 DEF SoloInv
<1>4. /\ UNCHANGED <<mTimerBasedList, mIterationsBasedList, cur, stamped, pc>>
      /\ pc = "oneShots" /\ pIter # NULL
  BY DEF CollectOneShot, clients
<1>5. NodesOf(mOneShotsList') = NodesOf(mOneShotsList) \ {mOneShotsList[i].node}
  BY <1>2, <1>3, RemoveAtNodes
<1>6. mOneShotsList[i].node \notin Queued
  BY <1>1, <1>4, SMTT(30) DEF OrderInv, QueueInv
<1>7. Queued' = Queued \cup {mOneShotsList[i].node}
  BY <1>1, <1>2, <1>4, <1>6, CollectMeans DEF OrderInv, QueueInv
<1>8. \A j \in DOMAIN mOneShotsList' : \E k \in DOMAIN mOneShotsList :
        mOneShotsList'[j] = mOneShotsList[k]
  BY <1>2, <1>3, RemoveAtEntries
<1>9. SoloInv'
  BY <1>4, <1>8 DEF SoloInv, OnlyTimer
<1> QED BY <1>4, <1>5, <1>7, <1>9 DEF InHand, Linked, CurNodes

LEMMA TimersKeep ==
  ASSUME OrderInv, SoloInv, PollTimers, UNCHANGED mNextExec
  PROVE  /\ Linked(Self)' => Linked(Self)
         /\ InHand => InHand'
         /\ SoloInv'
<1>0. /\ UNCHANGED <<mOneShotsList, mIterationsBasedList, stamped>>
      /\ pc = "timers" /\ pc' # "iterations"
  BY DEF PollTimers, PollTimedUnlist, PollTimedRelist, PollTimedDone, lists, clients, Goto
<1>a. mTimerBasedList \in Seq(TimedEntry) /\ Distinct(mTimerBasedList)
  BY ListTypes DEF OrderInv, PlacesInv
<1>1. CASE PollTimedUnlist(mTimerBasedList, mCurrentTime)
  <2>1. PICK i \in DOMAIN mTimerBasedList :
          mTimerBasedList' = RemoveAt(mTimerBasedList, i) /\ cur' = {mTimerBasedList[i]}
    BY <1>1 DEF PollTimedUnlist
  <2>2. UNCHANGED mQtl /\ cur = {}
    BY <1>1 DEF PollTimedUnlist
  <2>3. NodesOf(mTimerBasedList') = NodesOf(mTimerBasedList) \ {mTimerBasedList[i].node}
    BY <1>a, <2>1, RemoveAtNodes
  <2>4. CurNodes = {} /\ CurNodes' = {mTimerBasedList[i].node}
    BY <2>1, <2>2 DEF CurNodes
  <2>5. mTimerBasedList[i].node \in NodesOf(mTimerBasedList)
    BY DEF NodesOf
  <2>6. \A j \in DOMAIN mTimerBasedList' : \E k \in DOMAIN mTimerBasedList :
          mTimerBasedList'[j] = mTimerBasedList[k]
    BY <1>a, <2>1, RemoveAtEntries
  <2>7. SoloInv'
    <3>1. mTimerBasedList[i] = OnlyTimer
      BY DEF SoloInv
    <3>2. mTimerBasedList[i].node = Self /\ mTimerBasedList[i].period = 0
      BY <3>1 DEF OnlyTimer
    <3> QED BY <1>0, <2>1, <2>6, <3>2 DEF SoloInv, OnlyTimer
  <2> QED BY <1>0, <2>2, <2>3, <2>4, <2>5, <2>7 DEF InHand, Linked, Queued
<1>2. CASE PollTimedRelist(mTimerBasedList, mCurrentTime)
  <2>1. PICK e \in cur :
          (e.period = 0 => UNCHANGED mTimerBasedList) /\ Collect(e)
    BY <1>2 DEF PollTimedRelist
  <2>2. cur' = {}
    BY <1>2 DEF PollTimedRelist
  <2>3. UNCHANGED mTimerBasedList /\ \A f \in cur : f = e
    BY <2>1 DEF SoloInv, OrderInv, PlacesInv
  <2>4. e.node \in Nodes /\ e.node \in CurNodes
    BY ListTypes, EntryFields DEF OrderInv, CurNodes
  <2>5. Queued' = Queued \cup {e.node}
    BY <1>0, <2>1, <2>4, CollectMeans DEF OrderInv, QueueInv
  <2>6. CurNodes = {e.node} /\ CurNodes' = {}
    BY <2>2, <2>3 DEF CurNodes
  <2>7. SoloInv'
    BY <1>0, <2>2, <2>3 DEF SoloInv, OnlyTimer
  <2> QED BY <1>0, <2>3, <2>5, <2>6, <2>7 DEF InHand, Linked
<1>3. CASE PollTimedDone(mTimerBasedList, mCurrentTime, "exit")
  <2>1. UNCHANGED <<lists, mQtl, cur>>
    BY <1>3 DEF PollTimedDone
  <2>2. SoloInv'
    BY <1>0, <2>1 DEF SoloInv, OnlyTimer, lists
  <2> QED BY <2>1, <2>2 DEF InHand, Linked, Queued, CurNodes, lists
<1> QED BY <1>1, <1>2, <1>3 DEF PollTimers

LEMMA PollerKeeps ==
  ASSUME OrderInv, SoloInv, CallbackInv, Poller, UNCHANGED mNextExec
  PROVE  /\ Linked(Self)' => Linked(Self)
         /\ InHand => InHand' \/ (RunTask /\ mQtl[1].node = Self)
         /\ SoloInv'
<1> USE DEF times, poller, clients, flags, Goto
<1>1. CASE CollectOneShot
  BY <1>1, CollectKeeps
<1>2. CASE PollTimers
  BY <1>2, TimersKeep
<1>3. CASE PollIterations
  BY <1>3 DEF PollIterations, SoloInv
<1>4. CASE RunTask
  <2>1. UNCHANGED <<lists, cur, stamped, pc>> /\ mQtl' = Tail(mQtl) /\ mQtl # << >>
    BY <1>4 DEF RunTask
  <2>2. SoloInv'
    BY <2>1 DEF SoloInv, OnlyTimer, lists
  <2>3. mQtl \in Seq(QtlElement) /\ Distinct(mQtl)
    BY ListTypes DEF OrderInv, QueueInv
  <2>4. Queued' = Queued \ {mQtl[1].node}
    BY <2>1, <2>3, TailNodes DEF Queued
  <2> QED BY <1>4, <2>1, <2>2, <2>4 DEF InHand, Linked, CurNodes, lists
<1>5. CASE BeginPoll
  <2>1. UNCHANGED <<lists, cur, stamped, mQtl>> /\ pc' # "iterations"
    BY <1>5 DEF BeginPoll, CallbackInv, OutsidePass
  <2>2. SoloInv'
    BY <2>1 DEF SoloInv, OnlyTimer, lists
  <2> QED BY <2>1, <2>2 DEF InHand, Linked, Queued, CurNodes, lists
<1>6. CASE CheckRunning \/ TestEnabled \/ ReadEvents \/ ClearEvents \/ RunEvent
           \/ EventsDone \/ EnterPoll \/ BeginIterations \/ BeginTimers \/ ExitPoll
           \/ Decide \/ TakeToken \/ WaitTimeout
  <2>1. UNCHANGED <<lists, cur, stamped, mQtl>> /\ pc' # "iterations"
    BY <1>6, Parameters DEF CheckRunning, TestEnabled, ReadEvents, ClearEvents, RunEvent,
       EventsDone, EnterPoll, BeginIterations, BeginTimers, ExitPoll, Decide, TakeToken,
       WaitTimeout, SoloInv
  <2>2. SoloInv'
    BY <2>1 DEF SoloInv, OnlyTimer, lists
  <2> QED BY <2>1, <2>2 DEF InHand, Linked, Queued, CurNodes, lists
<1> QED BY <1>1, <1>2, <1>3, <1>4, <1>5, <1>6 DEF Poller

\* What is queued outside of a pass: nothing.
LEMMA PollerQueue ==
  ASSUME OrderInv, SoloInv, Poller, pc \in OutsidePass => mQtl = << >>
  PROVE  pc' \in OutsidePass => mQtl' = << >>
<1> USE DEF OutsidePass, Goto, poller
<1>1. CASE CheckRunning \/ TestEnabled \/ ReadEvents \/ ClearEvents \/ RunEvent
           \/ EventsDone \/ BeginPoll \/ EnterPoll
  BY <1>1 DEF CheckRunning, TestEnabled, ReadEvents, ClearEvents, RunEvent,
       EventsDone, BeginPoll, EnterPoll
<1>2. CASE CollectOneShot \/ BeginIterations \/ BeginTimers \/ PollTimers \/ PollIterations
           \/ ExitPoll
  BY <1>2 DEF CollectOneShot, BeginIterations, BeginTimers, PollTimers, PollIterations,
     PollTimedUnlist, PollTimedRelist, PollTimedDone, ExitPoll
<1>3. CASE RunTask \/ Decide \/ TakeToken \/ WaitTimeout
  BY <1>3 DEF RunTask, Decide, TakeToken, WaitTimeout
<1> QED BY <1>1, <1>2, <1>3 DEF Poller

-----------------------------------------------------------------------------
(* The invariant is kept.                                                   *)

LEMMA LocksType == ASSUME NEW f \in FlagsT, NEW k \in Int
                   PROVE  [f EXCEPT !.mLocks = (@ + k) % 16] \in FlagsT
<1>1. (f.mLocks + k) % 16 \in 0 .. 15
  BY DEF FlagsT
<1> QED BY <1>1 DEF FlagsT

LEMMA InvInit == ReschedInit => ReschedInv
<1> SUFFICES ASSUME ReschedInit PROVE ReschedInv
  OBVIOUS
<1>1. Init
  BY DEF ReschedInit
<1>2. OrderInv /\ WakeInv
  BY <1>1, TypeInit, ControlInit, PlacesInit, QueueInit, PeriodsInit, WakeInit DEF OrderInv
<1>3. ReschedTypeOK
  <2>1. 0 \in Times
    BY TimeModAssumption DEF Times
  <2>2. rflags \in FlagsT
    BY DEF ReschedInit, FlagsT
  <2>3. undone \in BOOLEAN
    BY DEF ReschedInit
  <2> QED BY <2>1, <2>2, <2>3 DEF ReschedInit, ReschedTypeOK
<1>4. CallbackInv /\ SoloInv /\ ScheduledInv
  BY <1>1 DEF ReschedInit, Init, CallbackInv, SoloInv, ScheduledInv, Linked, NodesOf
<1> QED BY <1>2, <1>3, <1>4 DEF ReschedInv

LEMMA TypeStepR ==
  ASSUME ReschedInv, [ReschedNext]_allVars
  PROVE  ReschedTypeOK'
<1> USE DEF rvars, vars
<1>0. /\ rflags \in FlagsT /\ mNextExec \in Times /\ word \in SUBSET FlagsT
      /\ cb \in {"none", "lock", "decide", "unlock", "unlockAndCall", "call"}
      /\ dtor \in {"alive", "store", "lock", "dead"} /\ undone \in BOOLEAN
  BY DEF ReschedInv, ReschedTypeOK
<1>1. CASE OtherPoller \/ OtherCall \/ ReschedTick \/ UNCHANGED allVars
  <2>1. UNCHANGED rvars
    BY <1>1 DEF OtherPoller, OtherCall, ReschedTick, allVars
  <2> QED BY <1>0, <2>1 DEF ReschedTypeOK
<1>2. CASE EnterCallback
  BY <1>0, <1>2 DEF EnterCallback, ReschedTypeOK
<1>3. CASE Callback
  <2>1. AddLocks(1) \in FlagsT /\ AddLocks(-1) \in FlagsT
    <3>1. rflags \in FlagsT /\ 1 \in Int /\ -1 \in Int
      BY <1>0
    <3> QED BY <3>1, LocksType DEF AddLocks
  <2>2. [rflags EXCEPT !.mIsScheduled = FALSE] \in FlagsT
    BY <1>0 DEF FlagsT
  <2>3. /\ rflags' \in {rflags, AddLocks(1), AddLocks(-1), [rflags EXCEPT !.mIsScheduled = FALSE]}
        /\ cb' \in {"none", "decide", "unlock", "unlockAndCall", "call"}
        /\ UNCHANGED <<mNextExec, dtor, word, undone>>
    BY <1>3 DEF Callback, LockCallback, DecideCallback, UnlockCallback, CallApp, CallbackStep
  <2>4. rflags' \in FlagsT
    BY <1>0, <2>1, <2>2, <2>3
  <2> QED BY <1>0, <2>3, <2>4 DEF ReschedTypeOK
<1>4. ASSUME NEW delay \in Delays, DoReschedule(delay) \/ ForceReschedule(delay)
      PROVE  ReschedTypeOK'
  <2>1. /\ mNextExec' = NextExec(delay) /\ UNCHANGED <<cb, dtor, word, undone>>
        /\ rflags' = [rflags EXCEPT !.mIsScheduled = TRUE]
    BY <1>4, Rescheduled
  <2>2. NextExec(delay) \in Times
    BY Parameters, TimeTypes, TimeAddType, TimesInt DEF NextExec, OrderInv, ReschedInv
  <2>3. [rflags EXCEPT !.mIsScheduled = TRUE] \in FlagsT
    BY <1>0 DEF FlagsT
  <2> QED BY <1>0, <2>1, <2>2, <2>3 DEF ReschedTypeOK
<1>5. CASE DisableTask \/ CancelTask \/ EndDestroy
  <2>1. /\ UNCHANGED <<mNextExec, cb, word, undone>> /\ dtor' \in {dtor, "dead"}
        /\ \E b \in {rflags.mIsEnabled, FALSE} :
              rflags' = [rflags EXCEPT !.mIsEnabled = b, !.mIsScheduled = FALSE]
    BY <1>5, Cancelled
  <2>2. rflags' \in FlagsT
    <3>1. PICK b \in {rflags.mIsEnabled, FALSE} :
            rflags' = [rflags EXCEPT !.mIsEnabled = b, !.mIsScheduled = FALSE]
      BY <2>1
    <3>2. b \in BOOLEAN
      BY <1>0 DEF FlagsT
    <3> QED BY <1>0, <3>1, <3>2 DEF FlagsT
  <2> QED BY <1>0, <2>1, <2>2 DEF ReschedTypeOK
<1>6. CASE EnableTask
  <2>1. [rflags EXCEPT !.mIsEnabled = TRUE] \in FlagsT
    BY <1>0 DEF FlagsT
  <2> QED BY <1>0, <1>6, <2>1 DEF EnableTask, ReschedTypeOK
<1>7. CASE LoadFlags
  BY <1>0, <1>7 DEF LoadFlags, ReschedTypeOK
<1>8. CASE StoreFlags
  <2>1. PICK w \in word : rflags' = [w EXCEPT !.mIsEnabled = FALSE]
    BY <1>8 DEF StoreFlags
  <2>2. [w EXCEPT !.mIsEnabled = FALSE] \in FlagsT
    BY <1>0 DEF FlagsT
  <2>3. undone' \in BOOLEAN
    BY <1>8 DEF StoreFlags
  <2> QED BY <1>0, <1>8, <2>1, <2>2, <2>3 DEF StoreFlags, ReschedTypeOK
<1> QED
  BY <1>1, <1>2, <1>3, <1>4, <1>5, <1>6, <1>7, <1>8
     DEF ReschedNext, ReschedPoller, Method, Destroy

\* The scheduler underneath.
LEMMA OrderStepR ==
  ASSUME ReschedInv, [ReschedNext]_allVars
  PROVE  OrderInv' /\ WakeInv'
<1>1. CASE OwnStep \/ UNCHANGED allVars
  <2>1. [Next]_vars
    BY <1>1, OwnSteps DEF allVars
  <2> QED BY <2>1, OrderStep, WakeStep DEF ReschedInv, OrderInv
<1>2. CASE ListChange \/ SectionStep
  BY <1>2, SchedulerKept DEF ReschedInv
<1>3. Callback \/ EnableTask \/ LoadFlags \/ StoreFlags => SectionStep
  BY DEF Callback, LockCallback, DecideCallback, UnlockCallback, CallApp, CallbackStep,
     EnableTask, LoadFlags, StoreFlags, SectionStep, LockFree, vars, lists, times, poller,
     clients, flags, ReschedInv, CallbackInv
<1>4. (\E delay \in Delays : DoReschedule(delay) \/ ForceReschedule(delay)) => ListChange
  BY Rescheduled DEF ListChange
<1>5. DisableTask \/ CancelTask \/ EndDestroy => ListChange \/ SectionStep
  BY Cancelled DEF ListChange, SectionStep, vars, lists, times, poller, clients, flags
<1> QED
  BY <1>1, <1>2, <1>3, <1>4, <1>5
     DEF OwnStep, ReschedNext, ReschedPoller, Method, Destroy

\* Self's place, its flags, and where the callback is.
LEMMA PlaceStep ==
  ASSUME ReschedInv, [ReschedNext]_allVars
  PROVE  CallbackInv' /\ SoloInv' /\ ScheduledInv'
<1> USE DEF rvars, lists, ReschedInv
<1>0. rflags \in FlagsT /\ word \in SUBSET FlagsT
  BY DEF ReschedTypeOK
<1>1. CASE OtherPoller
  <2>1. Poller /\ UNCHANGED rvars /\ cb = "none"
    BY <1>1 DEF OtherPoller
  <2>2. /\ Linked(Self)' => Linked(Self)
        /\ InHand => InHand' \/ (RunTask /\ mQtl[1].node = Self)
        /\ SoloInv'
    BY <2>1, PollerKeeps
  <2>3. ~(RunTask /\ mQtl[1].node = Self)
    BY <1>1 DEF OtherPoller, RunTask
  <2>4. lock' \in {lock, "free", "poll"}
    BY <2>1 DEF Poller, CheckRunning, TestEnabled, ReadEvents, ClearEvents, RunEvent,
       EventsDone, BeginPoll, EnterPoll, CollectOneShot, BeginIterations, PollIterations,
       BeginTimers, PollTimers, PollTimedUnlist, PollTimedRelist, PollTimedDone, ExitPoll,
       RunTask, Decide, TakeToken, WaitTimeout
  <2>5. CallbackInv'
    <3>1. pc' \in OutsidePass => mQtl' = << >>
      BY <2>1, PollerQueue DEF CallbackInv
    <3> QED BY <2>1, <2>4, <3>1 DEF CallbackInv, OutsidePass
  <2>6. OnItsWay => OnItsWay'
    BY <2>1, <2>2, <2>3 DEF OnItsWay, InHand, Queued, CurNodes
  <2> QED BY <2>1, <2>2, <2>5, <2>6 DEF ScheduledInv
<1>2. CASE EnterCallback
  <2>1. /\ RunTask /\ cb = "none" /\ UNCHANGED <<rflags, mNextExec, dtor, word, undone>>
        /\ cb' = IF dtor = "alive" THEN "lock" ELSE "none"
    BY <1>2 DEF EnterCallback
  <2>2. Linked(Self)' => Linked(Self)
    BY <2>1 DEF RunTask, Linked
  <2>3. SoloInv'
    BY <2>1, PollerKeeps DEF Poller
  <2>4. CallbackInv'
    BY <2>1 DEF RunTask, CallbackInv, OutsidePass, poller
  <2>5. dtor' = "alive" => OnItsWay'
    BY <2>1 DEF OnItsWay
  <2> QED BY <2>1, <2>2, <2>3, <2>4, <2>5 DEF ScheduledInv
<1>3. ASSUME UNCHANGED <<lists, cur, stamped, mQtl, pc, mNextExec>>
      PROVE  /\ SoloInv' /\ (Linked(Self)' <=> Linked(Self)) /\ (InHand' <=> InHand)
             /\ pc' \in OutsidePass => mQtl' = << >>
  BY <1>3 DEF SoloInv, OnlyTimer, Linked, InHand, Queued, CurNodes, CallbackInv, OutsidePass
<1>4. CASE LockCallback \/ UnlockCallback \/ CallApp
  <2>1. /\ UNCHANGED <<lists, cur, stamped, mQtl, pc, mNextExec, dtor, word, undone>>
        /\ rflags'.mIsScheduled = rflags.mIsScheduled
    BY <1>0, <1>4 DEF LockCallback, UnlockCallback, CallApp, CallbackStep, poller, clients,
       AddLocks, FlagsT
  <2>2. CallbackInv'
    <3>1. /\ lock' = "resched" <=> cb' \in {"decide", "unlock", "unlockAndCall"}
          /\ cb # "none"
      BY <1>4 DEF LockCallback, UnlockCallback, CallApp, LockFree, CallbackInv
    <3> QED BY <1>3, <2>1, <3>1 DEF CallbackInv
  <2>3. cb \in {"lock", "decide"} => cb' \in {"lock", "decide"}
    BY <1>4 DEF LockCallback, UnlockCallback, CallApp
  <2> QED
    BY <1>3, <2>1, <2>2, <2>3, OnItsWayMeans DEF ScheduledInv, OnItsWay, InHand, Queued, CurNodes
<1>5. CASE DecideCallback
  <2>1. /\ UNCHANGED <<lists, cur, stamped, mQtl, pc, mNextExec, dtor, word, undone, lock>>
        /\ cb = "decide" /\ cb' \in {"unlock", "unlockAndCall"}
        /\ \/ rflags.mIsScheduled /\ ~Linked(Self) /\ ~rflags'.mIsScheduled
           \/ ~(rflags.mIsScheduled /\ ~Linked(Self)) /\ rflags' = rflags
    BY <1>0, <1>5 DEF DecideCallback, CallbackStep, poller, clients, FlagsT
  <2>2. CallbackInv'
    BY <1>3, <2>1 DEF CallbackInv
  <2>3. (Linked(Self)' <=> Linked(Self)) /\ SoloInv'
    BY <1>3, <2>1
  <2>4. Linked(Self)' => OnItsWay'
    BY DEF OnItsWay
  <2> QED BY <2>1, <2>2, <2>3, <2>4 DEF ScheduledInv
<1>6. CASE OtherCall
  <2>1. PICK n \in Nodes \ {Self} : AddOneShot(n) /\ UNCHANGED rvars
    BY <1>6 DEF OtherCall
  <2>2. /\ mOneShotsList' = Append(mOneShotsList, [node |-> n, period |-> 0])
        /\ UNCHANGED <<mTimerBasedList, mIterationsBasedList, cur, stamped, mQtl, pc, lock>>
    BY <2>1 DEF AddOneShot, poller, clients
  <2> DEFINE e == [node |-> n, period |-> 0]
  <2>3. e \in OneShotEntry /\ e.node = n /\ e.period = 0
    BY DEF OneShotEntry
  <2>4. n \notin NodesOf(mOneShotsList) /\ Distinct(mOneShotsList)
        /\ mOneShotsList \in Seq(OneShotEntry)
    BY <2>1, ListTypes DEF AddOneShot, MayAdd, Linked, OrderInv, PlacesInv
  <2> HIDE DEF e
  <2>5. NodesOf(Append(mOneShotsList, e)) = NodesOf(mOneShotsList) \cup {n}
    BY <2>3, <2>4, AppendNodes
  <2>6. \A i \in DOMAIN Append(mOneShotsList, e) : Append(mOneShotsList, e)[i].period = 0
    <3>1. \A i \in DOMAIN Append(mOneShotsList, e) :
            \/ i \in DOMAIN mOneShotsList /\ Append(mOneShotsList, e)[i] = mOneShotsList[i]
            \/ Append(mOneShotsList, e)[i] = e
      BY <2>3, <2>4
    <3> QED BY <3>1, <2>3 DEF SoloInv
  <2>7. mOneShotsList' = Append(mOneShotsList, e)
    BY <2>2 DEF e
  <2>8. SoloInv'
    BY <2>1, <2>2, <2>6, <2>7 DEF SoloInv, OnlyTimer
  <2>9. (Linked(Self)' <=> Linked(Self)) /\ (OnItsWay <=> OnItsWay')
    BY <2>1, <2>2, <2>5, <2>7 DEF Linked, OnItsWay
  <2>10. CallbackInv'
    BY <2>1, <2>2 DEF CallbackInv, OutsidePass
  <2> QED BY <2>1, <2>8, <2>9, <2>10 DEF ScheduledInv
<1>7. CASE ReschedTick \/ EnableTask \/ UNCHANGED allVars
  <2>1. /\ UNCHANGED <<lists, cur, stamped, mQtl, pc, mNextExec, dtor, word, undone, lock, cb>>
        /\ rflags'.mIsScheduled = rflags.mIsScheduled
    BY <1>0, <1>7 DEF ReschedTick, Tick, EnableTask, allVars, vars, poller, clients, FlagsT
  <2>2. CallbackInv'
    BY <1>3, <2>1 DEF CallbackInv
  <2> QED
    BY <1>3, <2>1, <2>2 DEF ScheduledInv, OnItsWay, InHand, Queued, CurNodes
<1>8. CASE LoadFlags
  <2>1. /\ UNCHANGED <<lists, cur, stamped, mQtl, pc, mNextExec, rflags, undone, lock, cb>>
        /\ dtor = "alive" /\ dtor' = "store" /\ word' = {rflags}
    BY <1>8 DEF LoadFlags, vars, poller, clients
  <2>2. CallbackInv'
    BY <1>3, <2>1 DEF CallbackInv
  <2> QED BY <1>3, <2>1, <2>2 DEF ScheduledInv
<1>9. CASE StoreFlags
  <2>1. PICK w \in word : /\ rflags' = [w EXCEPT !.mIsEnabled = FALSE]
                           /\ undone' = (rflags.mIsScheduled /\ ~w.mIsScheduled)
    BY <1>9 DEF StoreFlags
  <2>2. /\ UNCHANGED <<lists, cur, stamped, mQtl, pc, mNextExec, lock, cb>>
        /\ dtor = "store" /\ dtor' = "lock" /\ word' = {}
        /\ rflags'.mIsScheduled = w.mIsScheduled
    BY <1>0, <1>9, <2>1 DEF StoreFlags, vars, poller, clients, FlagsT
  <2>3. CallbackInv'
    BY <1>3, <2>2 DEF CallbackInv
  <2>4. /\ Linked(Self)' => undone' \/ rflags'.mIsScheduled
        /\ SoloInv'
    BY <1>3, <2>1, <2>2 DEF ScheduledInv
  <2> QED BY <2>2, <2>3, <2>4 DEF ScheduledInv
<1>10. CASE DisableTask \/ CancelTask \/ EndDestroy
  <2>1. /\ UNCHANGED <<mNextExec, cb, word, undone>> /\ ~rflags'.mIsScheduled
        /\ \/ UNCHANGED dtor
           \/ dtor = "lock" /\ dtor' = "dead"
    <3>1. PICK b \in {rflags.mIsEnabled, FALSE} :
            rflags' = [rflags EXCEPT !.mIsEnabled = b, !.mIsScheduled = FALSE]
      BY <1>10, Cancelled
    <3> QED BY <1>0, <1>10, <3>1, Cancelled DEF FlagsT
  <2>2. CASE Unlists
    <3>1. /\ ~Linked(Self)' /\ UNCHANGED mIterationsBasedList
          /\ \A i \in DOMAIN mOneShotsList' : mOneShotsList'[i].period = 0
      BY <2>2, ListsAfter DEF ListChange
    <3>2. mTimerBasedList' = << >>
      BY <2>2, Unlisted
    <3>3. UNCHANGED <<lock, mQtl, cur, stamped, pc>>
      BY <2>2 DEF Unlists, poller, clients
    <3>4. SoloInv' /\ CallbackInv'
      BY <2>1, <3>1, <3>2, <3>3 DEF SoloInv, OnlyTimer, CallbackInv, OutsidePass
    <3> QED BY <2>1, <3>1, <3>4 DEF ScheduledInv
  <2>3. CASE ~rflags.mIsScheduled /\ UNCHANGED vars
    <3>1. UNCHANGED <<lists, cur, stamped, mQtl, pc, mNextExec, lock, cb, word, undone>>
      BY <2>1, <2>3 DEF vars, poller, clients
    <3>2. CallbackInv'
      BY <1>3, <2>1, <3>1 DEF CallbackInv
    <3> QED BY <1>3, <2>1, <2>3, <3>1, <3>2 DEF ScheduledInv
  <2> QED BY <1>10, <2>2, <2>3, Cancelled
<1>11. ASSUME NEW delay \in Delays, DoReschedule(delay) \/ ForceReschedule(delay)
       PROVE  CallbackInv' /\ SoloInv' /\ ScheduledInv'
  <2>1. /\ Relists(delay) /\ dtor # "dead" /\ mNextExec' = NextExec(delay)
        /\ rflags'.mIsScheduled /\ UNCHANGED <<cb, dtor, word, undone>>
    BY <1>0, <1>11, Rescheduled DEF MayCall, FlagsT
  <2>2. UNCHANGED <<lock, mQtl, cur, stamped, pc>>
    BY <2>1 DEF Relists, poller, clients
  <2>3. /\ Linked(Self)' /\ UNCHANGED mIterationsBasedList
        /\ \A i \in DOMAIN mOneShotsList' : mOneShotsList'[i].period = 0
    BY <2>1, ListsAfter DEF ListChange
  <2>4. mTimerBasedList' = << >> \/ mTimerBasedList' = TimerAt(mNextExec')
    BY <2>1, Relisted
  <2>5. \A i \in DOMAIN mTimerBasedList' : mTimerBasedList'[i] = OnlyTimer'
    BY <2>4 DEF TimerAt, OnlyTimer
  <2>6. SoloInv' /\ CallbackInv'
    BY <2>1, <2>2, <2>3, <2>5 DEF SoloInv, CallbackInv, OutsidePass
  <2>7. OnItsWay'
    BY <2>3 DEF OnItsWay
  <2> QED BY <2>1, <2>6, <2>7 DEF ScheduledInv
<1> QED
  BY <1>1, <1>2, <1>4, <1>5, <1>6, <1>7, <1>8, <1>9, <1>10, <1>11
     DEF ReschedNext, ReschedPoller, Callback, Method, Destroy

LEMMA InvKept == ReschedSpec => []ReschedInv
<1>1. ReschedInv /\ [ReschedNext]_allVars => ReschedInv'
  BY TypeStepR, OrderStepR, PlaceStep DEF ReschedInv
<1> QED BY <1>1, InvInit, PTL DEF ReschedSpec

-----------------------------------------------------------------------------
(* The theorems.                                                            *)

\* The variables of the rescheduler and of the scheduler under it keep their types,
\* whoever destroys the object while its callback runs.
THEOREM ReschedTypeCorrect == ReschedSpec => [](TypeOK /\ ReschedTypeOK)
<1>1. ReschedInv => TypeOK /\ ReschedTypeOK
  BY DEF ReschedInv, OrderInv
<1> QED BY <1>1, InvKept, PTL

\* As long as the object lives mIsScheduled tells the truth: doReschedule never lists
\* a node that is listed, and never leaves alone a task that would then never run.
THEOREM ScheduledTold == ReschedSpec => []ScheduledIsTrue
<1>1. ReschedInv => ScheduledIsTrue
  BY DEF ReschedInv, ScheduledInv, ScheduledIsTrue
<1> QED BY <1>1, InvKept, PTL

\* The node of a destroyed object is in no list, although the destructor stores flags
\* it loaded before the callback cleared mIsScheduled in them, and although the function
\* of the callback may go on calling methods: unless what the destructor stored undid
\* the mIsScheduled of such a call.
THEOREM DestroyedUnlisted == ReschedSpec => []DestroyedIsUnlisted
<1>1. ReschedInv => DestroyedIsUnlisted
  BY DEF ReschedInv, ScheduledInv, DestroyedIsUnlisted
<1> QED BY <1>1, InvKept, PTL

LEMMA NotEarlier ==
  ASSUME NEW a \in Int, NEW b \in Int, ~(TimeDiff(a, b) < 0)
  PROVE  TimeDiff(b, a) <= 0
<1>1. TimeDiff(a, b) \in Int
  BY DiffMeans
<1>2. TimeDiff(a, b) > - Half
  BY <1>1, HalfMeans
<1> QED BY <1>1, <1>2, DiffSwap

\* doReschedule leaves a scheduled task alone only if its timer comes no later than
\* the time asked for, for every range of the clock and every delay.
THEOREM ReschedulesSoon == ReschedSpec => []ReschedulesInTime
<1>1. ReschedInv => ReschedulesInTime
  <2> SUFFICES ASSUME ReschedInv, NEW delay \in Delays, NEW i \in DOMAIN mTimerBasedList,
                      ~Earlier(delay)
               PROVE  TimeDiff(mTimerBasedList[i].at, NextExec(delay)) <= 0
    BY DEF ReschedulesInTime
  <2>1. mTimerBasedList[i].at = mNextExec
    BY DEF ReschedInv, SoloInv, OnlyTimer
  <2>2. mNextExec \in Int /\ NextExec(delay) \in Int
    BY Parameters, TimeTypes, TimeAddType, TimesInt
       DEF NextExec, OrderInv, ReschedInv, ReschedTypeOK
  <2>3. ~(TimeDiff(NextExec(delay), mNextExec) < 0)
    BY DEF Earlier
  <2> QED BY <2>1, <2>2, <2>3, NotEarlier
<1> QED BY <1>1, InvKept, PTL

\* The scheduler under a rescheduler loses no wakeup and lists no schedulable twice:
\* what is proved of its API holds of the calls a TaskRescheduler makes.
THEOREM ReschedKeepsScheduler == ReschedSpec => [](NoLostWakeup /\ LinkedOnce)
<1>1. ReschedInv => NoLostWakeup
  BY DEF ReschedInv, OrderInv, TypeOK, NoLostWakeup, Blocked, WakeInv, IdleHasNoThread,
         QuitLeavesToken, EnableLeavesToken, EventLeavesToken, OneShotLeavesToken,
         TimerLeavesToken, AfterEvents
<1>2. ReschedInv => LinkedOnce
  BY OnceLinked DEF ReschedInv
<1> QED BY <1>1, <1>2, InvKept, PTL
=============================================================================
