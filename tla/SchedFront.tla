------------------------------ MODULE SchedFront ------------------------------
(***************************************************************************)
(* The front of task_sched/task_sched.cpp, before TaskSched's one          *)
(* priority: the lazily built TaskScheduler singleton with its double-     *)
(* checked pointer, the table of event functions and the trigger numbers   *)
(* that name its slots (TaskTrigger holds one), and the one-shots that     *)
(* TaskSchedScheduleFn and TaskSchedScheduleLambda allocate and the        *)
(* callback frees.  Every operation runs in the task-critical section.     *)
(***************************************************************************)
EXTENDS Naturals, FiniteSets, Sequences

CONSTANTS SfThreads, SfNobody,
          NumTasks,      \* priorities 0 .. NumTasks-1 have a task, NumTasks is idle
          NumIsrEvents,  \* NUM_ISR_EVENTS
          EvtMod, PrioMod,   \* 2^16 slots and 2^15 priorities in a trigger number
          SfTriggers,    \* owners of a trigger
          SfFns,         \* event functions
          SfHeap,        \* blocks for allocated one-shots
          SfOwn          \* schedulables of the caller (pSchedToUse)

ASSUME SfAssumption ==
  /\ SfNobody \notin SfThreads /\ SfOwn \cap SfHeap = {}
  /\ {NumTasks, NumIsrEvents, EvtMod, PrioMod} \subseteq Nat
  /\ NumTasks < PrioMod /\ 0 < NumIsrEvents /\ NumIsrEvents <= EvtMod

VARIABLES mInstPtr, mpSchedulers, tasks,   \* tasks: PollTask threads per priority
          sfLock, sfAt,
          slots,         \* the used part of mInterruptEventsAry
          mTrig, installed,      \* of the owners: their trigger, and their last function
          heap, sfListed, sfRunning
sfInst == <<mInstPtr, mpSchedulers, tasks, sfLock, sfAt>>
sfEvents == <<slots, mTrig, installed>>
sfShots == <<heap, sfListed, sfRunning>>
sfVars == <<sfInst, sfEvents, sfShots>>

Prios == 0 .. NumTasks
TriggerTop == EvtMod * PrioMod             \* 0x80000000
TriggerOf(prio, idx) == TriggerTop + prio * EvtMod + idx
PrioOfTrigger(trig) == (trig \div EvtMod) % PrioMod
IdxOfTrigger(trig) == trig % EvtMod

SfInit ==
  /\ mInstPtr = FALSE /\ mpSchedulers = {} /\ tasks = [p \in Prios |-> 0]
  /\ sfLock = SfNobody /\ sfAt = [t \in SfThreads |-> "out"]
  /\ slots = [p \in Prios |-> <<>>]
  /\ mTrig = [o \in SfTriggers |-> 0] /\ installed = [o \in SfTriggers |-> SfNobody]
  /\ heap = {} /\ sfListed = {} /\ sfRunning = {}

(* TaskScheduler::inst *)
SfGoto(t, label) == sfAt' = [sfAt EXCEPT ![t] = label]
InstTest(t) ==
  /\ sfAt[t] = "out"
  /\ SfGoto(t, IF mInstPtr THEN "ready" ELSE "enter")
  /\ UNCHANGED <<mInstPtr, mpSchedulers, tasks, sfLock>>
InstEnter(t) ==
  /\ sfAt[t] = "enter" /\ sfLock = SfNobody
  /\ sfLock' = t /\ SfGoto(t, "again")
  /\ UNCHANGED <<mInstPtr, mpSchedulers, tasks>>
InstTestAgain_Not(t) ==                    \* (variant: no second test)
  /\ sfAt[t] = "again" /\ SfGoto(t, "publish")
  /\ UNCHANGED <<mInstPtr, mpSchedulers, tasks, sfLock>>
InstTestAgain(t) ==
  /\ sfAt[t] = "again"
  /\ SfGoto(t, IF mInstPtr THEN "leave" ELSE "publish")
  /\ UNCHANGED <<mInstPtr, mpSchedulers, tasks, sfLock>>
\* the constructor sets mInstPtr before the pointers it is used for
CtorPublish(t) ==
  /\ sfAt[t] = "publish" /\ mInstPtr' = TRUE /\ SfGoto(t, "fill")
  /\ UNCHANGED <<mpSchedulers, tasks, sfLock>>
CtorFill(t) ==
  /\ sfAt[t] = "fill" /\ mpSchedulers' = Prios \ {NumTasks} /\ SfGoto(t, "start")
  /\ UNCHANGED <<mInstPtr, tasks, sfLock>>
\* Start makes no task for the idle priority
CtorStart(t) ==
  /\ sfAt[t] = "start"
  /\ tasks' = [p \in Prios |-> IF p < NumTasks THEN tasks[p] + 1 ELSE tasks[p]]
  /\ mpSchedulers' = Prios /\ SfGoto(t, "leave")
  /\ UNCHANGED <<mInstPtr, sfLock>>
InstLeave(t) ==
  /\ sfAt[t] = "leave" /\ sfLock' = SfNobody /\ SfGoto(t, "ready")
  /\ UNCHANGED <<mInstPtr, mpSchedulers, tasks>>

\* what TaskScheduler::inst().getScheduler(prio) gives one of the threads
GetScheduler(prio) == (\E t \in SfThreads : sfAt[t] = "ready") /\ prio \in mpSchedulers

(* The event table *)
AddEventFn_LateIndex(o, prio, f) ==        \* (variant: the index after the increment)
  LET trig == TriggerOf(prio, Len(slots[prio]) + 1) IN
  /\ GetScheduler(prio) /\ sfLock = SfNobody /\ mTrig[o] = 0
  /\ \/ Len(slots[prio]) < NumIsrEvents
        /\ slots' = [slots EXCEPT ![prio] = Append(@, f)]
        /\ mTrig' = [mTrig EXCEPT ![o] = trig] /\ installed' = [installed EXCEPT ![o] = f]
     \/ Len(slots[prio]) = NumIsrEvents /\ UNCHANGED <<slots, mTrig, installed>>
\* trigToOverwrite = 0, as TaskTrigger's constructor passes it; a full table gives 0
AddEventFn(o, prio, f) ==
  LET trig == TriggerOf(prio, Len(slots[prio])) IN
  /\ GetScheduler(prio) /\ sfLock = SfNobody /\ mTrig[o] = 0
  /\ \/ Len(slots[prio]) < NumIsrEvents
        /\ slots' = [slots EXCEPT ![prio] = Append(@, f)]
        /\ mTrig' = [mTrig EXCEPT ![o] = trig] /\ installed' = [installed EXCEPT ![o] = f]
     \/ Len(slots[prio]) = NumIsrEvents /\ UNCHANGED <<slots, mTrig, installed>>
\* trigToOverwrite # 0: the slot is reused, unless the table is full
AddEventFnAgain(o, f) ==
  LET prio == PrioOfTrigger(mTrig[o])
      idx == IdxOfTrigger(mTrig[o]) IN
  /\ mTrig[o] # 0 /\ GetScheduler(prio) /\ sfLock = SfNobody
  /\ \/ Len(slots[prio]) < NumIsrEvents
        /\ slots' = [slots EXCEPT ![prio][idx + 1] = f]
        /\ installed' = [installed EXCEPT ![o] = f] /\ UNCHANGED mTrig
     \/ Len(slots[prio]) = NumIsrEvents
        /\ mTrig' = [mTrig EXCEPT ![o] = 0] /\ UNCHANGED <<slots, installed>>

(* One-shots *)
\* nothing is scheduled when the allocation fails
ScheduleFn(b) ==
  /\ GetScheduler(0) /\ sfLock = SfNobody /\ b \in SfHeap \ heap
  /\ heap' = heap \cup {b} /\ sfListed' = sfListed \cup {b}
  /\ UNCHANGED sfRunning
\* a caller's schedulable must not be listed (assertion in TaskSchedAddTimerFn)
ScheduleLambda(s) ==
  /\ GetScheduler(0) /\ sfLock = SfNobody
  /\ \/ s \in SfOwn \ sfListed /\ sfListed' = sfListed \cup {s} /\ UNCHANGED heap
     \/ s \in SfHeap \ heap /\ heap' = heap \cup {s} /\ sfListed' = sfListed \cup {s}
  /\ UNCHANGED sfRunning
\* the task takes it off the list and calls it later, outside of the section
TakeShot(b) ==
  /\ sfLock = SfNobody /\ b \in sfListed \ sfRunning
  /\ sfListed' = sfListed \ {b} /\ sfRunning' = sfRunning \cup {b}
  /\ UNCHANGED heap
ScheduleFnCb_NoFree(b) ==                  \* (variant: the block is not freed)
  /\ b \in sfRunning /\ sfRunning' = sfRunning \ {b}
  /\ UNCHANGED <<heap, sfListed>>
ScheduleFnCb(b) ==
  /\ b \in sfRunning /\ sfRunning' = sfRunning \ {b}
  /\ heap' = heap \ {b}                    \* a caller's schedulable is not in it
  /\ UNCHANGED sfListed

SfNext ==
  \/ \E t \in SfThreads :
       /\ \/ InstTest(t) \/ InstEnter(t) \/ InstTestAgain(t) \/ InstLeave(t)
          \/ CtorPublish(t) \/ CtorFill(t) \/ CtorStart(t)
       /\ UNCHANGED <<sfEvents, sfShots>>
  \/ /\ \E o \in SfTriggers, f \in SfFns :
          (\E p \in Prios : AddEventFn(o, p, f)) \/ AddEventFnAgain(o, f)
     /\ UNCHANGED <<sfInst, sfShots>>
  \/ /\ \E b \in SfHeap \cup SfOwn :
          ScheduleFn(b) \/ ScheduleLambda(b) \/ TakeShot(b) \/ ScheduleFnCb(b)
     /\ UNCHANGED <<sfInst, sfEvents>>
SfSpec == SfInit /\ [][SfNext]_sfVars

(***************************************************************************)
(* Properties                                                              *)
(***************************************************************************)
\* However many threads race for the first TaskScheduler::inst, the constructor
\* runs once: no priority ever has a second PollTask thread (which would break
\* its "only called from one thread" assertions), and a thread that went through
\* the section itself comes out with every scheduler pointer filled.
SchedulerBuiltOnce ==
  /\ \A p \in Prios : tasks[p] <= 1
  /\ \A t \in SfThreads : sfAt[t] = "leave" => mpSchedulers = Prios

\* A trigger number that AddEventFn gave out names the slot that holds the
\* function its owner installed last, whatever others registered or installed
\* again in between, and no two owners share one.
TriggersReachOwnFn ==
  \A o \in SfTriggers : mTrig[o] # 0 =>
    /\ IdxOfTrigger(mTrig[o]) < Len(slots[PrioOfTrigger(mTrig[o])])
    /\ slots[PrioOfTrigger(mTrig[o])][IdxOfTrigger(mTrig[o]) + 1] = installed[o]
    /\ \A q \in SfTriggers \ {o} : mTrig[q] # mTrig[o]

\* The memory of an allocated one-shot is held from the call that schedules it
\* to the end of its callback: none is freed while it is listed or running, and
\* none stays allocated after it ran.
OneShotsHeld == heap = (sfListed \cup sfRunning) \cap SfHeap
=============================================================================
