----------------------------- MODULE OsalTiRtos -----------------------------
(***************************************************************************)
(* The TI-RTOS port, src/sop_src/osal/osal_tirtos.cpp: a recursive mutex   *)
(* made of a binary semaphore and unprotected owner fields, a counting     *)
(* semaphore whose maximum the port enforces itself, and the stack of      *)
(* interrupt keys of the critical sections.  The semaphores and the        *)
(* interrupt control of the system are external.                           *)
(***************************************************************************)
EXTENDS Naturals, Sequences, FiniteSets

CONSTANTS TiTasks,      \* tasks
          TiNone,       \* NULL
          TiMaxDepth,   \* bound: locks a task nests
          TiMaxCnt,     \* mMaxCnt
          TiMaxInc,     \* bound: largest argument of signal
          TiMaxDisables \* MAX_NESTED_DISABLES

ASSUME TiAssumption ==
  /\ TiNone \notin TiTasks /\ IsFiniteSet(TiTasks) /\ TiTasks # {}
  /\ {TiMaxCnt, TiMaxInc} \subseteq Nat

VARIABLES
  tiPc,        \* per task: where in lock, unlock or signal it is
  tiBinary,    \* mHandle of the mutex: free or taken
  tiIsOwned, tiCurrentOwner, tiCnt,     \* mIsOwned, mCurrentOwner, mCnt
  tiHolds,     \* per task: successful locks not yet unlocked
  tiCount,     \* mHandle of the counting semaphore
  tiPosts,     \* per task: posts of its signal still to do
  tiKeys,      \* hwiDisableKeys and hwiDisableCnt: were interrupts on before?
  tiHwi        \* interrupts are on

tiMutexVars == <<tiBinary, tiIsOwned, tiCurrentOwner, tiCnt, tiHolds>>
tiSemVars == <<tiCount, tiPosts>>
tiHwiVars == <<tiKeys, tiHwi>>
tiVars == <<tiPc, tiMutexVars, tiSemVars, tiHwiVars>>

TiInit ==
  /\ tiPc = [t \in TiTasks |-> "idle"]
  /\ tiBinary = TRUE /\ tiIsOwned = FALSE /\ tiCurrentOwner = TiNone /\ tiCnt = 0
  /\ tiHolds = [t \in TiTasks |-> 0]
  /\ tiCount = 0 /\ tiPosts = [t \in TiTasks |-> 0]
  /\ tiKeys = <<>> /\ tiHwi = TRUE

TiGoto(t, from, to) == tiPc[t] = from /\ tiPc' = [tiPc EXCEPT ![t] = to]
\* A task runs while interrupts are on; with them off only the one that took them.
TiRuns(t) == tiHwi \/ tiPc[t] = "critical"

-----------------------------------------------------------------------------
(* osal_Mutex.                                                             *)

LockTestOwned(t) ==
  /\ tiHolds[t] < TiMaxDepth
  /\ TiGoto(t, "idle", IF tiIsOwned THEN "testOwner" ELSE "pend")
  /\ UNCHANGED <<tiMutexVars, tiSemVars, tiHwiVars>>

LockTestOwner(t) ==
  /\ TiGoto(t, "testOwner", IF tiCurrentOwner = t THEN "own" ELSE "pend")
  /\ UNCHANGED <<tiMutexVars, tiSemVars, tiHwiVars>>

\* Semaphore_pend: it gets the semaphore, or its time is up.
LockPend(t) ==
  \/ /\ tiBinary
     /\ tiBinary' = FALSE
     /\ TiGoto(t, "pend", "own")
     /\ UNCHANGED <<tiIsOwned, tiCurrentOwner, tiCnt, tiHolds, tiSemVars, tiHwiVars>>
  \/ /\ ~tiBinary
     /\ TiGoto(t, "pend", "idle")
     /\ UNCHANGED <<tiMutexVars, tiSemVars, tiHwiVars>>

LockSetOwned(t) ==
  /\ TiGoto(t, "own", "setOwner")
  /\ tiIsOwned' = TRUE
  /\ UNCHANGED <<tiBinary, tiCurrentOwner, tiCnt, tiHolds, tiSemVars, tiHwiVars>>

LockSetOwner(t) ==
  /\ TiGoto(t, "setOwner", "idle")
  /\ tiCurrentOwner' = t
  /\ tiCnt' = tiCnt + 1
  /\ tiHolds' = [tiHolds EXCEPT ![t] = @ + 1]
  /\ UNCHANGED <<tiBinary, tiIsOwned, tiSemVars, tiHwiVars>>

Unlock(t) ==
  /\ tiHolds[t] > 0
  /\ TiGoto(t, "idle", IF tiCnt = 1 THEN "clear" ELSE "idle")
  /\ tiCnt' = tiCnt - 1
  /\ tiHolds' = [tiHolds EXCEPT ![t] = @ - 1]
  /\ UNCHANGED <<tiBinary, tiIsOwned, tiCurrentOwner, tiSemVars, tiHwiVars>>

\* (variant: the old owner's handle stays)
UnlockClear_KeepOwner(t) ==
  /\ TiGoto(t, "clear", "post")
  /\ tiIsOwned' = FALSE
  /\ UNCHANGED <<tiBinary, tiCurrentOwner, tiCnt, tiHolds, tiSemVars, tiHwiVars>>

UnlockClear(t) ==
  /\ TiGoto(t, "clear", "post")
  /\ tiIsOwned' = FALSE
  /\ tiCurrentOwner' = TiNone
  /\ UNCHANGED <<tiBinary, tiCnt, tiHolds, tiSemVars, tiHwiVars>>

UnlockPost(t) ==
  /\ TiGoto(t, "post", "idle")
  /\ tiBinary' = TRUE
  /\ UNCHANGED <<tiIsOwned, tiCurrentOwner, tiCnt, tiHolds, tiSemVars, tiHwiVars>>

-----------------------------------------------------------------------------
(* osal_CntSem.                                                            *)

TiMin(a, b) == IF a < b THEN a ELSE b

\* (variant: the count is not limited)
SignalCompute_NoLimit(t, inc) ==
  /\ TiGoto(t, "idle", "posting")
  /\ tiPosts' = [tiPosts EXCEPT ![t] = inc]
  /\ UNCHANGED <<tiMutexVars, tiCount, tiHwiVars>>

\* The posts to do are computed in a critical section and done after it.
SignalCompute(t, inc) ==
  /\ TiGoto(t, "idle", "posting")
  /\ tiPosts' = [tiPosts EXCEPT ![t] =
                    IF tiCount >= TiMaxCnt THEN 0 ELSE TiMin(inc, TiMaxCnt - tiCount)]
  /\ UNCHANGED <<tiMutexVars, tiCount, tiHwiVars>>

SignalPost(t) ==
  /\ TiGoto(t, "posting", IF tiPosts[t] <= 1 THEN "idle" ELSE "posting")
  /\ tiCount' = tiCount + TiMin(tiPosts[t], 1)
  /\ tiPosts' = [tiPosts EXCEPT ![t] = @ - TiMin(@, 1)]
  /\ UNCHANGED <<tiMutexVars, tiHwiVars>>

Wait(t) ==
  /\ tiPc[t] = "idle" /\ tiCount > 0
  /\ tiCount' = tiCount - 1
  /\ UNCHANGED <<tiPc, tiMutexVars, tiPosts, tiHwiVars>>

-----------------------------------------------------------------------------
(* Critical sections.                                                      *)

EnterCritical(t) ==
  /\ tiPc[t] \in {"idle", "critical"} /\ Len(tiKeys) < TiMaxDisables
  /\ tiPc' = [tiPc EXCEPT ![t] = "critical"]
  /\ tiKeys' = Append(tiKeys, tiHwi)
  /\ tiHwi' = FALSE
  /\ UNCHANGED <<tiMutexVars, tiSemVars>>

ExitCritical(t) ==
  /\ tiPc[t] = "critical"
  /\ tiHwi' = tiKeys[Len(tiKeys)]
  /\ tiKeys' = SubSeq(tiKeys, 1, Len(tiKeys) - 1)
  /\ tiPc' = [tiPc EXCEPT ![t] = IF tiHwi' THEN "idle" ELSE "critical"]
  /\ UNCHANGED <<tiMutexVars, tiSemVars>>

TiNext ==
  \E t \in TiTasks : TiRuns(t) /\
    \/ LockTestOwned(t) \/ LockTestOwner(t) \/ LockPend(t) \/ LockSetOwned(t) \/ LockSetOwner(t)
    \/ Unlock(t) \/ UnlockClear(t) \/ UnlockPost(t)
    \/ (\E inc \in 1 .. TiMaxInc : SignalCompute(t, inc)) \/ SignalPost(t) \/ Wait(t)
    \/ EnterCritical(t) \/ ExitCritical(t)
TiSpec == TiInit /\ [][TiNext]_tiVars

-----------------------------------------------------------------------------
(* Properties.                                                             *)

\* The owner fields are written by one task and read by others with no lock; the
\* test of a task that does not hold the mutex never takes it for the owner, so
\* two tasks never hold it, and the count is that of its holder's locks
\* (osal_tirtos.cpp, osal_Mutex).
TiMutexExclusive ==
  /\ \A t, u \in TiTasks : tiHolds[t] > 0 /\ tiHolds[u] > 0 => t = u
  /\ \A t \in TiTasks : tiHolds[t] > 0 => tiCnt = tiHolds[t] /\ ~tiBinary

\* Signals take the count over the maximum by no more than the other tasks'
\* signals that are under way: each is computed under the lock, posted after it.
TiCountBounded == tiCount <= TiMaxCnt + (Cardinality(TiTasks) - 1) * TiMaxInc
=============================================================================
