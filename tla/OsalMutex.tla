----------------------------- MODULE OsalMutex ------------------------------
(***************************************************************************)
(* OSALLockMutex, OSALUnlockMutex and OSALDeleteMutex where the system's   *)
(* mutex is recursive: osal_posix.cpp and osal_win32.cpp, which            *)
(* poll for a lock with a timeout, and osal_freertos.cpp, where a timeout  *)
(* is the kernel's and OSAL_WAIT_INFINITE is thirty seconds.  The          *)
(* recursive mutex of the system is external.                              *)
(***************************************************************************)
EXTENDS Naturals

CONSTANTS MxThreads,
          MxNobody,
          MxPorts,        \* "posix", "win32", "freertos"
          MxTimeouts,     \* finite timeouts, in polls
          MxForever,      \* the 30 s of FreeRTOS, in polls
          MxDelete,       \* the 10 s of the destructors, in polls
          MxMaxDepth      \* bound: nested locks of a thread

\* mxOwner tells a thread from none.
ASSUME MxAssumption == MxNobody \notin MxThreads

VARIABLES
  mxPort,      \* the system, the same for ever
  mxOwner, mxDepth,    \* the recursive mutex
  mxLeft,      \* per thread: polls until its timeout
  mxPc,        \* per thread: idle, try (with timeout), wait (without), and of its
               \* delete: delete (locks), unlock, destroy
  mxState,     \* "exists", "deleted", "exited": exit(-1) or a failed assertion
  mxLate       \* history: somebody took the mutex after the destructor gave it back

mxVars == <<mxPort, mxOwner, mxDepth, mxLeft, mxPc, mxState, mxLate>>

MxInit ==
  /\ mxPort \in MxPorts
  /\ mxOwner = MxNobody /\ mxDepth = 0
  /\ mxLeft = [t \in MxThreads |-> 0]
  /\ mxPc = [t \in MxThreads |-> "idle"]
  /\ mxState = "exists"
  /\ mxLate = FALSE

MxGoto(t, label) == mxPc' = [mxPc EXCEPT ![t] = label]
Deleting == \E t \in MxThreads : mxPc[t] \in {"delete", "unlock", "destroy"}
Polls == mxPort \in {"posix", "win32"}

\* The system's recursive mutex.
MxFree(t) == mxOwner \in {MxNobody, t}
MxTake(t) == mxOwner' = t /\ mxDepth' = mxDepth + 1
MxGive(t) == /\ mxOwner = t
             /\ mxDepth' = mxDepth - 1
             /\ mxOwner' = IF mxDepth = 1 THEN MxNobody ELSE mxOwner

\* A caller asks for the mutex, for so long.
Asks(t, label, polls) ==
  /\ MxGoto(t, label)
  /\ mxLeft' = [mxLeft EXCEPT ![t] = polls]
  /\ UNCHANGED <<mxPort, mxOwner, mxDepth, mxState, mxLate>>

-----------------------------------------------------------------------------
(* osal_posix.cpp and osal_win32.cpp.                                      *)

\* A timeout of zero does not try at all: the loop runs while time remains.
mutexLock(t) ==
  \/ Asks(t, "wait", 0)
  \/ \E timeout \in MxTimeouts : Asks(t, IF timeout = 0 THEN "idle" ELSE "try", timeout)

OSALLockMutex(t) ==
  Polls /\ mxPc[t] = "idle" /\ mxDepth < MxMaxDepth /\ mutexLock(t)

\* try_lock, or lock, has it.
lockGets(t) ==
  /\ Polls /\ mxPc[t] \in {"try", "wait"} /\ MxFree(t)
  /\ MxTake(t)
  /\ MxGoto(t, "idle")
  /\ mxLeft' = [mxLeft EXCEPT ![t] = 0]
  /\ mxLate' = (mxLate \/ (mxOwner = MxNobody /\ \E u \in MxThreads : mxPc[u] = "destroy"))
  /\ UNCHANGED <<mxPort, mxState>>

\* (variant: the time that remains is not computed again)
lockPolls_Forever(t) ==
  /\ Polls /\ mxPc[t] = "try" /\ ~MxFree(t)
  /\ UNCHANGED mxVars

\* try_lock fails: sleep for a poll, and give up when no time remains.
lockPolls(t) ==
  /\ Polls /\ mxPc[t] = "try" /\ ~MxFree(t)
  /\ mxLeft' = [mxLeft EXCEPT ![t] = IF @ > 1 THEN @ - 1 ELSE 0]
  /\ MxGoto(t, IF mxLeft[t] > 1 THEN "try" ELSE "idle")
  /\ UNCHANGED <<mxPort, mxOwner, mxDepth, mxState, mxLate>>

OSALUnlockMutex(t) ==
  /\ Polls /\ mxPc[t] = "idle"
  /\ MxGive(t)
  /\ UNCHANGED <<mxPort, mxLeft, mxPc, mxState, mxLate>>

\* (variant: the destructor does not lock)
OSALDeleteMutex_NoLock(t) ==
  Polls /\ mxPc[t] = "idle" /\ ~Deleting /\ Asks(t, "destroy", 0)

\* The destructors lock first, with ten seconds to wait.  One thread deletes.
OSALDeleteMutex(t) ==
  Polls /\ mxPc[t] = "idle" /\ ~Deleting /\ Asks(t, "delete", MxDelete)

\* They have the lock ...
dtorLocked(t) ==
  /\ Polls /\ mxPc[t] = "delete" /\ MxFree(t)
  /\ MxTake(t)
  /\ MxGoto(t, "unlock")
  /\ mxLeft' = [mxLeft EXCEPT ![t] = 0]
  /\ UNCHANGED <<mxPort, mxState, mxLate>>

\* ... and give it back, to whoever still waits for it ...
dtorUnlock(t) ==
  /\ mxPc[t] = "unlock"
  /\ MxGive(t)
  /\ MxGoto(t, "destroy")
  /\ UNCHANGED <<mxPort, mxLeft, mxState, mxLate>>

\* ... before the member is destroyed and the memory freed.
dtorDestroys(t) ==
  /\ mxPc[t] = "destroy"
  /\ mxState' = "deleted"
  /\ MxGoto(t, "idle")
  /\ UNCHANGED <<mxPort, mxOwner, mxDepth, mxLeft, mxLate>>

dtorPolls(t) ==
  /\ Polls /\ mxPc[t] = "delete" /\ ~MxFree(t) /\ mxLeft[t] > 1
  /\ mxLeft' = [mxLeft EXCEPT ![t] = @ - 1]
  /\ UNCHANGED <<mxPort, mxOwner, mxDepth, mxPc, mxState, mxLate>>

\* Their time is up.
dtorGivesUp(t, label, state) ==
  /\ mxPc[t] = "delete" /\ ~MxFree(t) /\ mxLeft[t] <= 1
  /\ mxState' = state
  /\ MxGoto(t, label)
  /\ mxLeft' = [mxLeft EXCEPT ![t] = 0]
  /\ UNCHANGED <<mxPort, mxOwner, mxDepth, mxLate>>

\* POSIX: exit(-1).
dtorFails(t) == mxPort = "posix" /\ dtorGivesUp(t, "idle", "exited")

\* Windows says so, and destroys the mutex anyway.
dtorFails_Win32(t) == mxPort = "win32" /\ dtorGivesUp(t, "destroy", "exists")

-----------------------------------------------------------------------------
(* osal_freertos.cpp: the kernel waits.                                    *)

OSALLockMutex_FreeRtos(t) ==
  /\ mxPort = "freertos" /\ mxPc[t] = "idle" /\ mxDepth < MxMaxDepth
  /\ \/ \E timeout \in MxTimeouts : Asks(t, "try", timeout)
     \/ Asks(t, "assert", MxForever)

xSemaphoreTakeRecursive(t) ==
  /\ mxPort = "freertos" /\ mxPc[t] \in {"try", "assert"}
  /\ IF MxFree(t)
     THEN MxTake(t) /\ MxGoto(t, "idle") /\ mxLeft' = [mxLeft EXCEPT ![t] = 0]
     ELSE /\ mxLeft[t] > 0
          /\ mxLeft' = [mxLeft EXCEPT ![t] = @ - 1]
          /\ UNCHANGED <<mxOwner, mxDepth, mxPc>>
  /\ UNCHANGED <<mxPort, mxState, mxLate>>

\* pdFALSE: LOG_ASSERT(stat), if the wait was to be endless.
TakeTimesOut_FreeRtos(t) ==
  /\ mxPort = "freertos" /\ mxPc[t] \in {"try", "assert"} /\ ~MxFree(t) /\ mxLeft[t] = 0
  /\ MxGoto(t, "idle")
  /\ mxState' = IF mxPc[t] = "assert" THEN "exited" ELSE mxState
  /\ UNCHANGED <<mxPort, mxOwner, mxDepth, mxLeft, mxLate>>

OSALUnlockMutex_FreeRtos(t) ==
  /\ mxPort = "freertos" /\ mxPc[t] = "idle"
  /\ MxGive(t)
  /\ UNCHANGED <<mxPort, mxLeft, mxPc, mxState, mxLate>>

\* vSemaphoreDelete asks nobody.
OSALDeleteMutex_FreeRtos(t) ==
  /\ mxPort = "freertos" /\ mxPc[t] = "idle"
  /\ mxState' = "deleted"
  /\ UNCHANGED <<mxPort, mxOwner, mxDepth, mxLeft, mxPc, mxLate>>

-----------------------------------------------------------------------------

\* What a blocked call does without its caller.
MxPoll(t) ==
  /\ mxState = "exists"
  /\ \/ lockGets(t) \/ lockPolls(t)
     \/ dtorLocked(t) \/ dtorUnlock(t) \/ dtorDestroys(t)
     \/ dtorPolls(t) \/ dtorFails(t) \/ dtorFails_Win32(t)
     \/ xSemaphoreTakeRecursive(t) \/ TakeTimesOut_FreeRtos(t)

MxNext ==
  \E t \in MxThreads :
    \/ MxPoll(t)
    \/ /\ mxState = "exists"
       /\ \/ OSALLockMutex(t) \/ OSALLockMutex_FreeRtos(t)
          \/ OSALUnlockMutex(t) \/ OSALUnlockMutex_FreeRtos(t)
          \/ OSALDeleteMutex(t) \/ OSALDeleteMutex_FreeRtos(t)

\* The system goes on with each thread that sleeps or waits.
MxFairness == \A t \in MxThreads : WF_mxVars(MxPoll(t))

-----------------------------------------------------------------------------
(* Properties.                                                             *)

\* POSIX destroys the mutex under nobody who held it while the destructor waited: it is
\* free, or its deleter's own, or was taken in the gap between the destructor's unlock
\* and the destruction.  A lock that is never given back ends the program instead
\* (osal_posix.cpp 109-119).
DestroyedUnheld ==
  [][mxPort = "posix" /\ mxState' = "deleted"
       => \/ \E t \in MxThreads : mxPc[t] = "destroy" /\ mxOwner \in {MxNobody, t}
          \/ mxLate]_mxVars

\* A lock with a timeout, and a delete, return although the mutex is never
\* given back and however often others take it between two polls.
TimedLockReturns ==
  \A t \in MxThreads : mxPc[t] \in {"try", "delete"} ~> (mxPc[t] = "idle" \/ mxState # "exists")
=============================================================================
