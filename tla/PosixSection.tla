---------------------------- MODULE PosixSection -----------------------------
(***************************************************************************)
(* The critical section of osal_posix.cpp, which every other part relies   *)
(* on: one recursive mutex in an OSAL object that is built the first time  *)
(* some thread enters.  Its pointer is tested, tested again under a lock   *)
(* of its own, and set after the object is complete; stores and loads are  *)
(* taken in program order, which the plain pointer does not guarantee.     *)
(***************************************************************************)
EXTENDS Naturals

CONSTANTS PxThreads, PxNobody, PxMaxDepth

ASSUME PxAssumption == PxNobody \notin PxThreads

VARIABLES osalInstPtr, mInitializedTag,
          initOwner,           \* of osalInitMutex
          pxOwner, pxDepth,    \* of mMutex
          mMissedCriticals,    \* 0 or more
          pxAt,                \* where a thread is in OSAL::inst or EnterCritical
          pxInside             \* sections a thread has entered and not left
pxVars == <<osalInstPtr, mInitializedTag, initOwner, pxOwner, pxDepth, mMissedCriticals,
            pxAt, pxInside>>
pxObject == <<osalInstPtr, mInitializedTag, initOwner>>
pxMutexVars == <<pxOwner, pxDepth, mMissedCriticals, pxInside>>

PxInit ==
  /\ osalInstPtr = FALSE /\ mInitializedTag = FALSE /\ initOwner = PxNobody
  /\ pxOwner = PxNobody /\ pxDepth = 0 /\ mMissedCriticals = FALSE
  /\ pxAt = [t \in PxThreads |-> "out"] /\ pxInside = [t \in PxThreads |-> 0]

PxGoto(t, label) == pxAt' = [pxAt EXCEPT ![t] = label]

PxTest(t) ==
  /\ pxAt[t] = "out" /\ pxInside[t] < PxMaxDepth
  /\ PxGoto(t, IF osalInstPtr THEN "enter" ELSE "lock")
  /\ UNCHANGED <<pxObject, pxMutexVars>>
PxInitLock(t) ==
  /\ pxAt[t] = "lock" /\ initOwner = PxNobody
  /\ initOwner' = t /\ PxGoto(t, "again")
  /\ UNCHANGED <<osalInstPtr, mInitializedTag, pxMutexVars>>
PxTestAgain_Not(t) ==                      \* (variant: no second test)
  /\ pxAt[t] = "again" /\ PxGoto(t, "build") /\ UNCHANGED <<pxObject, pxMutexVars>>
PxTestAgain(t) ==
  /\ pxAt[t] = "again" /\ PxGoto(t, IF osalInstPtr THEN "unlock" ELSE "build")
  /\ UNCHANGED <<pxObject, pxMutexVars>>
\* OSAL::OSAL makes a free mutex
PxBuild(t) ==
  /\ pxAt[t] = "build" /\ mInitializedTag' = TRUE
  /\ pxOwner' = PxNobody /\ pxDepth' = 0 /\ PxGoto(t, "assign")
  /\ UNCHANGED <<osalInstPtr, initOwner, mMissedCriticals, pxInside>>
PxAssign(t) ==
  /\ pxAt[t] = "assign" /\ osalInstPtr' = TRUE /\ PxGoto(t, "unlock")
  /\ UNCHANGED <<mInitializedTag, initOwner, pxMutexVars>>
PxInitUnlock(t) ==
  /\ pxAt[t] = "unlock" /\ initOwner' = PxNobody /\ PxGoto(t, "enter")
  /\ UNCHANGED <<osalInstPtr, mInitializedTag, pxMutexVars>>

\* a section entered before the tag is set is only counted
PxEnterCritical(t) ==
  /\ pxAt[t] = "enter" /\ pxInside' = [pxInside EXCEPT ![t] = @ + 1]
  /\ \/ /\ mInitializedTag /\ pxOwner \in {t, PxNobody}
        /\ pxOwner' = t /\ pxDepth' = pxDepth + 1 /\ UNCHANGED mMissedCriticals
     \/ /\ ~mInitializedTag /\ mMissedCriticals' = TRUE /\ UNCHANGED <<pxOwner, pxDepth>>
  /\ PxGoto(t, "out") /\ UNCHANGED pxObject
PxExitCritical(t) ==
  /\ pxAt[t] = "out" /\ pxInside[t] > 0 /\ pxOwner = t
  /\ pxInside' = [pxInside EXCEPT ![t] = @ - 1]
  /\ pxDepth' = pxDepth - 1 /\ pxOwner' = IF pxDepth = 1 THEN PxNobody ELSE t
  /\ UNCHANGED <<pxObject, mMissedCriticals, pxAt>>

PxNext == \E t \in PxThreads :
  \/ PxTest(t) \/ PxInitLock(t) \/ PxTestAgain(t) \/ PxBuild(t) \/ PxAssign(t) \/ PxInitUnlock(t)
  \/ PxEnterCritical(t) \/ PxExitCritical(t)
PxSpec == PxInit /\ [][PxNext]_pxVars

\* From the very first call on, whichever threads race for it, the section excludes:
\* no two threads are inside, none got in without the lock, and the lock is held
\* exactly as deep as its owner is.
SectionExclusive ==
  /\ \A t \in PxThreads : pxInside[t] > 0 => pxOwner = t /\ pxDepth = pxInside[t]
  /\ ~mMissedCriticals
=============================================================================
