----------------------------- MODULE OsalProofs ------------------------------
(***************************************************************************)
(* The operating system layer, the scheduler's front, the logger and the   *)
(* mbed TLS glue, for any number of threads, blocks and lines and any      *)
(* length of run: one inductive invariant for each component of MCOsal,    *)
(* and at the end what they say together.                                  *)
(***************************************************************************)
EXTENDS MCOsal, SequenceTheorems, FiniteSetTheorems, Integers, TLAPS

-----------------------------------------------------------------------------
(* The counting semaphore of osal_posix.cpp, for any number of threads, any *)
(* maximum and any timeouts.                                               *)

LEMMA TypeInit == Init => TypeOK
  BY SemAssumption DEF Init, TypeOK, wait, NoTimeout

LEMMA TypeStep == TypeOK /\ [Next]_vars => TypeOK'
<1> SUFFICES ASSUME TypeOK, [Next]_vars PROVE TypeOK'
  OBVIOUS
<1> USE DEF TypeOK, vars, wait, Goto, Return, EndWait, NoTimeout
<1>a. /\ TimeMod \in Nat \ {0} /\ Counts \subseteq Nat /\ MaxValue \in Nat
      /\ \A ms \in Timeouts : ms \in Int
  BY SemAssumption
<1>b. \A x \in Int : x % TimeMod \in 0 .. (TimeMod - 1)
  BY <1>a
<1>1. CASE Tick
  BY <1>1, <1>b DEF Tick
<1>2. ASSUME NEW t \in Threads, WaitForever(t) PROVE TypeOK'
  BY <1>2 DEF WaitForever
<1>3. ASSUME NEW t \in Threads, SemWait(t) PROVE TypeOK'
  BY <1>3 DEF SemWait
<1>4. ASSUME NEW t \in Threads, NEW ms \in Timeouts, WaitTimed(t, ms) PROVE TypeOK'
  <2>1. (now + ms) % TimeMod \in 0 .. (TimeMod - 1)
    <3>1. now + ms \in Int
      BY <1>a
    <3> QED
      BY <3>1, <1>b
  <2> QED
    BY <1>4, <2>1 DEF WaitTimed
<1>5. ASSUME NEW t \in Threads, TryWait(t) PROVE TypeOK'
  BY <1>5 DEF TryWait
<1>6. ASSUME NEW t \in Threads, EndSleep(t) PROVE TypeOK'
  BY <1>6 DEF EndSleep
<1>7. ASSUME NEW t \in Threads, GiveUp(t) PROVE TypeOK'
  BY <1>7, <1>a DEF GiveUp
<1>8. ASSUME NEW t \in Threads, Account(t) PROVE TypeOK'
  BY <1>8, <1>a DEF Account
<1>9. ASSUME NEW t \in Threads, NEW count \in Counts, BeginSignal(t, count) PROVE TypeOK'
  BY <1>9, <1>a DEF BeginSignal
<1>10. ASSUME NEW t \in Threads, Post(t) PROVE TypeOK'
  BY <1>10 DEF Post
<1>11. ASSUME NEW t \in Threads, EndSignal(t) PROVE TypeOK'
  BY <1>11, <1>a DEF EndSignal
<1>12. CASE UNCHANGED vars
  BY <1>12
<1> QED
  BY <1>1, <1>2, <1>3, <1>4, <1>5, <1>6, <1>7, <1>8, <1>9, <1>10, <1>11, <1>12
     DEF Next, Step, Call

\* Every variable keeps its type; in particular the POSIX semaphore is only taken from
\* when it has something.
THEOREM TypeCorrect == Spec => []TypeOK
  BY TypeInit, TypeStep, PTL DEF Spec

-----------------------------------------------------------------------------
LEMMA AccountingFinite ==
  /\ IsFiniteSet(Accounting)
  /\ Cardinality(Accounting) \in Nat
<1>1. Accounting \in SUBSET Threads
  BY DEF Accounting
<1> QED
  BY <1>1, SemAssumption, FS_Subset, FS_CardinalityType

\* a thread takes a unit
LEMMA OneMoreAccounting ==
  ASSUME TypeOK, NEW t \in Threads, pc[t] # "account", Goto(t, "account")
  PROVE  Cardinality(Accounting') = Cardinality(Accounting) + 1
<1>1. Accounting' = Accounting \cup {t} /\ t \notin Accounting
  BY DEF Accounting, TypeOK, Goto
<1> QED
  BY <1>1, AccountingFinite, FS_AddElement

\* a thread counts its unit off
LEMMA OneLessAccounting ==
  ASSUME TypeOK, NEW t \in Threads, pc[t] = "account", Goto(t, "idle")
  PROVE  Cardinality(Accounting') = Cardinality(Accounting) - 1
<1>1. Accounting' = Accounting \ {t} /\ t \in Accounting
  BY DEF Accounting, TypeOK, Goto
<1> QED
  BY <1>1, AccountingFinite, FS_RemoveElement

LEMMA SameAccounting ==
  ASSUME TypeOK, NEW t \in Threads, NEW label, pc[t] # "account", label # "account",
         Goto(t, label)
  PROVE  Accounting' = Accounting
  BY DEF Accounting, TypeOK, Goto

LEMMA CountInit == Init => CountInv
<1> SUFFICES ASSUME Init PROVE CountInv
  OBVIOUS
<1>1. Accounting = {}
  BY DEF Init, Accounting
<1>2. Cardinality(Accounting) = 0
  BY <1>1, FS_EmptySet
<1> QED
  BY <1>2, SemAssumption
     DEF Init, CountInv, LockHeld, CountsAgree, CountInRange, SignalCounts

LEMMA CountStep == TypeOK /\ CountInv /\ [Next]_vars => CountInv'
<1> SUFFICES ASSUME TypeOK, CountInv, [Next]_vars PROVE CountInv'
  OBVIOUS
<1> USE DEF vars, wait, Return, EndWait
<1>a. /\ MaxValue \in Nat /\ Counts \subseteq Nat /\ NoThread \notin Threads
      /\ value \in Nat /\ mCnt \in 0 .. MaxValue
      /\ Cardinality(Accounting) \in Nat
  BY SemAssumption, AccountingFinite DEF TypeOK, CountInv, CountInRange
<1>b. UNCHANGED <<value, mCnt, lock, finalCnt, inc, pc>> => CountInv'
  BY DEF CountInv, LockHeld, CountsAgree, CountInRange, SignalCounts, Accounting
\* a step of a thread outside the critical section, before it takes a unit
<1>c. ASSUME NEW t \in Threads, NEW label,
             label \in {"idle", "semWait", "poll", "sleep"},
             pc[t] \notin {"account", "post"}, Goto(t, label),
             UNCHANGED <<value, mCnt, lock, finalCnt, inc>>
      PROVE  CountInv'
  <2>1. Accounting' = Accounting
    BY <1>c, SameAccounting
  <2>2. LockHeld'
    BY <1>c DEF CountInv, LockHeld, Goto, TypeOK
  <2> QED
    BY <1>c, <2>1, <2>2 DEF CountInv, CountsAgree, CountInRange, SignalCounts
\* a thread takes a unit of the POSIX semaphore
<1>d. ASSUME NEW t \in Threads, pc[t] \notin {"account", "post"}, Goto(t, "account"),
             value > 0, value' = value - 1,
             UNCHANGED <<mCnt, lock, finalCnt, inc>>
      PROVE  CountInv'
  <2>1. Cardinality(Accounting') = Cardinality(Accounting) + 1
    BY <1>d, OneMoreAccounting
  <2>2. LockHeld'
    BY <1>d DEF CountInv, LockHeld, Goto, TypeOK
  <2> QED
    BY <1>a, <1>d, <2>1, <2>2 DEF CountInv, CountsAgree, CountInRange, SignalCounts
<1>1. CASE Tick
  BY <1>1, <1>b DEF Tick
<1>2. ASSUME NEW t \in Threads, WaitForever(t) PROVE CountInv'
  BY <1>2, <1>c DEF WaitForever
<1>3. ASSUME NEW t \in Threads, SemWait(t) PROVE CountInv'
  BY <1>3, <1>d DEF SemWait
<1>4. ASSUME NEW t \in Threads, NEW ms \in Timeouts, WaitTimed(t, ms) PROVE CountInv'
  BY <1>4, <1>c DEF WaitTimed
<1>5. ASSUME NEW t \in Threads, TryWait(t) PROVE CountInv'
  BY <1>5, <1>c, <1>d DEF TryWait
<1>6. ASSUME NEW t \in Threads, EndSleep(t) PROVE CountInv'
  BY <1>6, <1>c DEF EndSleep
<1>7. ASSUME NEW t \in Threads, GiveUp(t) PROVE CountInv'
  BY <1>7, <1>c DEF GiveUp
<1>8. ASSUME NEW t \in Threads, Account(t) PROVE CountInv'
  <2>1. Cardinality(Accounting') = Cardinality(Accounting) - 1
    BY <1>8, OneLessAccounting DEF Account
  <2>2. Cardinality(Accounting) > 0
    <3>1. Accounting' = Accounting \ {t}
      BY <1>8 DEF Account, Accounting, Goto, TypeOK
    <3>2. Cardinality(Accounting') \in Nat
      BY <3>1, AccountingFinite, FS_RemoveElement, FS_CardinalityType
    <3> QED
      BY <1>a, <2>1, <3>2
  <2>3. LockHeld'
    BY <1>8 DEF CountInv, LockHeld, Account, Goto, TypeOK
  <2> QED
    BY <1>a, <1>8, <2>1, <2>2, <2>3
       DEF CountInv, CountsAgree, CountInRange, SignalCounts, Account
<1>9. ASSUME NEW t \in Threads, NEW count \in Counts, BeginSignal(t, count) PROVE CountInv'
  <2>1. Accounting' = Accounting
    BY <1>9, SameAccounting DEF BeginSignal
  <2>2. LockHeld'
    BY <1>9, <1>a DEF CountInv, LockHeld, BeginSignal, Goto, TypeOK
  <2>3. SignalCounts'
    BY <1>9, <1>a DEF SignalCounts, BeginSignal, Min2
  <2> QED
    BY <1>9, <2>1, <2>2, <2>3 DEF CountInv, CountsAgree, CountInRange, BeginSignal
<1>10. ASSUME NEW t \in Threads, Post(t) PROVE CountInv'
  <2>1. Accounting' = Accounting
    BY <1>10 DEF Post, Accounting
  <2>2. finalCnt \in Int /\ inc \in Nat
    BY DEF TypeOK
  <2> QED
    BY <1>10, <1>a, <2>1, <2>2
       DEF CountInv, LockHeld, CountsAgree, CountInRange, SignalCounts, Post, Min2
<1>11. ASSUME NEW t \in Threads, EndSignal(t) PROVE CountInv'
  <2>1. Accounting' = Accounting
    BY <1>11, SameAccounting DEF EndSignal
  <2>2. LockHeld'
    BY <1>11, <1>a DEF CountInv, LockHeld, EndSignal, Goto, TypeOK
  <2> QED
    BY <1>11, <2>1, <2>2 DEF CountInv, CountsAgree, CountInRange, SignalCounts, EndSignal
<1>12. CASE UNCHANGED vars
  BY <1>12, <1>b
<1> QED
  BY <1>1, <1>2, <1>3, <1>4, <1>5, <1>6, <1>7, <1>8, <1>9, <1>10, <1>11, <1>12
     DEF Next, Step, Call

LEMMA CountPositive ==
  ASSUME TypeOK, CountInv, NEW t \in Threads, pc[t] = "account"
  PROVE  mCnt - 1 >= 0
<1>1. t \in Accounting
  BY DEF Accounting
<1>2. Cardinality(Accounting) # 0
  BY <1>1, AccountingFinite, FS_EmptySet
<1> QED
  BY <1>2, AccountingFinite DEF TypeOK, CountInv, CountsAgree, CountInRange

\* The count and the POSIX semaphore agree and stay within the maximum, for any number
\* of threads that wait and signal at once.
THEOREM CountsCorrect == Spec => [](TypeOK /\ CountInv)
<1>1. Init => TypeOK /\ CountInv
  BY TypeInit, CountInit
<1>2. TypeOK /\ CountInv /\ [Next]_vars => (TypeOK /\ CountInv)'
  BY TypeStep, CountStep
<1> QED
  BY <1>1, <1>2, PTL DEF Spec

\* The assertion of posix_OsalCntSem::wait, that the count has not become negative,
\* never fails.
THEOREM AssertionHolds == Spec => []CountNotNegative
<1>1. TypeOK /\ CountInv => CountNotNegative
  BY CountPositive DEF CountNotNegative, TypeOK
<1> QED
  BY <1>1, CountsCorrect, PTL
-----------------------------------------------------------------------------
\* The abstract variables, as the refinement mapping of CS sees them.
Tokens == IF lock = NoThread THEN mCnt ELSE finalCnt - inc
Calls == [t \in Threads |-> IF pc[t] \in {"idle", "post"} THEN "none"
                            ELSE IF timeoutMs[t] = NoTimeout THEN "forever" ELSE "timed"]

LEMMA ImplInit == Init => CS!AbsInit
  BY DEF Init, CS!AbsInit

LEMMA RememberedInit == Init => CallsRemembered
  BY DEF Init, CallsRemembered

LEMMA RememberedStep == TypeOK /\ CallsRemembered /\ [Next]_vars => CallsRemembered'
<1> SUFFICES ASSUME TypeOK, CallsRemembered, [Next]_vars PROVE CallsRemembered'
  OBVIOUS
<1> USE SemAssumption DEF vars, wait, Goto, Return, EndWait, NoTimeout, TypeOK, CallsRemembered
<1>1. CASE Tick
  BY <1>1 DEF Tick
<1>2. ASSUME NEW t \in Threads, Step(t) PROVE CallsRemembered'
  BY <1>2 DEF Step, SemWait, TryWait, EndSleep, GiveUp, Account, Post, EndSignal
<1>3. ASSUME NEW t \in Threads, Call(t) PROVE CallsRemembered'
  BY <1>3 DEF Call, WaitForever, WaitTimed, BeginSignal
<1>4. CASE UNCHANGED vars
  BY <1>4
<1> QED
  BY <1>1, <1>2, <1>3, <1>4 DEF Next

\* A step that changes neither the count, nor who holds the critical section, nor which
\* threads wait and how, nor a result, is a stuttering step of the abstract semaphore.
LEMMA Stutter ==
  ASSUME Tokens' = Tokens, Calls' = Calls, result' = result
  PROVE  UNCHANGED CS!absVars
  BY DEF CS!absVars, Tokens, Calls

LEMMA ImplStep ==
  TypeOK /\ CountInv /\ CallsRemembered /\ [Next]_vars => [CS!AbsNext]_(CS!absVars)
<1> SUFFICES ASSUME TypeOK, CountInv, CallsRemembered, [Next]_vars
             PROVE  CS!AbsNext \/ UNCHANGED CS!absVars
  OBVIOUS
<1> USE DEF vars, wait, Goto
<1>a. NoThread \notin Threads /\ NoTimeout \notin Timeouts /\ MaxValue \in Nat
      /\ Counts \subseteq Nat
  BY SemAssumption DEF NoTimeout
<1>1. CASE Tick
  BY <1>1, Stutter DEF Tick, Tokens, Calls
<1>2. ASSUME NEW t \in Threads, WaitForever(t) PROVE CS!AbsNext
  <2>1. CS!BeginWait(t, "forever")
    BY <1>2 DEF WaitForever, CS!BeginWait, TypeOK
  <2> QED
    BY <2>1 DEF CS!AbsNext
<1>3. ASSUME NEW t \in Threads, SemWait(t) PROVE UNCHANGED CS!absVars
  BY <1>3, Stutter DEF SemWait, Tokens, Calls, TypeOK
<1>4. ASSUME NEW t \in Threads, NEW ms \in Timeouts, WaitTimed(t, ms) PROVE CS!AbsNext
  <2>1. CS!BeginWait(t, "timed")
    BY <1>4, <1>a DEF WaitTimed, CS!BeginWait, TypeOK
  <2> QED
    BY <2>1 DEF CS!AbsNext
<1>5. ASSUME NEW t \in Threads, TryWait(t) PROVE UNCHANGED CS!absVars
  BY <1>5, Stutter DEF TryWait, Tokens, Calls, TypeOK
<1>6. ASSUME NEW t \in Threads, EndSleep(t) PROVE UNCHANGED CS!absVars
  BY <1>6, Stutter DEF EndSleep, Tokens, Calls, TypeOK
<1>7. ASSUME NEW t \in Threads, GiveUp(t) PROVE CS!AbsNext
  <2>1. timeoutMs[t] # NoTimeout
    BY <1>7 DEF GiveUp, CallsRemembered
  <2>2. CS!TimeOut(t)
    BY <1>7, <2>1 DEF GiveUp, Return, EndWait, CS!TimeOut, TypeOK
  <2> QED
    BY <2>2 DEF CS!AbsNext
<1>8. ASSUME NEW t \in Threads, Account(t) PROVE CS!AbsNext
  <2>1. mCnt > 0
    BY <1>8, CountPositive DEF Account, TypeOK
  <2>2. CS!Acquire(t)
    BY <1>8, <2>1 DEF Account, Return, EndWait, CS!Acquire, TypeOK
  <2> QED
    BY <2>2 DEF CS!AbsNext
<1>9. ASSUME NEW t \in Threads, NEW count \in Counts, BeginSignal(t, count)
      PROVE  UNCHANGED CS!absVars
  BY <1>9, <1>a, Stutter DEF BeginSignal, Tokens, Calls, TypeOK
<1>10. ASSUME NEW t \in Threads, Post(t) PROVE UNCHANGED CS!absVars
  BY <1>10, <1>a, Stutter DEF Post, Tokens, Calls, TypeOK, CountInv, LockHeld
<1>11. ASSUME NEW t \in Threads, EndSignal(t) PROVE CS!AbsNext
  <2>1. lock = t /\ inc \in Counts /\ mCnt \in Int /\ finalCnt \in Int /\ inc \in Int
    BY <1>11, <1>a DEF EndSignal, CountInv, LockHeld, CallsRemembered, TypeOK
  <2>2. mCnt = Min2(finalCnt, MaxValue)
    BY <1>11, <1>a, <2>1 DEF EndSignal, CountInv, SignalCounts, Min2
  <2>3. finalCnt - inc + inc = finalCnt
    BY <2>1
  <2>4. CS!Release(t, inc)
    BY <1>11, <1>a, <2>1, <2>2, <2>3
       DEF EndSignal, Return, CS!Release, CS!AtMost, Min2, TypeOK
  <2> QED
    BY <2>1, <2>4 DEF CS!AbsNext
<1>12. CASE UNCHANGED vars
  BY <1>12, Stutter DEF Tokens, Calls
<1> QED
  BY <1>1, <1>2, <1>3, <1>4, <1>5, <1>6, <1>7, <1>8, <1>9, <1>10, <1>11, <1>12
     DEF Next, Step, Call

\* The POSIX implementation is the counting semaphore that osal.h describes.
THEOREM Implements == Spec => IsCountingSemaphore
<1>1. Init => CS!AbsInit /\ CallsRemembered
  BY ImplInit, RememberedInit
<1>2. TypeOK /\ CallsRemembered /\ [Next]_vars => CallsRemembered'
  BY RememberedStep
<1>3. TypeOK /\ CountInv /\ CallsRemembered /\ [Next]_vars => [CS!AbsNext]_(CS!absVars)
  BY ImplStep
<1> QED
  BY <1>1, <1>2, <1>3, CountsCorrect, PTL DEF Spec, IsCountingSemaphore, CS!AbsSpec

-----------------------------------------------------------------------------
(* osal_posix.cpp.                                                         *)

PxLabels == {"out", "lock", "again", "build", "assign", "unlock", "enter"}

PxTypeOK ==
  /\ osalInstPtr \in BOOLEAN /\ mInitializedTag \in BOOLEAN /\ mMissedCriticals = FALSE
  /\ pxDepth \in Nat /\ pxInside \in [PxThreads -> Nat] /\ pxAt \in [PxThreads -> PxLabels]

\* Who builds the object holds its lock, and nobody is past the lock before it is built.
PxBuildInv ==
  /\ \A t \in PxThreads : pxAt[t] \in {"again", "build", "assign", "unlock"} => initOwner = t
  /\ \A t \in PxThreads : pxAt[t] \in {"build", "assign"} => ~osalInstPtr
  /\ \A t \in PxThreads : pxAt[t] = "assign" => mInitializedTag
  /\ \A t \in PxThreads : pxAt[t] \in {"unlock", "enter"} => osalInstPtr
  /\ osalInstPtr => mInitializedTag
  /\ \A t \in PxThreads : ~osalInstPtr => pxInside[t] = 0

\* The mutex is its owner's, and as deep as the owner is inside.
PxMutexInv ==
  /\ pxOwner = PxNobody => pxDepth = 0
  /\ \A t \in PxThreads : pxInside[t] > 0 => pxOwner = t
  /\ \A t \in PxThreads : pxOwner = t => pxDepth = pxInside[t] /\ pxDepth > 0

PxInv == PxTypeOK /\ PxBuildInv /\ PxMutexInv

LEMMA PxInitInv == PxInit => PxInv
<1> SUFFICES ASSUME PxInit PROVE PxInv
  OBVIOUS
<1>1. /\ \A t \in PxThreads : pxAt[t] = "out" /\ pxInside[t] = 0
      /\ pxAt \in [PxThreads -> PxLabels] /\ pxInside \in [PxThreads -> Nat]
  BY DEF PxInit, PxLabels
<1>2. PxTypeOK
  BY <1>1 DEF PxInit, PxTypeOK
<1>3. PxBuildInv
  BY <1>1 DEF PxInit, PxBuildInv
<1>4. PxMutexInv
  BY <1>1, PxAssumption DEF PxInit, PxMutexInv
<1> QED
  BY <1>2, <1>3, <1>4 DEF PxInv

LEMMA PxNextInv == PxInv /\ [PxNext]_pxVars => PxInv'
<1> SUFFICES ASSUME PxInv, [PxNext]_pxVars PROVE PxInv'
  OBVIOUS
<1> USE PxAssumption DEF PxInv, PxTypeOK, PxBuildInv, PxMutexInv, PxLabels, PxGoto,
                         pxObject, pxMutexVars
<1>1. CASE UNCHANGED pxVars
  BY <1>1 DEF pxVars
<1>2. ASSUME NEW t \in PxThreads, PxTest(t) PROVE PxInv'
  BY <1>2 DEF PxTest
<1>3. ASSUME NEW t \in PxThreads, PxInitLock(t) PROVE PxInv'
  BY <1>3 DEF PxInitLock
<1>4. ASSUME NEW t \in PxThreads, PxTestAgain(t) PROVE PxInv'
  BY <1>4 DEF PxTestAgain
<1>5. ASSUME NEW t \in PxThreads, PxBuild(t) PROVE PxInv'
  BY <1>5 DEF PxBuild
<1>6. ASSUME NEW t \in PxThreads, PxAssign(t) PROVE PxInv'
  BY <1>6 DEF PxAssign
<1>7. ASSUME NEW t \in PxThreads, PxInitUnlock(t) PROVE PxInv'
  BY <1>7 DEF PxInitUnlock
<1>8. ASSUME NEW t \in PxThreads, PxEnterCritical(t) PROVE PxInv'
  BY <1>8 DEF PxEnterCritical
<1>9. ASSUME NEW t \in PxThreads, PxExitCritical(t) PROVE PxInv'
  BY <1>9 DEF PxExitCritical
<1> QED
  BY <1>1, <1>2, <1>3, <1>4, <1>5, <1>6, <1>7, <1>8, <1>9 DEF PxNext

\* OSAL::inst builds the object once although its pointer is first tested without a
\* lock, and EnterCritical, recursive, lets one thread at a time in from the first call
\* on: SectionExclusive holds of any number of threads at any depth.
THEOREM PosixSectionExcludes == PxSpec => []SectionExclusive
<1>1. PxInv => SectionExclusive
  BY DEF PxInv, PxTypeOK, PxMutexInv, SectionExclusive
<1> QED
  BY <1>1, PxInitInv, PxNextInv, PTL DEF PxSpec

-----------------------------------------------------------------------------
(* osal_win32.cpp.                                                         *)

WinLabels == {"idle", "enter", "setId", "clearId", "leave"}

WinTypeOK ==
  /\ winPc \in [WinThreads -> WinLabels]
  /\ winDepth \in [WinThreads -> Nat]
  /\ winCSRecursion \in Nat

\* m_CSThreadId names a thread only while that thread has the section, and the
\* recursion count is written by the thread that has it alone.
WinSectionInv ==
  /\ \A t \in WinThreads :
       winDepth[t] > 0 \/ winPc[t] \in {"setId", "clearId", "leave"} => winCS = t
  /\ \A t \in WinThreads : winCSThreadId = t => winDepth[t] > 0 \/ winPc[t] = "clearId"
  /\ \A t \in WinThreads : winPc[t] \in {"setId", "clearId", "leave"} => winDepth[t] = 0
  /\ \A t \in WinThreads :
       winCS = t => winCSRecursion = IF winPc[t] = "setId" THEN 1 ELSE winDepth[t]
  /\ winCS = WinNone => winCSRecursion = 0

WinInv == WinTypeOK /\ WinSectionInv

LEMMA WinInitInv == WinInit => WinInv
BY WinAssumption DEF WinInit, WinInv, WinTypeOK, WinSectionInv, WinLabels

LEMMA WinNextInv == WinInv /\ [WinNext]_winVars => WinInv'
<1> SUFFICES ASSUME WinInv, [WinNext]_winVars PROVE WinInv'
  OBVIOUS
<1> USE WinAssumption DEF WinInv, WinTypeOK, WinSectionInv, WinLabels, WinGoto
<1>1. ASSUME UNCHANGED winCsVars PROVE WinInv'
  BY <1>1 DEF winCsVars
<1>2. ASSUME NEW t \in WinThreads, EnterCriticalTest(t) PROVE WinInv'
  BY <1>2 DEF EnterCriticalTest
<1>3. ASSUME NEW t \in WinThreads, EnterCriticalSection(t) PROVE WinInv'
  BY <1>3 DEF EnterCriticalSection
<1>4. ASSUME NEW t \in WinThreads, EnterCriticalSetId(t) PROVE WinInv'
  BY <1>4 DEF EnterCriticalSetId
<1>5. ASSUME NEW t \in WinThreads, WinExitCritical(t) PROVE WinInv'
  BY <1>5 DEF WinExitCritical
<1>6. ASSUME NEW t \in WinThreads, ExitCriticalClearId(t) PROVE WinInv'
  BY <1>6 DEF ExitCriticalClearId
<1>7. ASSUME NEW t \in WinThreads, LeaveCriticalSection(t) PROVE WinInv'
  BY <1>7 DEF LeaveCriticalSection
<1>8. ASSUME WinTick \/ DoHookToHardware \/ StartTicksTask
             \/ (\E i \in 1 .. WinMaxHooks : TicksTask(i))
      PROVE UNCHANGED winCsVars
  BY <1>8 DEF WinTick, DoHookToHardware, StartTicksTask, TicksTask
<1>9. CASE UNCHANGED winVars
  BY <1>1, <1>9 DEF winVars
<1> QED
  BY <1>1, <1>2, <1>3, <1>4, <1>5, <1>6, <1>7, <1>8, <1>9 DEF WinNext

\* EnterCritical of the Windows port compares the owner's id before it has the section;
\* for any number of threads that race test lets no thread in beside another.
THEOREM WinSectionExcludes == WinSpec => []WinCriticalExclusive
<1>1. WinInv => WinCriticalExclusive
  BY DEF WinInv, WinTypeOK, WinSectionInv, WinCriticalExclusive, WinLabels
<1> QED
  BY <1>1, WinInitInv, WinNextInv, PTL DEF WinSpec

-----------------------------------------------------------------------------
(* osal_tirtos.cpp.                                                        *)

TiLabels == {"idle", "testOwner", "pend", "own", "setOwner", "clear", "post", "posting",
             "critical"}

TiTypeOK ==
  /\ tiPc \in [TiTasks -> TiLabels]
  /\ tiHolds \in [TiTasks -> Nat]
  /\ tiCnt \in Nat
  /\ tiBinary \in BOOLEAN

\* A task that has the binary semaphore: it holds the mutex, or is on its way in or out.
HasBinary(t) == tiHolds[t] > 0 \/ tiPc[t] \in {"own", "setOwner", "clear", "post"}

TiMutexInv ==
  /\ \A t, u \in TiTasks : HasBinary(t) /\ HasBinary(u) => t = u
  /\ \A t \in TiTasks : HasBinary(t) => ~tiBinary /\ tiCnt = tiHolds[t]
  /\ \A t \in TiTasks : tiPc[t] \in {"clear", "post"} => tiHolds[t] = 0
  /\ \A t \in TiTasks : tiCurrentOwner = t => tiHolds[t] > 0 \/ tiPc[t] = "clear"
  /\ tiBinary => tiCnt = 0

TiInv == TiTypeOK /\ TiMutexInv

LEMMA TiInitInv == TiInit => TiInv
BY TiAssumption DEF TiInit, TiInv, TiTypeOK, TiMutexInv, TiLabels, HasBinary

LEMMA TiNextInv == TiInv /\ [TiNext]_tiVars => TiInv'
<1> SUFFICES ASSUME TiInv, [TiNext]_tiVars PROVE TiInv'
  OBVIOUS
<1> USE TiAssumption DEF TiInv, TiTypeOK, TiMutexInv, TiLabels, HasBinary, TiGoto, tiMutexVars
<1>1. CASE UNCHANGED tiVars
  BY <1>1 DEF tiVars
<1>2. ASSUME NEW t \in TiTasks, LockTestOwned(t) PROVE TiInv'
  BY <1>2 DEF LockTestOwned
<1>3. ASSUME NEW t \in TiTasks, LockTestOwner(t) PROVE TiInv'
  BY <1>3 DEF LockTestOwner
<1>4. ASSUME NEW t \in TiTasks, LockPend(t) PROVE TiInv'
  <2>1. CASE tiBinary /\ tiBinary' = FALSE /\ TiGoto(t, "pend", "own")
             /\ UNCHANGED <<tiIsOwned, tiCurrentOwner, tiCnt, tiHolds>>
    <3>1. \A u \in TiTasks : ~HasBinary(u) /\ tiHolds[u] = 0
      BY <2>1
    <3>2. \A u \in TiTasks : HasBinary(u)' => u = t
      BY <2>1, <3>1
    <3> QED
      BY <2>1, <3>1, <3>2
  <2>2. CASE TiGoto(t, "pend", "idle") /\ UNCHANGED tiMutexVars
    BY <2>2
  <2> QED
    BY <1>4, <2>1, <2>2 DEF LockPend
<1>5. ASSUME NEW t \in TiTasks, LockSetOwned(t) PROVE TiInv'
  BY <1>5 DEF LockSetOwned
<1>6. ASSUME NEW t \in TiTasks, LockSetOwner(t) PROVE TiInv'
  BY <1>6 DEF LockSetOwner
<1>7. ASSUME NEW t \in TiTasks, Unlock(t) PROVE TiInv'
  BY <1>7 DEF Unlock
<1>8. ASSUME NEW t \in TiTasks, UnlockClear(t) PROVE TiInv'
  BY <1>8 DEF UnlockClear
<1>9. ASSUME NEW t \in TiTasks, UnlockPost(t) PROVE TiInv'
  BY <1>9 DEF UnlockPost
<1>10. ASSUME NEW t \in TiTasks, NEW more \in 1 .. TiMaxInc, SignalCompute(t, more) PROVE TiInv'
  BY <1>10 DEF SignalCompute
<1>11. ASSUME NEW t \in TiTasks, SignalPost(t) PROVE TiInv'
  BY <1>11 DEF SignalPost
<1>12. ASSUME NEW t \in TiTasks, Wait(t) PROVE TiInv'
  BY <1>12 DEF Wait
<1>13. ASSUME NEW t \in TiTasks, EnterCritical(t) PROVE TiInv'
  BY <1>13 DEF EnterCritical
<1>14. ASSUME NEW t \in TiTasks, ExitCritical(t) PROVE TiInv'
  BY <1>14 DEF ExitCritical
<1> QED
  BY <1>1, <1>2, <1>3, <1>4, <1>5, <1>6, <1>7, <1>8, <1>9, <1>10, <1>11, <1>12, <1>13, <1>14
  DEF TiNext

\* The TI-RTOS mutex keeps its owner beside a binary semaphore and reads it unlocked;
\* for any number of tasks it is held by one, and counts that one's locks.
THEOREM TiMutexExcludes == TiSpec => []TiMutexExclusive
<1>1. TiInv => TiMutexExclusive
  BY DEF TiInv, TiTypeOK, TiMutexInv, HasBinary, TiMutexExclusive
<1> QED
  BY <1>1, TiInitInv, TiNextInv, PTL DEF TiSpec

-----------------------------------------------------------------------------
(* task_sched.cpp, in front of the priorities.                             *)

\* A quotient and a remainder are what they were made of.
LEMMA DivModUnique ==
  ASSUME NEW M \in Nat \ {0}, NEW q \in Int, NEW r \in Int, 0 <= r, r < M
  PROVE  (M * q + r) \div M = q /\ (M * q + r) % M = r
<1> DEFINE n == M * q + r  p == n \div M  s == n % M
<1>1. n \in Int /\ p \in Int /\ s \in 0 .. M - 1 /\ n = M * p + s
  OBVIOUS
<1> HIDE DEF p, s
<1>2. s \in Int /\ 0 <= s /\ s < M /\ M * p + s = M * q + r
  BY <1>1
<1>3. ASSUME NEW d \in Int, d >= 1 PROVE M * d >= M
  BY <1>3
<1>4. M * (p - q) = r - s /\ M * (q - p) = s - r
  <2>1. M * (p - q) = M * p - M * q /\ M * (q - p) = M * q - M * p
    BY <1>1
  <2> DEFINE x == M * p  y == M * q
  <2>2. x \in Int /\ y \in Int /\ x + s = y + r
    BY <1>1, <1>2
  <2> HIDE DEF x, y
  <2>3. x - y = r - s /\ y - x = s - r
    BY <1>2, <2>2
  <2> QED BY <2>1, <2>3 DEF x, y
<1>5. CASE p = q
  <2>1. M * p = M * q
    BY <1>5
  <2> DEFINE x == M * p
  <2>2. x \in Int /\ x + s = x + r
    BY <1>1, <1>2, <2>1
  <2> HIDE DEF x
  <2> QED BY <1>2, <1>5, <2>2 DEF p, s
<1>6. CASE p - q >= 1
  <2> DEFINE x == M * (p - q)
  <2>1. x >= M /\ x = r - s
    BY <1>1, <1>3, <1>4, <1>6
  <2> HIDE DEF x
  <2> QED BY <1>2, <2>1
<1>7. CASE q - p >= 1
  <2> DEFINE x == M * (q - p)
  <2>1. x >= M /\ x = s - r
    BY <1>1, <1>3, <1>4, <1>7
  <2> HIDE DEF x
  <2> QED BY <1>2, <2>1
<1> QED BY <1>1, <1>5, <1>6, <1>7

SfConstants ==
  /\ SfNobody \notin SfThreads /\ SfOwn \cap SfHeap = {}
  /\ NumTasks \in Nat /\ NumIsrEvents \in Nat /\ EvtMod \in Nat \ {0} /\ PrioMod \in Nat \ {0}
  /\ NumTasks < PrioMod /\ NumIsrEvents <= EvtMod

LEMMA SfConstantsMean == SfConstants
BY SfAssumption DEF SfConstants

\* A trigger number names its priority and its slot, and is not 0.
LEMMA TriggerNames ==
  ASSUME NEW prio \in Prios, NEW idx \in Nat, idx < NumIsrEvents
  PROVE  /\ PrioOfTrigger(TriggerOf(prio, idx)) = prio
         /\ IdxOfTrigger(TriggerOf(prio, idx)) = idx
         /\ TriggerOf(prio, idx) # 0
<1> USE SfConstantsMean DEF SfConstants, Prios
<1>1. TriggerOf(prio, idx) = EvtMod * (PrioMod + prio) + idx
  <2>1. EvtMod * (PrioMod + prio) = EvtMod * PrioMod + prio * EvtMod
    OBVIOUS
  <2> QED BY <2>1 DEF TriggerOf, TriggerTop
<1>2. /\ (EvtMod * (PrioMod + prio) + idx) \div EvtMod = PrioMod + prio
      /\ (EvtMod * (PrioMod + prio) + idx) % EvtMod = idx
  <2>1. PrioMod + prio \in Int /\ idx \in Int /\ 0 <= idx /\ idx < EvtMod
    OBVIOUS
  <2> QED BY <2>1, DivModUnique
<1>3. (PrioMod + prio) % PrioMod = prio
  <2>1. prio \in Int /\ 0 <= prio /\ prio < PrioMod /\ PrioMod * 1 = PrioMod
    OBVIOUS
  <2>2. (PrioMod * 1 + prio) % PrioMod = prio
    BY <2>1, DivModUnique
  <2> QED BY <2>1, <2>2
<1>4. TriggerOf(prio, idx) # 0
  <2> DEFINE x == PrioMod + prio
  <2>1. x \in Nat /\ x >= 1
    OBVIOUS
  <2> HIDE DEF x
  <2>2. EvtMod * x >= EvtMod
    BY <2>1
  <2> DEFINE y == EvtMod * x
  <2>3. y \in Nat /\ y >= 1
    BY <2>1, <2>2
  <2> HIDE DEF y
  <2>4. y + idx # 0
    BY <2>3
  <2> QED BY <1>1, <2>4 DEF x, y
<1> QED BY <1>1, <1>2, <1>3, <1>4 DEF PrioOfTrigger, IdxOfTrigger

SfLabels == {"out", "enter", "again", "publish", "fill", "start", "leave", "ready"}

\* Who is inside holds the lock, and builds only what nobody has built; the scheduler
\* pointers are complete whenever nobody is building.
BuildInv ==
  /\ mInstPtr \in BOOLEAN /\ sfAt \in [SfThreads -> SfLabels] /\ tasks \in [Prios -> {0, 1}]
  /\ \A t \in SfThreads : sfAt[t] \in {"again", "publish", "fill", "start", "leave"} => sfLock = t
  /\ \A t \in SfThreads : sfAt[t] = "publish" => ~mInstPtr
  /\ \A t \in SfThreads : sfAt[t] \in {"fill", "start", "leave"} => mInstPtr
  /\ ~mInstPtr => \A p \in Prios : tasks[p] = 0
  /\ \A t \in SfThreads : sfAt[t] \in {"fill", "start"} => \A p \in Prios : tasks[p] = 0
  /\ mInstPtr => mpSchedulers = Prios \/ \E t \in SfThreads : sfAt[t] \in {"fill", "start"}

\* Whose trigger is not 0 owns one slot, which is not another's.
SlotInv ==
  /\ slots \in [Prios -> Seq(SfFns)] /\ \A p \in Prios : Len(slots[p]) <= NumIsrEvents
  /\ mTrig \in [SfTriggers -> Nat] /\ installed \in [SfTriggers -> SfFns \cup {SfNobody}]
  /\ \A o \in SfTriggers : mTrig[o] # 0 =>
       \E prio \in Prios, idx \in Nat :
         /\ idx < Len(slots[prio]) /\ mTrig[o] = TriggerOf(prio, idx)
         /\ slots[prio][idx + 1] = installed[o]
  /\ \A o, q \in SfTriggers : mTrig[o] # 0 /\ mTrig[o] = mTrig[q] => o = q

\* A block is listed or called, not both, from its allocation on.
ShotInv ==
  /\ sfListed \cup sfRunning \subseteq SfHeap \cup SfOwn
  /\ OneShotsHeld
  /\ sfListed \cap sfRunning \cap SfHeap = {}

SfInv == BuildInv /\ SlotInv /\ ShotInv

LEMMA SfInitInv == SfInit => SfInv
<1> SUFFICES ASSUME SfInit PROVE SfInv
  OBVIOUS
<1>1. BuildInv
  BY DEF SfInit, BuildInv, SfLabels
<1>2. SlotInv
  <2>1. \A p \in Prios : slots[p] = <<>>
    BY DEF SfInit
  <2>2. slots \in [Prios -> Seq(SfFns)]
    BY DEF SfInit
  <2>3. \A p \in Prios : Len(slots[p]) <= NumIsrEvents
    BY <2>1, SfConstantsMean DEF SfConstants
  <2> QED BY <2>2, <2>3 DEF SfInit, SlotInv
<1>3. ShotInv
  BY DEF SfInit, ShotInv, OneShotsHeld
<1> QED BY <1>1, <1>2, <1>3 DEF SfInv

LEMMA BuildStep ==
  ASSUME BuildInv, NEW t \in SfThreads,
         \/ InstTest(t) \/ InstEnter(t) \/ InstTestAgain(t) \/ InstLeave(t)
         \/ CtorPublish(t) \/ CtorFill(t) \/ CtorStart(t)
  PROVE  BuildInv'
<1> USE SfConstantsMean DEF SfConstants, BuildInv, SfLabels, SfGoto
<1>1. CASE InstTest(t)
  BY <1>1 DEF InstTest
<1>2. CASE InstEnter(t)
  BY <1>2 DEF InstEnter
<1>3. CASE InstTestAgain(t)
  BY <1>3 DEF InstTestAgain
<1>4. CASE InstLeave(t)
  BY <1>4 DEF InstLeave
<1>5. CASE CtorPublish(t)
  BY <1>5 DEF CtorPublish
<1>6. CASE CtorFill(t)
  BY <1>6 DEF CtorFill
<1>7. CASE CtorStart(t)
  <2>1. tasks' \in [Prios -> {0, 1}]
    BY <1>7 DEF CtorStart, Prios
  <2> QED BY <1>7, <2>1 DEF CtorStart
<1> QED BY <1>1, <1>2, <1>3, <1>4, <1>5, <1>6, <1>7

LEMMA SlotAdded ==
  ASSUME SlotInv, NEW o \in SfTriggers, NEW p \in Prios, NEW f \in SfFns, AddEventFn(o, p, f)
  PROVE  SlotInv'
<1> DEFINE n == Len(slots[p])  trig == TriggerOf(p, n)
<1>1. CASE n = NumIsrEvents /\ UNCHANGED <<slots, mTrig, installed>>
  BY <1>1 DEF SlotInv
<1>2. CASE /\ n < NumIsrEvents /\ slots' = [slots EXCEPT ![p] = Append(@, f)]
           /\ mTrig' = [mTrig EXCEPT ![o] = trig] /\ installed' = [installed EXCEPT ![o] = f]
  <2>1. slots[p] \in Seq(SfFns) /\ n \in Nat /\ n <= NumIsrEvents /\ NumIsrEvents \in Nat
    BY SfConstantsMean DEF SlotInv, SfConstants
  <2>2. trig \in Nat /\ PrioOfTrigger(trig) = p /\ IdxOfTrigger(trig) = n
    <3>1. trig \in Nat
      <4>1. EvtMod \in Nat /\ PrioMod \in Nat /\ p \in Nat
        BY SfConstantsMean DEF SfConstants, Prios
      <4>2. EvtMod * PrioMod \in Nat /\ p * EvtMod \in Nat
        BY <4>1
      <4> DEFINE x == EvtMod * PrioMod  y == p * EvtMod
      <4> HIDE DEF x, y
      <4>3. x + y + n \in Nat
        BY <2>1, <4>2 DEF x, y
      <4> QED BY <4>3 DEF x, y, TriggerOf, TriggerTop
    <3> QED BY <1>2, <2>1, <3>1, TriggerNames
  <2>3. /\ slots' \in [Prios -> Seq(SfFns)] /\ mTrig' \in [SfTriggers -> Nat]
        /\ installed' \in [SfTriggers -> SfFns \cup {SfNobody}]
    BY <1>2, <2>1, <2>2 DEF SlotInv
  <2>4. \A q \in Prios : Len(slots'[q]) <= NumIsrEvents
    BY <1>2, <2>1 DEF SlotInv
  <2>5. /\ \A q \in Prios, i \in Nat : i < Len(slots[q]) =>
             i < Len(slots'[q]) /\ slots'[q][i + 1] = slots[q][i + 1]
        /\ n < Len(slots'[p]) /\ slots'[p][n + 1] = f
    <3>1. ASSUME NEW i \in Nat, i < n PROVE i < Len(slots'[p]) /\ slots'[p][i + 1] = slots[p][i + 1]
      BY <1>2, <2>1, <3>1 DEF SlotInv
    <3>2. n < Len(slots'[p]) /\ slots'[p][n + 1] = f
      BY <1>2, <2>1 DEF SlotInv
    <3> QED BY <1>2, <3>1, <3>2 DEF SlotInv
  <2>6. ASSUME NEW q \in SfTriggers, mTrig'[q] # 0
        PROVE  \E prio \in Prios, idx \in Nat :
                 /\ idx < Len(slots'[prio]) /\ mTrig'[q] = TriggerOf(prio, idx)
                 /\ slots'[prio][idx + 1] = installed'[q]
    <3>1. CASE q = o
      BY <1>2, <2>1, <2>5, <3>1 DEF SlotInv
    <3>2. CASE q # o
      <4>1. mTrig'[q] = mTrig[q] /\ installed'[q] = installed[q]
        BY <1>2, <3>2 DEF SlotInv
      <4>2. PICK prio \in Prios, idx \in Nat :
              /\ idx < Len(slots[prio]) /\ mTrig[q] = TriggerOf(prio, idx)
              /\ slots[prio][idx + 1] = installed[q]
        BY <2>6, <4>1 DEF SlotInv
      <4> QED BY <2>5, <4>1, <4>2
    <3> QED BY <3>1, <3>2
  <2>7. ASSUME NEW q \in SfTriggers, mTrig[q] = trig, mTrig[q] # 0 PROVE FALSE
    <3>1. PICK prio \in Prios, idx \in Nat : idx < Len(slots[prio]) /\ mTrig[q] = TriggerOf(prio, idx)
      BY <2>7 DEF SlotInv
    <3>2. Len(slots[prio]) \in Nat /\ Len(slots[prio]) <= NumIsrEvents
      BY DEF SlotInv
    <3>3. idx < NumIsrEvents
      BY <2>1, <3>1, <3>2
    <3>4. prio = p /\ idx = n
      BY <2>2, <2>7, <3>1, <3>3, TriggerNames
    <3> QED BY <2>1, <3>1, <3>4
  <2>8. trig # 0
    BY <1>2, <2>1, TriggerNames
  <2>9. \A q, r \in SfTriggers : mTrig'[q] # 0 /\ mTrig'[q] = mTrig'[r] => q = r
    BY <1>2, <2>7, <2>8 DEF SlotInv
  <2> QED BY <2>3, <2>4, <2>6, <2>9 DEF SlotInv
<1> QED BY <1>1, <1>2 DEF AddEventFn

LEMMA SlotAgain ==
  ASSUME SlotInv, NEW o \in SfTriggers, NEW f \in SfFns, AddEventFnAgain(o, f)
  PROVE  SlotInv'
<1>1. PICK prio \in Prios, idx \in Nat :
        /\ idx < Len(slots[prio]) /\ mTrig[o] = TriggerOf(prio, idx)
        /\ slots[prio][idx + 1] = installed[o]
  BY DEF SlotInv, AddEventFnAgain
<1>2. slots[prio] \in Seq(SfFns) /\ Len(slots[prio]) <= NumIsrEvents /\ NumIsrEvents \in Nat
  BY SfConstantsMean DEF SlotInv, SfConstants
<1>3. PrioOfTrigger(mTrig[o]) = prio /\ IdxOfTrigger(mTrig[o]) = idx
  BY <1>1, <1>2, TriggerNames
<1>4. CASE mTrig' = [mTrig EXCEPT ![o] = 0] /\ UNCHANGED <<slots, installed>>
  <2>1. mTrig' \in [SfTriggers -> Nat]
    BY <1>4 DEF SlotInv
  <2>2. \A q \in SfTriggers : mTrig'[q] # 0 => mTrig'[q] = mTrig[q]
    BY <1>4 DEF SlotInv
  <2>3. slots' = slots /\ installed' = installed
    BY <1>4
  <2>4. \A q, r \in SfTriggers : mTrig'[q] # 0 /\ mTrig'[q] = mTrig'[r] => q = r
    BY <1>4 DEF SlotInv
  <2>5. \A q \in SfTriggers : mTrig'[q] # 0 =>
          \E p \in Prios, i \in Nat :
            /\ i < Len(slots'[p]) /\ mTrig'[q] = TriggerOf(p, i) /\ slots'[p][i + 1] = installed'[q]
    BY <2>2, <2>3 DEF SlotInv
  <2> QED BY <2>1, <2>3, <2>4, <2>5 DEF SlotInv
<1>5. CASE /\ slots' = [slots EXCEPT ![prio][idx + 1] = f]
           /\ installed' = [installed EXCEPT ![o] = f] /\ mTrig' = mTrig
  <2>1. idx + 1 \in DOMAIN slots[prio]
    BY <1>1, <1>2
  <2>2. /\ slots'[prio] = [slots[prio] EXCEPT ![idx + 1] = f]
        /\ \A p \in Prios \ {prio} : slots'[p] = slots[p]
        /\ DOMAIN slots' = Prios
    BY <1>5 DEF SlotInv
  <2>3. slots'[prio] \in Seq(SfFns) /\ Len(slots'[prio]) = Len(slots[prio])
    BY <1>2, <2>1, <2>2
  <2>4. slots' \in [Prios -> Seq(SfFns)] /\ \A p \in Prios : Len(slots'[p]) = Len(slots[p])
    <3>1. \A p \in Prios : slots'[p] \in Seq(SfFns) /\ Len(slots'[p]) = Len(slots[p])
      BY <2>2, <2>3 DEF SlotInv
    <3>2. slots' = [p \in Prios |-> slots'[p]]
      BY <1>5 DEF SlotInv
    <3> QED BY <3>1, <3>2
  <2>5. ASSUME NEW q \in SfTriggers, mTrig'[q] # 0
        PROVE  \E p \in Prios, i \in Nat :
                 /\ i < Len(slots'[p]) /\ mTrig'[q] = TriggerOf(p, i)
                 /\ slots'[p][i + 1] = installed'[q]
    <3>1. CASE q = o
      <4>1. slots'[prio][idx + 1] = f /\ installed'[o] = f
        BY <1>5, <2>1, <2>2 DEF SlotInv
      <4> QED BY <1>1, <1>5, <2>4, <3>1, <4>1
    <3>2. CASE q # o
      <4>1. PICK p \in Prios, i \in Nat :
              i < Len(slots[p]) /\ mTrig[q] = TriggerOf(p, i) /\ slots[p][i + 1] = installed[q]
        BY <1>5, <2>5 DEF SlotInv
      <4>2. p # prio \/ i # idx
        <5>1. mTrig[q] # mTrig[o]
          BY <1>5, <2>5, <3>2 DEF SlotInv
        <5> QED BY <1>1, <4>1, <5>1
      <4>3. slots'[p][i + 1] = slots[p][i + 1]
        <5>1. CASE p # prio
          BY <2>2, <5>1
        <5>2. CASE p = prio
          <6>1. i + 1 # idx + 1 /\ i + 1 \in DOMAIN slots[prio]
            BY <1>2, <4>1, <4>2, <5>2
          <6> QED BY <2>2, <5>2, <6>1
        <5> QED BY <5>1, <5>2
      <4>4. installed'[q] = installed[q]
        BY <1>5, <3>2 DEF SlotInv
      <4> QED BY <1>5, <2>4, <4>1, <4>3, <4>4
    <3> QED BY <3>1, <3>2
  <2>6. installed' \in [SfTriggers -> SfFns \cup {SfNobody}]
    BY <1>5 DEF SlotInv
  <2> QED BY <1>5, <2>4, <2>5, <2>6 DEF SlotInv
<1> QED BY <1>3, <1>4, <1>5 DEF AddEventFnAgain

LEMMA ShotStep ==
  ASSUME ShotInv, NEW shot \in SfHeap \cup SfOwn,
         ScheduleFn(shot) \/ ScheduleLambda(shot) \/ TakeShot(shot) \/ ScheduleFnCb(shot)
  PROVE  ShotInv'
<1> USE SfConstantsMean DEF SfConstants, ShotInv, OneShotsHeld
<1>1. CASE ScheduleFn(shot)
  BY <1>1 DEF ScheduleFn
<1>2. CASE ScheduleLambda(shot)
  BY <1>2 DEF ScheduleLambda
<1>3. CASE TakeShot(shot)
  BY <1>3 DEF TakeShot
<1>4. CASE ScheduleFnCb(shot)
  BY <1>4 DEF ScheduleFnCb
<1> QED BY <1>1, <1>2, <1>3, <1>4

LEMMA SfNextInv == SfInv /\ [SfNext]_sfVars => SfInv'
<1> SUFFICES ASSUME SfInv, [SfNext]_sfVars PROVE SfInv'
  OBVIOUS
<1>0. BuildInv /\ SlotInv /\ ShotInv
  BY DEF SfInv
<1>1. ASSUME UNCHANGED sfInst PROVE BuildInv'
  BY <1>0, <1>1 DEF sfInst, BuildInv
<1>2. ASSUME UNCHANGED sfEvents PROVE SlotInv'
  BY <1>0, <1>2 DEF sfEvents, SlotInv
<1>3. ASSUME UNCHANGED sfShots PROVE ShotInv'
  BY <1>0, <1>3 DEF sfShots, ShotInv, OneShotsHeld
<1>4. CASE UNCHANGED sfVars
  BY <1>1, <1>2, <1>3, <1>4 DEF sfVars, SfInv
<1>5. ASSUME NEW t \in SfThreads, UNCHANGED <<sfEvents, sfShots>>,
             \/ InstTest(t) \/ InstEnter(t) \/ InstTestAgain(t) \/ InstLeave(t)
             \/ CtorPublish(t) \/ CtorFill(t) \/ CtorStart(t)
      PROVE  SfInv'
  <2>1. BuildInv'
    BY <1>0, <1>5, BuildStep
  <2> QED BY <1>2, <1>3, <1>5, <2>1 DEF SfInv
<1>6. ASSUME NEW o \in SfTriggers, NEW f \in SfFns, UNCHANGED <<sfInst, sfShots>>,
             (\E p \in Prios : AddEventFn(o, p, f)) \/ AddEventFnAgain(o, f)
      PROVE  SfInv'
  <2>1. SlotInv'
    BY <1>0, <1>6, SlotAdded, SlotAgain
  <2> QED BY <1>1, <1>3, <1>6, <2>1 DEF SfInv
<1>7. ASSUME NEW shot \in SfHeap \cup SfOwn, UNCHANGED <<sfInst, sfEvents>>,
             ScheduleFn(shot) \/ ScheduleLambda(shot) \/ TakeShot(shot) \/ ScheduleFnCb(shot)
      PROVE  SfInv'
  <2>1. ShotInv'
    BY <1>0, <1>7, ShotStep
  <2> QED BY <1>1, <1>2, <1>7, <2>1 DEF SfInv
<1> QED BY <1>4, <1>5, <1>6, <1>7 DEF SfNext

\* The three properties from the three parts.
LEMMA SfInvMeans == SfInv => SchedulerBuiltOnce /\ TriggersReachOwnFn /\ OneShotsHeld
<1> SUFFICES ASSUME SfInv PROVE SchedulerBuiltOnce /\ TriggersReachOwnFn /\ OneShotsHeld
  OBVIOUS
<1>1. SchedulerBuiltOnce
  <2>1. ASSUME NEW t \in SfThreads, sfAt[t] = "leave" PROVE mpSchedulers = Prios
    BY <2>1 DEF SfInv, BuildInv
  <2> QED BY <2>1 DEF SfInv, BuildInv, SchedulerBuiltOnce
<1>2. TriggersReachOwnFn
  <2>1. ASSUME NEW o \in SfTriggers, mTrig[o] # 0
        PROVE  /\ IdxOfTrigger(mTrig[o]) < Len(slots[PrioOfTrigger(mTrig[o])])
               /\ slots[PrioOfTrigger(mTrig[o])][IdxOfTrigger(mTrig[o]) + 1] = installed[o]
    <3>1. PICK prio \in Prios, idx \in Nat :
            /\ idx < Len(slots[prio]) /\ mTrig[o] = TriggerOf(prio, idx)
            /\ slots[prio][idx + 1] = installed[o]
      BY <2>1 DEF SfInv, SlotInv
    <3>2. Len(slots[prio]) \in Nat /\ Len(slots[prio]) <= NumIsrEvents /\ NumIsrEvents \in Nat
      BY SfConstantsMean DEF SfInv, SlotInv, SfConstants
    <3>3. PrioOfTrigger(mTrig[o]) = prio /\ IdxOfTrigger(mTrig[o]) = idx
      BY <3>1, <3>2, TriggerNames
    <3> QED BY <3>1, <3>3
  <2> QED BY <2>1 DEF SfInv, SlotInv, TriggersReachOwnFn
<1>3. OneShotsHeld
  BY DEF SfInv, ShotInv
<1> QED BY <1>1, <1>2, <1>3

-----------------------------------------------------------------------------
(* The counting semaphore of osal_tirtos.cpp.                              *)

\* The tokens signals have yet to post, each named by its task and a number.
TiPending == {p \in TiTasks \X (1 .. TiMaxInc) : p[2] <= tiPosts[p[1]]}

TiSemInv ==
  /\ tiPc \in [TiTasks -> TiLabels] /\ tiCount \in Nat /\ tiPosts \in [TiTasks -> 0 .. TiMaxInc]
  /\ \A t \in TiTasks : tiPc[t] # "posting" => tiPosts[t] = 0
  /\ tiCount + Cardinality(TiPending) <= TiMaxCnt + (Cardinality(TiTasks) - 1) * TiMaxInc

\* As many tokens as tasks times the largest signal, at most.
LEMMA TiPendingFinite ==
  ASSUME NEW S \in SUBSET TiTasks, NEW P \in SUBSET (S \X (1 .. TiMaxInc))
  PROVE  /\ IsFiniteSet(P) /\ Cardinality(P) \in Nat /\ Cardinality(S) \in Nat
         /\ Cardinality(P) <= Cardinality(S) * TiMaxInc
<1>1. IsFiniteSet(S) /\ TiMaxInc \in Nat
  BY TiAssumption, FS_Subset
<1>2. IsFiniteSet(1 .. TiMaxInc) /\ Cardinality(1 .. TiMaxInc) = TiMaxInc
  BY <1>1, FS_Interval
<1>3. IsFiniteSet(S \X (1 .. TiMaxInc)) /\ Cardinality(S \X (1 .. TiMaxInc)) = Cardinality(S) * TiMaxInc
  BY <1>1, <1>2, FS_Product
<1> QED BY <1>1, <1>3, FS_Subset, FS_CardinalityType

LEMMA TiSemInitInv == TiInit => TiSemInv
<1> SUFFICES ASSUME TiInit PROVE TiSemInv
  OBVIOUS
<1>1. tiPosts = [t \in TiTasks |-> 0] /\ tiCount = 0 /\ tiPc = [t \in TiTasks |-> "idle"]
  BY DEF TiInit
<1>2. TiPending = {}
  BY <1>1 DEF TiPending
<1>3. Cardinality(TiPending) = 0
  BY <1>2, FS_EmptySet
<1>4. TiMaxInc \in Nat /\ TiMaxCnt \in Nat
  BY TiAssumption
<1>5. Cardinality(TiTasks) \in Nat /\ Cardinality(TiTasks) # 0
  BY TiAssumption, FS_CardinalityType, FS_EmptySet
<1>6. (Cardinality(TiTasks) - 1) * TiMaxInc \in Nat
  BY <1>4, <1>5
<1> DEFINE room == (Cardinality(TiTasks) - 1) * TiMaxInc
<1> HIDE DEF room
<1>7. 0 + 0 <= TiMaxCnt + room
  BY <1>4, <1>6 DEF room
<1> QED BY <1>1, <1>3, <1>4, <1>7 DEF TiSemInv, TiLabels, room

\* A task that is computing a signal has nothing pending: the others have no more than
\* their largest signals.
LEMMA TiOthersPending ==
  ASSUME TiSemInv, NEW t \in TiTasks, tiPosts[t] = 0
  PROVE  /\ TiPending \subseteq (TiTasks \ {t}) \X (1 .. TiMaxInc)
         /\ Cardinality(TiPending) <= (Cardinality(TiTasks) - 1) * TiMaxInc
         /\ IsFiniteSet(TiPending) /\ Cardinality(TiPending) \in Nat
<1>1. TiMaxInc \in Nat /\ IsFiniteSet(TiTasks)
  BY TiAssumption
<1>2. TiPending \subseteq (TiTasks \ {t}) \X (1 .. TiMaxInc)
  BY <1>1 DEF TiPending
<1>3. Cardinality(TiTasks \ {t}) = Cardinality(TiTasks) - 1
  BY <1>1, FS_RemoveElement
<1>4. Cardinality(TiPending) <= Cardinality(TiTasks \ {t}) * TiMaxInc
  BY <1>2, TiPendingFinite
<1>5. IsFiniteSet(TiPending) /\ Cardinality(TiPending) \in Nat
  BY <1>2, TiPendingFinite
<1> QED BY <1>2, <1>3, <1>4, <1>5

\* Pending tokens are counted task by task.
LEMMA TiPendingOf ==
  ASSUME NEW t \in TiTasks, NEW m \in 0 .. TiMaxInc, NEW n \in 0 .. TiMaxInc, m <= n,
         NEW P, NEW Q, P \subseteq TiTasks \X (1 .. TiMaxInc),
         Q = P \cup {p \in TiTasks \X (1 .. TiMaxInc) : p[1] = t /\ m < p[2] /\ p[2] <= n},
         \A p \in P : p[1] = t => p[2] <= m
  PROVE  /\ IsFiniteSet(P) /\ Cardinality(P) \in Nat /\ Cardinality(Q) \in Nat
         /\ Cardinality(Q) = Cardinality(P) + (n - m)
<1> DEFINE more == {t} \X ((m + 1) .. n)
<1>1. TiMaxInc \in Nat /\ m \in Nat /\ n \in Nat
  BY TiAssumption
<1>2. IsFiniteSet(P) /\ Cardinality(P) \in Nat
  BY TiPendingFinite
<1>3. Q = P \cup more
  <2>1. {p \in TiTasks \X (1 .. TiMaxInc) : p[1] = t /\ m < p[2] /\ p[2] <= n} = more
    BY <1>1
  <2> QED BY <2>1
<1>4. P \cap more = {}
  BY <1>1
<1>5. IsFiniteSet((m + 1) .. n) /\ Cardinality((m + 1) .. n) = n - m
  <2>1. m + 1 \in Int /\ n \in Int
    BY <1>1
  <2>2. /\ IsFiniteSet((m + 1) .. n)
        /\ Cardinality((m + 1) .. n) = IF m + 1 > n THEN 0 ELSE n - (m + 1) + 1
    BY <2>1, FS_Interval
  <2> QED BY <1>1, <2>2
<1>6. IsFiniteSet({t}) /\ Cardinality({t}) = 1
  BY FS_Singleton
<1>7. IsFiniteSet(more) /\ Cardinality(more) = n - m
  <2>1. IsFiniteSet(more) /\ Cardinality(more) = 1 * (n - m)
    BY <1>5, <1>6, FS_Product
  <2> QED BY <1>1, <2>1
<1>8. IsFiniteSet(P \cap more) /\ Cardinality(P \cap more) = 0
  BY <1>4, FS_EmptySet
<1>9. Cardinality(P \cup more) = Cardinality(P) + Cardinality(more) - Cardinality(P \cap more)
  BY <1>2, <1>7, FS_Union
<1>10. n - m \in Nat
  BY <1>1
<1> HIDE DEF more
<1>11. Cardinality(P \cup more) = Cardinality(P) + (n - m)
  BY <1>2, <1>7, <1>8, <1>9, <1>10
<1>12. Cardinality(P) + (n - m) \in Nat
  BY <1>2, <1>10
<1> QED BY <1>2, <1>3, <1>11, <1>12

LEMMA TiSemNextInv == TiSemInv /\ [TiNext]_tiVars => TiSemInv'
<1> SUFFICES ASSUME TiSemInv, [TiNext]_tiVars PROVE TiSemInv'
  OBVIOUS
<1>0. /\ TiMaxInc \in Nat /\ TiMaxCnt \in Nat /\ tiCount \in Nat
      /\ tiPosts \in [TiTasks -> 0 .. TiMaxInc] /\ tiPc \in [TiTasks -> TiLabels]
      /\ TiPending \subseteq TiTasks \X (1 .. TiMaxInc)
  BY TiAssumption DEF TiSemInv, TiPending
<1>a. IsFiniteSet(TiPending) /\ Cardinality(TiPending) \in Nat
  BY <1>0, TiPendingFinite
<1>b. (Cardinality(TiTasks) - 1) * TiMaxInc \in Int
  <2>1. Cardinality(TiTasks) \in Nat
    BY TiAssumption, FS_CardinalityType
  <2> QED BY <1>0, <2>1
<1> DEFINE room == (Cardinality(TiTasks) - 1) * TiMaxInc
<1>c. room \in Int /\ tiCount + Cardinality(TiPending) <= TiMaxCnt + room
  BY <1>b DEF TiSemInv
<1> HIDE DEF room
<1>d. ASSUME UNCHANGED <<tiCount, tiPosts>>, tiPc' \in [TiTasks -> TiLabels],
             \A t \in TiTasks : tiPc'[t] # "posting" => tiPc[t] # "posting"
      PROVE  TiSemInv'
  BY <1>0, <1>d DEF TiSemInv, TiPending
<1>1. CASE UNCHANGED tiVars
  BY <1>0, <1>1, <1>d DEF tiVars, tiSemVars
<1>2. ASSUME NEW t \in TiTasks,
             \/ LockTestOwned(t) \/ LockTestOwner(t) \/ LockPend(t) \/ LockSetOwned(t)
             \/ LockSetOwner(t) \/ Unlock(t) \/ UnlockClear(t) \/ UnlockPost(t)
      PROVE  TiSemInv'
  <2>1. UNCHANGED <<tiCount, tiPosts>>
    BY <1>2 DEF tiSemVars, LockTestOwned, LockTestOwner, LockPend, LockSetOwned, LockSetOwner,
                Unlock, UnlockClear, UnlockPost
  <2>2. PICK from \in TiLabels \ {"posting"}, to \in TiLabels : TiGoto(t, from, to)
    BY <1>2 DEF TiLabels, LockTestOwned, LockTestOwner, LockPend, LockSetOwned, LockSetOwner,
                Unlock, UnlockClear, UnlockPost
  <2> QED BY <1>0, <1>d, <2>1, <2>2 DEF TiGoto
<1>3. ASSUME NEW t \in TiTasks, EnterCritical(t) \/ ExitCritical(t) PROVE TiSemInv'
  <2>1. /\ UNCHANGED <<tiCount, tiPosts>> /\ tiPc[t] # "posting"
        /\ \E to \in {"idle", "critical"} : tiPc' = [tiPc EXCEPT ![t] = to]
    BY <1>3 DEF tiSemVars, EnterCritical, ExitCritical
  <2> QED BY <1>0, <1>d, <2>1 DEF TiLabels
<1>4. ASSUME NEW t \in TiTasks, NEW more \in 1 .. TiMaxInc, SignalCompute(t, more) PROVE TiSemInv'
  <2> DEFINE n == IF tiCount >= TiMaxCnt THEN 0 ELSE TiMin(more, TiMaxCnt - tiCount)
  <2>1. /\ tiPc[t] = "idle" /\ tiPc' = [tiPc EXCEPT ![t] = "posting"]
        /\ tiPosts' = [tiPosts EXCEPT ![t] = n] /\ tiCount' = tiCount
    BY <1>4 DEF SignalCompute, TiGoto
  <2>2. n \in 0 .. TiMaxInc /\ (n = 0 \/ tiCount + n <= TiMaxCnt)
    BY <1>0 DEF TiMin
  <2> HIDE DEF n
  <2>3. tiPosts[t] = 0
    BY <2>1 DEF TiSemInv
  <2>4. /\ Cardinality(TiPending) <= room
        /\ TiPending \subseteq (TiTasks \ {t}) \X (1 .. TiMaxInc)
    BY <2>3, TiOthersPending DEF room
  <2>5. TiPending' = TiPending \cup
          {p \in TiTasks \X (1 .. TiMaxInc) : p[1] = t /\ 0 < p[2] /\ p[2] <= n}
    BY <1>0, <2>1, <2>2, <2>3, <2>4 DEF TiPending
  <2>6. Cardinality(TiPending') = Cardinality(TiPending) + (n - 0)
    <3>1. 0 \in 0 .. TiMaxInc /\ 0 <= n
      BY <1>0, <2>2
    <3>2. \A p \in TiPending : p[1] = t => p[2] <= 0
      BY <2>4
    <3> QED BY <1>0, <2>2, <2>5, <3>1, <3>2, TiPendingOf, ZenonT(30)
  <2>7. tiCount' + Cardinality(TiPending') <= TiMaxCnt + room
    <3>1. n \in Nat
      BY <2>2, <1>0
    <3> QED BY <1>0, <1>a, <1>c, <2>1, <2>2, <2>4, <2>6, <3>1
  <2>8. tiPosts' \in [TiTasks -> 0 .. TiMaxInc] /\ tiPc' \in [TiTasks -> TiLabels]
    BY <1>0, <2>1, <2>2 DEF TiLabels
  <2>9. \A u \in TiTasks : tiPc'[u] # "posting" => tiPosts'[u] = 0
    BY <1>0, <2>1 DEF TiSemInv
  <2> QED BY <1>0, <2>1, <2>7, <2>8, <2>9 DEF TiSemInv, room
<1>5. ASSUME NEW t \in TiTasks, SignalPost(t) PROVE TiSemInv'
  <2>1. /\ tiPc[t] = "posting"
        /\ tiPc' = [tiPc EXCEPT ![t] = IF tiPosts[t] <= 1 THEN "idle" ELSE "posting"]
        /\ tiCount' = tiCount + TiMin(tiPosts[t], 1)
        /\ tiPosts' = [tiPosts EXCEPT ![t] = @ - TiMin(@, 1)]
    BY <1>5 DEF SignalPost, TiGoto
  <2>2. tiPosts[t] \in Nat /\ tiPosts[t] <= TiMaxInc
    BY <1>0
  <2>3. CASE tiPosts[t] = 0
    <3>1. TiMin(tiPosts[t], 1) = 0
      BY <2>3 DEF TiMin
    <3>2. tiCount' = tiCount /\ tiPosts' = tiPosts
      BY <1>0, <2>1, <2>3, <3>1
    <3>3. TiPending' = TiPending
      BY <3>2 DEF TiPending
    <3>4. tiPc' \in [TiTasks -> TiLabels]
      BY <1>0, <2>1 DEF TiLabels
    <3>5. \A u \in TiTasks : tiPc'[u] # "posting" => tiPosts'[u] = 0
      BY <1>0, <2>1, <2>3, <3>2 DEF TiSemInv
    <3> QED BY <1>0, <3>2, <3>3, <3>4, <3>5 DEF TiSemInv
  <2>4. CASE tiPosts[t] >= 1
    <3>1. TiMin(tiPosts[t], 1) = 1
      BY <2>2, <2>4 DEF TiMin
    <3>2. tiCount' = tiCount + 1 /\ tiPosts' = [tiPosts EXCEPT ![t] = tiPosts[t] - 1]
      BY <2>1, <3>1
    <3>3. tiPosts[t] - 1 \in 0 .. TiMaxInc /\ tiPosts[t] \in 0 .. TiMaxInc
      BY <1>0, <2>2, <2>4
    <3>4. TiPending = TiPending' \cup
            {p \in TiTasks \X (1 .. TiMaxInc) : p[1] = t /\ tiPosts[t] - 1 < p[2] /\ p[2] <= tiPosts[t]}
      BY <1>0, <3>2, <3>3 DEF TiPending
    <3>5. Cardinality(TiPending) = Cardinality(TiPending') + 1 /\ Cardinality(TiPending') \in Nat
      <4>1. TiPending' \subseteq TiTasks \X (1 .. TiMaxInc)
        BY DEF TiPending
      <4>2. \A p \in TiPending' : p[1] = t => p[2] <= tiPosts[t] - 1
        BY <1>0, <3>2, <3>3 DEF TiPending
      <4>3. /\ Cardinality(TiPending) = Cardinality(TiPending') + (tiPosts[t] - (tiPosts[t] - 1))
            /\ Cardinality(TiPending') \in Nat
        <5> DEFINE m == tiPosts[t] - 1  n == tiPosts[t]
        <5>1. m <= n /\ m \in 0 .. TiMaxInc /\ n \in 0 .. TiMaxInc
          BY <2>2, <3>3
        <5>2. TiPending = TiPending' \cup
                {p \in TiTasks \X (1 .. TiMaxInc) : p[1] = t /\ m < p[2] /\ p[2] <= n}
          BY <3>4
        <5>3. \A p \in TiPending' : p[1] = t => p[2] <= m
          BY <4>2
        <5> HIDE DEF m, n
        <5>4. /\ Cardinality(TiPending) = Cardinality(TiPending') + (n - m)
              /\ Cardinality(TiPending') \in Nat
          BY <4>1, <5>1, <5>2, <5>3, TiPendingOf, ZenonT(30)
        <5> QED BY <5>4 DEF m, n
      <4> QED BY <2>2, <4>3
    <3>6. tiCount' + Cardinality(TiPending') <= TiMaxCnt + room
      BY <1>0, <1>a, <1>c, <3>2, <3>5
    <3>7. tiPosts' \in [TiTasks -> 0 .. TiMaxInc] /\ tiPc' \in [TiTasks -> TiLabels]
      BY <1>0, <2>1, <3>2, <3>3 DEF TiLabels
    <3>8. \A u \in TiTasks : tiPc'[u] # "posting" => tiPosts'[u] = 0
      <4>1. tiPc'[t] # "posting" => tiPosts'[t] = 0
        BY <1>0, <2>1, <2>2, <2>4, <3>2
      <4>2. \A u \in TiTasks \ {t} : tiPc'[u] = tiPc[u] /\ tiPosts'[u] = tiPosts[u]
        BY <1>0, <2>1, <3>2
      <4> QED BY <4>1, <4>2 DEF TiSemInv
    <3> QED BY <1>0, <3>2, <3>6, <3>7, <3>8 DEF TiSemInv, room
  <2> QED BY <2>2, <2>3, <2>4
<1>6. ASSUME NEW t \in TiTasks, Wait(t) PROVE TiSemInv'
  <2>1. tiCount > 0 /\ tiCount' = tiCount - 1 /\ UNCHANGED <<tiPc, tiPosts>>
    BY <1>6 DEF Wait
  <2>2. TiPending' = TiPending
    BY <2>1 DEF TiPending
  <2>3. tiCount' \in Nat /\ tiCount' + Cardinality(TiPending') <= TiMaxCnt + room
    BY <1>0, <1>a, <1>c, <2>1, <2>2
  <2> QED BY <1>0, <2>1, <2>3 DEF TiSemInv, room
<1> QED
  BY <1>1, <1>2, <1>3, <1>4, <1>5, <1>6 DEF TiNext

LEMMA TiSemInvMeans == TiSemInv => TiCountBounded
<1> SUFFICES ASSUME TiSemInv PROVE TiCountBounded
  OBVIOUS
<1>1. TiPending \subseteq TiTasks \X (1 .. TiMaxInc)
  BY DEF TiPending
<1>2. Cardinality(TiPending) \in Nat
  BY <1>1, TiPendingFinite
<1> DEFINE most == TiMaxCnt + (Cardinality(TiTasks) - 1) * TiMaxInc
<1>3. most \in Int
  <2>1. Cardinality(TiTasks) \in Nat /\ TiMaxInc \in Nat /\ TiMaxCnt \in Nat
    BY TiAssumption, FS_CardinalityType
  <2>2. (Cardinality(TiTasks) - 1) * TiMaxInc \in Int
    BY <2>1
  <2> DEFINE room == (Cardinality(TiTasks) - 1) * TiMaxInc
  <2> HIDE DEF room
  <2>3. TiMaxCnt + room \in Int
    BY <2>1, <2>2 DEF room
  <2> QED BY <2>3 DEF room
<1>4. tiCount + Cardinality(TiPending) <= most /\ tiCount \in Nat
  BY DEF TiSemInv
<1> HIDE DEF most
<1>5. tiCount <= most
  BY <1>2, <1>3, <1>4
<1> QED BY <1>5 DEF most, TiCountBounded

-----------------------------------------------------------------------------
(* osal_random.cpp.                                                        *)

RndReads == [pc : {"none", "loop"}, left : Nat, got : SUBSET {0, 1}, reseeded : BOOLEAN]

RndTypeOK ==
  /\ rndCache \in Seq({0, 1}) /\ Len(rndCache) <= CacheSize
  /\ rndRead \in [RndThreads -> RndReads]
  /\ rndSeed \in {0, 1}

\* What is cached was made from the seed that is in force, and so was what a read has
\* got that no reseed overtook; who does not read has got nothing.
RndSeedInv ==
  /\ \A i \in 1 .. Len(rndCache) : rndCache[i] = rndSeed
  /\ \A t \in RndThreads : rndRead[t].pc = "none" => rndRead[t].got = {}
  /\ \A t \in RndThreads : ~rndRead[t].reseeded => rndRead[t].got \subseteq {rndSeed}

RndInv == RndTypeOK /\ RndSeedInv

LEMMA RndMinMeans ==
  \A m, n \in Nat : RndMin(m, n) \in Nat /\ RndMin(m, n) <= m /\ RndMin(m, n) <= n
BY DEF RndMin

\* A block more of the seed in force.
LEMMA RegenKeeps ==
  ASSUME rndSeed \in {0, 1}, NEW s \in Seq({0, 1}), Len(s) <= CacheSize,
         \A i \in 1 .. Len(s) : s[i] = rndSeed
  PROVE  /\ OsalRegenEntropyNoCs(s) \in Seq({0, 1})
         /\ Len(OsalRegenEntropyNoCs(s)) <= CacheSize
         /\ \A i \in 1 .. Len(OsalRegenEntropyNoCs(s)) : OsalRegenEntropyNoCs(s)[i] = rndSeed
<1> DEFINE n == RndMin(CacheSize - Len(s), BlockSize)
           more == [i \in 1 .. n |-> rndSeed]
<1>1. n \in Nat /\ n <= CacheSize - Len(s)
  <2>1. CacheSize - Len(s) \in Nat /\ BlockSize \in Nat
    BY RndAssumption
  <2> QED BY <2>1, RndMinMeans
<1> HIDE DEF n
<1>2. more \in Seq({0, 1}) /\ Len(more) = n
  BY <1>1
<1>3. OsalRegenEntropyNoCs(s) = s \o more
  BY DEF OsalRegenEntropyNoCs, mbedtls_hardware_poll, GetEntropy, n
<1>4. \A i \in 1 .. Len(s) + n : (s \o more)[i] = rndSeed
  BY <1>1, <1>2
<1>5. s \o more \in Seq({0, 1}) /\ Len(s \o more) = Len(s) + n /\ Len(s) + n <= CacheSize
  <2>1. Len(s) \in Nat /\ CacheSize \in Nat
    BY RndAssumption
  <2> QED BY <1>1, <1>2, <2>1
<1> QED BY <1>3, <1>4, <1>5

LEMMA RndInitInv == RndInit => RndInv
BY RndAssumption DEF RndInit, RndInv, RndTypeOK, RndSeedInv, NoRead, RndReads

LEMMA RndNextInv == RndInv /\ [RndNext]_rndVars => RndInv'
<1> SUFFICES ASSUME RndInv, [RndNext]_rndVars PROVE RndInv'
  OBVIOUS
<1> USE DEF RndInv, RndTypeOK, RndSeedInv
<1>1. CASE UNCHANGED rndVars
  BY <1>1 DEF rndVars
<1>2. CASE OsalRegenEntropyTask
  BY <1>2, RegenKeeps DEF OsalRegenEntropyTask
<1>3. CASE WriteTextIteration \/ WriteTextEnd
  BY <1>3 DEF WriteTextIteration, WriteTextEnd
<1>4. ASSUME NEW t \in RndThreads, NEW n \in ReadSizes, ReadBegin(t, n) PROVE RndInv'
  BY <1>4, RndAssumption DEF ReadBegin, NoRead, RndReads
<1>5. ASSUME NEW t \in RndThreads, ReadIteration(t) PROVE RndInv'
  <2> DEFINE k == RndMin(rndRead[t].left, Len(rndCache))
             rest == SubSeq(rndCache, k + 1, Len(rndCache))
             taken == {rndCache[i] : i \in 1 .. k}
  <2>1. k \in Nat /\ k <= rndRead[t].left /\ k <= Len(rndCache)
    <3>1. rndRead[t].left \in Nat /\ Len(rndCache) \in Nat
      BY DEF RndReads
    <3> QED BY <3>1, RndMinMeans
  <2>2. /\ rndRead' = [rndRead EXCEPT ![t].left = @ - k, ![t].got = @ \cup taken]
        /\ rndCache' = OsalRegenEntropyNoCs(rest) \/ rndCache' = rest
        /\ rndSeed' = rndSeed /\ rndRead[t].pc = "loop"
    BY <1>5 DEF ReadIteration
  <2> HIDE DEF k
  <2>3. taken \subseteq {rndSeed}
    BY <2>1
  <2>4. rest \in Seq({0, 1}) /\ Len(rest) = Len(rndCache) - k
        /\ \A i \in 1 .. Len(rest) : rest[i] = rndCache[k + i]
    BY <2>1
  <2>5. Len(rest) <= CacheSize /\ \A i \in 1 .. Len(rest) : rest[i] = rndSeed
    BY <2>1, <2>4, RndAssumption
  <2> HIDE DEF rest, taken
  <2>6. /\ rndCache' \in Seq({0, 1}) /\ Len(rndCache') <= CacheSize
        /\ \A i \in 1 .. Len(rndCache') : rndCache'[i] = rndSeed
    BY <2>2, <2>4, <2>5, RegenKeeps
  <2>7. rndRead[t].left - k \in Nat /\ rndRead[t].got \cup taken \in SUBSET {0, 1}
    <3>1. rndRead[t].left \in Nat /\ rndRead[t].got \in SUBSET {0, 1} /\ rndSeed \in {0, 1}
      BY DEF RndReads
    <3>2. rndRead[t].left - k \in Nat
      BY <2>1, <3>1
    <3>3. rndRead[t].got \cup taken \in SUBSET {0, 1}
      BY <2>3, <3>1
    <3> QED BY <3>2, <3>3
  <2>8. rndRead' \in [RndThreads -> RndReads]
    <3> DEFINE left == rndRead[t].left - k
               got == rndRead[t].got \cup taken
    <3>1. rndRead' = [rndRead EXCEPT ![t] = [rndRead[t] EXCEPT !.left = left, !.got = got]]
      BY <2>2
    <3>2. left \in Nat /\ got \in SUBSET {0, 1} /\ rndRead[t] \in RndReads
      BY <2>7
    <3> HIDE DEF left, got
    <3>3. [rndRead[t] EXCEPT !.left = left, !.got = got] \in RndReads
      BY <3>2 DEF RndReads
    <3> QED BY <3>1, <3>3
  <2> QED BY <2>2, <2>3, <2>6, <2>8
<1>6. ASSUME NEW t \in RndThreads, ReadEnd(t) PROVE RndInv'
  BY <1>6 DEF ReadEnd, NoRead, RndReads
<1>7. ASSUME NEW t \in RndThreads, Serialize(t) PROVE RndInv'
  BY <1>7, RndAssumption DEF Serialize, NoRead, RndReads
<1>8. ASSUME NEW t \in RndThreads, Deserialize(t) PROVE RndInv'
  <2>1. /\ rndRead' = [u \in RndThreads |-> [rndRead[u] EXCEPT !.reseeded = rndRead[u].pc # "none"]]
        /\ rndCache' = <<>> /\ rndSeed' = 1 - rndSeed
    BY <1>8 DEF Deserialize, ForceReseed
  <2>2. ASSUME NEW u \in RndThreads
        PROVE  /\ rndRead'[u] \in RndReads /\ rndRead'[u].pc = rndRead[u].pc
               /\ rndRead'[u].got = rndRead[u].got
               /\ rndRead'[u].reseeded = (rndRead[u].pc # "none")
    BY <2>1 DEF RndReads
  <2>3. rndRead' \in [RndThreads -> RndReads]
    BY <2>1, <2>2
  <2>4. rndCache' \in Seq({0, 1}) /\ Len(rndCache') = 0 /\ 0 <= CacheSize /\ rndSeed' \in {0, 1}
    BY <2>1, RndAssumption
  <2>5. \A u \in RndThreads : rndRead[u].pc \in {"none", "loop"}
    BY DEF RndReads
  <2>6. \A u \in RndThreads : rndRead'[u].pc = "none" => rndRead'[u].got = {}
    BY <2>2
  <2>7. \A u \in RndThreads : ~rndRead'[u].reseeded => rndRead'[u].got = {}
    BY <2>2
  <2>8. RndTypeOK'
    BY <2>3, <2>4
  <2>9. RndSeedInv'
    BY <2>4, <2>6, <2>7
  <2> QED BY <2>8, <2>9
<1>9. ASSUME NEW t \in RndThreads, NEW n \in TextSizes, WriteText(t, n) PROVE RndInv'
  BY <1>9 DEF WriteText
<1> QED
  BY <1>1, <1>2, <1>3, <1>4, <1>5, <1>6, <1>7, <1>8, <1>9 DEF RndNext

-----------------------------------------------------------------------------
(* Task identities.                                                        *)

TaskTypeOK ==
  /\ taskPort \in {"posix", "win32", "freertos", "tirtos"}
  /\ taskState \in [Tasks -> {"none", "starting", "running", "ended", "terminated"}]
  /\ taskThread \in [Tasks -> ThreadIds \cup {NoId}]
  /\ taskObject \in [Tasks -> BOOLEAN]
  /\ taskIdMap \in [ThreadIds -> SUBSET Tasks]

\* Living tasks are on threads of their own.  The entry for a thread is the task that
\* runs on it; in the list of FreeRTOS it may also be tasks that were deleted there.
TaskPlacesInv ==
  /\ \A k \in Tasks : Lives(k) => taskThread[k] \in ThreadIds /\ taskObject[k]
  /\ \A j, k \in Tasks : Lives(j) /\ Lives(k) /\ taskThread[j] = taskThread[k] => j = k
  /\ \A k \in Tasks : taskState[k] = "running" /\ taskPort \in {"posix", "win32"} =>
       taskIdMap[taskThread[k]] = {k}
  /\ taskPort = "freertos" =>
       /\ \A k \in Tasks : taskState[k] = "running" => k \in taskIdMap[taskThread[k]]
       /\ \A i \in ThreadIds : \A j \in taskIdMap[i] :
            taskThread[j] = i /\ taskState[j] \in {"running", "terminated"}

TaskInv == TaskTypeOK /\ TaskPlacesInv

LEMMA TaskInitInv == TaskInit => TaskInv
BY TaskAssumption DEF TaskInit, TaskInv, TaskTypeOK, TaskPlacesInv, Lives

LEMMA TaskNextInv == TaskInv /\ [TaskNext]_taskVars => TaskInv'
<1> SUFFICES ASSUME TaskInv, [TaskNext]_taskVars PROVE TaskInv'
  OBVIOUS
<1> USE DEF TaskInv, TaskTypeOK, TaskPlacesInv, Lives
<1>1. CASE UNCHANGED taskVars
  BY <1>1 DEF taskVars
<1>2. ASSUME NEW k \in Tasks, NewThread(k) PROVE TaskInv'
  BY <1>2 DEF NewThread
<1>3. ASSUME NEW k \in Tasks, osalTaskFxn(k) PROVE TaskInv'
  BY <1>3 DEF osalTaskFxn, ThreadRuns
<1>4. ASSUME NEW k \in Tasks, osal_ThreadTask(k) PROVE TaskInv'
  BY <1>4 DEF osal_ThreadTask, ThreadRuns
<1>5. ASSUME NEW k \in Tasks, OSALTaskCreateTaskCb(k) PROVE TaskInv'
  BY <1>5 DEF OSALTaskCreateTaskCb, ThreadRuns
<1>6. ASSUME NEW k \in Tasks, osalTaskFxn_TiRtos(k) PROVE TaskInv'
  BY <1>6 DEF osalTaskFxn_TiRtos, ThreadRuns
<1>7. ASSUME NEW k \in Tasks, TaskReturns(k) PROVE TaskInv'
  BY <1>7 DEF TaskReturns, ThreadEnds
<1>8. ASSUME NEW k \in Tasks, TaskCbReturns(k) PROVE TaskInv'
  BY <1>8 DEF TaskCbReturns, ThreadEnds
<1>9. ASSUME NEW k \in Tasks, OSALTaskDelete(k) PROVE TaskInv'
  BY <1>9 DEF OSALTaskDelete, JoinTask
<1>10. ASSUME NEW k \in Tasks, OSALTaskDelete_Win32(k) PROVE TaskInv'
  BY <1>10 DEF OSALTaskDelete_Win32
<1>11. ASSUME NEW k \in Tasks, OSALTaskDelete_TiRtos(k) PROVE TaskInv'
  BY <1>11 DEF OSALTaskDelete_TiRtos
<1>12. ASSUME NEW k \in Tasks, OSALTaskDelete_FreeRtos(k) PROVE TaskInv'
  BY <1>12 DEF OSALTaskDelete_FreeRtos
<1> QED
  BY <1>1, <1>2, <1>3, <1>4, <1>5, <1>6, <1>7, <1>8, <1>9, <1>10, <1>11, <1>12
  DEF TaskNext, OSALTaskCreate, OSALTaskCreate_Win32, OSALTaskCreate_FreeRtos, osal_Task

LEMMA TaskInvMeans == TaskInv => TaskIdsRight /\ TaskObjectKept
<1> SUFFICES ASSUME TaskInv PROVE TaskIdsRight /\ TaskObjectKept
  OBVIOUS
<1>1. TaskObjectKept
  BY DEF TaskInv, TaskPlacesInv, TaskObjectKept
<1>2. ASSUME NEW k \in Tasks, taskState[k] = "running", taskPort # "tirtos"
      PROVE  CurrentTaskID(k) = {k}
               \/ \E j \in Tasks : /\ taskPort = "freertos" /\ taskState[j] = "terminated"
                                   /\ taskThread[j] = taskThread[k]
  <2> DEFINE here == taskIdMap[taskThread[k]]
  <2>1. taskThread[k] \in ThreadIds /\ here \subseteq Tasks
    BY <1>2 DEF TaskInv, TaskTypeOK, TaskPlacesInv, Lives
  <2>2. CASE taskPort \in {"posix", "win32"}
    <3>1. here = {k}
      BY <1>2, <2>2 DEF TaskInv, TaskPlacesInv
    <3> QED BY <2>2, <3>1 DEF CurrentTaskID, OSALGetCurrentTaskID, OSALGetCurrentTaskID_Win32
  <2>3. CASE taskPort = "freertos" /\ \E j \in here : taskState[j] = "terminated"
    BY <2>1, <2>3 DEF TaskInv, TaskPlacesInv
  <2>4. CASE taskPort = "freertos" /\ ~\E j \in here : taskState[j] = "terminated"
    <3>1. \A j \in here : taskThread[j] = taskThread[k] /\ taskState[j] = "running"
      BY <2>1, <2>4 DEF TaskInv, TaskPlacesInv
    <3>2. k \in here /\ \A j \in here : j = k
      BY <1>2, <2>1, <2>4, <3>1 DEF TaskInv, TaskPlacesInv, Lives
    <3>3. here = {k}
      BY <3>2
    <3> QED BY <2>4, <3>3 DEF CurrentTaskID, OSALGetCurrentTaskID_FreeRtos
  <2> QED BY <1>2, <2>2, <2>3, <2>4 DEF TaskInv, TaskTypeOK
<1> QED BY <1>1, <1>2 DEF TaskIdsRight

-----------------------------------------------------------------------------
(* Deleting a mutex.                                                       *)

\* One thread deletes; it holds the mutex between its lock and its unlock, and on POSIX
\* whoever has the mutex afterwards took it from nobody, which mxLate records.
MxLabels == {"idle", "try", "wait", "assert", "delete", "unlock", "destroy"}
MxInv ==
  /\ mxPc \in [MxThreads -> MxLabels] /\ mxLate \in BOOLEAN
  /\ \A t \in MxThreads : mxPc[t] = "unlock" => mxOwner = t
  /\ \A t, u \in MxThreads :
       mxPc[t] \in {"delete", "unlock", "destroy"} /\ mxPc[u] \in {"delete", "unlock", "destroy"}
         => t = u
  /\ \A t \in MxThreads : mxPort = "posix" /\ mxPc[t] = "destroy"
                          => mxOwner \in {MxNobody, t} \/ mxLate = TRUE

LEMMA MxInitInv == MxInit => MxInv
BY DEF MxInit, MxInv, MxLabels

LEMMA MxNextInv == MxInv /\ [MxNext]_mxVars => MxInv'
<1> SUFFICES ASSUME MxInv, [MxNext]_mxVars
             PROVE  MxInv'
  OBVIOUS
<1> USE MxAssumption
<1>1. CASE UNCHANGED mxVars
  BY <1>1 DEF MxInv, mxVars
<1>2. ASSUME NEW t \in MxThreads, lockGets(t)
      PROVE  MxInv'
  <2>1. mxPc' = [mxPc EXCEPT ![t] = "idle"] /\ mxPort' = mxPort /\ mxPc[t] \in {"try", "wait"}
    BY <1>2 DEF lockGets, MxGoto
  <2>2. mxOwner' = t /\ mxOwner \in {MxNobody, t}
    BY <1>2 DEF lockGets, MxFree, MxTake
  <2>3. mxLate' \in BOOLEAN /\ (mxLate = TRUE => mxLate' = TRUE)
    BY <1>2 DEF lockGets, MxInv
  <2>4. mxOwner = MxNobody /\ (\E u \in MxThreads : mxPc[u] = "destroy") => mxLate' = TRUE
    BY <1>2 DEF lockGets
  <2> QED
    BY <2>1, <2>2, <2>3, <2>4 DEF MxInv, MxLabels
<1>3. ASSUME NEW t \in MxThreads,
             \/ lockPolls(t) \/ dtorPolls(t) \/ dtorFails(t) \/ dtorFails_Win32(t)
             \/ TakeTimesOut_FreeRtos(t)
      PROVE  MxInv'
  BY <1>3 DEF lockPolls, dtorPolls, dtorFails, dtorFails_Win32, dtorGivesUp,
              TakeTimesOut_FreeRtos, MxGoto, MxInv, MxLabels
<1>4. ASSUME NEW t \in MxThreads, xSemaphoreTakeRecursive(t)
      PROVE  MxInv'
  <2>1. mxPort = "freertos" /\ mxPort' = mxPort /\ mxLate' = mxLate /\ mxPc[t] \in {"try", "assert"}
    BY <1>4 DEF xSemaphoreTakeRecursive
  <2>2. \/ mxPc' = [mxPc EXCEPT ![t] = "idle"] /\ mxOwner \in {MxNobody, t} /\ mxOwner' = t
        \/ mxPc' = mxPc /\ mxOwner' = mxOwner
    BY <1>4 DEF xSemaphoreTakeRecursive, MxFree, MxTake, MxGoto
  <2> QED
    BY <2>1, <2>2 DEF MxInv, MxLabels
<1>5. ASSUME NEW t \in MxThreads, dtorLocked(t)
      PROVE  MxInv'
  BY <1>5 DEF dtorLocked, MxTake, MxFree, MxGoto, MxInv, MxLabels
<1>6. ASSUME NEW t \in MxThreads, dtorUnlock(t)
      PROVE  MxInv'
  BY <1>6 DEF dtorUnlock, MxGive, MxGoto, MxInv, MxLabels
<1>7. ASSUME NEW t \in MxThreads, dtorDestroys(t)
      PROVE  MxInv'
  BY <1>7 DEF dtorDestroys, MxGoto, MxInv, MxLabels
<1>8. ASSUME NEW t \in MxThreads, OSALLockMutex(t) \/ OSALLockMutex_FreeRtos(t)
      PROVE  MxInv'
  BY <1>8 DEF OSALLockMutex, OSALLockMutex_FreeRtos, mutexLock, Asks, MxGoto, MxInv, MxLabels
<1>9. ASSUME NEW t \in MxThreads, OSALUnlockMutex(t) \/ OSALUnlockMutex_FreeRtos(t)
      PROVE  MxInv'
  BY <1>9 DEF OSALUnlockMutex, OSALUnlockMutex_FreeRtos, MxGive, MxInv, MxLabels
<1>10. ASSUME NEW t \in MxThreads, OSALDeleteMutex(t) \/ OSALDeleteMutex_FreeRtos(t)
       PROVE  MxInv'
  BY <1>10 DEF OSALDeleteMutex, OSALDeleteMutex_FreeRtos, Deleting, Asks, MxGoto, MxInv, MxLabels
<1> QED
  BY <1>1, <1>2, <1>3, <1>4, <1>5, <1>6, <1>7, <1>8, <1>9, <1>10 DEF MxNext, MxPoll

\* Only the destructor's last step deletes on POSIX.
LEMMA MxDeletesFree ==
  ASSUME MxInv, [MxNext]_mxVars, mxPort = "posix", mxState' = "deleted", mxVars' # mxVars
  PROVE  \/ \E t \in MxThreads : mxPc[t] = "destroy" /\ mxOwner \in {MxNobody, t}
         \/ mxLate
<1>1. PICK t \in MxThreads :
        /\ mxState = "exists"
        /\ \/ MxPoll(t)
           \/ OSALLockMutex(t) \/ OSALLockMutex_FreeRtos(t)
           \/ OSALUnlockMutex(t) \/ OSALUnlockMutex_FreeRtos(t)
           \/ OSALDeleteMutex(t) \/ OSALDeleteMutex_FreeRtos(t)
  BY DEF MxNext, MxPoll
<1>2. CASE dtorDestroys(t)
  BY <1>2 DEF dtorDestroys, MxInv
<1>3. CASE ~dtorDestroys(t)
  <2>1. CASE MxPoll(t)
    BY <1>1, <1>3, <2>1
    DEF MxPoll, lockGets, lockPolls, dtorLocked, dtorUnlock, dtorPolls, dtorFails,
        dtorFails_Win32, dtorGivesUp, xSemaphoreTakeRecursive, TakeTimesOut_FreeRtos
  <2>2. CASE OSALLockMutex(t) \/ OSALDeleteMutex(t)
    BY <1>1, <2>2 DEF OSALLockMutex, OSALDeleteMutex, mutexLock, Asks
  <2>3. CASE OSALUnlockMutex(t)
    BY <1>1, <2>3 DEF OSALUnlockMutex
  <2>4. CASE OSALLockMutex_FreeRtos(t) \/ OSALUnlockMutex_FreeRtos(t) \/ OSALDeleteMutex_FreeRtos(t)
    BY <2>4 DEF OSALLockMutex_FreeRtos, OSALUnlockMutex_FreeRtos, OSALDeleteMutex_FreeRtos
  <2> QED BY <1>1, <2>1, <2>2, <2>3, <2>4
<1> QED BY <1>2, <1>3

-----------------------------------------------------------------------------
(* The semaphores of Windows and FreeRTOS.                                 *)

PsCalls == {"idle", "forever", "timed", "signal"}

PsTypeOK ==
  /\ psPort \in {"win32", "freertos"} /\ psValue \in Nat
  /\ psAt \in [PsTasks -> {"idle", "forever", "timed", "giving"}]
  /\ psAsked \in [PsTasks -> Nat] /\ psAdded \in [PsTasks -> Nat]
  /\ psResult \in [PsTasks -> [call : PsCalls, ok : BOOLEAN]]

\* What is answered stays true until the task's next signal, as nobody else counts for it.
PsAnswersInv ==
  /\ psValue <= PsMax
  /\ \A t \in PsTasks : psAt[t] = "giving" => psPort = "freertos"
  /\ \A t \in PsTasks : psAt[t] # "giving" /\ psResult[t].call = "signal" =>
       /\ psResult[t].ok <=> psAdded[t] = psAsked[t]
       /\ psPort = "win32" => psAdded[t] \in {0, psAsked[t]}
  /\ \A t \in PsTasks : psResult[t].call = "forever" => psResult[t].ok

PsInv == PsTypeOK /\ PsAnswersInv

LEMMA PsInitInv == PsInit => PsInv
BY PsAssumption DEF PsInit, PsInv, PsTypeOK, PsAnswersInv, PsCalls

LEMMA PsNextInv == PsInv /\ [PsNext]_psVars => PsInv'
<1> SUFFICES ASSUME PsInv, [PsNext]_psVars PROVE PsInv'
  OBVIOUS
<1> USE PsAssumption DEF PsInv, PsTypeOK, PsAnswersInv, PsCalls, PsReturn
<1>0. PsMax \in Nat /\ \A count \in PsCounts : count \in Nat
  OBVIOUS
<1>1. CASE UNCHANGED psVars
  BY <1>1 DEF psVars
<1>2. ASSUME NEW t \in PsTasks, NEW how \in {"forever", "timed"}, PsWait(t, how) PROVE PsInv'
  BY <1>2 DEF PsWait
<1>3. ASSUME NEW t \in PsTasks, PsTake(t) PROVE PsInv'
  BY <1>0, <1>3 DEF PsTake
<1>4. ASSUME NEW t \in PsTasks, PsTimesOut(t) PROVE PsInv'
  <2>1. /\ psAt[t] = "timed" /\ psAt' = [psAt EXCEPT ![t] = "idle"]
        /\ psResult' = [psResult EXCEPT ![t] = [call |-> "timed", ok |-> FALSE]]
        /\ UNCHANGED <<psPort, psValue, psAsked, psAdded>>
    BY <1>4 DEF PsTimesOut
  <2> QED BY <2>1
<1>5. ASSUME NEW t \in PsTasks, PsGive(t) PROVE PsInv'
  <2>1. psAt[t] = "giving" /\ UNCHANGED <<psPort, psAsked>> /\ psPort = "freertos"
    BY <1>5 DEF PsGive
  <2>2. CASE /\ psAdded[t] < psAsked[t] /\ psValue < PsMax
             /\ psValue' = psValue + 1 /\ psAdded' = [psAdded EXCEPT ![t] = @ + 1]
             /\ UNCHANGED <<psAt, psResult>>
    BY <1>0, <2>1, <2>2
  <2>3. CASE /\ psAt' = [psAt EXCEPT ![t] = "idle"] /\ UNCHANGED <<psValue, psAdded>>
             /\ psResult' = [psResult EXCEPT ![t] =
                               [call |-> "signal", ok |-> psAdded[t] = psAsked[t]]]
    <3>1. psResult' \in [PsTasks -> [call : PsCalls, ok : BOOLEAN]]
      BY <2>3
    <3>2. psResult'[t].call = "signal" /\ (psResult'[t].ok <=> psAdded[t] = psAsked[t])
      BY <2>3
    <3>3. \A u \in PsTasks \ {t} : psResult'[u] = psResult[u] /\ psAt'[u] = psAt[u]
      BY <2>3
    <3>4. psAt' \in [PsTasks -> {"idle", "forever", "timed", "giving"}] /\ psAt'[t] = "idle"
      BY <2>3
    <3> QED BY <2>1, <2>3, <3>1, <3>2, <3>3, <3>4
  <2> QED BY <1>5, <2>2, <2>3 DEF PsGive
<1>6. ASSUME NEW t \in PsTasks, NEW count \in PsCounts, PsRelease(t, count) PROVE PsInv'
  <2> DEFINE fits == psValue + count <= PsMax
             n == IF fits THEN count ELSE 0
  <2>1. /\ psPort = "win32" /\ psAt[t] = "idle" /\ psPort' = psPort
        /\ psValue' = (IF fits THEN psValue + count ELSE psValue)
        /\ psAdded' = [psAdded EXCEPT ![t] = n] /\ psAsked' = [psAsked EXCEPT ![t] = count]
        /\ psAt' = [psAt EXCEPT ![t] = "idle"]
        /\ psResult' = [psResult EXCEPT ![t] = [call |-> "signal", ok |-> fits]]
    BY <1>6 DEF PsRelease
  <2>2. /\ n \in Nat /\ n \in {0, count} /\ (fits <=> n = count)
        /\ psValue' \in Nat /\ psValue' <= PsMax
    <3>1. psValue \in Nat /\ psValue <= PsMax /\ count \in Nat /\ PsMax \in Nat
      BY <1>0
    <3>2. CASE fits
      BY <2>1, <3>1, <3>2
    <3>3. CASE ~fits
      <4>1. count # 0 /\ n = 0 /\ psValue' = psValue
        BY <2>1, <3>1, <3>3
      <4> QED BY <3>1, <3>3, <4>1
    <3> QED BY <3>2, <3>3
  <2> HIDE DEF fits, n
  <2>3. PsTypeOK'
    <3>1. psResult' \in [PsTasks -> [call : PsCalls, ok : BOOLEAN]]
      BY <2>1 DEF fits
    <3>2. /\ psAdded' \in [PsTasks -> Nat] /\ psAsked' \in [PsTasks -> Nat]
          /\ psAt' \in [PsTasks -> {"idle", "forever", "timed", "giving"}]
      BY <1>0, <2>1, <2>2
    <3> QED BY <2>1, <2>2, <3>1, <3>2
  <2>4. /\ psResult'[t].call = "signal" /\ (psResult'[t].ok <=> psAdded'[t] = psAsked'[t])
        /\ psAdded'[t] \in {0, psAsked'[t]} /\ psAt'[t] = "idle"
    BY <2>1, <2>2
  <2>5. \A u \in PsTasks \ {t} :
          /\ psResult'[u] = psResult[u] /\ psAt'[u] = psAt[u]
          /\ psAdded'[u] = psAdded[u] /\ psAsked'[u] = psAsked[u]
    BY <2>1
  <2>6. PsAnswersInv'
    BY <2>1, <2>2, <2>4, <2>5
  <2> QED BY <2>3, <2>6
<1>7. ASSUME NEW t \in PsTasks, NEW count \in PsCounts, PsSignal(t, count) PROVE PsInv'
  BY <1>0, <1>7 DEF PsSignal
<1> QED BY <1>1, <1>2, <1>3, <1>4, <1>5, <1>6, <1>7 DEF PsNext

LEMMA PsInvMeans == PsInv => PortCallsHonest
BY DEF PsInv, PsTypeOK, PsAnswersInv, PortCallsHonest

-----------------------------------------------------------------------------
(* mempools.cpp.                                                           *)

MemOps == {"none", "list", "unlist", "release"}

MemTypeOK ==
  /\ inUse \subseteq Blocks /\ allocated \subseteq Pool
  /\ owned \in [Clients -> SUBSET Blocks]
  /\ stale \in [Clients -> Blocks \cup {NoBlock}]
  /\ call \in [Clients -> [op : MemOps, block : Pool \cup {NoBlock}, id : Ids \cup {0}]]
  /\ header \in [Pool -> [magic : {"none", "magic", "freed"}, id : Ids \cup {0}]]

\* A call has a block exactly while it is at work; the magic number is on every block that
\* is handed out and not yet unlisted, so that a second free meets it on none.
MemCallsInv ==
  /\ \A me \in Clients : call[me].op = "none" => call[me] = NoCall
  /\ \A me \in Clients : call[me].op # "none" => call[me].block \in Pool
  /\ \A me \in Clients : call[me].op \in {"list", "unlist"} => header[call[me].block].magic = "magic"
  /\ \A me \in Clients : call[me].op = "release" => header[call[me].block].magic # "magic"
  /\ \A p \in Pool : p \notin inUse => header[p].magic # "magic"
  /\ \A me \in Clients : \A p \in owned[me] \cap Pool : header[p].magic = "magic"

MemInv == MemTypeOK /\ MemCallsInv /\ BlocksOwnedOnce /\ ListedExactly

LEMMA MemInitInv == MemInit => MemInv
BY MemAssumption, SMTT(30)
   DEF MemInit, MemInv, MemTypeOK, MemCallsInv, BlocksOwnedOnce, ListedExactly, NoCall,
       NoHeader, MemOps, Owns, Handles, Blocks

LEMMA MemNextInv == MemInv /\ [MemNext]_memVars => MemInv'
<1> SUFFICES ASSUME MemInv, [MemNext]_memVars PROVE MemInv'
  OBVIOUS
<1> USE MemAssumption
    DEF MemInv, MemTypeOK, MemCallsInv, BlocksOwnedOnce, ListedExactly, MemOps, Owns, Handles, Blocks
<1>1. CASE UNCHANGED memVars
  BY <1>1 DEF memVars
<1>2. CASE MemPoolsInitialize \/ \E e \in BOOLEAN : MemPoolsEnableNewOverride(e)
  BY <1>2 DEF MemPoolsInitialize, MemPoolsEnableNewOverride
<1>3. ASSUME NEW me \in Clients, NEW id \in Ids \cup {0}, PoolMalloc(me, id) PROVE MemInv'
  BY <1>3 DEF PoolMalloc, NoCall
<1>4. ASSUME NEW me \in Clients, HeapMalloc(me) PROVE MemInv'
  BY <1>4 DEF HeapMalloc
<1>5. ASSUME NEW me \in Clients, PoolMallocList(me) PROVE MemInv'
  <2> DEFINE blk == call[me].block
  <2>1. /\ call[me].op = "list" /\ blk \in Pool
        /\ allocated' = allocated \cup {blk} /\ owned' = [owned EXCEPT ![me] = @ \cup {blk}]
        /\ call' = [call EXCEPT ![me] = NoCall] /\ UNCHANGED <<inUse, header, stale>>
    BY <1>5 DEF PoolMallocList
  <2>2. MemTypeOK'
    BY <2>1 DEF NoCall
  <2>3. MemCallsInv'
    BY <2>1 DEF NoCall
  <2>4. \A d \in Clients, p \in Blocks :
          /\ Owns(d, p)' <=> Owns(d, p) \/ (d = me /\ p = blk)
          /\ Handles(d, p)' <=> Handles(d, p) /\ d # me
    BY <2>1 DEF NoCall
  <2>5. Handles(me, blk) /\ \A p \in Blocks : Handles(me, p) => p = blk
    OBVIOUS
  <2>6. BlocksOwnedOnce'
    BY <2>1, <2>4, <2>5
  <2>7. \A d \in Clients \ {me} : call'[d] = call[d]
    BY <2>1
  <2>8. ListedExactly'
    BY <2>1, <2>4, <2>5, <2>7
  <2> QED BY <2>2, <2>3, <2>6, <2>8
<1>6. ASSUME NEW me \in Clients, NEW blk \in owned[me], MemPoolsFree(me, blk) PROVE MemInv'
  <2>1. /\ call[me] = NoCall /\ blk \in Blocks
        /\ owned' = [owned EXCEPT ![me] = @ \ {blk}] /\ stale' = [stale EXCEPT ![me] = blk]
        /\ UNCHANGED <<header, allocated>>
    BY <1>6 DEF MemPoolsFree
  <2>2. CASE blk \notin Pool /\ inUse' = inUse \ {blk} /\ call' = call
    <3>1. \A d \in Clients, p \in Blocks :
            /\ Owns(d, p)' <=> Owns(d, p) /\ ~(d = me /\ p = blk)
            /\ Handles(d, p)' <=> Handles(d, p)
      BY <2>1, <2>2
    <3>2. MemTypeOK' /\ MemCallsInv'
      BY <2>1, <2>2
    <3>3. BlocksOwnedOnce'
      BY <1>6, <2>1, <2>2, <3>1
    <3>4. ListedExactly'
      BY <2>1, <2>2, <3>1
    <3> QED BY <3>2, <3>3, <3>4
  <2>3. CASE /\ blk \in Pool /\ inUse' = inUse
             /\ call' = [call EXCEPT ![me] = [op |-> "unlist", block |-> blk, id |-> 0]]
    <3>1. \A d \in Clients, p \in Blocks :
            /\ Owns(d, p)' <=> Owns(d, p) /\ ~(d = me /\ p = blk)
            /\ Handles(d, p)' <=> Handles(d, p) \/ (d = me /\ p = blk)
      BY <2>1, <2>3 DEF NoCall
    <3>2. MemTypeOK'
      BY <2>1, <2>3
    <3>3. MemCallsInv'
      BY <1>6, <2>1, <2>3
    <3>4. BlocksOwnedOnce'
      BY <1>6, <2>1, <2>3, <3>1
    <3>5. /\ \A d \in Clients \ {me} : call'[d] = call[d]
          /\ call'[me].op = "unlist" /\ call[me].op = "none"
      BY <2>1, <2>3 DEF NoCall
    <3>6. ListedExactly'
      BY <1>6, <2>1, <2>3, <3>1, <3>5
    <3> QED BY <3>2, <3>3, <3>4, <3>6
  <2>4. blk \in Pool => header[blk].magic = "magic"
    BY <1>6
  <2> QED BY <1>6, <2>2, <2>3, <2>4 DEF MemPoolsFree, mempools_IsWithinPool
<1>7. ASSUME NEW me \in Clients, FreeUnlist(me) PROVE MemInv'
  <2> DEFINE blk == call[me].block
  <2>1. /\ call[me].op = "unlist" /\ blk \in Pool
        /\ allocated' = allocated \ {blk} /\ header' = [header EXCEPT ![blk].magic = "freed"]
        /\ call' = [call EXCEPT ![me].op = "release"] /\ UNCHANGED <<inUse, owned, stale>>
    BY <1>7 DEF FreeUnlist
  <2>2. /\ \A d \in Clients : call'[d].block = call[d].block
        /\ \A d \in Clients \ {me} : call'[d] = call[d]
        /\ call'[me].op = "release"
    BY <2>1
  <2>3. /\ \A p \in Pool \ {blk} : header'[p] = header[p]
        /\ header'[blk].magic = "freed"
    BY <2>1
  <2>4. \A d \in Clients, p \in Blocks :
          (Owns(d, p)' <=> Owns(d, p)) /\ (Handles(d, p)' <=> Handles(d, p))
    BY <2>1, <2>2
  <2>5. /\ Handles(me, blk) /\ \A d \in Clients : Handles(d, blk) => d = me
        /\ \A d \in Clients : ~Owns(d, blk)
    BY <2>1
  <2>6. MemTypeOK'
    <3>1. header' \in [Pool -> [magic : {"none", "magic", "freed"}, id : Ids \cup {0}]]
      BY <2>1
    <3>2. call' \in [Clients -> [op : MemOps, block : Pool \cup {NoBlock}, id : Ids \cup {0}]]
      <4>1. [call[me] EXCEPT !.op = "release"] \in
              [op : MemOps, block : Pool \cup {NoBlock}, id : Ids \cup {0}]
        BY SMTT(30)
      <4> QED BY <2>1, <4>1
    <3> QED BY <2>1, <3>1, <3>2
  <2>7. MemCallsInv'
    BY <2>1, <2>2, <2>3, <2>5
  <2>8. BlocksOwnedOnce'
    BY <2>1, <2>4
  <2>9. ListedExactly'
    BY <2>1, <2>2, <2>3, <2>4, <2>5
  <2> QED BY <2>6, <2>7, <2>8, <2>9
<1>8. ASSUME NEW me \in Clients, FreeRelease(me) PROVE MemInv'
  <2> DEFINE blk == call[me].block
  <2>1. /\ call[me].op = "release" /\ blk \in Pool
        /\ inUse' = inUse \ {blk} /\ call' = [call EXCEPT ![me] = NoCall]
        /\ UNCHANGED <<header, allocated, owned, stale>>
    BY <1>8 DEF FreeRelease
  <2>2. /\ \A d \in Clients \ {me} : call'[d] = call[d]
        /\ call'[me] = NoCall
    BY <2>1
  <2>3. \A d \in Clients, p \in Blocks :
          (Owns(d, p)' <=> Owns(d, p)) /\ (Handles(d, p)' <=> Handles(d, p) /\ d # me)
    BY <2>1, <2>2 DEF NoCall
  <2>4. /\ \A p \in Blocks : Handles(me, p) => p = blk
        /\ Handles(me, blk) /\ \A d \in Clients : Handles(d, blk) => d = me
        /\ \A d \in Clients : ~Owns(d, blk)
    BY <2>1
  <2>5. header[blk].magic # "magic"
    BY <2>1
  <2>6. MemTypeOK'
    BY <2>1 DEF NoCall
  <2>7. MemCallsInv'
    BY <2>1, <2>2, <2>5 DEF NoCall
  <2>8. BlocksOwnedOnce'
    BY <2>1, <2>3, <2>4
  <2>9. ListedExactly'
    BY <2>1, <2>2, <2>3, <2>4
  <2> QED BY <2>6, <2>7, <2>8, <2>9
<1>9. ASSUME NEW me \in Clients, FreeAgain(me) PROVE MemInv'
  BY <1>9 DEF FreeAgain, MemPoolsFree, mempools_IsWithinPool
<1> QED
  BY <1>1, <1>2, <1>3, <1>4, <1>5, <1>6, <1>7, <1>8, <1>9
  DEF MemNext, MemPoolsMallocWithId, OperatorNew, OperatorDelete

-----------------------------------------------------------------------------
(* The start-up buffer of FreeRTOS.                                        *)

InBuffer == startupBlocks \cup lostBlocks

\* Blocks have a size, end at the index or before it, and never on another's bytes.
StartupInv ==
  /\ mBufIdx \in 0 .. BufLenWords
  /\ InBuffer \subseteq [at : Nat, bytes : Nat \ {0}]
  /\ \A k \in InBuffer : k.at * WordBytes + k.bytes <= mBufIdx * WordBytes
  /\ \A k, l \in InBuffer : k.at < l.at => k.at * WordBytes + k.bytes <= l.at * WordBytes
  /\ \A k, l \in startupBlocks : k.at = l.at => k = l

\* Rounded up, the words have room for the bytes, and there is one at least.
LEMMA WordsHoldBytes ==
  ASSUME NEW n \in Nat \ {0}, WordBytes \in Nat \ {0}
  PROVE  WordsToAlloc(n) \in Nat /\ n <= WordsToAlloc(n) * WordBytes
<1> DEFINE x == n + WordBytes - 1  q == x \div WordBytes  r == x % WordBytes
<1>1. x \in Nat
  OBVIOUS
<1> HIDE DEF x
<1>2. q \in Nat /\ r \in 0 .. WordBytes - 1 /\ x = WordBytes * q + r
  BY <1>1
<1>3. WordBytes * q = q * WordBytes
  BY <1>2
<1> DEFINE y == q * WordBytes
<1>4. y \in Int
  BY <1>2
<1>5. x = y + r
  BY <1>2, <1>3
<1> HIDE DEF q, r, y
<1>6. n <= y
  BY <1>2, <1>4, <1>5 DEF x
<1> QED
  BY <1>2, <1>6 DEF WordsToAlloc, q, x, y

\* In words as in bytes.
LEMMA BytesOrder ==
  ASSUME NEW u \in Int, NEW v \in Int, WordBytes \in Nat \ {0},
         u * WordBytes < v * WordBytes
  PROVE  u < v
<1> SUFFICES ASSUME v <= u PROVE FALSE
  OBVIOUS
<1>1. (u - v) * WordBytes >= 0
  OBVIOUS
<1>2. (u - v) * WordBytes = u * WordBytes - v * WordBytes
  OBVIOUS
<1> DEFINE x == u * WordBytes  y == v * WordBytes
<1>3. x \in Int /\ y \in Int /\ x - y >= 0 /\ x < y
  BY <1>1, <1>2
<1> HIDE DEF x, y
<1> QED
  BY <1>3

LEMMA StartupInitInv == StartupInit => StartupInv
BY StartupAssumption DEF StartupInit, StartupInv, InBuffer

LEMMA StartupNextInv == StartupInv /\ [StartupNext]_startupVars => StartupInv'
<1> SUFFICES ASSUME StartupInv, [StartupNext]_startupVars PROVE StartupInv'
  OBVIOUS
<1>1. BufLenWords \in Nat /\ WordBytes \in Nat \ {0}
  BY StartupAssumption
<1>2. ASSUME UNCHANGED <<mBufIdx, startupBlocks, lostBlocks>> PROVE StartupInv'
  BY <1>2 DEF StartupInv, InBuffer
<1>3. ASSUME NEW n \in AllocSizes, MallocWords(n), UNCHANGED lostBlocks PROVE StartupInv'
  <2> DEFINE w == WordsToAlloc(n)  new == [at |-> mBufIdx, bytes |-> n]
  <2>1. n \in Nat \ {0} /\ w \in Nat /\ n <= w * WordBytes
    BY <1>1, StartupAssumption, WordsHoldBytes
  <2>2. /\ w <= BufLenWords - mBufIdx /\ mBufIdx' = mBufIdx + w
        /\ startupBlocks' = startupBlocks \cup {new} /\ lostBlocks' = lostBlocks
    BY <1>3 DEF MallocWords, AvailWords
  <2> HIDE DEF w
  <2>3. mBufIdx \in Nat /\ mBufIdx' \in 0 .. BufLenWords
    BY <1>1, <2>1, <2>2 DEF StartupInv
  <2>4. InBuffer' = InBuffer \cup {new}
    BY <2>2 DEF InBuffer
  <2>5. new \in [at : Nat, bytes : Nat \ {0}] /\ new.at = mBufIdx /\ new.bytes = n
    BY <2>1, <2>3
  <2> DEFINE old == mBufIdx * WordBytes  more == w * WordBytes
  <2>6. mBufIdx' * WordBytes = old + more /\ old \in Nat /\ more \in Nat
    BY <1>1, <2>1, <2>2, <2>3
  <2>7. ASSUME NEW k \in InBuffer
        PROVE  /\ k.at \in Nat /\ k.bytes \in Nat \ {0} /\ k.at * WordBytes \in Nat
               /\ k.at * WordBytes + k.bytes <= old
    BY <1>1 DEF StartupInv
  <2> HIDE DEF new, old, more
  <2>8. \A k \in InBuffer' : k.at * WordBytes + k.bytes <= mBufIdx' * WordBytes
    <3>1. ASSUME NEW k \in InBuffer PROVE k.at * WordBytes + k.bytes <= old + more
      BY <2>6, <2>7
    <3>2. new.at * WordBytes + new.bytes <= old + more
      BY <2>1, <2>5, <2>6 DEF old, more
    <3> QED
      BY <2>4, <2>6, <3>1, <3>2
  <2>9. ASSUME NEW k \in InBuffer PROVE k.at < mBufIdx /\ k.at * WordBytes + k.bytes <= old
    <3>1. k.at * WordBytes < old
      BY <2>6, <2>7
    <3> QED
      BY <1>1, <2>3, <2>7, <3>1, BytesOrder DEF old
  <2>10. ASSUME NEW k \in InBuffer', NEW l \in InBuffer', k.at < l.at
         PROVE  k.at * WordBytes + k.bytes <= l.at * WordBytes
    <3>1. k # new
      BY <2>3, <2>4, <2>5, <2>7, <2>9, <2>10
    <3>2. CASE l = new
      BY <2>4, <2>5, <2>9, <3>1, <3>2 DEF old
    <3>3. CASE l # new
      BY <2>4, <2>10, <3>1, <3>3 DEF StartupInv
    <3> QED
      BY <3>2, <3>3
  <2>11. ASSUME NEW k \in startupBlocks', NEW l \in startupBlocks', k.at = l.at PROVE k = l
    <3>1. \A i \in startupBlocks : i \in InBuffer /\ i.at # new.at
      BY <2>3, <2>5, <2>7, <2>9 DEF InBuffer
    <3> QED
      BY <2>2, <2>11, <3>1 DEF StartupInv
  <2>12. InBuffer' \subseteq [at : Nat, bytes : Nat \ {0}]
    BY <2>4, <2>5 DEF StartupInv
  <2> QED
    BY <2>3, <2>8, <2>10, <2>11, <2>12 DEF StartupInv
<1>4. ASSUME NEW n \in AllocSizes, pvPortMalloc(n) PROVE StartupInv'
  BY <1>2, <1>3, <1>4 DEF pvPortMalloc
<1>5. ASSUME NEW p \in poolBlocks, vPortFree(p) PROVE StartupInv'
  BY <1>2, <1>5 DEF vPortFree
<1>6. ASSUME NEW k \in startupBlocks, vPortFreeEarly(k) PROVE StartupInv'
  <2>1. /\ InBuffer' = InBuffer /\ startupBlocks' \subseteq startupBlocks
        /\ mBufIdx' = mBufIdx
    BY <1>6 DEF vPortFreeEarly, InBuffer
  <2> QED
    BY <2>1 DEF StartupInv
<1>7. CASE OSALFreertosSwitchToMempools
  BY <1>2, <1>7 DEF OSALFreertosSwitchToMempools
<1>8. CASE vPortInitialiseBlocks
  BY <1>1, <1>8 DEF vPortInitialiseBlocks, StartupInv, InBuffer
<1>9. CASE UNCHANGED startupVars
  BY <1>2, <1>9 DEF startupVars
<1> QED
  BY <1>4, <1>5, <1>6, <1>7, <1>8, <1>9 DEF StartupNext

LEMMA StartupInvMeans == StartupInv => StartupBlocksApart
<1> SUFFICES ASSUME StartupInv PROVE StartupBlocksApart
  OBVIOUS
<1>1. BufLenWords \in Nat /\ WordBytes \in Nat \ {0} /\ mBufIdx \in 0 .. BufLenWords
  BY StartupAssumption DEF StartupInv
<1> DEFINE idx == mBufIdx * WordBytes  all == BufLenWords * WordBytes
<1>2. idx \in Nat /\ all \in Nat /\ AvailBytes = all - idx
  BY <1>1 DEF AvailBytes, AvailWords
<1>3. ASSUME NEW k \in InBuffer PROVE k.at * WordBytes + k.bytes + AvailBytes <= all
  <2>1. k.at * WordBytes \in Nat /\ k.bytes \in Nat /\ k.at * WordBytes + k.bytes <= idx
    BY <1>1 DEF StartupInv
  <2> HIDE DEF idx, all
  <2> QED
    BY <1>2, <2>1
<1> QED
  BY <1>3 DEF StartupInv, StartupBlocksApart, InBuffer

-----------------------------------------------------------------------------
(* threading_alt.cpp.                                                      *)

MmTypeOK ==
  /\ mmFree \in Seq(MmNodes)
  /\ mmutex \in [MmHandles -> MmNodes \cup {MmNull}]
  /\ mmFreeing \in [MmThreads -> MmHandles \cup {MmNull}]

\* A handle that is being freed, by one thread, has a node until its pointer is cleared.
MmInv ==
  /\ MmTypeOK
  /\ \A t \in MmThreads : mmFreeing[t] # MmNull => mmutex[mmFreeing[t]] # MmNull
  /\ \A t, u \in MmThreads : mmFreeing[t] # MmNull /\ mmFreeing[u] = mmFreeing[t] => t = u
  /\ MbedNodesApart

LEMMA MmInitInv == MmInit => MmInv
<1> SUFFICES ASSUME MmInit PROVE MmInv
  OBVIOUS
<1> DEFINE n == Cardinality(MmNodes)
<1>1. IsFiniteSet(MmNodes) /\ MmNull \notin MmNodes \cup MmHandles /\ n \in Nat
  BY MmAssumption, FS_CardinalityType
<1>2. \E f \in [1 .. n -> MmNodes] : IsInjective(f)
  <2>1. PICK m \in Nat : ExistsBijection(1 .. m, MmNodes)
    BY <1>1, FS_NatBijection
  <2>2. n = m
    BY <2>1, FS_CountingElements
  <2> QED
    BY <2>1, <2>2 DEF ExistsBijection, Bijection, Injection
<1>3. mmFree \in [1 .. n -> MmNodes] /\ IsInjective(mmFree)
  BY <1>2 DEF MmInit, SetToSeq
<1>4. mmFree \in Seq(MmNodes) /\ \A i, j \in DOMAIN mmFree : i # j => mmFree[i] # mmFree[j]
  BY <1>1, <1>3 DEF IsInjective
<1>5. /\ mmutex \in [MmHandles -> MmNodes \cup {MmNull}]
      /\ mmFreeing \in [MmThreads -> MmHandles \cup {MmNull}]
      /\ \A h \in MmHandles : mmutex[h] = MmNull
      /\ \A t \in MmThreads : mmFreeing[t] = MmNull
  BY DEF MmInit
<1> QED
  BY <1>4, <1>5 DEF MmInv, MmTypeOK, MbedNodesApart

LEMMA MmNextInv == MmInv /\ [MmNext]_mmVars => MmInv'
<1> SUFFICES ASSUME MmInv, [MmNext]_mmVars PROVE MmInv'
  OBVIOUS
<1>1. MmNull \notin MmNodes \cup MmHandles /\ MmTypeOK
  BY MmAssumption DEF MmInv
<1>2. /\ \A t \in MmThreads : mmFreeing[t] # MmNull => mmutex[mmFreeing[t]] # MmNull
      /\ \A t, u \in MmThreads : mmFreeing[t] # MmNull /\ mmFreeing[u] = mmFreeing[t] => t = u
      /\ \A i, j \in DOMAIN mmFree : i # j => mmFree[i] # mmFree[j]
      /\ \A h \in MmHandles : mmutex[h] # MmNull /\ ~Busy(h) => ~Contains(mmFree, mmutex[h])
      /\ \A h, g \in MmHandles :
           mmutex[h] # MmNull /\ ~Busy(h) /\ h # g /\ ~Busy(g) => mmutex[g] # mmutex[h]
  BY DEF MmInv, MbedNodesApart
<1>3. ASSUME UNCHANGED <<mmFree, mmutex, mmFreeing>> PROVE MmInv'
  BY <1>3 DEF MmInv, MmTypeOK, MbedNodesApart, Busy
<1>4. ASSUME NEW t \in MmThreads, FreeClear(t) PROVE MmInv'
  <2> DEFINE h == mmFreeing[t]
  <2>1. /\ h \in MmHandles /\ mmFree' = mmFree
        /\ mmutex' = [mmutex EXCEPT ![h] = MmNull]
        /\ mmFreeing' = [mmFreeing EXCEPT ![t] = MmNull]
    BY <1>1, <1>4 DEF FreeClear, MmTypeOK
  <2>2. /\ MmTypeOK' /\ mmutex'[h] = MmNull
        /\ \A g \in MmHandles \ {h} : mmutex'[g] = mmutex[g]
        /\ mmFreeing'[t] = MmNull /\ \A u \in MmThreads \ {t} : mmFreeing'[u] = mmFreeing[u]
    BY <1>1, <2>1 DEF MmTypeOK
  <2>3. \A g \in MmHandles \ {h} : Busy(g)' <=> Busy(g)
    BY <1>1, <2>2 DEF Busy
  <2>4. ASSUME NEW u \in MmThreads, mmFreeing'[u] # MmNull
        PROVE  mmutex'[mmFreeing'[u]] # MmNull
    <3>1. u # t /\ mmFreeing'[u] = mmFreeing[u] /\ mmFreeing[u] \in MmHandles
      BY <1>1, <2>2, <2>4 DEF MmTypeOK
    <3>2. mmFreeing[u] # h
      BY <1>2, <2>4, <3>1
    <3> QED
      BY <1>2, <2>2, <2>4, <3>1, <3>2
  <2>5. \A u, v \in MmThreads : mmFreeing'[u] # MmNull /\ mmFreeing'[v] = mmFreeing'[u] => u = v
    BY <1>2, <2>2
  <2> QED
    BY <1>2, <2>1, <2>2, <2>3, <2>4, <2>5 DEF MmInv, MbedNodesApart
<1>5. ASSUME NEW t \in MmThreads, NEW h \in MmHandles, mbedtls_mutex_init_fn(t, h) PROVE MmInv'
  <2>1. /\ mmutex[h] = MmNull /\ mmFree # <<>> /\ mmFreeing' = mmFreeing
        /\ mmutex' = [mmutex EXCEPT ![h] = Head(mmFree)] /\ mmFree' = Tail(mmFree)
    BY <1>5 DEF mbedtls_mutex_init_fn
  <2>2. /\ Head(mmFree) \in MmNodes /\ Head(mmFree) = mmFree[1] /\ mmFree' \in Seq(MmNodes)
        /\ Len(mmFree) \in Nat \ {0} /\ DOMAIN mmFree = 1 .. Len(mmFree)
        /\ Len(mmFree') = Len(mmFree) - 1 /\ DOMAIN mmFree' = 1 .. Len(mmFree')
        /\ \A i \in 1 .. Len(mmFree') : mmFree'[i] = mmFree[i + 1]
    BY <1>1, <2>1 DEF MmTypeOK
  <2>3. /\ MmTypeOK' /\ mmutex'[h] = mmFree[1]
        /\ \A g \in MmHandles \ {h} : mmutex'[g] = mmutex[g]
    BY <1>1, <2>1, <2>2 DEF MmTypeOK
  <2>4. \A g \in MmHandles : Busy(g)' <=> Busy(g)
    BY <2>1 DEF Busy
  <2>5. \A i, j \in DOMAIN mmFree' : i # j => mmFree'[i] # mmFree'[j]
    BY <1>2, <2>2
  <2>6. \A e : Contains(mmFree', e) => Contains(mmFree, e) /\ e # mmFree[1]
    BY <1>2, <2>2 DEF Contains
  <2>7. Contains(mmFree, mmFree[1])
    BY <2>2 DEF Contains
  <2>8. ~Busy(h)
    BY <1>1, <1>2, <2>1 DEF Busy
  <2>9. \A u \in MmThreads : mmFreeing'[u] # MmNull => mmutex'[mmFreeing'[u]] # MmNull
    BY <1>1, <1>2, <2>1, <2>2, <2>3 DEF MmTypeOK
  <2>10. ASSUME NEW g \in MmHandles, mmutex'[g] # MmNull, ~Busy(g)'
         PROVE  ~Contains(mmFree', mmutex'[g])
    BY <1>2, <2>3, <2>4, <2>6, <2>10
  <2>11. ASSUME NEW g \in MmHandles, NEW k \in MmHandles, mmutex'[g] # MmNull, ~Busy(g)',
                g # k, ~Busy(k)'
         PROVE  mmutex'[k] # mmutex'[g]
    <3>1. CASE g # h /\ k # h
      BY <1>2, <2>3, <2>4, <2>11, <3>1
    <3>2. CASE g = h
      BY <1>1, <1>2, <2>2, <2>3, <2>4, <2>7, <2>11, <3>2
    <3>3. CASE k = h
      BY <1>1, <1>2, <2>2, <2>3, <2>4, <2>7, <2>11, <3>3
    <3> QED
      BY <3>1, <3>2, <3>3
  <2>12. \A u, v \in MmThreads : mmFreeing'[u] # MmNull /\ mmFreeing'[v] = mmFreeing'[u] => u = v
    BY <1>2, <2>1
  <2> QED
    BY <2>3, <2>5, <2>9, <2>10, <2>11, <2>12 DEF MmInv, MbedNodesApart
<1>6. ASSUME NEW t \in MmThreads, NEW h \in MmHandles, mbedtls_mutex_free_fn(t, h) PROVE MmInv'
  <2> DEFINE e == mmutex[h]
  <2>1. /\ mmFreeing[t] = MmNull /\ ~Busy(h) /\ e # MmNull /\ mmutex' = mmutex
        /\ mmFree' = Append(RemoveFirst(mmFree, e), e)
        /\ mmFreeing' = [mmFreeing EXCEPT ![t] = h]
    BY <1>6 DEF mbedtls_mutex_free_fn
  <2>2. ~Contains(mmFree, e) /\ e \in MmNodes
    BY <1>1, <1>2, <2>1 DEF MmTypeOK
  <2>3. RemoveFirst(mmFree, e) = mmFree
    BY <2>2 DEF RemoveFirst, Contains
  <2> HIDE DEF e
  <2>4. /\ mmFree' \in Seq(MmNodes) /\ Len(mmFree) \in Nat /\ Len(mmFree') = Len(mmFree) + 1
        /\ DOMAIN mmFree = 1 .. Len(mmFree) /\ DOMAIN mmFree' = 1 .. Len(mmFree')
        /\ mmFree'[Len(mmFree) + 1] = e
        /\ \A i \in 1 .. Len(mmFree) : mmFree'[i] = mmFree[i]
    BY <1>1, <2>1, <2>2, <2>3 DEF MmTypeOK
  <2>5. /\ MmTypeOK' /\ mmFreeing'[t] = h
        /\ \A u \in MmThreads \ {t} : mmFreeing'[u] = mmFreeing[u]
    BY <1>1, <2>1, <2>4 DEF MmTypeOK
  <2>6. Busy(h)' /\ \A g \in MmHandles \ {h} : Busy(g)' <=> Busy(g)
    BY <1>1, <2>1, <2>5 DEF Busy
  <2>7. \A i, j \in DOMAIN mmFree' : i # j => mmFree'[i] # mmFree'[j]
    BY <1>2, <2>2, <2>4 DEF Contains
  <2>8. \A x : Contains(mmFree', x) => Contains(mmFree, x) \/ x = e
    BY <2>4 DEF Contains
  <2>9. \A u \in MmThreads : mmFreeing'[u] # MmNull => mmutex'[mmFreeing'[u]] # MmNull
    BY <1>2, <2>1, <2>5 DEF e
  <2>10. ASSUME NEW g \in MmHandles, mmutex'[g] # MmNull, ~Busy(g)'
         PROVE  ~Contains(mmFree', mmutex'[g])
    BY <1>2, <2>1, <2>6, <2>8, <2>10 DEF e
  <2>11. ASSUME NEW g \in MmHandles, NEW k \in MmHandles, mmutex'[g] # MmNull, ~Busy(g)',
                g # k, ~Busy(k)'
         PROVE  mmutex'[k] # mmutex'[g]
    BY <1>2, <2>1, <2>6, <2>11
  <2>12. \A u, v \in MmThreads : mmFreeing'[u] # MmNull /\ mmFreeing'[v] = mmFreeing'[u] => u = v
    <3>1. \A u \in MmThreads : mmFreeing[u] # h
      BY <2>1 DEF Busy
    <3> QED
      BY <1>2, <2>5, <3>1
  <2> QED
    BY <2>5, <2>7, <2>9, <2>10, <2>11, <2>12 DEF MmInv, MbedNodesApart
<1>7. ASSUME NEW t \in MmThreads, NEW h \in MmHandles, mbedtls_mutex_lock_fn(t, h) PROVE MmInv'
  BY <1>3, <1>7 DEF mbedtls_mutex_lock_fn
<1>8. ASSUME NEW t \in MmThreads, NEW h \in MmHandles, mbedtls_mutex_unlock_fn(t, h) PROVE MmInv'
  BY <1>3, <1>8 DEF mbedtls_mutex_unlock_fn
<1>9. CASE UNCHANGED mmVars
  BY <1>3, <1>9 DEF mmVars
<1> QED
  BY <1>4, <1>5, <1>6, <1>7, <1>8, <1>9 DEF MmNext

-----------------------------------------------------------------------------
(* OSALSleep.                                                              *)

SlInv ==
  /\ slPort \in SlPorts /\ slMs \in SlTimes /\ slStart \in SlStarts
  /\ slPassed \in Nat /\ slRemaining \in Nat
  /\ SleepsWholeTime

LEMMA SlConstantsMean ==
  /\ SlMod \in Nat /\ SlLate \in Nat
  /\ \A ms \in SlTimes : ms \in Nat /\ 2 * ms < SlMod
  /\ \A start \in SlStarts : start \in Nat /\ start < SlMod
BY SlAssumption

\* The clock is short of the end by what the sleep is short of, also across a wrap.
LEMMA StillToSleep ==
  ASSUME slStart \in Nat, slMs \in Nat, SlMod \in Nat, 2 * slMs < SlMod,
         NEW passed \in Nat, passed < slMs
  PROVE  SlMinus(SlClock(slMs), SlClock(passed)) = slMs - passed
<1> DEFINE x == slStart + slMs  y == slStart + passed
           qx == x \div SlMod  qy == y \div SlMod  rx == x % SlMod  ry == y % SlMod
<1>1. SlMod \in Nat \ {0} /\ x \in Int /\ y \in Int /\ x - y = slMs - passed
  OBVIOUS
<1>2. /\ qx \in Int /\ rx \in Int /\ x = SlMod * qx + rx
      /\ qy \in Int /\ ry \in Int /\ y = SlMod * qy + ry
  BY <1>1
<1> DEFINE k == 1 - qx + qy  r == slMs - passed
<1> HIDE DEF qx, qy, rx, ry
<1>3. k \in Int /\ SlMod * k = SlMod - SlMod * qx + SlMod * qy
  BY <1>1, <1>2
<1>4. r \in Int /\ 0 <= r /\ r < SlMod
  OBVIOUS
<1>5. rx + SlMod - ry = SlMod * k + r
  <2> DEFINE w == SlMod * qx  d == SlMod * qy  e == SlMod * k
  <2>1. w \in Int /\ d \in Int /\ e \in Int /\ x = w + rx /\ y = d + ry /\ e = SlMod - w + d
    BY <1>1, <1>2, <1>3
  <2> HIDE DEF w, d, e, x, y, k
  <2> QED
    BY <1>1, <1>2, <2>1 DEF e
<1>6. (SlMod * k + r) % SlMod = r
  BY <1>1, <1>3, <1>4, DivModUnique
<1> QED
  BY <1>5, <1>6 DEF rx, ry, SlMinus, SlClock

LEMMA DifferenceType ==
  ASSUME NEW u \in Int, NEW v \in Int, SlMod \in Nat \ {0}
  PROVE  SlMinus(u, v) \in Nat
<1> DEFINE d == u + SlMod - v
<1>1. d \in Int
  OBVIOUS
<1> HIDE DEF d
<1>2. d % SlMod \in Nat
  BY <1>1
<1> QED
  BY <1>2 DEF SlMinus, d

LEMMA ClockType ==
  ASSUME NEW passed \in Nat, slStart \in Nat, SlMod \in Nat \ {0}
  PROVE  SlClock(passed) \in Int
BY DEF SlClock

LEMMA RemainingMeans ==
  ASSUME SlInv, NEW passed \in Nat
  PROVE  Remaining(passed) \in Nat /\ (passed < slMs => Remaining(passed) # 0)
<1> DEFINE d == SlMinus(SlClock(slMs), SlClock(passed))
<1>1. slMs \in Nat /\ 2 * slMs < SlMod /\ slStart \in Nat /\ SlMod \in Nat \ {0}
  BY SlConstantsMean DEF SlInv
<1>2. d \in Nat
  BY <1>1, DifferenceType, ClockType
<1>3. passed < slMs => d = slMs - passed
  BY <1>1, StillToSleep
<1> HIDE DEF d
<1>4. Remaining(passed) = IF SlPositive(d) THEN d ELSE 0
  BY DEF Remaining, d
<1> QED
  BY <1>1, <1>2, <1>3, <1>4 DEF SlPositive

LEMMA RemainingPosixMeans ==
  ASSUME SlInv, NEW passed \in Nat
  PROVE  Remaining_Posix(passed) \in Nat
<1> DEFINE d == SlMinus(slStart, SlClock(passed))
<1>1. slMs \in Nat /\ slStart \in Nat /\ SlMod \in Nat \ {0}
  BY SlConstantsMean DEF SlInv
<1>2. d \in Nat
  BY <1>1, DifferenceType, ClockType
<1> HIDE DEF d
<1>3. Remaining_Posix(passed) = IF d < slMs THEN slMs - d ELSE 0
  BY DEF Remaining_Posix, d
<1> QED
  BY <1>1, <1>2, <1>3

LEMMA SlInitInv == SlInit => SlInv
BY SlConstantsMean DEF SlInit, SlInv, SleepsWholeTime

LEMMA SlNextInv == SlInv /\ [SlNext]_slVars => SlInv'
<1> SUFFICES ASSUME SlInv, [SlNext]_slVars PROVE SlInv'
  OBVIOUS
<1>1. slMs \in Nat /\ SlLate \in Nat /\ slRemaining \in Nat /\ slPassed \in Nat
  BY SlConstantsMean DEF SlInv
<1>2. ASSUME NEW n \in Nat, SystemSleep(n)
      PROVE  slPassed' \in Nat /\ UNCHANGED <<slPort, slMs, slStart>>
  BY <1>1, <1>2 DEF SystemSleep
<1>3. ASSUME slPassed' \in Nat, UNCHANGED <<slPort, slMs, slStart>>,
             NEW remaining \in Nat, SlGoOn(remaining),
             slPort # "posix" /\ slPassed' < slMs => remaining # 0
      PROVE  SlInv'
  BY <1>1, <1>3 DEF SlInv, SlGoOn, SleepsWholeTime
<1>4. ASSUME SlReturn, slMs = 0 PROVE SlInv'
  BY <1>1, <1>4 DEF SlInv, SlReturn, SleepsWholeTime
<1>5. CASE OSALSleep_Posix
  <2>1. ASSUME SystemSleep(slRemaining), SlGoOn(Remaining_Posix(slPassed')) PROVE SlInv'
    BY <1>1, <1>2, <1>3, <1>5, <2>1, RemainingPosixMeans DEF OSALSleep_Posix
  <2> QED
    BY <1>4, <1>5, <2>1 DEF OSALSleep_Posix
<1>6. ASSUME NEW n \in Nat, SystemSleep(n), SlGoOn(Remaining(slPassed')) PROVE SlInv'
  <2>1. Remaining(slPassed') \in Nat /\ (slPassed' < slMs => Remaining(slPassed') # 0)
    BY <1>2, <1>6, RemainingMeans
  <2> QED
    BY <1>2, <1>3, <1>6, <2>1
<1>7. CASE OSALSleep_Win32
  BY <1>1, <1>6, <1>7 DEF OSALSleep_Win32
<1>8. CASE OSALSleep_FreeRtos
  BY <1>1, <1>4, <1>6, <1>8 DEF OSALSleep_FreeRtos
<1>9. CASE UNCHANGED slVars
  BY <1>9 DEF slVars, SlInv, SleepsWholeTime
<1> QED
  BY <1>5, <1>7, <1>8, <1>9 DEF SlNext

-----------------------------------------------------------------------------
(* timing_alt.cpp.                                                         *)

\* The timer's start and the time since are where the clock is, modulo its range.
TmInv ==
  /\ {tmNow, tmStart} \subseteq 0 .. TmMod - 1
  /\ tmElapsed \in 0 .. TmMod - 1
  /\ tmNow = (tmStart + tmElapsed) % TmMod
  /\ tmDelay \in (0 .. TmMod - 1) \X (0 .. TmMod - 1)
  /\ tmAlarm \in {"idle", "cancel", "add"}
  /\ AlarmNotLost

\* A clock that has gone on for less than a round shows the sum, or that less a round.
LEMMA ClockAfter ==
  ASSUME NEW M \in Nat \ {0}, NEW s \in 0 .. M - 1, NEW e \in 0 .. M - 1
  PROVE  (s + e) % M = IF s + e < M THEN s + e ELSE s + e - M
<1>1. CASE s + e < M
  <2>1. (M * 0 + (s + e)) % M = s + e
    BY <1>1, DivModUnique
  <2> QED BY <1>1, <2>1
<1>2. CASE s + e >= M
  <2>1. (M * 1 + (s + e - M)) % M = s + e - M
    BY <1>2, DivModUnique
  <2> QED BY <1>2, <2>1
<1> QED BY <1>1, <1>2

LEMMA TmInitInv == TmInit => TmInv
<1> SUFFICES ASSUME TmInit PROVE TmInv
  OBVIOUS
<1>1. TmMod \in Nat \ {0} /\ 0 \in 0 .. TmMod - 1
  BY TmAssumption
<1>2. (0 + 0) % TmMod = 0
  BY <1>1, ClockAfter
<1> QED
  BY <1>1, <1>2 DEF TmInit, TmInv, AlarmNotLost

LEMMA TmNextInv == TmInv /\ [TmNext]_tmVars => TmInv'
<1> SUFFICES ASSUME TmInv, [TmNext]_tmVars PROVE TmInv'
  OBVIOUS
<1>1. TmMod \in Nat \ {0}
  BY TmAssumption
<1>2. CASE TmTick
  <2>1. tmElapsed' = tmElapsed + 1 /\ tmElapsed' \in 0 .. TmMod - 1
    BY <1>1, <1>2 DEF TmTick, TmInv
  <2>2. tmNow' \in 0 .. TmMod - 1 /\ tmNow' = (tmStart + tmElapsed') % TmMod
    <3>1. /\ tmNow' = (tmNow + 1) % TmMod /\ tmNow \in 0 .. TmMod - 1
          /\ tmNow = (tmStart + tmElapsed) % TmMod
          /\ tmStart \in 0 .. TmMod - 1 /\ tmElapsed \in 0 .. TmMod - 1
      BY <1>2 DEF TmTick, TmInv
    <3>2. tmNow = IF tmStart + tmElapsed < TmMod THEN tmStart + tmElapsed
                  ELSE tmStart + tmElapsed - TmMod
      BY <1>1, <3>1, ClockAfter
    <3>3. (tmStart + tmElapsed') % TmMod
             = IF tmStart + tmElapsed' < TmMod THEN tmStart + tmElapsed'
               ELSE tmStart + tmElapsed' - TmMod
      BY <1>1, <2>1, <3>1, ClockAfter
    <3>4. 1 \in 0 .. TmMod - 1
      BY <1>1, <2>1, <3>1
    <3>5. (tmNow + 1) % TmMod = IF tmNow + 1 < TmMod THEN tmNow + 1 ELSE tmNow + 1 - TmMod
      BY <1>1, <3>1, <3>4, ClockAfter
    <3> DEFINE u == (tmStart + tmElapsed') % TmMod  v == (tmNow + 1) % TmMod
    <3> HIDE DEF u, v
    <3>6. u = v /\ v \in 0 .. TmMod - 1
      BY <1>1, <2>1, <3>1, <3>2, <3>3, <3>5 DEF u, v
    <3> QED
      BY <3>1, <3>6 DEF u, v
  <2> QED
    BY <1>2, <2>1, <2>2 DEF TmTick, TmInv, tmAlarmVars, AlarmNotLost
<1>3. ASSUME NEW delay \in TmDelays, set_delay(delay) PROVE TmInv'
  <2>1. delay \in (0 .. TmMod - 1) \X (0 .. TmMod - 1)
    BY TmAssumption
  <2>2. tmNow \in 0 .. TmMod - 1 /\ 0 \in 0 .. TmMod - 1 /\ tmNow + 0 < TmMod
    BY <1>1 DEF TmInv
  <2>3. (tmNow + 0) % TmMod = tmNow
    BY <1>1, <2>2, ClockAfter
  <2> QED
    BY <1>3, <2>1, <2>2, <2>3 DEF set_delay, TmInv, tmAlarmVars, AlarmNotLost
<1>4. ASSUME mbedtls_set_alarm \/ setAlarmCancel \/ setAlarmAdd \/ TakeAlarm \/ alarmC,
             UNCHANGED <<tmNow, tmTimer>>
      PROVE  TmInv'
  <2>1. tmAlarm' \in {"idle", "cancel", "add"} /\ AlarmNotLost'
    BY <1>4 DEF TmInv, AlarmNotLost, mbedtls_set_alarm, setAlarmCancel, setAlarmAdd,
                TakeAlarm, alarmC
  <2> QED
    BY <1>4, <2>1 DEF TmInv, tmTimer
<1>5. CASE UNCHANGED tmVars
  BY <1>5 DEF tmVars, tmTimer, tmAlarmVars, TmInv, AlarmNotLost
<1> QED
  BY <1>2, <1>3, <1>4, <1>5 DEF TmNext

LEMMA TmInvMeans == TmInv => DelayNeverLate /\ AlarmNotLost
<1> SUFFICES ASSUME TmInv PROVE DelayNeverLate
  BY DEF TmInv
<1>1. /\ TmMod \in Nat \ {0} /\ tmNow \in 0 .. TmMod - 1 /\ tmStart \in 0 .. TmMod - 1
      /\ tmElapsed \in 0 .. TmMod - 1 /\ tmDelay[1] \in 0 .. TmMod - 1
      /\ tmDelay[2] \in 0 .. TmMod - 1 /\ tmNow = (tmStart + tmElapsed) % TmMod
  BY TmAssumption DEF TmInv
<1>2. tmNow = IF tmStart + tmElapsed < TmMod THEN tmStart + tmElapsed
              ELSE tmStart + tmElapsed - TmMod
  BY <1>1, ClockAfter
<1>3. LargeDelta \in Int /\ LargeDelta >= TmMod + TmMod - 1
  <2>1. (TmMod - 1) * (TmMod - 1) >= 0
    BY <1>1
  <2>2. (TmMod - 1) * (TmMod - 1) = TmMod * TmMod - 2 * TmMod + 1
    BY <1>1
  <2> DEFINE square == TmMod * TmMod
  <2>3. square \in Int /\ square - 2 * TmMod + 1 >= 0
    BY <1>1, <2>1, <2>2
  <2> HIDE DEF square
  <2>4. square >= TmMod + TmMod - 1
    BY <1>1, <2>3
  <2> QED
    BY <2>3, <2>4 DEF LargeDelta, square
<1>4. get_timer \in Int /\ get_timer >= tmElapsed
  BY <1>1, <1>2, <1>3 DEF get_timer
<1>5. ASSUME tmDelay[2] # 0, tmElapsed >= tmDelay[2] PROVE get_delay = 2
  BY <1>1, <1>4, <1>5 DEF get_delay
<1>6. ASSUME tmDelay[2] # 0, tmElapsed >= tmDelay[1] PROVE get_delay \in {1, 2}
  <2>1. get_timer >= tmDelay[1]
    BY <1>1, <1>4, <1>6
  <2>2. get_timer >= tmDelay[2] => get_delay = 2
    BY <1>6 DEF get_delay
  <2>3. ~(get_timer >= tmDelay[2]) => get_delay = 1
    BY <1>6, <2>1 DEF get_delay
  <2> QED BY <2>2, <2>3
<1> QED
  BY <1>5, <1>6 DEF DelayNeverLate

-----------------------------------------------------------------------------
(* The simulated clock of osal_win32.cpp.                                  *)

\* Threads in ticksTask whose id is out of date, and that have not found out.
Stale == {i \in 1 .. WinMaxHooks : winTickers[i] >= 0 /\ i # winThreadId}

WinClockTypeOK ==
  /\ winTime \in Nat /\ winEmulated \in Nat /\ winThreadId \in 0 .. WinMaxHooks
  /\ winSimulated \in BOOLEAN /\ winHook \in {"idle", "start"}
  /\ winTickers \in [1 .. WinMaxHooks -> Int]
  /\ \A i \in 1 .. WinMaxHooks : winTickers[i] <= winTime

\* Each stale thread is one that was started at an earlier odd id and counts once more;
\* the one in force counts no further than the clock it has seen.
TickersInv ==
  /\ \E k \in Nat : winThreadId = 2 * k + IF winSimulated THEN 1 ELSE 0
  /\ winHook = "start" => winSimulated
  /\ \A i \in 1 .. WinMaxHooks : winTickers[i] >= 0 => i <= winThreadId
  /\ (~winSimulated \/ winHook = "start") =>
       \A i \in 1 .. WinMaxHooks : winTickers[i] >= 0 => i # winThreadId
  /\ Cardinality(Stale) <= winThreadId \div 2
  /\ winSimulated /\ winHook = "idle" =>
       /\ winTickers[winThreadId] >= 0
       /\ winEmulated + Cardinality(Stale) <= winTickers[winThreadId] + winThreadId \div 2

WinClockInv == WinClockTypeOK /\ TickersInv

LEMMA StaleFinite == WinMaxHooks \in Nat => IsFiniteSet(Stale) /\ Cardinality(Stale) \in Nat
<1> SUFFICES ASSUME WinMaxHooks \in Nat PROVE IsFiniteSet(Stale) /\ Cardinality(Stale) \in Nat
  OBVIOUS
<1>1. IsFiniteSet(1 .. WinMaxHooks)
  BY FS_Interval
<1>2. Stale \subseteq 1 .. WinMaxHooks
  BY DEF Stale
<1> QED
  BY <1>1, <1>2, FS_Subset, FS_CardinalityType

LEMMA WinClockInitInv == WinInit => WinClockInv
<1> SUFFICES ASSUME WinInit PROVE WinClockInv
  OBVIOUS
<1>1. WinClockTypeOK
  <2>1. winTickers \in [1 .. WinMaxHooks -> Int] /\ \A i \in 1 .. WinMaxHooks : winTickers[i] = -1
    BY DEF WinInit
  <2>2. 0 \in 0 .. WinMaxHooks
    BY WinAssumption
  <2>3. \A i \in 1 .. WinMaxHooks : winTickers[i] <= 0
    BY <2>1
  <2> QED
    BY <2>1, <2>2, <2>3 DEF WinInit, WinClockTypeOK
<1>2. Stale = {}
  BY DEF WinInit, Stale
<1>3. Cardinality(Stale) = 0
  BY <1>2, FS_EmptySet
<1>4. winThreadId = 2 * 0 /\ ~winSimulated /\ winHook = "idle" /\ winThreadId \div 2 = 0
  BY DEF WinInit
<1>5. \A i \in 1 .. WinMaxHooks : ~(winTickers[i] >= 0)
  BY DEF WinInit
<1> QED
  BY <1>1, <1>3, <1>4, <1>5 DEF WinClockInv, TickersInv

LEMMA WinClockNextInv == WinClockInv /\ [WinNext]_winVars => WinClockInv'
<1> SUFFICES ASSUME WinClockInv, [WinNext]_winVars PROVE WinClockInv'
  OBVIOUS
<1>1. WinMaxHooks \in Nat /\ IsFiniteSet(Stale) /\ Cardinality(Stale) \in Nat
  BY WinAssumption, StaleFinite
<1>2. ASSUME UNCHANGED winClockVars PROVE WinClockInv'
  <2>1. Stale' = Stale
    BY <1>2 DEF winClockVars, Stale
  <2> QED
    BY <1>2, <2>1 DEF winClockVars, WinClockInv, WinClockTypeOK, TickersInv
<1>3. CASE WinTick
  <2>1. Stale' = Stale
    BY <1>3 DEF WinTick, Stale
  <2> QED
    BY <1>3, <2>1 DEF WinTick, WinClockInv, WinClockTypeOK, TickersInv
<1>4. CASE DoHookToHardware
  <2>1. WinClockTypeOK'
    BY <1>1, <1>4 DEF DoHookToHardware, WinClockInv, WinClockTypeOK
  <2>2. /\ winThreadId \in Nat /\ winThreadId' = winThreadId + 1 /\ winSimulated' = ~winSimulated
        /\ winTickers' = winTickers /\ winSimulated \in BOOLEAN
        /\ winHook' = IF winSimulated THEN "idle" ELSE "start"
    BY <1>4 DEF DoHookToHardware, WinClockInv, WinClockTypeOK
  <2>3. PICK k \in Nat : winThreadId = 2 * k + IF winSimulated THEN 1 ELSE 0
    BY DEF WinClockInv, TickersInv
  <2>4. winThreadId \div 2 = k
    BY <2>2, <2>3
  <2>5. Cardinality(Stale) <= k
    BY <2>4 DEF WinClockInv, TickersInv
  <2>6. \A i \in 1 .. WinMaxHooks : winTickers[i] >= 0 => i <= winThreadId /\ i # winThreadId'
    BY <2>2 DEF WinClockInv, TickersInv
  <2>7. CASE winSimulated
    <3>1. winThreadId' = 2 * (k + 1) /\ winThreadId' \div 2 = k + 1
      BY <2>2, <2>3, <2>7
    <3>2. Stale' \subseteq Stale \cup {winThreadId}
      BY <2>2 DEF Stale
    <3>3. Cardinality(Stale \cup {winThreadId}) <= Cardinality(Stale) + 1
      <4>1. winThreadId \notin Stale
        BY DEF Stale
      <4> QED
        BY <1>1, <4>1, FS_AddElement
    <3>4. IsFiniteSet(Stale \cup {winThreadId})
      BY <1>1, FS_AddElement
    <3>5. /\ Cardinality(Stale') <= Cardinality(Stale \cup {winThreadId})
          /\ Cardinality(Stale \cup {winThreadId}) \in Nat /\ Cardinality(Stale') \in Nat
      BY <3>2, <3>4, FS_Subset, FS_CardinalityType
    <3>6. Cardinality(Stale') <= winThreadId' \div 2
      BY <1>1, <2>5, <3>1, <3>3, <3>5
    <3>7. winHook' = "idle" /\ ~winSimulated'
      BY <2>2, <2>7
    <3>8. /\ \E m \in Nat : winThreadId' = 2 * m + IF winSimulated' THEN 1 ELSE 0
          /\ \A i \in 1 .. WinMaxHooks : winTickers'[i] >= 0 => i <= winThreadId' /\ i # winThreadId'
      <4>1. k + 1 \in Nat /\ winThreadId' = 2 * (k + 1) + 0
        BY <3>1
      <4>2. \E m \in Nat : winThreadId' = 2 * m + 0
        BY <4>1
      <4>3. winTickers' = winTickers /\ \A i \in 1 .. WinMaxHooks : i <= winThreadId => i <= winThreadId'
        BY <2>2
      <4> QED
        BY <2>6, <3>7, <4>2, <4>3
    <3>9. TickersInv'
      BY <3>6, <3>7, <3>8 DEF TickersInv
    <3> QED
      BY <2>1, <3>9 DEF WinClockInv
  <2>8. CASE ~winSimulated
    <3>1. winThreadId' = 2 * k + 1 /\ winThreadId' \div 2 = k
      BY <2>2, <2>3, <2>8
    <3>2. Stale' = Stale
      <4>1. \A i \in 1 .. WinMaxHooks : winTickers[i] >= 0 => i # winThreadId
        BY <2>8 DEF WinClockInv, TickersInv
      <4> QED
        BY <2>2, <2>6, <4>1 DEF Stale
    <3>3. winHook' = "start" /\ winSimulated'
      BY <2>2, <2>8
    <3>4. /\ \E m \in Nat : winThreadId' = 2 * m + IF winSimulated' THEN 1 ELSE 0
          /\ \A i \in 1 .. WinMaxHooks : winTickers'[i] >= 0 => i <= winThreadId' /\ i # winThreadId'
      <4>1. \E m \in Nat : winThreadId' = 2 * m + 1
        BY <3>1
      <4>2. winTickers' = winTickers /\ \A i \in 1 .. WinMaxHooks : i <= winThreadId => i <= winThreadId'
        BY <2>2
      <4> QED
        BY <2>6, <3>3, <4>1, <4>2
    <3>5. Cardinality(Stale') <= winThreadId' \div 2
      BY <2>5, <3>1, <3>2
    <3>6. TickersInv'
      BY <3>3, <3>4, <3>5 DEF TickersInv
    <3> QED
      BY <2>1, <3>6 DEF WinClockInv
  <2> QED
    BY <2>2, <2>7, <2>8
<1>5. CASE StartTicksTask
  <2>1. winThreadId \in 1 .. WinMaxHooks /\ winSimulated
    BY <1>1, <1>5 DEF StartTicksTask, WinClockInv, WinClockTypeOK, TickersInv
  <2>2. /\ winTickers' \in [1 .. WinMaxHooks -> Int] /\ winTickers'[winThreadId] = winTime
        /\ \A i \in 1 .. WinMaxHooks : i # winThreadId => winTickers'[i] = winTickers[i]
    BY <1>5, <2>1 DEF StartTicksTask, WinClockInv, WinClockTypeOK
  <2>3. WinClockTypeOK'
    BY <1>5, <2>2 DEF StartTicksTask, WinClockInv, WinClockTypeOK
  <2>4. Stale' = Stale
    BY <1>5, <2>2 DEF StartTicksTask, Stale
  <2>5. winTime \in Nat /\ winThreadId \in Nat
    BY <2>1 DEF WinClockInv, WinClockTypeOK
  <2>6. UNCHANGED <<winThreadId, winSimulated>> /\ winHook' = "idle" /\ winEmulated' = winTime
    BY <1>5 DEF StartTicksTask
  <2>7. \A i \in 1 .. WinMaxHooks : winTickers'[i] >= 0 => i <= winThreadId
    BY <2>2, <2>5 DEF WinClockInv, TickersInv
  <2>8. winThreadId \div 2 \in Int /\ Cardinality(Stale) <= winThreadId \div 2
    BY <2>5 DEF WinClockInv, TickersInv
  <2>9. winEmulated' + Cardinality(Stale) <= winTickers'[winThreadId] + winThreadId \div 2
    BY <1>1, <2>2, <2>5, <2>6, <2>8
  <2>10. TickersInv'
    BY <2>1, <2>2, <2>4, <2>5, <2>6, <2>7, <2>8, <2>9 DEF WinClockInv, TickersInv
  <2> QED
    BY <2>3, <2>10 DEF WinClockInv
<1>6. ASSUME NEW i \in 1 .. WinMaxHooks, TicksTask(i) PROVE WinClockInv'
  <2>1. /\ winTickers[i] >= 0 /\ winTickers[i] \in Int /\ winTickers[i] <= winTime
        /\ UNCHANGED <<winTime, winSimulated, winThreadId, winHook>>
        /\ winEmulated \in Nat /\ winTime \in Nat /\ winThreadId \in Nat
        /\ winTickers' \in [1 .. WinMaxHooks -> Int]
        /\ winTickers'[i] = IF winThreadId = i THEN winTime ELSE -1
        /\ \A j \in 1 .. WinMaxHooks : j # i => winTickers'[j] = winTickers[j]
    BY <1>6 DEF TicksTask, WinClockInv, WinClockTypeOK
  <2>2. winEmulated' = IF winTime > winTickers[i] THEN winEmulated + 1 ELSE winEmulated
    BY <1>6 DEF TicksTask
  <2>3. WinClockTypeOK'
    BY <2>1, <2>2 DEF WinClockInv, WinClockTypeOK
  <2>4. CASE i = winThreadId
    <3>1. Stale' = Stale
      BY <2>1, <2>4 DEF Stale
    <3>2. winSimulated /\ winHook = "idle"
      BY <2>1, <2>4 DEF WinClockInv, WinClockTypeOK, TickersInv
    <3>3. winThreadId \div 2 \in Int
      BY <2>1
    <3>4. winEmulated + Cardinality(Stale) <= winTickers[i] + winThreadId \div 2
      BY <2>4, <3>2 DEF WinClockInv, TickersInv
    <3>5. winEmulated' + Cardinality(Stale) <= winTickers'[i] + winThreadId \div 2
      BY <1>1, <2>1, <2>2, <2>4, <3>3, <3>4
    <3>6. \A j \in 1 .. WinMaxHooks : winTickers'[j] >= 0 => j <= winThreadId
      BY <2>1, <2>4 DEF WinClockInv, TickersInv
    <3>7. winTickers'[i] >= 0
      BY <2>1, <2>4
    <3> QED
      BY <2>1, <2>3, <2>4, <3>1, <3>2, <3>5, <3>6, <3>7 DEF WinClockInv, TickersInv
  <2>5. CASE i # winThreadId
    <3>1. i \in Stale /\ Stale' = Stale \ {i}
      BY <2>1, <2>5 DEF Stale
    <3>2. Cardinality(Stale') = Cardinality(Stale) - 1
      BY <1>1, <3>1, FS_RemoveElement
    <3>3. winThreadId \div 2 \in Int
      BY <2>1
    <3>4. Cardinality(Stale') <= winThreadId \div 2
      BY <1>1, <3>2, <3>3 DEF WinClockInv, TickersInv
    <3>5. ASSUME winSimulated, winHook = "idle"
          PROVE  /\ winTickers'[winThreadId] = winTickers[winThreadId]
                 /\ winTickers[winThreadId] >= 0
                 /\ winEmulated' + Cardinality(Stale')
                      <= winTickers[winThreadId] + winThreadId \div 2
      <4>1. winThreadId \in 1 .. WinMaxHooks
        BY <3>5 DEF WinClockInv, WinClockTypeOK, TickersInv
      <4>2. winTickers'[winThreadId] = winTickers[winThreadId] /\ winTickers[winThreadId] \in Int
        BY <2>1, <2>5, <4>1 DEF WinClockInv, WinClockTypeOK
      <4>3. /\ winTickers[winThreadId] >= 0
            /\ winEmulated + Cardinality(Stale) <= winTickers[winThreadId] + winThreadId \div 2
        BY <3>5 DEF WinClockInv, TickersInv
      <4>4. winEmulated' \in Int /\ winEmulated' <= winEmulated + 1
        BY <2>1, <2>2
      <4>5. \A before, after, older, half, seen \in Int :
              after <= before + 1 /\ before + older <= seen + half
                => after + (older - 1) <= seen + half
        OBVIOUS
      <4> QED
        BY <1>1, <2>1, <3>2, <3>3, <4>2, <4>3, <4>4, <4>5
    <3>6. \A j \in 1 .. WinMaxHooks : winTickers'[j] >= 0 => j # i /\ winTickers[j] >= 0
      BY <2>1, <2>5
    <3>7. /\ \A j \in 1 .. WinMaxHooks : winTickers'[j] >= 0 => j <= winThreadId
          /\ (~winSimulated \/ winHook = "start") =>
               \A j \in 1 .. WinMaxHooks : winTickers'[j] >= 0 => j # winThreadId
      BY <3>6 DEF WinClockInv, TickersInv
    <3>8. TickersInv'
      BY <2>1, <3>4, <3>5, <3>7 DEF WinClockInv, TickersInv
    <3> QED
      BY <2>3, <3>8 DEF WinClockInv
  <2> QED
    BY <2>4, <2>5
<1>7. ASSUME NEW t \in WinThreads,
             \/ EnterCriticalTest(t) \/ EnterCriticalSection(t) \/ EnterCriticalSetId(t)
             \/ WinExitCritical(t) \/ ExitCriticalClearId(t) \/ LeaveCriticalSection(t)
      PROVE  UNCHANGED winClockVars
  BY <1>7 DEF EnterCriticalTest, EnterCriticalSection, EnterCriticalSetId, WinExitCritical,
              ExitCriticalClearId, LeaveCriticalSection
<1>8. CASE UNCHANGED winVars
  BY <1>2, <1>8 DEF winVars
<1> QED
  BY <1>2, <1>3, <1>4, <1>5, <1>6, <1>7, <1>8 DEF WinNext

LEMMA WinClockInvMeans == WinClockInv => WinClockNotFast
<1> SUFFICES ASSUME WinClockInv, winSimulated, winHook = "idle"
             PROVE  winEmulated <= winTime + winThreadId \div 2
  BY DEF WinClockNotFast
<1>1. Cardinality(Stale) \in Nat
  BY WinAssumption, StaleFinite
<1>2. /\ winEmulated \in Nat /\ winTime \in Nat /\ winThreadId \div 2 \in Int
      /\ winThreadId \in 1 .. WinMaxHooks
  BY DEF WinClockInv, WinClockTypeOK, TickersInv
<1>3. winTickers[winThreadId] \in Int /\ winTickers[winThreadId] <= winTime
  BY <1>2 DEF WinClockInv, WinClockTypeOK
<1>4. winEmulated + Cardinality(Stale) <= winTickers[winThreadId] + winThreadId \div 2
  BY DEF WinClockInv, TickersInv
<1> QED
  BY <1>1, <1>2, <1>3, <1>4

-----------------------------------------------------------------------------
(* platform_log.cpp.                                                       *)

LogTypeOK ==
  /\ logFree \in Seq(Events)
  /\ logWrIdx \in 0 .. RingSize
  /\ DOMAIN logRing = 0 .. RingSize - 1
  /\ logLine \in [LogThreads -> [event : 0 .. NumFreeEvents, start : Nat, len : Nat,
                                 printed : BOOLEAN]]
  /\ logSince \in [LogThreads -> Nat]
  /\ \A t \in LogThreads : logLine[t] = NoLine <=> logLine[t].event = 0

\* Each event is in the list once, or with one line.
LogEventsInv ==
  /\ \A i, j \in DOMAIN logFree : i # j => logFree[i] # logFree[j]
  /\ \A t, u \in LogThreads : logLine[t].event # 0 /\ logLine[u].event = logLine[t].event => t = u
  /\ \A t \in LogThreads : \A i \in DOMAIN logFree : logFree[i] # logLine[t].event
  /\ \A e \in Events :
       (\E i \in DOMAIN logFree : logFree[i] = e) \/ \E t \in LogThreads : logLine[t].event = e

\* The index is as far from the start of a line as it has gone on since, round the end
\* of the ring at most once; what it has not come to is the line's.
LineKept(t) ==
  LET line == logLine[t]
  IN /\ line.len <= logSince[t] /\ line.start + line.len <= RingSize
     /\ \/ logWrIdx = line.start + logSince[t]
        \/ logWrIdx + RingSize = line.start + logSince[t]
     /\ \A i \in line.start .. line.start + line.len - 1 : logRing[i] = t

LogLinesInv ==
  /\ logWrIdx = 0 => \A t \in LogThreads : logLine[t] = NoLine
  /\ \A t \in LogThreads :
       logLine[t] # NoLine => logLine[t].start <= RingSize /\ (logSince[t] <= RingSize => LineKept(t))

LogInv == LogTypeOK /\ LogEventsInv /\ LogLinesInv

LEMMA LogConstants ==
  /\ NumFreeEvents \in Nat /\ RingSize \in Nat \ {0} /\ PayloadMod \in Nat \ {0}
  /\ LineLens \subseteq Nat \ {0} /\ IsFiniteSet(LogThreads)
BY LogAssumption

LEMMA LogInitInv == LogInit => LogInv
<1> SUFFICES ASSUME LogInit PROVE LogInv
  OBVIOUS
<1>1. /\ DOMAIN logFree = Events /\ \A e \in Events : logFree[e] = e
      /\ logFree \in Seq(Events)
  BY LogConstants DEF LogInit, Events
<1>2. \A t \in LogThreads : logLine[t] = NoLine /\ logLine[t].event = 0
  BY DEF LogInit, NoLine
<1>3. LogTypeOK
  <2>1. NoLine \in [event : 0 .. NumFreeEvents, start : Nat, len : Nat, printed : BOOLEAN]
    BY LogConstants DEF NoLine
  <2> QED
    BY <1>1, <1>2, <2>1, LogConstants DEF LogInit, LogTypeOK
<1>4. LogEventsInv
  BY <1>1, <1>2, LogConstants DEF LogEventsInv, Events
<1> QED
  BY <1>2, <1>3, <1>4 DEF LogInv, LogLinesInv

\* Lines and events when a thread logs a line.
LEMMA ReserveEvents ==
  ASSUME LogInv, NEW t \in LogThreads, NEW len \in LineLens, LOG_VPrintf(t, len)
  PROVE  LogTypeOK' /\ LogEventsInv'
<1> DEFINE start == StartFor(len)
           line == [event |-> Head(logFree), start |-> start, len |-> len % PayloadMod,
                    printed |-> FALSE]
<1>1. /\ logLine[t] = NoLine /\ logFree # <<>> /\ 2 * len <= RingSize
      /\ logFree' = Tail(logFree) /\ logLine' = [logLine EXCEPT ![t] = line]
      /\ logWrIdx' = start + len
      /\ logRing' = [i \in DOMAIN logRing |->
                       IF i \in start .. start + len - 1 THEN t ELSE logRing[i]]
      /\ logSince' = [u \in LogThreads |->
                        IF u = t THEN len
                        ELSE IF logLine[u] = NoLine THEN 0
                        ELSE IF logSince[u] + (IF start = 0 THEN RingSize - logWrIdx ELSE 0) + len
                                  > RingSize THEN RingSize + 1
                        ELSE logSince[u] + (IF start = 0 THEN RingSize - logWrIdx ELSE 0) + len]
  BY DEF LOG_VPrintf, AddBuf, Reserve
<1>2. /\ LogTypeOK /\ LogEventsInv /\ len \in Nat \ {0} /\ RingSize \in Nat \ {0}
      /\ PayloadMod \in Nat \ {0} /\ NumFreeEvents \in Nat
  BY LogConstants DEF LogInv
<1>3. start \in Nat /\ start + len <= RingSize
  BY <1>1, <1>2 DEF StartFor, LogTypeOK
<1>4. len % PayloadMod \in Nat
  BY <1>2
<1> HIDE DEF start
<1>5. /\ Head(logFree) \in 1 .. NumFreeEvents /\ Head(logFree) = logFree[1]
      /\ Tail(logFree) \in Seq(Events)
      /\ Len(logFree) \in Nat \ {0} /\ DOMAIN logFree = 1 .. Len(logFree)
      /\ Len(logFree') = Len(logFree) - 1 /\ DOMAIN logFree' = 1 .. Len(logFree')
      /\ \A i \in DOMAIN logFree' : logFree'[i] = logFree[i + 1]
  <2>1. logFree \in Seq(Events) /\ logFree # <<>> /\ logFree' = Tail(logFree)
    BY <1>1, <1>2 DEF LogTypeOK
  <2>2. /\ Len(logFree) \in Nat \ {0} /\ DOMAIN logFree = 1 .. Len(logFree)
        /\ Head(logFree) = logFree[1] /\ logFree' \in Seq(Events)
        /\ Len(logFree') = Len(logFree) - 1 /\ DOMAIN logFree' = 1 .. Len(logFree')
        /\ \A i \in 1 .. Len(logFree') : logFree'[i] = logFree[i + 1]
    BY <2>1
  <2>3. logFree[1] \in Events
    BY <2>1, <2>2
  <2> QED
    BY <2>1, <2>2, <2>3 DEF Events
<1>6. /\ line.event = Head(logFree) /\ line # NoLine
      /\ line \in [event : 0 .. NumFreeEvents, start : Nat, len : Nat, printed : BOOLEAN]
  BY <1>2, <1>3, <1>4, <1>5 DEF NoLine
<1> HIDE DEF line
<1>7. logLine'[t] = line /\ \A u \in LogThreads \ {t} : logLine'[u] = logLine[u]
  BY <1>1, <1>2 DEF LogTypeOK
<1>8. logSince' \in [LogThreads -> Nat]
  <2> DEFINE more == IF start = 0 THEN RingSize - logWrIdx ELSE 0
  <2>1. more \in Nat
    BY <1>2 DEF LogTypeOK
  <2>2. logSince' = [u \in LogThreads |->
                       IF u = t THEN len
                       ELSE IF logLine[u] = NoLine THEN 0
                       ELSE IF logSince[u] + more + len > RingSize THEN RingSize + 1
                       ELSE logSince[u] + more + len]
    BY <1>1
  <2> HIDE DEF more
  <2> QED
    BY <1>2, <2>1, <2>2, SMTT(30) DEF LogTypeOK
<1>9. LogTypeOK'
  <2>1. logLine' \in [LogThreads -> [event : 0 .. NumFreeEvents, start : Nat, len : Nat,
                                     printed : BOOLEAN]]
    BY <1>1, <1>2, <1>6 DEF LogTypeOK
  <2>2. \A u \in LogThreads : logLine'[u] = NoLine <=> logLine'[u].event = 0
    <3>1. logLine'[t] # NoLine /\ logLine'[t].event # 0
      BY <1>5, <1>6, <1>7
    <3> QED
      BY <1>2, <1>7, <3>1 DEF LogTypeOK
  <2>3. logWrIdx' \in 0 .. RingSize /\ DOMAIN logRing' = 0 .. RingSize - 1
    BY <1>1, <1>2, <1>3 DEF LogTypeOK
  <2> QED
    BY <1>1, <1>5, <1>8, <2>1, <2>2, <2>3 DEF LogTypeOK, Events
<1>10. LogEventsInv'
  <2>1. \A i, j \in DOMAIN logFree' : i # j => logFree'[i] # logFree'[j]
    <3>1. \A i, j \in DOMAIN logFree : i # j => logFree[i] # logFree[j]
      BY <1>2 DEF LogEventsInv
    <3>2. ASSUME NEW i \in DOMAIN logFree', NEW j \in DOMAIN logFree', i # j
          PROVE  logFree[i + 1] # logFree[j + 1]
      BY <1>5, <3>1, <3>2
    <3> QED
      BY <1>5, <3>2
  <2>2. \A u \in LogThreads \ {t} : logLine[u].event # Head(logFree)
    BY <1>2, <1>5 DEF LogEventsInv
  <2>3. \A u, v \in LogThreads :
          logLine'[u].event # 0 /\ logLine'[v].event = logLine'[u].event => u = v
    BY <1>2, <1>6, <1>7, <2>2 DEF LogEventsInv
  <2>4. \A u \in LogThreads : \A i \in DOMAIN logFree' : logFree'[i] # logLine'[u].event
    BY <1>2, <1>5, <1>6, <1>7, SMTT(30) DEF LogEventsInv
  <2>5. ASSUME NEW e \in Events
        PROVE  (\E i \in DOMAIN logFree' : logFree'[i] = e)
               \/ \E u \in LogThreads : logLine'[u].event = e
    <3>1. CASE e = Head(logFree)
      BY <1>6, <1>7, <3>1
    <3>2. CASE \E i \in DOMAIN logFree : logFree[i] = e /\ i # 1
      <4>1. PICK i \in DOMAIN logFree : logFree[i] = e /\ i # 1
        BY <3>2
      <4>2. i - 1 \in DOMAIN logFree' /\ logFree'[i - 1] = e
        BY <1>5, <4>1
      <4> QED
        BY <4>2
    <3>3. CASE \E u \in LogThreads : logLine[u].event = e
      <4>1. PICK u \in LogThreads : logLine[u].event = e
        BY <3>3
      <4>2. u # t
        BY <1>1, <1>2, <4>1 DEF NoLine, Events
      <4> QED
        BY <1>7, <4>1, <4>2
    <3> QED
      BY <1>2, <1>5, <3>1, <3>2, <3>3 DEF LogEventsInv
  <2> QED
    BY <2>1, <2>3, <2>4, <2>5 DEF LogEventsInv
<1> QED
  BY <1>9, <1>10

\* The ring when a thread logs a line.
LEMMA ReserveLines ==
  ASSUME LogInv, NEW t \in LogThreads, NEW len \in LineLens, LOG_VPrintf(t, len)
  PROVE  LogLinesInv'
<1> DEFINE start == StartFor(len)
           skipped == IF start = 0 THEN RingSize - logWrIdx ELSE 0
<1>1. /\ logLine[t] = NoLine /\ 2 * len <= RingSize
      /\ logLine'[t] # NoLine /\ logLine'[t].start = start /\ logLine'[t].len = len % PayloadMod
      /\ \A u \in LogThreads \ {t} : logLine'[u] = logLine[u]
      /\ logWrIdx' = start + len
      /\ \A i \in 0 .. RingSize - 1 :
           logRing'[i] = IF i \in start .. start + len - 1 THEN t ELSE logRing[i]
      /\ \A u \in LogThreads :
           logSince'[u] = IF u = t THEN len
                          ELSE IF logLine[u] = NoLine THEN 0
                          ELSE IF logSince[u] + skipped + len > RingSize THEN RingSize + 1
                          ELSE logSince[u] + skipped + len
  <2>1. logLine[t] = NoLine /\ logFree # <<>> /\ 2 * len <= RingSize /\ Reserve(t, len, len)
    BY DEF LOG_VPrintf, AddBuf
  <2>2. Head(logFree) # 0
    BY <2>1, LogConstants DEF LogInv, LogTypeOK, Events
  <2> DEFINE line == [event |-> Head(logFree), start |-> start, len |-> len % PayloadMod,
                      printed |-> FALSE]
  <2>3. line # NoLine /\ line.start = start /\ line.len = len % PayloadMod
    BY <2>2 DEF NoLine
  <2>4. logLine' = [logLine EXCEPT ![t] = line] /\ t \in DOMAIN logLine
        /\ DOMAIN logLine = LogThreads
    BY <2>1 DEF Reserve, LogInv, LogTypeOK
  <2> HIDE DEF line
  <2>5. /\ logLine'[t] # NoLine /\ logLine'[t].start = start /\ logLine'[t].len = len % PayloadMod
        /\ \A u \in LogThreads \ {t} : logLine'[u] = logLine[u]
    BY <2>3, <2>4
  <2> HIDE DEF start
  <2>6. /\ logWrIdx' = start + len
        /\ logRing' = [i \in DOMAIN logRing |->
                         IF i \in start .. start + len - 1 THEN t ELSE logRing[i]]
        /\ logSince' = [u \in LogThreads |->
                          IF u = t THEN len
                          ELSE IF logLine[u] = NoLine THEN 0
                          ELSE IF logSince[u] + skipped + len > RingSize THEN RingSize + 1
                          ELSE logSince[u] + skipped + len]
    BY <2>1 DEF Reserve, start
  <2>7. DOMAIN logRing = 0 .. RingSize - 1
    BY DEF LogInv, LogTypeOK
  <2> QED
    BY <2>1, <2>5, <2>6, <2>7
<1>2. /\ len \in Nat \ {0} /\ RingSize \in Nat \ {0} /\ PayloadMod \in Nat \ {0}
      /\ logWrIdx \in 0 .. RingSize
  BY LogConstants DEF LogInv, LogTypeOK
<1>3. len % PayloadMod \in Nat /\ len % PayloadMod <= len
  <2> DEFINE q == len \div PayloadMod  r == len % PayloadMod
  <2>1. q \in Nat /\ r \in Nat /\ len = PayloadMod * q + r
    BY <1>2
  <2>2. PayloadMod * q \in Nat
    BY <1>2, <2>1
  <2> DEFINE x == PayloadMod * q
  <2> HIDE DEF q, r, x
  <2>3. r <= len
    BY <1>2, <2>1, <2>2 DEF x
  <2> QED
    BY <2>1, <2>3 DEF r
<1>4. /\ start \in Nat /\ start + len <= RingSize
      /\ start = logWrIdx \/ (start = 0 /\ RingSize - logWrIdx < len)
  BY <1>1, <1>2 DEF StartFor
<1>5. skipped \in Nat
  BY <1>2
<1> HIDE DEF start
<1>6. LineKept(t)'
  <2> DEFINE n == len % PayloadMod
  <2>1. n \in Nat /\ n <= len
    BY <1>3
  <2>2. /\ logLine'[t].start = start /\ logLine'[t].len = n /\ logSince'[t] = len
        /\ logWrIdx' = start + len
    BY <1>1
  <2> HIDE DEF n
  <2>3. n <= len /\ start + n <= RingSize
    BY <1>2, <1>4, <2>1
  <2>4. \A i \in start .. start + n - 1 : logRing'[i] = t
    <3>1. \A i \in start .. start + n - 1 : i \in 0 .. RingSize - 1 /\ i \in start .. start + len - 1
      BY <1>2, <1>4, <2>1
    <3> QED
      BY <1>1, <3>1
  <2> QED
    BY <2>2, <2>3, <2>4 DEF LineKept
<1>7. logWrIdx' # 0
  BY <1>1, <1>2, <1>4
<1>8. ASSUME NEW u \in LogThreads \ {t}, logLine'[u] # NoLine, logSince'[u] <= RingSize
      PROVE  LineKept(u)'
  <2> DEFINE st == logLine[u].start  n == logLine[u].len  s == logSince[u]
  <2>1. /\ st \in Nat /\ n \in Nat /\ s \in Nat /\ logLine[u] # NoLine
        /\ logLine'[u].start = st /\ logLine'[u].len = n
    BY <1>1, <1>8 DEF LogInv, LogTypeOK
  <2>2. /\ logSince'[u] = s + skipped + len /\ s + skipped + len <= RingSize
    BY <1>1, <1>2, <1>5, <1>8, <2>1
  <2>3. s <= RingSize
    BY <1>2, <1>5, <2>1, <2>2
  <2>4. logWrIdx # 0 /\ LineKept(u)
    BY <2>1, <2>3 DEF LogInv, LogLinesInv
  <2>5. /\ n <= s /\ st + n <= RingSize
        /\ logWrIdx = st + s \/ logWrIdx + RingSize = st + s
        /\ \A i \in st .. st + n - 1 : logRing[i] = u
    BY <2>4 DEF LineKept
  <2> HIDE DEF st, n, s
  <2>6. n <= s + skipped + len
    BY <1>2, <1>5, <2>1, <2>5
  <2>7. /\ \/ logWrIdx' = st + (s + skipped + len)
           \/ logWrIdx' + RingSize = st + (s + skipped + len)
        /\ \A i \in st .. st + n - 1 : i \in 0 .. RingSize - 1 /\ i \notin start .. start + len - 1
    <3>1. CASE start = logWrIdx
      <4>1. skipped = 0 /\ logWrIdx' = logWrIdx + len
        BY <1>1, <2>4, <3>1
      <4> HIDE DEF skipped
      <4> QED
        BY <1>2, <2>1, <2>2, <2>4, <2>5, <3>1, <4>1
    <3>2. CASE start = 0 /\ start # logWrIdx
      <4>1. skipped = RingSize - logWrIdx /\ logWrIdx' = len
        BY <1>1, <1>2, <3>2
      <4> HIDE DEF skipped
      <4> QED
        BY <1>2, <2>1, <2>2, <2>4, <2>5, <3>2, <4>1
    <3> QED
      BY <1>4, <3>1, <3>2
  <2> HIDE DEF skipped
  <2>8. \A i \in st .. st + n - 1 : logRing'[i] = u
    BY <1>1, <2>5, <2>7
  <2>9. logLine'[u].start = st /\ logLine'[u].len = n /\ logSince'[u] = s + skipped + len
    BY <2>1, <2>2
  <2> QED
    BY <2>5, <2>6, <2>7, <2>8, <2>9 DEF LineKept
<1>9. ASSUME NEW u \in LogThreads, logLine'[u] # NoLine PROVE logLine'[u].start <= RingSize
  <2>1. CASE u = t
    BY <1>1, <1>2, <1>4, <2>1
  <2>2. CASE u # t
    BY <1>1, <1>9, <2>2 DEF LogInv, LogLinesInv
  <2> QED
    BY <2>1, <2>2
<1> QED
  BY <1>6, <1>7, <1>8, <1>9 DEF LogLinesInv

LEMMA LogNextInv == LogInv /\ [LogNext]_logVars => LogInv'
<1> SUFFICES ASSUME LogInv, [LogNext]_logVars PROVE LogInv'
  OBVIOUS
<1>1. LogTypeOK /\ LogEventsInv /\ LogLinesInv /\ NumFreeEvents \in Nat
  BY LogConstants DEF LogInv
<1>2. ASSUME NEW t \in LogThreads, NEW len \in LineLens, LOG_VPrintf(t, len) PROVE LogInv'
  BY <1>2, ReserveEvents, ReserveLines DEF LogInv
<1>3. ASSUME NEW t \in LogThreads, TimerCbPrint(t) PROVE LogInv'
  <2>1. /\ logLine[t] # NoLine /\ logLine' = [logLine EXCEPT ![t].printed = TRUE]
        /\ UNCHANGED <<logFree, logWrIdx, logRing, logSince>>
    BY <1>3 DEF TimerCbPrint
  <2>2. /\ logLine' \in [LogThreads -> [event : 0 .. NumFreeEvents, start : Nat, len : Nat,
                                        printed : BOOLEAN]]
        /\ \A u \in LogThreads : /\ logLine'[u].event = logLine[u].event
                                 /\ logLine'[u].start = logLine[u].start
                                 /\ logLine'[u].len = logLine[u].len
                                 /\ logLine'[u] = NoLine <=> logLine[u] = NoLine
    <3>1. logLine' \in [LogThreads -> [event : 0 .. NumFreeEvents, start : Nat, len : Nat,
                                       printed : BOOLEAN]]
      BY <1>1, <2>1 DEF LogTypeOK
    <3>2. /\ logLine'[t].event = logLine[t].event /\ logLine'[t].start = logLine[t].start
          /\ logLine'[t].len = logLine[t].len
          /\ \A u \in LogThreads \ {t} : logLine'[u] = logLine[u]
      BY <1>1, <2>1 DEF LogTypeOK
    <3>3. logLine'[t] # NoLine
      BY <1>1, <2>1, <3>2 DEF LogTypeOK, NoLine
    <3> QED
      BY <2>1, <3>1, <3>2, <3>3
  <2>3. \A u \in LogThreads : LineKept(u)' <=> LineKept(u)
    BY <2>1, <2>2 DEF LineKept
  <2>4. LogTypeOK'
    <3>1. \A u \in LogThreads : logLine'[u] = NoLine <=> logLine'[u].event = 0
      BY <1>1, <2>2 DEF LogTypeOK
    <3> QED
      BY <1>1, <2>1, <2>2, <3>1 DEF LogTypeOK
  <2>5. LogEventsInv'
    <3>1. logFree' = logFree /\ \A u \in LogThreads : logLine'[u].event = logLine[u].event
      BY <2>1, <2>2
    <3> QED
      BY <1>1, <3>1 DEF LogEventsInv
  <2>6. LogLinesInv'
    BY <1>1, <2>1, <2>2, <2>3 DEF LogLinesInv
  <2> QED
    BY <2>4, <2>5, <2>6 DEF LogInv
<1>4. ASSUME NEW t \in LogThreads, TimerCbFree(t) PROVE LogInv'
  <2> DEFINE e == logLine[t].event
  <2>1. /\ logLine[t].printed /\ logFree' = Append(logFree, e)
        /\ logLine' = [logLine EXCEPT ![t] = NoLine] /\ logSince' = [logSince EXCEPT ![t] = 0]
        /\ UNCHANGED <<logWrIdx, logRing>>
    BY <1>4 DEF TimerCbFree
  <2>2. e \in Events
    <3>1. logLine[t] # NoLine
      BY <2>1 DEF NoLine
    <3> QED
      BY <1>1, <3>1 DEF LogTypeOK, Events
  <2>3. /\ logLine'[t] = NoLine /\ logLine'[t].event = 0
        /\ \A u \in LogThreads \ {t} : logLine'[u] = logLine[u] /\ logSince'[u] = logSince[u]
    BY <1>1, <2>1 DEF LogTypeOK, NoLine
  <2>4. NoLine \in [event : 0 .. NumFreeEvents, start : Nat, len : Nat, printed : BOOLEAN]
    BY <1>1 DEF NoLine
  <2> HIDE DEF e
  <2>5. LogTypeOK'
    <3>1. logLine' \in [LogThreads -> [event : 0 .. NumFreeEvents, start : Nat, len : Nat,
                                       printed : BOOLEAN]]
      BY <1>1, <2>1, <2>4 DEF LogTypeOK
    <3>2. \A u \in LogThreads : logLine'[u] = NoLine <=> logLine'[u].event = 0
      BY <1>1, <2>3 DEF LogTypeOK
    <3> QED
      BY <1>1, <2>1, <2>2, <3>1, <3>2 DEF LogTypeOK
  <2>6. /\ Len(logFree) \in Nat /\ DOMAIN logFree = 1 .. Len(logFree)
        /\ DOMAIN logFree' = 1 .. Len(logFree) + 1 /\ logFree'[Len(logFree) + 1] = e
        /\ \A i \in 1 .. Len(logFree) : logFree'[i] = logFree[i] /\ logFree[i] # e
    BY <1>1, <2>1, <2>2 DEF LogTypeOK, LogEventsInv, e
  <2>7. LogEventsInv'
    <3>1. \A i, j \in DOMAIN logFree' : i # j => logFree'[i] # logFree'[j]
      BY <1>1, <2>6 DEF LogEventsInv
    <3>2. \A u \in LogThreads \ {t} : logLine[u].event # e
      BY <1>1, <2>2 DEF LogEventsInv, Events, e
    <3>3. \A u \in LogThreads : \A i \in DOMAIN logFree' : logFree'[i] # logLine'[u].event
      <4>1. \A i \in DOMAIN logFree' : logFree'[i] \in Events
        BY <2>5 DEF LogTypeOK
      <4>2. \A i \in DOMAIN logFree' : logFree'[i] # 0
        BY <4>1 DEF Events
      <4>3. ASSUME NEW u \in LogThreads \ {t}, NEW i \in DOMAIN logFree'
            PROVE  logFree'[i] # logLine[u].event
        <5>1. CASE i \in 1 .. Len(logFree)
          BY <1>1, <2>6, <5>1 DEF LogEventsInv
        <5>2. CASE i = Len(logFree) + 1
          BY <2>6, <3>2, <5>2
        <5> QED
          BY <2>6, <5>1, <5>2
      <4> QED
        BY <2>3, <4>2, <4>3
    <3>4. \A u, v \in LogThreads :
            logLine'[u].event # 0 /\ logLine'[v].event = logLine'[u].event => u = v
      BY <1>1, <2>3 DEF LogEventsInv
    <3>5. ASSUME NEW f \in Events
          PROVE  (\E i \in DOMAIN logFree' : logFree'[i] = f)
                 \/ \E u \in LogThreads : logLine'[u].event = f
      <4>1. CASE f = e
        BY <2>6, <4>1
      <4>2. CASE \E i \in DOMAIN logFree : logFree[i] = f
        BY <2>6, <4>2
      <4>3. CASE f # e /\ \E u \in LogThreads : logLine[u].event = f
        BY <2>3, <4>3 DEF e
      <4> QED
        BY <1>1, <4>1, <4>2, <4>3 DEF LogEventsInv
    <3> QED
      BY <3>1, <3>3, <3>4, <3>5 DEF LogEventsInv
  <2>8. LogLinesInv'
    <3>1. \A u \in LogThreads \ {t} : LineKept(u)' <=> LineKept(u)
      BY <2>1, <2>3 DEF LineKept
    <3> QED
      BY <1>1, <2>1, <2>3, <3>1 DEF LogLinesInv
  <2> QED
    BY <2>5, <2>7, <2>8 DEF LogInv
<1>5. CASE UNCHANGED logVars
  BY <1>5 DEF logVars, LogInv, LogTypeOK, LogEventsInv, LogLinesInv, LineKept
<1> QED
  BY <1>2, <1>3, <1>4, <1>5 DEF LogNext

LEMMA LogInvMeans == LogInv => LogEventsConserved /\ LogLinesIntact
<1> SUFFICES ASSUME LogInv PROVE LogEventsConserved /\ LogLinesIntact
  OBVIOUS
<1>1. ASSUME NEW e \in Events
      PROVE  Cardinality({i \in DOMAIN logFree : logFree[i] = e})
               + Cardinality({t \in LogThreads : logLine[t].event = e}) = 1
  <2> DEFINE free == {i \in DOMAIN logFree : logFree[i] = e}
             with == {t \in LogThreads : logLine[t].event = e}
  <2>1. e # 0
    BY DEF Events
  <2>2. CASE \E i \in DOMAIN logFree : logFree[i] = e
    <3>1. PICK i \in DOMAIN logFree : free = {i}
      BY <2>2 DEF LogInv, LogEventsInv
    <3>2. with = {}
      BY <2>2 DEF LogInv, LogEventsInv
    <3> HIDE DEF free, with
    <3>3. Cardinality(free) = 1 /\ Cardinality(with) = 0
      BY <3>1, <3>2, FS_Singleton, FS_EmptySet
    <3> QED
      BY <3>3 DEF free, with
  <2>3. CASE ~ \E i \in DOMAIN logFree : logFree[i] = e
    <3>1. free = {}
      BY <2>3
    <3>2. PICK t \in LogThreads : with = {t}
      BY <2>1, <2>3 DEF LogInv, LogEventsInv
    <3> HIDE DEF free, with
    <3>3. Cardinality(free) = 0 /\ Cardinality(with) = 1
      BY <3>1, <3>2, FS_Singleton, FS_EmptySet
    <3> QED
      BY <3>3 DEF free, with
  <2> QED
    BY <2>2, <2>3
<1>2. ASSUME NEW t \in LogThreads, logLine[t] # NoLine, logSince[t] <= RingSize,
             NEW i \in logLine[t].start .. logLine[t].start + logLine[t].len - 1
      PROVE  i \in DOMAIN logRing /\ logRing[i] = t
  <2>1. LineKept(t) /\ RingSize \in Nat
    BY <1>2, LogConstants DEF LogInv, LogLinesInv
  <2>2. /\ logLine[t].start \in Nat /\ logLine[t].len \in Nat
        /\ DOMAIN logRing = 0 .. RingSize - 1
    BY DEF LogInv, LogTypeOK
  <2> QED
    BY <1>2, <2>1, <2>2, SMTT(30) DEF LineKept
<1> QED
  BY <1>1, <1>2 DEF LogEventsConserved, LogLinesIntact
-----------------------------------------------------------------------------
(* All of them together.                                                   *)

LEMMA ComponentInits ==
  MCInit => /\ Init /\ MemInit /\ RndInit /\ LogInit /\ TiInit /\ TaskInit /\ MxInit
            /\ SlInit /\ WinInit /\ StartupInit /\ SfInit /\ PsInit /\ MmInit /\ TmInit /\ PxInit
BY DEF MCInit

LEMMA UnchangedUpTo ==
  /\ UNCHANGED UpTo14 => UNCHANGED UpTo13 /\ UNCHANGED tmVars
  /\ UNCHANGED UpTo13 => UNCHANGED UpTo12 /\ UNCHANGED mmVars
  /\ UNCHANGED UpTo12 => UNCHANGED UpTo11 /\ UNCHANGED psVars
  /\ UNCHANGED UpTo11 => UNCHANGED UpTo10 /\ UNCHANGED sfVars
  /\ UNCHANGED UpTo10 => UNCHANGED UpTo9 /\ UNCHANGED startupVars
  /\ UNCHANGED UpTo9 => UNCHANGED UpTo8 /\ UNCHANGED winVars
  /\ UNCHANGED UpTo8 => UNCHANGED UpTo7 /\ UNCHANGED slVars
  /\ UNCHANGED UpTo7 => UNCHANGED UpTo6 /\ UNCHANGED mxVars
  /\ UNCHANGED UpTo6 => UNCHANGED UpTo5 /\ UNCHANGED taskVars
  /\ UNCHANGED UpTo5 => UNCHANGED UpTo4 /\ UNCHANGED tiVars
  /\ UNCHANGED UpTo4 => UNCHANGED UpTo3 /\ UNCHANGED logVars
  /\ UNCHANGED UpTo3 => UNCHANGED UpTo2 /\ UNCHANGED rndVars
  /\ UNCHANGED UpTo2 => UNCHANGED UpTo1 /\ UNCHANGED memVars
  /\ UNCHANGED UpTo1 => UNCHANGED vars
BY DEF UpTo1, UpTo2, UpTo3, UpTo4, UpTo5, UpTo6, UpTo7, UpTo8, UpTo9, UpTo10, UpTo11, UpTo12,
       UpTo13, UpTo14

LEMMA UnchangedFrom ==
  /\ UNCHANGED From2 => UNCHANGED From3 /\ UNCHANGED memVars
  /\ UNCHANGED From3 => UNCHANGED From4 /\ UNCHANGED rndVars
  /\ UNCHANGED From4 => UNCHANGED From5 /\ UNCHANGED logVars
  /\ UNCHANGED From5 => UNCHANGED From6 /\ UNCHANGED tiVars
  /\ UNCHANGED From6 => UNCHANGED From7 /\ UNCHANGED taskVars
  /\ UNCHANGED From7 => UNCHANGED From8 /\ UNCHANGED mxVars
  /\ UNCHANGED From8 => UNCHANGED From9 /\ UNCHANGED slVars
  /\ UNCHANGED From9 => UNCHANGED From10 /\ UNCHANGED winVars
  /\ UNCHANGED From10 => UNCHANGED From11 /\ UNCHANGED startupVars
  /\ UNCHANGED From11 => UNCHANGED From12 /\ UNCHANGED sfVars
  /\ UNCHANGED From12 => UNCHANGED From13 /\ UNCHANGED psVars
  /\ UNCHANGED From13 => UNCHANGED From14 /\ UNCHANGED mmVars
  /\ UNCHANGED From14 => UNCHANGED From15 /\ UNCHANGED tmVars
  /\ UNCHANGED From15 => UNCHANGED pxVars
BY DEF From2, From3, From4, From5, From6, From7, From8, From9, From10, From11, From12, From13,
       From14, From15

\* A step of the composition is one component's, and the others stay as they are.
LEMMA ComponentSteps ==
  [MCNext]_MCVars =>
    /\ [Next]_vars /\ [MemNext]_memVars /\ [RndNext]_rndVars /\ [LogNext]_logVars
    /\ [TiNext]_tiVars /\ [TaskNext]_taskVars /\ [MxNext]_mxVars /\ [SlNext]_slVars
    /\ [WinNext]_winVars /\ [StartupNext]_startupVars /\ [SfNext]_sfVars /\ [PsNext]_psVars
    /\ [MmNext]_mmVars /\ [TmNext]_tmVars /\ [PxNext]_pxVars
<1> SUFFICES ASSUME [MCNext]_MCVars
             PROVE  /\ [Next]_vars /\ [MemNext]_memVars /\ [RndNext]_rndVars
                    /\ [LogNext]_logVars /\ [TiNext]_tiVars /\ [TaskNext]_taskVars
                    /\ [MxNext]_mxVars /\ [SlNext]_slVars /\ [WinNext]_winVars
                    /\ [StartupNext]_startupVars /\ [SfNext]_sfVars /\ [PsNext]_psVars
                    /\ [MmNext]_mmVars /\ [TmNext]_tmVars /\ [PxNext]_pxVars
  OBVIOUS
<1>1. CASE UNCHANGED MCVars
  <2>1. UNCHANGED UpTo14 /\ UNCHANGED From15
    BY <1>1 DEF MCVars
  <2> QED
    BY <2>1, UnchangedUpTo, UnchangedFrom
<1>2. CASE MCNext
  BY <1>2, UnchangedUpTo, UnchangedFrom DEF MCNext
<1> QED
  BY <1>1, <1>2

\* What a semaphore is told and tells agrees with what it holds, on POSIX, Windows,
\* FreeRTOS and TI-RTOS, whoever waits and signals: SemaphoresHonest.
THEOREM SemaphoresTellTruth == MCSpec => []SemaphoresHonest
<1> DEFINE I == TypeOK /\ CountInv /\ PsInv /\ TiSemInv
<1>1. MCInit => I
  BY ComponentInits, TypeInit, CountInit, PsInitInv, TiSemInitInv
<1>2. I /\ [MCNext]_MCVars => I'
  BY ComponentSteps, TypeStep, CountStep, PsNextInv, TiSemNextInv
<1>3. TypeOK /\ CountInv => CountNotNegative
  BY CountPositive DEF CountNotNegative
<1>4. I => SemaphoresHonest
  BY <1>3, PsInvMeans, TiSemInvMeans DEF SemaphoresHonest
<1> QED
  BY <1>1, <1>2, <1>4, PTL DEF MCSpec

\* Sleeps, handshake delays, alarms and the simulated clock keep time across the wrap
\* of the millisecond clock, whatever ends a sleep of the system early: TimeKept.
THEOREM ClocksKeepTime == MCSpec => []TimeKept
<1> DEFINE I == SlInv /\ TmInv /\ WinClockInv
<1>1. MCInit => I
  BY ComponentInits, SlInitInv, TmInitInv, WinClockInitInv
<1>2. I /\ [MCNext]_MCVars => I'
  BY ComponentSteps, SlNextInv, TmNextInv, WinClockNextInv
<1>3. I => TimeKept
  BY TmInvMeans, WinClockInvMeans DEF TimeKept, SlInv
<1> QED
  BY <1>1, <1>2, <1>3, PTL DEF MCSpec

\* Blocks of the memory pools, of the heap and of the start-up buffer and the mutexes of
\* mbed TLS are handed out once and taken back where they came from: HandedOutOnce.
THEOREM NothingHandedTwice == MCSpec => []HandedOutOnce
<1> DEFINE I == MemInv /\ StartupInv /\ MmInv
<1>1. MCInit => I
  BY ComponentInits, MemInitInv, StartupInitInv, MmInitInv
<1>2. I /\ [MCNext]_MCVars => I'
  BY ComponentSteps, MemNextInv, StartupNextInv, MmNextInv
<1>3. I => HandedOutOnce
  BY StartupInvMeans DEF HandedOutOnce, MemInv, MmInv
<1> QED
  BY <1>1, <1>2, <1>3, PTL DEF MCSpec

\* No byte made from the old seed is read after a reseed: ReadsUseNewSeed.
THEOREM NewSeedRead == MCSpec => []ReadsUseNewSeed
<1>1. MCInit => RndInv
  BY ComponentInits, RndInitInv
<1>2. RndInv /\ [MCNext]_MCVars => RndInv'
  BY ComponentSteps, RndNextInv
<1>3. RndInv => ReadsUseNewSeed
  BY DEF RndInv, RndSeedInv, ReadsUseNewSeed
<1> QED
  BY <1>1, <1>2, <1>3, PTL DEF MCSpec

\* Threads that share the logger's ring lose no event, and the bytes of a line are its
\* own until the index comes round to them: LogKeepsLines.
THEOREM LogBytesKept == MCSpec => []LogKeepsLines
<1>1. MCInit => LogInv
  BY ComponentInits, LogInitInv
<1>2. LogInv /\ [MCNext]_MCVars => LogInv'
  BY ComponentSteps, LogNextInv
<1>3. LogInv => LogKeepsLines
  BY LogInvMeans DEF LogKeepsLines
<1> QED
  BY <1>1, <1>2, <1>3, PTL DEF MCSpec

\* A task is told its own number, and its object outlives its thread, also when the
\* system gives a thread's id to another: TasksKeepTheirOwn.
THEOREM TasksKnowThemselves == MCSpec => []TasksKeepTheirOwn
<1>1. MCInit => TaskInv
  BY ComponentInits, TaskInitInv
<1>2. TaskInv /\ [MCNext]_MCVars => TaskInv'
  BY ComponentSteps, TaskNextInv
<1>3. TaskInv => TasksKeepTheirOwn
  BY TaskInvMeans DEF TasksKeepTheirOwn
<1> QED
  BY <1>1, <1>2, <1>3, PTL DEF MCSpec

\* One scheduler is built, a trigger names one function, and the memory of a one-shot is
\* held until it has run: FrontConsistent.
THEOREM FrontHolds == MCSpec => []FrontConsistent
<1>1. MCInit => SfInv
  BY ComponentInits, SfInitInv
<1>2. SfInv /\ [MCNext]_MCVars => SfInv'
  BY ComponentSteps, SfNextInv
<1>3. SfInv => FrontConsistent
  BY SfInvMeans DEF FrontConsistent
<1> QED
  BY <1>1, <1>2, <1>3, PTL DEF MCSpec

\* The destructor of a mutex waits until nobody holds it, or ends the program: only who
\* takes it after the destructor's unlock can still have it then.  DestroyedUnheld.
THEOREM DeletedUnheld == MCSpec => DestroyedUnheld
<1>1. MCInit => MxInv
  BY ComponentInits, MxInitInv
<1>2. MxInv /\ [MCNext]_MCVars => MxInv'
  BY ComponentSteps, MxNextInv
<1>3. MxInv /\ [MCNext]_MCVars =>
        [mxPort = "posix" /\ mxState' = "deleted"
           => \/ \E t \in MxThreads : mxPc[t] = "destroy" /\ mxOwner \in {MxNobody, t}
              \/ mxLate]_mxVars
  BY ComponentSteps, MxDeletesFree
<1> QED
  BY <1>1, <1>2, <1>3, PTL DEF MCSpec, DestroyedUnheld
=============================================================================
