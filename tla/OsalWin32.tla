----------------------------- MODULE OsalWin32 ------------------------------
(***************************************************************************)
(* The critical section of src/sop_src/osal/osal_win32.cpp, whose owner is *)
(* tested without it, and the simulated clock for test benches: a thread   *)
(* per call of DoHookToHardware counts it on, until its id is out of date. *)
(***************************************************************************)
EXTENDS Integers

CONSTANTS WinThreads,
          WinNone,        \* (DWORD)-1
          WinMaxDepth,    \* bound: nested entries of a thread
          WinMaxTime,     \* bound: the hardware clock, in steps of 10 ms
          WinMaxHooks     \* bound: calls of DoHookToHardware

ASSUME WinAssumption == WinNone \notin WinThreads /\ WinMaxHooks \in Nat

VARIABLES
  winCS,            \* owner of m_CS
  winCSThreadId, winCSRecursion,    \* m_CSThreadId, m_CSRecursion
  winPc,            \* per thread: where in EnterCritical or ExitCritical
  winDepth,         \* per thread: entries not yet left
  winTime,          \* getMs(true)
  winSimulated, winEmulated, winThreadId,   \* mSimulated, mEmulatedHwTicks, mThreadId
  winHook,          \* where in DoHookToHardware its one caller is
  winTickers        \* the threads in ticksTask: id -> clock value it last saw, or -1

winCsVars == <<winCS, winCSThreadId, winCSRecursion, winPc, winDepth>>
winClockVars == <<winTime, winSimulated, winEmulated, winThreadId, winHook, winTickers>>
winVars == <<winCsVars, winClockVars>>

WinInit ==
  /\ winCS = WinNone /\ winCSThreadId = WinNone /\ winCSRecursion = 0
  /\ winPc = [t \in WinThreads |-> "idle"]
  /\ winDepth = [t \in WinThreads |-> 0]
  /\ winTime = 0 /\ winSimulated = FALSE /\ winEmulated = 0
  /\ winThreadId = 0 /\ winHook = "idle"
  /\ winTickers = [i \in 1 .. WinMaxHooks |-> -1]

WinGoto(t, from, to) == winPc[t] = from /\ winPc' = [winPc EXCEPT ![t] = to]

-----------------------------------------------------------------------------
(* EnterCritical and ExitCritical.                                         *)

\* currId != m_CSThreadId, read with no lock; its own id is there to stay.
EnterCriticalTest(t) ==
  /\ winDepth[t] < WinMaxDepth
  /\ IF winCSThreadId # t
     THEN WinGoto(t, "idle", "enter") /\ UNCHANGED <<winCSRecursion, winDepth>>
     ELSE /\ WinGoto(t, "idle", "idle")
          /\ winCSRecursion' = winCSRecursion + 1
          /\ winDepth' = [winDepth EXCEPT ![t] = @ + 1]
  /\ UNCHANGED <<winCS, winCSThreadId, winClockVars>>

EnterCriticalSection(t) ==
  /\ winCS = WinNone
  /\ WinGoto(t, "enter", "setId")
  /\ winCS' = t
  /\ winCSRecursion' = winCSRecursion + 1
  /\ UNCHANGED <<winCSThreadId, winDepth, winClockVars>>

EnterCriticalSetId(t) ==
  /\ WinGoto(t, "setId", "idle")
  /\ winCSThreadId' = t
  /\ winDepth' = [winDepth EXCEPT ![t] = @ + 1]
  /\ UNCHANGED <<winCS, winCSRecursion, winClockVars>>

WinExitCritical(t) ==
  /\ winDepth[t] > 0
  /\ WinGoto(t, "idle", IF winCSRecursion = 1 THEN "clearId" ELSE "idle")
  /\ winCSRecursion' = winCSRecursion - 1
  /\ winDepth' = [winDepth EXCEPT ![t] = @ - 1]
  /\ UNCHANGED <<winCS, winCSThreadId, winClockVars>>

ExitCriticalClearId_Late(t) ==  \* (variant: the section is left first)
  /\ WinGoto(t, "clearId", "leave")
  /\ winCS' = WinNone
  /\ UNCHANGED <<winCSThreadId, winCSRecursion, winDepth, winClockVars>>

ExitCriticalClearId(t) ==
  /\ WinGoto(t, "clearId", "leave")
  /\ winCSThreadId' = WinNone
  /\ UNCHANGED <<winCS, winCSRecursion, winDepth, winClockVars>>

LeaveCriticalSection(t) ==
  /\ WinGoto(t, "leave", "idle")
  /\ winCS' = WinNone
  /\ UNCHANGED <<winCSThreadId, winCSRecursion, winDepth, winClockVars>>

-----------------------------------------------------------------------------
(* TicksGetter.                                                            *)

WinTick ==
  /\ winTime < WinMaxTime
  /\ winTime' = winTime + 1
  /\ UNCHANGED <<winCsVars, winSimulated, winEmulated, winThreadId, winHook, winTickers>>

\* DoHookToHardware when it changes something: mSimulated, then mThreadId ...
DoHookToHardware_KeepId ==  \* (variant: the running thread is not told to end)
  /\ winHook = "idle" /\ winThreadId < WinMaxHooks
  /\ winSimulated' = ~winSimulated
  /\ winThreadId' = IF winSimulated THEN winThreadId ELSE winThreadId + 1
  /\ winHook' = IF winSimulated THEN "idle" ELSE "start"
  /\ UNCHANGED <<winCsVars, winTime, winEmulated, winTickers>>

DoHookToHardware ==
  /\ winHook = "idle" /\ winThreadId < WinMaxHooks
  /\ winSimulated' = ~winSimulated
  /\ winThreadId' = winThreadId + 1
  /\ winHook' = IF winSimulated THEN "idle" ELSE "start"
  /\ UNCHANGED <<winCsVars, winTime, winEmulated, winTickers>>

\* ... then, if it is simulated now, the clock starts and a thread counts it on.
StartTicksTask ==
  /\ winHook = "start"
  /\ winEmulated' = winTime
  /\ winTickers' = [winTickers EXCEPT ![winThreadId] = winTime]
  /\ winHook' = "idle"
  /\ UNCHANGED <<winCsVars, winTime, winSimulated, winThreadId>>

\* One round of ticksTask: it looked at its id before it slept.
TicksTask(i) ==
  /\ winTickers[i] >= 0
  /\ winEmulated' = IF winTime > winTickers[i] THEN winEmulated + 1 ELSE winEmulated
  /\ winTickers' = [winTickers EXCEPT ![i] = IF winThreadId = i THEN winTime ELSE -1]
  /\ UNCHANGED <<winCsVars, winTime, winSimulated, winThreadId, winHook>>

WinNext ==
  \/ \E t \in WinThreads :
       \/ EnterCriticalTest(t) \/ EnterCriticalSection(t) \/ EnterCriticalSetId(t)
       \/ WinExitCritical(t) \/ ExitCriticalClearId(t) \/ LeaveCriticalSection(t)
  \/ WinTick \/ DoHookToHardware \/ StartTicksTask \/ (\E i \in 1 .. WinMaxHooks : TicksTask(i))
WinSpec == WinInit /\ [][WinNext]_winVars

-----------------------------------------------------------------------------
(* Properties.                                                             *)

\* The unlocked test of the owner never lets a thread in beside another, and the
\* recursion count is the depth of the thread inside.
WinCriticalExclusive ==
  /\ \A t, u \in WinThreads : winDepth[t] > 0 /\ winDepth[u] > 0 => t = u
  /\ \A t \in WinThreads : winDepth[t] > 0 => winCSRecursion = winDepth[t] /\ winCS = t

\* The simulated clock is not counted by two threads for longer than the round
\* in which the older one finds out: it is ahead of the hardware by one step for
\* each time it was started again, at most.
WinClockNotFast ==
  winSimulated /\ winHook = "idle" => winEmulated <= winTime + winThreadId \div 2
=============================================================================
