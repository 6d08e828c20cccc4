------------------------------- MODULE MCOsal -------------------------------
(***************************************************************************)
(* The parts of the operating system layer, the scheduler's front and the  *)
(* mbed TLS glue, for TLC: each behaviour is one component's, chosen at the *)
(* start, while the others stay in one initial state.  Nothing is composed *)
(* here; the modules are together so that one run explores them all.       *)
(***************************************************************************)
EXTENDS OsalSemaphore, MemPools, OsalRandom, LogRing, OsalTiRtos, OsalTasks, OsalMutex,
        OsalSleep, OsalWin32, OsalStartup, SchedFront, OsalPortSems, MbedMutexes,
        MbedTiming, PosixSection

CONSTANTS a, b, c
MCDelays == {<<0, 0>>, <<1, 3>>, <<2, 2>>}

\* the component that runs
VARIABLE component

MCInit ==
  /\ component \in {"semaphore", "mempools", "random", "log", "tirtos",
                    "tasks", "mutex", "sleep", "win32", "startup",
                    "front", "semaphores", "mbed mutexes", "mbed timing", "section"}
  /\ Init
  /\ MemInit /\ (component # "mempools" => initialized)
  /\ RndInit
  /\ LogInit
  /\ TiInit
  /\ TaskInit /\ (component # "tasks" => taskPort = "posix")
  /\ MxInit /\ (component # "mutex" => mxPort = "posix")
  /\ SlInit /\ (component # "sleep" => slPort = "posix" /\ slMs = 0 /\ slStart = 0)
  /\ WinInit
  /\ StartupInit
  /\ SfInit
  /\ PsInit /\ (component # "semaphores" => psPort = "win32")
  /\ MmInit
  /\ TmInit
  /\ PxInit

\* The variables of the components up to the n-th, and from the n-th on.
UpTo1 == <<vars>>
UpTo2 == <<UpTo1, memVars>>
UpTo3 == <<UpTo2, rndVars>>
UpTo4 == <<UpTo3, logVars>>
UpTo5 == <<UpTo4, tiVars>>
UpTo6 == <<UpTo5, taskVars>>
UpTo7 == <<UpTo6, mxVars>>
UpTo8 == <<UpTo7, slVars>>
UpTo9 == <<UpTo8, winVars>>
UpTo10 == <<UpTo9, startupVars>>
UpTo11 == <<UpTo10, sfVars>>
UpTo12 == <<UpTo11, psVars>>
UpTo13 == <<UpTo12, mmVars>>
UpTo14 == <<UpTo13, tmVars>>
From15 == <<pxVars>>
From14 == <<tmVars, From15>>
From13 == <<mmVars, From14>>
From12 == <<psVars, From13>>
From11 == <<sfVars, From12>>
From10 == <<startupVars, From11>>
From9 == <<winVars, From10>>
From8 == <<slVars, From9>>
From7 == <<mxVars, From8>>
From6 == <<taskVars, From7>>
From5 == <<tiVars, From6>>
From4 == <<logVars, From5>>
From3 == <<rndVars, From4>>
From2 == <<memVars, From3>>

MCNext ==
  /\ UNCHANGED component
  /\ \/ component = "semaphore" /\ Next /\ UNCHANGED <<From2>>
     \/ component = "mempools" /\ MemNext /\ UNCHANGED <<UpTo1, From3>>
     \/ component = "random" /\ RndNext /\ UNCHANGED <<UpTo2, From4>>
     \/ component = "log" /\ LogNext /\ UNCHANGED <<UpTo3, From5>>
     \/ component = "tirtos" /\ TiNext /\ UNCHANGED <<UpTo4, From6>>
     \/ component = "tasks" /\ TaskNext /\ UNCHANGED <<UpTo5, From7>>
     \/ component = "mutex" /\ MxNext /\ UNCHANGED <<UpTo6, From8>>
     \/ component = "sleep" /\ SlNext /\ UNCHANGED <<UpTo7, From9>>
     \/ component = "win32" /\ WinNext /\ UNCHANGED <<UpTo8, From10>>
     \/ component = "startup" /\ StartupNext /\ UNCHANGED <<UpTo9, From11>>
     \/ component = "front" /\ SfNext /\ UNCHANGED <<UpTo10, From12>>
     \/ component = "semaphores" /\ PsNext /\ UNCHANGED <<UpTo11, From13>>
     \/ component = "mbed mutexes" /\ MmNext /\ UNCHANGED <<UpTo12, From14>>
     \/ component = "mbed timing" /\ TmNext /\ UNCHANGED <<UpTo13, From15>>
     \/ component = "section" /\ PxNext /\ UNCHANGED <<UpTo14>>
MCVars == <<component, UpTo14, From15>>
MCSpec == MCInit /\ [][MCNext]_MCVars /\ RndFairness /\ MxFairness

-----------------------------------------------------------------------------
(* Properties of several components that say the same of each.             *)

\* What a semaphore is told and what it tells agree on every system: POSIX counts what
\* it holds, Windows and FreeRTOS report what their semaphores did, and TI-RTOS passes
\* its maximum by no more than the signals under way.
SemaphoresHonest == CountInv /\ CountNotNegative /\ PortCallsHonest /\ TiCountBounded

\* Calls that run against the wrapping clock keep their time: sleeps are not short,
\* a delay is not reported late, an alarm rings, the simulated clock is not fast.
TimeKept == SleepsWholeTime /\ DelayNeverLate /\ AlarmNotLost /\ WinClockNotFast

\* What an allocator hands out it hands out once, and takes back where it came from:
\* memory from pools and heap, from the start-up buffer, and mbed TLS's mutexes.
HandedOutOnce == BlocksOwnedOnce /\ ListedExactly /\ StartupBlocksApart /\ MbedNodesApart

\* The bytes of a log line are its own until it is printed, and its event comes back, from
\* threads that share a ring.
LogKeepsLines == LogEventsConserved /\ LogLinesIntact

\* A task is told its own number for as long as it runs, and the object its thread
\* uses outlives it.
TasksKeepTheirOwn == TaskIdsRight /\ TaskObjectKept

\* The front of the scheduler: one scheduler whoever comes first, a trigger for one
\* function, a one-shot's memory until its callback has run and no longer.
FrontConsistent == SchedulerBuiltOnce /\ TriggersReachOwnFn /\ OneShotsHeld

\* Loops that wait for others come to an end: the timed lock of a mutex, the refilling
\* of the entropy cache, and the loop that holds the lock while it writes entropy.
CallsReturn == TimedLockReturns /\ CacheRefilled /\ RandomLockReleased
=============================================================================
