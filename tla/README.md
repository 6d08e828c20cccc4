# A TLA+ verification of the Sweet OSAL platform

This directory holds TLA+ specifications of the Sweet OSAL platform (`src/sop_src`),
model-checking configurations for TLC, and proofs checked by TLAPS. The platform is
a C++ library for embedded and desktop targets: an operating-system abstraction
(threads, mutexes, semaphores, memory pools, time), a cooperative task scheduler on
top of it, and the queues, sockets, logging and utilities that run on the scheduler.

Paths below are relative to `src/sop_src/`. `PROJECT.json` maps every definition to
the lines it stands for, and lists the runs, the code variants used to test the
properties, the findings, the hazards and the theorems.

## 1. Inventory of the system

| component | state | operations | what makes it correct | modelled |
|---|---|---|---|---|
| **TaskSchedPrio**, one priority of the scheduler (`task_sched/task_sched.cpp`) | three intrusive lists (one-shots, timers by time, idle pollers by iteration), pending-event mask, batch queue `mQtl`, flags `mEnabled`/`mChk`, a semaphore with a maximum of 1 | add one-shot / timer / idle poller, cancel, trigger event (thread or interrupt), enable, disable, quit; the thread's `PollTask`, `DoPollEvents`, `DoPoll`, `PollTimed` | no wakeup, event or execution lost; timers in order across clock wraps; a node linked once; everything scheduled is eventually run | TaskSched, SchedLists |
| **TaskRescheduler** (`task_sched/task_rescheduler.cpp`) | bit-field word (`mIsEnabled`, `mIsScheduled`, `mLocks`), `mNextExec`, one schedulable | doReschedule, forceReschedule, disable, enable, cancel, destroy, `OnSchedCallback` on the scheduler's thread | scheduled at most once, never late, never forgotten, unlisted when destroyed unless scheduled meanwhile | TaskRescheduler |
| Scheduler's front: singleton, event table, one-shot wrappers (`task_sched.cpp`) | `mInstPtr`, `mpSchedulers`, `mInterruptEventsAry`, heap blocks of wrappers | inst, AddEventFn, ScheduleFn, ScheduleLambda | one scheduler whoever comes first; a trigger reaches the function it was registered for; a block outlives its callback | SchedFront |
| **BufIO, BufIOQueue** (`buf_io/`) | a transaction's fields, free list, pending list, current and completed transaction per direction | allocate, queue, load, commit, flush, expire, purge, destroy | every transaction is owned by one party and comes back once, in order | BufIOQueue, TransferQueue |
| **UdpClient** (`mini_socket/`) | socket, a BufIOQueue, detached threads | queue write, reader thread, delete | answers are committed to the transaction they were read into | UdpClient |
| **Counting semaphore** (`osal/osal_posix.cpp` 330-445) | a POSIX semaphore, a count of its own, a maximum | wait (for ever, timed), signal(count), create | counts agree; behaves as a bounded counting semaphore; keeps its timeouts | OsalSemaphore, CountingSemaphore |
| Critical sections (`osal_posix.cpp`, `osal_win32.cpp`, `osal_tirtos.cpp`) | lazily built recursive mutex; owner and recursion count; interrupt keys | enter, exit, first use | one thread inside, from the first call on | PosixSection, OsalWin32, OsalTiRtos |
| Mutex, tasks, sleep (all ports) | recursive mutex; map or list of task identities; a clock | lock (timed), unlock, delete; create, end, delete; sleep | not destroyed under who holds it when its deletion begins; timeouts kept; a task knows its own number | OsalMutex, OsalTasks, OsalSleep |
| Semaphores of Windows, FreeRTOS and TI-RTOS | the system's semaphore | wait, signal(count) | what is reported is what was done | OsalPortSems, OsalTiRtos |
| Memory pools (`osal/mempools.cpp`) | free lists per block size, list of allocated blocks, headers, two flags | malloc, free, new, delete | a block has one owner and returns to where it came from | MemPools |
| FreeRTOS start-up memory (`osal/osal_freertos.cpp`) | a buffer that only grows, then the pools | pvPortMalloc, vPortFree | blocks are apart | OsalStartup |
| Random numbers, entropy (`osal/osal_random.cpp`, `osal_entropy.cpp`) | entropy cache, text queue, seed | read, refill from a task, reseed, add text | no byte of an old seed after a reseed; every reader and writer gets through | OsalRandom |
| Logging (`utils/platform_log.cpp`) | ring of bytes, free events | log a line, print it from a timer, dump long texts | a line is printed as it was logged | LogRing, LogSplit |
| ByteQ, WordQ, Q (`utils/byteq.cpp`, `wordq.hpp`, `q.hpp`) | buffer, read and write index, count | write, read, peek, commit, force-write, random access | one producer and one consumer lose and invent nothing | ByteQ, ByteFifo, RingAccess |
| Linked lists (`utils/dl_list.cpp`, `sl_list.cpp`) | links | insert, insert sorted, unlist, move, sort, iterate | the links are those of one sequence | NodeLists, SchedLists |
| Strings (`utils/simple_string.cpp`) | buffer in the object, on the heap or the caller's; length, size | assign, append, compare, search, shorten, trim | holds its text, terminated, wherever it is | SimpleString |
| Conversions, checksums, byte order (`utils/convert_utils.cpp`, `uuid.cpp`, `util_vsnprintf.cpp`, `crc.cpp`, `osal/endian_convert.cpp`) | none | pure functions | what is written one way is read back the other way; nothing beyond the buffer | Dates, HexText, NumberText, Crc, Endian |
| Plotting (`simple_plot/`) | table of waveforms, axes, interpolator's points | add, remove, redraw, gridlines, interpolate | the redraw ends; a curve shows its value in every column | SimplePlot |
| mbed TLS glue (`mbedtls/threading_alt.cpp`, `timing_alt.cpp`) | pool of mutexes, a timer, an alarm | mutex init/free/lock/unlock, delays, alarm | a node has one owner; a delay is never reported late | MbedMutexes, MbedTiming |
| OSAL stubs, plot wrappers, vendored ciphers and configuration, file utilities, enum tables | - | - | - | not modelled (section 7) |

How they interact. Application threads call the scheduler's API; it changes the
lists inside one process-wide task-critical section (`OSALEnterTaskCritical`: on
POSIX a recursive mutex, on FreeRTOS `vTaskSuspendAll`) and wakes the thread of the
priority through its semaphore. The thread collects what is due into a batch under
the lock, and calls the batch's functions without it. Callbacks call the API again:
that is how reschedulers, the log printer, the entropy cache, transaction timeouts
and sockets run. The idle priority has no thread and no semaphore; the main loop
calls `TaskSchedPollIdle`. Interrupt handlers may only trigger events.

What is hard in it. The thread decides to sleep from things it tested earlier, some
of them without the lock; the semaphore is signalled only when a new node lands in
front; a node's links say whether it is scheduled; times are 32-bit milliseconds
compared by signed difference in most places and by plain `<` in others; the batch is
bounded; a batch holds copies of what was listed; destructors run against callbacks;
a detached reader thread outlives its call; every lock depends on a section that is
built by whoever enters it first. `PROJECT.json` lists forty of these hazards, each at
its line, with the properties that cover it; section 6 names those that no property
covers.

## 2. Modules

```
SchedLists ──► TaskSched ──► TaskRescheduler ───► TaskReschedulerProofs
                  ├────────► MCSchedTimers, MCSchedLive
                  └────────► TaskSchedProofs ───► TaskReschedulerProofs
TransferQueue     ◄─(refines)─ BufIOQueue ──► UdpClient ──► UdpClientProofs
CountingSemaphore ◄─(refines)─ OsalSemaphore ──► MCOsal
ByteFifo          ◄─(refines)─ ByteQ ──────────► MCUtils, ByteQProofs
PosixSection, OsalWin32, OsalTiRtos, OsalMutex, OsalTasks, OsalSleep, OsalPortSems,
  OsalStartup, MemPools, OsalRandom, LogRing, SchedFront, MbedMutexes, MbedTiming
  ─► MCOsal ─► OsalProofs
RingAccess ─► MCUtils, ByteQProofs
NodeLists, SimpleString, Dates, SimplePlot, HexText ─► NumberText, Crc, Endian, LogSplit
  ─► MCUtils ─► TextProofs ─► UtilsProofs
NodeLists ─► NodeListsProofs ─► TextProofs
```

### The scheduler

**SchedLists** is the data the scheduler is built from: times modulo `TimeMod` with
the signed difference of `NodeCompareCb`, and a list as a sequence of entries
(`Unlist`, `IsInsertPosition` for `DLL_InsertSorted`, ...). Where equal times may
stand in either order, `IsInsertPosition` gives the position the code gives.

**TaskSched** is one priority. A step is what one thread does between two points
where another could see its effect:

- the polling thread: `CheckRunning`, `TestEnabled` (`PollTask`), `ReadEvents`,
  `ClearEvents`, `RunEvent`, `EventsDone` (`DoPollEvents`), `BeginPoll`, `EnterPoll`,
  `CollectOneShot`, `BeginIterations`, `PollIterations`, `BeginTimers`, `PollTimers`,
  `ExitPoll`, `RunTask` (`DoPoll`, with `PollTimed` as one step per entry unlisted
  and one per entry put back), `Decide`, `TakeToken`, `WaitTimeout` (the wait);
- the API: `AddOneShot`; `StampTimer` then `InsertTimer`, because the execution time
  is computed before the lock is taken; `AddIdlePoller`, `StampIdlePoller`,
  `InsertIdlePoller`; `Cancel` (same context as the callbacks); `TestScheduled` then
  `CancelScheduledTask`, which looks at the node before it locks; `LoadMask` then
  `TriggerEvent`, the two halves of `mask |= bit`; `TriggerEventFromIsr`;
  `EnablePrio`, `DisablePrio`, `Quit` then `CtlSignal`, the flag and the signal;
- `Tick`, a millisecond.

Critical sections whose inside matters hold `lock` over several steps: other threads
cannot enter, but an interrupt handler and code that reads without the lock can.
`IsIdle` chooses between a priority with a thread and the idle priority.
**MCSchedTimers** and **MCSchedLive** take two instances of TaskSched with other constants
each and let a behaviour be one of the two.

**TaskRescheduler** extends it with one rescheduler over the schedulable `Self`. Each
method holds the lock throughout and is one step; `OnSchedCallback` is split into
`EnterCallback`, `LockCallback`, `DecideCallback`, `UnlockCallback`, `CallApp`, and the
destructor into `LoadFlags`, `StoreFlags`, `EndDestroy`, because it writes one
bit-field of the shared word without the lock. Methods are called by anybody while the object
lives, and by the function that `OnSchedCallback` calls also while it is being destroyed; `undone`
records that what `StoreFlags` stored unscheduled a task scheduled since `LoadFlags`. `OtherPoller` and `OtherCall` are
the rest of the scheduler, with competing work in the same lists.

**SchedFront** is what lies in front of the priorities: `TaskScheduler::inst` in its steps
(`InstTest` without the lock, `InstEnter`, `InstTestAgain`, the constructor's
`CtorPublish`, `CtorFill`, `CtorStart`, `InstLeave`), `AddEventFn` with its trigger numbers
and re-installation, and the one-shots whose block `ScheduleFn` and `ScheduleLambda`
allocate and `ScheduleFnCb` frees.

### Transactions and sockets

**BufIOQueue** has one action per critical section: `MallocWithPayload`,
`AllocAndInitTransaction`, `FreeTransaction`, `Queue`, the driver's load, transfer and
commit (`Driver`), `PurgeOldMessages` with its unlocked test of the current transaction,
`FlushActive` (`PurgeStep` for both), `Write`, `Destroy`. Callbacks and tests outside the sections are steps of
their own. **TransferQueue** is what the header promises: a submitted transaction is
owned by the queue, starts in the order of submission, and is handed back exactly once.
BufIOQueue implements it, seen through `Contract` in UdpClient.

**UdpClient** is the class that inherits from it: `UdpQueueWrite` detaches a reader that
loads the current receive transaction, waits, and commits (`ReaderStep`); `Lose` drops a
datagram, and a receive may time out. A system is a serial device with a driver per
direction, or a socket. The purges and flushes (`PurgeNext`) are public functions of either, and
`PurgedDevices` says on which of them the application calls them; they may run at any moment of a
driver or of a reader, one at a time.

### The operating system layer

**OsalSemaphore** is `posix_OsalCntSem`: `WaitForever`/`SemWait`, `WaitTimed` /
`TryWait` / `EndSleep` / `GiveUp` (the 2 ms polling loop), `Account` (`--mCnt` in the
critical section), `BeginSignal` / `Post` / `EndSignal` (the loop of `sem_post`).
**CountingSemaphore** is what `osal.h` promises of it: `Acquire`, `Release` up to the
maximum with the truth about what was dropped, `TimeOut` only for a timed wait.
OsalSemaphore implements it under the mapping at its end: the abstract
tokens are `mCnt`, or, while a signal is in its loop, what `mCnt` was before it,
less what waits counted off since; a wait takes effect when it counts, a signal when
it leaves the critical section.

**PosixSection** is `OSAL::inst` and `OSALEnterCritical`: test, lock, test again, build,
assign the pointer, unlock, then the recursive mutex, entered and left. **OsalWin32** is
the Windows section (owner tested without it, then entered, id set, and the reverse) and
the simulated clock (`DoHookToHardware` starts a thread per call, which counts until its
id is out of date). **OsalTiRtos** builds a recursive mutex of a binary semaphore and
unprotected owner fields, one step per field; a counting semaphore with a maximum of its
own; and the stack of interrupt keys.

**OsalMutex** is lock with and without timeout (`MxPoll` is one round of the polling
loop), unlock, and delete, whose POSIX and Windows destructors lock, unlock and only then
destroy, in three steps between which others may take the mutex (`mxLate` records that somebody
took it after the unlock); FreeRTOS takes the recursive semaphore of the system. **OsalTasks** is creation on four systems, the start of the
thread (which adds itself to the map or list), its end, deletion with or without
joining, and `OSALGetCurrentTaskID`; thread ids are used again. **OsalSleep** is the sleep
loops over a system sleep that may end early. **OsalPortSems** is the semaphores of
Windows and FreeRTOS. **OsalStartup** is `pvPortMalloc` before and after the switch from
the start-up buffer to the pools.

**MemPools** is allocation from pool or heap, header and list of allocated blocks, release in
three steps (`FreeUnlist`, `FreeRelease`, `FreeAgain`), and `operator new`/`delete` under their
flags. **OsalRandom** is the cache: `OsalRegenEntropyTask` refills it, `ReadBegin` /
`ReadIteration` / `ReadEnd` takes from it, `Serialize` and `Deserialize` reseed, `WriteText`
adds text with `WriteTextIteration` in a lock kept through the loop. A byte is the seed it was
made under. **LogRing** is `LOG_VPrintf` reserving an event and room under the lock, and
`TimerCbPrint`, `TimerCbFree` outside of it.

**MbedMutexes** and **MbedTiming** are the glue: mutexes as nodes of a pool, `free` clearing the
owner's pointer only after the section; timers and the alarm on the wrapping clock.

### Utilities

**ByteQ** is the ring buffer of `byteq.cpp` between one writer and the readers: a write
is `BeginWrite` (the test for room, unlocked) or `BeginFill` (a caller that fills the
buffer itself), `CopyIn`, `LoadWrCount`, `StoreWrCount`; a read is `Read`, `Peek` or
`CommitRead` (index and count, unlocked), `CopyOut`, `LoadRdCount`, `StoreRdCount`, or
`CopyPeek`. The count's load and store are two steps because `nCount = nCount + n` is;
`WrCntProt` and `RdCntProt` hold `crit` over them. `ForceWrite` and `Flush` change both
sides and are one step, enabled while nobody else is under way.
**ByteFifo** is what the queue promises: a write or a read has a beginning, where it is
decided how much fits or is there, and an end, where it takes effect. ByteQ implements it
with the bytes from the reader's index on, or from where it stood before a read that
has still to be counted off, as content.

The others are sequential, and their behaviours are sequences of calls next to a reference:

| module | operations | reference |
|---|---|---|
| RingAccess | forced writes, `ByteQSetRdIdxFromPointer`, peek, poke and read from the end, `WordQ` items | the last bytes written, as a sequence |
| NodeLists | every function of both lists, on `next` and `prev` of nodes and dummy node | a sequence per list |
| SimpleString | assign, append, `push_back`, `setChar`, compare, `index_of`, resize, trim | the text |
| Dates | timestamp to date, to text, and back | a calendar that goes from day to day by the Gregorian rules |
| HexText, NumberText | bytes and text both ways, UUIDs, numbers, `util_vsnprintf` | the input again; the size of the buffer |
| Crc | the three sums, at once and continued, from the code's own tables | the bitwise sum, and sums of pieces |
| Endian | every conversion on both hosts | the order of the bytes |
| LogSplit | how dumps and long texts are cut | the text in pieces |
| SimplePlot | table and redraw, curves, lines through points, gridlines | what was added |

Definitions marked `(variant: ...)` are not part of the specifications: each is a
plausible slip in the definition that follows it, and a property is kept only
if some variant breaks it under the property's own configuration. Each named part of a
property that is a conjunction has a variant too.

### Abstractions

- *One priority.* Priorities share the critical section and nothing else; other
  priorities would only hold the lock.
- *Callbacks* are the API calls made while the polling thread is in `run` or
  `runEvents`. The model lets any client make them at any time, callbacks included,
  and `Cancel`, which is only allowed in the schedulable's own context, only
  there. That is slightly more than "inside a callback".
- *Clients respect the API.* A node is not added while it is linked or another thread
  is adding it (the code asserts it is not linked). A UDP client is deleted by an
  application that has everything back and no reader alive. A mutex is unlocked by its holder,
  and one thread deletes it. Nobody calls a method of a rescheduler that is being destroyed but the
  function its callback is running, and that only until the destructor has returned.
- *Time.* The clock wraps at a small `TimeMod`. `MaxLag` says how late a thread may be:
  without it a clock value could be overtaken by half the clock's range (24.8 days in
  the code), where signed differences mean nothing. `SchedAssumption` requires
  periods, offsets and lags to fit into that half range, as they must in the code, next to
  one millisecond for each schedulable: when batches are full, that is how much later
  than `MaxLag` the last of the timers that wait for a pass may be.
- A rescheduler method reads the clock twice; both readings are taken to fall into one
  millisecond.
- `mLastTimerProcessTime` matters only while it equals the current time: older values
  are `NULL`. `mIterationsCounter` is counted only for the idle priority, the only
  one that reads it.
- In ByteQ, a copy and the move of the index behind it are one step: until the count is
  changed the other side does not touch those cells, which is what `IndexInv` and `DataInv`
  say. `ForceWrite` and `Flush` rely on their caller to keep others out, as
  `osal_random.cpp` does; `unsigned int` has `UIntMod` values.
- A transaction's payload is its length; a log line its length and its thread, and
  `logSince` how far the ring's index has gone on since the line's start; a byte of
  the entropy cache the seed it came from; a character a number. Doubles are integers or exact
  fractions.
- Stores and loads are seen in program order; plain pointers tested outside a lock do not
  guarantee that on every processor.
- External, and modelled from their use: POSIX, Windows, FreeRTOS and TI-RTOS primitives,
  the recursive mutex of the C++ library, thread functions, the hash and generator
  of mbed TLS.
- Not in the models: debug bookkeeping (`TASK_SCHED_DBG`), the execution
  statistics, and the single-task build.

## 3. Runs

`tlc -workers 2 -config <cfg> <module>`; each finishes in about three minutes or less.

| run | question | bounds |
|---|---|---|
| `sched_timers` | Do the lists keep nodes once and in order, does the thread sleep no longer than its earliest timer, and do periodic timers come back in the future? A priority with a thread, or the idle one. | 2 nodes, 1 event, batch of 2, clock of 14; with a thread: one-shots, timers, cancels, interrupts, periods and offsets 0/1; idle: timers and pollers, 1 iteration interval |
| `sched_live` | Does what the thread tested before it waits stay so, or leave a token? Is every event kept and taken up, does quit end the thread, does collecting lose or repeat an execution when the batch is full, is everything served? | batch of 1, clock of 12; 1 node with 2 events (two triggers in their load and store), enable, disable, quit; or 2 nodes with one-shots and timers |
| `resched` | Does `mIsScheduled` tell the truth, is a rescheduler scheduled in time, does it run, is its node unlisted when it is destroyed? | rescheduler and 1 one-shot node, delays 0/1, batch of 2, clock of 10 |
| `bufio` | Has each transaction one owner, is expiry exact, is an answer committed to its own transaction, does the queue keep its contract, does every transaction come back? | 1 transaction from the heap and 1 from an array, length 2, timeouts 1 and none, half the clock's range 2; a serial driver or a socket with a reader, 1 request at a time, either with a thread that purges and flushes |
| `osal` | Exclusion, counts, ownership, timeouts and progress of fifteen parts of the operating system layer (below) | below |
| `utils` | Do the structures hold what was put into them, and do the conversions agree with their references? | below |
| `isr_events` | *violated*: events triggered from an interrupt are kept | 1 event |
| `idle_starvation` | *violated*: an idle poller left over is run next time | 2 pollers, batch of 1 |
| `resched_destroy` | *violated*: the assertions on `mLocks` | 1 rescheduler |
| `sem_wrap` | *violated*: a timed wait keeps its time across the clock's wrap | 1 thread, clock of 8 |
| `byteq_readers` | *violated*: with two readers the count stays within the buffer | buffer of 3, blocks of 1 |
| `udp_readers` | *violated*: a transaction handed back is not written to | as `bufio`, 2 readers and requests in flight; nobody purges or flushes the socket |

`osal` and `utils` are disjoint unions: a behaviour belongs to one component, chosen
in the initial state (`component`), while the variables of the others stand still. Nothing is
composed there; the components share no state in the code either, apart from the lock
that each of their steps stands for.

What the properties say, where the name does not:

- `ListsInOrder` (`LinkedOnce`, `TimersSorted`); `WakeInv` (section 5); `CollectKeepsExecutions`:
  between the lists and the batch no execution vanishes or doubles; `AllServed` (`EventRuns`,
  `OneShotRuns`, `TimerRuns`, `QuitStops`): whatever is triggered or scheduled is taken up, and
  a thread that is told to quit ends.
- `OwnedOnce`: a transaction is in one list, current, or in one hand; `CommitsOwn`: a reader commits
  the transaction it has received into, or none once that was purged or flushed; `BufferOwned` (in
  `udp_readers`): what a reader writes to is not handed back; `ExpiryExact`: a transaction expires when its time is up and not
  before, across wraps; `EventuallyReturned`: each comes back.
- `SemaphoresHonest` (`CountInv`, `CountNotNegative`, `PortCallsHonest`, `TiCountBounded`);
  `SectionExclusive`, `WinCriticalExclusive`, `TiMutexExclusive`: one thread inside;
  `DestroyedUnheld`: a POSIX mutex is not destroyed under who held it while the destructor waited; `TimeKept`
  (`SleepsWholeTime`, `DelayNeverLate`, `AlarmNotLost`, `WinClockNotFast`); `HandedOutOnce`
  (`BlocksOwnedOnce`, `ListedExactly`, `StartupBlocksApart`, `MbedNodesApart`); `ReadsUseNewSeed`: a
  read that begins after a reseed has no byte from before; `LogKeepsLines`
  (`LogEventsConserved`, `LogLinesIntact`, which says for how long a line is safe in the ring);
  `TasksKeepTheirOwn` (`TaskIdsRight`, `TaskObjectKept`); `FrontConsistent`
  (`SchedulerBuiltOnce`, `TriggersReachOwnFn`, `OneShotsHeld`); `CallsReturn` (`TimedLockReturns`,
  `CacheRefilled`, `RandomLockReleased`).
- `RingHoldsLast`: a ring keeps the last bytes that fit, from every view of it;
  `ListsHoldSequences` (`DllHoldsSequence`, `SllHoldsSequence`); `StringsHoldText`
  (`StringHoldsText`, `StringAnswers`, `OneBlockPerHeapString`); `DatesRight`
  (`DatesFollowCalendar`, `DatesConvertBack`); `CodesReadBack` (`HexReadsBack`, `NumbersReadBack`,
  `BytesInOrder`, `CrcSumsAgree`); `TextFits` (`HexStaysInBuffer`, `VsnprintfCutsOff`,
  `LinesHoldText`); `PlotShows` (`RedrawDrawsEach`, `CurveInEveryColumn`, `InterpHitsPoints`,
  `GridLinesRight`); `RedrawReturns`: a redraw comes to an end.

### Bounds, and why they show something

Two nodes give every relative order of two entries,
a node in front and behind, and a full batch (1) with something left over; in
`sched_timers` the batch of 2 lets both be collected while one is put back. A clock of 12
or 14 with lags and periods of 1 or 2 wraps within every behaviour, and the half range
(6 or 7) lies beyond every legal difference, as in the code. Two events are
needed for two read-modify-writes to overlap.

In `bufio` two transactions of two origins are one current and one pending; a half range
of 2 lets the clock pass an expiry and wrap past it. A purge or a flush meets the driver or the
reader in each of its steps; of more datagrams on their way than there are readers one is lost.

In `osal`: three threads on the POSIX semaphore let two waits and a
signal meet between taking a unit and counting it, and counts up to the maximum of 2
overshoot it; three threads race for the POSIX section, two levels deep; two
threads or tasks are enough elsewhere, since owner tests, reservations and hand-overs are
between two. Two pool blocks and one on the heap exhaust the pool. The entropy cache (3)
and its text queue (3) hold neither a whole number of blocks (2) nor of reads (1, 4), so they
fill, run dry and split. The log ring (6 bytes, lines of 1 to 4) wraps
inside a line, and a length kept modulo 3 loses the longest. Three
tasks share two thread ids, so that one is used again. Mutexes time out at once or
after two polls, sleeps last 0, 1 or 3 of a clock of 16 that starts near its wrap. Two
slots for events and two triggers fill the table.

In `utils`: a block can fit a ByteQ of 2, not fit, go round the end, fill the buffer
exactly and, forced, exceed it; three nodes go between two lists; strings of up to 5 leave
their first buffer (2) and grow twice; dates are all days until 2099, at their first and
last second; buffers of 1 to 9 cut three bytes of hexadecimal with delimiters of 0 to 2 at every
place; numbers are 16 bits wide, at every boundary of sign, digits and width; sums run over up to
4 bytes; widths are 2, 4 and 8; lines are 0 to 8 long.

Symmetry is used on the nodes of `sched_timers` only, which is a safety run and treats them alike.

Every run is checked for deadlock except `osal` and `utils`: threads may wait
for ever on an empty semaphore or a mutex, the clocks stop at their bounds (`StopTime`, the hook
bound of the simulated clock), and the sleeps, the calendar, the checksums and the cut texts come to their end.
`StopTime` exists because past the wrap `TimedWaitKeepsTime` is false - `sem_wrap`
shows that.

### Fairness

Liveness is checked under fairness that the code's scheduling gives:

- strong fairness of the polling thread and of a client that waits to insert: each
  competes for a mutex that others take and release, so its step is enabled again
  and again, not continuously; the mutex must let a waiter in;
- weak fairness of steps that finish what a thread has begun while nothing can block it:
  `TriggerEvent` (holds the lock), `CtlSignal` (the signal after a flag), `StoreFlags`;
- strong fairness of `EndDestroy`, the destructor waiting for the lock;
- weak fairness of `Tick`: time passes. It never forces a thread to be late: `MaxLag`
  blocks it, and the thread's own fairness unblocks it;
- BufIOQueue and UdpClient: weak fairness of a driver that has something to move, of a
  reader thread (its receive has a timeout), and of a purge or flush that has begun;
- OsalRandom: strong fairness of the rescheduled refill task and of a reader's iterations, which
  compete for the task critical section; weak fairness of the loop that keeps it and of a read that ends;
- OsalMutex: weak fairness of the polling loop of a timed lock, which sleeps between its polls;
- SimplePlot: weak fairness of the redraw loop.

No client has to call anything, and no one is assumed to stop calling. Where that can
starve something the property says so: `TimerRuns` excepts batches filled with one-shots
for ever, `ReschedRuns` a task put off by `forceReschedule` for ever, `EventRuns`
and `OneShotRuns` a priority that is disabled or quit.

## 4. Findings

1. **Events from an interrupt handler can be lost** (`isr_events`, `task_sched.cpp:446`).
   `DoPollEvents` copies and then clears the mask in a section that on FreeRTOS
   suspends tasks, not interrupts. `task_sched.h:242` calls it safe.
2. **Idle pollers can starve each other and all timers** (`idle_starvation`,
   `task_sched.cpp:366`). Every-iteration pollers stay at the front of the list each
   pass starts from, so a batch full of them hides the rest for ever.
3. **The rescheduler's destructor overwrites the lock count** (`resched_destroy`,
   `task_rescheduler.cpp:37`): an unlocked write to a bit-field whose word the
   callback changes under the lock. The same write can undo the `mIsScheduled` of a
   `doReschedule` that the callback's function makes between its load and its store; the
   destructor then leaves the node of the dead object in its list. `DestroyedIsUnlisted` excepts
   that case, which `undone` tells apart.
4. **Timed semaphore waits are wrong across the clock's wrap** (`sem_wrap`,
   `osal_posix.cpp:402`): an unsigned `<` where the mutex uses the signed difference.
5. **A ByteQ has room for one reader only** (`byteq_readers`, `byteq.cpp:221`): lengths and
   indices are read before the lock, so two readers take the same bytes and the
   count wraps below zero, although the comment above `ByteQRead` allows several.
6. **Two UDP requests in flight share a receive buffer** (`udp_readers`,
   `mini_socket.cpp:134`): each request detaches a reader, and the second loads the
   transaction the first is already receiving into; it still writes to it after the first has
   handed it back, although `buf_io_queue.hpp:41` says that the callback gives ownership back.
   One reader is enough if the application purges or flushes: `FlushActiveTransaction` hands the
   receive transaction back while the reader is in `recvfrom` on its buffer
   (`mini_socket.cpp:137`). `BufferOwned` fails on a purged socket with one request, too; what
   holds there is `CommitsOwn`.

## 5. Proofs

TLAPS proves every safety property of every passing run - all invariants, all action properties,
the three refinements - for every value of the constants that meets the stated assumptions.
Each assumption is evaluated by TLC in the runs above and says something the code's types or
tables give: `TimeModAssumption`, `SchedAssumption` (periods, offsets and lags within half the
clock, a batch of at least one, finitely many schedulables, `NULL` none of them and no time),
`ReschedAssumption` (delays likewise; the rescheduler adds its timers with period 0),
`SemAssumption`, `TransAssumption`, `TimeAssumption` (timeouts below half the clock's range),
`ReadersAssumption`, `ByteQAssumption`, `RingAssumption` (a ring of whole items), and one per
part of the operating system layer (`PxAssumption`, `WinAssumption`, `TiAssumption`,
`TaskAssumption`, `SlAssumption`, `PsAssumption`, `StartupAssumption`, `MemAssumption`,
`RndAssumption`, `LogAssumption`, `SfAssumption`, `MxAssumption`, `MmAssumption`, `TmAssumption`):
sizes are natural numbers, null values are not objects, sleeps and delays fit into the clock. The
utilities have

- `ListsAssumption`: nodes and dummy nodes are different objects, finitely many; the callback
  compares numbers;
- `StringAssumption`: texts are texts, the buffer in the object has a size;
- `YearsAssumption`, `SecondsAssumption`: no year after 2099 (section 6), seconds of a day;
- `HexAssumption`: bytes are bytes, no delimiter holds a digit, a buffer passed to
  `CNV_convertArrayToHexWithColons` has at most 256 of them because the code keeps the size in eight
  bits, a UUID has whole bytes;
- `NumAssumption`: numbers are 16 bits wide, buffers for numbers have room for the text of
  one digit; `SplitAssumption`: lines have a length;
- `CrcAssumption`: bytes have eight bits; `EndianAssumption`: there are two orders;
- `SpAssumption`: ids of waveforms are not negative (section 6), the screen has rows, the axes a
  length, and a waveform is `fMinX`, `fMaxX`, the places at which `GetYValue` succeeds and what it
  answers there, with no assumption on how these go together; `LiAssumption`: coordinates are integers; `GdAssumption`: units are positive,
  and the powers that are looked through (`GdExponents`) go beyond the axis.

Some theorems have a hypothesis beyond those. Each is one the code leaves to its user, and a run
or the remark beside it shows what happens without it:

| theorem | hypothesis | without it |
|---|---|---|
| `EventsKept` | no trigger comes from an interrupt handler | `isr_events` |
| `UdpCommitsOwn` | one request in flight | `udp_readers` |
| `IndicesCorrect`, `BytesCorrect`, `Implements` of ByteQ | `OneReader`: one reader, and both changes of the count protected | `byteq_readers` |
| `ListsKeptInOrder` | on the idle priority, a batch with room for all pollers | below |
| `ListsHold` | `~AfterLast`: `SLL_NodeInsertAfter` is not called for the last node | section 6 |

`CodesAreRead` holds of delimited text only when the delimiters fit (`DelimFits` in
`HexReadsBack`): `CNV_BinToHexDelimStr` takes the length of the last one off the length of the
text without asking whether it is longer.

### TaskSchedProofs

`TypeCorrect` establishes `TypeOK`: one lemma per operator on lists and times (what `Unlist`,
insertion, removal, `FirstNode`, `PollTimed` return), then one step per action.

*Wakeups.* `WakeupSafe` establishes `NoLostWakeup`. That formula speaks only of a blocked
thread, so it is not inductive: what matters is what the thread tested on its way there.
`WakeInv` says, per condition the thread tests (quit, enabled, events, one-shots, timers), that
between the test and the wait the condition stands as tested or a token is in the semaphore.
Every API call that makes a condition true signals in the same step or (`ctl = "signal"`) has
yet to; a node that does not land in front does not signal, but then the list was not empty, and
the thread does not wait without limit on a non-empty list. `WakeupsKept` states that `WakeInv`
always holds, and `WakeupSafe` follows. `sched_live` checks `WakeInv` on a small instance. The
idle priority is covered by `IdleHasNoThread`.

*Places.* `ListedOnce` establishes `LinkedOnce`. The invariant is `OrderInv`: `ControlInv` (who
holds the lock at which step), `PlacesInv` (the three lists, the entry that `PollTimed` has in
its hand, and the entries stamped and not yet inserted share no schedulable), `QueueInv` (what a
pass has queued for its batch it does not meet again: queued entries still listed are no longer
due, and the iterator of the one-shots is behind them) and `PeriodsInv`. Two more theorems are
action properties over it. `CollectSafe` establishes `CollectKeepsExecutions`: for each
schedulable the executions it is owed, over lists, hand and queue, are the same before and after
every step of `DoPoll`, also when the batch is full. `PeriodicsGoOn` establishes
`PeriodicStaysScheduled`.

*Events.* `EventsKept` establishes `NoEventLost` from `MaskInv`: between a load of the mask and
its store nobody else stores, since each of them holds the lock - interrupt handlers do not.

*Time.* `TimersInOrder` says that the timers are in the order of execution. Order by signed
difference is no order at all unless all times lie within half the clock of one another, so
sortedness alone is not inductive. `WindowInv` says where they lie: by `TimersFit` a timer at
position i that is later than `MaxLag` is so by a number of milliseconds that falls with i,
because each millisecond takes at least one timer from the front, and `Slack` says whether this
millisecond's has been taken yet. From it and `WaitInv` (the end of a wait, `WaitEnd`, comes no
later than any listed timer while there is no token) follows `EarliestCovered`.
`ListsKeptInOrder` adds the pollers of the idle priority: `IterationsInv` is `WindowInv` with
the iteration counter for a clock. Its hypothesis came out of the proof. The counter advances
with each pass, however little of the list the pass can serve; idle one-shots that come again in
every pass and fill every batch hold up the pollers behind them, and once the counter has
wrapped around those, the list is no longer sorted. `idle_starvation` shows the same weakness,
before the wrap.

### TaskReschedulerProofs

`ReschedKeepsScheduler` shows that the scheduler keeps its promises with a rescheduler among its
callers, one step per method reusing the lemmas on insertion and removal. On top of `OrderInv`
and `WakeInv` the invariant has `CallbackInv` (the callback holds the lock from `LockCallback`
to `UnlockCallback`, and a pass's queue is empty outside of a pass), `SoloInv` (the only timer
is the rescheduler's, and for `mNextExec`) and `ScheduledInv`: a listed node counts as scheduled,
unless the destructor's store has undone that, and a living
object that counts as scheduled is listed, queued or on its way through the callback.
`ScheduledTold` (`ScheduledIsTrue`) and `DestroyedUnlisted` (`DestroyedIsUnlisted`) are its two
halves; that the store can undo a lock count (`resched_destroy`) does not disturb them. `ReschedulesSoon` (`ReschedulesInTime`) needs `SoloInv`.

### UdpClientProofs

`UdpInv` covers both kinds of driver: `HandsInv` (a transaction is in one hand - a list,
current, a driver, a purger, a reader, the pool - exactly when its `place` says the queue or the
pool has it), `ListsInv` (no list has a member twice), `ThreadsInv`, `TransferInv` (what the
driver moves and what is done make up the length) and `ExpiryInv`. `UdpOwnedOnce` follows from
`HandsInv`. `UdpExpiryExact` needs that the stamp of a waiting transaction is `left` ahead of
the clock, up to one turn of it. `UdpCommitsOwn` adds `OneReaderInv`: the one reader there is
waits for the current transaction, or that has been flushed and there is none until the next
reader loads one. `UdpKeepsContract` shows that `BufIOQueue` implements
`TransferQueue`: the abstract pending list is the concrete one behind the current transaction,
what is ending is what the queue has in neither place, and the calls with a loop of removals
(`PurgeOldMessages`) map to one `Cancel`. Both modules say what remains after removing a set by
`Without`/`IsWithout`, an increasing selection of the positions, and not by `SelectSeq`, about
which nothing can be shown without induction.

### OsalProofs

*The counting semaphore.* `CountsCorrect` establishes `CountInv`: the POSIX semaphore's value plus the number of threads
that have taken a unit and not counted it is `mCnt`, which stays within the maximum. The four
`...Accounting` lemmas say how that number changes when one thread's program counter does.
`AssertionHolds`: `isGteZero` is true where it is asserted, since a thread about to count is one
of those counted. `Implements` shows that every step maps to a step or a stutter of
`CountingSemaphore`; it needs `CountInv` and `CallsRemembered`.

*The rest of the layer.* One inductive invariant for each part of the layer, with a lemma for its initial states and one
for its steps. Three ports build mutual exclusion themselves, each with a test outside its lock.
`PosixSectionExcludes`: `PxInv` says who may build the object (the holder of its lock, and only
while the pointer is null), that nobody is past the lock before the object is complete, and that
the mutex is as deep as its owner is inside. `WinSectionExcludes`: `WinInv` says that the owner
field names a thread only while that thread is inside, so that the unlocked test is true for
oneself or not at all. `TiMutexExcludes`: `TiInv` says the same of the two fields `owned` and
`owner`, which are set and cleared in separate steps, with the binary semaphore taken
throughout.

The other theorems are stated over `MCSpec`, whose behaviours are each one part's.
`ComponentInits` and `ComponentSteps` (an initial state of `MCInit` is one of every part, a step
of `MCNext` a step or a stutter of every part) carry the parts' invariants there:

- `SemaphoresTellTruth` (`SemaphoresHonest`), from `CountInv`, `PsInv` and `TiSemInv`;
- `ClocksKeepTime` (`TimeKept`): `SlInv`; `TmInv` (the timer's start and what has passed are
  where the clock is); `WinClockInv` (each start of the simulated clock leaves at most one
  thread with a stale id, which counts once more);
- `NothingHandedTwice` (`HandedOutOnce`): `MemInv` (the magic number stands on a block exactly
  while it is out or being handed over), `StartupInv`, `MmInv`;
- `NewSeedRead` (`ReadsUseNewSeed`): `RndInv`; all that is cached was made under the seed in
  force;
- `LogBytesKept` (`LogKeepsLines`): `LogInv`; an event is free or one thread's, and a line's
  bytes are its own until the index has come round to its start;
- `TasksKnowThemselves` (`TasksKeepTheirOwn`): `TaskInv`; living tasks are on threads of their
  own, and the map's entry for a thread is the task on it;
- `FrontHolds` (`FrontConsistent`): `SfInv`, of `BuildInv` (with the argument of `PxInv`),
  `SlotInv`, `ShotInv`;
- `DeletedUnheld` (`DestroyedUnheld`), an action property: `MxInv`; one thread deletes, it holds the
  mutex between its lock and its unlock, and who has it after that took it from nobody.

### ByteQProofs

`IndicesCorrect` establishes `TypeOK` and `IndexInv`, which is inductive: the bytes between the
indices are those counted, plus those copied in and not counted yet, less those taken out and
still counted; and what either side tested without a lock still holds, because the other side
can only improve it. Writer, reader, forced write and flush have a lemma each; the remainder in
the forced write, which goes round the buffer any number of times, needs a few facts about `%`
with a variable divisor (`RemainderUnique`, `ModShift`, `ModAdvance`). `BytesCorrect` adds
`DataInv`: a block lands behind the counted bytes (`InsertPuts`) and disturbs none of them
(`InsertKeeps`). `Implements` maps every step to a step or a stutter of `ByteFifo`, from lemmas
that say what is stored after a block is appended (`Appended`), after bytes are taken
(`StoredSplit`), and after a forced write in each of its three forms (`ForcePlaces`).

`RingKeepsLast` establishes `RingHoldsLast` for the ring that is used alone (RingAccess): the
invariant `RingInv` says that the stored bytes are the last ones kept and that the indices are
`count` apart on the ring. `RingForced`, `RingOut`, `RingPoked` and `RingItem` say what a write
leaves, what a copy reads across the end, what a poke changes of a queue full or not, and where an item of `Q` and
`WordQ` lies when items divide the ring.

### NodeListsProofs

Both kinds of list keep their links in cells, and a list is right when walking them from the dummy
node meets the nodes of its sequence and nothing else. `ListInv` says so of all lists at once:
`DllRep` and `SllRep` say that the links go from each place of each sequence to the next; of a doubly
linked list also that the links backward are those forward the other way round and that a node in no
list is unlinked, of a singly linked one that `pLast` is the last place. For two lists at once that is one ring each (`At`, the cell at a place, counted round the
dummy node), and an insertion, a removal or a splice changes the places behind one of them
(`RingInsert` and its like). One lemma per function of `dl_list.cpp` and `sl_list.cpp` follows; the
sorted insertion, the sort (which moves every node to a temporary list and inserts it into its
own again) and `pop` go over the links in loops, and what a loop leaves is shown by induction
(`NumbersByInduction`). The theorem is in UtilsProofs.

### TextProofs

Texts, numbers and sums are functions of the data, defined by recursion along it. Induction over
data is available in first-order form: `NumbersByInduction` and `TextsByInduction` say that
a *set* that holds a beginning and is closed under the step has everything in it, from the least
element of a set of numbers; none of the library's theorems with an operator for a parameter is
needed. `Recursion` shows that the function a recursive definition speaks of exists, so
that the definition may be unfolded.

*Hexadecimal.* What is printed is the halves of the bytes (`Nybbles`) with other characters between,
readers drop the others and pair the halves (`Paired`), and each of these commutes with putting
texts one after another; UUIDs are the same in groups. *Numbers.* `DigitsSum`: reading digits
undoes the divisions that made them. *Formatted text.* What stands in the buffer is the
beginning of the whole text that fits, item by item (`Upto`, `CutConcat`). *Lines.* `SplitInv`: what
is printed, put together, is the text up to where it has been read, and what is left is the rest.

### UtilsProofs

Six theorems over `MCSpec`, whose behaviours are each one utility's (`UtilsSteps`).

- `ListsHold` (`ListsHoldSequences`): `ListInv`, above.
- `StringsHold` (`StringsHoldText`): `StrInv`; the bytes up to the length are the text, the
  buffer has room for them, and there is one block on the heap exactly when the kind says that the
  buffer is there. The size after growing is a power of two that
  the text and its terminator fit into (`nextPowerOfTwo`).
- `DatesAreRight` (`DatesRight`): `DateInv` says what day a date is - the days of the years before, of
  the months before, of the month - and that it is a day of that month. The conversion counts in
  cycles of four years, and the year and the month it finds are the only ones whose days those are.
- `TextsFit` (`TextFits`): `TextInv`, with the lemmas of TextProofs.
- `CodesAreRead` (`CodesReadBack`): `CodeInv`. `CrcInv` relates each sum that is continued byte by
  byte to the one over the whole text. A word is the set of its bits and `Xor` the symmetric
  difference, so eight steps of a sum are linear (`StepsOfSum`): those of a byte and of what is shifted
  through it apart, which is what a table entry is (`FedBack`, `HighBitsAreLost`). Hence
  the sum by table is the sum by steps, and `CRC_16` the one of CCITT.
- `PlotsShow` (`PlotShows`). `PlotInv`: the table is full up to its count,
  and what has been drawn is what stands before the loop's place. `LineEnds`: a line between
  neighbouring columns ends where it should, whatever its slope and direction (`RoundedDown`).
  `CurveCovers`: a waveform within the axis is drawn from the first column to the last, or to the first
  at which it has no value; `CurveInEveryColumn` says nothing of a wider one (section 6).
  `InterpInv`: after `Recalc` the points are sorted and each line goes through two neighbours;
  points in any order with different abscissas can be sorted (`SortingBuilds`), and the fraction is
  divided out at a point (`DividedBack`). `GridInv`: between two gridlines no multiple of the unit, no
  power and no part of one (`MinorsTo`) is passed over.

### What the proofs changed

Trying to prove something showed where a model or a property was off, and each was corrected:

- the bound on the clock had left out how late the timers of full batches get (`SchedAssumption`);
- the two conditions of `MbedTiming`'s `get_delay` overlapped where the code has a sequence of `if`s;
- `logSince` counted from a line's end, which is in another place when the length has been
  cut off to eight bits;
- `HexReadsBack` had been stated of every delimiter, and fails for a last one that is longer than the
  text;
- a logarithmic axis had been allowed a base of 1, of which every power is the same, or one
  that its parts do not divide, where integers do not stand for the code's doubles;
- what constants must be was written down (the assumptions above); `CNV_convertArrayToHexWithColons`
  computes with sizes of eight bits, and the model had wider ones.

Other changes only made definitions something the provers can unfold: removals and answers of `pop` in
NodeLists, the sums of days in Dates, the texts in HexText, NumberText and LogSplit, the loops of Crc and
the powers of SimplePlot are functions defined by recursion, not the folds of a library; the result of
SimplePlot's sort is described by what it is.

### Only model-checked

Liveness: `AllServed`, `ReschedRuns`, `EventuallyReturned`, `CallsReturn` and `RedrawReturns`. Fairness and `ENABLED` are outside the prover's reach. The properties of
the runs that expect a violation are, of course, not proved.

The modules with theorems, and those they use, declare nothing `RECURSIVE`, of which the provers
could not reason.

## 6. Weaknesses without a property

Met while modelling; each is excluded by a precondition of the models, or in the models and
excepted by a property that says so, or too local for a property of its own.

Scheduler
- A batch holds copies of the functions: a schedulable cancelled by an earlier callback of the
  same batch is still called (`task_sched.cpp:542`).
- `TaskSchedCancelScheduledTask` looks at the node before it locks; a periodic timer that
  `PollTimed` has unlisted for a moment is not cancelled (1118).
- `AddEventFn` refuses with 0 when the table is full, also for a trigger that has a slot already
  (1023), and a `TaskTrigger` then keeps the number of somebody else's event; it
  overwrites a slot that `DoPollEvents` may be reading (456); it accepts the idle priority, for
  which nobody polls events (1020).
- The constructor publishes `mInstPtr` before it fills `mpSchedulers` (685).
- The rescheduler calls the application after it has released the lock: `disable` or the destructor
  may have returned before (`task_rescheduler.cpp:83`). Methods that the application's function calls
  after the destructor has returned use freed memory; the model has those it calls before.

Operating system layer
- A POSIX sleep that a signal cuts short is not continued, although `osal.h:84` says "Sleep for ms
  milliseconds": the elapsed time is `now - OSALGetMS()` with a `now` that is read once, below zero
  and so huge (`osal_posix.cpp:535`). OsalSleep has this as it is; `SleepsWholeTime`, which
  holds of Windows and FreeRTOS, does not hold of POSIX.
- With a timeout of zero neither the mutex nor the semaphore of POSIX is tried
  (`osal_posix.cpp:133`, 402). The system may give a new thread the id of one that has ended but is
  still in the map (590); `OSALGetCurrentTaskID` searches the map without the lock (730).
- The destructor of a mutex unlocks it before it is destroyed: a thread that still waits may take it in
  between, and holds a mutex that is gone (`osal_posix.cpp:116`, `osal_win32.cpp:158`). OsalMutex has
  the gap, and `DestroyedUnheld` excepts who came in by it. On Windows a destructor that has not got the
  lock in ten seconds destroys the mutex under its holder, as it says (155).
- The ICALL mutex of TI-RTOS is not recursive and ignores its timeout (`osal_tirtos.cpp:532`).
  `TerminateThread` may end a thread inside the critical section (`osal_win32.cpp:606`). An endless lock on
  FreeRTOS asserts after thirty seconds (`osal_freertos.cpp:189`); `OSALCheckStacks` reads the stacks of tasks
  after it has left the lock (456); a block of the start-up buffer may be freed into the pools (611).
- Two threads that free one block both pass the unlocked test of its magic number
  (`mempools.cpp:294`); the pools are marked initialised before they are (93).
- When the entropy function fails, an uninitialised buffer is cached (`osal_random.cpp:112`); reading
  before the seed has arrived keeps the first key from ever being set (`osal_entropy.cpp:107`).
- Freeing a locked mbed TLS mutex leaves its section held (`threading_alt.cpp:51`).

Transactions, sockets
- Purging or flushing a socket's receive transaction hands back a buffer that a reader may still
  write to (finding 6).
- Two threads that purge or flush at the same time are not modelled: one does at a time.
- A reader that outlives `DeleteUdpClient` uses freed memory (`mini_socket.cpp:119`);
  `~BufIOQueue` does not hand back what is queued (`buf_io_queue.cpp:79`).

Utilities
- `ByteQPokeRandom` counts its place from the write index (`byteq.cpp:608`) and its length from the stored
  bytes (611): only of a full queue is that the place among the stored bytes. Otherwise the first
  bytes go to free places, and the last stored ones cannot be reached. RingAccess has this as it is,
  and `AfterPoke` says what becomes of the stored bytes.
- Committing more than there is makes a ByteQ's count wrap (`byteq.cpp:271`);
  `ByteQSetRdIdxFromPointer` counts bytes twice that a writer is putting in, and empties a
  full queue when it moves nowhere (420).
- `SLL_NodeInsertAfter` leaves `pLast` behind (`sl_list.cpp:348`); `DLL_SortList` reverses equal keys
  (`dl_list.cpp:368`).
- `s += s` reads a buffer that growing has freed (`simple_string.cpp:276`); comparing with a C string
  compares the string's own length only (207).
- Dates are a day off from 28 February 2100 on (`convert_utils.cpp:407`, as the comment there says).
  `CNV_convertArrayToHexWithColons` keeps sizes in eight bits and can overwrite the terminator with its last
  colon (242).
- A log line's length has eight bits (`platform_log.cpp:253`). `LOG_LargeStr` counts the terminator and
  line end that it appends as characters of the string, and so leaves one or three out after each
  line (460); LogSplit has this as it is, and `LinesHoldText` excepts it from holding the text.
- A waveform with a negative id is passed over uncounted, and the redraw may never return
  (`simple_plot.cpp:149`).
- Nothing is drawn of a waveform that begins before the axis or ends behind it: the smaller `fMinX`
  and the larger `fMaxX` are off the canvas (`simple_plot.cpp:744`). One that begins inside the axis is
  asked for its value at the axis' beginning all the same, although `simple_plot.hpp:128` says "Don't
  bother trying to get any data points below fMinX", and if it refuses, as an interpolated curve does,
  nothing is drawn either (760); where a later value is refused the curve ends (771). SimplePlot has all
  three as they are, and `CurveInEveryColumn` excepts them by name.

## 7. Not modelled

- The scheduler's shutdown: `TaskSchedQuit` ends one priority after another, of which `Quit` models
  one; `~TaskSchedPrio` never runs, since the scheduler lives in static memory and is not destroyed.
- Builds other than the usual one: the single-task scheduler, ICALL on TI-RTOS, the macOS
  variants, the consistency checks of `CHECK_CS`, `TASKSCHED_DEBUG`.
- `osal_stubs.cpp`: functions that assert or do nothing. `OSALCheckStacks`, fault hooks, usage
  statistics of the pools, task priorities and names: reports without effect on the rest.
- `TaskTrigger`'s enable flag, `OsalDrbgEntropySrc` (nobody instantiates it), `SetCurrentTxPtr` and
  `SetCurrentRxPtr` (nobody calls them).
- AES, libsodium and `myconfig.h`: vendored ciphers and configuration. Base64 is done by mbed TLS.
- `EzPlot`, markers, zooming and labels: drawing without state. File utilities and enum tables: file
  system and macros.

## 8. Plan

Done, in this order: TaskSched (the core every other component runs on) and its proofs,
the semaphore, TaskRescheduler, ByteQ; then BufIOQueue with UdpClient, the scheduler's front,
memory, random numbers, logging, the ports, the TLS glue and the utilities; then the proofs of all
safety properties, run by run: `sched_timers`, `sched_live`, `resched`, `bufio`, `osal`, `utils`.
What is left is the scheduler's shutdown, several priorities that quit in turn.
