---------------------------- MODULE OsalSemaphore ----------------------------
(***************************************************************************)
(* posix_OsalCntSem of osal/osal_posix.cpp: a counting semaphore with a    *)
(* maximum, made of a POSIX semaphore, which has none, and a count of its  *)
(* own.  The count is changed in the task-critical section, the POSIX      *)
(* semaphore is waited for outside of it, and a wait with a timeout polls  *)
(* the POSIX semaphore against the wrapping millisecond clock.             *)
(***************************************************************************)
EXTENDS Integers, FiniteSets

CONSTANTS Threads,     \* callers
          NoThread,    \* nobody holds the critical section
          InitialValue, MaxValue,   \* arguments of OSALSemaphoreCreate
          Counts,      \* counts passed to OSALSemaphoreSignal
          Timeouts,    \* timeoutMs values passed to OSALSemaphoreWait
          TimeMod,     \* number of values of the clock (2^32)
          StopTime,    \* the clock stops here; TimeMod lets it wrap for ever
          MaxLag       \* no thread is kept from running for longer than this

NoTimeout == -1        \* OSAL_WAIT_INFINITE

ASSUME SemAssumption ==
  /\ IsFiniteSet(Threads) /\ NoThread \notin Threads
  /\ MaxValue \in Nat /\ InitialValue \in 0 .. MaxValue
  /\ Counts \subseteq Nat
  /\ TimeMod \in Nat \ {0} /\ StopTime \in Nat /\ MaxLag \in Nat
  /\ Timeouts \subseteq 0 .. (TimeMod \div 2 - 1)   \* what 0x7fffffff & timeoutMs keeps

VARIABLES
  now,                 \* OSALGetMS()
  value,               \* the POSIX semaphore
  mCnt,
  lock,                \* holder of the task-critical section
  finalCnt, inc,       \* locals of signal, of the holder
  pc,
  timeoutMs, timeOut, currentTime,   \* locals of wait
  result               \* what each thread's last call returned

wait == <<timeoutMs, timeOut, currentTime>>
vars == <<now, value, mCnt, lock, finalCnt, inc, pc, wait, result>>

Min2(a, b) == IF a < b THEN a ELSE b

Goto(t, label) == pc' = [pc EXCEPT ![t] = label]
Return(t, rval) == Goto(t, "idle") /\ result' = [result EXCEPT ![t] = rval]

\* the locals of a wait end with it
EndWait(t) ==
  /\ timeoutMs' = [timeoutMs EXCEPT ![t] = NoTimeout]
  /\ timeOut' = [timeOut EXCEPT ![t] = 0]
  /\ currentTime' = [currentTime EXCEPT ![t] = 0]

Init ==
  /\ now = 0
  /\ value = InitialValue /\ mCnt = InitialValue
  /\ lock = NoThread /\ finalCnt = 0 /\ inc = 0
  /\ pc = [t \in Threads |-> "idle"]
  /\ timeoutMs = [t \in Threads |-> NoTimeout]
  /\ timeOut = [t \in Threads |-> 0]
  /\ currentTime = [t \in Threads |-> 0]
  /\ result = [t \in Threads |-> FALSE]

-----------------------------------------------------------------------------
WaitForever(t) ==
  /\ pc[t] = "idle"
  /\ timeoutMs' = [timeoutMs EXCEPT ![t] = NoTimeout]
  /\ Goto(t, "semWait")
  /\ UNCHANGED <<now, value, mCnt, lock, finalCnt, inc, timeOut, currentTime, result>>

\* sem_wait
SemWait(t) ==
  /\ pc[t] = "semWait" /\ value > 0
  /\ value' = value - 1
  /\ Goto(t, "account")
  /\ UNCHANGED <<now, mCnt, lock, finalCnt, inc, wait, result>>

WaitTimed(t, ms) ==
  /\ pc[t] = "idle"
  /\ timeoutMs' = [timeoutMs EXCEPT ![t] = ms]
  /\ timeOut' = [timeOut EXCEPT ![t] = (now + ms) % TimeMod]
  /\ currentTime' = [currentTime EXCEPT ![t] = now]
  /\ Goto(t, "poll")
  /\ UNCHANGED <<now, value, mCnt, lock, finalCnt, inc, result>>

\* while ((!gotSem) && (currentTime < timeOut)): unsigned, as written
InTime(t) == currentTime[t] < timeOut[t]

TryWait(t) ==
  /\ pc[t] = "poll" /\ InTime(t)
  /\ IF value > 0 THEN value' = value - 1 /\ Goto(t, "account")
                  ELSE UNCHANGED value /\ Goto(t, "sleep")
  /\ UNCHANGED <<now, mCnt, lock, finalCnt, inc, wait, result>>

\* usleep(2000) lets the millisecond clock advance
EndSleep(t) ==
  /\ pc[t] = "sleep" /\ now # currentTime[t]
  /\ currentTime' = [currentTime EXCEPT ![t] = now]
  /\ Goto(t, "poll")
  /\ UNCHANGED <<now, value, mCnt, lock, finalCnt, inc, timeoutMs, timeOut, result>>

\* (variant: a wait that fails is counted too)
GiveUp_Counts(t) ==
  /\ pc[t] = "poll" /\ ~InTime(t)
  /\ mCnt' = mCnt - 1
  /\ Return(t, FALSE) /\ EndWait(t)
  /\ UNCHANGED <<now, value, lock, finalCnt, inc>>

GiveUp(t) ==
  /\ pc[t] = "poll" /\ ~InTime(t)
  /\ Return(t, FALSE) /\ EndWait(t)
  /\ UNCHANGED <<now, value, mCnt, lock, finalCnt, inc>>

\* having taken a unit of the POSIX semaphore, count it
Account(t) ==
  /\ pc[t] = "account" /\ lock = NoThread
  /\ mCnt' = mCnt - 1
  /\ Return(t, TRUE) /\ EndWait(t)
  /\ UNCHANGED <<now, value, lock, finalCnt, inc>>

BeginSignal(t, count) ==
  /\ pc[t] = "idle" /\ lock = NoThread
  /\ lock' = t
  /\ finalCnt' = mCnt + count
  /\ inc' = count
  /\ Goto(t, "post")
  /\ UNCHANGED <<now, value, mCnt, wait, result>>

\* (variant: the maximum is forgotten)
Post_NoMaximum(t) ==
  /\ pc[t] = "post" /\ mCnt < finalCnt
  /\ value' = value + 1
  /\ mCnt' = mCnt + 1
  /\ UNCHANGED <<now, lock, finalCnt, inc, pc, wait, result>>

\* one turn of the loop of signal: sem_post, and the count that goes with it
Post(t) ==
  /\ pc[t] = "post" /\ mCnt < Min2(finalCnt, MaxValue)
  /\ value' = value + 1
  /\ mCnt' = mCnt + 1
  /\ UNCHANGED <<now, lock, finalCnt, inc, pc, wait, result>>

\* (variant: signal reports success when it dropped tokens)
EndSignal_AlwaysTrue(t) ==
  /\ pc[t] = "post" /\ mCnt >= Min2(finalCnt, MaxValue)
  /\ lock' = NoThread
  /\ finalCnt' = 0 /\ inc' = 0
  /\ Return(t, TRUE)
  /\ UNCHANGED <<now, value, mCnt, wait>>

EndSignal(t) ==
  /\ pc[t] = "post" /\ mCnt >= Min2(finalCnt, MaxValue)
  /\ lock' = NoThread
  /\ finalCnt' = 0 /\ inc' = 0
  /\ Return(t, finalCnt <= MaxValue)
  /\ UNCHANGED <<now, value, mCnt, wait>>

Polling(t) == pc[t] \in {"poll", "sleep"}

Tick ==
  /\ now # StopTime
  /\ \A t \in Threads : Polling(t) => (now - currentTime[t]) % TimeMod < MaxLag
  /\ now' = (now + 1) % TimeMod
  /\ UNCHANGED <<value, mCnt, lock, finalCnt, inc, pc, wait, result>>

Step(t) == \/ SemWait(t) \/ TryWait(t) \/ EndSleep(t) \/ GiveUp(t) \/ Account(t)
           \/ Post(t) \/ EndSignal(t)

Call(t) == \/ WaitForever(t)
           \/ \E ms \in Timeouts : WaitTimed(t, ms)
           \/ \E count \in Counts : BeginSignal(t, count)

Next == Tick \/ \E t \in Threads : Step(t) \/ Call(t)

Spec == Init /\ [][Next]_vars

-----------------------------------------------------------------------------
TypeOK ==
  /\ now \in 0 .. (TimeMod - 1)
  /\ value \in Nat /\ mCnt \in Int
  /\ lock \in Threads \cup {NoThread}
  /\ finalCnt \in Int /\ inc \in Nat
  /\ pc \in [Threads -> {"idle", "semWait", "poll", "sleep", "account", "post"}]
  /\ timeoutMs \in [Threads -> Timeouts \cup {NoTimeout}]
  /\ timeOut \in [Threads -> 0 .. (TimeMod - 1)]
  /\ currentTime \in [Threads -> 0 .. (TimeMod - 1)]
  /\ result \in [Threads -> BOOLEAN]

\* threads that have taken a unit of the POSIX semaphore and not counted it
Accounting == { t \in Threads : pc[t] = "account" }

\* the critical section is held by the one thread that signals
LockHeld == \A t \in Threads : pc[t] = "post" <=> lock = t

\* The two counts agree: what is counted is in the POSIX semaphore or in the hands of
\* a thread that is about to count it off.  It lies between nothing and the maximum,
\* so the assertion of wait (isGteZero) cannot fail, and the POSIX semaphore never
\* holds more than the maximum although it does not know it.
CountsAgree == value + Cardinality(Accounting) = mCnt
CountInRange == mCnt \in 0 .. MaxValue
SignalCounts ==
  lock # NoThread => /\ finalCnt - inc \in 0 .. MaxValue
                     /\ finalCnt - inc <= mCnt
                     /\ mCnt <= Min2(finalCnt, MaxValue)
CountInv == LockHeld /\ CountsAgree /\ CountInRange /\ SignalCounts

\* What the refinement needs besides: a thread that polls has a timeout, and the tokens
\* a signal adds are those it was asked for.
CallsRemembered ==
  /\ \A t \in Threads : pc[t] \in {"poll", "sleep"} => timeoutMs[t] # NoTimeout
  /\ lock # NoThread => inc \in Counts

\* isGteZero, where wait asserts it
CountNotNegative == \A t \in Threads : pc[t] = "account" => mCnt - 1 >= 0

\* milliseconds since a timed wait began
Elapsed(t) == (now - (timeOut[t] - timeoutMs[t])) % TimeMod

\* A timed wait neither gives up before its timeout has passed nor starts another
\* poll after it.
TimedWaitKeepsTime ==
  [][\A t \in Threads :
       /\ GiveUp(t) => Elapsed(t) >= timeoutMs[t]
       /\ EndSleep(t) /\ Elapsed(t) >= timeoutMs[t] => ~InTime(t)']_vars

\* The tokens of the abstract semaphore are those counted, signal takes effect when
\* it leaves the critical section and wait when it counts.
CS == INSTANCE CountingSemaphore
        WITH tokens <- IF lock = NoThread THEN mCnt ELSE finalCnt - inc,
             calls <- [t \in Threads |->
                         IF pc[t] \in {"idle", "post"} THEN "none"
                         ELSE IF timeoutMs[t] = NoTimeout THEN "forever" ELSE "timed"]

\* The implementation is a counting semaphore.
IsCountingSemaphore == CS!AbsSpec
=============================================================================
