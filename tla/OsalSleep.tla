----------------------------- MODULE OsalSleep ------------------------------
(***************************************************************************)
(* OSALSleep of osal_posix.cpp, osal_win32.cpp and osal_freertos.cpp: each *)
(* sleeps in a loop against the wrapping millisecond clock, because the    *)
(* sleep of the system, which is external, may end early.                  *)
(***************************************************************************)
EXTENDS Naturals

CONSTANTS SlPorts,      \* "posix", "win32", "freertos"
          SlTimes,      \* values of ms
          SlStarts,     \* values of the clock at the call
          SlMod,        \* number of values of the clock (2^32)
          SlLate        \* bound: a sleep of the system is at most this much late

\* the differences are compared as int32_t: a sleep is shorter than half the clock's range
ASSUME SlAssumption ==
  /\ SlPorts \subseteq {"posix", "win32", "freertos"}
  /\ {SlMod, SlLate} \subseteq Nat /\ SlTimes \subseteq Nat
  /\ SlStarts \subseteq 0 .. SlMod - 1
  /\ \A ms \in SlTimes : 2 * ms < SlMod

VARIABLES
  slPort,       \* the system, the same for ever
  slMs,         \* the argument
  slStart,      \* OSALGetMS() at the call
  slPassed,     \* milliseconds passed since
  slRemaining,  \* the local: what to sleep next
  slPc          \* "called", "sleep", "done"

slVars == <<slPort, slMs, slStart, slPassed, slRemaining, slPc>>

SlClock(passed) == (slStart + passed) % SlMod
\* a - b in uint32_t, and whether that is positive as int32_t
SlMinus(a, b) == (a + SlMod - b) % SlMod
SlPositive(d) == 0 < d /\ 2 * d < SlMod

SlInit ==
  /\ slPort \in SlPorts /\ slMs \in SlTimes /\ slStart \in SlStarts
  /\ slPassed = 0
  /\ slRemaining = slMs
  /\ slPc = "called"

\* A sleep of the system of n milliseconds: signals end it early, and the scheduler
\* ends it late.
SystemSleep(n) ==
  /\ \E d \in 0 .. n + SlLate : slPassed' = slPassed + d
  /\ UNCHANGED <<slPort, slMs, slStart>>

\* The loop goes on with what remains, or ends when nothing does.
SlGoOn(remaining) ==
  slRemaining' = remaining /\ slPc' = IF remaining = 0 THEN "done" ELSE "sleep"

SlReturn == slPc' = "done" /\ UNCHANGED <<slPort, slMs, slStart, slPassed, slRemaining>>

\* elapsed = now - OSALGetMS(), where now is still the time of the call.
Remaining_Posix(passed) ==
  LET elapsed == SlMinus(slStart, SlClock(passed))
  IN IF elapsed < slMs THEN slMs - elapsed ELSE 0

OSALSleep_Posix ==
  /\ slPort = "posix" /\ slPc # "done"
  /\ IF slMs = 0 THEN SlReturn
     ELSE SystemSleep(slRemaining) /\ SlGoOn(Remaining_Posix(slPassed'))

\* (variant: does not look at the clock again)
Remaining_Once(passed) == 0

\* remaining = expiryTime - OSALGetMS(), as int32_t.
Remaining(passed) ==
  LET remaining == SlMinus(SlClock(slMs), SlClock(passed))
  IN IF SlPositive(remaining) THEN remaining ELSE 0

\* do ... while: a sleep of 0 sleeps for 1.
OSALSleep_Win32 ==
  /\ slPort = "win32" /\ slPc # "done"
  /\ SystemSleep(IF slRemaining = 0 THEN 1 ELSE slRemaining) /\ SlGoOn(Remaining(slPassed'))

\* vTaskDelay(0) only lets others run; otherwise at least one tick.
OSALSleep_FreeRtos ==
  /\ slPort = "freertos" /\ slPc # "done"
  /\ IF slMs = 0 THEN SlReturn
     ELSE SystemSleep(slRemaining) /\ SlGoOn(Remaining(slPassed'))

SlNext == OSALSleep_Posix \/ OSALSleep_Win32 \/ OSALSleep_FreeRtos

\* Windows and FreeRTOS sleep the whole time, though the system's sleep may end
\* early and the clock wrap meanwhile. On POSIX a sleep that a signal cuts short is not
\* continued: the difference of a time that stands and one that runs is below zero,
\* and so huge, and taken for enough.
SleepsWholeTime == slPc = "done" /\ slPort # "posix" => slPassed >= slMs
=============================================================================
