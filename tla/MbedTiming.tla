----------------------------- MODULE MbedTiming ------------------------------
(***************************************************************************)
(* mbedtls/timing_alt.cpp on the wrapping millisecond clock: the delay     *)
(* timer of a handshake, and the alarm, a schedulable of the events task.  *)
(***************************************************************************)
EXTENDS Integers

CONSTANTS TmMod,         \* values of OSALGetMS(): 2^32
          TmDelays       \* {int_ms, fin_ms} pairs

\* delays are set in milliseconds of the clock
ASSUME TmAssumption ==
  /\ TmMod \in Nat \ {0}
  /\ TmDelays \subseteq (0 .. TmMod - 1) \X (0 .. TmMod - 1)

VARIABLES tmNow, tmStart,        \* OSALGetMS(), and the timer's start
          tmDelay,               \* int_ms and fin_ms
          tmElapsed,             \* the time since set_delay, that does not wrap
          tmAlarm,               \* mbedtls_set_alarm: idle, cancel or add comes next
          tmListed, tmTaken,     \* the alarm's task is scheduled, is about to run
          mbedtls_timing_alarmed,
          tmAsked                \* an alarm was ever asked for
tmTimer == <<tmStart, tmDelay, tmElapsed>>
tmAlarmVars == <<tmAlarm, tmListed, tmTaken, mbedtls_timing_alarmed, tmAsked>>
tmVars == <<tmNow, tmTimer, tmAlarmVars>>

TmInit ==
  /\ tmNow = 0 /\ tmStart = 0 /\ tmDelay = <<0, 0>> /\ tmElapsed = 0
  /\ tmAlarm = "idle" /\ tmListed = FALSE /\ tmTaken = FALSE
  /\ mbedtls_timing_alarmed = FALSE /\ tmAsked = FALSE

\* the time goes on for less than one round of the clock
TmTick ==
  /\ tmElapsed < TmMod - 1
  /\ tmNow' = (tmNow + 1) % TmMod /\ tmElapsed' = tmElapsed + 1
  /\ UNCHANGED <<tmStart, tmDelay, tmAlarmVars>>

\* mbedtls_timing_get_timer subtracts 64-bit values of a 32-bit clock: after a wrap the
\* difference is negative, and huge as an unsigned long
LargeDelta == TmMod * TmMod
get_timer == IF tmNow >= tmStart THEN tmNow - tmStart ELSE LargeDelta - (tmStart - tmNow)

\* the timer starts unless fin_ms is 0
set_delay(delay) ==
  /\ tmDelay' = delay
  /\ IF delay[2] # 0 THEN tmStart' = tmNow /\ tmElapsed' = 0 ELSE UNCHANGED <<tmStart, tmElapsed>>
  /\ UNCHANGED <<tmNow, tmAlarmVars>>

get_delay_Signed ==                        \* (variant: compared as signed values)
  IF tmDelay[2] = 0 THEN -1
  ELSE IF tmNow - tmStart >= tmDelay[2] THEN 2
  ELSE IF tmNow - tmStart >= tmDelay[1] THEN 1 ELSE 0
get_delay ==
  IF tmDelay[2] = 0 THEN -1
  ELSE IF get_timer >= tmDelay[2] THEN 2
  ELSE IF get_timer >= tmDelay[1] THEN 1 ELSE 0

(* The alarm *)
mbedtls_set_alarm ==
  /\ tmAlarm = "idle" /\ tmAlarm' = "cancel"
  /\ mbedtls_timing_alarmed' = FALSE /\ tmAsked' = TRUE
  /\ UNCHANGED <<tmListed, tmTaken>>
\* TaskSchedCancelScheduledTask, TaskSchedAddTimerFn
setAlarmCancel_OrNothing ==                \* (variant: only a scheduled alarm is set again)
  /\ tmAlarm = "cancel" /\ tmAlarm' = (IF tmListed THEN "add" ELSE "idle") /\ tmListed' = FALSE
  /\ UNCHANGED <<tmTaken, mbedtls_timing_alarmed, tmAsked>>
setAlarmCancel ==
  /\ tmAlarm = "cancel" /\ tmAlarm' = "add" /\ tmListed' = FALSE
  /\ UNCHANGED <<tmTaken, mbedtls_timing_alarmed, tmAsked>>
setAlarmAdd ==
  /\ tmAlarm = "add" /\ tmAlarm' = "idle" /\ tmListed' = TRUE
  /\ UNCHANGED <<tmTaken, mbedtls_timing_alarmed, tmAsked>>
\* the events task takes the task off its list, and calls alarmC later
TakeAlarm ==
  /\ tmListed /\ ~tmTaken /\ tmListed' = FALSE /\ tmTaken' = TRUE
  /\ UNCHANGED <<tmAlarm, mbedtls_timing_alarmed, tmAsked>>
alarmC ==
  /\ tmTaken /\ tmTaken' = FALSE /\ mbedtls_timing_alarmed' = TRUE
  /\ UNCHANGED <<tmAlarm, tmListed, tmAsked>>

TmNext ==
  \/ TmTick \/ \E delay \in TmDelays : set_delay(delay)
  \/ /\ mbedtls_set_alarm \/ setAlarmCancel \/ setAlarmAdd \/ TakeAlarm \/ alarmC
     /\ UNCHANGED <<tmNow, tmTimer>>
TmSpec == TmInit /\ [][TmNext]_tmVars

\* Across a wrap of the clock a delay is never reported late: once fin_ms have passed
\* the answer is 2, and once int_ms have passed it is at least 1.
DelayNeverLate ==
  tmDelay[2] # 0 =>
    /\ tmElapsed >= tmDelay[2] => get_delay = 2
    /\ tmElapsed >= tmDelay[1] => get_delay >= 1

\* An alarm that was set is not lost: it has rung, or its task is scheduled or about to
\* run, also when it was set again while the old one was being called.
AlarmNotLost == tmAsked /\ tmAlarm = "idle" => mbedtls_timing_alarmed \/ tmListed \/ tmTaken
=============================================================================
