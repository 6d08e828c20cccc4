---------------------------- MODULE OsalPortSems ----------------------------
(***************************************************************************)
(* The counting semaphores of osal_win32.cpp and osal_freertos.cpp: thin   *)
(* layers over semaphores of the system that have a maximum of their own.  *)
(* Windows adds all of a signal's tokens or none; FreeRTOS gives them one  *)
(* by one, and other tasks may run between two gives, until the semaphore  *)
(* is full.  OSAL_WAIT_INFINITE is a long but finite time to FreeRTOS.     *)
(***************************************************************************)
EXTENDS Naturals

CONSTANTS PsTasks, PsPorts, PsInitial, PsMax, PsCounts

ASSUME PsAssumption ==
  /\ PsPorts \subseteq {"win32", "freertos"} /\ PsCounts \subseteq Nat
  /\ {PsInitial, PsMax} \subseteq Nat /\ PsInitial <= PsMax

VARIABLES psPort,
          psValue,       \* the semaphore of the system
          psAt,          \* the call a task is in: idle, forever, timed, giving
          psAsked, psAdded,   \* count of a task's signal, and what it added of it
          psResult       \* what the last call of a task was, and returned
psVars == <<psPort, psValue, psAt, psAsked, psAdded, psResult>>

PsReturn(t, call, ok) ==
  /\ psAt' = [psAt EXCEPT ![t] = "idle"]
  /\ psResult' = [psResult EXCEPT ![t] = [call |-> call, ok |-> ok]]

\* OSALSemaphoreCreate(initialValue, maxValue); FreeRTOS takes them the other way round
PsInit ==
  /\ psPort \in PsPorts /\ psValue = PsInitial
  /\ psAt = [t \in PsTasks |-> "idle"]
  /\ psAsked = [t \in PsTasks |-> 0] /\ psAdded = [t \in PsTasks |-> 0]
  /\ psResult = [t \in PsTasks |-> [call |-> "idle", ok |-> TRUE]]

PsWait(t, call) ==
  /\ psAt[t] = "idle" /\ psAt' = [psAt EXCEPT ![t] = call]
  /\ UNCHANGED <<psPort, psValue, psAsked, psAdded, psResult>>
PsTake(t) ==
  /\ psAt[t] \in {"forever", "timed"} /\ psValue > 0
  /\ psValue' = psValue - 1 /\ PsReturn(t, psAt[t], TRUE)
  /\ UNCHANGED <<psPort, psAsked, psAdded>>
\* an endless wait of FreeRTOS is over after its long time, and goes round its loop
PsTimesOut_NoRetry(t) ==                   \* (variant: no loop around xSemaphoreTake)
  /\ psAt[t] \in (IF psPort = "freertos" THEN {"timed", "forever"} ELSE {"timed"})
  /\ psValue = 0 /\ PsReturn(t, psAt[t], FALSE)
  /\ UNCHANGED <<psPort, psValue, psAsked, psAdded>>
PsTimesOut(t) ==
  /\ psAt[t] = "timed" /\ psValue = 0 /\ PsReturn(t, "timed", FALSE)
  /\ UNCHANGED <<psPort, psValue, psAsked, psAdded>>

\* ReleaseSemaphore fails as a whole when the tokens do not fit
PsRelease(t, count) ==
  /\ psPort = "win32" /\ psAt[t] = "idle"
  /\ LET fits == psValue + count <= PsMax IN
     /\ psValue' = (IF fits THEN psValue + count ELSE psValue)
     /\ psAdded' = [psAdded EXCEPT ![t] = IF fits THEN count ELSE 0]
     /\ PsReturn(t, "signal", fits)
  /\ psAsked' = [psAsked EXCEPT ![t] = count]
  /\ UNCHANGED psPort
PsSignal(t, count) ==
  /\ psPort = "freertos" /\ psAt[t] = "idle"
  /\ psAt' = [psAt EXCEPT ![t] = "giving"]
  /\ psAsked' = [psAsked EXCEPT ![t] = count] /\ psAdded' = [psAdded EXCEPT ![t] = 0]
  /\ UNCHANGED <<psPort, psValue, psResult>>
PsGive(t) ==
  /\ psAt[t] = "giving"
  /\ \/ /\ psAdded[t] < psAsked[t] /\ psValue < PsMax
        /\ psValue' = psValue + 1 /\ psAdded' = [psAdded EXCEPT ![t] = @ + 1]
        /\ UNCHANGED <<psAt, psResult>>
     \/ /\ psAdded[t] = psAsked[t] \/ psValue = PsMax
        /\ PsReturn(t, "signal", psAdded[t] = psAsked[t]) /\ UNCHANGED <<psValue, psAdded>>
  /\ UNCHANGED <<psPort, psAsked>>

PsNext == \E t \in PsTasks :
  \/ PsWait(t, "forever") \/ PsWait(t, "timed") \/ PsTake(t) \/ PsTimesOut(t)
  \/ PsGive(t) \/ \E count \in PsCounts : PsRelease(t, count) \/ PsSignal(t, count)
PsSpec == PsInit /\ [][PsNext]_psVars

\* What a port's calls tell their caller is true whatever the other tasks did in
\* between: a signal reports success exactly if every token was added (and Windows
\* adds none otherwise), and a wait without a timeout never ends without a token.
PortCallsHonest ==
  /\ psValue <= PsMax
  /\ \A t \in PsTasks : psAt[t] = "idle" =>
       /\ psResult[t].call = "signal" =>
            /\ (psResult[t].ok <=> psAdded[t] = psAsked[t])
            /\ psPort = "win32" => psAdded[t] \in {0, psAsked[t]}
       /\ psResult[t].call = "forever" => psResult[t].ok
=============================================================================
