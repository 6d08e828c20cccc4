-------------------------- MODULE CountingSemaphore --------------------------
(***************************************************************************)
(* What osal.h promises of a counting semaphore: Signal adds tokens up to  *)
(* the maximum and tells whether all of them fitted, Wait takes one, and   *)
(* only a wait with a timeout can end without one.                         *)
(***************************************************************************)
EXTENDS Integers

CONSTANTS Threads,     \* callers
          InitialValue, MaxValue,   \* arguments of OSALSemaphoreCreate
          Counts       \* counts passed to OSALSemaphoreSignal

VARIABLES tokens,
          calls,       \* thread -> the wait it is in
          result       \* thread -> what its last call returned

absVars == <<tokens, calls, result>>

AtMost(a, b) == IF a < b THEN a ELSE b

AbsTypeOK ==
  /\ tokens \in 0 .. MaxValue
  /\ calls \in [Threads -> {"none", "forever", "timed"}]
  /\ result \in [Threads -> BOOLEAN]

AbsInit ==
  /\ tokens = InitialValue
  /\ calls = [t \in Threads |-> "none"]
  /\ result = [t \in Threads |-> FALSE]

BeginWait(t, kind) ==
  /\ calls[t] = "none"
  /\ calls' = [calls EXCEPT ![t] = kind]
  /\ UNCHANGED <<tokens, result>>

Acquire(t) ==
  /\ calls[t] # "none" /\ tokens > 0
  /\ tokens' = tokens - 1
  /\ calls' = [calls EXCEPT ![t] = "none"]
  /\ result' = [result EXCEPT ![t] = TRUE]

TimeOut(t) ==
  /\ calls[t] = "timed"
  /\ calls' = [calls EXCEPT ![t] = "none"]
  /\ result' = [result EXCEPT ![t] = FALSE]
  /\ UNCHANGED tokens

Release(t, count) ==
  /\ calls[t] = "none"
  /\ tokens' = AtMost(tokens + count, MaxValue)
  /\ result' = [result EXCEPT ![t] = tokens + count <= MaxValue]
  /\ UNCHANGED calls

AbsNext == \E t \in Threads :
  \/ BeginWait(t, "forever") \/ BeginWait(t, "timed")
  \/ Acquire(t) \/ TimeOut(t)
  \/ \E count \in Counts : Release(t, count)

AbsSpec == AbsInit /\ [][AbsNext]_absVars
=============================================================================
