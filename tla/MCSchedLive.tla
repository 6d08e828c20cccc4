----------------------------- MODULE MCSchedLive -----------------------------
(***************************************************************************)
(* One priority whose callers trigger events, schedule one-shots and use   *)
(* the controls, or whose callers schedule one-shots and timers: the same  *)
(* module with other constants, one of the two in each behaviour.          *)
(***************************************************************************)
EXTENDS TaskSched

CONSTANT n1
EventCalls == INSTANCE TaskSched WITH Nodes <- {n1}, Calls <- {"oneShot", "event", "control"}
TimerCalls == INSTANCE TaskSched WITH Events <- {}, Calls <- {"oneShot", "timer"}

VARIABLE callers

LiveInit == callers \in {"events", "timers"} /\ Init
LiveNext ==
  /\ UNCHANGED callers
  /\ \/ callers = "events" /\ EventCalls!Next
     \/ callers = "timers" /\ TimerCalls!Next
LiveSpec == LiveInit /\ [][LiveNext]_<<callers, vars>> /\ Fairness
=============================================================================
