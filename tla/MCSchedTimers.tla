---------------------------- MODULE MCSchedTimers ----------------------------
(***************************************************************************)
(* The timers of a priority that has a thread, and of the idle priority:   *)
(* the same module with other constants, one of the two in each behaviour. *)
(***************************************************************************)
EXTENDS TaskSched, TLC

Symmetry == Permutations(Nodes)

Idle == INSTANCE TaskSched WITH
  IsIdle <- TRUE, Events <- {}, Calls <- {"timer", "idlePoller"},
  Periods <- {0}, Offsets <- {1}

VARIABLE isIdle

BothInit == isIdle \in BOOLEAN /\ IF isIdle THEN Idle!Init ELSE Init
BothNext ==
  /\ UNCHANGED isIdle
  /\ \/ ~isIdle /\ Next
     \/ isIdle /\ Idle!Next
BothSpec == BothInit /\ [][BothNext]_<<isIdle, vars>>
=============================================================================
