--------------------------- MODULE TransferQueue ---------------------------
(***************************************************************************)
(* What the header of BufIOQueue (buf_io_queue.hpp) promises to its users: *)
(* a transaction that was submitted is owned by the queue, is started in   *)
(* the order of submission, and is handed back exactly once.               *)
(***************************************************************************)
EXTENDS Naturals, Sequences, FiniteSets

CONSTANTS Trans,      \* the transactions
          Dirs,       \* the directions of transfer
          Nobody      \* no transaction is active

VARIABLES mine,       \* the transactions the application owns
          pending,    \* per direction, what waits to be started, oldest first
          active,     \* per direction, what is being transferred, or Nobody
          ending      \* finished or cancelled, its owner not told yet

vars == <<mine, pending, active, ending>>

Elements(s) == {s[i] : i \in DOMAIN s}

Init ==
  /\ mine = Trans
  /\ pending = [d \in Dirs |-> << >>]
  /\ active = [d \in Dirs |-> Nobody]
  /\ ending = {}

Submit(t, d) ==
  /\ t \in mine
  /\ mine' = mine \ {t}
  /\ pending' = [pending EXCEPT ![d] = Append(@, t)]
  /\ UNCHANGED <<active, ending>>

Start(d) ==
  /\ active[d] = Nobody
  /\ pending[d] # << >>
  /\ active' = [active EXCEPT ![d] = Head(pending[d])]
  /\ pending' = [pending EXCEPT ![d] = Tail(@)]
  /\ UNCHANGED <<mine, ending>>

Finish(d) ==
  /\ active[d] # Nobody
  /\ active' = [active EXCEPT ![d] = Nobody]
  /\ ending' = ending \cup {active[d]}
  /\ UNCHANGED <<mine, pending>>

\* r is s without the members of S: each of the others once, in the order of s.
IsWithout(r, s, S) ==
  /\ Elements(r) = Elements(s) \ S
  /\ \A i, j \in DOMAIN r : i < j =>
       r[i] # r[j] /\ \E k, l \in DOMAIN s : k < l /\ s[k] = r[i] /\ s[l] = r[j]

\* The transactions of S are taken out of the queue; the others keep their order.
Cancel(d, S) ==
  /\ IsWithout(pending'[d], pending[d], S)
  /\ pending' = [pending EXCEPT ![d] = pending'[d]]
  /\ ending' = ending \cup (S \cap Elements(pending[d]))
  /\ UNCHANGED <<mine, active>>

Return(t) ==
  /\ t \in ending
  /\ ending' = ending \ {t}
  /\ mine' = mine \cup {t}
  /\ UNCHANGED <<pending, active>>

\* A device that tells the owner in the same critical section.
FinishAndReturn(d) ==
  /\ active[d] # Nobody
  /\ active' = [active EXCEPT ![d] = Nobody]
  /\ mine' = mine \cup {active[d]}
  /\ UNCHANGED <<pending, ending>>

Next ==
  \/ \E t \in Trans, d \in Dirs : Submit(t, d)
  \/ \E d \in Dirs : Start(d) \/ Finish(d) \/ FinishAndReturn(d)
  \/ \E d \in Dirs, S \in SUBSET Trans : Cancel(d, S)
  \/ \E t \in Trans : Return(t)

Spec == Init /\ [][Next]_vars
=============================================================================
