----------------------------- MODULE UdpClient ------------------------------
(***************************************************************************)
(* UdpClient (src/sop_src/mini_socket), the one driver of a BufIOQueue in  *)
(* the repository: every successful QueueWrite detaches a thread that      *)
(* loads the current receive transaction, waits in recvfrom and commits.   *)
(* A system is either a device with a driver per direction or a socket.    *)
(***************************************************************************)
EXTENDS BufIOQueue

CONSTANTS DriverDirs,      \* the directions the serial device is used for
          PurgedDevices,   \* the devices whose application purges and flushes
          Readers,         \* the detached threads that can be alive at once
          MaxOutstanding   \* bound: requests whose thread has not ended

ASSUME ReadersAssumption ==
  /\ IsFiniteSet(Readers)
  /\ MaxOutstanding \in Nat
  /\ DriverDirs \subseteq Dirs

VARIABLES device,  \* "serial" or "udp": which class inherits from BufIOQueue
          socket,  \* mSocket # INVALID_SOCKET
          reader,  \* the threads of ReadFromSocketThreadC
          net      \* datagrams on their way to the socket

udpVars == <<device, socket, reader, net>>
allVars == <<vars, udpVars>>

UsedDirs == IF device = "udp" THEN {RX} ELSE DriverDirs
NoReader == [pc |-> "none", trans |-> NoTrans]
Alive == {r \in Readers : reader[r].pc # "none"}

\* The constructor: the address does not resolve or socket() fails, or not.
UdpInit ==
  /\ device \in {"serial", "udp"}
  /\ socket \in BOOLEAN
  /\ reader = [r \in Readers |-> NoReader]
  /\ net = 0

\* QueueWrite, overridden: send, tell the owner, then start a reader if the
\* send was complete.
UdpQueueWrite(t, ok, r) ==
  /\ socket
  /\ place[t] = "app"
  /\ reader[r].pc = "none"
  /\ Cardinality(Alive) < MaxOutstanding
  /\ CompletedCb(t)
  /\ IF ok THEN /\ reader' = [reader EXCEPT ![r] = [pc |-> "start", trans |-> NoTrans]]
                /\ net' = IF net < Cardinality(Readers) THEN net + 1
                           ELSE net  \* bound: of more datagrams in flight one is lost
           ELSE UNCHANGED <<reader, net>>
  /\ UNCHANGED <<listVars, callback, valid, now, driver, purger, device, socket>>

\* The thread loads a receive transaction, or ends because none was queued.
ReaderLoad(r) ==
  /\ reader[r].pc = "start"
  /\ LoadNextTransaction(RX)
  /\ reader' = [reader EXCEPT ![r] =
       IF NextTransaction(RX) = NoTrans THEN NoReader
       ELSE [pc |-> "recv", trans |-> NextTransaction(RX)]]
  /\ UNCHANGED <<freeQueue, place, callback, expiry, left, valid, now, driver, purger,
                 device, socket, net>>

\* recvfrom returns: a datagram is copied to the buffer, or SO_RCVTIMEO passed.
ReaderReceive(r) ==
  /\ reader[r].pc = "recv"
  /\ \/ /\ net > 0
        /\ net' = net - 1
        /\ reader' = [reader EXCEPT ![r].pc = "received"]
     \/ /\ reader' = [reader EXCEPT ![r].pc = "timeout"]
        /\ UNCHANGED net
  /\ UNCHANGED <<vars, device, socket>>

\* (variant: nothing is committed when recvfrom fails)
ReaderCommit_OnlyData(r) ==
  /\ reader[r].pc \in {"received", "timeout"}
  /\ reader' = [reader EXCEPT ![r] = NoReader]
  /\ IF curr[RX] = NoTrans \/ reader[r].pc = "timeout"
     THEN UNCHANGED <<curr, place, left, expiry, transferred>>
     ELSE curr' = [curr EXCEPT ![RX] = NoTrans] /\ CompletedCb(curr[RX])
  /\ UNCHANGED <<queue, freeQueue, callback, valid, now, driver, purger, device, socket, net>>

\* CommitRxTransaction, forced to complete, and its callback, inside
\* OSALEnterCritical; it takes the transaction that is current by now.
ReaderCommit(r) ==
  /\ reader[r].pc \in {"received", "timeout"}
  /\ curr' = [curr EXCEPT ![RX] = NoTrans]
  /\ IF curr[RX] = NoTrans THEN UNCHANGED <<place, left, expiry, transferred>>
     ELSE CompletedCb(curr[RX])
  /\ reader' = [reader EXCEPT ![r] = NoReader]
  /\ UNCHANGED <<queue, freeQueue, callback, valid, now, driver, purger, device, socket, net>>

\* A datagram is lost, or dropped because nobody reads.
Lose ==
  /\ net > 0
  /\ net' = net - 1
  /\ UNCHANGED <<vars, device, socket, reader>>

ReaderStep(r) == ReaderLoad(r) \/ ReaderReceive(r) \/ ReaderCommit(r)

UdpNext ==
  /\ device = "udp"
  /\ \/ \E t \in Trans, ok \in BOOLEAN, r \in Readers : UdpQueueWrite(t, ok, r)
     \/ \E r \in Readers : ReaderStep(r)
     \/ Lose

SerialNext ==
  /\ device = "serial"
  /\ \/ \E d \in DriverDirs : Driver(d)
     \/ TX \in DriverDirs /\ \E t \in HeapTrans : Write(t)
  /\ UNCHANGED udpVars

\* Public functions of BufIOQueue, which UdpClient inherits.
PurgeNext ==
  /\ \/ /\ device \in PurgedDevices
        /\ \E d \in UsedDirs :
             FlushActive(d) \/ \E all \in BOOLEAN : PurgeOldMessages(d, all)
     \/ PurgeStep
  /\ UNCHANGED udpVars

AppNext ==
  /\ \/ \E t \in HeapTrans, cb \in {"free", "app"} : MallocWithPayload(t, cb)
     \/ AllocAndInitTransaction
     \/ \E t \in PoolTrans : FreeTransaction(t)
     \/ \E t \in Trans, d \in UsedDirs, timeout \in Timeouts : Queue(t, d, timeout)
     \/ Alive = {} /\ Destroy
     \/ Tick
  /\ UNCHANGED udpVars

Init == BufInit /\ UdpInit
Next == UdpNext \/ SerialNext \/ PurgeNext \/ AppNext

\* The scheduler of the threads and the hardware are fair; the application is not.
Fairness ==
  /\ \A d \in DriverDirs : WF_allVars(device = "serial" /\ Driver(d) /\ UNCHANGED udpVars)
  /\ \A r \in Readers : WF_allVars(device = "udp" /\ ReaderStep(r))
  /\ WF_allVars(PurgeStep /\ UNCHANGED udpVars)

Spec == Init /\ [][Next]_allVars /\ Fairness

-----------------------------------------------------------------------------
(* Properties.                                                             *)

\* Where the queue keeps a transaction: the queues, the current pointers and
\* the hands of the threads that still have to call completedCb.
Holdings ==
  {<<d, i>> : d \in Dirs, i \in 1..Cardinality(Trans)}
Waiting(t) == {h \in Holdings : h[2] \in DOMAIN queue[h[1]] /\ queue[h[1]][h[2]] = t}
Copies(t) ==
  Cardinality(Waiting(t))
  + Cardinality({d \in Dirs : curr[d] = t})
  + Cardinality({d \in Dirs : driver[d].pc = "callback" /\ driver[d].trans = t})
  + Cardinality({i \in DOMAIN purger.purged : purger.purged[i] = t})
  + (IF purger.flushed = t THEN 1 ELSE 0)
  + Cardinality({i \in DOMAIN freeQueue : freeQueue[i] = t})

\* A transaction the queue owns is in exactly one of its lists or hands, and
\* one the application owns or that is freed is in none: no callback is called
\* twice or lost while a purge, a flush and a commit race (buf_io_queue.cpp
\* 222-268, 347-403).
OwnedOnce ==
  \A t \in Trans : Copies(t) = IF place[t] \in {"queue", "pool"} THEN 1 ELSE 0

\* Whatever the clock reads, also just before and after it wraps, a queued
\* transaction counts as expired exactly when its deadline has passed, as long
\* as it is late by no more than 2^30 ms (TransactionIsExpired and the expiry
\* time Queue computes).
ExpiryExact ==
  \A t \in Trans : place[t] = "queue" /\ expiry[t] # Infinite /\ left[t] >= -HalfRange =>
    (TransactionIsExpired(t) <=> left[t] < 0)

\* A thread writes to a receive buffer only while the queue owns it: after
\* completedCb "gives ownership of the transaction back to the caller"
\* (buf_io_queue.hpp 38-41) no thread of the socket is still going to.
BufferOwned ==
  \A r \in Readers : reader[r].pc \in {"recv", "received", "timeout"} =>
    place[reader[r].trans] = "queue" /\ curr[RX] = reader[r].trans

\* A thread commits its answer to the transaction it received it into or, if that has been
\* flushed or purged from under it, to none: not to one that has become current meanwhile,
\* which nobody has received for.  Only a thread loads, so it is up to FlushActiveTransaction
\* not to start a new transaction (buf_io_queue.hpp 265-271, buf_io_queue.cpp 382-403).
CommitsOwn ==
  \A r \in Readers : reader[r].pc \in {"recv", "received", "timeout"} =>
    \/ curr[RX] = NoTrans
    \/ curr[RX] = reader[r].trans /\ place[reader[r].trans] = "queue"

\* The queues keep the contract of TransferQueue.
ending ==
  {t \in Trans : place[t] = "queue" /\ Waiting(t) = {} /\ \A d \in Dirs : curr[d] # t}
Contract == INSTANCE TransferQueue WITH
  Nobody <- NoTrans, mine <- {t \in Trans : place[t] # "queue"},
  pending <- queue, active <- curr, ending <- ending
IsTransferQueue == Contract!Init /\ [][Contract!Next]_(Contract!vars)

\* Every transaction given to a device is handed back, and on a socket the one
\* that a reader waits for is, with a datagram or without.
EventuallyReturned ==
  \A t \in Trans :
    (place[t] = "queue" /\ (device = "serial" \/ curr[RX] = t)) ~> place[t] # "queue"
=============================================================================
