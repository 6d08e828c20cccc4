----------------------------- MODULE BufIOQueue -----------------------------
(***************************************************************************)
(* The transaction queues of BufIOQueue (src/sop_src/buf_io).  Every       *)
(* mpEnterCritical .. mpExitCritical section is one action; the callbacks  *)
(* and the tests the code makes outside the sections are actions of their  *)
(* own.  The driver, a class that inherits from BufIOQueue, is modelled    *)
(* from the protected functions it is given: it loads the current          *)
(* transaction, moves some bytes and commits them.  Time is OSALGetMS      *)
(* under EXPIRY_TIME_MASK, with 2 * HalfRange for 2^31.                    *)
(***************************************************************************)
EXTENDS Integers, Sequences, FiniteSets

CONSTANTS HeapTrans,   \* transactions of OSALMALLOC (BufIOQueue_MallocWithPayload)
          PoolTrans,   \* transactions of an array given to AddFreeTransactions
          NoTrans,     \* the null pointer
          Length,      \* transactionLen, in bytes
          HalfRange,   \* 2^30 ms: half of the range of the masked time
          Timeouts,    \* the timeouts used, below HalfRange, or Infinite
          Infinite     \* 0 or OSAL_WAIT_INFINITE

Trans == HeapTrans \cup PoolTrans
TX == "TX"
RX == "RX"
Dirs == {TX, RX}
Time == 0..(2 * HalfRange - 1)

ASSUME TransAssumption ==
  /\ HeapTrans \cap PoolTrans = {}
  /\ NoTrans \notin Trans
  /\ IsFiniteSet(Trans)
ASSUME TimeAssumption ==
  /\ HalfRange \in Nat \ {0}
  /\ Length \in Nat \ {0}
  /\ Infinite \notin Int
  /\ Timeouts \subseteq (1..(HalfRange - 1)) \cup {Infinite}

VARIABLES
  queue,      \* mTxQueue and mRxQueue
  curr,       \* mpTxCurr and mpRxCurr
  freeQueue,  \* mFreeQueue
  valid,      \* mIsValidTag = 0x87654321
  place,      \* who has a transaction: "heap", "pool", "app" or "queue"
  callback,   \* completedCb: "free" (_buf_ioqueue_tx_free) or "app"
  transferred,\* transferredIdx
  expiry,     \* expiryTime
  now,        \* EXPIRY_TIME_MASK & OSALGetMS()
  left,       \* history: the time to the deadline, negative once it has passed
  driver,     \* per direction: what the driver is doing
  purger      \* the thread inside a purge or a flush, one at a time

transVars == <<place, callback, transferred, expiry, left>>
listVars == <<queue, curr, freeQueue>>
vars == <<listVars, transVars, valid, now, driver, purger>>

Elements(s) == {s[i] : i \in DOMAIN s}
IdleDriver == [pc |-> "idle", trans |-> NoTrans, len |-> 0]
IdlePurger == [pc |-> "idle", dir |-> TX, all |-> FALSE, purged |-> << >>, flushed |-> NoTrans]

BufInit ==
  /\ queue = [d \in Dirs |-> << >>]
  /\ curr = [d \in Dirs |-> NoTrans]
  /\ \E s \in [1..Cardinality(PoolTrans) -> PoolTrans] :
       Elements(s) = PoolTrans /\ freeQueue = s
  /\ valid = TRUE
  /\ place = [t \in Trans |-> IF t \in PoolTrans THEN "pool" ELSE "heap"]
  /\ callback = [t \in Trans |-> "free"]
  /\ transferred = [t \in Trans |-> 0]
  /\ expiry = [t \in Trans |-> Infinite]
  /\ now = 0
  /\ left = [t \in Trans |-> 0]
  /\ driver = [d \in Dirs |-> IdleDriver]
  /\ purger = IdlePurger

-----------------------------------------------------------------------------
(* The critical sections and helpers.                                      *)

\* InitTransaction: a null callback becomes the one that frees the memory.
InitTransaction(t, cb) ==
  /\ callback' = [callback EXCEPT ![t] = cb]
  /\ transferred' = [transferred EXCEPT ![t] = 0]
  /\ expiry' = [expiry EXCEPT ![t] = Infinite]

\* (variant: the times are compared without their wrap)
TransactionIsExpired_Unsigned(t) == expiry[t] # Infinite /\ expiry[t] < now

\* The shift puts bit 30 of the difference of the masked times in the sign.
TransactionIsExpired(t) ==
  /\ expiry[t] # Infinite
  /\ (expiry[t] - now) % (2 * HalfRange) >= HalfRange

ExpiryOf(timeout) == IF timeout = Infinite THEN Infinite ELSE (now + timeout) % (2 * HalfRange)

\* (variant: the newest transaction goes to the front)
Enqueue_Front(t, d, timeout) ==
  /\ expiry' = [expiry EXCEPT ![t] = ExpiryOf(timeout)]
  /\ left' = [left EXCEPT ![t] = IF timeout = Infinite THEN 0 ELSE timeout]
  /\ queue' = [queue EXCEPT ![d] = <<t>> \o @]
  /\ place' = [place EXCEPT ![t] = "queue"]

\* The end of Queue(): the transaction is at the back of its queue.
Enqueue(t, d, timeout) ==
  /\ expiry' = [expiry EXCEPT ![t] = ExpiryOf(timeout)]
  /\ left' = [left EXCEPT ![t] = IF timeout = Infinite THEN 0 ELSE timeout]
  /\ queue' = [queue EXCEPT ![d] = Append(@, t)]
  /\ place' = [place EXCEPT ![t] = "queue"]

\* What LoadNextTransaction returns: the current one, or else the oldest queued.
NextTransaction(d) ==
  IF curr[d] # NoTrans \/ queue[d] = << >> THEN curr[d] ELSE Head(queue[d])

\* (variant: the transaction taken from the queue is not made current)
LoadNextTransaction_NotKept(d) ==
  /\ queue' = IF curr[d] = NoTrans /\ queue[d] # << >> THEN [queue EXCEPT ![d] = Tail(@)] ELSE queue
  /\ UNCHANGED <<curr, transferred>>

LoadNextTransaction(d) ==
  IF curr[d] = NoTrans /\ queue[d] # << >>
  THEN /\ curr' = [curr EXCEPT ![d] = Head(queue[d])]
       /\ queue' = [queue EXCEPT ![d] = Tail(@)]
       /\ transferred' = [transferred EXCEPT ![Head(queue[d])] = 0]
  ELSE UNCHANGED <<curr, queue, transferred>>

\* CommitTransaction up to mpExitCritical: len bytes more, and the current
\* transaction is taken out if it is complete or forced to be.
CommitSection(d, len, force) ==
  IF curr[d] = NoTrans
  THEN UNCHANGED <<curr, transferred>>
  ELSE /\ transferred' = [transferred EXCEPT ![curr[d]] = @ + len]
       /\ curr' = IF force \/ transferred'[curr[d]] >= Length
                  THEN [curr EXCEPT ![d] = NoTrans] ELSE curr

Detached(d) == IF curr[d] # NoTrans /\ curr'[d] = NoTrans THEN curr[d] ELSE NoTrans

\* completedCb gives the transaction back, or frees its memory.  The fields the
\* queue reads only of what it owns are cleared here, where they go out of use.
HandedBack(t) == IF callback[t] = "free" THEN "heap" ELSE "app"
CompletedCb(t) ==
  /\ place' = [place EXCEPT ![t] = HandedBack(t)]
  /\ left' = [left EXCEPT ![t] = 0]
  /\ expiry' = [expiry EXCEPT ![t] = Infinite]
  /\ transferred' = [transferred EXCEPT ![t] = 0]

-----------------------------------------------------------------------------
(* The application.                                                        *)

MallocWithPayload(t, cb) ==
  /\ place[t] = "heap"
  /\ place' = [place EXCEPT ![t] = "app"]
  /\ InitTransaction(t, cb)
  /\ UNCHANGED <<listVars, left, valid, now, driver, purger>>

AllocAndInitTransaction ==
  /\ valid
  /\ freeQueue # << >>
  /\ freeQueue' = Tail(freeQueue)
  /\ place' = [place EXCEPT ![Head(freeQueue)] = "app"]
  /\ InitTransaction(Head(freeQueue), "app")
  /\ UNCHANGED <<queue, curr, left, valid, now, driver, purger>>

FreeTransaction(t) ==
  /\ valid
  /\ t \in PoolTrans
  /\ place[t] = "app"
  /\ freeQueue' = Append(freeQueue, t)
  /\ place' = [place EXCEPT ![t] = "pool"]
  /\ UNCHANGED <<queue, curr, callback, transferred, expiry, left, valid, now, driver, purger>>

\* QueueWrite and QueueRead of the base class.
Queue(t, d, timeout) ==
  /\ valid
  /\ place[t] = "app"
  /\ Enqueue(t, d, timeout)
  /\ UNCHANGED <<curr, freeQueue, callback, transferred, valid, now, driver, purger>>

\* Write: the bytes are copied to a transaction that frees itself.
Write(t) ==
  /\ valid
  /\ place[t] = "heap"
  /\ callback' = [callback EXCEPT ![t] = "free"]
  /\ transferred' = [transferred EXCEPT ![t] = 0]
  /\ Enqueue(t, TX, Infinite)
  /\ UNCHANGED <<curr, freeQueue, valid, now, driver, purger>>

\* ~BufIOQueue: only an application that has every transaction back may do it.
Destroy ==
  /\ valid
  /\ \A t \in Trans : place[t] # "queue"
  /\ purger.pc = "idle" /\ \A d \in Dirs : driver[d].pc = "idle"
  /\ valid' = FALSE
  /\ UNCHANGED <<listVars, transVars, now, driver, purger>>

\* OSALGetMS goes on.  Bound: left stops counting once a transaction is more
\* than HalfRange late.
Tick ==
  /\ now' = (now + 1) % (2 * HalfRange)
  /\ left' = [t \in Trans |->
       IF place[t] = "queue" /\ expiry[t] # Infinite /\ left[t] >= -HalfRange
       THEN left[t] - 1 ELSE left[t]]
  /\ UNCHANGED <<listVars, place, callback, transferred, expiry, valid, driver, purger>>

-----------------------------------------------------------------------------
(* The driver of a direction.                                              *)

DriverLoad(d) ==
  /\ valid
  /\ driver[d].pc = "idle"
  /\ NextTransaction(d) # NoTrans
  /\ LoadNextTransaction(d)
  /\ driver' = [driver EXCEPT ![d] = 
       [pc |-> "loaded", trans |-> NextTransaction(d),
        len |-> Length - transferred'[NextTransaction(d)]]]
  /\ UNCHANGED <<freeQueue, place, callback, expiry, left, valid, now, purger>>

\* The hardware moves len of the bytes that are left, possibly not all.
DriverCommit(d, len, force) ==
  /\ driver[d].pc = "loaded"
  /\ len <= driver[d].len
  /\ CommitSection(d, len, force)
  /\ driver' = [driver EXCEPT ![d] =
       IF Detached(d) = NoTrans THEN IdleDriver
       ELSE [pc |-> "callback", trans |-> Detached(d), len |-> 0]]
  /\ UNCHANGED <<queue, freeQueue, place, callback, expiry, left, valid, now, purger>>

DriverCallback(d) ==
  /\ driver[d].pc = "callback"
  /\ CompletedCb(driver[d].trans)
  /\ driver' = [driver EXCEPT ![d] = IdleDriver]
  /\ UNCHANGED <<listVars, callback, valid, now, purger>>

Driver(d) ==
  DriverLoad(d) \/ DriverCallback(d) \/ \E len \in 1..Length, f \in BOOLEAN : DriverCommit(d, len, f)

-----------------------------------------------------------------------------
(* PurgeOldTxMessages, PurgeOldRxMessages, FlushActiveTxTransaction and    *)
(* FlushActiveRxTransaction, which any thread may call.                    *)

\* The loop over a list that leaves out the members of S: the others, in their order.
Without(s, S) ==
  LET kept == {i \in DOMAIN s : s[i] \notin S}
      Nth(k) == CHOOSE i \in kept : Cardinality({j \in kept : j <= i}) = k
  IN  [k \in 1..Cardinality(kept) |-> s[Nth(k)]]

PurgeOldMessages(d, all) ==
  LET old == {t \in Trans : all \/ TransactionIsExpired(t)}
  IN /\ valid
     /\ purger.pc = "idle"
     /\ queue' = [queue EXCEPT ![d] = Without(@, old)]
     /\ purger' = [pc |-> "test", dir |-> d, all |-> all,
                   purged |-> Without(queue[d], Trans \ old), flushed |-> NoTrans]
     /\ UNCHANGED <<curr, freeQueue, transVars, valid, now, driver>>

\* A flush is the part of a purge that ends the current transaction.
FlushActive(d) ==
  /\ valid
  /\ purger.pc = "idle"
  /\ purger' = [IdlePurger EXCEPT !.pc = "flush", !.dir = d]
  /\ UNCHANGED <<listVars, transVars, valid, now, driver>>

\* The test of mpTxCurr outside any critical section.
PurgeTest ==
  LET t == curr[purger.dir]
  IN /\ purger.pc = "test"
     /\ purger' = [purger EXCEPT !.pc =
          IF t # NoTrans /\ (purger.all \/ TransactionIsExpired(t)) THEN "flush" ELSE "drain"]
     /\ UNCHANGED <<listVars, transVars, valid, now, driver>>

\* (variant: the current pointer is not cleared)
FlushActiveTransaction_Keeps ==
  /\ purger.pc = "flush"
  /\ purger' = [purger EXCEPT !.pc = IF curr[purger.dir] = NoTrans THEN "drain" ELSE "callback",
                              !.flushed = curr[purger.dir]]
  /\ UNCHANGED <<listVars, transVars, valid, now, driver>>

\* (variant: the next transaction is started at once)
FlushActiveTransaction_StartsNext ==
  LET d == purger.dir
  IN /\ purger.pc = "flush"
     /\ IF curr[d] # NoTrans /\ queue[d] # << >>
        THEN curr' = [curr EXCEPT ![d] = Head(queue[d])] /\ queue' = [queue EXCEPT ![d] = Tail(@)]
        ELSE curr' = [curr EXCEPT ![d] = NoTrans] /\ UNCHANGED queue
     /\ purger' = [purger EXCEPT !.pc = IF curr[d] = NoTrans THEN "drain" ELSE "callback",
                                 !.flushed = curr[d]]
     /\ UNCHANGED <<freeQueue, transVars, valid, now, driver>>

FlushActiveTransaction ==
  LET d == purger.dir
  IN /\ purger.pc = "flush"
     /\ curr' = [curr EXCEPT ![d] = NoTrans]
     /\ purger' = [purger EXCEPT !.pc = IF curr[d] = NoTrans THEN "drain" ELSE "callback",
                                 !.flushed = curr[d]]
     /\ UNCHANGED <<queue, freeQueue, transVars, valid, now, driver>>

FlushCallback ==
  /\ purger.pc = "callback"
  /\ CompletedCb(purger.flushed)
  /\ purger' = [purger EXCEPT !.pc = "drain", !.flushed = NoTrans]
  /\ UNCHANGED <<listVars, callback, valid, now, driver>>

\* for_each_pop: the callbacks of the purged, one after the other.
PurgeDrain ==
  /\ purger.pc = "drain"
  /\ IF purger.purged = << >>
     THEN purger' = IdlePurger /\ UNCHANGED <<place, left, expiry, transferred>>
     ELSE /\ CompletedCb(Head(purger.purged))
          /\ purger' = [purger EXCEPT !.purged = Tail(@)]
  /\ UNCHANGED <<listVars, callback, valid, now, driver>>

PurgeStep == PurgeTest \/ FlushActiveTransaction \/ FlushCallback \/ PurgeDrain

=============================================================================
