------------------------------ MODULE LogRing ------------------------------
(***************************************************************************)
(* The logger of src/sop_src/utils/platform_log.cpp as it is built for an  *)
(* embedded system with tasks: LOG_VPrintf formats a line and reserves an  *)
(* event and room in the ring under the task critical section; the line    *)
(* goes to the log function, and the event back, outside of it.  A line is *)
(* its length and the thread whose bytes are in the ring.                  *)
(***************************************************************************)
EXTENDS Naturals, Sequences, FiniteSets

CONSTANTS LogThreads,    \* threads that log
          NumFreeEvents, \* NUM_FREE_EVENTS
          RingSize,      \* sizeof(mByteAry)
          LineLens,      \* printed + 1: bytes of a line with its terminator
          PayloadMod     \* payloadLen is a uint8_t: 256

ASSUME LogAssumption ==
  /\ IsFiniteSet(LogThreads) /\ LineLens \subseteq Nat \ {0}
  /\ NumFreeEvents \in Nat /\ {RingSize, PayloadMod} \subseteq Nat \ {0}

VARIABLES
  logFree,      \* mFreeEventsList
  logWrIdx,     \* nWrIdx of mByteQ
  logRing,      \* mByteAry: the thread whose bytes are there
  logLine,      \* per thread: pPayload and payloadLen between AddBuf and TimerCb
  logSince      \* per thread: bytes nWrIdx has gone on since the start of its line

logVars == <<logFree, logWrIdx, logRing, logLine, logSince>>

Events == 1 .. NumFreeEvents
NoLine == [event |-> 0, start |-> 0, len |-> 0, printed |-> FALSE]

LogInit ==
  /\ logFree = [e \in Events |-> e]
  /\ logWrIdx = 0
  /\ logRing = [i \in 0 .. RingSize - 1 |-> "unused"]
  /\ logLine = [t \in LogThreads |-> NoLine]
  /\ logSince = [t \in LogThreads |-> 0]

\* The index a line of len bytes starts at: there is no split over the end.
StartFor(len) == IF RingSize - logWrIdx < len THEN 0 ELSE logWrIdx

\* AddBuf once it has an event: copy the line to the ring, go on by "advance".
Reserve(t, len, advance) ==
  LET start == StartFor(len)
      skipped == IF start = 0 THEN RingSize - logWrIdx ELSE 0
  IN /\ logLine' = [logLine EXCEPT ![t] = [event |-> Head(logFree), start |-> start,
                                           len |-> len % PayloadMod, printed |-> FALSE]]
     /\ logRing' = [i \in DOMAIN logRing |->
                     IF i \in start .. start + len - 1 THEN t ELSE logRing[i]]
     /\ logWrIdx' = start + advance
     /\ logSince' = [u \in LogThreads |->
                      IF u = t THEN len
                      ELSE IF logLine[u] = NoLine THEN 0
                      ELSE IF logSince[u] + skipped + len > RingSize THEN RingSize + 1
                      ELSE logSince[u] + skipped + len]

\* (variant: the event is taken before the length is looked at)
AddBuf_TakeFirst(t, len) ==
  /\ logFree # <<>>
  /\ logFree' = Tail(logFree)
  /\ IF 2 * len <= RingSize THEN Reserve(t, len, len)
     ELSE UNCHANGED <<logWrIdx, logRing, logLine, logSince>>

\* (variant: the next line starts on the terminator of this one)
AddBuf_NoTerminator(t, len) ==
  /\ logFree # <<>> /\ 2 * len <= RingSize
  /\ logFree' = Tail(logFree)
  /\ Reserve(t, len, len - 1)

\* A line over half the ring, or one without a free event, is dropped.
AddBuf(t, len) ==
  /\ logFree # <<>> /\ 2 * len <= RingSize
  /\ logFree' = Tail(logFree)
  /\ Reserve(t, len, len)

LOG_VPrintf(t, len) == logLine[t] = NoLine /\ AddBuf(t, len)

\* ProcessBuf and TimerCb: mLogFn reads the payload without the lock ...
TimerCbPrint(t) ==
  /\ logLine[t] # NoLine /\ ~logLine[t].printed
  /\ logLine' = [logLine EXCEPT ![t].printed = TRUE]
  /\ UNCHANGED <<logFree, logWrIdx, logRing, logSince>>

\* ... and the event goes back under it.
TimerCbFree(t) ==
  /\ logLine[t].printed
  /\ logFree' = Append(logFree, logLine[t].event)
  /\ logLine' = [logLine EXCEPT ![t] = NoLine]
  /\ logSince' = [logSince EXCEPT ![t] = 0]
  /\ UNCHANGED <<logWrIdx, logRing>>

LogNext ==
  \E t \in LogThreads :
    (\E len \in LineLens : LOG_VPrintf(t, len)) \/ TimerCbPrint(t) \/ TimerCbFree(t)

-----------------------------------------------------------------------------
(* Properties.                                                             *)

\* No interleaving of lines, dropped ones among them, loses an event or gives
\* one to two lines (platform_log.cpp 193-201, 236-263).
LogEventsConserved ==
  \A e \in Events :
    Cardinality({i \in DOMAIN logFree : logFree[i] = e})
      + Cardinality({t \in LogThreads : logLine[t].event = e}) = 1

\* Until the line is printed its bytes stay its own, provided the index has not
\* come round to them since: the ring does not wait for slow readers, it is only
\* as long as the lines other tasks log meanwhile.
LogLinesIntact ==
  \A t \in LogThreads :
    LET line == logLine[t]
    IN (line # NoLine /\ ~line.printed /\ logSince[t] <= RingSize)
         => \A i \in line.start .. line.start + line.len - 1 :
              i \in DOMAIN logRing /\ logRing[i] = t
=============================================================================
