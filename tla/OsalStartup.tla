---------------------------- MODULE OsalStartup -----------------------------
(***************************************************************************)
(* Memory of the FreeRTOS kernel: pvPortMalloc and vPortFree of            *)
(* src/sop_src/osal/osal_freertos.cpp, which take it from a buffer that    *)
(* only grows (utils/buf_alloc.cpp) during the start and from the memory   *)
(* pools afterwards.  The pools are external here: they hand out any       *)
(* block, and MemPools models them.                                        *)
(***************************************************************************)
EXTENDS Naturals, FiniteSets

CONSTANTS BufLenWords,   \* mBufLenWords
          WordBytes,     \* sizeof(ba_t)
          AllocSizes,    \* bytes asked for
          PoolBlocks     \* blocks of the memory pools

ASSUME StartupAssumption ==
  BufLenWords \in Nat /\ WordBytes \in Nat \ {0} /\ AllocSizes \subseteq Nat \ {0}

VARIABLES
  mempoolsStarted,
  mBufIdx,
  startupBlocks,   \* what is allocated in the buffer: first word and bytes
  poolBlocks,      \* what is allocated in the pools
  lostBlocks       \* bytes of the buffer that vPortFree was given back

startupVars == <<mempoolsStarted, mBufIdx, startupBlocks, poolBlocks, lostBlocks>>

StartupInit ==
  /\ mempoolsStarted = FALSE
  /\ mBufIdx = 0
  /\ startupBlocks = {} /\ poolBlocks = {} /\ lostBlocks = {}

AvailWords == BufLenWords - mBufIdx
AvailBytes == AvailWords * WordBytes

WordsToAlloc_Down(bytes) == bytes \div WordBytes   \* (variant: rounded down)

WordsToAlloc(bytes) == (bytes + WordBytes - 1) \div WordBytes

\* MallocWords; asking for more than there is fails an assertion, it does not return.
MallocWords(bytes) ==
  /\ WordsToAlloc(bytes) <= AvailWords
  /\ startupBlocks' = startupBlocks \cup {[at |-> mBufIdx, bytes |-> bytes]}
  /\ mBufIdx' = mBufIdx + WordsToAlloc(bytes)

pvPortMalloc(bytes) ==
  /\ IF mempoolsStarted
     THEN /\ \E p \in PoolBlocks \ poolBlocks : poolBlocks' = poolBlocks \cup {p}
          /\ UNCHANGED <<startupBlocks, mBufIdx>>
     ELSE MallocWords(bytes) /\ UNCHANGED poolBlocks
  /\ UNCHANGED <<mempoolsStarted, lostBlocks>>

\* A block of the pools: the callers free what they got after the start.
vPortFree(p) ==
  /\ mempoolsStarted /\ p \in poolBlocks
  /\ poolBlocks' = poolBlocks \ {p}
  /\ UNCHANGED <<mempoolsStarted, mBufIdx, startupBlocks, lostBlocks>>

\* During the start: "We cannot vPortFree!", the words are lost.
vPortFreeEarly(b) ==
  /\ ~mempoolsStarted /\ b \in startupBlocks
  /\ startupBlocks' = startupBlocks \ {b}
  /\ lostBlocks' = lostBlocks \cup {b}
  /\ UNCHANGED <<mempoolsStarted, mBufIdx, poolBlocks>>

\* The power goes on: from the pools from now on.  It goes off only for a reset,
\* which vPortInitialiseBlocks begins.
OSALFreertosSwitchToMempools ==
  /\ ~mempoolsStarted
  /\ mempoolsStarted' = TRUE
  /\ UNCHANGED <<mBufIdx, startupBlocks, poolBlocks, lostBlocks>>

vPortInitialiseBlocks ==
  /\ mempoolsStarted' = FALSE
  /\ mBufIdx' = 0
  /\ startupBlocks' = {} /\ poolBlocks' = {} /\ lostBlocks' = {}

StartupNext ==
  \/ \E n \in AllocSizes : pvPortMalloc(n)
  \/ \E p \in poolBlocks : vPortFree(p)
  \/ \E b \in startupBlocks : vPortFreeEarly(b)
  \/ OSALFreertosSwitchToMempools
  \/ vPortInitialiseBlocks

\* Blocks of the start lie in the buffer side by side, for every size and also
\* after some were freed and the power was switched; xPortGetFreeHeapSize tells
\* no more than what is left behind the last of them.
StartupBlocksApart ==
  /\ \A b, c \in startupBlocks \cup lostBlocks :
       b.at < c.at => b.at * WordBytes + b.bytes <= c.at * WordBytes
  /\ \A b \in startupBlocks \cup lostBlocks :
       b.at * WordBytes + b.bytes + AvailBytes <= BufLenWords * WordBytes
  /\ \A b, c \in startupBlocks : b.at = c.at => b = c
=============================================================================
