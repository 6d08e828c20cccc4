----------------------------- MODULE OsalRandom -----------------------------
(***************************************************************************)
(* Random bytes: the cache of src/sop_src/osal/osal_random.cpp, the task   *)
(* that refills it, and the entropy source of osal_entropy.cpp             *)
(* (OsalShaEntropySrc) below it.  CSTaskLocker makes one iteration of a    *)
(* loop one step; WriteText and Serialize keep the lock all along.  A byte *)
(* is the seed that had been given last when it was generated: hashing is  *)
(* external, and that text changes the hash too is left out.               *)
(***************************************************************************)
EXTENDS Naturals, Sequences

CONSTANTS RndThreads,    \* threads that read, seed and add text
          RndNone,       \* no thread
          BlockSize,     \* MBEDTLS_ENTROPY_BLOCK_SIZE
          CacheSize,     \* CACHED_ENTROPY_BYTES
          ReadSizes,     \* values of numBytes
          ReseedSize,    \* GetReseedSize()
          TextSizes,     \* values of len in WriteText
          TextQSize      \* size of mIncomingEntropyArr

ASSUME RndAssumption ==
  {BlockSize, CacheSize, ReseedSize} \subseteq Nat /\ ReadSizes \subseteq Nat

VARIABLES
  rndCache,    \* mEntropyCacheQ
  rndSched,    \* mResched is scheduled
  rndRead,     \* per thread: its OSALRandom call
  rndSeed,     \* which seed the source works from, modulo 2
  rndUnique,   \* mUniqueEntropyReceived
  rndTextQ,    \* bytes in mIncomingEntropyQ
  rndText,     \* bytes WriteText still has to queue
  rndLock      \* the thread inside WriteText's or Serialize's task critical section

rndVars == <<rndCache, rndSched, rndRead, rndSeed, rndUnique, rndTextQ, rndText, rndLock>>

NoRead == [pc |-> "none", left |-> 0, got |-> {}, reseeded |-> FALSE]

RndInit ==
  /\ rndCache = <<>>
  /\ rndSched = FALSE
  /\ rndRead = [t \in RndThreads |-> NoRead]
  /\ rndSeed = 0
  /\ rndUnique = FALSE
  /\ rndTextQ = 0
  /\ rndText = 0
  /\ rndLock = RndNone

-----------------------------------------------------------------------------
(* Generating.                                                             *)

RndMin(a, b) == IF a < b THEN a ELSE b

\* A loop over hashes of at most 64 bytes.
GetEntropy(len) == [i \in 1 .. len |-> rndSeed]

\* Every source of the list in turn fills the output: there is one.
mbedtls_hardware_poll(len) == GetEntropy(len)

\* At most one block; mbedtls_entropy_func, which hashes what it polls, is external.
OsalRegenEntropyNoCs(cache) ==
  cache \o mbedtls_hardware_poll(RndMin(CacheSize - Len(cache), BlockSize))

\* The task mResched runs.
OsalRegenEntropyTask_Once ==  \* (variant: does not come back for the rest)
  /\ rndLock = RndNone /\ rndSched
  /\ rndCache' = OsalRegenEntropyNoCs(rndCache)
  /\ rndUnique' = (rndUnique \/ Len(rndCache) < CacheSize)
  /\ rndSched' = FALSE
  /\ UNCHANGED <<rndRead, rndSeed, rndTextQ, rndText, rndLock>>

OsalRegenEntropyTask ==
  /\ rndLock = RndNone /\ rndSched
  /\ rndCache' = OsalRegenEntropyNoCs(rndCache)
  /\ rndUnique' = (rndUnique \/ Len(rndCache) < CacheSize)
  /\ rndSched' = (Len(rndCache') < CacheSize)
  /\ UNCHANGED <<rndRead, rndSeed, rndTextQ, rndText, rndLock>>

-----------------------------------------------------------------------------
(* Reading.                                                                *)

ReadBegin(t, n) ==
  /\ rndRead[t].pc = "none" /\ rndLock # t
  /\ rndRead' = [rndRead EXCEPT ![t] = [NoRead EXCEPT !.pc = "loop", !.left = n]]
  /\ UNCHANGED <<rndCache, rndSched, rndSeed, rndUnique, rndTextQ, rndText, rndLock>>

\* One iteration of Read's loop: what the cache has, and a block if that was short.
ReadIteration(t) ==
  LET k == RndMin(rndRead[t].left, Len(rndCache))
      rest == SubSeq(rndCache, k + 1, Len(rndCache))
      short == k < rndRead[t].left
  IN /\ rndLock \in {RndNone, t}
     /\ rndRead[t].pc = "loop" /\ rndRead[t].left > 0
     /\ rndRead' = [rndRead EXCEPT ![t].left = @ - k,
                                   ![t].got = @ \cup {rndCache[i] : i \in 1 .. k}]
     /\ rndCache' = IF short THEN OsalRegenEntropyNoCs(rest) ELSE rest
     /\ rndUnique' = (rndUnique \/ short)
     /\ UNCHANGED <<rndSched, rndSeed, rndTextQ, rndText, rndLock>>

\* doReschedule(10) once the loop is over; the bytes are then the caller's, and
\* Serialize unlocks.
ReadEnd(t) ==
  /\ rndRead[t].pc = "loop" /\ rndRead[t].left = 0
  /\ rndSched' = TRUE
  /\ rndRead' = [rndRead EXCEPT ![t] = NoRead]
  /\ rndLock' = IF rndLock = t THEN RndNone ELSE rndLock
  /\ UNCHANGED <<rndCache, rndSeed, rndUnique, rndTextQ, rndText>>

\* Reads bytes for the next start to be seeded with, under the lock.
Serialize(t) ==
  /\ rndRead[t].pc = "none" /\ rndLock = RndNone
  /\ rndLock' = t
  /\ rndRead' = [rndRead EXCEPT ![t] = [NoRead EXCEPT !.pc = "loop", !.left = ReseedSize]]
  /\ UNCHANGED <<rndCache, rndSched, rndSeed, rndUnique, rndTextQ, rndText>>

-----------------------------------------------------------------------------
(* Seeding.                                                                *)

\* The text, which is not empty, goes into the hash and, if it is the first, the key.
ForceReseed ==
  /\ rndSeed' = 1 - rndSeed
  /\ rndUnique' = TRUE

Deserialize_KeepCache(t) ==  \* (variant: the cache is not flushed)
  /\ rndLock = RndNone /\ rndRead[t].pc = "none"
  /\ ForceReseed
  /\ rndSched' = TRUE
  /\ rndRead' = [u \in RndThreads |-> [rndRead[u] EXCEPT !.reseeded = rndRead[u].pc # "none"]]
  /\ UNCHANGED <<rndCache, rndTextQ, rndText, rndLock>>

\* ForceReseed, Flush and doReschedule(1) under one lock.  The reads that are
\* under way may mix bytes of both seeds: "reseeded" marks them.
Deserialize(t) ==
  /\ rndLock = RndNone /\ rndRead[t].pc = "none"
  /\ ForceReseed
  /\ rndCache' = <<>>
  /\ rndSched' = TRUE
  /\ rndRead' = [u \in RndThreads |-> [rndRead[u] EXCEPT !.reseeded = rndRead[u].pc # "none"]]
  /\ UNCHANGED <<rndTextQ, rndText, rndLock>>

-----------------------------------------------------------------------------
(* Entropy text: OSALRandomWriteEntropyText, QueueEntropyText, WriteText.  *)

WriteText(t, n) ==
  /\ rndLock = RndNone /\ rndRead[t].pc = "none"
  /\ rndLock' = t
  /\ rndText' = n
  /\ UNCHANGED <<rndCache, rndSched, rndRead, rndSeed, rndUnique, rndTextQ>>

\* The queue goes into the hash, and its fill is then 0.
ConsumeTextEntropy(rdy) ==
  /\ rndTextQ' = 0
  /\ rndUnique' = (rndUnique \/ rdy > 0)

InWriteText == rndLock # RndNone /\ rndRead[rndLock].pc = "none"

WriteTextIteration_NeverFull ==  \* (variant: a full queue is not consumed)
  LET w == RndMin(rndText, TextQSize - rndTextQ)
  IN /\ InWriteText /\ rndText > 0
     /\ rndText' = rndText - w
     /\ IF ~rndUnique THEN ConsumeTextEntropy(rndTextQ + w)
        ELSE rndTextQ' = rndTextQ + w /\ UNCHANGED rndUnique
     /\ UNCHANGED <<rndCache, rndSched, rndRead, rndSeed, rndLock>>

\* Queue what fits; the queue is consumed with the first text and when it was too
\* full for the rest.
WriteTextIteration ==
  LET w == RndMin(rndText, TextQSize - rndTextQ)
  IN /\ InWriteText /\ rndText > 0
     /\ rndText' = rndText - w
     /\ IF ~rndUnique \/ w < rndText THEN ConsumeTextEntropy(rndTextQ + w)
        ELSE rndTextQ' = rndTextQ + w /\ UNCHANGED rndUnique
     /\ UNCHANGED <<rndCache, rndSched, rndRead, rndSeed, rndLock>>

WriteTextEnd ==
  /\ InWriteText /\ rndText = 0
  /\ rndLock' = RndNone
  /\ UNCHANGED <<rndCache, rndSched, rndRead, rndSeed, rndUnique, rndTextQ, rndText>>

RndNext ==
  \/ OsalRegenEntropyTask
  \/ WriteTextIteration \/ WriteTextEnd
  \/ \E t \in RndThreads :
       \/ \E n \in ReadSizes : ReadBegin(t, n)
       \/ ReadIteration(t) \/ ReadEnd(t)
       \/ Serialize(t) \/ Deserialize(t)
       \/ \E n \in TextSizes : WriteText(t, n)

\* The task runs again and again; a loop goes on unless others hold the lock
\* each time (SF: the mutex is not fair, but nobody keeps it).
RndFairness ==
  /\ SF_rndVars(OsalRegenEntropyTask)
  /\ WF_rndVars(WriteTextIteration) /\ WF_rndVars(WriteTextEnd)
  /\ \A t \in RndThreads : SF_rndVars(ReadIteration(t)) /\ WF_rndVars(ReadEnd(t))

-----------------------------------------------------------------------------
(* Properties.                                                             *)

\* However the loops of two readers, the refilling task and a reseed interleave,
\* a read that begins after a reseed and overlaps no other gets bytes of the new
\* seed only ("Ensure all future reads use new data", osal_random.cpp:75).
ReadsUseNewSeed ==
  \A t \in RndThreads : ~rndRead[t].reseeded => rndRead[t].got \subseteq {rndSeed}

\* A scheduled refill goes on block by block until the cache is full, unless
\* readers or reseeds keep emptying it (osal_random.cpp 93-101).
CacheRefilled ==
  \/ []<><<\E t \in RndThreads : Deserialize(t)>>_rndVars
  \/ rndSched ~> (Len(rndCache) = CacheSize \/ \E t \in RndThreads : rndRead[t].pc # "none")

\* WriteText leaves the task critical section for every length of text and any
\* fill of its queue, and Serialize for any fill of the cache: no iteration may
\* make no progress (osal_entropy.cpp 37-51, osal_random.cpp 129-137).
RandomLockReleased == (rndLock # RndNone) ~> (rndLock = RndNone)
=============================================================================
