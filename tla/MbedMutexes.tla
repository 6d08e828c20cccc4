----------------------------- MODULE MbedMutexes -----------------------------
(***************************************************************************)
(* mbedtls/threading_alt.cpp: the mutexes mbedtls asks for are nodes of a  *)
(* small pool, and locking any of them enters the one task-critical        *)
(* section.  Freeing hands the node back inside the section and clears the *)
(* owner's pointer after it.                                               *)
(***************************************************************************)
EXTENDS Naturals, Sequences, SequencesExt, FiniteSets

CONSTANTS MmThreads, MmNobody,
          MmNodes,       \* mbedtls_mutexes
          MmHandles,     \* mbedtls_threading_mutex_t variables
          MmNull

ASSUME MmAssumption == IsFiniteSet(MmNodes) /\ MmNull \notin MmNodes \cup MmHandles

VARIABLES mmFree,        \* mbedtls_freeMutexes
          mmutex,        \* handle -> its node
          mmFreeing,     \* thread -> the handle it is freeing
          mmLocked,      \* handle -> its lock is held
          mmOwner        \* of the critical section
mmVars == <<mmFree, mmutex, mmFreeing, mmLocked, mmOwner>>

\* MbedInitThreadingAlt, once (the pool of MBEDTLS_FS_IO is not built)
MmInit ==
  /\ mmFree = SetToSeq(MmNodes) /\ mmutex = [h \in MmHandles |-> MmNull]
  /\ mmFreeing = [t \in MmThreads |-> MmNull]
  /\ mmLocked = [h \in MmHandles |-> FALSE] /\ mmOwner = MmNobody

InSection(t) == mmOwner \in {t, MmNobody}
Busy(h) == \E t \in MmThreads : mmFreeing[t] = h

\* an empty pool leaves the pointer alone
mbedtls_mutex_init_fn(t, h) ==
  /\ InSection(t) /\ mmutex[h] = MmNull /\ mmFree # <<>>
  /\ mmutex' = [mmutex EXCEPT ![h] = Head(mmFree)] /\ mmFree' = Tail(mmFree)
  /\ UNCHANGED <<mmFreeing, mmLocked, mmOwner>>

\* mbedtls frees a mutex it does not hold, from one thread; a second free does nothing
mbedtls_mutex_free_fn(t, h) ==
  /\ InSection(t) /\ mmFreeing[t] = MmNull /\ ~Busy(h) /\ ~mmLocked[h]
  /\ mmutex[h] # MmNull
  /\ mmFree' = Append(RemoveFirst(mmFree, mmutex[h]), mmutex[h])   \* DLL_NodeUnlist, push_back
  /\ mmFreeing' = [mmFreeing EXCEPT ![t] = h]
  /\ UNCHANGED <<mmutex, mmLocked, mmOwner>>
FreeClear_Not(t) ==                        \* (variant: the pointer keeps the node)
  /\ mmFreeing[t] # MmNull
  /\ mmFreeing' = [mmFreeing EXCEPT ![t] = MmNull]
  /\ UNCHANGED <<mmFree, mmutex, mmLocked, mmOwner>>
FreeClear(t) ==
  /\ mmFreeing[t] # MmNull
  /\ mmutex' = [mmutex EXCEPT ![mmFreeing[t]] = MmNull]
  /\ mmFreeing' = [mmFreeing EXCEPT ![t] = MmNull]
  /\ UNCHANGED <<mmFree, mmLocked, mmOwner>>

\* whichever mutex it is, its lock is the section's
mbedtls_mutex_lock_fn(t, h) ==
  /\ InSection(t) /\ mmutex[h] # MmNull /\ ~Busy(h) /\ ~mmLocked[h]
  /\ mmLocked' = [mmLocked EXCEPT ![h] = TRUE] /\ mmOwner' = t
  /\ UNCHANGED <<mmFree, mmutex, mmFreeing>>
mbedtls_mutex_unlock_fn(t, h) ==
  /\ mmOwner = t /\ mmLocked[h]
  /\ mmLocked' = [mmLocked EXCEPT ![h] = FALSE]
  /\ mmOwner' = IF \E g \in MmHandles : mmLocked'[g] THEN t ELSE MmNobody
  /\ UNCHANGED <<mmFree, mmutex, mmFreeing>>

MmNext == \E t \in MmThreads :
  \/ FreeClear(t)
  \/ \E h \in MmHandles :
       \/ mbedtls_mutex_init_fn(t, h) \/ mbedtls_mutex_free_fn(t, h)
       \/ mbedtls_mutex_lock_fn(t, h) \/ mbedtls_mutex_unlock_fn(t, h)
MmSpec == MmInit /\ [][MmNext]_mmVars

\* No two mutexes in use share a node, none in use is in the pool for somebody else
\* to take, and the pool holds a node at most once, whatever is freed while others
\* initialise: only a pointer that is being cleared may name a node of the pool.
MbedNodesApart ==
  /\ \A h, g \in MmHandles :
       /\ mmutex[h] # MmNull /\ ~Busy(h)
       => /\ ~Contains(mmFree, mmutex[h])
          /\ (h # g /\ ~Busy(g) => mmutex[g] # mmutex[h])
  /\ \A i, j \in DOMAIN mmFree : i # j => mmFree[i] # mmFree[j]
=============================================================================
