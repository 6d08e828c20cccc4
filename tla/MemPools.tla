------------------------------ MODULE MemPools ------------------------------
(***************************************************************************)
(* The allocator of src/sop_src/osal/mempools.cpp in its debugging build:  *)
(* blocks of the mbed TLS buffer allocator with a header in the list of    *)
(* allocated blocks, the heap when the pool is exhausted or asked for, and *)
(* operator new and delete over both.  The two allocators below are        *)
(* external: they hand out any block that is not in use.                   *)
(***************************************************************************)
EXTENDS Naturals, FiniteSets

CONSTANTS Pool,      \* blocks inside mempools_buf
          Heap,      \* blocks outside
          Clients,   \* threads that allocate and free
          NoBlock,   \* the null pointer
          Ids        \* allocation ids, 0 among them

ASSUME MemAssumption == Pool \cap Heap = {} /\ NoBlock \notin Pool \cup Heap

Blocks == Pool \cup Heap

VARIABLES
  initialized,   \* mInitialized
  newOverride,   \* mNewDeleteOverride
  inUse,         \* blocks that calloc or mbedtls_calloc has handed out
  header,        \* per pool block: magic ("none", "magic", "freed") and id
  allocated,     \* mempools_allocatedList; its order is never looked at
  owned,         \* per client: the blocks it may use
  stale,         \* per client: the last block it freed
  call           \* per client: the call it is in

memVars == <<initialized, newOverride, inUse, header, allocated, owned, stale, call>>

NoCall == [op |-> "none", block |-> NoBlock, id |-> 0]
NoHeader == [magic |-> "none", id |-> 0]

\* OSALInit has run MemPoolsInitialize before there are threads, or has not.
MemInit ==
  /\ initialized \in BOOLEAN
  /\ newOverride = FALSE
  /\ inUse = {}
  /\ header = [p \in Pool |-> NoHeader]
  /\ allocated = {}
  /\ owned = [c \in Clients |-> {}]
  /\ stale = [c \in Clients |-> NoBlock]
  /\ call = [c \in Clients |-> NoCall]

mempools_IsWithinPool(b) == b \in Pool

\* MP_INIT in the first call: it comes before any thread but the caller.
MemPoolsInitialize ==
  /\ ~initialized
  /\ initialized' = TRUE
  /\ UNCHANGED <<newOverride, inUse, header, allocated, owned, stale, call>>

MemPoolsEnableNewOverride(enable) ==
  /\ initialized
  /\ newOverride' = enable
  /\ UNCHANGED <<initialized, inUse, header, allocated, owned, stale, call>>

-----------------------------------------------------------------------------
(* Allocation.                                                             *)

\* mbedtls_calloc finds a block: the header is written, then listed under lock.
PoolMalloc(c, id) ==
  /\ initialized
  /\ call[c] = NoCall
  /\ \E p \in Pool \ inUse :
       /\ inUse' = inUse \cup {p}
       /\ header' = [header EXCEPT ![p] = [magic |-> "magic", id |-> id]]
       /\ call' = [call EXCEPT ![c] = [op |-> "list", block |-> p, id |-> id]]
  /\ UNCHANGED <<initialized, newOverride, allocated, owned, stale>>

PoolMallocList(c) ==
  /\ call[c].op = "list"
  /\ allocated' = allocated \cup {call[c].block}
  /\ owned' = [owned EXCEPT ![c] = @ \cup {call[c].block}]
  /\ call' = [call EXCEPT ![c] = NoCall]
  /\ UNCHANGED <<initialized, newOverride, inUse, header, stale>>

\* useHeap, or the pool has no block left; heap blocks carry no header.
HeapMalloc(c) ==
  /\ call[c] = NoCall
  /\ \E h \in Heap \ inUse :
       /\ inUse' = inUse \cup {h}
       /\ owned' = [owned EXCEPT ![c] = @ \cup {h}]
  /\ UNCHANGED <<initialized, newOverride, header, allocated, stale, call>>

MemPoolsMallocWithId(c, id, useHeap) ==
  \/ ~useHeap /\ PoolMalloc(c, id)
  \/ initialized /\ (useHeap \/ (Pool \subseteq inUse /\ id = 0)) /\ HeapMalloc(c)

\* operator new: before the initialisation from calloc, afterwards from the pool
\* only while the override is on.
OperatorNew(c) ==
  IF newOverride THEN MemPoolsMallocWithId(c, 0, FALSE)
  ELSE IF initialized THEN MemPoolsMallocWithId(c, 0, TRUE) ELSE HeapMalloc(c)

-----------------------------------------------------------------------------
(* Release.                                                                *)

\* (variant: which heap a block goes back to depends on the override)
MemPoolsFree_ByOverride(c, b) ==
  /\ call[c] = NoCall
  /\ owned' = [owned EXCEPT ![c] = @ \ {b}]
  /\ stale' = [stale EXCEPT ![c] = b]
  /\ IF newOverride /\ mempools_IsWithinPool(b)
     THEN call' = [call EXCEPT ![c] = [op |-> "unlist", block |-> b, id |-> 0]] /\ UNCHANGED inUse
     ELSE inUse' = inUse \ {b} /\ UNCHANGED call
  /\ UNCHANGED <<initialized, newOverride, header, allocated>>

\* The caller gives up b.  A block of the pool must have the magic number.
MemPoolsFree(c, b) ==
  /\ call[c] = NoCall
  /\ owned' = [owned EXCEPT ![c] = @ \ {b}]
  /\ stale' = [stale EXCEPT ![c] = b]
  /\ IF ~mempools_IsWithinPool(b)
     THEN inUse' = inUse \ {b} /\ UNCHANGED call
     ELSE /\ call' = IF header[b].magic = "magic"
                     THEN [call EXCEPT ![c] = [op |-> "unlist", block |-> b, id |-> 0]]
                     ELSE call
          /\ UNCHANGED inUse
  /\ UNCHANGED <<initialized, newOverride, header, allocated>>

\* (variant: the block goes back to the allocator while it is listed)
FreeUnlist_Later(c) ==
  /\ call[c].op = "unlist"
  /\ header' = [header EXCEPT ![call[c].block].magic = "freed"]
  /\ call' = [call EXCEPT ![c].op = "release"]
  /\ UNCHANGED <<initialized, newOverride, inUse, allocated, owned, stale>>

FreeUnlist(c) ==
  /\ call[c].op = "unlist"
  /\ allocated' = allocated \ {call[c].block}
  /\ header' = [header EXCEPT ![call[c].block].magic = "freed"]
  /\ call' = [call EXCEPT ![c].op = "release"]
  /\ UNCHANGED <<initialized, newOverride, inUse, owned, stale>>

\* mbedtls_free; the content of a free block is kept until it is handed out.
FreeRelease(c) ==
  /\ call[c].op = "release"
  /\ inUse' = inUse \ {call[c].block}
  /\ call' = [call EXCEPT ![c] = NoCall]
  /\ UNCHANGED <<initialized, newOverride, header, allocated, owned, stale>>

\* A client frees its last block of the pool again, before anyone else got it.
FreeAgain(c) ==
  /\ stale[c] \in Pool \ inUse
  /\ MemPoolsFree(c, stale[c])

\* operator delete; before the initialisation only heap blocks exist.
OperatorDelete(c, b) == b \in owned[c] /\ MemPoolsFree(c, b)

\* MemPoolsGetAllocationsWithAllocId, under the lock.
AllocationsWithId(id) == Cardinality({p \in allocated : header[p].id = id})

MemNext ==
  \/ MemPoolsInitialize
  \/ \E e \in BOOLEAN : MemPoolsEnableNewOverride(e)
  \/ \E c \in Clients :
       \/ \E id \in Ids, h \in BOOLEAN : (h => id = 0) /\ MemPoolsMallocWithId(c, id, h)
       \/ OperatorNew(c)
       \/ PoolMallocList(c)
       \/ \E b \in owned[c] : OperatorDelete(c, b)
       \/ FreeUnlist(c) \/ FreeRelease(c) \/ FreeAgain(c)

-----------------------------------------------------------------------------
(* Properties.                                                             *)

Owns(c, b) == b \in owned[c]
Handles(c, b) == call[c].block = b

\* Whatever the flags were when a block was allocated and are when it is freed,
\* and however two threads interleave, a block belongs to one client or call at
\* most, it is in use in the allocator it came from exactly while it does, and
\* a second free of it is refused (mempools.cpp 276-326, 434-482).
BlocksOwnedOnce ==
  \A b \in Blocks :
    /\ \A c, d \in Clients : Owns(c, b) /\ Owns(d, b) => c = d
    /\ \A c, d \in Clients : Handles(c, b) /\ Handles(d, b) => c = d
    /\ \A c, d \in Clients : ~(Owns(c, b) /\ Handles(d, b))
    /\ b \in inUse <=> \E c \in Clients : Owns(c, b) \/ Handles(c, b)

\* The list that MemPoolsForEachWithAllocId walks, from which the tests count
\* leaks, holds the blocks of the pool that clients have or are about to lose,
\* each with the header it was given.
ListedExactly ==
  \A p \in Pool :
    /\ p \in allocated <=>
         \E c \in Clients : Owns(c, p) \/ (Handles(c, p) /\ call[c].op = "unlist")
    /\ p \in allocated => header[p].magic = "magic"
=============================================================================
