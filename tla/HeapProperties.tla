---------------------------- MODULE HeapProperties ----------------------------
(****************************************************************************)
(* What malloc, free and realloc keep true as long as no ASSERT has failed. *)
(****************************************************************************)
EXTENDS HeapCalls

FreeBlocks == {freeList[i] : i \in DOMAIN freeList}
Cells(b)   == b.addr .. b.addr + b.size

\* The types, and SBRK's bookkeeping: the break has moved by the pages PMM has
\* given, no more and no less.
TypeOK ==
  /\ FreeBlocks \cup used \subseteq Block
  /\ frames \in 0 .. Frames /\ brk = (Frames - frames) * PageUnits
  /\ freesSinceMerge \in 0 .. MergeThreshold - 1
  /\ failed \in {"none", "order", "connected"}
  /\ call \in [Client -> {NoCall} \cup [todo : {"malloc", "free"}, old : Block]]

\* No two blocks, free or in use, share a cell, and all lie below the break:
\* splitting, extending, merging and trimming never hand memory out twice.
NoOverlap ==
  failed = "none" =>
    /\ FreeBlocks \cap used = {}
    /\ \A b \in FreeBlocks \cup used : b.size > 0 /\ Cells(b) \subseteq 0 .. brk - 1
    /\ \A a, b \in FreeBlocks \cup used : a # b => Cells(a) \cap Cells(b) = {}

\* The free list is in the order of the addresses, whatever the order in which
\* blocks are freed (merge and the batch that extends the last block rely on it).
ListAscends ==
  failed = "none" =>
    \A i, j \in DOMAIN freeList : i < j => freeList[i].addr < freeList[j].addr

\* No memory below the break gets lost, except whole pages: those an SBRK had
\* mapped when it ran out of them.
NothingLost ==
  failed = "none" =>
    LET Lost == (0 .. brk - 1) \ UNION {Cells(b) : b \in FreeBlocks \cup used}
    IN  \A u \in Lost : \A v \in 0 .. brk - 1 :
          u \div PageUnits = v \div PageUnits => v \in Lost

\* The free that merges leaves no two free blocks that touch: a later malloc of
\* their joint size is served from them.
MergeIsComplete ==
  [][freesSinceMerge' < freesSinceMerge =>
       \A a, b \in {freeList'[i] : i \in DOMAIN freeList'} :
         a.addr + a.size + 1 # b.addr]_vars

\* The blocks in use are those of an allocator: whatever the contexts call, and
\* whatever happens between the two halves of a realloc, a block in use is not
\* moved, resized or handed out again.
AllocatorSpec == INSTANCE Allocator WITH
  Memory    <- Frames * PageUnits,
  Sizes     <- {Units(n) : n \in MallocSizes \cup ReallocSizes},
  allocated <- used
RefinesAllocator == AllocatorSpec!Spec

\* ASSERT(isConnectedToSbrk(lastFreeBlock)), alloc.cpp:199: the last free block
\* ends at the break after its whole pages have been given back.
TrimStaysConnected == failed # "connected"

\* ASSERT(block->next == NULL || block->next > block), alloc.cpp:181: a freed
\* block is linked before a block behind it, not before itself.
FreedBlockIsOrdered == failed # "order"
===============================================================================
