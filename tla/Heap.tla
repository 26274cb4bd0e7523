--------------------------------- MODULE Heap ---------------------------------
(****************************************************************************)
(* malloc and free (alloc.cpp) on top of VMM::SBRK.  The unit of addresses  *)
(* and sizes is 8 bytes, which is OVERHEAD, the header of a block; a block  *)
(* [addr, size] occupies addr .. addr + size.  Both run under heapLock from *)
(* their first line to their last, so each is one action; a failed ASSERT   *)
(* loops forever with the lock taken.                                       *)
(****************************************************************************)
EXTENDS Integers, Sequences, SequencesExt

CONSTANTS
  PageUnits,       \* BATCH_SIZE = PAGE_SIZE
  Frames,          \* the physical pages PMM can still hand out at the start
  MergeThreshold,  \* the 10 of freesSinceMerge >= 10
  MallocSizes      \* the sizes asked of malloc, in bytes

ASSUME HeapAssumption ==
  /\ {Frames, MergeThreshold} \subseteq Nat \ {0}
  /\ PageUnits \in Nat \ {0, 1}
  /\ MallocSizes \subseteq Nat

VARIABLES
  freeList,        \* the free blocks in the order of their next pointers
  used,            \* the blocks malloc has handed out
  brk,             \* KernelHeapEnd - KERNEL_HEAP_START
  frames,          \* the physical pages left
  freesSinceMerge,
  failed           \* the ASSERT that has failed, or "none"

heap == <<freeList, used, brk, frames, freesSinceMerge, failed>>

Block == [addr : Nat, size : Nat]
End(b) == b.addr + b.size + 1

Init ==
  /\ freeList = <<>> /\ used = {}
  /\ brk = 0 /\ frames = Frames
  /\ freesSinceMerge = 0 /\ failed = "none"

-----------------------------------------------------------------------------
(* malloc.                                                                  *)

\* ALIGN(size, 8) of the bytes asked for, of at least one.
Units(bytes) == IF bytes = 0 THEN 1 ELSE (bytes + 7) \div 8

Pages(units) == (units + PageUnits - 1) \div PageUnits

\* getFreeBlock: the first block that is large enough.
Fits(s) == {i \in DOMAIN freeList : freeList[i].size >= s}
FirstFit(s) == CHOOSE i \in Fits(s) : \A j \in Fits(s) : i <= j

isConnectedToSbrk(b) == End(b) = brk

\* MUTANT: the remainder starts where the header of the block is not counted.
SplitOverlaps(list, i, s) ==
  IF list[i].size >= s + 2
    THEN ReplaceAt(list, i, [addr |-> list[i].addr + s, size |-> list[i].size - s])
    ELSE RemoveAt(list, i)

\* MUTANT: the remainder is forgotten.
SplitLoses(list, i, s) == RemoveAt(list, i)

\* splitBlock: the first s units of block i leave the list, the rest remains
\* in it if it has room for a header and a unit.
splitBlock(list, i, s) ==
  IF list[i].size >= s + 2
    THEN ReplaceAt(list, i, [addr |-> list[i].addr + s + 1, size |-> list[i].size - s - 1])
    ELSE RemoveAt(list, i)

Served(b, s) == [b EXCEPT !.size = IF @ >= s + 2 THEN s ELSE @]

Serve(list, i, s) ==
  /\ freeList' = splitBlock(list, i, s)
  /\ used' = used \cup {Served(list[i], s)}

\* MUTANT: a failed SBRK gives its pages back, but forgets to lower the break.
SBRKReturns(n) ==
  /\ frames' = IF n <= frames THEN frames - n ELSE frames
  /\ brk' = brk + PageUnits * (IF n <= frames THEN n ELSE frames)

\* SBRK upwards maps page after page and moves the break along; when the pages
\* run out it returns -1 and keeps what it has mapped.
SBRK(n) ==
  LET got == IF n <= frames THEN n ELSE frames
  IN  frames' = frames - got /\ brk' = brk + got * PageUnits

\* No block is large enough: a new batch, or more pages for the last block if
\* it ends at the break.
Batch(s) ==
  IF freeList # <<>> /\ isConnectedToSbrk(Last(freeList))
    THEN Pages(s - Last(freeList).size)
    ELSE Pages(s + 1)

Extended(s) ==
  IF freeList # <<>> /\ isConnectedToSbrk(Last(freeList))
    THEN [freeList EXCEPT ![Len(freeList)].size = @ + Batch(s) * PageUnits]
    ELSE Append(freeList, [addr |-> brk, size |-> Batch(s) * PageUnits - 1])

MallocFromList(s) ==
  /\ Fits(s) # {}
  /\ Serve(freeList, FirstFit(s), s)
  /\ UNCHANGED <<brk, frames>>

MallocFromBatch(s) ==
  /\ Fits(s) = {} /\ Batch(s) <= frames
  /\ SBRK(Batch(s))
  /\ Serve(Extended(s), Len(Extended(s)), s)

\* Returns nullptr.
MallocFails(s) ==
  /\ Fits(s) = {} /\ Batch(s) > frames
  /\ SBRK(Batch(s))
  /\ UNCHANGED <<freeList, used>>

malloc(s) ==
  /\ failed = "none"
  /\ MallocFromList(s) \/ MallocFromBatch(s) \/ MallocFails(s)
  /\ UNCHANGED <<freesSinceMerge, failed>>

-----------------------------------------------------------------------------
(* free.                                                                    *)

\* MUTANT: always the new head of the list.
PushedFront(b) == <<b>> \o freeList

\* The list is walked as long as the next block lies before b; b goes behind
\* the block reached, or to the head if that one does not lie before it.
Walked(b) == CHOOSE k \in DOMAIN freeList :
               /\ \A j \in 2 .. k : freeList[j].addr < b.addr
               /\ k < Len(freeList) => freeList[k + 1].addr >= b.addr
Inserted(b) ==
  IF freeList = <<>> \/ freeList[Walked(b)].addr > b.addr
    THEN <<b>> \o freeList
    ELSE InsertAt(freeList, Walked(b) + 1, b)

\* `block->next > block': it fails for a block that is in the list already.
Ordered(b) == b.addr \notin {freeList[i].addr : i \in DOMAIN freeList}

\* MUTANT: two blocks are neighbours when the payload of one ends at the other.
TouchesPayload(a, b) == a.addr + a.size = b.addr

Touches(a, b) == End(a) = b.addr

\* merge: a block swallows its successors for as long as they touch it.
Absorb(list, b) ==
  IF list # <<>> /\ Touches(Last(list), b)
    THEN [list EXCEPT ![Len(list)].size = @ + b.size + 1]
    ELSE Append(list, b)
merge(list) == FoldLeft(Absorb, <<>>, list)

\* The whole pages of the last free block go back; what is written as its size
\* is right only if it began on a page boundary.
Trims(list) == isConnectedToSbrk(Last(list)) /\ Last(list).size > PageUnits
Released(list) == Last(list).size \div PageUnits
Trimmed(list) == [list EXCEPT ![Len(list)].size = PageUnits - 1]

FreeKeeps(b) ==
  /\ Ordered(b) /\ freesSinceMerge + 1 < MergeThreshold
  /\ freeList' = Inserted(b)
  /\ freesSinceMerge' = freesSinceMerge + 1
  /\ UNCHANGED <<brk, frames, failed>>

FreeMerges(b) ==
  LET list == merge(Inserted(b))
  IN  /\ Ordered(b) /\ freesSinceMerge + 1 >= MergeThreshold
      /\ ~Trims(list)
      /\ freeList' = list
      /\ freesSinceMerge' = 0
      /\ UNCHANGED <<brk, frames, failed>>

FreeTrims(b) ==
  LET list == merge(Inserted(b))
  IN  /\ Ordered(b) /\ freesSinceMerge + 1 >= MergeThreshold
      /\ Trims(list)
      /\ freeList' = Trimmed(list)
      /\ brk' = brk - Released(list) * PageUnits
      /\ frames' = frames + Released(list)
      /\ failed' = IF End(Last(Trimmed(list))) = brk' THEN "none" ELSE "connected"
      /\ freesSinceMerge' = 0

free(b) ==
  /\ failed = "none"
  /\ FreeKeeps(b) \/ FreeMerges(b) \/ FreeTrims(b)
  /\ used' = used \ {b}

Next == \/ \E n \in MallocSizes : malloc(Units(n))
        \/ \E b \in used : free(b)

Spec == Init /\ [][Next]_heap
===============================================================================
