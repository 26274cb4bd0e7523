------------------------------- MODULE HeapCalls -------------------------------
(****************************************************************************)
(* The allocator as several contexts call it.  realloc is not under         *)
(* heapLock: it calls malloc and free, and others get in between.           *)
(****************************************************************************)
EXTENDS Heap

CONSTANTS
  Client,          \* the contexts that call the allocator
  ReallocSizes,    \* the sizes asked of realloc, in bytes
  NoCall

ASSUME CallsAssumption == ReallocSizes \subseteq Nat

VARIABLE call      \* what a realloc that is under way has still to do

vars == <<heap, call>>

CallsInit == Init /\ call = [c \in Client |-> NoCall]

Ready(c) == call[c] = NoCall
Reallocating == {c \in Client : ~Ready(c)}

\* The blocks a caller may name: no realloc is about to free them.
Owned == used \ {call[c].old : c \in Reallocating}

Malloc(c) == /\ Ready(c)
             /\ \E n \in MallocSizes : malloc(Units(n))
             /\ UNCHANGED call

Free(c) == /\ Ready(c)
           /\ \E b \in Owned : free(b)
           /\ UNCHANGED call

\* realloc(ptr, n): malloc, and afterwards free of the old block, whatever
\* malloc has returned.
Realloc(c) ==
  /\ Ready(c)
  /\ \E b \in Owned, n \in ReallocSizes \ {0} :
       /\ malloc(Units(n))
       /\ call' = [call EXCEPT ![c] = [todo |-> "free", old |-> b]]

\* The header free finds before ptr: that of a block which begins there, or
\* what the block has left there.
Header(b) == IF \E u \in used : u.addr = b.addr
               THEN CHOOSE u \in used : u.addr = b.addr
               ELSE b

ReallocFree(c) ==
  /\ ~Ready(c) /\ call[c].todo = "free"
  /\ free(Header(call[c].old))
  /\ call' = [call EXCEPT ![c] = NoCall]

CallsNext == \E c \in Client : Malloc(c) \/ Free(c) \/ Realloc(c) \/ ReallocFree(c)

CallsSpec == CallsInit /\ [][CallsNext]_vars

-----------------------------------------------------------------------------
(* realloc(ptr, 0) frees ptr, and then does all of the above with it.       *)

ReallocZero(c) ==
  /\ Ready(c) /\ 0 \in ReallocSizes
  /\ \E b \in Owned :
       /\ free(b)
       /\ call' = [call EXCEPT ![c] = [todo |-> "malloc", old |-> b]]

ReallocMalloc(c) ==
  /\ ~Ready(c) /\ call[c].todo = "malloc"
  /\ malloc(Units(0))
  /\ call' = [call EXCEPT ![c].todo = "free"]

\* The block is in the list already: its link skips itself.
ReallocFreeTwice(c) ==
  /\ ~Ready(c) /\ call[c].todo = "free" /\ failed = "none"
  /\ ~Ordered(call[c].old)
  /\ failed' = "order"
  /\ UNCHANGED <<freeList, used, brk, frames, freesSinceMerge, call>>

ZeroNext == CallsNext \/ \E c \in Client :
              ReallocZero(c) \/ ReallocMalloc(c) \/ ReallocFreeTwice(c)

ZeroSpec == CallsInit /\ [][ZeroNext]_vars
===============================================================================
