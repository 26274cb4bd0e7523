------------------------------- MODULE Allocator -------------------------------
(****************************************************************************)
(* What an allocator promises: a block it hands out is large enough and     *)
(* apart from every block in use, and stays where it is, with the length it *)
(* has, until it is given back.                                             *)
(****************************************************************************)
EXTENDS Integers

CONSTANTS Memory,   \* how many units there are
          Sizes     \* the lengths, in units, that are asked for

VARIABLE allocated  \* the blocks in use, each with its header

\* A block [addr, size] is a header at addr and size units behind it.
Cells(b) == b.addr .. b.addr + b.size

Blocks == {b \in [addr : 0 .. Memory - 1, size : 1 .. Memory - 1] :
             b.addr + b.size < Memory}

Init == allocated = {}

Allocate ==
  \E s \in Sizes, b \in Blocks :
    /\ b.size >= s
    /\ \A a \in allocated : Cells(a) \cap Cells(b) = {}
    /\ allocated' = allocated \cup {b}

Release == \E b \in allocated : allocated' = allocated \ {b}

Next == Allocate \/ Release

Spec == Init /\ [][Next]_allocated
===============================================================================
