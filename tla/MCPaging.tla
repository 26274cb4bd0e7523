------------------------------- MODULE MCPaging -------------------------------
(* An instance of the page managers for TLC, of the layout the proofs assume. *)
EXTENDS PagingLayout, TLC

Available(first, count) == [first |-> first, count |-> count, available |-> TRUE]
Reserved(first, count)  == [first |-> first, count |-> count, available |-> FALSE]

Memory(entries) == [type |-> "mmap", entries |-> entries]
Other           == [type |-> "other"]
\* A framebuffer above all memory.
Screen(n)       == [type |-> "framebuffer", first |-> 12, count |-> n]

\* Memory that begins below 2 MB: a PC with 128 MB, the QEMU default, whose
\* lowest section is too small for a page and whose largest is reserved; with two
\* pages of memory there is none for the back buffer.
LowLists == {<<Other, Memory(<<Available(0, 0), Available(0, n), Reserved(12, 20)>>),
               Screen(s), Other>> : n \in {2} \cup 5 .. 9, s \in 1 .. 2}
\* The memory map last: it is read as a screen without pixels.
Swapped == {<<Screen(1), Memory(<<Available(0, 6), Reserved(6, 2), Available(8, 2)>>)>>}

LowMemory == LowLists \cup Swapped
===============================================================================
