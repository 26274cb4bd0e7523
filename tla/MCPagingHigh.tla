----------------------------- MODULE MCPagingHigh -----------------------------
(* An instance of the page managers for TLC, outside the layout of PagingLayout. *)
EXTENDS PagingProperties, TLC

Available(first, count) == [first |-> first, count |-> count, available |-> TRUE]
Screen(n)               == [type |-> "framebuffer", first |-> 12, count |-> n]

\* The largest section lies higher up, above 4 GB on a PC with more memory.
HighMemory ==
  {<<[type |-> "mmap", entries |-> <<Available(0, 3), Available(4, 6)>>], Screen(s)>> :
     s \in 1 .. 2}
===============================================================================
