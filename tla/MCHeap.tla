-------------------------------- MODULE MCHeap --------------------------------
(* Instances of the allocator for TLC. *)
EXTENDS HeapProperties, TLC

Symmetry == Permutations(Client)
===============================================================================
