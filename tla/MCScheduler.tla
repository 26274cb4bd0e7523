----------------------------- MODULE MCScheduler -----------------------------
(* Instances of the scheduler for TLC. *)
EXTENDS SchedulerProperties, TLC

Symmetry == Permutations(Stack)
=============================================================================
