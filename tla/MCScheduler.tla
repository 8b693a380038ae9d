----------------------------- MODULE MCScheduler -----------------------------
(* Scheduler for TLC.  Stacks are interchangeable: nothing orders them.     *)
EXTENDS Scheduler, TLC

Symmetry == Permutations(Stacks)

=============================================================================
