----------------------------- MODULE MCScheduler -----------------------------
(* TLC instance of Scheduler: requests are interchangeable. *)
EXTENDS Scheduler, TLC

Symmetry == Permutations(Calls)
=============================================================================
