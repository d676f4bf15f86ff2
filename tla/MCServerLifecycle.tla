-------------------------- MODULE MCServerLifecycle --------------------------
(* ServerLifecycle on interchangeable calls. *)
EXTENDS ServerLifecycle, TLC

Symmetry == Permutations(Calls)
=============================================================================
