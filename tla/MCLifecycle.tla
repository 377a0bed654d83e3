---------------------------- MODULE MCLifecycle ------------------------------
(* Lifecycle for TLC: the callers are interchangeable.                      *)
EXTENDS Lifecycle, TLC

Symmetry == Permutations(Threads)
==============================================================================
