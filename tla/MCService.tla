------------------------------ MODULE MCService ------------------------------
(***************************************************************************)
(* ServiceLifecycle for TLC: the starts of the service are interchangeable *)
(* (only invariants are checked, so symmetry is sound).                    *)
(***************************************************************************)
EXTENDS ServiceLifecycle, TLC

Symmetry == Permutations(Procs)
=============================================================================
