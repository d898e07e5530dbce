----------------------------- MODULE MCMemoria -----------------------------
(***************************************************************************)
(* Memoria with CPUs that are alike.                                       *)
(***************************************************************************)
EXTENDS Memoria, TLC

Symmetry == Permutations(Cpus)
=============================================================================
