---------------------------- MODULE MC_Lookups ----------------------------
(* Two URLs an Arr may have.  The times keep their order: an error is       *)
(* remembered for less time than a verdict.                                 *)
EXTENDS Lookups, TLC

Symmetry == Permutations(Origins)
===========================================================================
