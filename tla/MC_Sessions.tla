---------------------------- MODULE MC_Sessions ----------------------------
(* Two browsers, one at an address the bypass covers, with two requests     *)
(* under way each; sessions expire after two ticks.                         *)
EXTENDS Sessions, TLC

Symmetry == Permutations(Lanes)
===========================================================================
