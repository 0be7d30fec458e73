------------------------- MODULE MC_QueuedImports -------------------------
(* Two items and three rows: an item can be queued again after its first   *)
(* import ended, while the other one waits; two restarts, so that a row    *)
(* can be interrupted twice.                                               *)
EXTENDS QueuedImports, TLC

Symmetry == Permutations(Items)
=============================================================================
