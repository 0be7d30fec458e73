------------------------- MODULE MC_UploadConsole -------------------------
(* Two sessions one after the other, two kill requests that can overlap    *)
(* each other, the stream and the next session, and a watcher whose replay *)
(* has already lost its first chunks.                                      *)
EXTENDS UploadConsole, TLC

Symmetry == Permutations(Kills)
=============================================================================
