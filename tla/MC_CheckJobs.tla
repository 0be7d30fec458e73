--------------------------- MODULE MC_CheckJobs ---------------------------
(* Two items and one or two jobs at a time: one item is checked while the  *)
(* other is due, and with two jobs a second task waits for the lease and   *)
(* may carry the same item.  A restart can interrupt a check at any stage. *)
EXTENDS CheckJobs, TLC

Symmetry == Permutations(Slots)
===========================================================================
