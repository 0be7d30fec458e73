--------------------------- MODULE MC_Decisions ---------------------------
(* Two trackers, which the item's evidence and the policies may tell apart *)
(* in every way, and which are otherwise alike.                            *)
EXTENDS Decisions, TLC

TrackerSymmetry == Permutations(Trackers)
===========================================================================
