-------------------------- MODULE MC_Maintenance --------------------------
(* Three days: what is left of one day's maintenance meets the next one's, *)
(* and the day after a day that was never completed.                       *)
EXTENDS Maintenance
===========================================================================
