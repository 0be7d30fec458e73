---------------------------- MODULE MC_Service ----------------------------
(* One item, which a check may find uploadable more than once, one check at *)
(* a time as by default, and a restart; one or two rows of queued imports.  *)
EXTENDS Service, TLC
===========================================================================
