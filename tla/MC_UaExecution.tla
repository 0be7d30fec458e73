-------------------------- MODULE MC_UaExecution --------------------------
(* Three tasks and three lease objects, two labels and a clock of two      *)
(* values: ids collide, three leases can be alive, released or collected   *)
(* at once, and two tasks can sleep while a third one overtakes them.      *)
EXTENDS UaExecution
=============================================================================
