------------------------------ MODULE UaLease ------------------------------
(***************************************************************************)
(* What the Upload Assistant coordinator promises to the parts of the      *)
(* program that talk to Upload Assistant: a lease has at most one holder,  *)
(* it changes hands only through a moment in which nobody holds it, and    *)
(* only the holder's own release ends it.                                  *)
(***************************************************************************)
CONSTANTS
    Leases,     \* the lease objects that can be handed out
    NoLease     \* nobody holds a lease

VARIABLE holder

LeaseInit == holder = NoLease

\* The coordinator hands lease l to a task while it is free.
Grant(l) == holder = NoLease /\ holder' = l

\* The holder of l gives it back.
Free(l) == holder = l /\ holder' = NoLease

LeaseNext == \E l \in Leases : Grant(l) \/ Free(l)

LeaseSpec == LeaseInit /\ [][LeaseNext]_holder
=============================================================================
