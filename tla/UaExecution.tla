---------------------------- MODULE UaExecution ----------------------------
(***************************************************************************)
(* UaExecutionCoordinator and UaExecutionLease (app/ua_execution.py): the  *)
(* gate every use of Upload Assistant passes.  Item checks wait for it,    *)
(* queued imports and the upload console only try it.                      *)
(*                                                                         *)
(* The program runs on one asyncio event loop, so a step of a task lasts   *)
(* until its next suspension.  The coordinator's condition lock is never   *)
(* held across a suspension other than Condition.wait(), hence acquire(),  *)
(* release() and the re-check after a wake-up are one step each.           *)
(*                                                                         *)
(* An owner id is built from the kind of job, the item and the wall clock  *)
(* in milliseconds: two leases taken in the same millisecond for the same  *)
(* job get the SAME id, and the wall clock may also step back.             *)
(***************************************************************************)
EXTENDS Naturals

CONSTANTS
    Tasks,      \* asyncio tasks and request handlers that use the gate
    Labels,     \* the kind-and-item part of an owner id
    Leases,     \* UaExecutionLease objects alive at the same time
    NoObject,
    MaxMs,      \* bound on the wall clock
    NoId        \* no owner, and the id of a lease object not handed out

Ids == Labels \X (0..MaxMs)

ASSUME MsAssumption == MaxMs \in Nat
ASSUME NoIdAssumption == NoId \notin Ids
ASSUME NoObjectAssumption == NoObject \notin Leases

VARIABLES
    owner,      \* id of the coordinator's owner, NoId when it is free
    pc,         \* where each task is: outside acquire(), asleep, notified
    leaseId,    \* id stored in each lease object
    released,   \* lease objects whose _released flag is set
    ms          \* wall clock

gateVars == <<owner, pc, leaseId, released, ms>>

\* Lease objects that were handed out and not given back.
Live == {l \in Leases : leaseId[l] # NoId} \ released

GateTypeOK ==
    /\ owner \in Ids \cup {NoId}
    /\ pc \in [Tasks -> {"outside", "waiting", "notified"}]
    /\ leaseId \in [Leases -> Ids \cup {NoId}]
    /\ released \subseteq Leases
    /\ ms \in 0..MaxMs

GateInit ==
    /\ owner = NoId
    /\ pc = [t \in Tasks |-> "outside"]
    /\ leaseId = [l \in Leases |-> NoId]
    /\ released = {}
    /\ ms \in 0..MaxMs

-----------------------------------------------------------------------------

\* Mutant: an owner id without its time stamp.
TakeOwnershipNoStamp(t, label, l) ==
    /\ leaseId[l] = NoId
    /\ owner' = <<label>>
    /\ leaseId' = [leaseId EXCEPT ![l] = <<label>>]
    /\ pc' = [pc EXCEPT ![t] = "outside"]
    /\ UNCHANGED <<released, ms>>

\* acquire() past its while loop: the task becomes the owner and returns
\* with a new lease object.
TakeOwnership(t, label, l) ==
    /\ leaseId[l] = NoId
    /\ owner' = <<label, ms>>
    /\ leaseId' = [leaseId EXCEPT ![l] = <<label, ms>>]
    /\ pc' = [pc EXCEPT ![t] = "outside"]
    /\ UNCHANGED <<released, ms>>

\* acquire() while the coordinator is free, with wait=True or wait=False.
\* A try (wait=False) that finds an owner returns None and changes nothing.
Acquire(t, label, l) ==
    /\ pc[t] = "outside"
    /\ owner = NoId
    /\ TakeOwnership(t, label, l)

\* acquire(wait=True) that finds an owner sleeps on the condition.
Wait(t) ==
    /\ pc[t] = "outside"
    /\ owner # NoId
    /\ pc' = [pc EXCEPT ![t] = "waiting"]
    /\ UNCHANGED <<owner, leaseId, released, ms>>

\* Mutant: acquire() tests the owner once instead of in a loop.
WakeAndTakeUnchecked(t, label, l) ==
    /\ pc[t] = "notified"
    /\ TakeOwnership(t, label, l)

\* A notified task runs again.  Another task may have taken the coordinator
\* between the notification and this step, then it goes back to sleep.
WakeAndTake(t, label, l) ==
    /\ pc[t] = "notified"
    /\ owner = NoId
    /\ TakeOwnership(t, label, l)

WakeAndSleep(t) ==
    /\ pc[t] = "notified"
    /\ owner # NoId
    /\ pc' = [pc EXCEPT ![t] = "waiting"]
    /\ UNCHANGED <<owner, leaseId, released, ms>>

\* Mutant: notify() in place of notify_all().
CoordinatorReleaseNotifyOne(id) ==
    IF owner = id
    THEN /\ owner' = NoId
         /\ \/ \E t \in Tasks : /\ pc[t] = "waiting"
                               /\ pc' = [pc EXCEPT ![t] = "notified"]
            \/ /\ \A t \in Tasks : pc[t] # "waiting"
               /\ UNCHANGED pc
    ELSE UNCHANGED <<owner, pc>>

\* UaExecutionCoordinator.release: only the id that owns the coordinator
\* frees it, and every sleeping task is notified.
CoordinatorRelease(id) ==
    IF owner = id
    THEN /\ owner' = NoId
         /\ pc' = [t \in Tasks |->
                      IF pc[t] = "waiting" THEN "notified" ELSE pc[t]]
    ELSE UNCHANGED <<owner, pc>>

\* Mutant: the lease has no _released flag to look at.
ReleaseAgain(l) ==
    /\ leaseId[l] # NoId
    /\ released' = released \cup {l}
    /\ CoordinatorRelease(leaseId[l])
    /\ UNCHANGED <<leaseId, ms>>

\* UaExecutionLease.release: a lease acts once.  The console's stream task
\* and a kill request hold the same lease and both release it.
Release(l) ==
    /\ leaseId[l] # NoId
    /\ l \notin released
    /\ released' = released \cup {l}
    /\ CoordinatorRelease(leaseId[l])
    /\ UNCHANGED <<leaseId, ms>>

\* Nothing refers to a released lease any more and it is collected.
Collect(l) ==
    /\ l \in released
    /\ released' = released \ {l}
    /\ leaseId' = [leaseId EXCEPT ![l] = NoId]
    /\ UNCHANGED <<owner, pc, ms>>

\* time.time() may advance, stay or step back between two calls.
Clock ==
    /\ ms' \in 0..MaxMs
    /\ UNCHANGED <<owner, pc, leaseId, released>>

GateNext ==
    \/ \E t \in Tasks, label \in Labels, l \in Leases :
          Acquire(t, label, l) \/ WakeAndTake(t, label, l)
    \/ \E t \in Tasks : Wait(t) \/ WakeAndSleep(t)
    \/ \E l \in Leases : Release(l) \/ Collect(l)
    \/ Clock

GateSpec == GateInit /\ [][GateNext]_gateVars

-----------------------------------------------------------------------------

\* At most one lease is live, it is the one the coordinator recorded, and a
\* coordinator without a live lease is free: no lease is lost and none is
\* freed by the release of another one that carries the same id.
LeaseExclusion ==
    /\ \A l \in Live : leaseId[l] = owner
    /\ \A l, m \in Live : l = m
    /\ Live = {} => owner = NoId

\* No task sleeps on a free coordinator: release() wakes all that wait.
NoLostWakeup == owner = NoId => \A t \in Tasks : pc[t] # "waiting"

\* The coordinator implements the lease it promises; the holder is the live
\* lease.
Holder == IF Live = {} THEN NoObject ELSE CHOOSE l \in Leases : l \in Live

Promise == INSTANCE UaLease WITH holder <- Holder, NoLease <- NoObject

ImplementsLease == Promise!LeaseSpec
=============================================================================
