----------------------- MODULE QueuedImports_proofs -----------------------
(***************************************************************************)
(* For any number of items, rows, requests and restarts: the running row   *)
(* of the queue is the one the live runner claimed, an upload is sent once *)
(* per claim, and only the JSON endpoint can queue an item twice.          *)
(***************************************************************************)
EXTENDS QueuedImports, TLAPS

Statuses == {"absent", "pending", "running", "complete", "error", "cancelled"}

TypeOK ==
    /\ up \in BOOLEAN
    /\ holder \in {ImportJob, Others, NoLease}
    /\ rows \in [Rows -> [item : Items \cup {NoItem}, status : Statuses]]
    /\ requested \in BOOLEAN
    /\ runner \in [at : {"none", "ready", "streaming", "killing"}, row : 0..MaxRows]
    /\ request \in [Requests -> Items \cup {NoItem}]
    /\ configured \in BOOLEAN
    /\ uploads \in [Rows -> Nat]
    /\ restarted \in [Rows -> Nat]
    /\ crashes \in Nat

\* The runner lives in memory, and while it lives it has a row and the lease.
RunnerHoldsLease ==
    /\ runner.at = "none" => runner = NoRunner
    /\ runner.at # "none" => up /\ runner.row \in Rows /\ holder = ImportJob

\* What is in memory is gone while the program is stopped.
DownIsEmpty == ~up => \A q \in Requests : request[q] = NoItem

\* The upload of this row's present claim has been sent.
Sent(r) == ~(up /\ runner.at = "ready" /\ runner.row = r)

\* Uploads are paid for: by the restarts that put the row back, and by the
\* present claim once the row is running and its upload was sent.
UploadsAccounted ==
    \A r \in Rows :
        IF rows[r].status \in {"absent", "pending"}
           \/ (rows[r].status = "running" /\ ~Sent(r))
        THEN uploads[r] <= restarted[r]
        ELSE uploads[r] <= 1 + restarted[r]

IInv ==
    /\ TypeOK
    /\ RunnerHoldsLease
    /\ DownIsEmpty
    /\ RunningIsClaimed
    /\ UploadsAccounted

-----------------------------------------------------------------------------

\* A runner that is gone, as a value of the variable.
LEMMA NoRunnerIsTyped ==
  NoRunner \in [at : {"none", "ready", "streaming", "killing"}, row : 0..MaxRows]
BY BoundsAssumption DEF NoRunner

\* The queue starts empty and idle.
LEMMA InitHolds == Init => IInv
<1> SUFFICES ASSUME Init PROVE IInv
  OBVIOUS
<1>1. \A r \in Rows : rows[r].status = "absent" /\ uploads[r] = 0 /\ restarted[r] = 0
  BY DEF Init
<1>2. rows \in [Rows -> [item : Items \cup {NoItem}, status : Statuses]]
  BY DEF Init, Statuses
<1>3. TypeOK
  BY <1>2, NoRunnerIsTyped DEF Init, TypeOK
<1>4. QED
  BY <1>1, <1>3 DEF Init, IInv, RunnerHoldsLease, NoRunner, DownIsEmpty,
     RunningIsClaimed, WithStatus, UploadsAccounted

\* enqueue_import puts one new pending row into the table.
LEMMA EnqueueKeeps ==
  ASSUME IInv, NEW i \in Items, Enqueue(i),
         up, request' \in [Requests -> Items \cup {NoItem}],
         requested' \in BOOLEAN,
         UNCHANGED holder \/ Lease!Free(Others),
         UNCHANGED <<up, runner, configured, history>>
  PROVE  IInv'
<1> USE HoldersDiffer DEF IInv, Lease!Free
<1>1. PICK r \in WithStatus("absent") :
         rows' = [rows EXCEPT ![r] = [item |-> i, status |-> "pending"]]
  BY DEF Enqueue
<1>2. r \in Rows /\ rows[r].status = "absent"
  BY DEF WithStatus
<1>3. TypeOK'
  BY <1>1, <1>2 DEF TypeOK, Statuses, history
<1>4. RunnerHoldsLease' /\ DownIsEmpty'
  BY DEF RunnerHoldsLease, DownIsEmpty
<1>5. RunningIsClaimed'
  BY <1>1, <1>2 DEF RunningIsClaimed, WithStatus, TypeOK
<1>6. UploadsAccounted'
  BY <1>1, <1>2 DEF UploadsAccounted, TypeOK, history, Sent
<1>7. QED
  BY <1>3, <1>4, <1>5, <1>6

\* run_queued_import claims the row it turns to running, and claims none
\* while a runner lives.
LEMMA RunQueuedImportKeeps ==
  ASSUME IInv, NEW wish \in BOOLEAN, RunQueuedImport(wish), up,
         UNCHANGED <<up, request, configured, history>>
  PROVE  IInv'
<1> USE DEF IInv
<1>1. requested' \in BOOLEAN
  BY DEF RunQueuedImport
<1>2. CASE UNCHANGED <<holder, rows, runner>>
  BY <1>1, <1>2 DEF TypeOK, RunnerHoldsLease, DownIsEmpty, RunningIsClaimed,
     WithStatus, UploadsAccounted, Sent, history
<1>3. CASE ~UNCHANGED <<holder, rows, runner>>
  <2>1. PICK r \in Rows :
           /\ rows[r].status = "pending"
           /\ holder' = ImportJob
           /\ rows' = [rows EXCEPT ![r].status = "running"]
           /\ runner' = [at |-> "ready", row |-> r]
    BY <1>3 DEF RunQueuedImport, IsNext, SetStatus, Lease!Grant
  <2>2. runner.at = "none"
    BY <1>3 DEF RunQueuedImport
  <2>3. TypeOK'
    <3>1. rows' \in [Rows -> [item : Items \cup {NoItem}, status : Statuses]]
      BY <2>1 DEF TypeOK, Statuses
    <3>2. runner' \in [at : {"none", "ready", "streaming", "killing"}, row : 0..MaxRows]
      BY <2>1, BoundsAssumption DEF Rows
    <3>3. QED
      BY <1>1, <2>1, <3>1, <3>2 DEF TypeOK, history
  <2>4. RunnerHoldsLease' /\ DownIsEmpty'
    BY <2>1 DEF RunnerHoldsLease, DownIsEmpty
  <2>5. RunningIsClaimed'
    BY <2>1, <2>2 DEF RunningIsClaimed, WithStatus, TypeOK
  <2>6. UploadsAccounted'
    BY <2>1, <2>2 DEF UploadsAccounted, TypeOK, history, Sent
  <2>7. QED
    BY <2>3, <2>4, <2>5, <2>6
<1>4. QED
  BY <1>2, <1>3

\* The runner's end leaves no row running and gives the lease back.
LEMMA RunnerEndsKeeps ==
  ASSUME IInv, runner.at # "none", NEW status \in {"complete", "error"},
         RunnerEnds(status), UNCHANGED <<up, request, configured, history>>
  PROVE  IInv'
<1> USE DEF IInv
<1> DEFINE r == runner.row
<1>1. /\ up /\ r \in Rows /\ holder' = NoLease
      /\ WithStatus("running") = {r}
  BY DEF RunnerHoldsLease, RunningIsClaimed, RunnerEnds, Lease!Free
<1>2. /\ rows' = [rows EXCEPT ![r].status = status]
      /\ runner' = NoRunner
  BY DEF RunnerEnds, SetStatus
<1>3. TypeOK'
  <2>1. rows' \in [Rows -> [item : Items \cup {NoItem}, status : Statuses]]
    BY <1>1, <1>2 DEF TypeOK, Statuses
  <2>2. runner' \in [at : {"none", "ready", "streaming", "killing"}, row : 0..MaxRows]
    BY <1>2, NoRunnerIsTyped
  <2>3. requested' \in BOOLEAN
    BY DEF RunnerEnds
  <2>4. QED
    BY <1>1, <2>1, <2>2, <2>3 DEF TypeOK, history
<1>4. RunnerHoldsLease' /\ DownIsEmpty'
  BY <1>1, <1>2 DEF RunnerHoldsLease, DownIsEmpty, NoRunner
<1>5. RunningIsClaimed'
  BY <1>1, <1>2 DEF RunningIsClaimed, WithStatus, TypeOK, NoRunner
<1>6. UploadsAccounted'
  BY <1>1, <1>2 DEF UploadsAccounted, TypeOK, history, Sent, NoRunner, WithStatus
<1>7. QED
  BY <1>3, <1>4, <1>5, <1>6

\* An upload is sent by a runner that has not sent one for its claim.
LEMMA RunnerStartsKeeps ==
  ASSUME IInv, RunnerStarts
  PROVE  IInv'
<1> USE DEF IInv, RunnerStarts
<1>1. up /\ runner.row \in Rows /\ rows[runner.row].status = "running"
  BY DEF RunnerHoldsLease, RunningIsClaimed, WithStatus
<1>2. runner' \in [at : {"none", "ready", "streaming", "killing"}, row : 0..MaxRows]
  BY DEF TypeOK
<1>3. runner'.at = "streaming" /\ runner'.row = runner.row
  BY DEF TypeOK
<1>4. TypeOK' /\ RunnerHoldsLease' /\ DownIsEmpty'
  BY <1>1, <1>2, <1>3 DEF TypeOK, RunnerHoldsLease, DownIsEmpty
<1>5. RunningIsClaimed'
  BY <1>1, <1>3 DEF RunningIsClaimed, WithStatus
<1>6. UploadsAccounted'
  BY <1>1, <1>3 DEF UploadsAccounted, TypeOK, Sent
<1>7. QED
  BY <1>4, <1>5, <1>6

\* After a crash the disk keeps the interrupted row, which start() puts back.
LEMMA CrashAndRestartKeep ==
  ASSUME IInv, Crash \/ Restart
  PROVE  IInv'
<1> USE DEF IInv
<1>1. CASE Crash
  <2>1. TypeOK'
    <3>1. /\ request' \in [Requests -> Items \cup {NoItem}]
          /\ crashes' \in Nat
      BY <1>1 DEF Crash, TypeOK
    <3>2. runner' = NoRunner
      BY <1>1 DEF Crash
    <3>3. QED
      BY <1>1, <3>1, <3>2, NoRunnerIsTyped DEF Crash, TypeOK
  <2>2. UploadsAccounted'
    BY <1>1 DEF Crash, UploadsAccounted, TypeOK, Sent
  <2>3. QED
    BY <1>1, <2>1, <2>2
       DEF Crash, RunnerHoldsLease, DownIsEmpty, RunningIsClaimed, NoRunner
<1>2. CASE Restart
  <2> USE DEF Restart, memory
  <2>1. \A r \in Rows :
           rows'[r].status = IF rows[r].status = "running" THEN "pending" ELSE rows[r].status
    BY <1>2 DEF TypeOK
  <2>2. TypeOK'
    <3>1. rows' \in [Rows -> [item : Items \cup {NoItem}, status : Statuses]]
      BY <1>2 DEF TypeOK, Statuses
    <3>2. restarted' \in [Rows -> Nat]
      BY <1>2 DEF TypeOK
    <3>3. QED
      BY <1>2, <3>1, <3>2 DEF TypeOK
  <2>3. runner.at = "none" /\ runner' = runner
    BY <1>2 DEF RunnerHoldsLease
  <2>4. RunnerHoldsLease' /\ DownIsEmpty'
    BY <1>2, <2>3 DEF RunnerHoldsLease, DownIsEmpty
  <2>5. RunningIsClaimed'
    BY <1>2, <2>1, <2>3 DEF RunningIsClaimed, WithStatus
  <2>6. UploadsAccounted'
    BY <1>2, <2>1, <2>3 DEF UploadsAccounted, TypeOK, Sent
  <2>7. QED
    BY <2>2, <2>4, <2>5, <2>6
<1>3. QED
  BY <1>1, <1>2

\* cancel_import takes only rows that no runner has.
LEMMA CancelKeeps ==
  ASSUME IInv, NEW r \in Rows, Cancel(r)
  PROVE  IInv'
<1> USE DEF IInv, Cancel, SetStatus, memory, history
<1>1. TypeOK'
  BY DEF TypeOK, Statuses
<1>2. RunningIsClaimed'
  BY DEF RunningIsClaimed, WithStatus, TypeOK
<1>3. UploadsAccounted'
  BY DEF UploadsAccounted, TypeOK, Sent
<1>4. QED
  BY <1>1, <1>2, <1>3 DEF RunnerHoldsLease, DownIsEmpty

\* The inductive invariant: the running row belongs to the runner, the runner
\* has the lease, and every upload is paid for.
LEMMA InductiveInvariant == Spec => []IInv
<1>1. IInv /\ [Next]_vars => IInv'
  <2> SUFFICES ASSUME IInv, [Next]_vars
               PROVE  IInv'
    OBVIOUS
  <2>1. ASSUME NEW i \in Items, QueueForm(i) \/ AutoQueue(i)
        PROVE  IInv'
    BY <2>1, EnqueueKeeps
       DEF QueueForm, AutoQueue, EnqueueCandidate, memory, history, IInv, TypeOK
  <2>2. ASSUME NEW q \in Requests, NEW i \in Items, QueueJsonCheck(q, i)
        PROVE  IInv'
    BY <2>2 DEF QueueJsonCheck, history, IInv, TypeOK, RunnerHoldsLease,
       DownIsEmpty, RunningIsClaimed, WithStatus, UploadsAccounted, Sent
  <2>3. ASSUME NEW q \in Requests, QueueJsonInsert(q)
        PROVE  IInv'
    <3>1. up /\ request[q] \in Items
      BY <2>3 DEF QueueJsonInsert, IInv, DownIsEmpty, TypeOK
    <3>2. request' \in [Requests -> Items \cup {NoItem}] /\ requested' \in BOOLEAN
      BY <2>3 DEF QueueJsonInsert, IInv, TypeOK
    <3>3. QED
      BY <2>3, <3>1, <3>2, EnqueueKeeps DEF QueueJsonInsert, history
  <2>4. ASSUME NEW r \in Rows, Cancel(r)
        PROVE  IInv'
    BY <2>4, CancelKeeps
  <2>5. CASE RunPending \/ LoopTick
    BY <2>5, RunQueuedImportKeeps DEF RunPending, LoopTick, IInv, TypeOK
  <2>6. CASE RunnerRefuses \/ RunnerDone \/ RunnerKilled
    BY <2>6, RunnerEndsKeeps DEF RunnerRefuses, RunnerDone, RunnerKilled
  <2>7. CASE RunnerStarts
    BY <2>7, RunnerStartsKeeps
  <2>8. CASE RunnerTimesOut
    BY <2>8 DEF RunnerTimesOut, history, IInv, TypeOK, RunnerHoldsLease,
       DownIsEmpty, RunningIsClaimed, WithStatus, UploadsAccounted, Sent
  <2>9. CASE Crash \/ Restart
    BY <2>9, CrashAndRestartKeep
  <2>10. CASE Configure \/ OtherUse
    <3>1. CASE Configure
      BY <3>1 DEF Configure, memory, history, IInv, TypeOK,
         RunnerHoldsLease, DownIsEmpty, RunningIsClaimed, WithStatus, UploadsAccounted, Sent
    <3>2. CASE OtherUse
      <4>1. TypeOK'
        BY <3>2, HoldersDiffer
           DEF OtherUse, Lease!Grant, Lease!Free, memory, history, IInv, TypeOK
      <4>2. RunnerHoldsLease' /\ DownIsEmpty'
        BY <3>2, HoldersDiffer
           DEF OtherUse, Lease!Grant, Lease!Free, memory, history, IInv, TypeOK,
               RunnerHoldsLease, DownIsEmpty
      <4>3. RunningIsClaimed' /\ UploadsAccounted'
        BY <3>2 DEF OtherUse, memory, history, IInv, RunningIsClaimed, WithStatus,
           UploadsAccounted, Sent
      <4>4. QED
        BY <4>1, <4>2, <4>3 DEF IInv
    <3>3. QED
      BY <2>10, <3>1, <3>2
  <2>11. CASE UNCHANGED vars
    BY <2>11 DEF vars, IInv, TypeOK, RunnerHoldsLease, DownIsEmpty,
       RunningIsClaimed, WithStatus, UploadsAccounted, Sent
  <2>12. QED
    BY <2>1, <2>2, <2>3, <2>4, <2>5, <2>6, <2>7, <2>8, <2>9, <2>10, <2>11
       DEF Next, Runner
<1>2. QED
  BY <1>1, InitHolds, PTL DEF Spec

-----------------------------------------------------------------------------

\* While the program runs, the table's running row is the row of the live
\* runner: the claim, every end of the runner, a crash and the recovery at
\* start-up keep the table and the memory in step.
THEOREM RunningIsClaimedHolds == Spec => []RunningIsClaimed
BY InductiveInvariant, PTL DEF IInv

\* No row is uploaded twice without a restart that found it running: a
\* timeout, a failed kill, a cancel or a second run never send it again.
THEOREM UploadedOncePerClaimHolds == Spec => []UploadedOncePerClaim
<1>1. IInv => UploadedOncePerClaim
  BY DEF IInv, TypeOK, UploadsAccounted, UploadedOncePerClaim
<1>2. QED
  BY <1>1, InductiveInvariant, PTL

-----------------------------------------------------------------------------

Active(r) == rows[r].status \in {"pending", "running"}

\* A step that activates no row and renames none makes no duplicate.
LEMMA FewerActiveRows ==
  ASSUME OneActiveImport,
         \A r \in Rows : Active(r)' => Active(r) /\ rows'[r].item = rows[r].item
  PROVE  OneActiveImport'
BY DEF OneActiveImport, WithStatus, Active

\* A row for an item without an active import makes no duplicate.
LEMMA EnqueueAfterCheck ==
  ASSUME TypeOK, OneActiveImport, NEW i \in Items, NoActiveImport(i), Enqueue(i)
  PROVE  OneActiveImport'
<1>1. PICK r \in Rows : rows' = [rows EXCEPT ![r] = [item |-> i, status |-> "pending"]]
  BY DEF Enqueue, WithStatus
<1>2. rows'[r].item = i /\ \A s \in Rows : s # r => rows'[s] = rows[s]
  BY <1>1 DEF TypeOK
<1>3. QED
  BY <1>2 DEF OneActiveImport, NoActiveImport, WithStatus

\* Every way to a second active import of an item goes through the JSON
\* endpoint, which checks before it waits for the body and inserts after it.
THEOREM DuplicatesOnlyByJsonHolds == Spec => DuplicatesOnlyByJson
<1> DEFINE JsonInserts == \E q \in Requests : request[q] # NoItem /\ request'[q] = NoItem
<1>1. IInv /\ [Next]_vars => [OneActiveImport /\ ~OneActiveImport' => JsonInserts]_vars
  <2> SUFFICES ASSUME IInv, [Next]_vars, OneActiveImport
               PROVE  OneActiveImport' \/ JsonInserts
    OBVIOUS
  <2> USE DEF IInv
  <2>1. ASSUME NEW i \in Items, QueueForm(i) \/ AutoQueue(i)
        PROVE  OneActiveImport'
    BY <2>1, EnqueueAfterCheck DEF QueueForm, AutoQueue, EnqueueCandidate
  <2>2. ASSUME NEW q \in Requests, QueueJsonInsert(q)
        PROVE  JsonInserts
    BY <2>2 DEF QueueJsonInsert, TypeOK
  <2>3. ASSUME NEW r \in Rows, NEW status \in Statuses \ {"pending"},
               status = "running" => Active(r), SetStatus(r, status)
        PROVE  OneActiveImport'
    BY <2>3, FewerActiveRows DEF SetStatus, TypeOK, Active
  <2>4. ASSUME NEW r \in Rows, Cancel(r)
        PROVE  OneActiveImport'
    BY <2>3, <2>4 DEF Cancel, Statuses
  <2>5. CASE RunPending \/ LoopTick
    <3>1. CASE rows' = rows
      BY <3>1 DEF OneActiveImport, WithStatus
    <3>2. CASE rows' # rows
      <4>1. PICK r \in Rows : rows[r].status = "pending" /\ SetStatus(r, "running")
        BY <2>5, <3>2 DEF RunPending, LoopTick, RunQueuedImport, IsNext
      <4>2. QED
        BY <2>3, <4>1 DEF Active, Statuses
    <3>3. QED
      BY <3>1, <3>2
  <2>6. CASE RunnerRefuses \/ RunnerDone \/ RunnerKilled
    BY <2>3, <2>6
       DEF RunnerRefuses, RunnerDone, RunnerKilled, RunnerEnds, RunnerHoldsLease, Statuses
  <2>7. CASE Restart
    <3>1. \A r \in Rows : Active(r)' => Active(r) /\ rows'[r].item = rows[r].item
      BY <2>7 DEF Restart, Active, TypeOK
    <3>2. QED
      BY <3>1, FewerActiveRows
  <2>8. CASE UNCHANGED rows
    BY <2>8 DEF OneActiveImport, WithStatus
  <2>9. QED
    BY <2>1, <2>2, <2>4, <2>5, <2>6, <2>7, <2>8
       DEF Next, QueueJsonCheck, Runner, RunnerStarts, RunnerTimesOut, Crash, Configure,
           OtherUse, vars
<1>2. QED
  BY <1>1, InductiveInvariant, PTL DEF Spec, DuplicatesOnlyByJson
=============================================================================
