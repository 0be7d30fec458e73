--------------------------- MODULE QueuedImports ---------------------------
(***************************************************************************)
(* The queue of unattended uploads: the queued_imports table               *)
(* (app/database.py), the requests that fill it (app/main.py), and the     *)
(* runner that drains it one row at a time (app/service.py).               *)
(*                                                                         *)
(* The rows are on disk.  The runner task, the wish to run the queue and   *)
(* the request handlers are in memory and vanish with the program.  The    *)
(* runner suspends while it reads Upload Assistant's stream and while it   *)
(* asks for a kill after a timeout; every database statement and every     *)
(* other part of a handler belongs to the step it is in.                   *)
(***************************************************************************)
EXTENDS Naturals, FiniteSets

CONSTANTS
    Items,          \* items that can be uploaded
    MaxRows,        \* bound: rows ever queued, numbered as they are created
    MaxCrashes,     \* bound: restarts of the program
    Requests,       \* queue requests over the JSON endpoint
    ImportJob,      \* the runner as a user of the lease
    Others,         \* a check or the console as users of the lease
    NoLease,
    NoItem

Rows == 1..MaxRows

ASSUME BoundsAssumption == MaxRows \in Nat /\ MaxCrashes \in Nat
ASSUME NoItemAssumption == NoItem \notin Items
ASSUME HoldersDiffer ==
    ImportJob # Others /\ ImportJob # NoLease /\ Others # NoLease

VARIABLES
    up,         \* the program is running
    holder,     \* who holds the Upload Assistant lease
    rows,       \* the table: item and status of every row
    requested,  \* _queued_import_run_requested
    runner,     \* _import_task: where it is and the row it claimed
    request,    \* JSON requests between their check and their insert
    configured, \* Upload Assistant has a URL and a token
    uploads,    \* history: times the upload of a row was started
    restarted,  \* history: times a row went back to pending at start-up
    crashes

memory == <<requested, runner, request>>
history == <<uploads, restarted, crashes>>
vars == <<up, holder, rows, requested, runner, request, configured,
          uploads, restarted, crashes>>

Lease == INSTANCE UaLease WITH Leases <- {ImportJob, Others}

NoRunner == [at |-> "none", row |-> 0]

Init ==
    /\ up = TRUE
    /\ holder = NoLease
    /\ rows = [r \in Rows |-> [item |-> NoItem, status |-> "absent"]]
    /\ requested = FALSE
    /\ runner = NoRunner
    /\ request = [q \in Requests |-> NoItem]
    /\ configured = TRUE
    /\ uploads = [r \in Rows |-> 0]
    /\ restarted = [r \in Rows |-> 0]
    /\ crashes = 0

-----------------------------------------------------------------------------

WithStatus(status) == {r \in Rows : rows[r].status = status}
HasPending == WithStatus("pending") # {}

\* active_import_for_item finds no row.
NoActiveImport(i) ==
    \A r \in WithStatus("pending") \cup WithStatus("running") : rows[r].item # i

\* The row claim_next_import takes: rows are numbered as they are created.
IsNext(r) ==
    /\ rows[r].status = "pending"
    /\ \A s \in WithStatus("pending") : r <= s

SetStatus(r, status) == rows' = [rows EXCEPT ![r].status = status]

\* enqueue_import
Enqueue(i) ==
    \E r \in WithStatus("absent") :
        /\ \A s \in WithStatus("absent") : r <= s
        /\ rows' = [rows EXCEPT ![r] = [item |-> i, status |-> "pending"]]

-----------------------------------------------------------------------------

\* The form endpoint checks and inserts in one step.
QueueForm(i) ==
    /\ up
    /\ configured
    /\ NoActiveImport(i)
    /\ Enqueue(i)
    /\ UNCHANGED <<up, holder, memory, configured, history>>

\* The JSON endpoint checks for an active import, then waits for the body of
\* the request, then inserts.
QueueJsonCheck(q, i) ==
    /\ up
    /\ configured
    /\ request[q] = NoItem
    /\ NoActiveImport(i)
    /\ request' = [request EXCEPT ![q] = i]
    /\ UNCHANGED <<up, holder, rows, requested, runner, configured, history>>

QueueJsonInsert(q) ==
    /\ request[q] # NoItem
    /\ Enqueue(request[q])
    /\ request' = [request EXCEPT ![q] = NoItem]
    /\ UNCHANGED <<up, holder, requested, runner, configured, history>>

\* Mutant: the auto-queue does not look for an active import.
EnqueueCandidateBlind(i) ==
    /\ configured
    /\ holder \notin {ImportJob, NoLease}
    /\ Enqueue(i)
    /\ requested' = TRUE
    /\ UNCHANGED <<runner, request, configured, uploads, restarted>>

\* _maybe_auto_queue_upload.  The check that found the candidate still has
\* the lease, so the run it asks for can only set the wish.
EnqueueCandidate(i) ==
    /\ configured
    /\ holder \notin {ImportJob, NoLease}
    /\ NoActiveImport(i)
    /\ Enqueue(i)
    /\ requested' = TRUE
    /\ UNCHANGED <<runner, request, configured, uploads, restarted>>

\* The check goes on to a notification, or ends and gives the lease back.
AutoQueue(i) ==
    /\ up
    /\ EnqueueCandidate(i)
    /\ UNCHANGED holder \/ Lease!Free(Others)
    /\ UNCHANGED <<up, crashes>>

\* cancel_import
Cancel(r) ==
    /\ up
    /\ rows[r].status \in {"pending", "error"}
    /\ SetStatus(r, "cancelled")
    /\ UNCHANGED <<up, holder, memory, configured, history>>

-----------------------------------------------------------------------------

\* run_queued_import, called with the wish set to wish: it gives the wish
\* up when nothing can be run, keeps it while somebody else has the lease,
\* and claims the oldest pending row otherwise.
RunQueuedImport(wish) ==
    IF runner.at # "none"
    THEN /\ requested' = wish
         /\ UNCHANGED <<holder, rows, runner>>
    ELSE IF ~configured \/ ~HasPending
    THEN /\ requested' = FALSE
         /\ UNCHANGED <<holder, rows, runner>>
    ELSE IF holder # NoLease
    THEN /\ requested' = wish
         /\ UNCHANGED <<holder, rows, runner>>
    ELSE \E r \in Rows :
            /\ IsNext(r)
            /\ Lease!Grant(ImportJob)
            /\ SetStatus(r, "running")
            /\ runner' = [at |-> "ready", row |-> r]
            /\ requested' = wish

\* The button "Run pending imports".
RunPending ==
    /\ up
    /\ HasPending
    /\ RunQueuedImport(TRUE)
    /\ UNCHANGED <<up, request, configured, history>>

\* The service loop looks at the wish on every turn.
LoopTick ==
    /\ up
    /\ requested
    /\ RunQueuedImport(requested)
    /\ UNCHANGED <<up, request, configured, history>>

\* The end of _run_queued_import_row: the row's final status, then the
\* finally block.
RunnerEnds(status) ==
    /\ SetStatus(runner.row, status)
    /\ runner' = NoRunner
    /\ IF holder = ImportJob THEN Lease!Free(ImportJob) ELSE UNCHANGED holder
    /\ requested' = (requested /\ \E r \in Rows : rows'[r].status = "pending")

\* The runner's first step: the item's present tracker policy may refuse the
\* upload, otherwise the upload is sent to Upload Assistant.
RunnerRefuses ==
    /\ runner.at = "ready"
    /\ RunnerEnds("error")
    /\ UNCHANGED <<up, request, configured, history>>

RunnerStarts ==
    /\ runner.at = "ready"
    /\ runner' = [runner EXCEPT !.at = "streaming"]
    /\ uploads' = [uploads EXCEPT ![runner.row] = @ + 1]
    /\ UNCHANGED <<up, holder, rows, requested, request, configured, restarted, crashes>>

\* The stream ends with a success or a failure message, or it fails.
RunnerDone ==
    /\ runner.at = "streaming"
    /\ \E status \in {"complete", "error"} : RunnerEnds(status)
    /\ UNCHANGED <<up, request, configured, history>>

\* wait_for gives up and the runner asks Upload Assistant to kill the job.
RunnerTimesOut ==
    /\ runner.at = "streaming"
    /\ runner' = [runner EXCEPT !.at = "killing"]
    /\ UNCHANGED <<up, holder, rows, requested, request, configured, history>>

\* Mutant: an import that timed out goes back to the queue.
RunnerKilledRequeues ==
    /\ runner.at = "killing"
    /\ RunnerEnds("pending")
    /\ UNCHANGED <<up, request, configured, history>>

\* The kill call returns; a failed kill is ignored.
RunnerKilled ==
    /\ runner.at = "killing"
    /\ RunnerEnds("error")
    /\ UNCHANGED <<up, request, configured, history>>

-----------------------------------------------------------------------------

\* The program stops or dies.  stop() cancels the runner, which leaves its
\* row as it is: the disk looks the same after a crash.
Crash ==
    /\ up
    /\ crashes < MaxCrashes
    /\ crashes' = crashes + 1
    /\ up' = FALSE
    /\ holder' = NoLease
    /\ requested' = FALSE
    /\ runner' = NoRunner
    /\ request' = [q \in Requests |-> NoItem]
    /\ UNCHANGED <<rows, configured, uploads, restarted>>

\* Mutant: start() does not recover running imports.
RestartOnly ==
    /\ ~up
    /\ up' = TRUE
    /\ UNCHANGED <<holder, rows, memory, configured, history>>

\* start(): recover_running_imports puts interrupted rows back.
Restart ==
    /\ ~up
    /\ up' = TRUE
    /\ rows' = [r \in Rows |->
                   IF rows[r].status = "running"
                   THEN [rows[r] EXCEPT !.status = "pending"]
                   ELSE rows[r]]
    /\ restarted' = [r \in Rows |->
                        IF rows[r].status = "running" THEN restarted[r] + 1
                        ELSE restarted[r]]
    /\ UNCHANGED <<holder, memory, configured, uploads, crashes>>

\* The user changes the connection settings.
Configure ==
    /\ up
    /\ configured' = ~configured
    /\ UNCHANGED <<up, holder, rows, memory, history>>

\* A check or the console takes the lease or gives it back.
OtherUse ==
    /\ up
    /\ Lease!Grant(Others) \/ Lease!Free(Others)
    /\ UNCHANGED <<up, rows, memory, configured, history>>

Runner ==
    RunnerRefuses \/ RunnerStarts \/ RunnerDone \/ RunnerTimesOut \/ RunnerKilled

Next ==
    \/ \E i \in Items : QueueForm(i) \/ AutoQueue(i)
    \/ \E q \in Requests : \/ \E i \in Items : QueueJsonCheck(q, i)
                           \/ QueueJsonInsert(q)
    \/ \E r \in Rows : Cancel(r)
    \/ RunPending \/ LoopTick \/ Runner
    \/ Crash \/ Restart \/ Configure \/ OtherUse

Spec == Init /\ [][Next]_vars

-----------------------------------------------------------------------------

\* While the program runs, the running row is the row of the live runner:
\* no row is left running without a runner, none runs twice.
RunningIsClaimed ==
    up => WithStatus("running") =
             (IF runner.at = "none" THEN {} ELSE {runner.row})

\* An upload is sent to Upload Assistant once per row, and once more only
\* for every restart that found it running.
UploadedOncePerClaim == \A r \in Rows : uploads[r] <= 1 + restarted[r]

OneActiveImport ==
    \A r, s \in WithStatus("pending") \cup WithStatus("running") :
        rows[r].item = rows[s].item => r = s

\* A second active import of an item comes only from the JSON endpoint: the
\* form, the auto-queue, a restart and a retry never make one.
DuplicatesOnlyByJson ==
    [][OneActiveImport /\ ~OneActiveImport' =>
          \E q \in Requests : request[q] # NoItem /\ request'[q] = NoItem]_vars
=============================================================================
