----------------------------- MODULE CheckJobs -----------------------------
(***************************************************************************)
(* Site checks: the dispatch of due items by the service loop and the      *)
(* stages of a check (app/service.py), with the updates other parts of the *)
(* program make to the same items (app/database.py, app/main.py).          *)
(*                                                                         *)
(* A check is an asyncio task.  It reads its item once, before it waits    *)
(* for the Upload Assistant lease, and then writes the item's status at    *)
(* every stage whatever the status has become: requests of the user and    *)
(* the inventory poll write the same column between two stages.  A stage   *)
(* ends where the code awaits an answer.                                   *)
(*                                                                         *)
(* Items are numbered in the order they were discovered.  "queued" stands  *)
(* for queued and deferred, which differ in their label only; "settled"    *)
(* for blocked, skipped and error; "missing" for skipped with the verdict  *)
(* torrent_missing.                                                        *)
(***************************************************************************)
EXTENDS Naturals, FiniteSets, Functions

CONSTANTS
    Items,          \* numbered in the order of discovered_at
    Slots,          \* check tasks that may be alive at once
    MaxConcurrent,  \* safety.max_concurrent_ua_jobs, at least 1
    MaxCrashes,     \* bound: restarts of the program
    Others,         \* a queued import or the console, as users of the lease
    NoLease

ASSUME ItemsAssumption == Items \subseteq Nat /\ IsFiniteSet(Items)
ASSUME ConcurrencyAssumption == MaxConcurrent \in Nat \ {0}
ASSUME SlotsAssumption == IsFiniteSet(Slots) /\ Cardinality(Slots) = MaxConcurrent
ASSUME CrashBound == MaxCrashes \in Nat
ASSUME UsersDiffer == NoLease \notin Slots \cup {Others} /\ Others \notin Slots

VARIABLES
    up,             \* the program is running
    holder,         \* who holds the Upload Assistant lease
    status,         \* items.status
    due,            \* items.next_check_at is NULL or has passed
    job,            \* check tasks: the stage each is in and its item
    runningJobs,    \* _running_jobs
    spaced,         \* min_seconds_between_ua_jobs have passed since
                    \* _last_ua_job_started_at
    paused,         \* the maintenance guard is active
    raised,         \* history: items whose last check ended in an exception
    checkSpaced,    \* history: that time has passed since a check started
    crashes

jobVars == <<job, runningJobs>>
clockVars == <<spaced, checkSpaced>>
vars == <<up, holder, status, due, job, runningJobs, spaced, paused, raised,
          checkSpaced, crashes>>

Lease == INSTANCE UaLease WITH Leases <- Slots \cup {Others}

\* Statuses the user or the inventory give an item, and those of a decision.
Verdicts == {"candidate", "review", "settled"}
Statuses == Verdicts \cup
    {"queued", "retry", "checking", "covered", "missing", "ignored", "rejected"}

\* Stages in which a task has the lease.
Checking == {"media", "nfo", "ua", "arr", "srrdb", "notify"}
NoJob == [at |-> "none", item |-> 0]

Init ==
    /\ up = TRUE
    /\ holder = NoLease
    /\ status \in [Items -> {"queued", "candidate"}]
    /\ due = [i \in Items |-> TRUE]
    /\ job = [t \in Slots |-> NoJob]
    /\ runningJobs = 0
    /\ spaced = TRUE
    /\ paused = FALSE
    /\ raised = {}
    /\ checkSpaced = TRUE
    /\ crashes = 0

-----------------------------------------------------------------------------

\* get_due_items without its limit.
IsDue(i) == status[i] \in {"queued", "retry"} /\ due[i]
DueItems == {i \in Items : IsDue(i)}

\* The n due items that were discovered first.
FirstDue(n) ==
    {i \in DueItems : Cardinality({j \in DueItems : j < i}) < n}

Idle == {t \in Slots : job[t].at = "none"}

\* A task is created for every item of batch.
CreateTasks(batch) ==
    /\ \E slotOf \in Injection(batch, Idle) :
          job' = [t \in Slots |->
                     IF t \in Range(slotOf)
                     THEN [at |-> "created", item |-> CHOOSE i \in batch : slotOf[i] = t]
                     ELSE job[t]]
    /\ runningJobs' = runningJobs + Cardinality(batch)

\* Mutant: run_due_jobs does not look at the time of the last start.
RunDueJobsUnspaced ==
    CreateTasks(IF paused THEN {} ELSE FirstDue(MaxConcurrent - runningJobs))

\* Mutant: the last slot is never used.
RunDueJobsOneShort ==
    CreateTasks(IF paused \/ ~spaced THEN {} ELSE FirstDue(MaxConcurrent - 1 - runningJobs))

\* run_due_jobs: as many of the first due items as there is room for get a
\* task each.  The time of the last start is stamped when a check has the
\* lease, so it is the same for all of them; an item keeps its status until
\* its check has the lease, so with room left it is taken again.
RunDueJobs ==
    CreateTasks(IF paused \/ ~spaced THEN {} ELSE FirstDue(MaxConcurrent - runningJobs))

\* One turn of the loop: it may have given a queued import the lease before.
Dispatch ==
    /\ up
    /\ RunDueJobs
    /\ job' # job
    /\ UNCHANGED holder \/ Lease!Grant(Others)
    /\ UNCHANGED <<up, status, due, clockVars, paused, raised, crashes>>

-----------------------------------------------------------------------------

\* update_check_stage and the update_status of the UA stage: the item is
\* being checked, whatever its status was.
Mark(i) == status' = [status EXCEPT ![i] = "checking"]

\* The task ends: the lease is released and _running_jobs counted down.
EndJob(t) ==
    /\ job' = [job EXCEPT ![t] = NoJob]
    /\ runningJobs' = runningJobs - 1
    /\ IF holder = t THEN Lease!Free(t) ELSE UNCHANGED holder

\* check_item up to the lease, when somebody else has it.
CheckWaits(t) ==
    /\ job[t].at = "created"
    /\ holder # NoLease
    /\ job' = [job EXCEPT ![t].at = "waiting"]
    /\ UNCHANGED <<up, holder, status, due, runningJobs, clockVars, paused,
                   raised, crashes>>

\* check_item gets the lease and starts the MediaInfo stage.
CheckStarts(t) ==
    /\ job[t].at \in {"created", "waiting"}
    /\ Lease!Grant(t)
    /\ job' = [job EXCEPT ![t].at = "media"]
    /\ Mark(job[t].item)
    /\ raised' = raised \ {job[t].item}
    /\ spaced' = FALSE
    /\ checkSpaced' = FALSE
    /\ UNCHANGED <<up, due, runningJobs, paused, crashes>>

\* The check goes on to another stage.
NextStage(t, from, to) ==
    /\ job[t].at \in from
    /\ job' = [job EXCEPT ![t].at = to]
    /\ Mark(job[t].item)
    /\ due' = IF to = "ua" THEN [due EXCEPT ![job[t].item] = TRUE] ELSE due
    /\ UNCHANGED <<up, holder, runningJobs, clockVars, paused, raised, crashes>>

\* The check writes its decision.  It ends there, or after a notification
\* for a candidate or an item to review.
Decide(t, from, verdict) ==
    LET i == job[t].item
    IN /\ job[t].at \in from
       /\ status' = [status EXCEPT ![i] = verdict]
       /\ due' = [due EXCEPT ![i] = verdict # "retry"]
       /\ \/ EndJob(t)
          \/ /\ verdict \in {"candidate", "review"}
             /\ job' = [job EXCEPT ![t].at = "notify"]
             /\ UNCHANGED <<holder, runningJobs>>
       /\ UNCHANGED <<up, clockVars, paused, raised, crashes>>

\* WEB releases without a known source look for an NFO file first.
LookForNfo(t) == NextStage(t, {"media"}, "nfo")
AskUa(t) == NextStage(t, {"media", "nfo"}, "ua")
AskArr(t) == NextStage(t, {"ua"}, "arr")
AskSrrdb(t) == NextStage(t, {"arr"}, "srrdb")

\* No MediaInfo, or a path without a mapping, ends a check as an error.
NoEvidence(t) == Decide(t, {"media", "nfo"}, "settled")

\* Upload Assistant fails or was interrupted, or no tracker passed.
UaDecides(t) == \E v \in {"retry", "settled", "review"} : Decide(t, {"ua"}, v)

\* Sonarr, Radarr and the tracker policies rule candidates out; srrDB and
\* the rename detection leave a candidate or send it to the user.
ArrDecides(t) == \E v \in {"settled", "review"} : Decide(t, {"arr"}, v)
SrrdbDecides(t) == \E v \in {"candidate", "review"} : Decide(t, {"srrdb"}, v)

Notified(t) ==
    /\ job[t].at = "notify"
    /\ EndJob(t)
    /\ UNCHANGED <<up, status, due, clockVars, paused, raised, crashes>>

\* Mutant: _running_jobs is counted down at the end, not in a finally.
CheckRaisesUncounted(t) ==
    /\ job[t].at \in Checking
    /\ job' = [job EXCEPT ![t] = NoJob]
    /\ Lease!Free(t)
    /\ raised' = raised \cup {job[t].item}
    /\ UNCHANGED <<up, status, due, runningJobs, clockVars, paused, crashes>>

\* An exception outside the handlers of the stages, such as a failing
\* database write or unexpected evidence: both finally blocks run, and the
\* item keeps the status it has.
CheckRaises(t) ==
    /\ job[t].at \in Checking
    /\ EndJob(t)
    /\ raised' = raised \cup {job[t].item}
    /\ UNCHANGED <<up, status, due, clockVars, paused, crashes>>

Task(t) ==
    \/ CheckWaits(t) \/ CheckStarts(t)
    \/ LookForNfo(t) \/ AskUa(t) \/ AskArr(t) \/ AskSrrdb(t)
    \/ NoEvidence(t) \/ UaDecides(t) \/ ArrDecides(t) \/ SrrdbDecides(t)
    \/ Notified(t) \/ CheckRaises(t)

-----------------------------------------------------------------------------

\* A request of the user or the inventory poll writes an item's status.
Write(i, to) ==
    /\ up
    /\ status' = [status EXCEPT ![i] = to]
    /\ UNCHANGED <<up, holder, jobVars, clockVars, paused, raised, crashes>>

\* requeue and bulk_requeue_filtered: a queued item is due at once.
Recheck(i) == Write(i, "queued") /\ due' = [due EXCEPT ![i] = TRUE]

Ignore(i) == Write(i, "ignored") /\ UNCHANGED due

Reject(i) == Write(i, "rejected") /\ due' = [due EXCEPT ![i] = TRUE]

\* Mutant: rejected and ignored items are reconciled as well.
MarkMissingAll(i) ==
    /\ status[i] # "missing"
    /\ Write(i, "missing")
    /\ due' = [due EXCEPT ![i] = TRUE]

\* mark_missing_from_inventory: the torrent is gone from QUI.
MarkMissing(i) ==
    /\ status[i] \notin {"missing", "ignored", "rejected"}
    /\ Write(i, "missing")
    /\ due' = [due EXCEPT ![i] = TRUE]

\* resolve_covered_candidates and requeue_covered_with_missing_coverage:
\* the trackers an item was valid for have it now, or have lost it again.
Cover(i) ==
    /\ status[i] \in Verdicts \cup {"missing"}
    /\ Write(i, "covered")
    /\ due' = [due EXCEPT ![i] = TRUE]

Uncover(i) ==
    /\ status[i] = "covered"
    /\ Write(i, "queued")
    /\ due' = [due EXCEPT ![i] = TRUE]

\* reapply_release_group_policy and reevaluate_stored_decisions decide
\* again from the stored evidence.
Replay(i) ==
    /\ status[i] \in Verdicts \cup {"missing"}
    /\ \E v \in Verdicts : Write(i, v)
    /\ due' = [due EXCEPT ![i] = TRUE]

UserOrPoll ==
    \E i \in Items : \/ Recheck(i) \/ Ignore(i) \/ Reject(i)
                     \/ MarkMissing(i) \/ Cover(i) \/ Uncover(i) \/ Replay(i)

-----------------------------------------------------------------------------

\* The time a retry was put off to has come.
RetryTime(i) ==
    /\ ~due[i]
    /\ due' = [due EXCEPT ![i] = TRUE]
    /\ UNCHANGED <<up, holder, status, jobVars, clockVars, paused, raised, crashes>>

\* The spacing has passed since the last check, and since the last job.
SpacingPasses ==
    /\ ~checkSpaced \/ ~spaced
    /\ checkSpaced' = TRUE
    /\ spaced' \in {spaced, TRUE}
    /\ UNCHANGED <<up, holder, status, due, jobVars, paused, raised, crashes>>

Maintenance ==
    /\ up
    /\ paused' = ~paused
    /\ UNCHANGED <<up, holder, status, due, jobVars, clockVars, raised, crashes>>

OtherTakes ==
    /\ up
    /\ Lease!Grant(Others)
    /\ UNCHANGED <<up, status, due, jobVars, clockVars, paused, raised, crashes>>

\* The first step of a queued import stamps the time of the last start, and
\* gives the lease back if the upload is refused.  The console stamps nothing.
OtherStamps ==
    /\ UNCHANGED holder \/ Lease!Free(Others)
    /\ holder = Others
    /\ spaced' = FALSE
    /\ UNCHANGED <<up, status, due, jobVars, paused, raised, checkSpaced, crashes>>

OtherReturns ==
    /\ Lease!Free(Others)
    /\ UNCHANGED <<up, status, due, jobVars, clockVars, paused, raised, crashes>>

\* The program stops or dies: the tasks end and the items stay as they are.
Crash ==
    /\ up
    /\ crashes < MaxCrashes
    /\ crashes' = crashes + 1
    /\ up' = FALSE
    /\ holder' = NoLease
    /\ job' = [t \in Slots |-> NoJob]
    /\ runningJobs' = 0
    /\ UNCHANGED <<status, due, clockVars, paused, raised>>

\* Mutant: start() does not recover interrupted checks.
RestartOnly ==
    /\ ~up
    /\ up' = TRUE
    /\ raised' = {}
    /\ spaced' = TRUE
    /\ checkSpaced' = TRUE
    /\ UNCHANGED <<holder, status, due, jobVars, paused, crashes>>

\* start(): interrupted checks are retried after a backoff, among them
\* those an exception left behind.  The time of the last start is forgotten.
Restart ==
    /\ ~up
    /\ up' = TRUE
    /\ status' = [i \in Items |-> IF status[i] = "checking" THEN "retry" ELSE status[i]]
    /\ due' = [i \in Items |-> IF status[i] = "checking" THEN FALSE ELSE due[i]]
    /\ raised' = {}
    /\ spaced' = TRUE
    /\ checkSpaced' = TRUE
    /\ UNCHANGED <<holder, jobVars, paused, crashes>>

Next ==
    \/ Dispatch
    \/ \E t \in Slots : Task(t)
    \/ UserOrPoll
    \/ \E i \in Items : RetryTime(i)
    \/ SpacingPasses \/ Maintenance \/ OtherTakes \/ OtherStamps \/ OtherReturns
    \/ Crash \/ Restart

Spec == Init /\ [][Next]_vars

-----------------------------------------------------------------------------

\* _running_jobs counts the live check tasks: no exception, decision or
\* notification loses one, so the loop never stops dispatching for good and
\* never starts more than it may.
RunningJobsExact == runningJobs = Cardinality(Slots \ Idle)

\* An item shows "checking" while the task that holds the lease checks it,
\* or because an exception ended its check; nothing else leaves it there,
\* where no dispatch and no retry would find it.
CheckingIsLive ==
    up => \A i \in Items : status[i] = "checking" =>
             i \in raised \/ \E t \in Slots : holder = t /\ job[t].item = i

\* What the user decided about an item is undone by the user's own recheck,
\* or by a check of that item that has the lease; never by a poll, a replay
\* of decisions, a restart or the check of another item.
UserDecisionStands ==
    [][\A i \in Items :
          status[i] \in {"ignored", "rejected"}
          /\ status'[i] \notin {"ignored", "rejected", "queued"}
          => \E t \in Slots : t \in {holder, holder'} /\ job[t].item = i]_vars
=============================================================================
