------------------------- MODULE CheckJobs_proofs -------------------------
(***************************************************************************)
(* For any finite sets of items and check tasks: _running_jobs is the      *)
(* number of live tasks, an item shows "checking" for a reason, and what   *)
(* the user decided is not undone behind the user's back.                  *)
(***************************************************************************)
EXTENDS CheckJobs, FiniteSetTheorems, FunctionTheorems, TLAPS

Stages == {"none", "created", "waiting"} \cup Checking

TypeOK ==
    /\ up \in BOOLEAN
    /\ holder \in Slots \cup {Others, NoLease}
    /\ status \in [Items -> Statuses]
    /\ due \in [Items -> BOOLEAN]
    /\ job \in [Slots -> [at : Stages, item : Nat]]
    /\ spaced \in BOOLEAN
    /\ checkSpaced \in BOOLEAN
    /\ paused \in BOOLEAN
    /\ raised \subseteq Items
    /\ crashes \in Nat

Busy == Slots \ Idle

\* A task lives in memory, and while it lives it has an item.
TasksHaveItems ==
    \A t \in Slots : IF job[t].at = "none" THEN job[t] = NoJob
                     ELSE up /\ job[t].item \in Items

\* The task in a stage of a check is the one that has the lease.
CheckersHaveLease == \A t \in Slots : job[t].at \in Checking <=> holder = t

\* While a task sends its notification, its item keeps a decision: only a
\* task with the lease could mark it again.
DecidedIsDone ==
    \A t \in Slots : job[t].at = "notify" => status[job[t].item] # "checking"

IInv ==
    /\ TypeOK
    /\ TasksHaveItems
    /\ CheckersHaveLease
    /\ RunningJobsExact
    /\ CheckingIsLive
    /\ DecidedIsDone

-----------------------------------------------------------------------------

\* There are finitely many tasks, so their number is a number.
LEMMA BusyIsFinite == IsFiniteSet(Busy) /\ Cardinality(Busy) \in Nat
BY SlotsAssumption, FS_Difference, FS_CardinalityType DEF Busy

\* The program starts without tasks.
LEMMA InitHolds == Init => IInv
<1> SUFFICES ASSUME Init PROVE IInv
  OBVIOUS
<1> USE DEF Init
<1>1. NoJob \in [at : Stages, item : Nat] /\ NoJob.at = "none"
  BY DEF NoJob, Stages
<1>2. TypeOK
  BY <1>1 DEF TypeOK, Statuses, Verdicts
<1>3. \A t \in Slots : job[t] = NoJob
  OBVIOUS
<1>4. TasksHaveItems /\ CheckersHaveLease /\ DecidedIsDone
  BY <1>1, <1>3, UsersDiffer
     DEF TasksHaveItems, CheckersHaveLease, DecidedIsDone, Checking
<1>5. Slots \ Idle = {}
  BY <1>1, <1>3 DEF Idle
<1>6. RunningJobsExact
  BY <1>5, FS_EmptySet DEF RunningJobsExact
<1>7. CheckingIsLive
  BY DEF CheckingIsLive
<1>8. QED
  BY <1>2, <1>4, <1>6, <1>7 DEF IInv

-----------------------------------------------------------------------------

\* Task creation gives every item of the batch a task of its own among the
\* idle ones, and counts them.
LEMMA TasksCreated ==
  ASSUME IInv, NEW batch \in SUBSET Items, CreateTasks(batch)
  PROVE  /\ \A t \in Slots :
               \/ job'[t] = job[t]
               \/ /\ job[t].at = "none"
                  /\ \E i \in batch : job'[t] = [at |-> "created", item |-> i]
         /\ job' \in [Slots -> [at : Stages, item : Nat]]
         /\ runningJobs' = Cardinality(Busy')
<1> USE DEF IInv
<1>1. PICK slotOf \in Injection(batch, Idle) :
         job' = [t \in Slots |->
                    IF t \in Range(slotOf)
                    THEN [at |-> "created", item |-> CHOOSE i \in batch : slotOf[i] = t]
                    ELSE job[t]]
  BY DEF CreateTasks
<1> DEFINE New == Range(slotOf)
<1>2. slotOf \in [batch -> Idle] /\ slotOf \in Bijection(batch, New)
  BY Fun_InjectionProperties, Fun_InjMeansBijImage
<1>3. New \subseteq Idle /\ Idle \subseteq Slots
  BY <1>2, Fun_RangeProperties DEF Idle
<1>4. \A t \in New : \E i \in batch : slotOf[i] = t
  BY <1>2, Fun_RangeProperties
<1>5. \A t \in New : \E i \in batch : job'[t] = [at |-> "created", item |-> i]
  <2> SUFFICES ASSUME NEW t \in New
               PROVE  \E i \in batch : job'[t] = [at |-> "created", item |-> i]
    OBVIOUS
  <2>1. (CHOOSE i \in batch : slotOf[i] = t) \in batch
    BY <1>4
  <2>2. QED
    BY <1>1, <1>3, <2>1
<1>6. \A t \in Slots \ New : job'[t] = job[t]
  BY <1>1
<1>7. \A t \in New : job[t].at = "none" /\ job'[t].at = "created"
  <2>1. \A t \in Idle : job[t].at = "none"
    BY DEF Idle
  <2>2. ASSUME NEW t \in New
        PROVE  job'[t].at = "created"
    <3>1. PICK i \in batch : job'[t] = [at |-> "created", item |-> i]
      BY <1>5
    <3>2. QED
      BY <3>1
  <2>3. QED
    BY <1>3, <2>1, <2>2
<1>8. Busy' = Busy \cup New /\ Busy \cap New = {}
  BY <1>3, <1>6, <1>7 DEF Busy, Idle
<1>9. job' \in [Slots -> [at : Stages, item : Nat]]
  <2>1. DOMAIN job' = Slots /\ job' = [t \in Slots |-> job'[t]]
    BY <1>1
  <2>2. \A t \in Slots \ New : job'[t] \in [at : Stages, item : Nat]
    BY <1>6 DEF TypeOK
  <2>3. \A t \in New : job'[t] \in [at : Stages, item : Nat]
    <3>1. \A i \in batch : [at |-> "created", item |-> i] \in [at : Stages, item : Nat]
      BY ItemsAssumption DEF Stages
    <3>2. QED
      BY <1>5, <3>1
  <2>4. QED
    BY <2>1, <2>2, <2>3
<1>10. IsFiniteSet(batch) /\ Cardinality(batch) \in Nat
  BY ItemsAssumption, FS_Subset, FS_CardinalityType
<1>11. IsFiniteSet(New) /\ Cardinality(New) = Cardinality(batch)
  BY <1>2, <1>10, FS_Bijection DEF ExistsBijection
<1>12. Cardinality(Busy') = Cardinality(Busy) + Cardinality(batch)
  <2>1. Cardinality(Busy \cup New) = Cardinality(Busy) + Cardinality(New) - Cardinality({})
    BY <1>8, <1>11, BusyIsFinite, FS_Union
  <2>2. Cardinality({}) = 0
    BY FS_EmptySet
  <2>3. QED
    BY <1>8, <1>10, <1>11, <2>1, <2>2, BusyIsFinite
<1>13. runningJobs' = Cardinality(Busy')
  BY <1>12 DEF CreateTasks, RunningJobsExact, Busy
<1>14. QED
  BY <1>5, <1>6, <1>7, <1>9, <1>13

\* The dispatch touches idle tasks only.
LEMMA DispatchKeeps ==
  ASSUME IInv, Dispatch
  PROVE  IInv'
<1> USE UsersDiffer DEF IInv, Dispatch, Lease!Grant
<1>1. PICK batch \in SUBSET Items : CreateTasks(batch)
  BY DEF RunDueJobs, FirstDue, DueItems
<1>2. /\ \A t \in Slots :
            \/ job'[t] = job[t]
            \/ /\ job[t].at = "none"
               /\ \E i \in batch : job'[t] = [at |-> "created", item |-> i]
      /\ job' \in [Slots -> [at : Stages, item : Nat]]
      /\ runningJobs' = Cardinality(Busy')
  BY <1>1, TasksCreated
<1>3. TypeOK' /\ RunningJobsExact'
  BY <1>2 DEF TypeOK, clockVars, RunningJobsExact, Busy
<1>4. TasksHaveItems'
  BY <1>2 DEF TasksHaveItems
<1>5. CheckersHaveLease'
  BY <1>2 DEF CheckersHaveLease, Checking
<1>6. CheckingIsLive'
  BY <1>2 DEF CheckingIsLive, CheckersHaveLease, Checking
<1>7. DecidedIsDone'
  BY <1>2 DEF DecidedIsDone
<1>8. QED
  BY <1>3, <1>4, <1>5, <1>6, <1>7

-----------------------------------------------------------------------------

\* A task that goes on is as live as before.
LEMMA StageKeepsBusy ==
  ASSUME IInv, NEW t \in Slots, NEW stage \in Stages \ {"none"}, job[t].at # "none",
         job' = [job EXCEPT ![t].at = stage], runningJobs' = runningJobs
  PROVE  /\ RunningJobsExact'
         /\ job' \in [Slots -> [at : Stages, item : Nat]]
         /\ job'[t].at = stage /\ job'[t].item = job[t].item
         /\ \A s \in Slots : s # t => job'[s] = job[s]
<1> USE DEF IInv, TypeOK
<1>1. /\ job'[t].at = stage /\ job'[t].item = job[t].item
      /\ \A s \in Slots : s # t => job'[s] = job[s]
  OBVIOUS
<1>2. job' \in [Slots -> [at : Stages, item : Nat]]
  OBVIOUS
<1>3. Idle' = Idle
  BY <1>1 DEF Idle
<1>4. QED
  BY <1>1, <1>2, <1>3 DEF RunningJobsExact

\* The end of a task is counted, and its lease given back.
LEMMA JobEnds ==
  ASSUME IInv, NEW t \in Slots, job[t].at # "none", EndJob(t)
  PROVE  /\ RunningJobsExact'
         /\ job' \in [Slots -> [at : Stages, item : Nat]]
         /\ job'[t] = NoJob
         /\ \A s \in Slots : s # t => job'[s] = job[s]
         /\ holder' = IF holder = t THEN NoLease ELSE holder
<1> USE DEF IInv, TypeOK, EndJob
<1>1. job'[t] = NoJob /\ \A s \in Slots : s # t => job'[s] = job[s]
  OBVIOUS
<1>2. job' \in [Slots -> [at : Stages, item : Nat]]
  BY DEF NoJob, Stages
<1>3. Busy' = Busy \ {t} /\ t \in Busy
  BY <1>1 DEF Busy, Idle, NoJob
<1>4. Cardinality(Busy \ {t}) = Cardinality(Busy) - 1
  BY <1>3, BusyIsFinite, FS_RemoveElement
<1>5. RunningJobsExact'
  BY <1>3, <1>4 DEF RunningJobsExact, Busy
<1>6. QED
  BY <1>1, <1>2, <1>5 DEF Lease!Free

\* A check waits for the lease.
LEMMA CheckWaitsKeeps ==
  ASSUME IInv, NEW t \in Slots, CheckWaits(t)
  PROVE  IInv'
<1> USE DEF IInv, CheckWaits
<1>1. /\ RunningJobsExact'
      /\ job' \in [Slots -> [at : Stages, item : Nat]]
      /\ job'[t].at = "waiting" /\ job'[t].item = job[t].item
      /\ \A s \in Slots : s # t => job'[s] = job[s]
  BY StageKeepsBusy DEF Stages
<1>2. TypeOK'
  BY <1>1 DEF TypeOK, clockVars
<1>3. TasksHaveItems' /\ CheckersHaveLease' /\ DecidedIsDone' /\ CheckingIsLive'
  BY <1>1 DEF TasksHaveItems, CheckersHaveLease, DecidedIsDone, CheckingIsLive, Checking
<1>4. QED
  BY <1>1, <1>2, <1>3

\* A check that gets the lease marks its item, and no other task is in a
\* stage of a check.
LEMMA CheckStartsKeeps ==
  ASSUME IInv, NEW t \in Slots, CheckStarts(t)
  PROVE  IInv'
<1> USE DEF IInv, CheckStarts, Lease!Grant
<1> DEFINE i == job[t].item
<1>1. /\ RunningJobsExact'
      /\ job' \in [Slots -> [at : Stages, item : Nat]]
      /\ job'[t].at = "media" /\ job'[t].item = i
      /\ \A s \in Slots : s # t => job'[s] = job[s]
  BY StageKeepsBusy DEF Stages, Checking
<1>2. up /\ i \in Items
  BY DEF TasksHaveItems
<1>3. /\ status' \in [Items -> Statuses]
      /\ \A j \in Items : j # i => status'[j] = status[j]
  BY <1>2 DEF Mark, TypeOK, Statuses
<1>4. \A s \in Slots : job[s].at \notin Checking
  BY UsersDiffer DEF CheckersHaveLease
<1>5. TypeOK'
  BY <1>1, <1>3 DEF TypeOK
<1>6. TasksHaveItems' /\ CheckersHaveLease'
  BY <1>1, <1>2, <1>4 DEF TasksHaveItems, CheckersHaveLease, Checking
<1>7. DecidedIsDone'
  BY <1>1, <1>4 DEF DecidedIsDone, Checking
<1>8. CheckingIsLive'
  <2> SUFFICES ASSUME NEW j \in Items, status'[j] = "checking", j # i
               PROVE  j \in raised'
    BY <1>1 DEF CheckingIsLive
  <2>1. status[j] = "checking"
    BY <1>3
  <2>2. j \in raised
    BY <1>2, <2>1, UsersDiffer DEF CheckingIsLive
  <2>3. QED
    BY <2>2
<1>9. QED
  BY <1>1, <1>5, <1>6, <1>7, <1>8

\* The task with the lease goes from stage to stage.
LEMMA NextStageKeeps ==
  ASSUME IInv, NEW t \in Slots, NEW from \in SUBSET Checking,
         NEW to \in Checking \ {"notify"}, NextStage(t, from, to)
  PROVE  IInv'
<1> USE DEF IInv, NextStage
<1> DEFINE i == job[t].item
<1>1. /\ RunningJobsExact'
      /\ job' \in [Slots -> [at : Stages, item : Nat]]
      /\ job'[t].at = to /\ job'[t].item = i
      /\ \A s \in Slots : s # t => job'[s] = job[s]
  BY StageKeepsBusy DEF Stages, Checking
<1>2. up /\ i \in Items /\ holder = t
  BY DEF TasksHaveItems, CheckersHaveLease, Checking
<1>3. /\ status' \in [Items -> Statuses]
      /\ \A j \in Items : j # i => status'[j] = status[j]
  BY <1>2 DEF Mark, TypeOK, Statuses
<1>4. due' \in [Items -> BOOLEAN]
  BY <1>2 DEF TypeOK
<1>5. TypeOK'
  BY <1>1, <1>3, <1>4 DEF TypeOK, clockVars
<1>6. TasksHaveItems' /\ CheckersHaveLease'
  BY <1>1, <1>2 DEF TasksHaveItems, CheckersHaveLease, Checking
<1>7. DecidedIsDone'
  BY <1>1, <1>2 DEF DecidedIsDone, CheckersHaveLease, Checking
<1>8. CheckingIsLive'
  BY <1>1, <1>2, <1>3 DEF CheckingIsLive
<1>9. QED
  BY <1>1, <1>5, <1>6, <1>7, <1>8

\* After its decision an item is not marked any more, whether its task ends
\* or sends a notification.
LEMMA DecideKeeps ==
  ASSUME IInv, NEW t \in Slots, NEW from \in SUBSET Checking,
         NEW verdict \in Verdicts \cup {"retry"}, Decide(t, from, verdict)
  PROVE  IInv'
<1> USE DEF IInv, Decide
<1> DEFINE i == job[t].item
<1>1. up /\ i \in Items /\ holder = t /\ job[t].at # "none"
  BY DEF TasksHaveItems, CheckersHaveLease, Checking
<1>2. /\ status' \in [Items -> Statuses]
      /\ status'[i] # "checking"
      /\ \A j \in Items : j # i => status'[j] = status[j]
  BY <1>1 DEF TypeOK, Statuses, Verdicts
<1>3. due' \in [Items -> BOOLEAN]
  BY <1>1 DEF TypeOK
<1>4. \A j \in Items : status'[j] = "checking" => j \in raised
  BY <1>1, <1>2 DEF CheckingIsLive
<1>5. CheckingIsLive'
  BY <1>4 DEF CheckingIsLive
<1>6. CASE EndJob(t)
  <2>1. /\ RunningJobsExact'
        /\ job' \in [Slots -> [at : Stages, item : Nat]]
        /\ job'[t] = NoJob
        /\ \A s \in Slots : s # t => job'[s] = job[s]
        /\ holder' = NoLease
    BY <1>1, <1>6, JobEnds
  <2>2. TypeOK'
    BY <1>2, <1>3, <2>1 DEF TypeOK, clockVars
  <2>3. TasksHaveItems' /\ CheckersHaveLease'
    BY <1>1, <2>1, UsersDiffer DEF TasksHaveItems, CheckersHaveLease, NoJob, Checking
  <2>4. DecidedIsDone'
    BY <1>1, <2>1 DEF DecidedIsDone, NoJob, CheckersHaveLease, Checking
  <2>5. QED
    BY <1>5, <2>1, <2>2, <2>3, <2>4
<1>7. CASE /\ job' = [job EXCEPT ![t].at = "notify"]
           /\ UNCHANGED <<holder, runningJobs>>
  <2>1. /\ RunningJobsExact'
        /\ job' \in [Slots -> [at : Stages, item : Nat]]
        /\ job'[t].at = "notify" /\ job'[t].item = i
        /\ \A s \in Slots : s # t => job'[s] = job[s]
    BY <1>1, <1>7, StageKeepsBusy DEF Stages, Checking
  <2>2. TypeOK'
    BY <1>2, <1>3, <1>7, <2>1 DEF TypeOK, clockVars
  <2>3. TasksHaveItems' /\ CheckersHaveLease'
    BY <1>1, <1>7, <2>1 DEF TasksHaveItems, CheckersHaveLease, Checking
  <2>4. DecidedIsDone'
    BY <1>1, <1>2, <2>1 DEF DecidedIsDone, CheckersHaveLease, Checking
  <2>5. QED
    BY <1>5, <2>1, <2>2, <2>3, <2>4
<1>8. QED
  BY <1>6, <1>7

\* A task that ends after its notification leaves no marked item; one that
\* ends in an exception leaves its item among those that raised.
LEMMA TaskEndsKeeps ==
  ASSUME IInv, NEW t \in Slots, Notified(t) \/ CheckRaises(t)
  PROVE  IInv'
<1> USE DEF IInv
<1> DEFINE i == job[t].item
<1>1. /\ job[t].at \in Checking /\ EndJob(t)
      /\ UNCHANGED <<up, status, due, clockVars, paused, crashes>>
      /\ raised \subseteq raised' /\ raised' \subseteq raised \cup {i}
      /\ i \in raised' \/ status[i] # "checking"
  BY DEF Notified, CheckRaises, Checking, DecidedIsDone
<1>2. up /\ i \in Items /\ holder = t /\ job[t].at # "none"
  BY <1>1 DEF TasksHaveItems, CheckersHaveLease, Checking
<1>3. /\ RunningJobsExact'
      /\ job' \in [Slots -> [at : Stages, item : Nat]]
      /\ job'[t] = NoJob
      /\ \A s \in Slots : s # t => job'[s] = job[s]
      /\ holder' = NoLease
  BY <1>1, <1>2, JobEnds
<1>4. TypeOK'
  BY <1>1, <1>2, <1>3 DEF TypeOK, clockVars
<1>5. TasksHaveItems' /\ CheckersHaveLease' /\ DecidedIsDone'
  BY <1>1, <1>2, <1>3, UsersDiffer
     DEF TasksHaveItems, CheckersHaveLease, DecidedIsDone, NoJob, Checking
<1>6. CheckingIsLive'
  BY <1>1, <1>2 DEF CheckingIsLive
<1>7. QED
  BY <1>3, <1>4, <1>5, <1>6

-----------------------------------------------------------------------------

\* Requests of the user and the poll never mark an item.
LEMMA UserOrPollKeeps ==
  ASSUME IInv, UserOrPoll
  PROVE  IInv'
<1> USE DEF IInv
<1>1. PICK i \in Items, to \in Statuses \ {"checking"} :
         Write(i, to) /\ due' \in [Items -> BOOLEAN]
  BY DEF UserOrPoll, Recheck, Ignore, Reject, MarkMissing, Cover, Uncover, Replay,
     TypeOK, Statuses, Verdicts
<1>2. /\ status' \in [Items -> Statuses]
      /\ \A j \in Items : status'[j] = "checking" => status[j] = "checking"
  BY <1>1 DEF Write, TypeOK
<1>3. UNCHANGED <<up, holder, job, runningJobs, spaced, checkSpaced, paused, raised, crashes>>
  BY <1>1 DEF Write, jobVars, clockVars
<1>4. TypeOK' /\ RunningJobsExact' /\ TasksHaveItems' /\ CheckersHaveLease'
  BY <1>1, <1>2, <1>3
     DEF TypeOK, RunningJobsExact, Idle, TasksHaveItems, CheckersHaveLease
<1>5. CheckingIsLive'
  BY <1>2, <1>3 DEF CheckingIsLive
<1>6. DecidedIsDone'
  BY <1>2, <1>3 DEF DecidedIsDone, TasksHaveItems
<1>7. QED
  BY <1>4, <1>5, <1>6

\* The passing of time, the guard and the other users of the lease touch
\* neither tasks nor statuses.
LEMMA OthersKeep ==
  ASSUME IInv, UNCHANGED <<up, status, job, runningJobs, raised>>,
         due' \in [Items -> BOOLEAN], {spaced, checkSpaced, paused}' \subseteq BOOLEAN,
         crashes' \in Nat,
         \/ UNCHANGED holder
         \/ {holder, holder'} \subseteq {Others, NoLease}
  PROVE  IInv'
<1> USE DEF IInv
<1>1. TypeOK' /\ RunningJobsExact' /\ TasksHaveItems' /\ DecidedIsDone'
  BY DEF TypeOK, RunningJobsExact, Idle, TasksHaveItems, DecidedIsDone
<1>2. CheckersHaveLease' /\ CheckingIsLive'
  BY UsersDiffer DEF CheckersHaveLease, CheckingIsLive
<1>3. QED
  BY <1>1, <1>2

\* A crash ends all tasks and forgets the count; start() recovers every item
\* that was marked.
LEMMA CrashAndRestartKeep ==
  ASSUME IInv, Crash \/ Restart
  PROVE  IInv'
<1> USE DEF IInv
<1>1. CASE Crash
  <2> USE DEF Crash, clockVars
  <2>1. \A t \in Slots : job'[t] = NoJob
    BY <1>1
  <2>2. TypeOK'
    <3>1. job' \in [Slots -> [at : Stages, item : Nat]]
      BY <1>1 DEF NoJob, Stages
    <3>2. crashes' \in Nat
      BY <1>1 DEF TypeOK
    <3>3. QED
      BY <1>1, <3>1, <3>2 DEF TypeOK
  <2>3. RunningJobsExact'
    <3>1. (Slots \ Idle)' = {}
      BY <2>1 DEF Idle, NoJob
    <3>2. QED
      BY <1>1, <3>1, FS_EmptySet DEF RunningJobsExact
  <2>4. TasksHaveItems' /\ CheckersHaveLease' /\ DecidedIsDone' /\ CheckingIsLive'
    BY <1>1, <2>1, UsersDiffer
       DEF TasksHaveItems, CheckersHaveLease, DecidedIsDone, CheckingIsLive, NoJob, Checking
  <2>5. QED
    BY <2>2, <2>3, <2>4
<1>2. CASE Restart
  <2> USE DEF Restart, jobVars
  <2>1. \A i \in Items : status'[i] # "checking"
    BY <1>2
  <2>2. status' \in [Items -> Statuses] /\ due' \in [Items -> BOOLEAN]
    BY <1>2 DEF TypeOK, Statuses
  <2>3. TypeOK'
    BY <1>2, <2>2 DEF TypeOK
  <2>4. TasksHaveItems' /\ CheckersHaveLease' /\ RunningJobsExact'
    BY <1>2 DEF TasksHaveItems, CheckersHaveLease, RunningJobsExact, Idle
  <2>5. DecidedIsDone' /\ CheckingIsLive'
    BY <1>2, <2>1 DEF DecidedIsDone, CheckingIsLive, TasksHaveItems
  <2>6. QED
    BY <2>3, <2>4, <2>5
<1>3. QED
  BY <1>1, <1>2

\* The inductive invariant: the tasks, the lease, the counter and the marked
\* items agree.
LEMMA InductiveInvariant == Spec => []IInv
<1>1. IInv /\ [Next]_vars => IInv'
  <2> SUFFICES ASSUME IInv, [Next]_vars
               PROVE  IInv'
    OBVIOUS
  <2>1. CASE Dispatch
    BY <2>1, DispatchKeeps
  <2>2. ASSUME NEW t \in Slots, Task(t)
        PROVE  IInv'
    <3>1. CASE CheckWaits(t) \/ CheckStarts(t)
      BY <3>1, CheckWaitsKeeps, CheckStartsKeeps
    <3>2. CASE LookForNfo(t) \/ AskUa(t) \/ AskArr(t) \/ AskSrrdb(t)
      <4>1. \E from \in SUBSET Checking, to \in Checking \ {"notify"} : NextStage(t, from, to)
        BY <3>2 DEF LookForNfo, AskUa, AskArr, AskSrrdb, Checking
      <4>2. QED
        BY <4>1, NextStageKeeps
    <3>3. CASE NoEvidence(t) \/ UaDecides(t) \/ ArrDecides(t) \/ SrrdbDecides(t)
      <4>1. \E from \in SUBSET Checking, v \in Verdicts \cup {"retry"} : Decide(t, from, v)
        BY <3>3 DEF NoEvidence, UaDecides, ArrDecides, SrrdbDecides, Checking, Verdicts
      <4>2. QED
        BY <4>1, DecideKeeps
    <3>4. CASE Notified(t) \/ CheckRaises(t)
      BY <3>4, TaskEndsKeeps
    <3>5. QED
      BY <2>2, <3>1, <3>2, <3>3, <3>4 DEF Task
  <2>3. CASE UserOrPoll
    BY <2>3, UserOrPollKeeps
  <2>4. ASSUME NEW i \in Items, RetryTime(i)
        PROVE  IInv'
    <3>1. due' \in [Items -> BOOLEAN]
      BY <2>4 DEF RetryTime, IInv, TypeOK
    <3>2. QED
      BY <2>4, <3>1, OthersKeep DEF RetryTime, jobVars, clockVars, IInv, TypeOK
  <2>5. CASE SpacingPasses \/ Maintenance \/ OtherTakes \/ OtherStamps \/ OtherReturns
    BY <2>5, OthersKeep
       DEF SpacingPasses, Maintenance, OtherTakes, OtherStamps, OtherReturns, Lease!Grant, Lease!Free,
           jobVars, clockVars, IInv, TypeOK
  <2>6. CASE Crash \/ Restart
    BY <2>6, CrashAndRestartKeep
  <2>7. CASE UNCHANGED vars
    BY <2>7, OthersKeep DEF vars, IInv, TypeOK
  <2>8. QED
    BY <2>1, <2>2, <2>3, <2>4, <2>5, <2>6, <2>7 DEF Next
<1>2. QED
  BY <1>1, InitHolds, PTL DEF Spec

\* _running_jobs is the number of live check tasks after any dispatch,
\* decision, notification, exception and crash: the loop never loses a place
\* for good and never starts more checks than it may.
THEOREM RunningJobsExactHolds == Spec => []RunningJobsExact
BY InductiveInvariant, PTL DEF IInv

\* An item shows "checking" only while the task with the lease has it, or
\* because an exception left it there; a start finds and retries the rest.
THEOREM CheckingIsLiveHolds == Spec => []CheckingIsLive
BY InductiveInvariant, PTL DEF IInv

-----------------------------------------------------------------------------

\* A task writes the status of its own item, and has the lease before or
\* after it does.
LEMMA TaskWritesItsItem ==
  ASSUME IInv, NEW t \in Slots, Task(t)
  PROVE  \/ status' = status
         \/ /\ t \in {holder, holder'}
            /\ \E v : status' = [status EXCEPT ![job[t].item] = v]
<1> USE DEF IInv
<1>1. ASSUME job[t].at \in Checking
      PROVE  t = holder
  BY <1>1 DEF CheckersHaveLease
<1>2. CASE CheckStarts(t)
  BY <1>2 DEF CheckStarts, Mark, Lease!Grant
<1>3. CASE LookForNfo(t) \/ AskUa(t) \/ AskArr(t) \/ AskSrrdb(t)
  BY <1>1, <1>3 DEF LookForNfo, AskUa, AskArr, AskSrrdb, NextStage, Mark, Checking
<1>4. CASE NoEvidence(t) \/ UaDecides(t) \/ ArrDecides(t) \/ SrrdbDecides(t)
  BY <1>1, <1>4 DEF NoEvidence, UaDecides, ArrDecides, SrrdbDecides, Decide, Checking
<1>5. CASE CheckWaits(t) \/ Notified(t) \/ CheckRaises(t)
  BY <1>5 DEF CheckWaits, Notified, CheckRaises
<1>6. QED
  BY <1>2, <1>3, <1>4, <1>5 DEF Task

\* Only the user's own recheck, or a check of the very item, takes an item
\* away from the user's decision: a poll, a replay, a restart and the checks
\* of other items leave it.
THEOREM UserDecisionStandsHolds == Spec => UserDecisionStands
<1> DEFINE
      Decided(i) == status[i] \in {"ignored", "rejected"}
      Undone(i) == status'[i] \notin {"ignored", "rejected", "queued"}
      Checks(i) == \E t \in Slots : t \in {holder, holder'} /\ job[t].item = i
<1>1. IInv /\ [Next]_vars => [\A i \in Items : Decided(i) /\ Undone(i) => Checks(i)]_vars
  <2> SUFFICES ASSUME IInv, [Next]_vars, NEW i \in Items, Decided(i), Undone(i)
               PROVE  Checks(i)
    OBVIOUS
  <2> USE DEF IInv
  <2>1. status'[i] # status[i]
    OBVIOUS
  <2>2. ASSUME NEW t \in Slots, Task(t)
        PROVE  Checks(i)
    <3>1. t \in {holder, holder'} /\ \E v : status' = [status EXCEPT ![job[t].item] = v]
      BY <2>1, <2>2, TaskWritesItsItem
    <3>2. job[t].item = i
      BY <2>1, <3>1 DEF TypeOK
    <3>3. QED
      BY <3>1, <3>2
  <2>3. ~UserOrPoll
    BY DEF UserOrPoll, Recheck, Ignore, Reject, MarkMissing, Cover, Uncover, Replay,
       Write, TypeOK, Verdicts
  <2>4. ~Restart
    BY DEF Restart, TypeOK
  <2>5. QED
    BY <2>1, <2>2, <2>3, <2>4
       DEF Next, Dispatch, RetryTime, SpacingPasses, Maintenance, OtherTakes, OtherStamps, OtherReturns,
           Crash, vars
<1>2. QED
  BY <1>1, InductiveInvariant, PTL DEF Spec, UserDecisionStands
=============================================================================
