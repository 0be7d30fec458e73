--------------------------- MODULE Service_proofs ---------------------------
(***************************************************************************)
(* For any set of items and check tasks, any queue of imports and any      *)
(* number of restarts: checks, imports and the console give Upload         *)
(* Assistant one job at a time, but for the jobs whose end a caller        *)
(* missed; and with one check at a time the starts of checks are spaced.   *)
(***************************************************************************)
EXTENDS Service, Maintenance, FiniteSetTheorems, TLAPS

Stages == {"none", "created", "waiting"} \cup Checks!Checking
Records == [at : Stages, item : Items \cup {0}]
Rows == 1..MaxRows
Runners == [at : {"none", "ready", "streaming", "killing"}, row : Rows \cup {0}]

TypeOK ==
    /\ holder \in Jobs \cup {NoLease}
    /\ job \in [Slots -> Records]
    /\ \A t \in Slots : job[t].at # "none" => job[t].item \in Items
    /\ runningJobs \in Int
    /\ runner \in Runners
    /\ ua \subseteq Jobs

\* The lease is held by the task in a stage of a check, by a live runner, by
\* the console, or by nobody.
HoldersMatch ==
    /\ \A t \in Slots : job[t].at \in Checks!Checking <=> holder = t
    /\ runner.at # "none" <=> holder = ImportJob

\* A job whose end its caller can still see is one its caller waits for.
LostOrAwaited ==
    \A j \in ua :
        \/ j \in lost
        \/ j \in Slots /\ job[j].at = "ua"
        \/ j = ImportJob /\ runner.at \in {"streaming", "killing"}
        \/ j = Console /\ holder = Console

\* Tasks and leases live in memory.
DeadWhenDown ==
    ~up => holder = NoLease /\ \A t \in Slots : job[t].at = "none"

IInv == TypeOK /\ HoldersMatch /\ LostOrAwaited /\ DeadWhenDown

-----------------------------------------------------------------------------

\* The invariant says what the property says: who waits has the lease.
LEMMA InvImpliesProperty == IInv => OnlyLostJobsOverlap
BY UsersDiffer
   DEF IInv, TypeOK, HoldersMatch, LostOrAwaited, OnlyLostJobsOverlap, Checks!Checking

\* The program starts with a free lease and no job at Upload Assistant.
LEMMA InitHolds == Init => IInv
<1> SUFFICES ASSUME Init PROVE IInv
  OBVIOUS
<1>1. /\ holder = NoLease /\ ua = {} /\ runningJobs = 0
      /\ job = [t \in Slots |-> [at |-> "none", item |-> 0]]
      /\ runner = [at |-> "none", row |-> 0]
  BY DEF Init, Checks!Init, Checks!NoJob, Imports!Init, Imports!NoRunner
<1>2. TypeOK
  BY <1>1 DEF TypeOK, Records, Stages, Runners
<1>3. HoldersMatch
  BY <1>1, UsersDiffer DEF HoldersMatch, Checks!Checking
<1>4. QED
  BY <1>1, <1>2, <1>3 DEF IInv, LostOrAwaited, DeadWhenDown

-----------------------------------------------------------------------------

\* Only task t moved, which is alive; the runner did not.
OnlyTask(t) ==
    /\ job[t].at # "none"
    /\ job' \in [Slots -> Records]
    /\ \A s \in Slots \ {t} : job'[s] = job[s]
    /\ job'[t].at # "none" => job'[t].item = job[t].item
    /\ runningJobs' \in Int
    /\ UNCHANGED <<up, runner, crashes>>

\* A task goes on: to another stage, or to its end.
LEMMA StageSet ==
  ASSUME TypeOK, NEW t \in Slots, NEW to \in Stages, job[t].at # "none",
         job' = [job EXCEPT ![t].at = to], UNCHANGED <<up, runner, crashes, runningJobs>>
  PROVE  OnlyTask(t) /\ job'[t].at = to
BY DEF TypeOK, OnlyTask, Records

LEMMA TaskEnded ==
  ASSUME TypeOK, NEW t \in Slots, job[t].at # "none",
         job' = [job EXCEPT ![t] = Checks!NoJob],
         runningJobs' = runningJobs - 1, UNCHANGED <<up, runner, crashes>>
  PROVE  OnlyTask(t) /\ job'[t].at = "none"
<1>1. Checks!NoJob \in Records /\ Checks!NoJob.at = "none"
  BY DEF Checks!NoJob, Records, Stages
<1>2. QED
  BY <1>1 DEF TypeOK, OnlyTask

\* The time of the last start.
clock == <<spaced, checkSpaced>>

\* What a step of a task may do with the lease: keep it through the stages
\* of a check, take it at the first, give it back at the end.
Keeps(t) ==
    /\ OnlyTask(t)
    /\ \/ holder' = holder /\ (job[t].at \in Checks!Checking <=> job'[t].at \in Checks!Checking)
       \/ holder = NoLease /\ holder' = t /\ job'[t].at \in Checks!Checking
       \/ holder = t /\ holder' = NoLease /\ job'[t].at \notin Checks!Checking

\* Such a step leaves types and holders in order, whoever holds the lease.
LEMMA HoldersKept ==
  ASSUME IInv, NEW t \in Slots, Keeps(t)
  PROVE  /\ holder' \in Jobs \cup {NoLease}
         /\ HoldersMatch'
         /\ (holder = Console) = (holder' = Console)
<1>1. \A s \in Slots : job'[s].at \in Checks!Checking <=> holder' = s
  BY UsersDiffer DEF Keeps, OnlyTask, IInv, TypeOK, HoldersMatch, Checks!Checking
<1>2. runner'.at # "none" <=> holder' = ImportJob
  BY UsersDiffer DEF Keeps, OnlyTask, IInv, HoldersMatch
<1>3. holder' \in Jobs \cup {NoLease} /\ (holder = Console) = (holder' = Console)
  BY UsersDiffer DEF Keeps, IInv, TypeOK, Jobs
<1>4. QED
  BY <1>1, <1>2, <1>3 DEF HoldersMatch, Checks!Checking

\* The end of a task gives the lease back.
LEMMA EndKeeps ==
  ASSUME IInv, NEW t \in Slots, job[t].at \in Checks!Checking,
         Checks!EndJob(t), UNCHANGED <<up, runner, crashes>>
  PROVE  Keeps(t) /\ job'[t].at = "none"
<1>1. holder = t /\ holder' = NoLease
  BY DEF Checks!EndJob, Checks!Lease!Free, IInv, HoldersMatch
<1>2. OnlyTask(t) /\ job'[t].at = "none"
  BY TaskEnded DEF Checks!EndJob, Checks!Checking, IInv
<1>3. QED
  BY <1>1, <1>2 DEF Keeps, Checks!Checking

\* A decision keeps the lease for a notification or gives it back.
LEMMA DecideKeeps ==
  ASSUME IInv, NEW t \in Slots, NEW from \in SUBSET Checks!Checking, NEW verdict,
         Checks!Decide(t, from, verdict), runner' = runner
  PROVE  /\ Keeps(t) /\ job[t].at \in from /\ job'[t].at \in {"none", "notify"}
         /\ UNCHANGED clock
<1>1. job[t].at \in from /\ UNCHANGED <<up, crashes>> /\ UNCHANGED clock
  BY DEF Checks!Decide, Checks!clockVars, clock
<1>2. CASE Checks!EndJob(t)
  BY <1>1, <1>2, EndKeeps
<1>3. CASE job' = [job EXCEPT ![t].at = "notify"] /\ UNCHANGED <<holder, runningJobs>>
  <2>1. "notify" \in Stages /\ "notify" \in Checks!Checking
    BY DEF Stages, Checks!Checking
  <2>2. OnlyTask(t) /\ job'[t].at = "notify"
    BY <1>1, <1>3, <2>1, StageSet DEF IInv, Checks!Checking
  <2>3. QED
    BY <1>1, <1>3, <2>1, <2>2 DEF Keeps
<1>4. QED
  BY <1>2, <1>3 DEF Checks!Decide

\* The next stage keeps the lease.
LEMMA NextStageKeeps ==
  ASSUME IInv, NEW t \in Slots, NEW from \in SUBSET Checks!Checking,
         NEW to \in Checks!Checking,
         Checks!NextStage(t, from, to), runner' = runner
  PROVE  /\ Keeps(t) /\ job[t].at \in from /\ job'[t].at = to
         /\ UNCHANGED clock
<1>1. /\ job[t].at \in from /\ job' = [job EXCEPT ![t].at = to] /\ holder' = holder
      /\ UNCHANGED <<up, crashes, runningJobs>> /\ UNCHANGED clock
  BY DEF Checks!NextStage, Checks!clockVars, clock
<1>2. to \in Stages
  BY DEF Stages
<1>3. OnlyTask(t) /\ job'[t].at = to
  BY <1>1, <1>2, StageSet DEF IInv, Checks!Checking
<1>4. QED
  BY <1>1, <1>3 DEF Keeps

-----------------------------------------------------------------------------

\* The steps of a check keep the lease in order.
LEMMA CheckKeeps ==
  ASSUME IInv, NEW t \in Slots, Check(t)
  PROVE  /\ Keeps(t)
         /\ \/ ua' = ua /\ lost' = lost /\ job[t].at # "ua"
            \/ UaGets(t) /\ job'[t].at = "ua"
            \/ UaEnded(t)
            \/ UaAbandoned(t)
         /\ \/ UNCHANGED clock /\ job'[t].at \notin {"created", "waiting", "media"}
            \/ UNCHANGED clock /\ job[t].at = "created" /\ job'[t].at = "waiting"
            \/ /\ job[t].at \in {"created", "waiting"} /\ job'[t].at = "media"
               /\ spaced' = FALSE
<1> USE DEF Checks!Checking, Checks!clockVars, clock
<1>1. CASE CheckStep(t)
  <2>1. runner' = runner /\ ua' = ua /\ lost' = lost
    BY <1>1 DEF CheckStep, importVars, uaVars
  <2>2. CASE Checks!CheckWaits(t)
    <3>1. "waiting" \in Stages
      BY DEF Stages
    <3>2. OnlyTask(t) /\ job'[t].at = "waiting"
      BY <2>1, <2>2, <3>1, StageSet DEF IInv, Checks!CheckWaits
    <3>3. QED
      BY <2>1, <2>2, <3>2 DEF Checks!CheckWaits, Keeps
  <2>3. CASE Checks!CheckStarts(t)
    <3>1. "media" \in Stages
      BY DEF Stages
    <3>2. OnlyTask(t) /\ job'[t].at = "media"
      BY <2>1, <2>3, <3>1, StageSet DEF IInv, Checks!CheckStarts
    <3>3. QED
      BY <2>1, <2>3, <3>2 DEF Checks!CheckStarts, Checks!Lease!Grant, Keeps
  <2>4. CASE Checks!LookForNfo(t)
    BY <2>1, <2>4, NextStageKeeps DEF Checks!LookForNfo
  <2>5. CASE Checks!AskSrrdb(t)
    BY <2>1, <2>5, NextStageKeeps DEF Checks!AskSrrdb
  <2>6. CASE Checks!NoEvidence(t)
    <3>1. Checks!Decide(t, {"media", "nfo"}, "settled")
      BY <2>6 DEF Checks!NoEvidence
    <3>2. {"media", "nfo"} \in SUBSET Checks!Checking
      OBVIOUS
    <3>3. /\ Keeps(t) /\ job[t].at \in {"media", "nfo"}
          /\ job'[t].at \in {"none", "notify"}
          /\ UNCHANGED clock
      BY <2>1, <3>1, <3>2, DecideKeeps
    <3>4. QED
      BY <2>1, <3>3
  <2>7. CASE Checks!ArrDecides(t)
    <3>1. PICK verdict : Checks!Decide(t, {"arr"}, verdict)
      BY <2>7 DEF Checks!ArrDecides
    <3>2. {"arr"} \in SUBSET Checks!Checking
      OBVIOUS
    <3>3. /\ Keeps(t) /\ job[t].at = "arr" /\ job'[t].at \in {"none", "notify"}
          /\ UNCHANGED clock
      BY <2>1, <3>1, <3>2, DecideKeeps
    <3>4. QED
      BY <2>1, <3>3
  <2>8. CASE Checks!SrrdbDecides(t)
    <3>1. PICK verdict : Checks!Decide(t, {"srrdb"}, verdict)
      BY <2>8 DEF Checks!SrrdbDecides
    <3>2. {"srrdb"} \in SUBSET Checks!Checking
      OBVIOUS
    <3>3. /\ Keeps(t) /\ job[t].at = "srrdb" /\ job'[t].at \in {"none", "notify"}
          /\ UNCHANGED clock
      BY <2>1, <3>1, <3>2, DecideKeeps
    <3>4. QED
      BY <2>1, <3>3
  <2>9. CASE Checks!Notified(t)
    BY <2>1, <2>9, EndKeeps DEF Checks!Notified
  <2>10. CASE job[t].at # "ua" /\ Checks!CheckRaises(t)
    BY <2>1, <2>10, EndKeeps DEF Checks!CheckRaises
  <2>11. QED
    BY <1>1, <2>2, <2>3, <2>4, <2>5, <2>6, <2>7, <2>8, <2>9, <2>10 DEF CheckStep
<1>2. CASE CheckAsksUa(t)
  BY <1>2, NextStageKeeps DEF CheckAsksUa, Checks!AskUa, importVars
<1>3. CASE CheckUaDone(t)
  <2>1. runner' = runner /\ UaEnded(t)
    BY <1>3 DEF CheckUaDone, importVars
  <2>2. CASE Checks!AskArr(t)
    BY <2>1, <2>2, NextStageKeeps DEF Checks!AskArr
  <2>3. CASE Checks!UaDecides(t)
    <3>1. PICK verdict : Checks!Decide(t, {"ua"}, verdict)
      BY <2>3 DEF Checks!UaDecides
    <3>2. {"ua"} \in SUBSET Checks!Checking
      OBVIOUS
    <3>3. /\ Keeps(t) /\ job'[t].at \in {"none", "notify"}
          /\ UNCHANGED clock
      BY <2>1, <3>1, <3>2, DecideKeeps
    <3>4. QED
      BY <2>1, <3>3
  <2>4. CASE job[t].at = "ua" /\ Checks!CheckRaises(t)
    BY <2>1, <2>4, EndKeeps DEF Checks!CheckRaises
  <2>5. QED
    BY <1>3, <2>2, <2>3, <2>4 DEF CheckUaDone
<1>4. CASE CheckUaLost(t)
  <2>1. runner' = runner /\ UaAbandoned(t)
    BY <1>4 DEF CheckUaLost, importVars
  <2>2. CASE Checks!Decide(t, {"ua"}, "retry")
    BY <2>1, <2>2, DecideKeeps
  <2>3. CASE job[t].at = "ua" /\ Checks!CheckRaises(t)
    BY <2>1, <2>3, EndKeeps DEF Checks!CheckRaises
  <2>4. QED
    BY <1>4, <2>2, <2>3 DEF CheckUaLost
<1>5. CASE CheckAutoQueues(t)
  <2>1. runner' = runner /\ ua' = ua /\ lost' = lost
    BY <1>5 DEF CheckAutoQueues, Imports!EnqueueCandidate, uaVars
  <2>2. Checks!Decide(t, {"srrdb"}, "candidate")
    BY <1>5 DEF CheckAutoQueues
  <2>3. {"srrdb"} \in SUBSET Checks!Checking
    OBVIOUS
  <2>4. /\ Keeps(t) /\ job[t].at = "srrdb" /\ job'[t].at \in {"none", "notify"}
        /\ UNCHANGED clock
    BY <2>1, <2>2, <2>3, DecideKeeps
  <2>5. QED
    BY <2>1, <2>4
<1>6. QED
  BY <1>1, <1>2, <1>3, <1>4, <1>5 DEF Check

\* A step of a check preserves the invariant.
LEMMA CheckPreserves ==
  ASSUME IInv, NEW t \in Slots, Check(t)
  PROVE  IInv'
<1>1. /\ holder' \in Jobs \cup {NoLease}
      /\ HoldersMatch'
      /\ (holder = Console) = (holder' = Console)
  BY CheckKeeps, HoldersKept
<1>2. OnlyTask(t)
  BY CheckKeeps DEF Keeps
<1>3. ua' \subseteq Jobs
  <2>1. ua' \subseteq ua \cup {t}
    BY CheckKeeps DEF UaGets, UaEnded, UaAbandoned
  <2>2. QED
    BY <2>1 DEF IInv, TypeOK, Jobs
<1>4. TypeOK'
  BY <1>1, <1>2, <1>3 DEF OnlyTask, IInv, TypeOK, Jobs
<1>5. LostOrAwaited'
  <2> SUFFICES ASSUME NEW j \in ua', j \notin lost'
               PROVE  \/ j \in Slots /\ job'[j].at = "ua"
                      \/ j = ImportJob /\ runner'.at \in {"streaming", "killing"}
                      \/ j = Console /\ holder' = Console
    BY DEF LostOrAwaited
  <2>1. CASE j = t
    BY <2>1, CheckKeeps, UsersDiffer
       DEF IInv, LostOrAwaited, UaGets, UaEnded, UaAbandoned
  <2>2. CASE j # t
    <3>1. j \in ua /\ j \notin lost
      BY <2>2, CheckKeeps DEF UaGets, UaEnded, UaAbandoned
    <3>2. QED
      BY <2>2, <3>1, <1>1, <1>2 DEF OnlyTask, IInv, LostOrAwaited
  <2>3. QED
    BY <2>1, <2>2
<1>6. DeadWhenDown'
  BY <1>2 DEF OnlyTask, IInv, DeadWhenDown
<1>7. QED
  BY <1>1, <1>4, <1>5, <1>6 DEF IInv

-----------------------------------------------------------------------------

\* A step of anything but a check moves no task through a check; HoldersMatch
\* then hangs on the runner and the lease alone.
SameStages ==
    /\ job' \in [Slots -> Records]
    /\ \A t \in Slots : \/ job'[t] = job[t]
                        \/ /\ job[t].at = "none"
                           /\ job'[t].at = "created" /\ job'[t].item \in Items
    /\ runningJobs' \in Int

\* The loop's try of an import takes a free lease for it, or nothing.
LEMMA TryKeeps ==
  ASSUME IInv, Imports!RunQueuedImport(TRUE) \/ Imports!RunQueuedImport(requested)
  PROVE  \/ holder' = holder /\ runner' = runner
         \/ /\ holder = NoLease /\ holder' = ImportJob
            /\ runner.at = "none" /\ runner'.at = "ready" /\ runner' \in Runners
BY DEF Imports!RunQueuedImport, Imports!Lease!Grant, Imports!Rows, Rows, Runners

\* The dispatch of checks creates tasks in idle slots only, and none before
\* the time has come.
LEMMA DispatchKeeps ==
  ASSUME IInv, Checks!RunDueJobs
  PROVE  /\ SameStages
         /\ spaced \/ job' = job
         /\ job' = job => runningJobs' = runningJobs
<1>1. PICK batch \in SUBSET Items : Checks!CreateTasks(batch) /\ (spaced \/ batch = {})
  BY DEF Checks!RunDueJobs, Checks!FirstDue, Checks!DueItems
<1>2. PICK slotOf \in Checks!Injection(batch, Checks!Idle) :
         job' = [t \in Slots |->
                    IF t \in Checks!Range(slotOf)
                    THEN [at |-> "created", item |-> CHOOSE i \in batch : slotOf[i] = t]
                    ELSE job[t]]
  BY <1>1 DEF Checks!CreateTasks
<1>3. slotOf \in [batch -> Checks!Idle]
  BY <1>2 DEF Checks!Injection
<1>4. ASSUME NEW t \in Slots, t \in Checks!Range(slotOf)
      PROVE  /\ job[t].at = "none"
             /\ job'[t] \in Records
             /\ job'[t].at = "created" /\ job'[t].item \in Items
  <2>1. PICK i \in batch : slotOf[i] = t
    BY <1>3, <1>4 DEF Checks!Range
  <2>2. (CHOOSE k \in batch : slotOf[k] = t) \in batch
    BY <2>1
  <2>3. t \in Checks!Idle
    BY <1>3, <2>1
  <2>4. "created" \in Stages
    BY DEF Stages
  <2>5. QED
    BY <1>2, <1>4, <2>2, <2>3, <2>4 DEF Checks!Idle, Records
<1>5. ASSUME NEW t \in Slots, t \notin Checks!Range(slotOf)
      PROVE  job'[t] = job[t]
  BY <1>2, <1>5
<1>6. job' \in [Slots -> Records]
  <2>1. \A t \in Slots : job'[t] \in Records
    BY <1>4, <1>5 DEF IInv, TypeOK
  <2>2. QED
    BY <1>2, <2>1
<1>7. runningJobs' = runningJobs + Cardinality(batch)
  BY <1>1 DEF Checks!CreateTasks, Checks!Cardinality, Cardinality
<1>8. ASSUME batch = {}
      PROVE  job' = job
  <2>1. Checks!Range(slotOf) = {}
    BY <1>3, <1>8 DEF Checks!Range
  <2>2. QED
    BY <1>2, <2>1 DEF IInv, TypeOK
<1>9. ASSUME job' = job
      PROVE  runningJobs' = runningJobs
  <2>1. batch = {}
    <3> SUFFICES ASSUME NEW i \in batch PROVE FALSE
      OBVIOUS
    <3>1. slotOf[i] \in Slots /\ slotOf[i] \in Checks!Range(slotOf)
      BY <1>3 DEF Checks!Range, Checks!Idle
    <3>2. QED
      BY <1>4, <1>9, <3>1
  <2>2. QED
    BY <1>7, <2>1, FS_EmptySet DEF IInv, TypeOK
<1>10. runningJobs' \in Int
  <2>1. Cardinality(batch) \in Nat
    BY ItemsAssumption, FS_Subset, FS_CardinalityType
  <2>2. QED
    BY <1>7, <2>1 DEF IInv, TypeOK
<1>11. QED
  BY <1>1, <1>4, <1>5, <1>6, <1>8, <1>9, <1>10 DEF SameStages

\* Nothing but the queue of imports or the dispatch moved: an import may have
\* been claimed while the lease was free.
LEMMA LoopPreserves ==
  ASSUME IInv, SameStages, up', ua' = ua, lost' = lost,
         \/ holder' = holder /\ runner' = runner
         \/ /\ holder = NoLease /\ holder' = ImportJob
            /\ runner.at = "none" /\ runner'.at = "ready" /\ runner' \in Runners
  PROVE  IInv'
<1>1. TypeOK'
  BY DEF SameStages, IInv, TypeOK, Jobs
<1>2. \A t \in Slots : job'[t].at \in Checks!Checking <=> job[t].at \in Checks!Checking
  BY DEF SameStages, Checks!Checking
<1>3. HoldersMatch'
  BY <1>2, UsersDiffer DEF IInv, HoldersMatch, Checks!Checking
<1>4. LostOrAwaited'
  BY UsersDiffer DEF SameStages, IInv, LostOrAwaited
<1>5. QED
  BY <1>1, <1>3, <1>4 DEF IInv, DeadWhenDown

\* A step that leaves the lease, the tasks, the runner and Upload
\* Assistant's jobs alone.
LEMMA NothingMoves ==
  ASSUME IInv, UNCHANGED <<holder, job, runningJobs, runner, uaVars>>, up' = up \/ up'
  PROVE  IInv'
BY DEF IInv, TypeOK, HoldersMatch, LostOrAwaited, DeadWhenDown, Jobs, uaVars, Checks!Checking

\* A turn of the loop preserves the invariant: the import it may claim first
\* and the tasks it creates afterwards.
LEMMA TurnPreserves ==
  ASSUME IInv, LoopStarts \/ LoopPolled \/ PollFails
  PROVE  IInv'
<1> USE DEF checkVars, importVars, uaVars
<1>1. ASSUME UNCHANGED <<job, runningJobs>>
      PROVE  SameStages
  BY <1>1 DEF SameStages, IInv, TypeOK
<1>2. ASSUME TryImport
      PROVE  \/ holder' = holder /\ runner' = runner
             \/ /\ holder = NoLease /\ holder' = ImportJob
                /\ runner.at = "none" /\ runner'.at = "ready" /\ runner' \in Runners
  BY <1>2, TryKeeps DEF TryImport
<1>3. CASE LoopStarts /\ quiConfigured
  BY <1>3, NothingMoves DEF LoopStarts
<1>4. CASE LoopStarts /\ ~quiConfigured
  BY <1>1, <1>2, <1>4, LoopPreserves DEF LoopStarts
<1>5. CASE LoopPolled
  BY <1>2, <1>5, DispatchKeeps, LoopPreserves DEF LoopPolled
<1>6. CASE PollFails
  BY <1>6, NothingMoves DEF PollFails
<1>7. QED
  BY <1>3, <1>4, <1>5, <1>6

-----------------------------------------------------------------------------

\* The end of the runner gives the lease back.
LEMMA RunnerEndKeeps ==
  ASSUME IInv, runner.at # "none", NEW to, Imports!RunnerEnds(to)
  PROVE  /\ holder = ImportJob /\ holder' = NoLease
         /\ runner'.at = "none" /\ runner' \in Runners
BY DEF Imports!RunnerEnds, Imports!NoRunner, Imports!Lease!Free, Runners, IInv, HoldersMatch

\* The runner's steps: nothing but its own lease and its own job moves.
LEMMA ImportPreserves ==
  ASSUME IInv, Import
  PROVE  IInv'
<1>1. UNCHANGED <<job, runningJobs>>
  BY DEF Import, ImportStarts, ImportEnds, ImportStep, checkVars
<1>2. /\ runner.at # "none" /\ holder = ImportJob
      /\ runner' \in Runners
      /\ \/ holder' = holder /\ runner'.at # "none"
         \/ holder' = NoLease /\ runner'.at = "none"
      /\ \/ /\ ua' = ua /\ lost' = lost
            /\ runner'.at = "killing" \/ runner.at = "ready"
         \/ UaGets(ImportJob) /\ runner'.at = "streaming"
         \/ UaEnded(ImportJob)
         \/ UaAbandoned(ImportJob)
  <2>1. CASE ImportStarts /\ Imports!RunnerStarts
    <3>1. /\ runner.at = "ready" /\ holder' = holder
          /\ runner' = [runner EXCEPT !.at = "streaming"]
      BY <2>1 DEF Imports!RunnerStarts
    <3>2. runner' \in Runners /\ runner'.at = "streaming"
      BY <3>1 DEF IInv, TypeOK, Runners
    <3>3. UaGets(ImportJob)
      BY <2>1, <3>2 DEF ImportStarts, Imports!RunnerRefuses, Imports!RunnerEnds, Imports!NoRunner
    <3>4. QED
      BY <3>1, <3>2, <3>3 DEF IInv, HoldersMatch
  <2>2. CASE ImportStarts /\ Imports!RunnerRefuses
    <3>1. runner.at = "ready" /\ runner'.at = "none" /\ runner' \in Runners
          /\ holder = ImportJob /\ holder' = NoLease
      BY <2>2, RunnerEndKeeps DEF Imports!RunnerRefuses
    <3>2. ua' = ua /\ lost' = lost
      BY <2>2, <3>1 DEF ImportStarts, Imports!RunnerStarts, IInv, TypeOK, Runners, uaVars
    <3>3. QED
      BY <3>1, <3>2
  <2>3. CASE ImportEnds
    <3>1. UaEnded(ImportJob) \/ UaAbandoned(ImportJob)
      BY <2>3 DEF ImportEnds
    <3>2. runner.at \in {"streaming", "killing"} /\ \E to \in {"complete", "error"} : Imports!RunnerEnds(to)
      BY <2>3 DEF ImportEnds, Imports!RunnerDone, Imports!RunnerKilled
    <3>3. QED
      BY <3>1, <3>2, RunnerEndKeeps
  <2>4. CASE ImportStep
    <3>1. /\ runner.at = "streaming" /\ holder' = holder /\ ua' = ua /\ lost' = lost
          /\ runner' = [runner EXCEPT !.at = "killing"]
      BY <2>4 DEF ImportStep, Imports!RunnerTimesOut, uaVars
    <3>2. runner' \in Runners /\ runner'.at = "killing"
      BY <3>1 DEF IInv, TypeOK, Runners
    <3>3. QED
      BY <3>1, <3>2 DEF IInv, HoldersMatch
  <2>5. QED
    BY <2>1, <2>2, <2>3, <2>4 DEF Import, ImportStarts
<1>3. TypeOK'
  BY <1>1, <1>2 DEF IInv, TypeOK, Jobs, UaGets, UaEnded, UaAbandoned
<1>4. HoldersMatch'
  BY <1>1, <1>2, UsersDiffer DEF IInv, HoldersMatch, Checks!Checking
<1>5. LostOrAwaited'
  BY <1>1, <1>2, UsersDiffer DEF IInv, LostOrAwaited, UaGets, UaEnded, UaAbandoned
<1>6. up' = up /\ up
  BY <1>2, UsersDiffer
     DEF Import, ImportStarts, ImportEnds, ImportStep, Imports!RunnerStarts,
         Imports!RunnerRefuses, Imports!RunnerDone, Imports!RunnerKilled,
         Imports!RunnerTimesOut, IInv, DeadWhenDown
<1>7. QED
  BY <1>3, <1>4, <1>5, <1>6 DEF IInv, DeadWhenDown

-----------------------------------------------------------------------------

\* The console takes a free lease with its job, and gives it back at the end.
LEMMA ConsolePreserves ==
  ASSUME IInv, ConsoleStarts \/ ConsoleEnds
  PROVE  IInv'
<1>1. UNCHANGED <<job, runningJobs, runner>>
  BY DEF ConsoleStarts, ConsoleEnds, checkVars, importVars
<1>2. \/ holder = NoLease /\ holder' = Console /\ UaGets(Console)
      \/ holder = Console /\ holder' = NoLease /\ (UaEnded(Console) \/ UaAbandoned(Console))
  BY DEF ConsoleStarts, ConsoleEnds, Imports!Lease!Grant, Imports!Lease!Free
<1>3. TypeOK'
  BY <1>1, <1>2 DEF IInv, TypeOK, Jobs, UaGets, UaEnded, UaAbandoned
<1>4. HoldersMatch'
  BY <1>1, <1>2, UsersDiffer DEF IInv, HoldersMatch, Checks!Checking
<1>5. LostOrAwaited'
  BY <1>1, <1>2, UsersDiffer DEF IInv, LostOrAwaited, UaGets, UaEnded, UaAbandoned
<1>6. up'
  <2>1. CASE ConsoleStarts
    BY <2>1 DEF ConsoleStarts
  <2>2. CASE ConsoleEnds
    <3>1. holder = Console /\ up' = up
      BY <2>2 DEF ConsoleEnds, Imports!Lease!Free
    <3>2. up
      BY <3>1, UsersDiffer DEF IInv, DeadWhenDown
    <3>3. QED
      BY <3>1, <3>2
  <2>3. QED
    BY <2>1, <2>2
<1>7. QED
  BY <1>3, <1>4, <1>5, <1>6 DEF IInv, DeadWhenDown

\* Upload Assistant ends a job by itself.
LEMMA ExitPreserves ==
  ASSUME IInv, NEW j \in Jobs, UaExits(j)
  PROVE  IInv'
<1>1. UNCHANGED <<up, holder, job, runningJobs, runner>> /\ UaEnded(j)
  BY DEF UaExits, checkVars, importVars
<1>2. QED
  BY <1>1 DEF IInv, TypeOK, HoldersMatch, LostOrAwaited, DeadWhenDown, UaEnded, Jobs, Checks!Checking

\* With the program every caller dies: all of Upload Assistant's jobs are lost.
LEMMA CrashPreserves ==
  ASSUME IInv, Crash
  PROVE  IInv'
<1>1. /\ holder' = NoLease /\ ua' = ua /\ lost' = ua /\ runningJobs' = 0
      /\ job' = [t \in Slots |-> [at |-> "none", item |-> 0]]
      /\ runner' = [at |-> "none", row |-> 0]
  BY DEF Crash, Checks!Crash, Imports!Crash, Checks!NoJob, Imports!NoRunner
<1>2. TypeOK'
  BY <1>1 DEF IInv, TypeOK, Records, Stages, Runners, Jobs
<1>3. HoldersMatch'
  BY <1>1, UsersDiffer DEF HoldersMatch, Checks!Checking
<1>4. LostOrAwaited'
  BY <1>1 DEF LostOrAwaited
<1>5. DeadWhenDown'
  BY <1>1 DEF DeadWhenDown
<1>6. QED
  BY <1>2, <1>3, <1>4, <1>5 DEF IInv

\* What is left: the button that runs the imports, and the steps that touch
\* neither the lease nor a task.
LEMMA OtherPreserves ==
  ASSUME IInv,
         ImportRequest \/ ItemRequest \/ TimePasses \/ Maintenance \/ Restart
  PROVE  IInv'
<1> USE DEF checkVars, importVars, loopVars, uaVars, Checks!jobVars, Imports!memory
<1>1. CASE ImportRequest
  <2>1. SameStages /\ ua' = ua /\ lost' = lost
    BY <1>1 DEF ImportRequest, SameStages, IInv, TypeOK
  <2>2. CASE Imports!RunPending
    BY <2>1, <2>2, TryKeeps, LoopPreserves DEF Imports!RunPending
  <2>3. CASE ~Imports!RunPending
    BY <1>1, <2>3, NothingMoves
       DEF ImportRequest, Imports!QueueForm, Imports!Cancel
  <2>4. QED
    BY <2>2, <2>3
<1>2. CASE ItemRequest
  BY <1>2, NothingMoves DEF ItemRequest, Checks!Recheck, Checks!Ignore, Checks!Write
<1>3. CASE TimePasses
  BY <1>3, NothingMoves DEF TimePasses, Checks!SpacingPasses, Checks!RetryTime
<1>4. CASE Maintenance
  BY <1>4, NothingMoves DEF Maintenance, Checks!Maintenance
<1>5. CASE Restart
  BY <1>5, NothingMoves DEF Restart, Checks!Restart, Imports!Restart
<1>6. QED
  BY <1>1, <1>2, <1>3, <1>4, <1>5

\* Every step preserves the invariant.
LEMMA StepPreserves == IInv /\ [Next]_vars => IInv'
<1> SUFFICES ASSUME IInv, [Next]_vars PROVE IInv'
  OBVIOUS
<1>1. CASE UNCHANGED vars
  BY <1>1, NothingMoves DEF vars, checkVars, importVars
<1>2. CASE Next
  BY <1>2, TurnPreserves, CheckPreserves, ImportPreserves, ConsolePreserves,
     ExitPreserves, CrashPreserves, OtherPreserves DEF Next
<1>3. QED
  BY <1>1, <1>2

\* In every state of a run the lease is with the part of the program that is
\* at work, and Upload Assistant's jobs are theirs or lost.
THEOREM InductiveInvariant == Spec => []IInv
<1>1. Init => IInv
  BY InitHolds
<1>2. IInv /\ [Next]_vars => IInv'
  BY StepPreserves
<1>3. QED
  BY <1>1, <1>2, PTL DEF Spec

\* Checks, imports and the console together, with a program that may die at
\* any step: Upload Assistant runs one job of theirs at a time, but for the
\* jobs whose end a caller missed.
THEOREM OnlyLostJobsOverlapHolds == Spec => []OnlyLostJobsOverlap
BY InductiveInvariant, InvImpliesProperty, PTL

-----------------------------------------------------------------------------

\* The coordinator's lease, as checks, imports and the console share it.
ProgramLease == INSTANCE UaLease WITH Leases <- Jobs

\* A part of the program takes a free lease or gives back its own.
LEMMA LeaseMoves ==
  ASSUME IInv, [Next]_vars
  PROVE  [ProgramLease!LeaseNext]_holder
<1> USE DEF ProgramLease!LeaseNext, ProgramLease!Grant, ProgramLease!Free, Jobs
<1>1. CASE LoopStarts \/ LoopPolled
  <2>1. TryImport \/ UNCHANGED holder
    BY <1>1 DEF LoopStarts, LoopPolled
  <2>2. QED
    BY <2>1, TryKeeps DEF TryImport
<1>2. ASSUME NEW t \in Slots, Check(t)
      PROVE  [ProgramLease!LeaseNext]_holder
  BY <1>2, CheckKeeps DEF Keeps
<1>3. CASE Import
  <2>1. CASE Imports!RunnerStarts \/ Imports!RunnerTimesOut
    BY <2>1 DEF Imports!RunnerStarts, Imports!RunnerTimesOut
  <2>2. CASE Imports!RunnerRefuses \/ Imports!RunnerDone \/ Imports!RunnerKilled
    <3>1. runner.at # "none" /\ \E to \in {"complete", "error", "killed"} : Imports!RunnerEnds(to)
      BY <2>2 DEF Imports!RunnerRefuses, Imports!RunnerDone, Imports!RunnerKilled
    <3>2. QED
      BY <3>1, RunnerEndKeeps
  <2>3. QED
    BY <1>3, <2>1, <2>2 DEF Import, ImportStarts, ImportEnds, ImportStep
<1>4. CASE ImportRequest
  BY <1>4, TryKeeps
     DEF ImportRequest, Imports!RunPending, Imports!QueueForm, Imports!Cancel
<1>5. CASE ConsoleStarts \/ ConsoleEnds
  BY <1>5 DEF ConsoleStarts, ConsoleEnds, Imports!Lease!Grant, Imports!Lease!Free
<1>6. CASE Crash
  <2>1. holder' = NoLease /\ holder \in Jobs \cup {NoLease}
    BY <1>6 DEF Crash, Imports!Crash, IInv, TypeOK
  <2>2. QED
    BY <2>1
<1>7. CASE \/ PollFails \/ ItemRequest \/ TimePasses \/ Maintenance \/ Restart
           \/ \E j \in Jobs : UaExits(j)
  BY <1>7 DEF PollFails, ItemRequest, Checks!Recheck, Checks!Ignore, Checks!Write, TimePasses,
     Checks!SpacingPasses, Checks!RetryTime, Maintenance, Checks!Maintenance, Restart,
     Checks!Restart, Imports!Restart, UaExits, Checks!jobVars
<1>8. CASE UNCHANGED vars
  BY <1>8 DEF vars
<1>9. QED
  BY <1>1, <1>2, <1>3, <1>4, <1>5, <1>6, <1>7, <1>8 DEF Next

\* Checks, imports and the console together use the lease as the coordinator
\* promises it: none takes it from another, gives back what it does not have,
\* or hands it over directly, and a program that stops leaves it free.
THEOREM KeepsPromise == Spec => ProgramLease!LeaseSpec
<1>1. Init => ProgramLease!LeaseInit
  BY DEF Init, Checks!Init, ProgramLease!LeaseInit
<1>2. IInv /\ [Next]_vars => [ProgramLease!LeaseNext]_holder
  BY LeaseMoves
<1>3. QED
  BY <1>1, <1>2, InductiveInvariant, PTL DEF Spec, ProgramLease!LeaseSpec

-----------------------------------------------------------------------------

\* The time since any job started is no longer than that since a check
\* started, and a task that is not through with waiting was created spaced.
WaitersAreSpaced ==
    /\ spaced => checkSpaced
    /\ \A t \in Slots : job[t].at \in {"created", "waiting"} => checkSpaced

\* A step that starts no check: it creates tasks only when the time has come.
LEMMA SpacingKept ==
  ASSUME WaitersAreSpaced,
         \A t \in Slots : \/ job'[t].at = job[t].at
                          \/ job'[t].at = "none"
                          \/ job'[t].at = "created" /\ spaced,
         \/ UNCHANGED clock
         \/ spaced' = FALSE /\ checkSpaced' = checkSpaced
         \/ checkSpaced'
  PROVE  /\ WaitersAreSpaced'
         /\ \A t \in Slots : job[t].at # "media" /\ job'[t].at = "media" => checkSpaced
BY DEF WaitersAreSpaced, clock

\* With one task, a check that starts was created when the time had come, and
\* no other check has started since.
LEMMA SpacingStep ==
  ASSUME MaxConcurrent = 1, IInv, WaitersAreSpaced, [Next]_vars
  PROVE  /\ WaitersAreSpaced'
         /\ \A t \in Slots : job[t].at # "media" /\ job'[t].at = "media" => checkSpaced
<1> USE DEF clock
<1>1. CASE LoopStarts \/ PollFails \/ ImportRequest \/ ConsoleStarts \/ ConsoleEnds
           \/ (\E j \in Jobs : UaExits(j)) \/ UNCHANGED vars
  <2>1. UNCHANGED checkVars
    BY <1>1
       DEF LoopStarts, PollFails, ImportRequest, ConsoleStarts, ConsoleEnds, UaExits, vars
  <2>2. job' = job /\ UNCHANGED clock
    BY <2>1 DEF checkVars
  <2>3. QED
    BY <2>2, SpacingKept
<1>2. CASE LoopPolled
  <2>1. UNCHANGED clock /\ Checks!RunDueJobs
    BY <1>2 DEF LoopPolled, Unchecked
  <2>2. QED
    BY <2>1, DispatchKeeps, SpacingKept DEF SameStages
<1>3. CASE Import
  <2>1. job' = job
    BY <1>3 DEF Import, ImportStarts, ImportEnds, ImportStep, checkVars
  <2>2. UNCHANGED clock \/ (spaced' = FALSE /\ checkSpaced' = checkSpaced)
    BY <1>3 DEF Import, ImportStarts, ImportEnds, ImportStep, checkVars
  <2>3. QED
    BY <2>1, <2>2, SpacingKept
<1>4. CASE ItemRequest \/ TimePasses \/ Maintenance
  <2>1. job' = job
    BY <1>4
       DEF ItemRequest, Checks!Recheck, Checks!Ignore, Checks!Write, TimePasses,
           Checks!SpacingPasses, Checks!RetryTime, Maintenance, Checks!Maintenance,
           Checks!jobVars
  <2>2. UNCHANGED clock \/ checkSpaced'
    BY <1>4
       DEF ItemRequest, Checks!Recheck, Checks!Ignore, Checks!Write, TimePasses,
           Checks!SpacingPasses, Checks!RetryTime, Maintenance, Checks!Maintenance,
           Checks!clockVars
  <2>3. QED
    BY <2>1, <2>2, SpacingKept
<1>5. CASE Crash \/ Restart
  <2>1. \A t \in Slots : job'[t].at = job[t].at \/ job'[t].at = "none"
    <3>1. CASE Crash
      BY <3>1 DEF Crash, Checks!Crash, Checks!NoJob
    <3>2. CASE Restart
      BY <3>2 DEF Restart, Checks!Restart, Checks!jobVars
    <3>3. QED
      BY <1>5, <3>1, <3>2
  <2>2. UNCHANGED clock \/ checkSpaced'
    BY <1>5 DEF Crash, Checks!Crash, Checks!clockVars, Restart, Checks!Restart
  <2>3. QED
    BY <2>1, <2>2, SpacingKept
<1>6. CASE \E t \in Slots : Check(t)
  <2>1. PICK t \in Slots : Check(t)
    BY <1>6
  <2>2. Slots = {t}
    BY <2>1, SlotsAssumption, FS_Singleton
  <2>3. CASE UNCHANGED clock /\ job'[t].at \notin {"created", "waiting", "media"}
    BY <2>2, <2>3 DEF WaitersAreSpaced
  <2>4. CASE UNCHANGED clock /\ job[t].at = "created" /\ job'[t].at = "waiting"
    BY <2>2, <2>4 DEF WaitersAreSpaced
  <2>5. CASE /\ job[t].at \in {"created", "waiting"} /\ job'[t].at = "media"
             /\ spaced' = FALSE
    BY <2>2, <2>5 DEF WaitersAreSpaced
  <2>6. QED
    BY <2>1, <2>3, <2>4, <2>5, CheckKeeps
<1>7. QED
  BY <1>1, <1>2, <1>3, <1>4, <1>5, <1>6 DEF Next

\* With one check at a time the starts of checks are spaced, whatever queued
\* imports and the console do between them: an import stamps the time of the
\* last start too, and what it stamps only makes the next check wait longer.
THEOREM ChecksSpacedHolds ==
  ASSUME MaxConcurrent = 1
  PROVE  Spec => ChecksSpaced
<1>1. Init => WaitersAreSpaced
  BY DEF Init, Checks!Init, Checks!NoJob, WaitersAreSpaced
<1>2. IInv /\ WaitersAreSpaced /\ [Next]_vars => WaitersAreSpaced'
  BY SpacingStep
<1>3. IInv /\ WaitersAreSpaced /\ [Next]_vars =>
         [\A t \in Slots :
             job[t].at # "media" /\ job'[t].at = "media" => checkSpaced]_vars
  BY SpacingStep
<1>4. QED
  BY <1>1, <1>2, <1>3, InductiveInvariant, PTL DEF Spec, ChecksSpaced

-----------------------------------------------------------------------------

\* What the checks see of the lease: a queued import is one of the others.
checkHolder == IF holder = ImportJob THEN Console ELSE holder

\* Their part of the program, with everything that is proved about it.
CheckPart == INSTANCE CheckJobs_proofs WITH Others <- Console, holder <- checkHolder

\* The checks know their own leases and a free one.
LEMMA CheckHolderIs ==
  /\ \A t \in Slots \cup {NoLease} : (checkHolder = t) = (holder = t)
  /\ \A t \in Slots \cup {NoLease} : (checkHolder' = t) = (holder' = t)
  /\ holder' = holder => checkHolder' = checkHolder
  /\ holder \in {ImportJob, Console} => checkHolder = Console
  /\ holder' \in {ImportJob, Console} => checkHolder' = Console
BY UsersDiffer DEF checkHolder

\* The end of a task, a decision and a stage are steps of that part.
LEMMA CheckOperations ==
  ASSUME NEW t \in Slots
  PROVE  /\ Checks!EndJob(t) => CheckPart!EndJob(t)
         /\ \A from, verdict :
               Checks!Decide(t, from, verdict) => CheckPart!Decide(t, from, verdict)
         /\ \A from, to :
               Checks!NextStage(t, from, to) => CheckPart!NextStage(t, from, to)
<1>1. Checks!EndJob(t) => CheckPart!EndJob(t)
  BY CheckHolderIs
     DEF Checks!EndJob, CheckPart!EndJob, Checks!NoJob, CheckPart!NoJob,
         Checks!Lease!Free, CheckPart!Lease!Free
<1>2. ASSUME NEW from, NEW verdict, Checks!Decide(t, from, verdict)
      PROVE  CheckPart!Decide(t, from, verdict)
  BY <1>1, <1>2, CheckHolderIs
     DEF Checks!Decide, CheckPart!Decide, Checks!clockVars, CheckPart!clockVars
<1>3. ASSUME NEW from, NEW to, Checks!NextStage(t, from, to)
      PROVE  CheckPart!NextStage(t, from, to)
  BY <1>3, CheckHolderIs
     DEF Checks!NextStage, CheckPart!NextStage, Checks!Mark, CheckPart!Mark,
         Checks!clockVars, CheckPart!clockVars
<1>4. QED
  BY <1>1, <1>2, <1>3

\* Every step of a check is one of that part, whatever else it does: send
\* Upload Assistant a job, lose it, or queue an import.
LEMMA CheckImplements ==
  ASSUME NEW t \in Slots, Check(t)
  PROVE  CheckPart!Task(t)
<1> USE DEF CheckPart!Task
<1>1. CASE CheckStep(t)
  <2>1. CASE Checks!CheckWaits(t)
    BY <2>1, CheckHolderIs
       DEF Checks!CheckWaits, CheckPart!CheckWaits, Checks!clockVars, CheckPart!clockVars
  <2>2. CASE Checks!CheckStarts(t)
    BY <2>2, CheckHolderIs
       DEF Checks!CheckStarts, CheckPart!CheckStarts, Checks!Mark, CheckPart!Mark,
           Checks!Lease!Grant, CheckPart!Lease!Grant
  <2>3. CASE Checks!LookForNfo(t) \/ Checks!AskSrrdb(t)
    BY <2>3, CheckOperations
       DEF Checks!LookForNfo, CheckPart!LookForNfo, Checks!AskSrrdb, CheckPart!AskSrrdb
  <2>4. CASE Checks!NoEvidence(t) \/ Checks!ArrDecides(t) \/ Checks!SrrdbDecides(t)
    BY <2>4, CheckOperations
       DEF Checks!NoEvidence, CheckPart!NoEvidence, Checks!ArrDecides,
           CheckPart!ArrDecides, Checks!SrrdbDecides, CheckPart!SrrdbDecides
  <2>5. CASE Checks!Notified(t)
    BY <2>5, CheckOperations
       DEF Checks!Notified, CheckPart!Notified, Checks!clockVars, CheckPart!clockVars
  <2>6. CASE Checks!CheckRaises(t)
    BY <2>6, CheckOperations
       DEF Checks!CheckRaises, CheckPart!CheckRaises, Checks!Checking,
           CheckPart!Checking, Checks!clockVars, CheckPart!clockVars
  <2>7. QED
    BY <1>1, <2>1, <2>2, <2>3, <2>4, <2>5, <2>6 DEF CheckStep
<1>2. CASE CheckAsksUa(t)
  BY <1>2, CheckOperations DEF CheckAsksUa, Checks!AskUa, CheckPart!AskUa
<1>3. CASE Checks!AskArr(t) \/ Checks!UaDecides(t)
  BY <1>3, CheckOperations
     DEF Checks!AskArr, CheckPart!AskArr, Checks!UaDecides, CheckPart!UaDecides
<1>4. CASE Checks!CheckRaises(t)
  BY <1>4, CheckOperations
     DEF Checks!CheckRaises, CheckPart!CheckRaises, Checks!Checking,
         CheckPart!Checking, Checks!clockVars, CheckPart!clockVars
<1>5. CASE Checks!Decide(t, {"ua"}, "retry")
  BY <1>5, CheckOperations DEF CheckPart!UaDecides
<1>6. CASE CheckAutoQueues(t)
  BY <1>6, CheckOperations DEF CheckAutoQueues, CheckPart!SrrdbDecides
<1>7. QED
  BY <1>1, <1>2, <1>3, <1>4, <1>5, <1>6 DEF Check, CheckUaDone, CheckUaLost

\* The loop creates tasks as that part does, and may claim an import before.
LEMMA DispatchImplements ==
  Checks!RunDueJobs => CheckPart!RunDueJobs
BY DEF Checks!RunDueJobs, CheckPart!RunDueJobs, Checks!CreateTasks, CheckPart!CreateTasks,
       Checks!FirstDue, CheckPart!FirstDue, Checks!DueItems, CheckPart!DueItems,
       Checks!IsDue, CheckPart!IsDue, Checks!Idle, CheckPart!Idle,
       Checks!Injection, CheckPart!Injection, Checks!IsInjective, CheckPart!IsInjective,
       Checks!Range, CheckPart!Range, Checks!Cardinality, CheckPart!Cardinality

\* What others do with the lease is of no concern to a check.
LEMMA OthersImplement ==
  ASSUME IInv, UNCHANGED <<up, status, due, job, runningJobs, paused, raised, crashes>>,
         \/ UNCHANGED <<holder, clock>>
         \/ up /\ holder = NoLease /\ holder' \in {ImportJob, Console} /\ UNCHANGED clock
         \/ holder \in {ImportJob, Console} /\ holder' = NoLease /\ UNCHANGED clock
         \/ /\ holder = ImportJob /\ holder' \in {ImportJob, NoLease}
            /\ spaced' = FALSE /\ checkSpaced' = checkSpaced
  PROVE  [CheckPart!Next]_(CheckPart!vars)
<1> USE CheckHolderIs DEF CheckPart!jobVars, CheckPart!clockVars, clock, CheckPart!Next
<1>1. CASE UNCHANGED <<holder, clock>>
  BY <1>1 DEF CheckPart!vars
<1>2. CASE up /\ holder = NoLease /\ holder' \in {ImportJob, Console} /\ UNCHANGED clock
  BY <1>2 DEF CheckPart!OtherTakes, CheckPart!Lease!Grant
<1>3. CASE holder \in {ImportJob, Console} /\ holder' = NoLease /\ UNCHANGED clock
  BY <1>3 DEF CheckPart!OtherReturns, CheckPart!Lease!Free
<1>4. CASE /\ holder = ImportJob /\ holder' \in {ImportJob, NoLease}
           /\ spaced' = FALSE /\ checkSpaced' = checkSpaced
  BY <1>4 DEF CheckPart!OtherStamps, CheckPart!Lease!Free
<1>5. QED
  BY <1>1, <1>2, <1>3, <1>4

\* Every step of the program is a step of that part, or does not concern it.
LEMMA StepImplementsChecks ==
  ASSUME IInv, [Next]_vars
  PROVE  [CheckPart!Next]_(CheckPart!vars)
<1> USE DEF checkVars, clock
<1>1. ASSUME TryImport
      PROVE  holder' = holder \/ (holder = NoLease /\ holder' = ImportJob)
  BY <1>1, TryKeeps DEF TryImport
<1>2. CASE LoopStarts
  BY <1>1, <1>2, OthersImplement DEF LoopStarts
<1>3. CASE LoopPolled
  <2>1. CASE job' = job
    BY <1>1, <1>3, <2>1, DispatchKeeps, OthersImplement DEF LoopPolled, Unchecked
  <2>2. CASE job' # job
    <3>1. UNCHANGED checkHolder \/ CheckPart!Lease!Grant(Console)
      BY <1>1, <1>3, CheckHolderIs DEF LoopPolled, CheckPart!Lease!Grant
    <3>2. CheckPart!Dispatch
      BY <1>3, <2>2, <3>1, DispatchImplements
         DEF LoopPolled, Unchecked, CheckPart!Dispatch, CheckPart!clockVars
    <3>3. QED
      BY <3>2 DEF CheckPart!Next
  <2>3. QED
    BY <2>1, <2>2
<1>4. CASE \E t \in Slots : Check(t)
  BY <1>4, CheckImplements DEF CheckPart!Next
<1>5. CASE Import
  <2>1. /\ runner.at # "none" /\ holder = ImportJob /\ holder' \in {ImportJob, NoLease}
        /\ UNCHANGED <<up, crashes>>
    <3>1. CASE Imports!RunnerStarts \/ Imports!RunnerTimesOut
      BY <3>1 DEF Imports!RunnerStarts, Imports!RunnerTimesOut, Imports!history,
                  IInv, HoldersMatch
    <3>2. CASE Imports!RunnerRefuses \/ Imports!RunnerDone \/ Imports!RunnerKilled
      BY <3>2, RunnerEndKeeps
         DEF Imports!RunnerRefuses, Imports!RunnerDone, Imports!RunnerKilled,
             Imports!history
    <3>3. QED
      BY <1>5, <3>1, <3>2 DEF Import, ImportStarts, ImportEnds, ImportStep
  <2>2. CASE ImportStarts
    BY <2>1, <2>2, OthersImplement DEF ImportStarts
  <2>3. CASE ImportEnds \/ ImportStep
    BY <2>1, <2>3, OthersImplement DEF ImportEnds, ImportStep
  <2>4. QED
    BY <1>5, <2>2, <2>3 DEF Import
<1>6. CASE ImportRequest
  <2>1. UNCHANGED <<up, crashes>> /\ up
    BY <1>6 DEF ImportRequest, Imports!RunPending, Imports!QueueForm, Imports!Cancel,
                Imports!history
  <2>2. holder' = holder \/ (holder = NoLease /\ holder' = ImportJob)
    BY <1>6, TryKeeps DEF ImportRequest, Imports!RunPending, Imports!QueueForm, Imports!Cancel
  <2>3. QED
    BY <1>6, <2>1, <2>2, OthersImplement DEF ImportRequest
<1>7. CASE PollFails \/ ConsoleStarts \/ ConsoleEnds \/ (\E j \in Jobs : UaExits(j))
  BY <1>7, OthersImplement
     DEF PollFails, ConsoleStarts, ConsoleEnds, UaExits,
         Imports!Lease!Grant, Imports!Lease!Free
<1>8. CASE ItemRequest
  BY <1>8, CheckHolderIs
     DEF ItemRequest, Checks!Recheck, Checks!Ignore, Checks!Write, Checks!jobVars,
         Checks!clockVars, CheckPart!Next, CheckPart!UserOrPoll, CheckPart!Recheck,
         CheckPart!Ignore, CheckPart!Write, CheckPart!jobVars, CheckPart!clockVars
<1>9. CASE TimePasses
  BY <1>9, CheckHolderIs
     DEF TimePasses, Checks!SpacingPasses, Checks!RetryTime, Checks!jobVars,
         Checks!clockVars, CheckPart!Next, CheckPart!SpacingPasses,
         CheckPart!RetryTime, CheckPart!jobVars, CheckPart!clockVars
<1>10. CASE Maintenance
  BY <1>10, CheckHolderIs
     DEF Maintenance, Checks!Maintenance, Checks!jobVars, Checks!clockVars,
         CheckPart!Next, CheckPart!Maintenance, CheckPart!jobVars, CheckPart!clockVars
<1>11. CASE Crash
  BY <1>11, CheckHolderIs
     DEF Crash, Checks!Crash, Checks!NoJob, Checks!clockVars,
         CheckPart!Next, CheckPart!Crash, CheckPart!NoJob, CheckPart!clockVars
<1>12. CASE Restart
  BY <1>12, CheckHolderIs
     DEF Restart, Checks!Restart, Checks!jobVars,
         CheckPart!Next, CheckPart!Restart, CheckPart!jobVars
<1>13. CASE UNCHANGED vars
  BY <1>13, CheckHolderIs DEF vars, CheckPart!vars
<1>14. QED
  BY <1>2, <1>3, <1>4, <1>5, <1>6, <1>7, <1>8, <1>9, <1>10, <1>11, <1>12, <1>13 DEF Next

\* The loop, with imports, the console and Upload Assistant around it,
\* implements the site checks as CheckJobs describes them.
THEOREM ImplementsChecks == Spec => CheckPart!Spec
<1>1. Init => CheckPart!Init
  BY UsersDiffer
     DEF Init, Checks!Init, CheckPart!Init, Checks!NoJob, CheckPart!NoJob, checkHolder
<1>2. IInv /\ [Next]_vars => [CheckPart!Next]_(CheckPart!vars)
  BY StepImplementsChecks
<1>3. QED
  BY <1>1, <1>2, InductiveInvariant, PTL DEF Spec, CheckPart!Spec

\* So what is proved of the checks holds in the running program, whatever its
\* other parts do: tasks are counted, items are marked by a live check, and
\* the user's decisions stand.
THEOREM ChecksHoldInTheProgram ==
  Spec => /\ []CheckPart!RunningJobsExact
          /\ []CheckPart!CheckingIsLive
          /\ CheckPart!UserDecisionStands
<1>1. /\ CheckPart!IsFiniteSet(Items) /\ CheckPart!IsFiniteSet(Slots)
      /\ CheckPart!Cardinality(Slots) = MaxConcurrent
  <2>1. \A S : IsFiniteSet(S) => CheckPart!IsFiniteSet(S)
    BY DEF IsFiniteSet, CheckPart!IsFiniteSet
  <2>2. Cardinality(Slots) = CheckPart!Cardinality(Slots)
    BY DEF Cardinality, CheckPart!Cardinality
  <2>3. QED
    BY <2>1, <2>2, ItemsAssumption, SlotsAssumption
<1>2. NoLease \notin Slots \cup {Console} /\ Console \notin Slots
  BY UsersDiffer
<1>3. /\ CheckPart!Spec => []CheckPart!RunningJobsExact
      /\ CheckPart!Spec => []CheckPart!CheckingIsLive
      /\ CheckPart!Spec => CheckPart!UserDecisionStands
  BY <1>1, <1>2, ItemsAssumption, ConcurrencyAssumption, BoundsAssumption,
     CheckPart!RunningJobsExactHolds, CheckPart!CheckingIsLiveHolds,
     CheckPart!UserDecisionStandsHolds
<1>4. QED
  BY <1>3, ImplementsChecks

-----------------------------------------------------------------------------

\* What the queue of imports sees of the lease: a check is one of the others.
importHolder == IF holder \in Slots THEN Console ELSE holder

\* Its part of the program, without requests over the JSON endpoint.
ImportPart ==
    INSTANCE QueuedImports_proofs
        WITH Others <- Console, Requests <- {}, holder <- importHolder

\* The queue knows its own lease and a free one.
LEMMA ImportHolderIs ==
  /\ \A j \in {ImportJob, NoLease} : (importHolder = j) = (holder = j)
  /\ \A j \in {ImportJob, NoLease} : (importHolder' = j) = (holder' = j)
  /\ holder' = holder => importHolder' = importHolder
  /\ holder \in Slots \cup {Console} => importHolder = Console
  /\ holder' \in Slots \cup {Console} => importHolder' = Console
BY UsersDiffer DEF importHolder

\* The same rows in both views of the table.
LEMMA SameTable ==
  /\ Imports!Rows = ImportPart!Rows
  /\ \A st : Imports!WithStatus(st) = ImportPart!WithStatus(st)
  /\ Imports!HasPending = ImportPart!HasPending
  /\ \A r : Imports!IsNext(r) = ImportPart!IsNext(r)
  /\ \A i : Imports!NoActiveImport(i) = ImportPart!NoActiveImport(i)
  /\ \A i : Imports!Enqueue(i) => ImportPart!Enqueue(i)
  /\ \A r, st : Imports!SetStatus(r, st) => ImportPart!SetStatus(r, st)
<1>1. Imports!Rows = ImportPart!Rows
  BY DEF Imports!Rows, ImportPart!Rows
<1>2. \A st : Imports!WithStatus(st) = ImportPart!WithStatus(st)
  BY <1>1 DEF Imports!WithStatus, ImportPart!WithStatus
<1>3. Imports!HasPending = ImportPart!HasPending
  BY <1>2 DEF Imports!HasPending, ImportPart!HasPending
<1>4. \A r : Imports!IsNext(r) = ImportPart!IsNext(r)
  BY <1>2 DEF Imports!IsNext, ImportPart!IsNext
<1>5. \A i : Imports!NoActiveImport(i) = ImportPart!NoActiveImport(i)
  BY <1>2 DEF Imports!NoActiveImport, ImportPart!NoActiveImport
<1>6. \A i : Imports!Enqueue(i) => ImportPart!Enqueue(i)
  BY <1>2 DEF Imports!Enqueue, ImportPart!Enqueue
<1>7. \A r, st : Imports!SetStatus(r, st) => ImportPart!SetStatus(r, st)
  BY DEF Imports!SetStatus, ImportPart!SetStatus
<1>8. QED
  BY <1>1, <1>2, <1>3, <1>4, <1>5, <1>6, <1>7

\* The try of an import and the end of the runner are those of that part.
LEMMA ImportOperations ==
  /\ \A wish : Imports!RunQueuedImport(wish) => ImportPart!RunQueuedImport(wish)
  /\ \A st : Imports!RunnerEnds(st) => ImportPart!RunnerEnds(st)
<1>1. ASSUME NEW wish, Imports!RunQueuedImport(wish)
      PROVE  ImportPart!RunQueuedImport(wish)
  BY <1>1, ImportHolderIs, SameTable
     DEF Imports!RunQueuedImport, ImportPart!RunQueuedImport,
         Imports!Lease!Grant, ImportPart!Lease!Grant
<1>2. ASSUME NEW st, Imports!RunnerEnds(st)
      PROVE  ImportPart!RunnerEnds(st)
  BY <1>2, ImportHolderIs, SameTable
     DEF Imports!RunnerEnds, ImportPart!RunnerEnds, Imports!NoRunner,
         ImportPart!NoRunner, Imports!Lease!Free, ImportPart!Lease!Free
<1>3. QED
  BY <1>1, <1>2

\* What checks and the console do with the lease is no concern of an import.
LEMMA OthersUse ==
  ASSUME UNCHANGED <<up, crashes, importVars>>,
         \/ UNCHANGED holder
         \/ up /\ holder = NoLease /\ holder' \in Slots \cup {Console}
         \/ up /\ holder \in Slots \cup {Console} /\ holder' = NoLease
  PROVE  [ImportPart!Next]_(ImportPart!vars)
<1> USE ImportHolderIs DEF importVars
<1>1. CASE UNCHANGED holder
  BY <1>1 DEF ImportPart!vars
<1>2. CASE up /\ holder = NoLease /\ holder' \in Slots \cup {Console}
  BY <1>2 DEF ImportPart!Next, ImportPart!OtherUse, ImportPart!Lease!Grant,
              ImportPart!memory, ImportPart!history
<1>3. CASE up /\ holder \in Slots \cup {Console} /\ holder' = NoLease
  BY <1>3 DEF ImportPart!Next, ImportPart!OtherUse, ImportPart!Lease!Free,
              ImportPart!memory, ImportPart!history
<1>4. QED
  BY <1>1, <1>2, <1>3

\* Every step of the program is a step of that part, or does not concern it.
LEMMA StepImplementsImports ==
  ASSUME IInv, [Next]_vars
  PROVE  [ImportPart!Next]_(ImportPart!vars)
<1> USE DEF importVars, Imports!memory, ImportPart!memory, Imports!history, ImportPart!history
<1>1. CASE LoopStarts \/ LoopPolled
  <2>1. UNCHANGED <<up, crashes, request, configured, uploads, restarted>> /\ up
    BY <1>1 DEF LoopStarts, LoopPolled
  <2>2. TryImport \/ UNCHANGED <<holder, importVars>>
    BY <1>1 DEF LoopStarts, LoopPolled
  <2>3. CASE TryImport /\ requested
    BY <2>1, <2>3, ImportOperations DEF TryImport, ImportPart!Next, ImportPart!LoopTick
  <2>4. CASE UNCHANGED <<holder, importVars>>
    BY <2>1, <2>4, OthersUse
  <2>5. QED
    BY <2>1, <2>2, <2>3, <2>4 DEF TryImport
<1>2. ASSUME NEW t \in Slots, Check(t)
      PROVE  [ImportPart!Next]_(ImportPart!vars)
  <2>1. up /\ UNCHANGED <<up, crashes>>
    BY <1>2, CheckKeeps DEF Keeps, OnlyTask, IInv, DeadWhenDown
  <2>2. \/ UNCHANGED holder
        \/ holder = NoLease /\ holder' = t
        \/ holder = t /\ holder' = NoLease
    BY <1>2, CheckKeeps DEF Keeps
  <2>3. CASE CheckAutoQueues(t)
    <3>1. job[t].at = "srrdb" /\ holder = t
      BY <2>3 DEF CheckAutoQueues, Checks!Decide, IInv, HoldersMatch, Checks!Checking
    <3>2. job[t].item \in Items
      BY <3>1 DEF IInv, TypeOK
    <3>3. ImportPart!EnqueueCandidate(job[t].item)
      BY <2>3, <3>1, ImportHolderIs, SameTable, UsersDiffer
         DEF CheckAutoQueues, Imports!EnqueueCandidate, ImportPart!EnqueueCandidate
    <3>4. UNCHANGED importHolder \/ ImportPart!Lease!Free(Console)
      BY <2>2, <3>1, ImportHolderIs DEF ImportPart!Lease!Free
    <3>5. ImportPart!AutoQueue(job[t].item)
      BY <2>1, <3>3, <3>4 DEF ImportPart!AutoQueue
    <3>6. QED
      BY <3>2, <3>5 DEF ImportPart!Next
  <2>4. CASE ~CheckAutoQueues(t)
    <3>1. UNCHANGED importVars
      BY <1>2, <2>4 DEF Check, CheckStep, CheckAsksUa, CheckUaDone, CheckUaLost
    <3>2. QED
      BY <2>1, <2>2, <3>1, OthersUse
  <2>5. QED
    BY <2>3, <2>4
<1>3. CASE Import
  <2>1. CASE Imports!RunnerRefuses
    BY <2>1, ImportOperations
       DEF Imports!RunnerRefuses, ImportPart!RunnerRefuses, ImportPart!Runner, ImportPart!Next
  <2>2. CASE Imports!RunnerStarts
    BY <2>2, ImportHolderIs
       DEF Imports!RunnerStarts, ImportPart!RunnerStarts, ImportPart!Runner, ImportPart!Next
  <2>3. CASE Imports!RunnerDone
    BY <2>3, ImportOperations
       DEF Imports!RunnerDone, ImportPart!RunnerDone, ImportPart!Runner, ImportPart!Next
  <2>4. CASE Imports!RunnerTimesOut
    BY <2>4, ImportHolderIs
       DEF Imports!RunnerTimesOut, ImportPart!RunnerTimesOut, ImportPart!Runner,
           ImportPart!Next
  <2>5. CASE Imports!RunnerKilled
    BY <2>5, ImportOperations
       DEF Imports!RunnerKilled, ImportPart!RunnerKilled, ImportPart!Runner, ImportPart!Next
  <2>6. QED
    BY <1>3, <2>1, <2>2, <2>3, <2>4, <2>5 DEF Import, ImportStarts, ImportEnds, ImportStep
<1>4. CASE ImportRequest
  <2>1. CASE Imports!RunPending
    BY <2>1, ImportOperations, SameTable
       DEF Imports!RunPending, ImportPart!RunPending, ImportPart!Next
  <2>2. ASSUME NEW i \in Items, Imports!QueueForm(i)
        PROVE  [ImportPart!Next]_(ImportPart!vars)
    BY <2>2, ImportHolderIs, SameTable
       DEF Imports!QueueForm, ImportPart!QueueForm, ImportPart!Next
  <2>3. ASSUME NEW r \in Imports!Rows, Imports!Cancel(r)
        PROVE  [ImportPart!Next]_(ImportPart!vars)
    BY <2>3, ImportHolderIs, SameTable
       DEF Imports!Cancel, ImportPart!Cancel, ImportPart!Next
  <2>4. QED
    BY <1>4, <2>1, <2>2, <2>3 DEF ImportRequest
<1>5. CASE ConsoleStarts \/ ConsoleEnds
  <2>1. \/ up /\ holder = NoLease /\ holder' = Console
        \/ up /\ holder = Console /\ holder' = NoLease
    BY <1>5, UsersDiffer
       DEF ConsoleStarts, ConsoleEnds, Imports!Lease!Grant, Imports!Lease!Free,
           IInv, DeadWhenDown
  <2>2. QED
    BY <1>5, <2>1, OthersUse DEF ConsoleStarts, ConsoleEnds
<1>6. CASE PollFails \/ ItemRequest \/ TimePasses \/ Maintenance
           \/ (\E j \in Jobs : UaExits(j)) \/ UNCHANGED vars
  <2>1. UNCHANGED <<up, holder, crashes, importVars>>
    BY <1>6
       DEF PollFails, ItemRequest, Checks!Recheck, Checks!Ignore, Checks!Write,
           TimePasses, Checks!SpacingPasses, Checks!RetryTime, Maintenance,
           Checks!Maintenance, UaExits, vars
  <2>2. QED
    BY <2>1, OthersUse
<1>7. CASE Crash
  BY <1>7, ImportHolderIs
     DEF Crash, Imports!Crash, ImportPart!Crash, Imports!NoRunner, ImportPart!NoRunner,
         ImportPart!Next
<1>8. CASE Restart
  BY <1>8, ImportHolderIs, SameTable
     DEF Restart, Imports!Restart, ImportPart!Restart, ImportPart!Next
<1>9. QED
  BY <1>1, <1>2, <1>3, <1>4, <1>5, <1>6, <1>7, <1>8 DEF Next

\* The loop, with the checks, the console and Upload Assistant around it,
\* implements the queue of imports as QueuedImports describes it.
THEOREM ImplementsImports == Spec => ImportPart!Spec
<1>1. Init => ImportPart!Init
  BY UsersDiffer
     DEF Init, Imports!Init, ImportPart!Init, Imports!NoRunner, ImportPart!NoRunner,
         Imports!Rows, ImportPart!Rows, importHolder
<1>2. IInv /\ [Next]_vars => [ImportPart!Next]_(ImportPart!vars)
  BY StepImplementsImports
<1>3. QED
  BY <1>1, <1>2, InductiveInvariant, PTL DEF Spec, ImportPart!Spec

\* So in the running program a running row is the live runner's, an upload is
\* sent once per claim, and without the JSON endpoint no item is ever queued
\* twice: checks that queue a candidate, the form, restarts and retries of
\* the loop do not make a second active import.
THEOREM ImportsHoldInTheProgram ==
  Spec => /\ []ImportPart!RunningIsClaimed
          /\ []ImportPart!UploadedOncePerClaim
          /\ []ImportPart!OneActiveImport
<1>1. /\ ImportPart!Spec => []ImportPart!RunningIsClaimed
      /\ ImportPart!Spec => []ImportPart!UploadedOncePerClaim
      /\ ImportPart!Spec => ImportPart!DuplicatesOnlyByJson
  BY UsersDiffer, ItemsAssumption, BoundsAssumption,
     ImportPart!RunningIsClaimedHolds, ImportPart!UploadedOncePerClaimHolds,
     ImportPart!DuplicatesOnlyByJsonHolds
<1>2. Init => ImportPart!OneActiveImport
  BY DEF Init, Imports!Init, Imports!Rows, ImportPart!OneActiveImport,
         ImportPart!WithStatus, ImportPart!Rows
<1>3. ASSUME [ImportPart!OneActiveImport /\ ~ImportPart!OneActiveImport' =>
                 \E q \in {} : request[q] # NoItem /\ request'[q] = NoItem]_(ImportPart!vars),
             ImportPart!OneActiveImport
      PROVE  ImportPart!OneActiveImport'
  BY <1>3 DEF ImportPart!vars, ImportPart!OneActiveImport, ImportPart!WithStatus
<1>4. QED
  BY <1>1, <1>2, <1>3, ImplementsImports, PTL DEF Spec, ImportPart!DuplicatesOnlyByJson

-----------------------------------------------------------------------------

(***************************************************************************)
(* The maintenance guard, which each turn of the service loop asks first.  *)
(* Its state is its own: on any number of days, with the user's requests,  *)
(* midnight and restarts between any two of its steps, what a probe of QUI *)
(* saw belongs to the maintenance under way, a resume by hand holds for    *)
(* its day, and the loop and the dashboard agree.                          *)
(***************************************************************************)
Hours == {"early", "lead", "late"}

GuardTypeOK ==
    /\ day \in Nat \ {0}
    /\ opens \in Hours /\ hour \in Hours
    /\ enabled \in BOOLEAN /\ manual \in BOOLEAN /\ seenDown \in BOOLEAN
    /\ qui \in BOOLEAN /\ sawDown \in BOOLEAN /\ disturbed \in BOOLEAN
    /\ decision \in BOOLEAN
    /\ remembered \in {"none", "up", "down"}
    /\ activeDate \in 0..day
    /\ completedDate \in 0..day
    /\ resumeDate \in 0..day
    /\ probe \in [today : 0..day, active : 0..day]

\* Before the lead time nothing has made this day's maintenance active, and
\* no turn of this day is waiting.
NotYet == hour = "early" => activeDate < day /\ probe.today < day

\* A turn that waits began on some day; a probe it is not waiting for has none.
ProbeIsDated == probe # NoProbe => probe.today # 0

\* What a waiting turn found still holds as long as nothing has disturbed it.
ProbeIsCurrent ==
    probe # NoProbe /\ ~disturbed =>
        /\ probe.today = day /\ probe.active = activeDate
        /\ ~manual /\ enabled /\ ~Suspended
        /\ hour = "late"

\* The stored date is the day of the last resume by hand.
ResumeIsStored == resumeDate = resumedOn

GuardInv ==
    /\ GuardTypeOK
    /\ NotYet
    /\ ProbeIsDated
    /\ ProbeIsCurrent
    /\ ResumeIsStored
    /\ SeenDownIsFresh
    /\ LoopAgreesWithSnapshot
-----------------------------------------------------------------------------

\* The end of a turn of day today, with what it read and QUI's health: the
\* dates stay in the past, and seen_down with its maintenance.
LEMMA ConcludingKeeps ==
  ASSUME GuardInv, NEW today \in 1..day, NEW active \in 0..day, NEW ok \in BOOLEAN,
         Concludes(today, active, ok), hour = "early" => today < day,
         remembered' \in {"none", "up", "down"}, disturbed' \in BOOLEAN
  PROVE  /\ GuardTypeOK'
         /\ NotYet' /\ ProbeIsDated' /\ ProbeIsCurrent' /\ ResumeIsStored'
         /\ SeenDownIsFresh'
<1> USE DEF GuardInv, GuardTypeOK, Concludes, Decides, clockVars
<1>1. /\ probe' = NoProbe
      /\ UNCHANGED <<day, opens, hour, enabled, qui, manual, resumeDate, resumedOn>>
      /\ decision' \in BOOLEAN
  OBVIOUS
<1>2. NoProbe \in [today : 0..day, active : 0..day] /\ NoProbe.today = 0
  BY DEF NoProbe
<1>3. /\ activeDate' \in {activeDate, today, 0}
      /\ completedDate' \in {completedDate, today}
  BY DEF Keep, StartScheduled
<1>4. seenDown' \in BOOLEAN /\ sawDown' \in BOOLEAN
  BY DEF Keep, StartScheduled
<1>5. SeenDownIsFresh'
  BY DEF Keep, StartScheduled, SeenDownIsFresh
<1>6. NotYet'
  BY <1>1, <1>2, <1>3 DEF NotYet
<1>7. ProbeIsDated' /\ ProbeIsCurrent' /\ ResumeIsStored'
  BY <1>1 DEF ProbeIsDated, ProbeIsCurrent, ResumeIsStored
<1>8. GuardTypeOK'
  BY <1>1, <1>2, <1>3, <1>4
<1>9. QED
  BY <1>5, <1>6, <1>7, <1>8

\* A turn that read the present state decides what the dashboard shows.
LEMMA DecisionIsCurrent ==
  ASSUME GuardInv, NEW ok \in BOOLEAN, Concludes(day, activeDate, ok),
         ~manual, enabled, ~Suspended, hour = "late"
  PROVE  decision' <=> Active'
<1> USE DEF GuardInv, GuardTypeOK, Concludes, Decides, clockVars, Suspended,
            Active, ScheduledActive, LeadPending
<1>1. UNCHANGED <<day, hour, enabled, manual, resumeDate>> /\ decision' \in BOOLEAN
  OBVIOUS
<1>2. CASE activeDate # day /\ ok
  <2>1. decision' = FALSE /\ Keep
    BY <1>2
  <2>2. QED
    BY <1>1, <1>2, <2>1 DEF Keep
<1>3. CASE activeDate # day /\ ~ok
  <2>1. decision' = TRUE /\ activeDate' = day /\ completedDate' = completedDate
    BY <1>3 DEF StartScheduled
  <2>2. QED
    BY <1>1, <2>1
<1>4. CASE activeDate = day /\ ~ok
  BY <1>1, <1>4
<1>5. CASE activeDate = day /\ ok /\ seenDown
  <2>1. decision' = FALSE /\ completedDate' = day
    BY <1>5
  <2>2. QED
    BY <1>1, <2>1
<1>6. CASE activeDate = day /\ ok /\ ~seenDown
  <2>1. decision' = TRUE /\ Keep
    BY <1>6
  <2>2. QED
    BY <1>1, <1>6, <2>1 DEF Keep
<1>7. QED
  BY <1>2, <1>3, <1>4, <1>5, <1>6

\* The loop's turn, with and without a question to QUI.
LEMMA TurnKeeps ==
  ASSUME GuardInv, Turn
  PROVE  GuardInv'
<1> USE DEF GuardInv
<1>1. probe = NoProbe /\ disturbed' = FALSE /\ remembered' = remembered
  BY DEF Turn
<1>2. NoProbe \in [today : 0..day, active : 0..day] /\ NoProbe.today = 0
  BY DEF NoProbe, GuardTypeOK
<1>3. ASSUME NEW pause \in BOOLEAN, Decides(pause), Keep,
             \/ manual /\ pause
             \/ ~manual /\ ~pause /\ (~enabled \/ Suspended \/ hour = "early")
      PROVE  GuardInv'
  <2>1. /\ UNCHANGED <<day, opens, hour, enabled, qui, manual, resumeDate, resumedOn,
                       activeDate, completedDate, seenDown, sawDown>>
        /\ decision' = pause /\ probe' = NoProbe
    BY <1>3 DEF Decides, Keep, clockVars
  <2>2. GuardTypeOK'
    BY <1>1, <1>2, <2>1 DEF GuardTypeOK
  <2>3. NotYet' /\ ProbeIsDated' /\ ProbeIsCurrent' /\ ResumeIsStored' /\ SeenDownIsFresh'
    BY <1>1, <2>1 DEF NotYet, ProbeIsDated, ProbeIsCurrent, ResumeIsStored, SeenDownIsFresh
  <2>4. LoopAgreesWithSnapshot'
    <3>1. CASE manual
      BY <1>3, <2>1, <3>1 DEF LoopAgreesWithSnapshot, Active
    <3>2. CASE ~manual /\ (~enabled \/ Suspended)
      BY <1>3, <2>1, <3>2
         DEF LoopAgreesWithSnapshot, Active, ScheduledActive,
             LeadPending, Suspended
    <3>3. CASE ~manual /\ hour = "early"
      <4>1. activeDate # day
        BY <3>3 DEF NotYet, GuardTypeOK
      <4>2. QED
        BY <1>3, <2>1, <3>3, <4>1
           DEF LoopAgreesWithSnapshot, Active, ScheduledActive, LeadPending
    <3>4. QED
      BY <1>3, <3>1, <3>2, <3>3
  <2>5. QED
    BY <2>2, <2>3, <2>4
<1>4. CASE /\ ~manual /\ enabled /\ ~Suspended /\ hour = "lead"
           /\ Decides(TRUE) /\ StartScheduled(day, FALSE)
  <2>1. /\ UNCHANGED <<day, opens, hour, enabled, qui, manual, resumeDate, resumedOn,
                       completedDate>>
        /\ activeDate' = day /\ decision' = TRUE /\ probe' = NoProbe
    BY <1>4 DEF Decides, StartScheduled, clockVars
  <2>2. /\ seenDown' \in BOOLEAN /\ sawDown' \in BOOLEAN
        /\ seenDown' => sawDown'
    BY <1>4 DEF StartScheduled, SeenDownIsFresh, GuardTypeOK
  <2>3. GuardTypeOK'
    <3>1. (enabled \in BOOLEAN /\ manual \in BOOLEAN /\ qui \in BOOLEAN /\ decision \in BOOLEAN)'
      BY <2>1 DEF GuardTypeOK
    <3>2. (disturbed \in BOOLEAN /\ remembered \in {"none", "up", "down"})'
      BY <1>1 DEF GuardTypeOK
    <3>3. (/\ activeDate \in 0..day /\ completedDate \in 0..day /\ resumeDate \in 0..day
           /\ probe \in [today : 0..day, active : 0..day])'
      BY <1>2, <2>1 DEF GuardTypeOK
    <3>4. QED
      BY <2>1, <2>2, <3>1, <3>2, <3>3 DEF GuardTypeOK
  <2>4. NotYet' /\ ProbeIsDated' /\ ProbeIsCurrent' /\ ResumeIsStored' /\ SeenDownIsFresh'
    BY <1>4, <2>1, <2>2
       DEF NotYet, ProbeIsDated, ProbeIsCurrent, ResumeIsStored, SeenDownIsFresh
  <2>5. LoopAgreesWithSnapshot'
    BY <1>4, <2>1
       DEF LoopAgreesWithSnapshot, Active, ScheduledActive, Suspended
  <2>6. QED
    BY <2>3, <2>4, <2>5
<1>5. CASE /\ ~manual /\ enabled /\ ~Suspended /\ hour = "late"
           /\ Concludes(day, activeDate, remembered = "up")
  <2>1. day \in 1..day /\ activeDate \in 0..day /\ (remembered = "up") \in BOOLEAN
    BY DEF GuardTypeOK
  <2>2. remembered' \in {"none", "up", "down"} /\ disturbed' \in BOOLEAN
    BY <1>1 DEF GuardTypeOK
  <2>3. /\ GuardTypeOK' /\ NotYet' /\ ProbeIsDated' /\ ProbeIsCurrent' /\ ResumeIsStored'
        /\ SeenDownIsFresh'
    BY <1>5, <2>1, <2>2, ConcludingKeeps
  <2>4. LoopAgreesWithSnapshot'
    BY <1>5, <2>1, DecisionIsCurrent DEF LoopAgreesWithSnapshot
  <2>5. QED
    BY <2>3, <2>4
<1>6. CASE /\ ~manual /\ enabled /\ ~Suspended /\ hour = "late"
           /\ probe' = [today |-> day, active |-> activeDate]
           /\ UNCHANGED <<clockVars, enabled, kvVars, qui, decision, sawDown,
                          resumedOn>>
  <2>1. probe'.today = day /\ probe'.active = activeDate /\ probe' # NoProbe
    BY <1>2, <1>6 DEF GuardTypeOK
  <2>2. GuardTypeOK'
    <3>1. probe' \in [today : 0..day, active : 0..day]
      BY <1>6 DEF GuardTypeOK
    <3>2. UNCHANGED <<day, opens, hour, enabled, manual, seenDown, qui, sawDown, decision,
                      remembered, activeDate, completedDate, resumeDate>>
      BY <1>1, <1>6 DEF clockVars, kvVars
    <3>3. disturbed' \in BOOLEAN
      BY <1>1
    <3>4. QED
      BY <3>1, <3>2, <3>3 DEF GuardTypeOK
  <2>3. NotYet' /\ ProbeIsDated' /\ ResumeIsStored' /\ SeenDownIsFresh'
    BY <1>6, <2>1
       DEF NotYet, ProbeIsDated, ResumeIsStored, SeenDownIsFresh, clockVars,
           kvVars, GuardTypeOK
  <2>4. ProbeIsCurrent' /\ LoopAgreesWithSnapshot'
    BY <1>6, <2>1
       DEF ProbeIsCurrent, LoopAgreesWithSnapshot, Suspended, clockVars,
           kvVars
  <2>5. QED
    BY <2>2, <2>3, <2>4
<1>7. QED
  <2>1. CASE manual /\ Decides(TRUE) /\ Keep
    BY <1>3, <2>1
  <2>2. CASE /\ ~manual /\ (~enabled \/ Suspended \/ hour = "early")
             /\ Decides(FALSE) /\ Keep
    BY <1>3, <2>2
  <2>3. QED
    BY <1>4, <1>5, <1>6, <2>1, <2>2 DEF Turn

\* The turn that waited ends with what it read before and QUI's health now.
LEMMA TurnEndsKeeps ==
  ASSUME GuardInv, TurnEnds
  PROVE  GuardInv'
<1> USE DEF GuardInv
<1>1. /\ probe # NoProbe /\ Concludes(probe.today, probe.active, qui)
      /\ remembered' \in {"none", "up", "down"} /\ disturbed' = disturbed
  BY DEF TurnEnds
<1>2. probe.today \in 1..day /\ probe.active \in 0..day /\ qui \in BOOLEAN
  BY <1>1 DEF GuardTypeOK, ProbeIsDated
<1>3. hour = "early" => probe.today < day
  BY DEF NotYet
<1>4. disturbed' \in BOOLEAN
  BY <1>1 DEF GuardTypeOK
<1>5. /\ GuardTypeOK' /\ NotYet' /\ ProbeIsDated' /\ ProbeIsCurrent' /\ ResumeIsStored'
      /\ SeenDownIsFresh'
  BY <1>1, <1>2, <1>3, <1>4, ConcludingKeeps
<1>6. LoopAgreesWithSnapshot'
  <2>1. CASE disturbed
    BY <1>1, <2>1 DEF LoopAgreesWithSnapshot
  <2>2. CASE ~disturbed
    <3>1. /\ probe.today = day /\ probe.active = activeDate
          /\ ~manual /\ enabled /\ ~Suspended /\ hour = "late"
      BY <1>1, <2>2 DEF ProbeIsCurrent
    <3>2. QED
      BY <1>1, <1>2, <3>1, DecisionIsCurrent DEF LoopAgreesWithSnapshot
  <2>3. QED
    BY <2>1, <2>2
<1>7. QED
  BY <1>5, <1>6

\* The user's requests, time and a restart disturb the turn they meet.
LEMMA DisturbanceKeeps ==
  ASSUME GuardInv,
         \/ ManualPause \/ ManualResume \/ Configure
         \/ ClockMoves \/ GuardRestarts
  PROVE  GuardInv'
<1> USE DEF GuardInv, Disturb, clockVars, kvVars
<1>1. disturbed' = TRUE /\ probe' \in {probe, NoProbe}
  BY DEF ManualPause, ManualResume, Configure, ClockMoves, GuardRestarts
<1>2. NoProbe \in [today : 0..day, active : 0..day] /\ NoProbe.today = 0
  BY DEF NoProbe, GuardTypeOK
<1>3. ProbeIsDated' /\ ProbeIsCurrent' /\ LoopAgreesWithSnapshot'
  BY <1>1 DEF ProbeIsDated, ProbeIsCurrent, LoopAgreesWithSnapshot
<1>4. CASE ManualPause \/ Configure \/ GuardRestarts
  <2>1. UNCHANGED <<clockVars, activeDate, completedDate, resumeDate, seenDown, qui, sawDown,
                    resumedOn>>
    BY <1>4 DEF ManualPause, Configure, GuardRestarts
  <2>2. /\ manual' \in BOOLEAN /\ enabled' \in BOOLEAN /\ decision' \in BOOLEAN
        /\ remembered' \in {"none", "up", "down"}
    BY <1>4 DEF ManualPause, Configure, GuardRestarts, GuardTypeOK
  <2>3. GuardTypeOK'
    BY <1>1, <1>2, <2>1, <2>2 DEF GuardTypeOK
  <2>4. NotYet' /\ ResumeIsStored' /\ SeenDownIsFresh'
    BY <1>1, <1>2, <2>1 DEF NotYet, ResumeIsStored, SeenDownIsFresh, GuardTypeOK
  <2>5. QED
    BY <1>3, <2>3, <2>4
<1>5. CASE ManualResume
  <2>1. GuardTypeOK'
    <3>1. UNCHANGED <<day, opens, hour, enabled, completedDate, qui, remembered, decision>>
      BY <1>5 DEF ManualResume
    <3>2. /\ resumeDate' = day /\ activeDate' = 0
          /\ manual' = FALSE /\ seenDown' = FALSE /\ sawDown' = FALSE
      BY <1>5 DEF ManualResume
    <3>3. /\ disturbed' \in BOOLEAN /\ manual' \in BOOLEAN
          /\ seenDown' \in BOOLEAN /\ sawDown' \in BOOLEAN
      BY <1>1, <3>2
    <3>4. probe' \in [today : 0..day, active : 0..day]
      BY <1>1, <1>2 DEF GuardTypeOK
    <3>5. QED
      BY <3>1, <3>2, <3>3, <3>4 DEF GuardTypeOK
  <2>2. NotYet' /\ ResumeIsStored' /\ SeenDownIsFresh'
    BY <1>5 DEF ManualResume, NotYet, ResumeIsStored, SeenDownIsFresh, GuardTypeOK
  <2>3. QED
    BY <1>3, <2>1, <2>2
<1>6. CASE ClockMoves
  <2>1. /\ day' \in Nat \ {0} /\ hour' \in Hours
        /\ \/ day' = day /\ hour' # "early"
           \/ day' = day + 1
    BY <1>6 DEF ClockMoves, GuardTypeOK, Hours
  <2>2. /\ UNCHANGED <<opens, enabled, kvVars, qui, remembered, sawDown, resumedOn, probe,
                       decision>>
    BY <1>6 DEF ClockMoves
  <2>3. \A d \in 0..day : d \in 0..day' /\ (hour' = "early" => d < day')
    BY <2>1 DEF GuardTypeOK
  <2>4. probe.today \in 0..day /\ probe.active \in 0..day
    BY DEF GuardTypeOK
  <2>5. probe' \in [today : 0..day', active : 0..day']
    BY <2>2, <2>3 DEF GuardTypeOK
  <2>6. GuardTypeOK'
    BY <1>1, <2>1, <2>2, <2>3, <2>5 DEF GuardTypeOK
  <2>7. NotYet' /\ ResumeIsStored' /\ SeenDownIsFresh'
    BY <2>2, <2>3, <2>4 DEF NotYet, ResumeIsStored, SeenDownIsFresh, GuardTypeOK
  <2>8. QED
    BY <1>3, <2>6, <2>7
<1>7. QED
  BY <1>4, <1>5, <1>6

\* QUI goes down or comes back, its remembered health is forgotten.
LEMMA QuietStepKeeps ==
  ASSUME GuardInv, QuiChanges \/ Forget \/ UNCHANGED guardVars
  PROVE  GuardInv'
<1>1. /\ UNCHANGED <<day, opens, hour, enabled, kvVars, probe, decision, sawDown, resumedOn,
                     disturbed>>
      /\ qui' \in BOOLEAN /\ remembered' \in {"none", "up", "down"}
  BY DEF QuiChanges, Forget, guardVars, clockVars, kvVars, GuardInv,
         GuardTypeOK
<1>2. QED
  BY <1>1 DEF GuardInv, GuardTypeOK, NotYet, ProbeIsDated, ProbeIsCurrent, ResumeIsStored,
     SeenDownIsFresh, LoopAgreesWithSnapshot, Suspended, Active,
     ScheduledActive, LeadPending, kvVars

\* The guard's dates and its waiting turn agree in every reachable state.
THEOREM GuardInvariantHolds == GuardSpec => []GuardInv
<1>1. GuardInit => GuardInv
  <2> SUFFICES ASSUME GuardInit PROVE GuardInv
    OBVIOUS
  <2>1. GuardTypeOK
    <3>1. /\ day = 1 /\ opens \in Hours /\ hour \in Hours
          /\ activeDate = 0 /\ completedDate = 0 /\ resumeDate = 0
          /\ probe = [today |-> 0, active |-> 0] /\ remembered = "none"
      BY DEF GuardInit, Hours, NoProbe
    <3>2. /\ enabled \in BOOLEAN /\ manual \in BOOLEAN /\ seenDown \in BOOLEAN
          /\ qui \in BOOLEAN /\ sawDown \in BOOLEAN /\ disturbed \in BOOLEAN
          /\ decision \in BOOLEAN
      BY DEF GuardInit
    <3>3. QED
      BY <3>1, <3>2 DEF GuardTypeOK
  <2>2. QED
    BY <2>1 DEF GuardInit, GuardInv, NotYet, ProbeIsDated, ProbeIsCurrent, ResumeIsStored,
       SeenDownIsFresh, LoopAgreesWithSnapshot, NoProbe
<1>2. GuardInv /\ [GuardNext]_guardVars => GuardInv'
  BY TurnKeeps, TurnEndsKeeps, DisturbanceKeeps, QuietStepKeeps DEF GuardNext
<1>3. QED
  BY <1>1, <1>2, PTL DEF GuardSpec
-----------------------------------------------------------------------------

\* What a probe saw on another day, or before a resume by hand, never ends
\* this day's maintenance early.
THEOREM SeenDownIsFreshHolds == GuardSpec => []SeenDownIsFresh
BY GuardInvariantHolds, PTL DEF GuardInv

\* After an undisturbed turn the loop pauses exactly when the dashboard says
\* so.
THEOREM LoopAgreesHolds == GuardSpec => []LoopAgreesWithSnapshot
BY GuardInvariantHolds, PTL DEF GuardInv

\* A resume by hand holds for the rest of the day, also against the turn
\* that was waiting for QUI meanwhile.
THEOREM ResumeStands == GuardSpec => []ResumeHolds
<1>1. GuardInv => ResumeHolds
  BY DEF GuardInv, ResumeIsStored, ResumeHolds, Active, ScheduledActive,
         LeadPending
<1>2. QED
  BY <1>1, GuardInvariantHolds, PTL
=============================================================================
