------------------------------ MODULE Service ------------------------------
(***************************************************************************)
(* The running program: the loop of WhackamoleService (app/service.py)     *)
(* with its site checks (CheckJobs), its queued imports (QueuedImports)    *)
(* and the upload console, which share the Upload Assistant lease, the     *)
(* maintenance guard and the time of the last start.                       *)
(*                                                                         *)
(* Upload Assistant is another program.  ua is the set of jobs it is       *)
(* running; a job whose caller gave up or died goes on there.  The console *)
(* is kept abstract here: one session that starts and ends.                *)
(***************************************************************************)
EXTENDS Naturals, FiniteSets

CONSTANTS
    Items, Slots, MaxConcurrent,    \* see CheckJobs
    MaxRows,                        \* see QueuedImports
    MaxCrashes,
    ImportJob, Console,             \* users of the lease that are no checks
    NoLease, NoItem

ASSUME ItemsAssumption == Items \subseteq Nat /\ IsFiniteSet(Items) /\ NoItem \notin Items
ASSUME ConcurrencyAssumption == MaxConcurrent \in Nat \ {0}
ASSUME SlotsAssumption == IsFiniteSet(Slots) /\ Cardinality(Slots) = MaxConcurrent
ASSUME BoundsAssumption == MaxRows \in Nat /\ MaxCrashes \in Nat
ASSUME UsersDiffer ==
    /\ ImportJob # Console /\ ImportJob # NoLease /\ Console # NoLease
    /\ Slots \cap {ImportJob, Console, NoLease} = {}

VARIABLES
    up, holder, crashes,                                    \* shared
    status, due, job, runningJobs, spaced, paused, raised, checkSpaced,
    rows, requested, runner, request, configured, uploads, restarted,
    loop,           \* where run() is: asleep, or polling QUI
    quiConfigured,  \* QUI has a URL and a key
    ua,             \* jobs Upload Assistant is running
    lost            \* history: those whose caller did not see them end

checkVars == <<status, due, job, runningJobs, spaced, paused, raised, checkSpaced>>
importVars == <<rows, requested, runner, request, configured, uploads, restarted>>
uaVars == <<ua, lost>>
loopVars == <<loop, quiConfigured>>
vars == <<up, holder, crashes, checkVars, importVars, loopVars, uaVars>>

Checks == INSTANCE CheckJobs WITH Others <- Console
Imports == INSTANCE QueuedImports WITH Others <- Console, Requests <- {}

Jobs == Slots \cup {ImportJob, Console}

-----------------------------------------------------------------------------

Init ==
    /\ Checks!Init
    /\ Imports!Init
    /\ loop = "asleep"
    /\ quiConfigured \in BOOLEAN
    /\ ua = {}
    /\ lost = {}

\* Upload Assistant gets a job, ends one, or goes on with one alone.
UaGets(j) == ua' = ua \cup {j} /\ lost' = lost \ {j}
UaEnded(j) == ua' = ua \ {j} /\ lost' = lost \ {j}
UaAbandoned(j) == j \in ua /\ lost' = lost \cup {j} /\ UNCHANGED ua

UaExits(j) ==
    /\ j \in ua
    /\ UaEnded(j)
    /\ UNCHANGED <<up, holder, crashes, checkVars, importVars, loopVars>>

-----------------------------------------------------------------------------

\* What the loop does after the poll: the import first, then the checks.
TryImport ==
    IF requested
    THEN Imports!RunQueuedImport(requested)
    ELSE UNCHANGED <<holder, rows, requested, runner>>

Unchecked == <<status, due, paused, raised, spaced, checkSpaced>>

\* run() while maintenance is not active.  With QUI configured it polls the
\* inventory, which may fail; without QUI only imports are run.
LoopStarts ==
    /\ up /\ ~paused
    /\ loop = "asleep"
    /\ IF quiConfigured
       THEN /\ loop' = "polling"
            /\ UNCHANGED <<holder, importVars>>
       ELSE /\ TryImport
            /\ UNCHANGED <<loop, request, configured, uploads, restarted>>
    /\ UNCHANGED <<up, crashes, checkVars, quiConfigured, uaVars>>

\* Mutant: checks come first and an import is tried only when none is due.
LoopPolledChecksFirst ==
    /\ up
    /\ loop = "polling"
    /\ loop' = "asleep"
    /\ Checks!RunDueJobs
    /\ IF job' = job THEN TryImport ELSE UNCHANGED <<holder, rows, requested, runner>>
    /\ UNCHANGED <<up, crashes, Unchecked, request, configured, uploads,
                   restarted, quiConfigured, uaVars>>

\* After the poll: the import first, then the checks.  Only the dispatch of
\* checks looks at the maintenance guard again.
LoopPolled ==
    /\ up
    /\ loop = "polling"
    /\ loop' = "asleep"
    /\ TryImport
    /\ Checks!RunDueJobs
    /\ UNCHANGED <<up, crashes, Unchecked, request, configured, uploads,
                   restarted, quiConfigured, uaVars>>

PollFails ==
    /\ up
    /\ loop = "polling"
    /\ loop' = "asleep"
    /\ UNCHANGED <<up, holder, crashes, checkVars, importVars, quiConfigured, uaVars>>

-----------------------------------------------------------------------------

\* The steps of a check that do not concern Upload Assistant, those that
\* send it a job, and those that see or miss its end.  An exception may end
\* the check on either side of that end.
CheckStep(t) ==
    /\ \/ Checks!CheckWaits(t) \/ Checks!CheckStarts(t) \/ Checks!LookForNfo(t)
       \/ Checks!AskSrrdb(t) \/ Checks!NoEvidence(t) \/ Checks!ArrDecides(t)
       \/ Checks!SrrdbDecides(t) \/ Checks!Notified(t)
       \/ job[t].at # "ua" /\ Checks!CheckRaises(t)
    /\ UNCHANGED <<importVars, loopVars, uaVars>>

CheckAsksUa(t) ==
    /\ Checks!AskUa(t)
    /\ UaGets(t)
    /\ UNCHANGED <<importVars, loopVars>>

CheckUaDone(t) ==
    /\ \/ Checks!AskArr(t) \/ Checks!UaDecides(t)
       \/ job[t].at = "ua" /\ Checks!CheckRaises(t)
    /\ UaEnded(t)
    /\ UNCHANGED <<importVars, loopVars>>

\* A read timeout or a lost connection makes a retry of the check, and
\* nothing is said to Upload Assistant.
CheckUaLost(t) ==
    /\ Checks!Decide(t, {"ua"}, "retry") \/ (job[t].at = "ua" /\ Checks!CheckRaises(t))
    /\ UaAbandoned(t)
    /\ UNCHANGED <<importVars, loopVars>>

\* A candidate is queued by the check that found it, with auto-upload on.
CheckAutoQueues(t) ==
    /\ Checks!Decide(t, {"srrdb"}, "candidate")
    /\ Imports!EnqueueCandidate(job[t].item)
    /\ UNCHANGED <<loopVars, uaVars>>

-----------------------------------------------------------------------------

\* The runner's first step stamps the time of the last start.
ImportStarts ==
    /\ \/ Imports!RunnerStarts /\ UaGets(ImportJob)
       \/ Imports!RunnerRefuses /\ UNCHANGED uaVars
    /\ spaced' = FALSE
    /\ UNCHANGED <<status, due, job, runningJobs, paused, raised, checkSpaced, loopVars>>

\* The stream ends with the job, or fails while the job goes on; a timeout
\* is followed by a kill that may fail too.
ImportEnds ==
    /\ \/ Imports!RunnerDone /\ UaEnded(ImportJob)
       \/ Imports!RunnerDone /\ rows'[runner.row].status = "error" /\ UaAbandoned(ImportJob)
       \/ Imports!RunnerKilled /\ (UaEnded(ImportJob) \/ UaAbandoned(ImportJob))
    /\ UNCHANGED <<checkVars, loopVars>>

ImportStep ==
    /\ Imports!RunnerTimesOut
    /\ UNCHANGED <<checkVars, loopVars, uaVars>>

\* Requests of the user that concern the queue of imports.
ImportRequest ==
    /\ \/ Imports!RunPending
       \/ \E i \in Items : Imports!QueueForm(i)
       \/ \E r \in Imports!Rows : Imports!Cancel(r)
    /\ UNCHANGED <<checkVars, loopVars, uaVars>>

\* Mutant: the console starts its job without the lease.
ConsoleStartsUnleased ==
    /\ up
    /\ UaGets(Console)
    /\ UNCHANGED <<up, holder, crashes, checkVars, importVars, loopVars>>

\* The console starts a session while nobody has the lease, and ends it: the
\* stream ended, it failed, or a kill was answered with 404.
ConsoleStarts ==
    /\ up
    /\ Imports!Lease!Grant(Console)
    /\ UaGets(Console)
    /\ UNCHANGED <<up, crashes, checkVars, importVars, loopVars>>

ConsoleEnds ==
    /\ Imports!Lease!Free(Console)
    /\ UaEnded(Console) \/ UaAbandoned(Console)
    /\ UNCHANGED <<up, crashes, checkVars, importVars, loopVars>>

-----------------------------------------------------------------------------

ItemRequest ==
    /\ \E i \in Items : Checks!Recheck(i) \/ Checks!Ignore(i)
    /\ UNCHANGED <<importVars, loopVars, uaVars>>

TimePasses ==
    /\ Checks!SpacingPasses \/ \E i \in Items : Checks!RetryTime(i)
    /\ UNCHANGED <<importVars, loopVars, uaVars>>

Maintenance ==
    /\ Checks!Maintenance
    /\ UNCHANGED <<importVars, loopVars, uaVars>>

\* The program stops or dies, and starts again; Upload Assistant goes on.
Crash ==
    /\ Checks!Crash
    /\ Imports!Crash
    /\ loop' = "asleep"
    /\ lost' = ua
    /\ UNCHANGED <<quiConfigured, ua>>

Restart ==
    /\ Checks!Restart
    /\ Imports!Restart
    /\ UNCHANGED <<loopVars, uaVars>>

Check(t) ==
    CheckStep(t) \/ CheckAsksUa(t) \/ CheckUaDone(t) \/ CheckUaLost(t) \/ CheckAutoQueues(t)

Import == ImportStarts \/ ImportEnds \/ ImportStep

Next ==
    \/ LoopStarts \/ LoopPolled \/ PollFails
    \/ \E t \in Slots : Check(t)
    \/ Import \/ ImportRequest
    \/ ConsoleStarts \/ ConsoleEnds
    \/ ItemRequest \/ TimePasses \/ Maintenance
    \/ \E j \in Jobs : UaExits(j)
    \/ Crash \/ Restart

\* The loop turns; a poll does not fail for ever; a check's calls end, each has
\* a timeout; time passes; a service that stopped is started again.
Fairness ==
    /\ WF_vars(LoopStarts)
    /\ SF_vars(LoopPolled)
    /\ \A t \in Slots : WF_vars(Check(t))
    /\ WF_vars(TimePasses /\ spaced')
    /\ WF_vars(Restart)

Spec == Init /\ [][Next]_vars /\ Fairness

-----------------------------------------------------------------------------

\* Each job's caller has the lease: a job that Upload Assistant runs without
\* its caller holding the lease is one whose caller missed its end.  Checks,
\* imports and the console never run two jobs at once on their own account.
OnlyLostJobsOverlap == \A j \in ua : j = holder \/ j \in lost

\* The wish to run the queue, set by a request or by a check, is served once
\* maintenance and the console are out of the way, however many checks are
\* due: with one check at a time an import gets its turn before the next.
ImportIsServed ==
    <>[](up /\ ~paused /\ configured /\ holder # Console) =>
        [](requested => <>(runner.at # "none" \/ ~requested))

\* With one job at a time, check starts are spaced within a run of the
\* program, whatever imports and the console do between them.
ChecksSpaced ==
    [][\A t \in Slots :
          job[t].at # "media" /\ job'[t].at = "media" => checkSpaced]_vars

\* Once maintenance, the imports and the console are over, a due item is
\* checked or settled by somebody else, unless older items are due for ever:
\* none is forgotten behind a lost task, a lost lease, a lost job or an
\* interrupted check.
DueIsServed ==
    <>[](~paused /\ quiConfigured /\ holder \notin {ImportJob, Console}) =>
        \A i \in Items :
            []<>(\E j \in Items : j < i /\ Checks!IsDue(j)) \/ (Checks!IsDue(i) ~> ~Checks!IsDue(i))
=============================================================================
