# Whackamole in TLA+

Whackamole watches completed torrents in QUI, asks Upload Assistant (UA) which
trackers would take them, compares the answer with Sonarr, Radarr and srrDB,
and keeps a list of upload candidates, which the user (or the auto-upload
setting) sends to UA. It is one Python process: an asyncio event loop with a
service loop, check tasks, an import task, a console stream task and FastAPI's
request handlers, over one SQLite database and one configuration file.

The modules here model that program from `src/app`. Line numbers below are
those of the sources in `src/`.

## The system

### Components

| Component | State | Operations | Meets the others through |
|---|---|---|---|
| UA coordinator, `ua_execution.py` 24-96 | owner id, condition waiters, lease objects | acquire (waiting or trying), release | every use of UA takes its lease |
| Upload console, `ua_execution.py` 99-287, `main.py` 3054-3201 | the manager's session: state, task, log, subscribers, lease | start, stream, publish, finish, subscribe, kill | lease; UA's `/execute` and `/kill`; browsers |
| Queued imports, `service.py` 696-810, `database.py` 1439-1634, `main.py` 2862-2881, 3027-3147 | table `queued_imports`, `_queued_import_run_requested`, `_import_task` | queue (form, JSON, auto), cancel, run, claim, finish, recover | lease; service loop; checks queue candidates |
| Site checks, `service.py` 679-694, 976-1635, `database.py` 1386, 1636-1850 | `items.status`, `next_check_at`, `_running_jobs`, `_last_ua_job_started_at` | dispatch, seven stages, decision, notification, recovery | lease; user, poll and replays write the same rows |
| Service loop, `service.py` 524-563 | the loop's task | start, stop, poll, try an import, dispatch | calls all of the above in order |
| Maintenance guard, `service.py` 812-974 | five `kv` values, configuration, QUI's health | loop turn, snapshot, manual pause and resume | stops the loop and the dispatch |
| Inventory poll, `service.py` 565-677, `inventory.py`, `database.py` 438-671, 1027-1098 | `items`, `inventory`, `kv` first run and reconcile time | fetch pages, baseline, discover, sync, mark missing, cover, requeue | writes `items.status` while checks run |
| Decision rules, `rules.py`, `reducer.py`, `check_results.py` | none | evaluate evidence to a status | last stages of a check; replay |
| Tracker policies, `media_policy.py`, `upload_console.py`, `trackers.py` | none | remove trackers; choose those an upload may use | checks, imports, console |
| Media identity, `media_identity.py` 1-1640, `filters.py`, `source_providers.py` | none | parse names and MediaInfo reports, name tracks, languages and HDR, compare two releases | checks |
| Arr comparison, `arr_compare.py` | a cache of Arr's answers, one per process | ask Arr, compare every listing with the release, decide per tracker | checks; the keys of configuration |
| srrDB and rename detection, `srrdb.py`, `rename_detection.py`, `rename_display.py` | cache table, throttle | look up, compare names and sizes, ask for a review | checks |
| Security and sessions, `security.py`, `path_security.py` | `kv`, sessions table, login window | set up, log in, sign out, change the password, renew cookies, bearer tokens | all requests |
| Reports, `database.py` 1811-1999 | table `reports` | report, reject, revoke | writes `items.status` |
| Configuration and secrets, `config.py`, `main.py` 3367-3396 | two YAML files; keys bound to an origin | load, save | read by every component, at every use |
| Web pages, clients, notifications, path mapping | none | presentation, HTTP calls, prefix replacement | |

### What is hard about it

Everything shares one thread, so the interesting interleavings are those at an
`await`: a handler reads state, waits for UA, QUI or a request's body, and goes
on with what it read. The places that matter:

- the coordinator's `Condition.wait()`: what another task does between a
  notification and the wake-up;
- a console session that its stream task, several kill requests and a failing
  connection all try to finish;
- checks that read their item before they wait for the lease and write its
  status at every stage, while the user, the poll and the replay of decisions
  write it too;
- the wish to run the queue of imports, set and cleared by four parties;
- a maintenance turn that waits for QUI's health while the user, the clock and
  the configuration move on;
- checks that put evidence together from several sources, each with its own
  idea of what a name, a track, a language or an HDR format is called;
- caches of srrDB and Arr, and keys bound to an address, read by a check while
  the settings are saved;
- cookies in browsers that answer late, renewed by requests that were admitted
  before their session was revoked;
- restarts: rows left `running` and items left `checking`; UA does not restart
  with the program and goes on with its job;
- UA itself: a caller that times out or loses the connection releases the lease
  although the job may be running.

`PROJECT.json` lists each hazard at its line with the properties that watch it.

## Modules

| Module | Models | How state and actions correspond |
|---|---|---|
| `UaLease` | what the coordinator promises | `holder`; `Grant`, `Free` |
| `UaExecution` | the coordinator and its lease objects | `owner` is `_owner_id`, `pc` the condition's waiters, `leaseId` and `released` the lease objects, `ms` the clock that owner ids are made from. One action per way through `acquire`; `Release` with `CoordinatorRelease`. Its specification is `GateSpec` |
| `UploadConsole` | sessions, kills, watchers | `state`, `task`, `finished` as in the class; `published`, `buffer`, `watch` for the log, the queues and what a browser got; `kill` holds the position of each kill handler. `Emit` and `FinishAfter` are `_publish` and `_finish`, part of the step that calls them |
| `QueuedImports` | the queue, its runner, its requests | `rows` is the table; `requested`, `runner`, `request` are memory; `Crash` drops memory, `Restart` runs the recovery. `RunQueuedImport` is the whole of `run_queued_import` |
| `CheckJobs` | dispatch and stages of checks, other writers of `items.status` | `status`, `due` are the row, `job` the task's stage, `runningJobs` and `spaced` the loop's counters. One action per stage's end |
| `Service` | the loop with checks, imports, console and UA's processes | INSTANCEs `CheckJobs` and `QueuedImports` on shared `up`, `holder`, `crashes`; `ua` is what UA runs, `lost` those whose caller is gone |
| `Inventory` | polls of a list that moves, and the reconciliation of what they find | `qui` and `place` are what the client lists, `status`, `targets` and `tracker` the rows, `poll` the poll under way; a page is a step. `EndPoll` is the whole of `poll_once` after the crawl: missing torrents, lost coverage, new coverage |
| `Decisions` | the rules, the tracker policies, replays, what a poll does to a decided item, the trackers of an upload | `row` is what `items` keeps of one item, `job.policies` what a check loaded, `policies` the configuration. `Rules` lists `evaluate_decision`'s rules in order; `Outcomes` is the last stages of a check; `PollEnds` marks the item missing, queues it again or covers it; `Reapplied` is policies applied to a stored row |
| `Maintenance` | the guard | the five `kv` values, `hour` and `opens` in place of the clock, `remembered` for the ten seconds a health answer counts, `probe` for a turn that waits for `/health`. Its specification is `GuardSpec`, so that one module can speak of the guard and of the loop that asks it |
| `Sessions` | accounts, sessions and cookies | `admin` is the account's version, `rows` the sessions table, `cookie` what a browser holds, `req` a request under way: admitted by the middleware, handled, answered. `Start` prolongs sessions of an older version; `OfflineReset` is the tool |
| `Lookups` | keys, caches and the throttle of a check's lookups | `url`, `key` and `bound` are what the two files hold, `arrRows` and `stored` the caches, `check` a check with the address it read, `sinceRequest` the throttle; `files` and `listed` are the world outside |
| `ReleaseNames` | what is read off a name | a name is the set of words the patterns look for; `Traits` is `parse_release_traits`, one operator per trait |
| `MediaTracks` | what is read off a MediaInfo report | `HdrOf` a picture, `AudioOf` and `ChannelsOf` a track, `SpokenIn` the language a check goes by; `FileReport` is what is kept of a file |
| `Releases` | which of two releases is better, and what that means for a tracker | `EqualOrBetter` and the ranks it compares; `Best` of the listings; `TrackerDecision`, `Summary` |
| `MediaEvidence` | flags of a check's reports | merge of QUI's reports and the local ones, languages, policy |
| `RenameEvidence` | Rename Check and srrDB | what is odd in a name, and what an archived name excuses |
| `CheckEvidence` | a check from evidence to its end | composes the five above; one action per stage. `title` is what the name says, `traits` what is compared with Arr's listings after MediaInfo. `doubts` is a history of what is true of the evidence the check has seen. Its specification is `EvidenceSpec` |
| `MC_*` | instances for TLC | bounds and symmetry |
| `QueuedImports_proofs`, `CheckJobs_proofs`, `Decisions_proofs`, `Sessions_proofs`, `Inventory_proofs` | the theorems on the module of that name | `IInv` is its inductive invariant |
| `UploadConsole_proofs` | the theorems on the coordinator and on the console | `GateInv` is the coordinator's inductive invariant, `IInv` the console's |
| `Lookups_proofs` | the theorems on the lookups and on the evidence of a check | `IInv` is the inductive invariant of `Lookups`, `EvidenceInv` that of `CheckEvidence` |
| `Service_proofs` | the theorems on the composed program, and on the maintenance guard | `CheckPart` and `ImportPart` are the two parts with what is proved of them, as the program has them |

`Decisions` and `CheckEvidence` look at the same stages from two sides:
`CheckEvidence` computes what the evidence says of one check, `Decisions` takes
any such result and follows the row through polls, replays, policies and
uploads. `Inventory` has the same end of a poll for many torrents: there the
trackers present come from the list, and an item's evidence is left out; in
`Decisions` any trackers may be present, and what is left of the evidence is
followed.

The lease is the hub. `UaExecution` is proved to implement `UaLease`; the
console, the imports and the checks use `UaLease` by INSTANCE, and `Service`
puts them on one lease. Names in the modules are the code's where TLA+ allows.
An operator marked *Mutant* is the definition that follows it with one plausible
mistake; each property has one that breaks it, and no specification uses them.

### Abstractions

- A step lasts from one suspension of a task to its next. SQLite statements are
  synchronous and belong to the step they are in.
- `queued` and `deferred` differ in a label only and are one status in
  `CheckJobs`; `blocked`, `skipped` and `error` are `settled`, because nothing
  in the dispatch tells them apart.
- A decision of a check is any of those its stage can write. The rules that
  choose among them are pure functions.
- `Inventory` keeps of a status what the poll tells apart: what a check has
  decided is one status, and of the trackers of a covered item those it is
  covered on. A program that stops during a poll is a poll that fails.
- `Decisions` follows one item, an episode, since a moderation queue matters for
  episodes only. What is found by looking into a log, a name or a MediaInfo
  report is a choice; reasons, which no rule but `no_tracker_passed`'s reads,
  are left out. Rows a check is working on are overwritten by its end, as in
  `CheckJobs`. The end of a poll finds any set of trackers present. A request that queues or starts an upload is one step, at the
  moment it reads the row and the policies.
- A name is the set of words that the parser's patterns look for, spelt in one
  way each, with its numbers and its last word. The spelling of patterns is left
  out; that several match, and that the first in the program's order wins, is
  not. Bit rates, and warnings that change no decision, are left out.
- A file is its name without its folder and whether it is a sample. A MediaInfo
  report is a picture and a sequence of tracks.
- In `Lookups` the release's file has the archived name or another one, and
  srrDB lists the release or does not. An address is an origin, which is what
  `get_bound_secret` compares.
- In `Sessions` a request is admitted, handled and answered in three steps,
  between which others run. A refusal by the login window is a refused login;
  the tokens against forged requests and the bearer tokens are left out.
- `Inventory` has torrents of one release group, and says of a category, a tag or
  a path what it tells the detection.
- Time is a Boolean where the code compares it with one threshold: `due`,
  `spaced`, the part of the day in `Maintenance`. The caches and sessions, which
  compare several ages, count ticks.
- UA is external: it accepts a job, sends output, ends, and answers a kill with
  success or not found, in any order its client allows for.

## Runs

| Run | Configuration | Question | Properties |
|---|---|---|---|
| `coordinator` | `MC_UaExecution.cfg` | The Upload Assistant coordinator is a mutual exclusion lock without lost wake-ups although two owners may carry the same id, and it implements the abstract lease. | `GateTypeOK`, `LeaseExclusion`, `NoLostWakeup`, `ImplementsLease` |
| `console` | `MC_UploadConsole.cfg` | Stream, overlapping kills, failures and watchers of a console session: the lease is held exactly while the session is unfinished and is given back, watchers lose and repeat nothing and reach the end. | `LeaseWhileUnfinished`, `OutputInOrder`, `WatcherReachesEnd`, `LeaseReturned` |
| `imports` | `MC_QueuedImports.cfg` | The queue of imports through cancellations, timeouts, failures and restarts; a second active import of an item can only come from the JSON endpoint. | `RunningIsClaimed`, `UploadedOncePerClaim`, `DuplicatesOnlyByJson` |
| `checks` | `MC_CheckJobs.cfg` | Two checks at a time, interleaved with the user, the poll, other users of the lease and a restart. | `RunningJobsExact`, `CheckingIsLive`, `UserDecisionStands` |
| `service` | `MC_Service.cfg` | Checks, imports and console composed with Upload Assistant's own processes: a job runs without its caller holding the lease only when its caller missed its end, starts of checks are spaced, and neither a requested import nor a due item is starved. | `OnlyLostJobsOverlap`, `ImportIsServed`, `ChecksSpaced`, `DueIsServed` |
| `maintenance` | `MC_Maintenance.cfg` | The maintenance guard over three days, with requests, midnight, configuration changes and restarts during the wait for QUI. | `SeenDownIsFresh`, `LoopAgreesWithSnapshot`, `ResumeHolds` |
| `decisions` | `MC_Decisions.cfg` | Checks, polls that cover an item, queue it again or miss its torrent, replays and policies saved over and over: what a candidate and an upload started from it may be, whichever way the item came there. | `CandidateIsSound`, `CandidateFollowsPolicy`, `UploadIsAllowed`, `ModeratedIsRestored` |
| `inventory` | `MC_Inventory.cfg` | Polls of a list that moves between the pages: what is marked missing, queued or covered is so for a reason, and every completed torrent gets its row. | `MissingWasGone`, `FirstRunBaselines`, `ReconcileIsExact`, `EveryTorrentStored` |
| `sessions` | `MC_Sessions.cfg` | Browsers with cookies, answers that arrive late, a changed password, the offline tool and restarts with another lifetime: a session that has ended is never admitted again. | `OldCredentialsAreOut`, `EndedStaysEnded`, `SigningOutHolds` |
| `lookups` | `MC_Lookups.cfg` | Keys bound to an origin, the caches of Arr and srrDB and the spacing of srrDB, while the settings are saved and the files and srrDB's list change during a check. | `KeyGoesHome`, `KeptKeyIsUsable`, `RowsAreRecent`, `ListingIsNoticed` |
| `lookups_files` | `MC_Lookups_files.cfg` | A verdict of srrDB from the cache is of the files the torrent had when it was found. | `VerdictIsOfTheseFiles` |
| `evidence` | `MC_CheckEvidence.cfg` | A check from the names and tracks of a torrent to its candidate, through MediaInfo, Upload Assistant, Arr, policies, srrDB and Rename Check: what stands behind a candidate. | `ClaimsAreNotRefuted`, `AudioIsOriginal`, `ListedIsBlocked`, `NamesAreGenuine` |

### Bounds, and why they are enough

- `coordinator`: three tasks, three lease objects, two labels and two
  milliseconds. An id can collide, three leases can be live, released or
  collected, and two tasks sleep while a third takes over. The theorems remove
  the bounds.
- `console`: two sessions, so that the end of one meets the start of the next;
  two kill requests, so that each can meet the other, the stream's end and its
  failure; one watcher; one chunk of UA's output, to which the program adds its
  own messages, so the log outgrows a replay of two chunks.
- `imports`: two items, three rows, two restarts: an item is queued, run,
  interrupted twice and queued again while the other waits. One JSON request.
- `checks`: two items, two slots, one restart: one item is checked while the
  other is due, both tasks can carry the same item, one waits for the lease.
- `service`: one item, one slot as in the default configuration, one row, one
  restart, all users of the lease. A check, an import and the console overlap in
  UA pairwise and all three. The order among several due items is left to
  `checks`.
- `maintenance`: three days: what is left of one day meets the next, and a day
  follows one that was never completed. Days begin before the lead time,
  within it or after the start, by the settings.
- `inventory`: a source torrent and two support torrents on two trackers, pages
  of one torrent, a crawl of two: the list is longer than a crawl, and a torrent
  can slip over a page boundary. One change of the list, in which a torrent may
  become what another one is, and one command of the user.
- `decisions`: two trackers, every combination of bans and queues, saved any
  number of times; in one check at most one thing speaks against the item
  (`MaxFindings`), besides what each tracker and Arr say. A poll may find any
  of the two trackers present, so an item is covered on both, on one, queued
  again for the loss of either and found missing in each of these states.
- `sessions`: two browsers, one of them at an address the bypass covers, two
  requests under way, two sessions, one change of credentials and one restart:
  an answer to an old session's request meets a new session, the second session
  begins after the first was ended, and a session of an older version with a
  shorter lifetime expires, or is prolonged. Two ticks outlast any lifetime.
- `lookups`: two addresses and one key each, times of one or two ticks that keep
  the order of the code's: a found release is kept longer than anything else. A
  third address or tick adds no new order of events.
- `evidence`: a torrent of up to three files of which two are examined, two
  trackers, one listing per search besides none. Evidence is ordinary but for
  one thing in the title and up to two in the reports, each kind of oddity the
  code looks for being in the set: resolution, codec, HDR, audio, channels,
  languages (English, two foreign ones, one that is not
  told, none, and no audio track), samples, equal names, seasons not yet aired, names of placeholders,
  of another group, of another title.

`MaxCrashes`, `MaxRows`, `MaxOutput`, `MaxMs`, `MaxDay`, `MaxChanges`,
`MaxCommands`, `MaxPages` in the instance, `MaxFindings`, `MaxTime`,
`MaxSessions`, `Lanes`, `MaxOdd` and `MaxListings` are bounds of the
models; `MaxReplay` stands for the limit of a million characters and
`MaxConcurrent` for `safety.max_concurrent_ua_jobs`.


## Fairness

- `UploadConsole`: weak fairness of the stream task, of pending kill requests
  and of readers. HTTP calls have timeouts, so every await of UA ends; a
  browser that stays connected reads. Starting a session, killing it and joining
  it are left to the user.
- `Service`: weak fairness of the loop (it comes round every polling interval),
  of every check (each call has a timeout, also the one that waits for Upload
  Assistant), of the time that spaces jobs, and of a restart, since the program
  is run by a supervisor. Strong fairness of the step after the poll, because a
  poll may fail but is not assumed to fail for ever. No fairness is assumed of
  user requests, nor of an import or a console, which a user may leave open.
  `ImportIsServed` and `DueIsServed` suppose what else they need: maintenance
  ends, UA stays configured, and for the latter no import or console holds the
  lease for ever.
- `Inventory`: weak fairness of the start of polls (the loop comes round) and
  of the time to reconcile, strong fairness of each page, because a request may
  fail but is not assumed to fail for ever. `EveryTorrentStored` supposes that
  the list comes to rest.
- The other modules have safety properties only.

## What is proved

TLC looks at the instances of the table above; the theorems below hold for every
value of the constants that the modules' assumptions allow: any number of
tasks, items, slots, rows, sessions, browsers, watchers, torrents, pages and
days, any lifetimes and any value of the bounds. The assumptions say that the
names for "none" are no members, that counts and times are natural numbers, that
sets of items, slots and torrents and the files of a release are finite, in
`Sessions`, that an older lifetime is not longer than the present one, and, in
`CheckEvidence`, that a torrent has at least one video file of which at least
one is examined (`LayoutsAssumption`) and that MediaInfo lists a sequence of
tracks and counts channels in natural numbers (`ContentsAssumption`). Each
theorem rests on an inductive invariant, `IInv` of its module (`GateInv` of the
coordinator, `GuardInv` of maintenance, `EvidenceInv` of a check's evidence),
which TLC has checked on the module's run before it was proved. The invariants
are stronger than the properties:

- **Coordinator** (`UploadConsole_proofs`, with `GateSpec`). `TypeCorrect`, `LeaseExclusionHolds`,
  `NoLostWakeupHolds`, and `ImplementsPromise`: the coordinator implements
  `UaLease`, with the live lease as `holder`. Owner ids are made of a label and
  milliseconds and can collide, and a lease can be released by two parties. The
  argument: a new lease is handed out only when no other is live, so equal ids
  are never live together, and the `_released` flag keeps a dead lease from
  freeing its namesake. `GateInv` adds that every released lease object still
  carries an id; without it one could be handed out again with its flag set.
- **Console** (`UploadConsole_proofs`). `LeaseWhileUnfinishedHolds`,
  `WatcherReachesEndHolds`, `OutputInOrderHolds`. `IInv` says where a watcher is:
  what it got and what is in its queue make one line of chunks without a gap,
  which reaches to the last chunk published while the session runs, and to the
  end mark once it has ended (`Lines`). `_finish` may be called by the stream, its
  failure and any kill, so each way to it shows that only the first one moves the
  lease and the lines. `ConsoleKeepsPromise`: sessions implement `UaLease` step
  by step.
- **Imports** (`QueuedImports_proofs`). `RunningIsClaimedHolds`,
  `UploadedOncePerClaimHolds`, `DuplicatesOnlyByJsonHolds`. `UploadsAccounted`
  keeps the books: a pending row has been sent at most once per restart that put it back, a
  running one once more when the runner has passed its first step.
- **Checks** (`CheckJobs_proofs`). `RunningJobsExactHolds`, `CheckingIsLiveHolds`,
  `UserDecisionStandsHolds`. `IInv` ties tasks, lease and items together: a
  task in a stage has the lease, and while a task sends its notification nobody
  can have marked its item again. `_running_jobs` is compared with the
  cardinality of the live tasks, task by task.
- **Service** (`Service_proofs`). `OnlyLostJobsOverlapHolds`: every job at UA is
  lost to its caller or awaited by the one part that has the lease.
  `ChecksSpacedHolds`, for one check at a time (`MaxConcurrent = 1`, the
  default): a task exists only if the time had come when it was created, and an
  import in between stamps the time too. `ImplementsChecks` and
  `ImplementsImports`: each step of the program is a step or a stutter of
  `CheckJobs` and of `QueuedImports`, in which whoever else has the lease is
  `Others`. So the theorems of those two modules hold in the composed program
  (`ChecksHoldInTheProgram`, `ImportsHoldInTheProgram`); as the program's
  requests there insert rows in one step, no item has two active imports.
  `KeepsPromise`: all parts together implement `UaLease`, which the coordinator
  is proved to implement from its side.
- **Maintenance** (`Service_proofs`, with `GuardSpec`). `SeenDownIsFreshHolds`,
  `LoopAgreesHolds`, `ResumeStands`. A turn that waits for QUI goes on with what
  it read. `ProbeIsCurrent` says that this is still so unless something disturbed
  it, `NotYet` that before the lead time nothing is active today, and dates
  never lie in the future.
- **Inventory** (`Inventory_proofs`). `MissingWasGoneHolds`,
  `FirstRunBaselinesHolds`, `ReconcileIsExactHolds`. The list moves while it is
  read; `NoneSlipsThrough` says that a torrent that stayed and did not move up is
  at a position the poll still comes to, or has been seen. Additions push it
  back, and a removal behind it does not touch it. Lemmas say what the
  operators of the reconciliation may do to a row (`ResolveMoves`,
  `ResolveIsExact`, `MarkType`, `FoundType`).
- **Decisions** (`Decisions_proofs`). `CandidateIsSoundHolds`,
  `CandidateFollowsPolicyHolds`, `UploadIsAllowedHolds`,
  `ModeratedIsRestoredHolds`. The rules read what earlier rules and policies
  left in the row, so `RowOK` says what they may rely on: policies and Arr have
  spoken together or not at all, the policies' candidates are Arr's and passed
  UA, and a review without candidates is one for want of a release group or
  of Arr's candidates. `FirstRule` finds the rule that decides, the first of
  twenty that holds; `Ruling` says what each status then implies. From these,
  checks, polls, replays and policies applied again each keep `RowOK`
  (`AfterPolicyKeeps`, `PollKeeps`, `EvaluateKeeps`, `ReappliedKeeps`). A poll that
  covers an item takes its trackers from what passed and from Arr's candidates
  and leaves the policies' trackers, which a replay reads: so a candidate's
  trackers are Arr's and passed, or all of them covered (`BroughtBack`). The row
  follows the saved policies unless `stale`; a queued import may be older than
  its row, and goes only where the row and the policies of its moment allow it.
- **Sessions** (`Sessions_proofs`). `OldCredentialsAreOutHolds`,
  `EndedStaysEndedHolds`, `SigningOutStands`. `UnsentIsUnknown` is the heart: a
  session whose cookie is still on its way is in no browser, request or other
  answer, so nobody can have signed it out. Every form is shown to be one kind of
  step on the table (`TableStep`).
- **Lookups** (`Lookups_proofs`). `KeyGoesHomeHolds`, `KeptKeyIsUsableHolds`,
  `RowsAreRecentHolds`, `ListingIsNoticedHolds`. `KeyIsBound` follows a key of an
  older release, which has no origin of its own: until it is bound it belongs to
  the configured address, which is also the one a check under way has read.
- **Evidence** (`Lookups_proofs`, with `EvidenceSpec`). `ClaimsAreNotRefutedHolds`,
  `AudioIsOriginalHolds`, `ListedIsBlockedHolds`, `NamesAreGenuineHolds`.
  `EvidenceInv` ties what is true of the evidence to the flags: a claim that is
  refuted, or a foreign track, has left a flag that no later stage takes away
  unless Arr clears up the language, and only a missing source is left of the flags of a
  candidate. What the provers need is in the lemmas on the pure modules.
  `RefutedIsRaised` and `DubbedIsRaised`: merging the reports of two providers
  clears nothing up that neither has seen. `LocalTraitsAreMeasured`: MediaInfo
  leaves the lane of a release alone and replaces the HDR formats of its name
  only by formats of a higher rank (`Measured`). `AsGoodIsEqual`: if it has found
  no more than the name says, a listing as good as the name says is equal or
  better, whatever the HDR formats of either. `CandidateIsUnmatched`:
  of a candidate tracker no listing is, for the best of them is chosen among
  those that are equal or better. `MixedIsSevere` and `ModifiedIsMismatch`: what
  makes a release another one is not excused.

Attempts to prove found places where a model was too narrow to be the part of a
larger one, and these were changed. A queued import stamps the time of the
last start and may give the lease back in the step that begins it
(`OtherStamps` of `CheckJobs`). A check that is dispatched may meet an import
taking the lease in the same turn of the loop, and an import is queued in the
step that ends a check. An exception of a check may come with the end of its job
at UA.

Only model-checked:

- liveness (`LeaseReturned`, `ImportIsServed`, `DueIsServed`,
  `EveryTorrentStored`), which is outside TLAPS' reach, as is whatever depends
  on ENABLED;
- `VerdictIsOfTheseFiles`, which the code does not keep.

## Where the code and its documents disagree

One run ends in a violation: `lookups_files`
(`VerdictIsOfTheseFiles`, at srrdb.py:54). `PROJECT.json` quotes
the test and the message that say otherwise.
Also met while modelling, without a run of their own:

- README.md:81 (no job starts while maintenance is active): `run_queued_import`,
  called by the button for pending imports, does not look at maintenance
  (service.py:696), and a check dispatched before goes on to its job.
- rules.py:614 (`ua.no_uploadable_trackers` "Skips clean no-op checks where no
  tracker accepted the release"): the check of an item that no tracker accepted
  skips it with the verdict `no_uploadable_trackers`, whatever MediaInfo says. A
  replay reads that verdict, the rule for `no_tracker_passed` does not match it
  any more, and a MediaInfo error moves the item to review.
- A row whose torrent is missing is `skipped`, which a replay evaluates like any
  other (database.py:1236): with the evidence of a candidate it is one again.
- `summarize_decisions` (arr_compare.py:268) asks for manual review when Arr
  could not compare, but `_skipped_reason` (rules.py:477) then finds no tracker
  left and skips the item.
- Policies applied again cover candidates and items skipped for moderation
  queues. An item that a ban blocked stays blocked when the ban is lifted, a
  tracker that a candidate lost to a ban or a queue is not given back, and an
  item in review keeps the trackers of its check. An item skipped for moderation
  queues without a known release group is not restored: the result is
  `manual_review`, which is not applied (database.py:1147). `ModeratedIsRestored`
  says what does hold.
- A pending import runs although its item was ignored, rejected or found missing
  since: only the trackers are looked at again.
- The crawl of a reconciliation has the flags of a first run (service.py:571-580):
  a torrent it sees first is stored as baseline and never checked by itself. A
  list longer than `max_qui_poll_pages` never ends its first run. A torrent that
  is removed while pages are read can have a present one marked missing.
- README.md:16 (job starts are spaced): `run_due_jobs` alone looks at the time
  of the last start (service.py:690); a queued import only sets it (737).
  `ChecksSpaced` says what does hold.
- README.md:81 (maintenance ends only after QUI went down and came back): it also
  ends at midnight, since it is bound to its date (service.py:840, 911).
- README.md:83 (the guard can be disabled): a guard disabled during maintenance
  goes on pausing the dispatch for the day, because `scheduled_active` does not
  look at `maintenance.enabled` (service.py:840). `LoopAgreesWithSnapshot`
  therefore holds only with the guard on.
- Moving the start of maintenance to later on the same day while it is active
  makes the loop poll although the snapshot says active (service.py:829-848).
  The settings of a day are fixed in `Maintenance`.
- README.md:14 (one Upload Assistant job at a time by default): an import that times out
  gives the lease back even when its kill fails (service.py:774-775), and a
  restart forgets it; `OnlyLostJobsOverlap` says what does hold.
- tests/test_upload_console.py:134-153 expects a second request to queue an item
  to find the first one's row. Two JSON requests whose bodies arrive late each
  insert one (main.py:3114, 3134); `DuplicatesOnlyByJson` says that nothing else
  does. A direct upload uses the policies read before its body arrived.
- README.md:65 (a candidate that gains its coverage is covered by the next poll):
  a support torrent that was missing and is back stays `skipped`, is no inventory any more, and covers nothing
  (database.py:591, 770). And a covered item whose torrent goes missing is
  `skipped` with the trackers that the policies had left it (database.py:1050-1055
  takes them from Arr's decisions and from what passed, not from the policies'
  result), so a replay makes it a candidate on the very trackers that have it
  (rules.py:458). No later poll covers it again, since no tracker of it is a
  candidate of Arr any more, and saved policies pass it by (database.py:1150).
  `CandidateIsSound` and `CandidateFollowsPolicy` name this one case.
- A pending import of an item that a poll covers meanwhile still goes to the
  trackers that cover it (service.py:740-758). `UploadIsAllowed` says so.
- A late answer to a request of an older session may overwrite the cookies of a
  new one (security.py:336).
- A connections form that is refused has already changed the secrets
  (main.py:3368-3394). `KeyGoesHome` and `KeptKeyIsUsable` say what this can do.
- A restart forgets the spacing of requests to srrDB (service.py:519).

What MediaInfo, names and languages are made of has corners of its own.
`CheckEvidence` has them as the code does, and its properties are stated so that
they hold in spite of them:

- A check goes by one language, that of the first file that has any: of its
  default track, or else of its first track with a language. When it is Arr's
  original language the flags of all files are dropped, also those for another
  foreign language (service.py:268). `AudioIsOriginal` excepts this.
- The gate for a WEB release without a source is passed when MediaInfo has
  errors, even if Arr clears these later.
- A local MediaInfo report that contradicts the title is not heard on a trait
  that QUI's report leaves out, and a file in which QUI finds no audio track
  passes under any title. `ClaimsAreNotRefuted` is about channels and formats of
  audio that QUI does report.
- When MediaInfo finds more than the title says, the release is compared as what
  MediaInfo says, and competes with listings of its own title, which are worse
  then. `ListedIsBlocked` is about releases that are what their title says.
- A verdict of srrDB that is remembered from other files of the same name counts
  as if these had been compared, and videos that srrDB's archive does not have
  are no mismatch. `NamesAreGenuine` is about archives compared in this check;
  that files are of one group it promises whatever srrDB says.
- The error of a DV and HDR10+ release without an HDR10 fallback is taken back by
  any local report.
- Files of the same name in different folders confirm each other, which
  `ClaimsAreNotRefuted` takes over from the code, and files past
  `max_mediainfo_files_per_check` are taken on trust.
- Whether an HDR format is as good as another is not transitive.
- `DTS-HD HRA` in a name is read as `DTS-HD MA`; `HDR10+` also as `HDR10`, but
  `HDR10P` is not; `DTS-HD.MA` names the provider `MA`.

## Not modelled

- Web pages, clients, notifications and path mapping keep no state the others
  depend on; that their calls fail or time out is a choice of the modules that
  make them. How a page presents a name (`rename_display.py`, the NFO's detection of
  `source_providers.py`) decides nothing: the NFO's answer is a choice of
  `CheckEvidence`.
- The patterns themselves, letter by letter, and the extraction of trackers from
  a log: TLC would only repeat unit tests there. What their results lead to is
  modelled.
- Reports beyond the rejection of an item: each handler is one statement on one
  row. `Decisions` has what a rejection does to the item.
- The login window, the tokens against forged requests, and `path_security.py`:
  each is decided within one request.
- The tools, the tests and the packaging are not part of the running program.

## Plan

1. Done: coordinator, console, imports, checks, service, maintenance, inventory,
   decisions, sessions, lookups, evidence. The abstract specification stated is
   `UaLease`; `CheckJobs` and `QueuedImports` are the abstractions of `Service`.
2. Done: the theorems on coordinator, console, imports, checks, service,
   maintenance, inventory, decisions, sessions, lookups and evidence. Every
   safety property that a passing run checks is proved.
   The coordinator, the console and the composed program implement `UaLease`.
3. Reports, if their handlers come to depend on each other.
