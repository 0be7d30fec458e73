----------------------------- MODULE Inventory -----------------------------
(***************************************************************************)
(* The inventory poll, WhackamoleService.poll_once (app/service.py), with  *)
(* the reconciliation of the items table it ends with (app/database.py).   *)
(*                                                                         *)
(* The poll reads QUI's list of torrents page by page, newest first, and   *)
(* waits for every page.  The list moves under it: a torrent added pushes  *)
(* the others down, one removed lets them move up across a page boundary.  *)
(* A torrent's category and path move too, and with them what it is taken  *)
(* for.  Checks, the user and restarts go on meanwhile.  A page's torrents *)
(* are handled, and the poll is ended, without a wait.                     *)
(*                                                                         *)
(* All torrents here are of one release group.  "queued" stands for        *)
(* queued, deferred and retry, "decided" for what a check may write:       *)
(* candidate, blocked, manual_review, skipped and error, and "missing" for *)
(* skipped with the verdict torrent_missing.                               *)
(***************************************************************************)
EXTENDS Naturals, FiniteSets, Sequences, SequencesExt

CONSTANTS
    Torrents,       \* hashes
    Trackers,
    NoTracker,
    Places,         \* what QUI may say of a torrent, see PlaceAssumption
    PlaceOf,        \* a torrent's place before the first change
    PageLimit,      \* qui.page_limit, at least 1
    MaxPages,       \* safety.max_qui_poll_pages
    KeepExisting,   \* watch.process_existing_on_first_run is off
    MaxChanges,     \* bound: changes of QUI's list
    MaxCommands     \* bound: the user's rechecks and ignores

\* What a torrent's category, tags, paths and comment say: that it is a
\* cross-seed or an upload, that the watch settings include it, and the trackers
\* that a folder of its paths is named after, that the text mentions, and that
\* the folder below "cross-seeds" or "uploads" stands for.
ASSUME PlaceAssumption ==
    /\ NoTracker \notin Trackers
    /\ \A p \in Places :
          /\ {p.crossSeed, p.upload, p.watched} \subseteq BOOLEAN
          /\ {p.folder, p.text, p.below} \subseteq Trackers \cup {NoTracker}
    /\ PlaceOf \in [Torrents -> Places]
ASSUME TorrentsAssumption == IsFiniteSet(Torrents)
ASSUME PageAssumption == PageLimit \in Nat \ {0} /\ MaxPages \in Nat \ {0}
ASSUME KeepAssumption == KeepExisting \in BOOLEAN
ASSUME BoundsAssumption == MaxChanges \in Nat /\ MaxCommands \in Nat

VARIABLES
    qui,            \* QUI's list, newest first
    complete,       \* torrents that are completed in QUI
    place,          \* what QUI says of each
    status,         \* items.status by hash, "absent" without a row
    targets,        \* trackers an item is decided to be a candidate for, or
                    \* of a covered one those it is covered on
    tracker,        \* items.inventory_tracker_key
    checking,       \* items with a check under way
    baselineDone,   \* kv baseline_done and inventory_done, set together
    crawlDone,      \* kv inventory_full_crawl_v2_done
    reconcileDue,   \* 15 minutes passed since the last reconciliation
    poll,           \* the poll under way: the next page, its mode, and the
                    \* hashes it has seen
    gone,           \* history: torrents that were out of QUI at some moment
                    \* of the poll under way
    slid,           \* history: torrents that moved up during it
    altered,        \* history: torrents that QUI came to say something else of
                    \* during it
    old,            \* history: torrents without a row that were complete in
                    \* QUI before the first poll and that no poll could miss
    changes, commands

history == <<gone, slid, altered, old>>
quiVars == <<qui, complete, place, changes>>
flags == <<baselineDone, crawlDone, reconcileDue>>
items == <<status, targets, tracker, checking>>
vars == <<quiVars, history, flags, items, poll, commands>>

Listed == ToSet(qui)

Statuses ==
    {"absent", "baseline", "inventory", "queued", "checking", "decided", "covered",
     "missing", "ignored"}

NoPoll == [on |-> FALSE, page |-> 0, full |-> FALSE, baseline |-> FALSE, seen |-> {}]

\* QUI has some torrents, the database is new.
Init ==
    /\ \E present \in SUBSET Torrents : qui \in SetToSeqs(present)
    /\ complete \in SUBSET Listed
    /\ place = PlaceOf
    /\ status = [t \in Torrents |-> "absent"]
    /\ targets = [t \in Torrents |-> {}]
    /\ tracker = [t \in Torrents |-> NoTracker]
    /\ checking = {}
    /\ baselineDone = FALSE /\ crawlDone = FALSE /\ reconcileDue = FALSE
    /\ poll = NoPoll
    /\ gone = {} /\ slid = {} /\ altered = {} /\ old = complete
    /\ changes = 0 /\ commands = 0

-----------------------------------------------------------------------------

\* A torrent that is kept as inventory only.
IsSupport(p) == p.crossSeed \/ p.upload \/ ~p.watched

\* detect_tracker: the first of its sources that names a tracker.
DetectTracker(p) ==
    IF p.folder # NoTracker THEN p.folder
    ELSE IF p.text # NoTracker THEN p.text
    ELSE p.below

\* Mutant: what is known of a torrent stays as it was found.
SyncNever(hashes) ==
    [t \in Torrents |->
        IF t \in hashes \cap complete /\ status[t] = "absent"
        THEN DetectTracker(place[t]) ELSE tracker[t]]

\* The trackers the rows of a page are known on: a crawl refreshes those of
\* hashes that have a row, an incremental poll does not.
Sync(hashes) ==
    [t \in Torrents |->
        IF t \in hashes \cap complete /\ (poll.full \/ status[t] = "absent")
        THEN DetectTracker(place[t]) ELSE tracker[t]]

\* The rows of the page, as insert_discovered makes them: a hash that has a
\* row keeps its status, one that is not completed gets none yet.
Discover(hashes, baseline) ==
    [t \in Torrents |->
        IF t \notin hashes \/ status[t] # "absent" \/ t \notin complete
        THEN status[t]
        ELSE IF IsSupport(place[t]) THEN "inventory"
        ELSE IF baseline THEN "baseline" ELSE "queued"]

\* coverage_for_group_keys, on statuses s and the trackers as the step
\* leaves them.
Coverage(s) == {tracker'[t] : t \in {u \in Torrents : s[u] = "inventory"}} \ {NoTracker}

\* mark_missing_from_inventory: what the user decided stays.
MarkMissing(s, seen) ==
    [t \in Torrents |->
        IF t \notin seen /\ s[t] \notin {"absent", "ignored"} THEN "missing" ELSE s[t]]

\* Covered items one of whose trackers is lost again.
LostCoverage(s) ==
    {t \in Torrents : s[t] = "covered" /\ ~(targets[t] \subseteq Coverage(s))}

\* Decided items all of whose trackers are covered.  An item that was decided
\* before it went missing is one of them.
NowCovered(s) ==
    {t \in Torrents : /\ s[t] = "decided" \/ (s[t] = "missing" /\ status[t] # "covered")
                      /\ targets[t] # {}
                      /\ targets[t] \subseteq Coverage(s)}

\* requeue_covered_with_missing_coverage for the items lost, then
\* resolve_covered_candidates, which takes the trackers of an item it covers
\* off its candidates.
Resolve(s, lost) ==
    LET requeued == [t \in Torrents |-> IF t \in lost THEN "queued" ELSE s[t]]
        covered == NowCovered(requeued)
        left == {t \in Torrents : status[t] = "covered" /\ requeued[t] # "covered"}
    IN /\ status' = [t \in Torrents |-> IF t \in covered THEN "covered" ELSE requeued[t]]
       /\ targets' = [t \in Torrents |-> IF t \in left THEN {} ELSE targets[t]]

\* No poll is under way, and its history is forgotten.
Stop ==
    /\ poll' = NoPoll
    /\ gone' = {} /\ slid' = {} /\ altered' = {}

\* Mutant: what is covered is compared with the inventory from before the
\* missing torrents were marked.
EndPollStale(s, seen, truncated) ==
    /\ Stop
    /\ baselineDone' = (baselineDone \/ ~truncated)
    /\ crawlDone' = (crawlDone \/ (poll.full /\ ~truncated))
    /\ reconcileDue' = (reconcileDue /\ ~poll.full)
    /\ IF poll.full /\ ~truncated
       THEN Resolve(MarkMissing(s, seen), LostCoverage(s))
       ELSE Resolve(s, {})
    /\ UNCHANGED checking

\* Mutant: a crawl that was cut off marks what it did not reach missing.
EndPollCutOff(s, seen, truncated) ==
    /\ Stop
    /\ baselineDone' = (baselineDone \/ ~truncated)
    /\ crawlDone' = (crawlDone \/ (poll.full /\ ~truncated))
    /\ reconcileDue' = (reconcileDue /\ ~poll.full)
    /\ IF poll.full
       THEN LET marked == MarkMissing(s, seen)
            IN Resolve(marked, LostCoverage(marked))
       ELSE Resolve(s, {})
    /\ UNCHANGED checking

\* The end of a poll.  A crawl that was cut off at MaxPages reconciles
\* nothing, and the first one is tried again by the next poll.
EndPoll(s, seen, truncated) ==
    /\ Stop
    /\ baselineDone' = (baselineDone \/ ~truncated)
    /\ crawlDone' = (crawlDone \/ (poll.full /\ ~truncated))
    /\ reconcileDue' = (reconcileDue /\ ~poll.full)
    /\ IF poll.full /\ ~truncated
       THEN LET marked == MarkMissing(s, seen)
            IN Resolve(marked, LostCoverage(marked))
       ELSE Resolve(s, {})
    /\ UNCHANGED checking

-----------------------------------------------------------------------------

\* Mutant: after the first crawl every poll is incremental.
PollStartsIncremental ==
    /\ ~poll.on
    /\ poll' = [on |-> TRUE, page |-> 0, full |-> ~crawlDone, seen |-> {},
                baseline |-> IF baselineDone THEN ~crawlDone ELSE KeepExisting]
    /\ gone' = Torrents \ Listed
    /\ slid' = {} /\ altered' = {}
    /\ UNCHANGED <<quiVars, old, flags, items, commands>>

\* poll_once up to its first request.
PollStarts ==
    /\ ~poll.on
    /\ LET full == ~crawlDone \/ reconcileDue
       IN poll' = [on |-> TRUE, page |-> 0, full |-> full, seen |-> {},
                   baseline |-> IF baselineDone THEN full ELSE KeepExisting]
    /\ gone' = Torrents \ Listed
    /\ slid' = {} /\ altered' = {}
    /\ UNCHANGED <<quiVars, old, flags, items, commands>>

\* The page asked for is the last one QUI has.
LastPage == (poll.page + 1) * PageLimit >= Len(qui)

\* The answer for one page, and what the poll does with it.
PollPage ==
    LET page == {qui[i] : i \in {j \in DOMAIN qui : (j - 1) \div PageLimit = poll.page}}
        new == page \ poll.seen
        seen == poll.seen \cup page
        s == Discover(new, poll.baseline)
        atEnd == LastPage \/ (~poll.full /\ \A t \in new : status[t] # "absent")
    IN /\ poll.on
       /\ tracker' = Sync(new)
       /\ IF atEnd THEN EndPoll(s, seen, FALSE)
          ELSE IF poll.page + 1 = MaxPages THEN EndPoll(s, seen, TRUE)
          ELSE /\ poll' = [poll EXCEPT !.page = @ + 1, !.seen = seen]
               /\ status' = s
               /\ UNCHANGED <<gone, slid, altered, targets, checking, flags>>
       /\ old' = {t \in old : status'[t] = "absent"}
       /\ UNCHANGED <<quiVars, commands>>

\* Mutant: the flags are set however the poll ends.
PollFailsFinally ==
    /\ poll.on
    /\ Stop
    /\ baselineDone' = TRUE /\ crawlDone' = TRUE
    /\ UNCHANGED <<quiVars, old, reconcileDue, items, commands>>

\* A request fails, or the program stops: nothing else of the poll happens.
PollFails ==
    /\ poll.on
    /\ Stop
    /\ UNCHANGED <<quiVars, old, flags, items, commands>>

ReconcileTime ==
    /\ crawlDone /\ ~reconcileDue
    /\ reconcileDue' = TRUE
    /\ UNCHANGED <<quiVars, history, baselineDone, crawlDone, items, poll, commands>>

-----------------------------------------------------------------------------

\* A check takes a queued item, and writes its decision whatever the item's
\* status has become.
CheckStarts(t) ==
    /\ status[t] = "queued"
    /\ checking' = checking \cup {t}
    /\ status' = [status EXCEPT ![t] = "checking"]
    /\ UNCHANGED <<quiVars, history, flags, targets, tracker, poll, commands>>

CheckEnds(t) ==
    /\ t \in checking
    /\ checking' = checking \ {t}
    /\ status' = [status EXCEPT ![t] = "decided"]
    /\ \E found \in SUBSET Trackers : targets' = [targets EXCEPT ![t] = found]
    /\ UNCHANGED <<quiVars, history, flags, tracker, poll, commands>>

\* The check is to be repeated later.
CheckRetries(t) ==
    /\ t \in checking
    /\ checking' = checking \ {t}
    /\ status' = [status EXCEPT ![t] = "queued"]
    /\ targets' = [targets EXCEPT ![t] = {}]
    /\ UNCHANGED <<quiVars, history, flags, tracker, poll, commands>>

\* requeue and ignore, for any row.  The trackers of an ignored item, which
\* the code keeps, are read by nothing.
Command(t, to) ==
    /\ commands < MaxCommands
    /\ status[t] # "absent"
    /\ status' = [status EXCEPT ![t] = to]
    /\ targets' = [targets EXCEPT ![t] = {}]
    /\ commands' = commands + 1
    /\ UNCHANGED <<quiVars, history, flags, tracker, checking, poll>>

Recheck(t) == Command(t, "queued")

Ignore(t) == Command(t, "ignored")

-----------------------------------------------------------------------------

\* QUI: a torrent is added, complete or not, one completes, one is removed,
\* one gets another category or path.
QuiChanges ==
    /\ changes < MaxChanges
    /\ changes' = changes + 1
    /\ UNCHANGED <<flags, items, poll, commands>>

Add(t) ==
    /\ QuiChanges
    /\ t \notin Listed
    /\ qui' = <<t>> \o qui
    /\ complete' \in {complete, complete \cup {t}}
    /\ UNCHANGED <<place, gone, slid, altered, old>>

Complete(t) ==
    /\ QuiChanges
    /\ t \in Listed \ complete
    /\ complete' = complete \cup {t}
    /\ altered' = IF poll.on THEN altered \cup {t} ELSE {}
    /\ UNCHANGED <<qui, place, gone, slid, old>>

Move(t, to) ==
    /\ QuiChanges
    /\ t \in Listed /\ place[t] # to
    /\ place' = [place EXCEPT ![t] = to]
    /\ altered' = IF poll.on THEN altered \cup {t} ELSE {}
    /\ UNCHANGED <<qui, complete, gone, slid, old>>

\* The torrents behind the one that is removed move up.
TakeAway(i) ==
    LET behind == {qui[j] : j \in {k \in DOMAIN qui : k > i}}
        missed == IF poll.on THEN behind ELSE {}
    IN /\ QuiChanges
       /\ i \in DOMAIN qui
       /\ qui' = RemoveAt(qui, i)
       /\ complete' = complete \ {qui[i]}
       /\ gone' = IF poll.on THEN gone \cup {qui[i]} ELSE {}
       /\ slid' = slid \cup missed
       /\ old' = old \ ({qui[i]} \cup missed)
       /\ UNCHANGED <<place, altered>>

Next ==
    \/ PollStarts \/ PollPage \/ PollFails \/ ReconcileTime
    \/ \E t \in Torrents :
          \/ CheckStarts(t) \/ CheckEnds(t) \/ CheckRetries(t)
          \/ Recheck(t) \/ Ignore(t) \/ Add(t) \/ Complete(t)
          \/ \E p \in Places : Move(t, p)
    \/ \E i \in 1..Cardinality(Torrents) : TakeAway(i)

\* The loop polls again and again, no page's request fails for ever, and the
\* time of the next reconciliation comes.
Fairness ==
    /\ WF_vars(PollStarts)
    /\ \A k \in 0..(MaxPages - 1) : SF_vars(PollPage /\ poll.page = k)
    /\ WF_vars(ReconcileTime)

Spec == Init /\ [][Next]_vars /\ Fairness

-----------------------------------------------------------------------------

\* A poll ends that has read the whole list.
Reconciles ==
    poll.full /\ LastPage /\ (crawlDone # crawlDone' \/ reconcileDue # reconcileDue')

\* A poll marks an item missing only if its torrent was out of QUI at some
\* moment of that poll, or moved up in the list during it and could slip
\* through between two pages.
MissingWasGone ==
    [][\A t \in Torrents :
          status[t] # "missing" /\ status'[t] = "missing" => t \in gone \cup slid]_vars

\* The first run baselines what is there: a torrent that was complete before
\* the first poll is never queued by a poll, however often that poll fails
\* or is cut off and whatever is added meanwhile.
FirstRunBaselines ==
    [][KeepExisting => \A t \in old : status'[t] # "queued"]_vars

\* A reconciliation leaves coverage exact: what it leaves covered has all
\* its trackers in the inventory, what it leaves decided lacks one, and the
\* inventory knows every complete torrent on the tracker QUI has it on, unless
\* that changed, or the torrent moved up or was away, while the list was read.
ReconcileIsExact ==
    [][Reconciles =>
          \A t \in Torrents :
             /\ status'[t] = "inventory" /\ t \in complete \ (gone \cup slid \cup altered) =>
                   tracker'[t] = DetectTracker(place[t])
             /\ status'[t] = "covered" => targets'[t] \subseteq Coverage(status')
             /\ status'[t] = "decided" /\ targets'[t] # {} =>
                   ~(targets'[t] \subseteq Coverage(status'))]_vars

\* Every torrent that stays complete in QUI, in a list the poll reads to its
\* end, gets a row: by an incremental poll or by the next reconciliation.
EveryTorrentStored ==
    \A t \in Torrents :
        <>[](t \in complete /\ Len(qui) <= PageLimit * MaxPages) => <>(status[t] # "absent")

=============================================================================
