----------------------------- MODULE Decisions -----------------------------
(***************************************************************************)
(* How the evidence of a check becomes a decision, and what becomes of it: *)
(* the last stages of a check (app/service.py), the reducer of Upload      *)
(* Assistant's log (app/reducer.py), the tracker policies                  *)
(* (app/media_policy.py), the rules (app/rules.py), the replay of stored   *)
(* decisions, the policies applied again when they are saved and what the  *)
(* end of a poll makes of an item that is gone or that other torrents      *)
(* cover (app/database.py), and the trackers an upload may use             *)
(* (app/upload_console.py).                                                *)
(*                                                                         *)
(* One item, an episode.  A check works with the policies it loaded when   *)
(* it began; everything it concludes from its evidence is one step at its  *)
(* end.  Where a log, a name or a MediaInfo report is examined, the outcome*)
(* of the examination is the evidence.                                     *)
(***************************************************************************)
EXTENDS Naturals, FiniteSets, Sequences, SequencesExt

CONSTANTS
    Trackers,
    MaxFindings     \* bound: things found against an item in one check

VARIABLES
    row,        \* what items keeps of the item, see Rows
    job,        \* the check under way and the policies it loaded
    policies,   \* config: trackers that ban the item's release group, and
                \* those whose episodes go to a moderation queue
    pending,    \* trackers of the item's pending import, {} without one
    stale       \* history: since policies were saved last, the row was
                \* decided under others

vars == <<row, job, policies, pending, stale>>

-----------------------------------------------------------------------------

Policies == [banned: SUBSET Trackers, queue: SUBSET Trackers]

\* check_results.release_group_policy.
PolicyResults ==
    [on: BOOLEAN, candidates: SUBSET Trackers, blocked: SUBSET Trackers, queue: SUBSET Trackers]

NoPolicy == [on |-> FALSE, candidates |-> {}, blocked |-> {}, queue |-> {}]

\* "hard" is bloated_audio or primary_language, "media" a MediaInfo error
\* that asks for a review.
MediaFlags == {"hard", "media"}
Flags == MediaFlags \cup {"missing_release_group", "srrdb_filename_mismatch"}

\* A tracker's decision by Arr, as policies and polls have changed it since.
ArrDecisions == {"none", "candidate", "blocked", "manual_review", "skipped", "covered"}

\* What Upload Assistant's log says when no tracker passed and none is
\* named as a duplicate or skipped, in the order the reducer looks for it.
Marks ==
    {"exact_match", "no_tracker_passed", "no_video_files", "ua_interrupted", "error", "unknown"}

Replayed == {"candidate", "manual_review", "blocked", "skipped"}
Statuses ==
    Replayed \cup {"queued", "checking", "retry", "error", "covered", "ignored", "rejected"}

\* COVERAGE_RESOLUTION_STATUSES.
CoverageResolution == Replayed \cup {"error"}

\* Verdicts of a stage of the check, of a rule, of the user, and none.
Verdicts ==
    Marks \cup Flags
    \cup {"candidate", "dupe", "skipped", "http_error", "mediainfo_unavailable",
          "manual_review", "pre_release", "banned_release_group",
          "moderation_queue_no_targets", "no_remaining_valid_targets",
          "renamed_release_warning", "arr_no_matching_media", "ua_error",
          "tracker_conditions_skipped", "no_uploadable_trackers", "not_upgrade",
          "moderation_rejected", "torrent_missing", "covered", "none"}

Rows ==
    [status: Statuses, verdict: Verdicts,
     decision: Statuses \cup {"none"},      \* check_results.decision.status
     ua: Verdicts,                          \* check_results.ua.verdict
     passed: SUBSET Trackers,               \* tracker_results.passed
     others: {"none", "dupe", "skipped"},   \* what is said of other trackers
     arr: [Trackers -> ArrDecisions],
     noMatch: BOOLEAN,                      \* Arr does not know the media
     policy: PolicyResults,
     resolved: SUBSET Trackers,             \* check_results.coverage_resolution
     flags: SUBSET Flags,
     known: BOOLEAN,                        \* the name has a release group
     renamed: BOOLEAN]                      \* Rename Check asks for a review

NoArr == [t \in Trackers |-> "none"]

\* A row without evidence.
Cleared(status) ==
    [status |-> status, verdict |-> "none", decision |-> "none", ua |-> "none", passed |-> {},
     others |-> "none", arr |-> NoArr, noMatch |-> FALSE, policy |-> NoPolicy,
     resolved |-> {}, flags |-> {}, known |-> TRUE, renamed |-> FALSE]

NoJob == [on |-> FALSE, policies |-> [banned |-> {}, queue |-> {}]]

Init ==
    /\ row = Cleared("queued")
    /\ job = NoJob
    /\ policies \in Policies
    /\ pending = {}
    /\ stale = FALSE

-----------------------------------------------------------------------------

ArrCandidates(arr) == {t \in Trackers : arr[t] = "candidate"}

\* Candidates of Arr that a poll has since found in the client.
Covered(arr) == {t \in Trackers : arr[t] = "covered"}

\* The status that goes with Arr's decisions: what summarize_decisions or the
\* last poll that covered them wrote.
ArrStatus(arr) ==
    IF ArrCandidates(arr) # {} THEN "candidate"
    ELSE IF Covered(arr) # {} THEN "covered"
    ELSE IF \E t \in Trackers : arr[t] = "manual_review" THEN "manual_review"
    ELSE "skipped"

\* reduce_ua_log: what the log says, by the first of its questions that is
\* answered.
Reduce(passed, others, mark) ==
    IF passed # {} THEN "candidate"
    ELSE IF others = "dupe" THEN "dupe"
    ELSE IF mark = "exact_match" THEN mark
    ELSE IF others = "skipped" THEN others
    ELSE mark

\* The status that goes with it.
ReducedStatus(ua) ==
    CASE ua = "candidate" -> "candidate"
      [] ua \in {"no_video_files", "ua_interrupted", "error"} -> "error"
      [] OTHER -> "blocked"

\* apply_release_group_policy, for a group that is known or not.
ApplyPolicy(arr, known, p) ==
    LET valid == ArrCandidates(arr)
        queue == valid \cap p.queue
        rest == valid \ queue
        blocked == IF known THEN rest \cap p.banned ELSE {}
        allowed == IF known THEN rest \ blocked ELSE {}
        outcome ==
            CASE valid # {} /\ rest = {} -> <<"skipped", "moderation_queue_no_targets">>
              [] rest # {} /\ ~known -> <<"manual_review", "manual_review">>
              [] rest # {} /\ known /\ allowed = {} -> <<"blocked", "banned_release_group">>
              [] allowed # {} -> <<"candidate", "candidate">>
              [] OTHER -> <<ArrStatus(arr), IF ArrStatus(arr) = "skipped"
                                            THEN "no_remaining_valid_targets"
                                            ELSE ArrStatus(arr)>>
    IN [status |-> outcome[1], verdict |-> outcome[2],
        flags |-> IF rest # {} /\ ~known THEN {"missing_release_group"} ELSE {},
        policy |-> [on |-> TRUE, candidates |-> allowed, blocked |-> blocked, queue |-> queue]]

-----------------------------------------------------------------------------

\* _valid_trackers of the rules.
ValidTrackers(r) ==
    IF r.policy.on /\ (r.policy.candidates # {} \/ r.status # "manual_review")
    THEN r.policy.candidates
    ELSE IF r.arr # NoArr THEN ArrCandidates(r.arr)
    ELSE IF r.status = "candidate" THEN r.passed ELSE {}

\* _policy_all_trackers_banned.
AllBanned(r) == r.policy.blocked # {} /\ r.policy.candidates = {}

\* What _skipped_reason and _arr_equal_or_better_only ask of an item without
\* valid trackers.
AllModerated(r) ==
    r.policy.queue # {} /\ r.policy.candidates = {} /\ r.policy.blocked = {}
OthersDupe(r) == r.others = "dupe" \/ r.verdict \in {"dupe", "exact_match"}
OthersSkipped(r) == r.others = "skipped" \/ r.verdict = "skipped"
NotUpgrade(r) ==
    ArrCandidates(r.arr) = {} /\ \E t \in Trackers : r.arr[t] = "blocked"

Rule(holds, status, verdict) == [holds |-> holds, status |-> status, verdict |-> verdict]

\* evaluate_decision: the rules in their order; those that _skipped_reason
\* has look at an item without valid trackers only.  It sees the status and
\* the verdict that the row has, or that a check is about to give it.
Rules(r) ==
    LET said == {r.verdict, r.ua}
        transient == {"http_error", "ua_interrupted"}
        noValid == ValidTrackers(r) = {}
    IN <<Rule(said \cap transient # {}, "retry",
              IF r.verdict # "none" THEN r.verdict ELSE r.ua),
         Rule(r.noMatch, "error", "arr_no_matching_media"),
         Rule("mediainfo_unavailable" \in said, "error", "mediainfo_unavailable"),
         Rule("no_video_files" \in said, "error", "no_video_files"),
         Rule("error" \in said, "error", "ua_error"),
         Rule("hard" \in r.flags, "blocked", "hard"),
         Rule(AllBanned(r), "blocked", "banned_release_group"),
         Rule(r.status = "manual_review" /\ r.verdict = "pre_release",
              "manual_review", "pre_release"),
         Rule(noValid /\ AllModerated(r), "skipped", "moderation_queue_no_targets"),
         Rule(noValid /\ OthersDupe(r),
              "skipped", IF r.verdict = "exact_match" THEN r.verdict ELSE "dupe"),
         Rule(noValid /\ OthersSkipped(r), "skipped", "tracker_conditions_skipped"),
         Rule(noValid /\ r.verdict = "no_tracker_passed", "skipped", "no_uploadable_trackers"),
         Rule(noValid /\ NotUpgrade(r), "skipped", "not_upgrade"),
         Rule(noValid /\ r.policy.on /\ r.policy.candidates = {},
              "skipped", "no_remaining_valid_targets"),
         Rule("srrdb_filename_mismatch" \in r.flags, "manual_review", "srrdb_filename_mismatch"),
         Rule("media" \in r.flags, "manual_review", "media"),
         Rule("missing_release_group" \in r.flags, "manual_review", "missing_release_group"),
         Rule(r.renamed, "manual_review", "renamed_release_warning"),
         Rule(~noValid, "candidate", "candidate"),
         Rule(TRUE, "skipped", "no_uploadable_trackers")>>

\* Mutant: a valid tracker is looked for before the evidence.
EvaluateEagerly(r) ==
    LET rules == <<Rule(ValidTrackers(r) # {}, "candidate", "candidate")>> \o Rules(r)
        first == rules[CHOOSE i \in DOMAIN rules :
                          rules[i].holds /\ \A j \in 1..(i - 1) : ~rules[j].holds]
    IN [r EXCEPT !.status = first.status, !.verdict = first.verdict, !.decision = first.status]

\* The row as the first rule that holds decides it.
Evaluate(r) ==
    LET rules == Rules(r)
        first == rules[CHOOSE i \in DOMAIN rules :
                          rules[i].holds /\ \A j \in 1..(i - 1) : ~rules[j].holds]
    IN [r EXCEPT !.status = first.status, !.verdict = first.verdict, !.decision = first.status]

-----------------------------------------------------------------------------

\* Mutant: only the stored policy is looked at.
EffectiveTrackersStored(r, eff, p) ==
    IF r.policy.on /\ (r.policy.candidates # {} \/ eff # "manual_review")
    THEN r.policy.candidates
    ELSE ArrCandidates(r.arr) \ (r.policy.blocked \cup r.policy.queue)

\* effective_upload_trackers, for an item whose decision counts as eff.
EffectiveTrackers(r, eff, p) ==
    LET candidates ==
            IF r.policy.on /\ (r.policy.candidates # {} \/ eff # "manual_review")
            THEN r.policy.candidates
            ELSE IF ArrCandidates(r.arr) # {} THEN ArrCandidates(r.arr)
            ELSE IF r.status = "candidate" THEN r.passed ELSE {}
    IN candidates \ (r.policy.blocked \cup r.policy.queue \cup p.queue)

\* _effective_status: a decision of the rules counts, except for a rejected item.
EffectiveStatus(r) ==
    IF r.status # "rejected" /\ r.decision \in Replayed \cup {"retry", "error"}
    THEN r.decision ELSE r.status

CanUpload(r) == EffectiveStatus(r) \in {"candidate", "manual_review"}

-----------------------------------------------------------------------------

\* check_item loads the configuration, and its first stage clears what the last
\* check left.  What happens to the row between the two ends with the second.
CheckStarts ==
    /\ ~job.on
    /\ row.status \in {"queued", "retry"}
    /\ job' = [on |-> TRUE, policies |-> policies]
    /\ row' = Cleared("checking")
    /\ stale' = FALSE
    /\ UNCHANGED <<policies, pending>>

\* What Arr says of the trackers that passed: an answer for each of them, or
\* one failure for all of them.
ArrAnswers(passed) ==
    {[arr |-> [t \in Trackers |-> IF t \in passed THEN f[t] ELSE "none"], why |-> "none"] :
        f \in [passed -> {"candidate", "blocked", "manual_review"}]}
    \cup {[arr |-> [t \in Trackers |-> IF t \in passed THEN "manual_review" ELSE "none"],
           why |-> why] : why \in {"pre_release", "no_match"}}

\* _run_arr_and_policy_stage for an item that trackers passed: the status and
\* the verdict its stages come to, in their order, and the evidence they keep.
AfterPolicy(r, why, p, mismatch) ==
    LET policy == ApplyPolicy(r.arr, r.known, p)
        open == policy.status = "candidate"
        srrdb == open /\ "hard" \notin r.flags /\ mismatch
        outcome ==
            IF open /\ "hard" \in r.flags THEN <<"blocked", "hard">>
            ELSE IF srrdb THEN <<"manual_review", "srrdb_filename_mismatch">>
            ELSE IF open /\ "media" \in r.flags THEN <<"manual_review", "media">>
            ELSE IF open /\ r.renamed THEN <<"manual_review", "renamed_release_warning">>
            ELSE IF policy.verdict = "manual_review" /\ why = "pre_release"
            THEN <<"manual_review", "pre_release">>
            ELSE <<policy.status, policy.verdict>>
    IN [r EXCEPT !.status = outcome[1], !.verdict = outcome[2],
                 !.policy = policy.policy,
                 !.flags = @ \cup policy.flags
                             \cup (IF srrdb THEN {"srrdb_filename_mismatch"} ELSE {})]

\* The evidence a check may find, before Arr is asked: evidence that no stage
\* reads is left at its default.
FoundRow(passed, others, flags, mark) ==
    [Cleared("checking") EXCEPT
        !.passed = passed, !.others = others, !.flags = flags,
        !.ua = Reduce(passed, others, mark), !.verdict = Reduce(passed, others, mark),
        !.status = ReducedStatus(Reduce(passed, others, mark))]

Found ==
    {FoundRow(passed, others, flags, mark) :
        passed \in SUBSET Trackers, others \in {"none", "dupe", "skipped"},
        flags \in SUBSET MediaFlags, mark \in Marks}

\* What a check may find out: the row with its evidence, why Arr failed, and
\* whether srrDB's archived name differs.
Unasked(found) == [row |-> found, why |-> "none", mismatch |-> FALSE]

Asked(found, answer, known, renamed, mismatch) ==
    [row |-> [found EXCEPT !.arr = answer.arr, !.noMatch = answer.why = "no_match",
                           !.known = known, !.renamed = renamed],
     why |-> answer.why, mismatch |-> mismatch]

Evidence ==
    {Unasked(found) : found \in {f \in Found : f.passed = {}}}
    \cup UNION {{Asked(found, answer, known, renamed, mismatch) :
                    answer \in ArrAnswers(found.passed),
                    known \in BOOLEAN, renamed \in BOOLEAN, mismatch \in BOOLEAN} :
                found \in {f \in Found : f.passed # {}}}

\* How much of it speaks against the item.
Findings(e) ==
    LET One(b) == IF b THEN 1 ELSE 0
    IN Cardinality(e.row.flags) + One(e.row.others # "none") + One(~e.row.known)
           + One(e.row.renamed) + One(e.mismatch)

\* The rows that the evidence leads to under the policies a check has loaded.
Outcomes == [p \in Policies |->
    {Evaluate(IF e.row.passed = {} THEN e.row ELSE AfterPolicy(e.row, e.why, p, e.mismatch)) :
        e \in {f \in Evidence : Findings(f) <= MaxFindings}}]

\* The log of Upload Assistant's site check has come: the stages that follow
\* it, and an import queued at once for a candidate when auto-upload is on.
CheckEnds ==
    /\ job.on /\ job' = NoJob
    /\ row' \in Outcomes[job.policies]
    /\ \/ UNCHANGED pending
       \/ row'.status = "candidate" /\ pending = {}
          /\ pending' = EffectiveTrackers(row', "candidate", policies)
    /\ stale' = (job.policies # policies)
    /\ UNCHANGED policies

\* The check ends before there is a log: without MediaInfo or a mapped path in
\* an error, without an answer of Upload Assistant in a retry.
CheckFails ==
    /\ job.on /\ job' = NoJob
    /\ \E flags \in SUBSET MediaFlags :
       \E r \in {[Cleared("error") EXCEPT !.verdict = "mediainfo_unavailable", !.flags = flags],
                 [Cleared("retry") EXCEPT !.verdict = "http_error", !.ua = "http_error",
                                          !.flags = flags]} :
            row' = Evaluate(r)
    /\ stale' = FALSE
    /\ UNCHANGED <<policies, pending>>

-----------------------------------------------------------------------------

\* requeue.
Recheck ==
    /\ row' = Cleared("queued")
    /\ stale' = FALSE
    /\ UNCHANGED <<job, policies, pending>>

\* The user sets the item aside: the evidence and the decision stay.
Ignore ==
    /\ row' = [row EXCEPT !.status = "ignored"]
    /\ UNCHANGED <<job, policies, pending, stale>>

Reject ==
    /\ row' = [row EXCEPT !.status = "rejected", !.verdict = "moderation_rejected"]
    /\ UNCHANGED <<job, policies, pending, stale>>

-----------------------------------------------------------------------------

\* _missing_inventory_check_results: the evidence stays, the decision does not.
MissingResults(r) == [r EXCEPT !.decision = "skipped"]

\* mark_missing_from_inventory: the torrent is not in the client any more.
MarkMissing(r) ==
    IF r.status \in {"ignored", "rejected"} THEN r
    ELSE [MissingResults(r) EXCEPT !.status = "skipped", !.verdict = "torrent_missing"]

\* requeue_covered_with_missing_coverage: a tracker that covered the item is
\* not among those present.  The trackers that passed or did not are lost; of
\* Arr's decisions, of which none is a candidate's, the rules find the copy in
\* check_results.
RequeueCovered(r, present) ==
    IF r.status # "covered" \/ r.resolved \subseteq present THEN r
    ELSE [r EXCEPT !.status = "queued", !.verdict = "none", !.passed = {}, !.others = "none"]

\* _candidate_trackers_for_resolution.
ForResolution(r) == IF ArrCandidates(r.arr) # {} THEN ArrCandidates(r.arr) ELSE r.passed

\* Mutant: what the rules have decided is left as it is.
ResolveUndecided(r, present) ==
    IF /\ r.status \in CoverageResolution
       /\ ForResolution(r) # {} /\ ForResolution(r) \subseteq present
    THEN [r EXCEPT !.status = "covered", !.verdict = "covered", !.resolved = ForResolution(r)]
    ELSE r

\* resolve_covered_candidates: every tracker the item could go to is present.
\* The tracker policies' results stay as they were.
Resolve(r, present) ==
    LET found == ForResolution(r)
    IN IF r.status \in CoverageResolution /\ found # {} /\ found \subseteq present
       THEN [r EXCEPT !.status = "covered", !.verdict = "covered", !.decision = "covered",
                      !.ua = "covered", !.passed = @ \ found,
                      !.arr = [t \in Trackers |-> IF r.arr[t] = "candidate" THEN "covered"
                                                  ELSE r.arr[t]],
                      !.noMatch = FALSE, !.resolved = found]
       ELSE r

\* The end of a poll, which finds some trackers present in the item's group;
\* one that has seen the whole inventory looks for what is gone first.
PollEnds ==
    /\ \E present \in SUBSET Trackers :
          \/ row' = Resolve(row, present)
          \/ \E found \in {row, MarkMissing(row)} :
                row' = Resolve(RequeueCovered(found, present), present)
    /\ UNCHANGED <<job, policies, pending, stale>>

-----------------------------------------------------------------------------

\* reevaluate_stored_decisions with apply, asked for on the rules page.
Replay ==
    /\ row.status \in Replayed
    /\ row' = Evaluate(row)
    /\ UNCHANGED <<job, policies, pending, stale>>

\* Skipped because moderation queues left it without a tracker.
Moderated(r) == r.status = "skipped" /\ r.verdict = "moderation_queue_no_targets"

\* Mutant: the policies meet what the last time left of Arr's decisions.
RestoredNot(r) == r

\* The trackers of its moderation queues count as Arr's candidates again.
Restored(r) ==
    [r EXCEPT !.passed = @ \cup r.policy.queue,
              !.arr = [t \in Trackers |-> IF t \in r.policy.queue THEN "candidate" ELSE "none"]]

\* _policy_tracker_results: the trackers left are those that passed.
PolicyPassed(r, policy) ==
    IF policy.candidates \cup policy.blocked \cup policy.queue # {} THEN policy.candidates
    ELSE r.passed

\* _policy_arr_results: the policy's word on a tracker counts from now on.
PolicyArr(r, policy) ==
    [t \in Trackers |->
        CASE t \in policy.queue -> "skipped"
          [] t \in policy.blocked -> "blocked"
          [] OTHER -> r.arr[t]]

\* _policy_effect_changed, for a row that policies were applied to as asked.
PolicyEffectChanged(r, asked, new) ==
    \/ <<r.status, r.verdict, r.policy>> # <<new.status, new.verdict, new.policy>>
    \/ asked.passed # PolicyPassed(asked, new.policy)

\* Mutant: policies are saved for later checks only.
ReappliedNever(r, p) == r

\* reapply_release_group_policy, for a candidate or such an item.
Reapplied(r, p) ==
    LET asked == IF Moderated(r) THEN Restored(r) ELSE r
        new == ApplyPolicy(asked.arr, r.known, p)
    IN IF /\ r.status = "candidate" \/ Moderated(r)
          /\ new.status \in {"candidate", "blocked", "skipped"}
          /\ PolicyEffectChanged(r, asked, new)
       THEN Evaluate([asked EXCEPT !.status = new.status, !.verdict = new.verdict,
                                   !.policy = new.policy,
                                   !.passed = PolicyPassed(asked, new.policy),
                                   !.arr = PolicyArr(asked, new.policy)])
       ELSE r

\* A candidate of which Arr has none any more: it was covered, then missing,
\* then replayed with what the policies had said before.
BroughtBack(r) == r.status = "candidate" /\ ArrCandidates(r.arr) = {}

\* The tracker policies are saved and applied to what is stored.
SavePolicies ==
    /\ policies' \in Policies
    /\ row' = Reapplied(row, policies')
    /\ stale' = IF row.status = "candidate" /\ ~BroughtBack(row) THEN FALSE
                ELSE stale \/ policies' # policies
    /\ UNCHANGED <<job, pending>>

-----------------------------------------------------------------------------

\* restrict_upload_tracker_args: what is left of the trackers that the arguments
\* ask for, by their last list; all of those allowed without a list.
Restricted(lists, allowed) == IF lists = <<>> THEN allowed ELSE Last(lists) \cap allowed

\* An import is queued with the arguments of the item's page or the request's,
\* unless they leave no tracker.
QueueUpload ==
    /\ pending = {} /\ CanUpload(row)
    /\ \E lists \in SeqOf(SUBSET Trackers, 1) :
          pending' = Restricted(lists, EffectiveTrackers(row, EffectiveStatus(row), policies))
    /\ pending' # {}
    /\ UNCHANGED <<row, job, policies, stale>>

\* The queued import is run, or fails when none of its trackers is allowed.
RunImport ==
    /\ pending # {} /\ pending' = {}
    /\ UNCHANGED <<row, job, policies, stale>>

\* The trackers an upload started now goes to: any that the item's page offers
\* an item, and those of a queued import that are still allowed, for which the
\* item's status alone is looked at.
Uploadable ==
    (IF CanUpload(row) THEN EffectiveTrackers(row, EffectiveStatus(row), policies) ELSE {})
    \cup Restricted(<<pending>>, EffectiveTrackers(row, row.status, policies))

Next ==
    \/ CheckStarts \/ CheckEnds \/ CheckFails
    \/ Recheck \/ Ignore \/ Reject \/ PollEnds \/ Replay \/ SavePolicies
    \/ QueueUpload \/ RunImport

Spec == Init /\ [][Next]_vars

-----------------------------------------------------------------------------

(***************************************************************************)
(* A candidate has nothing against it: no evidence that asks for a block or*)
(* a review, whichever way it became one - a check, a replay, or policies  *)
(* applied again.  Its trackers are candidates of Arr that UA passed, or   *)
(* those that were until a poll found every one of them present: after the *)
(* item's torrent went missing a replay makes it a candidate on them again.*)
(***************************************************************************)
CandidateIsSound ==
    row.status = "candidate" =>
        /\ row.flags = {} /\ ~row.renamed /\ ~row.noMatch
        /\ ValidTrackers(row) # {}
        /\ \/ ValidTrackers(row) \subseteq ArrCandidates(row.arr) \cap row.passed
           \/ BroughtBack(row) /\ ValidTrackers(row) \subseteq Covered(row.arr)

(***************************************************************************)
(* A candidate decided or reconsidered under the policies now in force has *)
(* no tracker that bans its group or would queue it for moderation, however*)
(* often they were saved before.  Saved policies do not reconsider one that*)
(* was brought back after it was covered: it stays stale.                  *)
(***************************************************************************)
CandidateFollowsPolicy ==
    row.status = "candidate" /\ ~stale =>
        row.policy.candidates \cap (policies.banned \cup policies.queue) = {}

(***************************************************************************)
(* No upload starts to a tracker that Arr never called a candidate, that   *)
(* now queues episodes for moderation or, for a candidate that is not      *)
(* stale, that now bans its group, however old the import is that asks.  To*)
(* trackers that a poll found to have the release already there are just   *)
(* two ways: an import that waited when the item was covered, and an item  *)
(* that lost its torrent afterwards.                                       *)
(***************************************************************************)
UploadIsAllowed ==
    /\ Uploadable \subseteq (ArrCandidates(row.arr) \cup Covered(row.arr)) \ policies.queue
    /\ row.status = "candidate" /\ ~stale => Uploadable \cap policies.banned = {}
    /\ row.status = "covered" => Uploadable \subseteq pending

(***************************************************************************)
(* When the policies are saved with some queue lifted that an item of a    *)
(* known group was skipped for, its candidates are the trackers that were  *)
(* lifted and do not ban the group, and it is decided by what else is known*)
(* of it: no evidence was lost while it waited, however often the policies *)
(* were saved meanwhile.                                                   *)
(***************************************************************************)
ModeratedIsRestored ==
    [][SavePolicies /\ Moderated(row) /\ row.known =>
          LET lifted == row.policy.queue \ policies'.queue
              allowed == lifted \ policies'.banned
          IN lifted # {} =>
                /\ row'.policy.candidates = allowed
                /\ row'.status = IF allowed = {} THEN "blocked"
                                 ELSE IF row.flags = {} /\ ~row.renamed THEN "candidate"
                                 ELSE "manual_review"]_vars
=============================================================================
