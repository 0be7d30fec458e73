-------------------------- MODULE Decisions_proofs --------------------------
(***************************************************************************)
(* For any set of trackers and any evidence: what a candidate is, and what *)
(* an upload may be started to, however the item came there - by a check,  *)
(* by a replay of its stored evidence, by policies applied once more or    *)
(* after a poll that found it covered.                                     *)
(***************************************************************************)
EXTENDS Decisions, Integers, TLAPS

\* What the rules rely on when they meet a row, stored or made by a check:
\* policies and Arr have spoken of the item together or not at all, their
\* candidates passed Upload Assistant and are Arr's, or were until a poll
\* covered them all, as it has those of a covered item; and a review without
\* candidates is one for want of a release group or of Arr's candidates.
RowOK(r) ==
    /\ r \in Rows
    /\ ~r.policy.on => /\ r.policy = NoPolicy /\ r.passed = {} /\ r.arr = NoArr
                       /\ r.status # "candidate"
    /\ \/ r.policy.candidates \subseteq ArrCandidates(r.arr) \cap r.passed
       \/ r.policy.candidates \subseteq Covered(r.arr) /\ ArrCandidates(r.arr) = {}
    /\ r.status = "covered" =>
           /\ r.decision = "covered"
           /\ r.policy.candidates \subseteq Covered(r.arr) /\ ArrCandidates(r.arr) = {}
    /\ ~r.known => r.policy.candidates = {}
    /\ r.status = "manual_review" /\ r.policy.candidates = {} =>
           "missing_release_group" \in r.flags \/ ArrCandidates(r.arr) = {}

\* What the rules that come before the moderation queues found nothing of.
Spared(r) ==
    /\ r.ua \notin {"http_error", "ua_interrupted", "mediainfo_unavailable",
                    "no_video_files", "error"}
    /\ ~r.noMatch /\ "hard" \notin r.flags

\* A candidate has passed every rule; an item left to moderation has passed
\* those before that one, and its policies left it nothing else.
Sound(r) ==
    /\ r.status = "candidate" =>
          /\ r.flags = {} /\ ~r.renamed /\ ~r.noMatch
          /\ ValidTrackers(r) # {}
          /\ \/ ValidTrackers(r) \subseteq ArrCandidates(r.arr) \cap r.passed
             \/ BroughtBack(r) /\ ValidTrackers(r) \subseteq Covered(r.arr)
    /\ Moderated(r) => Spared(r) /\ r.policy.queue # {}

\* The policies of a row are p: it has no candidate that p rules out.
Follows(r, p) == r.policy.candidates \cap (p.banned \cup p.queue) = {}

IInv ==
    /\ RowOK(row) /\ Sound(row)
    /\ job.policies \in Policies
    /\ policies \in Policies
    /\ ~stale => Follows(row, policies)

-----------------------------------------------------------------------------

\* A row that is given another status, with its verdict and decision.
Given(r, status, verdict, decision) ==
    [r EXCEPT !.status = status, !.verdict = verdict, !.decision = decision]

\* One of the rules is the first that holds, and decides.
LEMMA FirstRule ==
  ASSUME NEW r
  PROVE  \E i \in 1..20 :
            /\ Rules(r)[i].holds
            /\ \A j \in 1..(i - 1) : ~Rules(r)[j].holds
            /\ Evaluate(r) = Given(r, Rules(r)[i].status, Rules(r)[i].verdict,
                                   Rules(r)[i].status)
<1> DEFINE rules == Rules(r)
           First(i) == rules[i].holds /\ \A j \in 1..(i - 1) : ~rules[j].holds
<1>1. DOMAIN rules = 1..20 /\ rules[20].holds
  BY DEF Rules, Rule
<1> HIDE DEF rules
<1>2. \E i \in 1..20 : First(i)
  <2> DEFINE h == [i \in 1..20 |-> rules[i].holds]
  <2>1. QED
    BY <1>1
<1> DEFINE c == CHOOSE i \in DOMAIN rules : First(i)
<1>3. c \in 1..20 /\ First(c)
  BY <1>1, <1>2
<1>4. Evaluate(r) = Given(r, rules[c].status, rules[c].verdict, rules[c].status)
  BY DEF Evaluate, Given, rules
<1>5. QED
  BY <1>3, <1>4 DEF rules
\* A rule says what the row says, or a verdict of its own.
LEMMA RuleVerdicts ==
  ASSUME NEW r, NEW i \in 1..20
  PROVE  Rules(r)[i].verdict \in {r.verdict, r.ua} \/ Rules(r)[i].verdict \in Verdicts
<1>1. /\ Rules(r)[1].verdict \in {r.verdict, r.ua}
      /\ Rules(r)[2].verdict = "arr_no_matching_media"
      /\ Rules(r)[3].verdict = "mediainfo_unavailable"
      /\ Rules(r)[4].verdict = "no_video_files"
  BY DEF Rules, Rule
<1>2. /\ Rules(r)[5].verdict = "ua_error"
      /\ Rules(r)[6].verdict = "hard"
      /\ Rules(r)[7].verdict = "banned_release_group"
      /\ Rules(r)[8].verdict = "pre_release"
  BY DEF Rules, Rule
<1>3. /\ Rules(r)[9].verdict = "moderation_queue_no_targets"
      /\ Rules(r)[10].verdict \in {r.verdict, "dupe"}
      /\ Rules(r)[11].verdict = "tracker_conditions_skipped"
      /\ Rules(r)[12].verdict = "no_uploadable_trackers"
  BY DEF Rules, Rule
<1>4. /\ Rules(r)[13].verdict = "not_upgrade"
      /\ Rules(r)[14].verdict = "no_remaining_valid_targets"
      /\ Rules(r)[15].verdict = "srrdb_filename_mismatch"
      /\ Rules(r)[16].verdict = "media"
  BY DEF Rules, Rule
<1>5. /\ Rules(r)[17].verdict = "missing_release_group"
      /\ Rules(r)[18].verdict = "renamed_release_warning"
      /\ Rules(r)[19].verdict = "candidate"
      /\ Rules(r)[20].verdict = "no_uploadable_trackers"
  BY DEF Rules, Rule
<1>6. {"arr_no_matching_media", "mediainfo_unavailable", "no_video_files", "ua_error",
       "hard", "banned_release_group", "pre_release", "moderation_queue_no_targets",
       "dupe", "tracker_conditions_skipped", "no_uploadable_trackers", "not_upgrade",
       "no_remaining_valid_targets", "srrdb_filename_mismatch", "media",
       "missing_release_group", "renamed_release_warning", "candidate"} \subseteq Verdicts
  BY DEF Verdicts, Marks, Flags, MediaFlags
<1>7. QED
  <2>1. CASE i \in 1..10
    BY <1>1, <1>2, <1>3, <1>6, <2>1
  <2>2. CASE i \in 11..20
    BY <1>3, <1>4, <1>5, <1>6, <2>2
  <2>3. QED
    BY <2>1, <2>2

\* What the first rule that holds says of a row.
LEMMA Ruling ==
  ASSUME NEW r \in Rows
  PROVE  \E status \in Replayed \cup {"retry", "error"}, verdict \in Verdicts :
            /\ Evaluate(r) = Given(r, status, verdict, status)
            /\ status = "candidate" =>
                  /\ r.flags \cap Flags = {} /\ ~r.renamed /\ ~r.noMatch
                  /\ ValidTrackers(r) # {}
            /\ status = "manual_review" /\ r.status # "manual_review" =>
                  \/ ValidTrackers(r) # {}
                  \/ ~(r.policy.on /\ r.policy.candidates = {})
            /\ status = "skipped" /\ verdict = "moderation_queue_no_targets" =>
                  Spared(r) /\ r.policy.queue # {}
<1>1. PICK i \in 1..20 :
            /\ Rules(r)[i].holds
            /\ \A j \in 1..(i - 1) : ~Rules(r)[j].holds
            /\ Evaluate(r) = Given(r, Rules(r)[i].status, Rules(r)[i].verdict,
                                   Rules(r)[i].status)
  BY FirstRule
<1> DEFINE status == Rules(r)[i].status
           verdict == Rules(r)[i].verdict
<1>2. status \in Replayed \cup {"retry", "error"}
  BY DEF Rules, Rule, Replayed
<1>3. verdict \in Verdicts
  <2>1. r.verdict \in Verdicts /\ r.ua \in Verdicts
    BY DEF Rows
  <2>2. QED
    BY <2>1, RuleVerdicts
<1>4. status = "candidate" => i = 19
  BY DEF Rules, Rule
<1>5. status = "manual_review" => i \in {8} \cup 15..18
  BY DEF Rules, Rule
<1>6. status = "skipped" /\ verdict = "moderation_queue_no_targets" => i = 9
  BY DEF Rules, Rule
<1>7. i = 19 => /\ r.flags \cap Flags = {} /\ ~r.renamed /\ ~r.noMatch
                /\ ValidTrackers(r) # {}
  BY <1>1 DEF Rules, Rule, Flags, MediaFlags
<1>8. i = 8 => r.status = "manual_review"
  BY <1>1 DEF Rules, Rule
<1>9. i \in 15..18 => \/ ValidTrackers(r) # {}
                      \/ ~(r.policy.on /\ r.policy.candidates = {})
  <2>1. i \in 15..18 => ~Rules(r)[14].holds
    BY <1>1
  <2>2. Rules(r)[14].holds = ((ValidTrackers(r) = {} /\ r.policy.on)
                                 /\ r.policy.candidates = {})
    BY DEF Rules, Rule
  <2>3. QED
    BY <2>1, <2>2
<1>10. i = 9 => Spared(r) /\ r.policy.queue # {}
  <2>1. i = 9 => Rules(r)[9].holds
    BY <1>1
  <2>2. Rules(r)[9].holds = (ValidTrackers(r) = {} /\ AllModerated(r))
    BY DEF Rules, Rule
  <2>3. i = 9 => /\ ~Rules(r)[1].holds /\ ~Rules(r)[2].holds /\ ~Rules(r)[3].holds
                 /\ ~Rules(r)[4].holds /\ ~Rules(r)[5].holds /\ ~Rules(r)[6].holds
    BY <1>1
  <2>4. /\ Rules(r)[1].holds = ({r.verdict, r.ua} \cap {"http_error", "ua_interrupted"} # {})
        /\ Rules(r)[2].holds = r.noMatch
        /\ Rules(r)[3].holds = ("mediainfo_unavailable" \in {r.verdict, r.ua})
        /\ Rules(r)[4].holds = ("no_video_files" \in {r.verdict, r.ua})
        /\ Rules(r)[5].holds = ("error" \in {r.verdict, r.ua})
        /\ Rules(r)[6].holds = ("hard" \in r.flags)
    BY DEF Rules, Rule
  <2>5. i = 9 => Spared(r)
    BY <2>3, <2>4 DEF Spared
  <2>6. QED
    BY <2>1, <2>2, <2>5 DEF AllModerated
<1>11. Evaluate(r) = Given(r, status, verdict, status)
  BY <1>1
<1> HIDE DEF status, verdict
<1>12. status = "manual_review" /\ r.status # "manual_review" =>
          \/ ValidTrackers(r) # {}
          \/ ~(r.policy.on /\ r.policy.candidates = {})
  BY <1>5, <1>8, <1>9
<1>13. QED
  BY <1>2, <1>3, <1>4, <1>6, <1>7, <1>10, <1>11, <1>12


\* Two rows with the same evidence.
SameEvidence(r, s) ==
    /\ s.ua = r.ua /\ s.passed = r.passed /\ s.others = r.others /\ s.arr = r.arr
    /\ s.noMatch = r.noMatch /\ s.policy = r.policy /\ s.resolved = r.resolved
    /\ s.flags = r.flags /\ s.known = r.known /\ s.renamed = r.renamed

LEMMA NoArrHasNoCandidate == ArrCandidates(NoArr) = {}
BY DEF ArrCandidates, NoArr

\* The rules find no valid tracker if policies have left none, unless the item
\* is one to review, nor in a row without policies.
LEMMA WithoutCandidates ==
  ASSUME NEW r, RowOK(r), r.policy.candidates = {}, ValidTrackers(r) # {}
  PROVE  r.policy.on /\ r.status = "manual_review" /\ "missing_release_group" \in r.flags
<1>1. r.policy.on
  BY DEF RowOK, ValidTrackers
<1>2. r.status = "manual_review"
  BY <1>1 DEF ValidTrackers
<1>3. ArrCandidates(r.arr) # {}
  BY <1>2 DEF ValidTrackers
<1>4. QED
  BY <1>1, <1>2, <1>3 DEF RowOK

\* A status leaves the evidence alone.
LEMMA GivenRow ==
  ASSUME NEW r \in Rows, NEW status \in Statuses, NEW verdict \in Verdicts,
         NEW decision \in Statuses \cup {"none"}
  PROVE  LET s == Given(r, status, verdict, decision)
         IN s \in Rows /\ SameEvidence(r, s) /\ s.status = status /\ s.verdict = verdict
<1> DEFINE s == Given(r, status, verdict, decision)
<1>1. s = [r EXCEPT !.status = status, !.verdict = verdict, !.decision = decision]
  BY DEF Given
<1> HIDE DEF s
<1>2. s \in Rows
  BY <1>1 DEF Rows
<1>3. SameEvidence(r, s) /\ s.status = status /\ s.verdict = verdict
  BY <1>1 DEF Rows, SameEvidence
<1>4. QED
  BY <1>2, <1>3 DEF s

\* The rules keep a row in order, and make a sound one of it.
LEMMA EvaluateKeeps ==
  ASSUME NEW r, RowOK(r)
  PROVE  /\ RowOK(Evaluate(r)) /\ Sound(Evaluate(r))
         /\ SameEvidence(r, Evaluate(r))
<1>1. r \in Rows
  BY DEF RowOK
<1>2. PICK status \in Replayed \cup {"retry", "error"}, verdict \in Verdicts :
            /\ Evaluate(r) = Given(r, status, verdict, status)
            /\ status = "candidate" =>
                  /\ r.flags \cap Flags = {} /\ ~r.renamed /\ ~r.noMatch
                  /\ ValidTrackers(r) # {}
            /\ status = "manual_review" /\ r.status # "manual_review" =>
                  \/ ValidTrackers(r) # {}
                  \/ ~(r.policy.on /\ r.policy.candidates = {})
            /\ status = "skipped" /\ verdict = "moderation_queue_no_targets" =>
                  Spared(r) /\ r.policy.queue # {}
  BY <1>1, Ruling
<1> DEFINE e == Evaluate(r)
<1>3. /\ e \in Rows /\ SameEvidence(r, e)
      /\ e.status = status /\ e.verdict = verdict
  <2>1. status \in Statuses
    BY DEF Statuses
  <2>2. QED
    BY <1>1, <1>2, <2>1, GivenRow
<1> HIDE DEF e
<1>4. r.flags \subseteq Flags
  BY <1>1 DEF Rows
<1>5. status = "candidate" => r.flags = {} /\ r.policy.candidates # {}
  BY <1>2, <1>4, WithoutCandidates
<1>6. r.policy.candidates # {} => r.policy.on
  BY DEF RowOK, NoPolicy
<1>7. status = "manual_review" /\ r.policy.candidates = {} =>
         "missing_release_group" \in r.flags \/ ArrCandidates(r.arr) = {}
  BY <1>2, WithoutCandidates, NoArrHasNoCandidate DEF RowOK
<1>8. RowOK(e)
  <2>1. e.status # "covered"
    BY <1>3 DEF Replayed
  <2>2. QED
    BY <1>3, <1>5, <1>6, <1>7, <2>1 DEF RowOK, SameEvidence
<1>9. Sound(e)
  <2>1. ASSUME status = "candidate"
        PROVE  /\ e.flags = {} /\ ~e.renamed /\ ~e.noMatch
               /\ ValidTrackers(e) # {}
               /\ \/ ValidTrackers(e) \subseteq ArrCandidates(e.arr) \cap e.passed
                  \/ BroughtBack(e) /\ ValidTrackers(e) \subseteq Covered(e.arr)
    <3>1. ValidTrackers(e) = r.policy.candidates
      BY <1>3, <1>5, <1>6, <2>1 DEF ValidTrackers, SameEvidence
    <3>2. e.flags = {} /\ ~e.renamed /\ ~e.noMatch
      BY <1>2, <1>3, <1>5, <2>1 DEF SameEvidence
    <3>3. QED
      BY <1>3, <1>5, <2>1, <3>1, <3>2 DEF RowOK, SameEvidence, BroughtBack
  <2>2. Moderated(e) => Spared(e) /\ e.policy.queue # {}
    BY <1>2, <1>3 DEF Moderated, Spared, SameEvidence
  <2>3. QED
    BY <1>3, <2>1, <2>2 DEF Sound
<1>10. QED
  BY <1>2, <1>3, <1>8, <1>9 DEF e


-----------------------------------------------------------------------------

\* What policies make of Arr's candidates: those that queue episodes and, for a
\* known group, those that ban it are taken out; without a known group none of
\* the rest is a candidate.
LEMMA PolicyApplied ==
  ASSUME NEW arr \in [Trackers -> ArrDecisions], NEW known \in BOOLEAN, NEW p \in Policies
  PROVE  LET new == ApplyPolicy(arr, known, p)
             valid == ArrCandidates(arr)
         IN /\ new.policy \in PolicyResults /\ new.policy.on
            /\ new.flags \subseteq Flags
            /\ new.policy.candidates \subseteq valid /\ Follows(new, p)
            /\ new.policy.queue = valid \cap p.queue
            /\ new.policy.candidates \cap (new.policy.blocked \cup new.policy.queue) = {}
            /\ ~known => new.policy.candidates = {} /\ new.policy.blocked = {}
            /\ known => valid = new.policy.candidates \cup new.policy.blocked
                                    \cup new.policy.queue
            /\ ~known /\ ~(valid \subseteq p.queue) => "missing_release_group" \in new.flags
<1> DEFINE new == ApplyPolicy(arr, known, p)
           valid == ArrCandidates(arr)
           queue == valid \cap p.queue
           rest == valid \ queue
           blocked == IF known THEN rest \cap p.banned ELSE {}
           allowed == IF known THEN rest \ blocked ELSE {}
<1>1. /\ new.policy = [on |-> TRUE, candidates |-> allowed, blocked |-> blocked, queue |-> queue]
      /\ new.flags = IF rest # {} /\ ~known THEN {"missing_release_group"} ELSE {}
  BY DEF ApplyPolicy
<1>2. valid \subseteq Trackers
  BY DEF ArrCandidates
<1>3. p.banned \subseteq Trackers /\ p.queue \subseteq Trackers
  BY DEF Policies
<1> HIDE DEF new, valid
<1>4. new.policy \in PolicyResults
  BY <1>1, <1>2, <1>3 DEF PolicyResults
<1>5. new.flags \subseteq Flags
  BY <1>1 DEF Flags
<1>6. QED
  BY <1>1, <1>4, <1>5 DEF new, valid, Follows

\* The status and the verdict that go with it.
LEMMA PolicySays ==
  ASSUME NEW arr \in [Trackers -> ArrDecisions], NEW known \in BOOLEAN, NEW p \in Policies
  PROVE  LET new == ApplyPolicy(arr, known, p)
             valid == ArrCandidates(arr)
         IN /\ new.status \in Replayed \cup {"covered"} /\ new.verdict \in Verdicts
            /\ new.status = "candidate" => new.policy.candidates # {}
            /\ new.status = "covered" => valid = {} /\ Covered(arr) # {}
            /\ Covered(arr) # {} /\ valid = {} => new.status = "covered"
            /\ new.verdict = "manual_review" => new.status = "manual_review"
            /\ new.status = "manual_review" =>
                  \/ valid = {} /\ \E t \in Trackers : arr[t] = "manual_review"
                  \/ ~known /\ ~(valid \subseteq p.queue)
            /\ new.verdict = "moderation_queue_no_targets" => valid # {} /\ valid \subseteq p.queue
<1> DEFINE new == ApplyPolicy(arr, known, p)
           valid == ArrCandidates(arr)
           queue == valid \cap p.queue
           rest == valid \ queue
           blocked == IF known THEN rest \cap p.banned ELSE {}
           allowed == IF known THEN rest \ blocked ELSE {}
<1>1. CASE valid # {} /\ rest = {}
  <2>1. new.status = "skipped" /\ new.verdict = "moderation_queue_no_targets"
    BY <1>1 DEF ApplyPolicy
  <2>2. QED
    BY <1>1, <2>1 DEF Replayed, Verdicts
<1>2. CASE rest # {} /\ ~known
  <2>1. new.status = "manual_review" /\ new.verdict = "manual_review"
    BY <1>2 DEF ApplyPolicy
  <2>2. QED
    BY <1>2, <2>1 DEF Replayed, Verdicts
<1>3. CASE rest # {} /\ known /\ allowed = {}
  <2>1. new.status = "blocked" /\ new.verdict = "banned_release_group"
    BY <1>3 DEF ApplyPolicy
  <2>2. QED
    BY <1>3, <2>1 DEF Replayed, Verdicts
<1>4. CASE allowed # {}
  <2>1. new.status = "candidate" /\ new.verdict = "candidate" /\ new.policy.candidates = allowed
    BY <1>4 DEF ApplyPolicy
  <2>2. QED
    BY <1>4, <2>1 DEF Replayed, Verdicts
<1>5. CASE valid = {}
  <2>1. new.status = ArrStatus(arr)
        /\ new.verdict = IF ArrStatus(arr) = "skipped" THEN "no_remaining_valid_targets"
                         ELSE ArrStatus(arr)
    BY <1>5 DEF ApplyPolicy
  <2>2. QED
    BY <1>5, <2>1 DEF Replayed, Verdicts, ArrStatus
<1>6. QED
  BY <1>1, <1>2, <1>3, <1>4, <1>5


\* A check that applies policies leaves a row in order, whose candidates are
\* those the policies leave.
LEMMA AfterPolicyKeeps ==
  ASSUME NEW r \in Rows, NEW why, NEW p \in Policies, NEW mismatch \in BOOLEAN,
         ArrCandidates(r.arr) \subseteq r.passed, Covered(r.arr) = {}
  PROVE  RowOK(AfterPolicy(r, why, p, mismatch)) /\ Follows(AfterPolicy(r, why, p, mismatch), p)
<1> DEFINE new == ApplyPolicy(r.arr, r.known, p)
           a == AfterPolicy(r, why, p, mismatch)
           open == new.status = "candidate"
           srrdb == open /\ "hard" \notin r.flags /\ mismatch
<1>1. r.arr \in [Trackers -> ArrDecisions] /\ r.known \in BOOLEAN /\ r.flags \subseteq Flags
  BY DEF Rows
<1>2. /\ new.policy \in PolicyResults /\ new.policy.on
      /\ new.flags \subseteq Flags
      /\ new.policy.candidates \subseteq ArrCandidates(r.arr)
      /\ new.policy.candidates \cap (p.banned \cup p.queue) = {}
      /\ ~r.known => new.policy.candidates = {}
      /\ ~r.known /\ ~(ArrCandidates(r.arr) \subseteq p.queue) =>
            "missing_release_group" \in new.flags
  BY <1>1, PolicyApplied DEF Follows
<1>3. /\ new.status \in Replayed /\ new.verdict \in Verdicts
      /\ new.status = "candidate" => new.policy.candidates # {}
      /\ new.verdict = "manual_review" => new.status = "manual_review"
      /\ new.status = "manual_review" =>
            \/ ArrCandidates(r.arr) = {}
            \/ ~r.known /\ ~(ArrCandidates(r.arr) \subseteq p.queue)
  BY <1>1, PolicySays
<1> HIDE DEF new
<1>4. PICK status \in Statuses, verdict \in Verdicts :
         /\ a = [r EXCEPT !.status = status, !.verdict = verdict, !.policy = new.policy,
                          !.flags = r.flags \cup new.flags
                                      \cup (IF srrdb THEN {"srrdb_filename_mismatch"} ELSE {})]
         /\ status = "manual_review" => open \/ new.status = "manual_review"
         /\ status # "covered"
  <2> DEFINE outcome ==
                IF open /\ "hard" \in r.flags THEN <<"blocked", "hard">>
                ELSE IF srrdb THEN <<"manual_review", "srrdb_filename_mismatch">>
                ELSE IF open /\ "media" \in r.flags THEN <<"manual_review", "media">>
                ELSE IF open /\ r.renamed THEN <<"manual_review", "renamed_release_warning">>
                ELSE IF new.verdict = "manual_review" /\ why = "pre_release"
                THEN <<"manual_review", "pre_release">>
                ELSE <<new.status, new.verdict>>
  <2>1. a = [r EXCEPT !.status = outcome[1], !.verdict = outcome[2], !.policy = new.policy,
                      !.flags = r.flags \cup new.flags
                                  \cup (IF srrdb THEN {"srrdb_filename_mismatch"} ELSE {})]
    BY DEF AfterPolicy, new
  <2>2. outcome[1] \in Statuses
    BY <1>3 DEF Statuses, Replayed
  <2>3. outcome[2] \in Verdicts
    BY <1>3 DEF Verdicts, Flags, MediaFlags
  <2>4. /\ outcome[1] = "manual_review" => open \/ new.status = "manual_review"
        /\ outcome[1] # "covered"
    BY <1>3 DEF Replayed
  <2> HIDE DEF outcome
  <2>5. QED
    BY <2>1, <2>2, <2>3, <2>4
<1> HIDE DEF a
<1>5. /\ a \in Rows /\ a.status = status /\ a.policy = new.policy
      /\ a.arr = r.arr /\ a.passed = r.passed /\ a.known = r.known
      /\ new.flags \subseteq a.flags
  <2>1. r.flags \cup new.flags \cup (IF srrdb THEN {"srrdb_filename_mismatch"} ELSE {})
          \subseteq Flags
    BY <1>1, <1>2 DEF Flags
  <2> HIDE DEF srrdb
  <2>2. QED
    BY <1>2, <1>4, <2>1 DEF Rows
<1>6. RowOK(a)
  BY <1>2, <1>3, <1>4, <1>5 DEF RowOK
<1>7. QED
  BY <1>2, <1>5, <1>6 DEF a, Follows


-----------------------------------------------------------------------------

LEMMA NoPolicyType == NoPolicy \in PolicyResults
BY DEF NoPolicy, PolicyResults

\* A row without evidence is in order.
LEMMA ClearedKeeps ==
  ASSUME NEW status \in Statuses \ {"candidate", "covered"}
  PROVE  /\ Cleared(status) \in Rows /\ RowOK(Cleared(status)) /\ Sound(Cleared(status))
         /\ Cleared(status).policy = NoPolicy
         /\ \A p : Follows(Cleared(status), p)
<1> DEFINE r == Cleared(status)
<1>1. r \in Rows
  BY NoPolicyType DEF Cleared, Rows, NoArr, ArrDecisions, Verdicts
<1>2. /\ r.status = status /\ r.policy = NoPolicy /\ r.passed = {} /\ r.arr = NoArr
      /\ r.known = TRUE /\ r.policy.candidates = {}
  BY DEF Cleared, NoPolicy
<1> HIDE DEF r
<1>3. RowOK(r) /\ Sound(r)
  <2>1. r.verdict = "none"
    BY DEF Cleared, r
  <2>2. QED
    BY <1>1, <1>2, <2>1, NoArrHasNoCandidate DEF RowOK, Sound, Moderated
<1>4. QED
  BY <1>1, <1>2, <1>3 DEF r, Follows

\* What a check finds before Arr is asked.
LEMMA FoundRows ==
  ASSUME NEW f \in Found
  PROVE  /\ f \in Rows /\ f.policy = NoPolicy /\ f.arr = NoArr /\ f.known
         /\ f.passed = {} => f.status \notin {"candidate", "manual_review"}
         /\ f.status # "covered"
<1>1. PICK passed \in SUBSET Trackers, others \in {"none", "dupe", "skipped"},
           flags \in SUBSET MediaFlags, mark \in Marks :
         f = FoundRow(passed, others, flags, mark)
  BY DEF Found
<1> DEFINE ua == Reduce(passed, others, mark)
           status == ReducedStatus(ua)
<1>2. ua \in Verdicts /\ (passed = {} => ua # "candidate")
  BY DEF Reduce, Verdicts, Marks
<1>3. status \in Statuses \ {"manual_review", "covered"} /\ (passed = {} => status # "candidate")
  BY <1>2 DEF ReducedStatus, Statuses, Replayed
<1> HIDE DEF ua, status
<1>4. f = [Cleared("checking") EXCEPT !.passed = passed, !.others = others, !.flags = flags,
              !.ua = ua, !.verdict = ua, !.status = status]
  BY <1>1 DEF FoundRow, ua, status
<1>5. "checking" \in Statuses \ {"candidate", "covered"}
  BY DEF Statuses, Replayed
<1>6. Cleared("checking") \in Rows
  BY <1>5, ClearedKeeps
<1>7. flags \subseteq Flags
  BY DEF Flags
<1>8. f \in Rows
  BY <1>2, <1>3, <1>4, <1>6, <1>7 DEF Rows
<1>9. /\ f.policy = NoPolicy /\ f.arr = NoArr /\ f.known
      /\ f.passed = passed /\ f.status = status
  BY <1>4 DEF Cleared
<1>10. QED
  BY <1>3, <1>8, <1>9

\* What a check concludes from it.
LEMMA EvidenceKeeps ==
  ASSUME NEW p \in Policies, NEW e \in Evidence
  PROVE  LET r == IF e.row.passed = {} THEN e.row ELSE AfterPolicy(e.row, e.why, p, e.mismatch)
         IN RowOK(r) /\ Follows(r, p)
<1>1. CASE \E f \in Found : f.passed = {} /\ e = Unasked(f)
  <2>1. PICK f \in Found : f.passed = {} /\ e.row = f
    BY <1>1 DEF Unasked
  <2>2. RowOK(f) /\ Follows(f, p)
    BY <2>1, FoundRows, NoArrHasNoCandidate DEF RowOK, Follows, NoPolicy
  <2>3. QED
    BY <2>1, <2>2
<1>2. CASE \E f \in Found, known \in BOOLEAN, renamed \in BOOLEAN, mismatch \in BOOLEAN :
           \E answer \in ArrAnswers(f.passed) :
              f.passed # {} /\ e = Asked(f, answer, known, renamed, mismatch)
  <2>1. PICK f \in Found, known \in BOOLEAN, renamed \in BOOLEAN, mismatch \in BOOLEAN :
           \E answer \in ArrAnswers(f.passed) :
              f.passed # {} /\ e = Asked(f, answer, known, renamed, mismatch)
    BY <1>2
  <2>2. PICK answer \in ArrAnswers(f.passed) :
           f.passed # {} /\ e = Asked(f, answer, known, renamed, mismatch)
    BY <2>1
  <2>3. f \in Rows /\ f.passed \subseteq Trackers
    BY FoundRows DEF Rows
  <2>4. /\ answer.arr \in [Trackers -> ArrDecisions]
        /\ ArrCandidates(answer.arr) \subseteq f.passed
        /\ Covered(answer.arr) = {}
    <3>1. CASE \E g \in [f.passed -> {"candidate", "blocked", "manual_review"}] :
                  answer = [arr |-> [t \in Trackers |-> IF t \in f.passed THEN g[t] ELSE "none"],
                            why |-> "none"]
      BY <2>3, <3>1 DEF ArrCandidates, Covered, ArrDecisions
    <3>2. CASE \E why \in {"pre_release", "no_match"} :
                  answer = [arr |-> [t \in Trackers |->
                                        IF t \in f.passed THEN "manual_review" ELSE "none"],
                            why |-> why]
      BY <2>3, <3>2 DEF ArrCandidates, Covered, ArrDecisions
    <3>3. QED
      BY <3>1, <3>2 DEF ArrAnswers
  <2>5. e.row = [f EXCEPT !.arr = answer.arr, !.noMatch = answer.why = "no_match",
                          !.known = known, !.renamed = renamed]
    BY <2>2 DEF Asked
  <2>6. e.row \in Rows /\ e.row.arr = answer.arr /\ e.row.passed = f.passed
    BY <2>3, <2>4, <2>5 DEF Rows
  <2>7. e.mismatch \in BOOLEAN
    BY <2>2 DEF Asked
  <2>8. QED
    BY <2>2, <2>4, <2>6, <2>7, AfterPolicyKeeps
<1>3. QED
  BY <1>1, <1>2 DEF Evidence


-----------------------------------------------------------------------------

\* A candidate has candidates of the policies, so its release group is known.
LEMMA CandidateIsKnown ==
  ASSUME NEW r, RowOK(r), Sound(r), r.status = "candidate"
  PROVE  /\ r.policy.on /\ r.policy.candidates # {} /\ r.known
         /\ ~Moderated(r) /\ (BroughtBack(r) => Covered(r.arr) # {})
<1>1. r.policy.on
  BY DEF RowOK
<1>2. ValidTrackers(r) = r.policy.candidates
  BY <1>1 DEF ValidTrackers
<1>3. r.known \in BOOLEAN
  BY DEF RowOK, Rows
<1>4. QED
  BY <1>1, <1>2, <1>3 DEF Sound, RowOK, Moderated, BroughtBack

\* A row as policies meet it that are applied again.
LEMMA AskedRow ==
  ASSUME NEW r \in Rows
  PROVE  LET asked == IF Moderated(r) THEN Restored(r) ELSE r
         IN /\ asked \in Rows /\ asked.known = r.known
            /\ Moderated(r) => ArrCandidates(asked.arr) = r.policy.queue
<1>1. /\ r.passed \cup r.policy.queue \subseteq Trackers
      /\ r.policy.queue \subseteq Trackers
  BY DEF Rows, PolicyResults
<1> DEFINE arr == [t \in Trackers |-> IF t \in r.policy.queue THEN "candidate" ELSE "none"]
<1>2. arr \in [Trackers -> ArrDecisions] /\ ArrCandidates(arr) = r.policy.queue
  BY <1>1 DEF ArrDecisions, ArrCandidates
<1>3. Restored(r) = [r EXCEPT !.passed = r.passed \cup r.policy.queue, !.arr = arr]
  BY DEF Restored
<1> HIDE DEF arr
<1>4. Restored(r) \in Rows /\ Restored(r).known = r.known /\ Restored(r).arr = arr
  BY <1>1, <1>2, <1>3 DEF Rows
<1>5. QED
  BY <1>2, <1>4

\* What policies make of a known group some of whose trackers are not queued.
LEMMA LiftedQueue ==
  ASSUME NEW arr \in [Trackers -> ArrDecisions], NEW p \in Policies,
         ArrCandidates(arr) \ p.queue # {}
  PROVE  LET new == ApplyPolicy(arr, TRUE, p)
             allowed == (ArrCandidates(arr) \ p.queue) \ p.banned
         IN /\ new.policy.candidates = allowed
            /\ allowed = {} => /\ new.policy.blocked # {} /\ new.status = "blocked"
                              /\ new.verdict = "banned_release_group"
            /\ allowed # {} => new.status = "candidate" /\ new.verdict = "candidate"
<1> DEFINE new == ApplyPolicy(arr, TRUE, p)
           rest == ArrCandidates(arr) \ p.queue
           blocked == rest \cap p.banned
           allowed == rest \ blocked
<1>1. rest = ArrCandidates(arr) \ (ArrCandidates(arr) \cap p.queue)
  OBVIOUS
<1>2. new.policy.candidates = allowed /\ new.policy.blocked = blocked
  BY <1>1 DEF ApplyPolicy
<1>3. allowed = {} => new.status = "blocked" /\ new.verdict = "banned_release_group"
  BY <1>1 DEF ApplyPolicy
<1>4. allowed # {} => new.status = "candidate" /\ new.verdict = "candidate"
  BY <1>1 DEF ApplyPolicy
<1>5. allowed = rest \ p.banned
  OBVIOUS
<1>6. QED
  BY <1>2, <1>3, <1>4, <1>5

\* The rules on an item that its policies have just been lifted for.
LEMMA LiftedRuling ==
  ASSUME NEW r \in Rows, Spared(r), r.policy.on,
         r.verdict \in {"candidate", "banned_release_group"}, r.status # "manual_review",
         r.policy.candidates = {} => r.policy.blocked # {}
  PROVE  Evaluate(r).status = IF r.policy.candidates = {} THEN "blocked"
                              ELSE IF r.flags = {} /\ ~r.renamed THEN "candidate"
                              ELSE "manual_review"
<1>1. PICK i \in 1..20 :
            /\ Rules(r)[i].holds
            /\ \A j \in 1..(i - 1) : ~Rules(r)[j].holds
            /\ Evaluate(r) = Given(r, Rules(r)[i].status, Rules(r)[i].verdict,
                                   Rules(r)[i].status)
  BY FirstRule
<1>2. Evaluate(r).status = Rules(r)[i].status
  <2> DEFINE status == Rules(r)[i].status
             verdict == Rules(r)[i].verdict
  <2>1. Evaluate(r) = Given(r, status, verdict, status)
    BY <1>1
  <2> HIDE DEF status, verdict
  <2>2. Evaluate(r).status = status
    BY <2>1 DEF Given, Rows
  <2>3. QED
    BY <2>2 DEF status
<1>3. /\ Rules(r)[1].holds = ({r.verdict, r.ua} \cap {"http_error", "ua_interrupted"} # {})
      /\ Rules(r)[2].holds = r.noMatch
      /\ Rules(r)[3].holds = ("mediainfo_unavailable" \in {r.verdict, r.ua})
      /\ Rules(r)[4].holds = ("no_video_files" \in {r.verdict, r.ua})
      /\ Rules(r)[5].holds = ("error" \in {r.verdict, r.ua})
      /\ Rules(r)[6].holds = ("hard" \in r.flags)
      /\ Rules(r)[7].holds = AllBanned(r)
      /\ Rules(r)[7].status = "blocked"
      /\ Rules(r)[8].holds = (r.status = "manual_review" /\ r.verdict = "pre_release")
  BY DEF Rules, Rule
<1>4. i \notin 1..6 /\ i # 8
  <2>1. /\ ~Rules(r)[1].holds /\ ~Rules(r)[2].holds /\ ~Rules(r)[3].holds
        /\ ~Rules(r)[4].holds /\ ~Rules(r)[5].holds /\ ~Rules(r)[6].holds
    BY <1>3 DEF Spared
  <2>2. ~Rules(r)[8].holds
    BY <1>3
  <2>3. QED
    BY <1>1, <2>1, <2>2
<1>5. CASE r.policy.candidates = {}
  <2>1. Rules(r)[7].holds
    BY <1>3, <1>5 DEF AllBanned
  <2>2. i = 7
    BY <1>1, <1>4, <2>1
  <2>3. QED
    BY <1>2, <1>3, <1>5, <2>2
<1>6. CASE r.policy.candidates # {}
  <2>1. i # 7
    BY <1>1, <1>3, <1>6 DEF AllBanned
  <2>2. ValidTrackers(r) # {}
    BY <1>6 DEF ValidTrackers
  <2>3. i \notin 9..14 /\ i # 20
    <3>1. /\ ~Rules(r)[9].holds /\ ~Rules(r)[10].holds /\ ~Rules(r)[11].holds
          /\ ~Rules(r)[12].holds /\ ~Rules(r)[13].holds /\ ~Rules(r)[14].holds
          /\ Rules(r)[19].holds
      BY <2>2 DEF Rules, Rule
    <3>2. QED
      BY <1>1, <3>1
  <2>4. i \in 15..19
    BY <1>4, <2>1, <2>3
  <2>5. /\ Rules(r)[15].holds = ("srrdb_filename_mismatch" \in r.flags)
        /\ Rules(r)[16].holds = ("media" \in r.flags)
        /\ Rules(r)[17].holds = ("missing_release_group" \in r.flags)
        /\ Rules(r)[18].holds = r.renamed
        /\ Rules(r)[19].status = "candidate"
        /\ \A k \in 15..18 : Rules(r)[k].status = "manual_review"
    BY DEF Rules, Rule
  <2>6. r.flags \subseteq {"hard", "media", "missing_release_group", "srrdb_filename_mismatch"}
        /\ r.renamed \in BOOLEAN
    BY DEF Rows, Flags, MediaFlags
  <2>7. CASE r.flags = {} /\ ~r.renamed
    <3>1. i = 19
      <4>1. /\ ~Rules(r)[15].holds /\ ~Rules(r)[16].holds
            /\ ~Rules(r)[17].holds /\ ~Rules(r)[18].holds
        BY <2>5, <2>7
      <4>2. QED
        BY <1>1, <2>4, <4>1
    <3>2. QED
      BY <1>2, <1>6, <2>5, <2>7, <3>1
  <2>8. CASE ~(r.flags = {} /\ ~r.renamed)
    <3>1. \/ Rules(r)[15].holds \/ Rules(r)[16].holds
          \/ Rules(r)[17].holds \/ Rules(r)[18].holds
      <4>1. "hard" \notin r.flags
        BY DEF Spared
      <4>2. \/ "srrdb_filename_mismatch" \in r.flags \/ "media" \in r.flags
            \/ "missing_release_group" \in r.flags \/ r.renamed
        BY <2>6, <2>8, <4>1
      <4>3. QED
        BY <2>5, <4>2
    <3>2. i \in 15..18
      BY <1>1, <2>4, <3>1
    <3>3. QED
      BY <1>2, <1>6, <2>5, <2>8, <3>2
  <2>9. QED
    BY <2>7, <2>8
<1>7. QED
  BY <1>5, <1>6

\* Policies applied again keep the row in order, and sound.  A candidate then
\* follows them, unless a poll has taken its trackers from Arr, and so does
\* an item that did before.
LEMMA ReappliedKeeps ==
  ASSUME NEW r, RowOK(r), Sound(r), NEW p \in Policies
  PROVE  /\ RowOK(Reapplied(r, p)) /\ Sound(Reapplied(r, p))
         /\ (r.status = "candidate" /\ ~BroughtBack(r)) \/ Follows(r, p) =>
               Follows(Reapplied(r, p), p)
<1> DEFINE asked == IF Moderated(r) THEN Restored(r) ELSE r
           new == ApplyPolicy(asked.arr, r.known, p)
           changed == /\ r.status = "candidate" \/ Moderated(r)
                      /\ new.status \in {"candidate", "blocked", "skipped"}
                      /\ PolicyEffectChanged(r, asked, new)
           s == [asked EXCEPT !.status = new.status, !.verdict = new.verdict,
                              !.policy = new.policy,
                              !.passed = PolicyPassed(asked, new.policy),
                              !.arr = PolicyArr(asked, new.policy)]
<1>1. r \in Rows
  BY DEF RowOK
<1>2. asked \in Rows /\ asked.known = r.known
  BY <1>1, AskedRow
<1>3. ~Moderated(r) => asked = r
  OBVIOUS
<1>4. Reapplied(r, p) = IF changed THEN Evaluate(s) ELSE r
  BY DEF Reapplied
<1> HIDE DEF asked
<1>5. asked.arr \in [Trackers -> ArrDecisions] /\ r.known \in BOOLEAN
  BY <1>1, <1>2 DEF Rows
<1>6. /\ new.policy \in PolicyResults /\ new.policy.on
      /\ new.policy.candidates \subseteq ArrCandidates(asked.arr)
      /\ new.policy.candidates \cap (p.banned \cup p.queue) = {}
      /\ new.policy.candidates \cap (new.policy.blocked \cup new.policy.queue) = {}
      /\ ~r.known => new.policy.candidates = {}
  BY <1>5, PolicyApplied DEF Follows
<1>7. /\ new.status \in Replayed \cup {"covered"} /\ new.verdict \in Verdicts
      /\ new.status = "covered" => ArrCandidates(asked.arr) = {}
      /\ new.status = "manual_review" => ArrCandidates(asked.arr) = {} \/ ~r.known
  BY <1>5, PolicySays
<1> HIDE DEF new
<1>8. CASE changed
  <2>1. PolicyPassed(asked, new.policy) \subseteq Trackers
        /\ new.policy.candidates \subseteq PolicyPassed(asked, new.policy)
    BY <1>2, <1>6 DEF PolicyPassed, PolicyResults, Rows
  <2>2. PolicyArr(asked, new.policy) \in [Trackers -> ArrDecisions]
        /\ new.policy.candidates \subseteq ArrCandidates(PolicyArr(asked, new.policy))
    BY <1>5, <1>6 DEF PolicyArr, ArrCandidates, ArrDecisions
  <2>3. /\ s \in Rows /\ s.status = new.status /\ s.policy = new.policy
        /\ s.passed = PolicyPassed(asked, new.policy)
        /\ s.arr = PolicyArr(asked, new.policy) /\ s.known = r.known
    BY <1>2, <1>6, <1>8, <1>7, <2>1, <2>2 DEF Rows, Statuses, Replayed
  <2> HIDE DEF s
  <2>4. RowOK(s)
    BY <1>6, <1>8, <2>1, <2>2, <2>3 DEF RowOK
  <2>5. Reapplied(r, p) = Evaluate(s)
    BY <1>4, <1>8
  <2>6. /\ RowOK(Evaluate(s)) /\ Sound(Evaluate(s))
        /\ Evaluate(s).policy = s.policy
    BY <2>4, EvaluateKeeps DEF SameEvidence
  <2>7. QED
    BY <1>6, <2>3, <2>5, <2>6 DEF Follows
<1>9. CASE ~changed
  <2>1. Reapplied(r, p) = r
    BY <1>4, <1>9
  <2>2. ASSUME r.status = "candidate", ~BroughtBack(r)
        PROVE  Follows(r, p)
    <3>1. asked = r /\ r.known /\ ArrCandidates(r.arr) # {}
      BY <1>3, <2>2, CandidateIsKnown DEF BroughtBack
    <3>2. new.status \in {"candidate", "blocked", "skipped"}
      BY <1>7, <3>1 DEF Replayed
    <3>3. r.policy = new.policy
      BY <1>9, <2>2, <3>2 DEF PolicyEffectChanged
    <3>4. QED
      BY <1>6, <3>3 DEF Follows
  <2>3. QED
    BY <2>1, <2>2
<1>10. QED
  BY <1>8, <1>9

\* Policies applied again to an item of a known group that was left to
\* moderation, when they queue fewer of its trackers.
LEMMA LiftedIsDecided ==
  ASSUME NEW r, RowOK(r), Sound(r), NEW p \in Policies, Moderated(r), r.known,
         r.policy.queue \ p.queue # {}
  PROVE  LET allowed == (r.policy.queue \ p.queue) \ p.banned
         IN /\ Reapplied(r, p).policy.candidates = allowed
            /\ Reapplied(r, p).status = IF allowed = {} THEN "blocked"
                                        ELSE IF r.flags = {} /\ ~r.renamed THEN "candidate"
                                        ELSE "manual_review"
<1> DEFINE asked == Restored(r)
           new == ApplyPolicy(asked.arr, TRUE, p)
           allowed == (r.policy.queue \ p.queue) \ p.banned
           s == [asked EXCEPT !.status = new.status, !.verdict = new.verdict,
                              !.policy = new.policy,
                              !.passed = PolicyPassed(asked, new.policy),
                              !.arr = PolicyArr(asked, new.policy)]
<1>1. r \in Rows /\ r.known = TRUE
  BY DEF RowOK, Rows
<1>2. asked \in Rows /\ ArrCandidates(asked.arr) = r.policy.queue
  BY <1>1, AskedRow
<1>3. /\ asked.flags = r.flags /\ asked.renamed = r.renamed /\ asked.ua = r.ua
      /\ asked.noMatch = r.noMatch
  BY <1>1 DEF Restored, Rows
<1>4. Reapplied(r, p) = IF /\ new.status \in {"candidate", "blocked", "skipped"}
                           /\ PolicyEffectChanged(r, asked, new)
                        THEN Evaluate(s) ELSE r
  BY <1>1 DEF Reapplied
<1> HIDE DEF asked
<1>5. asked.arr \in [Trackers -> ArrDecisions]
  BY <1>2 DEF Rows
<1>6. /\ new.policy.candidates = allowed
      /\ allowed = {} => /\ new.policy.blocked # {} /\ new.status = "blocked"
                        /\ new.verdict = "banned_release_group"
      /\ allowed # {} => new.status = "candidate" /\ new.verdict = "candidate"
  BY <1>2, <1>5, LiftedQueue
<1>7. new.policy \in PolicyResults /\ new.policy.on
  BY <1>5, PolicyApplied
<1> HIDE DEF new
<1>8. Reapplied(r, p) = Evaluate(s)
  <2>1. r.status = "skipped"
    BY DEF Moderated
  <2>2. QED
    BY <1>4, <1>6, <2>1 DEF PolicyEffectChanged
<1>9. /\ s \in Rows /\ s.status = new.status /\ s.verdict = new.verdict
      /\ s.policy = new.policy /\ s.flags = r.flags /\ s.renamed = r.renamed
      /\ s.ua = r.ua /\ s.noMatch = r.noMatch
  <2>1. PolicyPassed(asked, new.policy) \subseteq Trackers
    BY <1>2, <1>7 DEF PolicyPassed, PolicyResults, Rows
  <2>2. PolicyArr(asked, new.policy) \in [Trackers -> ArrDecisions]
    BY <1>5 DEF PolicyArr, ArrDecisions
  <2>3. new.status \in Statuses /\ new.verdict \in Verdicts
    BY <1>6 DEF Statuses, Replayed, Verdicts
  <2>4. QED
    BY <1>2, <1>3, <1>7, <2>1, <2>2, <2>3 DEF Rows
<1> HIDE DEF s
<1>10. Spared(s)
  BY <1>9 DEF Sound, Spared
<1>11. Evaluate(s).policy = s.policy
  <2>1. PICK i \in 1..20 : Evaluate(s) = Given(s, Rules(s)[i].status, Rules(s)[i].verdict,
                                               Rules(s)[i].status)
    BY FirstRule
  <2>2. QED
    BY <1>9, <2>1 DEF Given, Rows
<1>12. Evaluate(s).status = IF s.policy.candidates = {} THEN "blocked"
                            ELSE IF s.flags = {} /\ ~s.renamed THEN "candidate"
                            ELSE "manual_review"
  <2>1. s.verdict \in {"candidate", "banned_release_group"} /\ s.status # "manual_review"
    BY <1>6, <1>9
  <2>2. s.policy.candidates = {} => s.policy.blocked # {}
    BY <1>6, <1>9
  <2>3. QED
    BY <1>7, <1>9, <1>10, <2>1, <2>2, LiftedRuling
<1>13. QED
  BY <1>6, <1>8, <1>9, <1>11, <1>12


-----------------------------------------------------------------------------

LEMMA InitHolds == Init => IInv
<1>1. "queued" \in Statuses \ {"candidate", "covered"}
  BY DEF Statuses, Replayed
<1>2. NoJob.policies \in Policies
  BY DEF NoJob, Policies
<1>3. QED
  BY <1>1, <1>2, ClearedKeeps DEF Init, IInv

\* A row that a step sets to another status keeps its order.
LEMMA StatusKeeps ==
  ASSUME NEW r, RowOK(r), NEW status \in {"ignored", "rejected", "skipped"},
         NEW verdict \in Verdicts, NEW decision \in Statuses \cup {"none"},
         status = "skipped" => verdict = "torrent_missing"
  PROVE  LET s == Given(r, status, verdict, decision)
         IN RowOK(s) /\ Sound(s) /\ s.policy = r.policy
<1> DEFINE s == Given(r, status, verdict, decision)
<1>1. s \in Rows /\ s.status = status /\ s.verdict = verdict /\ SameEvidence(r, s)
  <2>1. r \in Rows
    BY DEF RowOK
  <2>2. status \in Statuses
    BY DEF Statuses, Replayed
  <2>3. QED
    BY <2>1, <2>2, GivenRow
<1> HIDE DEF s
<1>2. RowOK(s) /\ Sound(s) /\ s.policy = r.policy
  BY <1>1 DEF RowOK, Sound, SameEvidence, Moderated
<1>3. QED
  BY <1>2 DEF s

\* A torrent that is gone leaves the evidence of its item.
LEMMA MissingKeeps ==
  ASSUME NEW r, RowOK(r), Sound(r)
  PROVE  RowOK(MarkMissing(r)) /\ Sound(MarkMissing(r)) /\ MarkMissing(r).policy = r.policy
<1>1. CASE r.status \in {"ignored", "rejected"}
  BY <1>1 DEF MarkMissing
<1>2. CASE r.status \notin {"ignored", "rejected"}
  <2>1. r \in Rows
    BY DEF RowOK
  <2>2. MarkMissing(r) = Given(r, "skipped", "torrent_missing", "skipped")
    BY <1>2, <2>1 DEF MarkMissing, MissingResults, Given, Rows
  <2>3. "torrent_missing" \in Verdicts /\ "skipped" \in Statuses
    BY DEF Verdicts, Statuses, Replayed
  <2>4. QED
    BY <2>2, <2>3, StatusKeeps
<1>3. QED
  BY <1>1, <1>2

\* So does a tracker that covers it no more.
LEMMA RequeueKeeps ==
  ASSUME NEW r, RowOK(r), Sound(r), NEW present
  PROVE  LET s == RequeueCovered(r, present)
         IN RowOK(s) /\ Sound(s) /\ s.policy = r.policy
<1> DEFINE s == RequeueCovered(r, present)
<1>1. CASE s = r
  BY <1>1
<1>2. CASE s # r
  <2>1. r \in Rows /\ r.status = "covered"
    BY <1>2 DEF RowOK, RequeueCovered
  <2>2. s = [r EXCEPT !.status = "queued", !.verdict = "none", !.passed = {},
                      !.others = "none"]
    BY <1>2 DEF RequeueCovered
  <2>3. "queued" \in Statuses /\ "none" \in Verdicts
    BY DEF Statuses, Verdicts
  <2> HIDE DEF s
  <2>4. /\ s \in Rows /\ s.status = "queued" /\ s.policy = r.policy /\ s.arr = r.arr
        /\ s.passed = {} /\ s.known = r.known
    BY <2>1, <2>2, <2>3 DEF Rows
  <2>5. RowOK(s)
    BY <2>1, <2>4 DEF RowOK
  <2>6. Sound(s)
    BY <2>4 DEF Sound, Moderated
  <2>7. QED
    BY <2>4, <2>5, <2>6 DEF s
<1>3. QED
  BY <1>1, <1>2

\* And one that covers it, with all the others its candidates are on.
LEMMA ResolveKeeps ==
  ASSUME NEW r, RowOK(r), Sound(r), NEW present
  PROVE  LET s == Resolve(r, present)
         IN RowOK(s) /\ Sound(s) /\ s.policy = r.policy
<1> DEFINE s == Resolve(r, present)
           found == ForResolution(r)
           arr == [t \in Trackers |-> IF r.arr[t] = "candidate" THEN "covered" ELSE r.arr[t]]
<1>1. CASE s = r
  BY <1>1
<1>2. CASE s # r
  <2>1. r \in Rows /\ found # {}
    BY <1>2 DEF RowOK, Resolve
  <2>2. s = [r EXCEPT !.status = "covered", !.verdict = "covered", !.decision = "covered",
                      !.ua = "covered", !.passed = @ \ found, !.arr = arr,
                      !.noMatch = FALSE, !.resolved = found]
    BY <1>2 DEF Resolve
  <2>3. found \subseteq Trackers /\ (r.passed = {} => ArrCandidates(r.arr) # {})
    BY <2>1 DEF ForResolution, ArrCandidates, Rows
  <2>4. /\ arr \in [Trackers -> ArrDecisions] /\ ArrCandidates(arr) = {}
        /\ ArrCandidates(r.arr) \cup Covered(r.arr) \subseteq Covered(arr)
    BY <2>1 DEF Rows, ArrDecisions, ArrCandidates, Covered
  <2>5. "covered" \in Statuses /\ "covered" \in Verdicts
    BY DEF Statuses, Verdicts
  <2> HIDE DEF s, arr, found
  <2>6. /\ s \in Rows /\ s.status = "covered" /\ s.decision = "covered"
        /\ s.policy = r.policy /\ s.arr = arr /\ s.known = r.known
    BY <2>1, <2>2, <2>3, <2>4, <2>5 DEF Rows
  <2>7. r.policy.on
    BY <2>3, NoArrHasNoCandidate DEF RowOK
  <2>8. RowOK(s)
    BY <2>4, <2>6, <2>7 DEF RowOK
  <2>9. Sound(s)
    BY <2>6 DEF Sound, Moderated
  <2>10. QED
    BY <2>6, <2>8, <2>9 DEF s
<1>3. QED
  BY <1>1, <1>2

\* The end of a poll.
LEMMA PollKeeps ==
  ASSUME RowOK(row), Sound(row), PollEnds
  PROVE  RowOK(row') /\ Sound(row') /\ row'.policy = row.policy
<1>1. PICK present \in SUBSET Trackers :
         \/ row' = Resolve(row, present)
         \/ \E found \in {row, MarkMissing(row)} :
               row' = Resolve(RequeueCovered(found, present), present)
  BY DEF PollEnds
<1>2. CASE row' = Resolve(row, present)
  BY <1>2, ResolveKeeps
<1>3. ASSUME NEW found \in {row, MarkMissing(row)},
             row' = Resolve(RequeueCovered(found, present), present)
      PROVE  RowOK(row') /\ Sound(row') /\ row'.policy = row.policy
  <2>1. RowOK(found) /\ Sound(found) /\ found.policy = row.policy
    BY MissingKeeps
  <2> DEFINE requeued == RequeueCovered(found, present)
  <2>2. RowOK(requeued) /\ Sound(requeued) /\ requeued.policy = row.policy
    BY <2>1, RequeueKeeps
  <2> HIDE DEF requeued
  <2>3. RowOK(Resolve(requeued, present)) /\ Sound(Resolve(requeued, present))
        /\ Resolve(requeued, present).policy = row.policy
    BY <2>2, ResolveKeeps
  <2>4. QED
    BY <1>3, <2>3 DEF requeued
<1>4. QED
  BY <1>1, <1>2, <1>3

\* A check that fails keeps nothing but the flags of its files.
LEMMA FailedKeeps ==
  ASSUME NEW flags \in SUBSET MediaFlags,
         NEW r \in {[Cleared("error") EXCEPT !.verdict = "mediainfo_unavailable", !.flags = flags],
                    [Cleared("retry") EXCEPT !.verdict = "http_error", !.ua = "http_error",
                                             !.flags = flags]}
  PROVE  RowOK(r) /\ \A p : Follows(r, p)
<1>1. {"error", "retry"} \subseteq Statuses \ {"candidate", "covered", "manual_review"}
  BY DEF Statuses, Replayed
<1>2. flags \subseteq Flags /\ {"mediainfo_unavailable", "http_error"} \subseteq Verdicts
  BY DEF Flags, Verdicts
<1>3. \A status \in {"error", "retry"} :
         /\ Cleared(status) \in Rows /\ RowOK(Cleared(status))
         /\ Cleared(status).policy = NoPolicy /\ Cleared(status).status = status
  BY <1>1, ClearedKeeps DEF Cleared
<1>4. PICK status \in {"error", "retry"} :
         /\ r \in Rows /\ r.policy = NoPolicy /\ r.passed = Cleared(status).passed
         /\ r.arr = Cleared(status).arr /\ r.known = Cleared(status).known
         /\ r.status = status
  <2>1. CASE r = [Cleared("error") EXCEPT !.verdict = "mediainfo_unavailable", !.flags = flags]
    BY <1>2, <1>3, <2>1 DEF Rows
  <2>2. CASE r = [Cleared("retry") EXCEPT !.verdict = "http_error", !.ua = "http_error",
                                          !.flags = flags]
    BY <1>2, <1>3, <2>2 DEF Rows
  <2>3. QED
    BY <2>1, <2>2
<1>5. RowOK(r)
  BY <1>1, <1>3, <1>4 DEF RowOK
<1>6. QED
  BY <1>4, <1>5 DEF Follows, NoPolicy

\* Every step preserves the invariant.
LEMMA NextHolds ==
  ASSUME IInv, [Next]_vars
  PROVE  IInv'
<1> USE DEF IInv
<1>1. CASE CheckStarts
  <2>1. "checking" \in Statuses \ {"candidate", "covered"}
    BY DEF Statuses, Replayed
  <2>2. QED
    BY <1>1, <2>1, ClearedKeeps DEF CheckStarts
<1>2. CASE CheckEnds
  <2>1. PICK e \in Evidence :
           row' = Evaluate(IF e.row.passed = {} THEN e.row
                           ELSE AfterPolicy(e.row, e.why, job.policies, e.mismatch))
    BY <1>2 DEF CheckEnds, Outcomes
  <2> DEFINE r == IF e.row.passed = {} THEN e.row
                  ELSE AfterPolicy(e.row, e.why, job.policies, e.mismatch)
  <2>2. RowOK(r) /\ Follows(r, job.policies)
    BY EvidenceKeeps
  <2> HIDE DEF r
  <2>3. RowOK(row') /\ Sound(row') /\ Follows(row', job.policies)
    BY <2>1, <2>2, EvaluateKeeps DEF r, SameEvidence, Follows
  <2>4. job'.policies \in Policies
    BY <1>2 DEF CheckEnds, NoJob, Policies
  <2>5. policies' = policies /\ stale' = (job.policies # policies)
    BY <1>2 DEF CheckEnds
  <2>6. QED
    BY <2>3, <2>4, <2>5
<1>3. CASE CheckFails
  <2>1. PICK flags \in SUBSET MediaFlags :
           \E r \in {[Cleared("error") EXCEPT !.verdict = "mediainfo_unavailable",
                                              !.flags = flags],
                     [Cleared("retry") EXCEPT !.verdict = "http_error", !.ua = "http_error",
                                              !.flags = flags]} :
              row' = Evaluate(r)
    BY <1>3 DEF CheckFails
  <2>2. PICK r : RowOK(r) /\ (\A p : Follows(r, p)) /\ row' = Evaluate(r)
    BY <2>1, FailedKeeps
  <2>3. RowOK(row') /\ Sound(row') /\ \A p : Follows(row', p)
    BY <2>2, EvaluateKeeps DEF SameEvidence, Follows
  <2>4. job'.policies \in Policies /\ policies' = policies
    BY <1>3 DEF CheckFails, NoJob, Policies
  <2>5. QED
    BY <2>3, <2>4
<1>4. CASE Recheck
  <2>1. "queued" \in Statuses \ {"candidate", "covered"}
    BY DEF Statuses, Replayed
  <2>2. QED
    BY <1>4, <2>1, ClearedKeeps DEF Recheck
<1>5. CASE Ignore \/ Reject
  <2>1. UNCHANGED <<job, policies, stale>>
    BY <1>5 DEF Ignore, Reject
  <2>2. PICK status \in {"ignored", "rejected"}, verdict \in Verdicts,
             decision \in Statuses \cup {"none"} :
           row' = Given(row, status, verdict, decision)
    <3>1. row \in Rows
      BY DEF RowOK
    <3>2. /\ row.verdict \in Verdicts /\ row.decision \in Statuses \cup {"none"}
          /\ row = [row EXCEPT !.decision = row.decision]
          /\ row = [row EXCEPT !.verdict = row.verdict]
      BY <3>1 DEF Rows
    <3>3. CASE Ignore
      <4>1. row' = Given(row, "ignored", row.verdict, row.decision)
        BY <3>1, <3>3 DEF Ignore, Given, Rows
      <4>2. QED
        BY <3>2, <4>1
    <3>4. CASE Reject
      <4>1. row' = Given(row, "rejected", "moderation_rejected", row.decision)
        BY <3>1, <3>4 DEF Reject, Given, Rows
      <4>2. QED
        BY <3>2, <4>1 DEF Verdicts
    <3>5. QED
      BY <1>5, <3>3, <3>4
  <2> DEFINE s == Given(row, status, verdict, decision)
  <2>3. RowOK(s) /\ Sound(s) /\ s.policy = row.policy
    BY <2>2, StatusKeeps
  <2> HIDE DEF s
  <2>4. RowOK(row') /\ Sound(row') /\ row'.policy = row.policy
    <3>1. row' = s
      BY <2>2 DEF s
    <3>2. QED
      BY <2>3, <3>1
  <2>5. QED
    BY <2>1, <2>4 DEF Follows
<1>6. CASE Replay
  <2>1. row' = Evaluate(row) /\ UNCHANGED <<job, policies, stale>>
    BY <1>6 DEF Replay
  <2>2. QED
    BY <2>1, EvaluateKeeps DEF SameEvidence, Follows
<1>7. CASE SavePolicies
  <2>1. /\ policies' \in Policies /\ row' = Reapplied(row, policies') /\ job' = job
        /\ stale' = IF row.status = "candidate" /\ ~BroughtBack(row) THEN FALSE
                    ELSE stale \/ policies' # policies
    BY <1>7 DEF SavePolicies
  <2>2. /\ RowOK(row') /\ Sound(row')
        /\ (row.status = "candidate" /\ ~BroughtBack(row)) \/ Follows(row, policies') =>
              Follows(row', policies')
    BY <2>1, ReappliedKeeps
  <2>3. ~stale' => (row.status = "candidate" /\ ~BroughtBack(row)) \/ Follows(row, policies')
    BY <2>1
  <2>4. QED
    BY <2>1, <2>2, <2>3
<1>8. CASE QueueUpload \/ RunImport \/ UNCHANGED vars
  <2>1. UNCHANGED <<row, job, policies, stale>>
    BY <1>8 DEF QueueUpload, RunImport, vars
  <2>2. QED
    BY <2>1
<1>9. CASE PollEnds
  <2>1. UNCHANGED <<job, policies, stale>>
    BY <1>9 DEF PollEnds
  <2>2. RowOK(row') /\ Sound(row') /\ row'.policy = row.policy
    BY <1>9, PollKeeps
  <2>3. QED
    BY <2>1, <2>2 DEF Follows
<1>10. QED
  BY <1>1, <1>2, <1>3, <1>4, <1>5, <1>6, <1>7, <1>8, <1>9 DEF Next

\* The invariant holds throughout.
THEOREM InductiveInvariant == Spec => []IInv
BY InitHolds, NextHolds, PTL DEF Spec


-----------------------------------------------------------------------------

\* A candidate has nothing against it, and its trackers passed Upload
\* Assistant and are Arr's candidates, or all were until a poll covered the
\* item: no evidence, however late it is read again, makes one of anything else.
THEOREM CandidateIsSoundHolds == Spec => []CandidateIsSound
<1>1. IInv => CandidateIsSound
  BY DEF IInv, Sound, CandidateIsSound
<1>2. QED
  BY <1>1, InductiveInvariant, PTL

\* A candidate decided or reconsidered under the policies in force has no
\* tracker that they rule out, in whatever order checks, replays, polls and
\* saved policies follow each other.
THEOREM CandidateFollowsPolicyHolds == Spec => []CandidateFollowsPolicy
<1>1. IInv => CandidateFollowsPolicy
  BY DEF IInv, Follows, CandidateFollowsPolicy
<1>2. QED
  BY <1>1, InductiveInvariant, PTL

\* What is effective of an item's trackers are candidates of Arr, or were until
\* a poll covered them, that no policy in force would queue, and of a candidate
\* those of its policies.
LEMMA EffectiveIsAllowed ==
  ASSUME IInv, NEW eff
  PROVE  /\ EffectiveTrackers(row, eff, policies) \subseteq
               (ArrCandidates(row.arr) \cup Covered(row.arr)) \ policies.queue
         /\ row.status = "candidate" =>
               EffectiveTrackers(row, eff, policies) \subseteq row.policy.candidates
<1>1. /\ row.policy.candidates \subseteq ArrCandidates(row.arr) \cup Covered(row.arr)
      /\ RowOK(row) /\ Sound(row)
  BY DEF IInv, RowOK
<1>2. row.status = "candidate" => row.policy.on /\ row.policy.candidates # {}
  BY <1>1, CandidateIsKnown
<1>3. QED
  BY <1>1, <1>2 DEF EffectiveTrackers

\* No upload starts to a tracker that Arr never called a candidate or that now
\* queues episodes, from a candidate that is not stale to one that bans its
\* group, or from a covered item but by an import that waited: the trackers of
\* such an import are looked at once more.
THEOREM UploadIsAllowedHolds == Spec => []UploadIsAllowed
<1>1. ASSUME IInv
      PROVE  UploadIsAllowed
  <2> DEFINE own == EffectiveTrackers(row, EffectiveStatus(row), policies)
             waited == EffectiveTrackers(row, row.status, policies)
  <2>1. /\ own \cup waited \subseteq (ArrCandidates(row.arr) \cup Covered(row.arr)) \ policies.queue
        /\ row.status = "candidate" => own \cup waited \subseteq row.policy.candidates
    BY <1>1, EffectiveIsAllowed
  <2> HIDE DEF own, waited
  <2>2. /\ Uploadable \subseteq own \cup waited
        /\ ~CanUpload(row) => Uploadable \subseteq pending
    BY DEF Uploadable, Restricted, Last, own, waited
  <2>3. row.status = "candidate" /\ ~stale => row.policy.candidates \cap policies.banned = {}
    BY <1>1 DEF IInv, Follows
  <2>4. row.status = "covered" => ~CanUpload(row)
    BY <1>1 DEF IInv, RowOK, CanUpload, EffectiveStatus, Replayed
  <2>5. QED
    BY <2>1, <2>2, <2>3, <2>4 DEF UploadIsAllowed
<1>2. QED
  BY <1>1, InductiveInvariant, PTL

\* Policies saved with some queue lifted decide an item of a known group that
\* waited for it by the trackers that were lifted and what else is known of it,
\* however the policies were saved before.
THEOREM ModeratedIsRestoredHolds == Spec => ModeratedIsRestored
<1> DEFINE lifted == row.policy.queue \ policies'.queue
           allowed == lifted \ policies'.banned
           Decided == /\ row'.policy.candidates = allowed
                      /\ row'.status = IF allowed = {} THEN "blocked"
                                       ELSE IF row.flags = {} /\ ~row.renamed THEN "candidate"
                                       ELSE "manual_review"
<1>1. ASSUME IInv, SavePolicies, Moderated(row), row.known, lifted # {}
      PROVE  Decided
  <2>1. RowOK(row) /\ Sound(row) /\ policies' \in Policies /\ row' = Reapplied(row, policies')
    BY <1>1 DEF IInv, SavePolicies
  <2>2. QED
    BY <1>1, <2>1, LiftedIsDecided
<1>2. IInv /\ [Next]_vars =>
         [SavePolicies /\ Moderated(row) /\ row.known => (lifted # {} => Decided)]_vars
  BY <1>1
<1>3. QED
  BY <1>2, InductiveInvariant, PTL DEF Spec, ModeratedIsRestored

=============================================================================
