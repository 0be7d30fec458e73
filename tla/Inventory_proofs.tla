-------------------------- MODULE Inventory_proofs --------------------------
(***************************************************************************)
(* For any finite set of torrents, any page size and any changes of QUI's  *)
(* list while it is read: a full crawl sees every torrent that stayed and  *)
(* did not move up, so what it marks missing was away, what the first run  *)
(* finds is baselined, and a reconciliation leaves coverage exact.         *)
(***************************************************************************)
EXTENDS Inventory, Integers, FiniteSetTheorems, SequenceTheorems, TLAPS

TypeOK ==
    /\ qui \in Seq(Torrents)
    /\ complete \subseteq Torrents
    /\ place \in [Torrents -> Places]
    /\ status \in [Torrents -> Statuses]
    /\ targets \in [Torrents -> SUBSET Trackers]
    /\ tracker \in [Torrents -> Trackers \cup {NoTracker}]
    /\ checking \subseteq Torrents
    /\ {baselineDone, crawlDone, reconcileDue} \subseteq BOOLEAN
    /\ poll \in [on: BOOLEAN, page: Nat, full: BOOLEAN, baseline: BOOLEAN,
                 seen: SUBSET Torrents]
    /\ gone \cup slid \cup altered \cup old \subseteq Torrents

\* Pages before this one hold the list up to position i.
IsRead(i, page) == (i - 1) \div PageLimit < page

\* A torrent that was in the list all the time and did not move up is where
\* the poll still comes, or has been seen.
NoneSlipsThrough ==
    poll.on => \A t \in Torrents \ (gone \cup slid) :
                  \E i \in DOMAIN qui : qui[i] = t /\ (IsRead(i, poll.page) => t \in poll.seen)

\* A full crawl has brought what it has seen up to date.
SeenIsSynced ==
    poll.on /\ poll.full =>
        \A t \in (poll.seen \cap complete) \ (gone \cup slid \cup altered) :
            tracker[t] = DetectTracker(place[t])

\* A poll is incremental only after a crawl was complete, and a crawl after
\* that is a reconciliation that was due.
PollModes ==
    /\ baselineDone = crawlDone
    /\ ~poll.on => ~poll.full
    /\ poll.on /\ ~poll.full => crawlDone
    /\ poll.full /\ crawlDone => reconcileDue

\* Old torrents wait for the first crawl, which has missed none of them and
\* makes a baseline.
OldAwaitBaseline ==
    /\ \A t \in old : t \in Listed /\ t \in complete /\ status[t] = "absent"
    /\ crawlDone => old = {}
    /\ poll.on => old \cap (poll.seen \cup gone \cup slid) = {}
    /\ poll.on /\ KeepExisting /\ ~crawlDone => poll.baseline

\* A check is of an item that has a row.
CheckedHaveRows == \A t \in checking : status[t] # "absent"

IInv ==
    /\ TypeOK
    /\ NoneSlipsThrough
    /\ SeenIsSynced
    /\ PollModes
    /\ OldAwaitBaseline
    /\ CheckedHaveRows

-----------------------------------------------------------------------------

\* Pages are read in the order of the list.
LEMMA ReadInOrder ==
  ASSUME NEW i \in Nat \ {0}, NEW k \in Nat
  PROVE  /\ (i - 1) \div PageLimit \in Nat
         /\ \A j \in 1..i : IsRead(i, k) => IsRead(j, k)
         /\ i - 1 < k * PageLimit => IsRead(i, k)
         /\ IsRead(i, k + 1) => IsRead(i, k) \/ (i - 1) \div PageLimit = k
<1>1. (i - 1) \div PageLimit \in Nat
  BY PageAssumption
<1>2. ASSUME NEW j \in 1..i
      PROVE  (j - 1) \div PageLimit \in Nat /\ (j - 1) \div PageLimit <= (i - 1) \div PageLimit
  BY PageAssumption
<1>3. i - 1 < k * PageLimit => (i - 1) \div PageLimit < k
  BY PageAssumption
<1>4. QED
  BY <1>1, <1>2, <1>3 DEF IsRead

\* Before the first poll everything that is complete is old.
LEMMA InitHolds == Init => IInv
<1> SUFFICES ASSUME Init PROVE IInv
  OBVIOUS
<1> USE DEF Init
<1>1. PICK present \in SUBSET Torrents : qui \in SetToSeqs(present)
  OBVIOUS
<1>2. Cardinality(present) \in Nat
  BY TorrentsAssumption, FS_Subset, FS_CardinalityType
<1>3. qui \in Seq(Torrents)
  BY <1>1, <1>2 DEF SetToSeqs
<1>4. Listed \subseteq Torrents
  BY <1>3 DEF Listed, ToSet
<1>5. poll \in [on: BOOLEAN, page: Nat, full: BOOLEAN, baseline: BOOLEAN,
                seen: SUBSET Torrents] /\ ~poll.on /\ ~poll.full
  BY DEF NoPoll
<1>6. TypeOK
  BY <1>3, <1>4, <1>5, PlaceAssumption DEF TypeOK, Statuses
<1>7. NoneSlipsThrough /\ SeenIsSynced /\ PollModes
  BY <1>5 DEF NoneSlipsThrough, SeenIsSynced, PollModes
<1>8. OldAwaitBaseline /\ CheckedHaveRows
  BY <1>4, <1>5 DEF OldAwaitBaseline, CheckedHaveRows
<1>9. QED
  BY <1>6, <1>7, <1>8 DEF IInv

-----------------------------------------------------------------------------

\* A step outside QUI and the poll: a row keeps being one.
LEMMA RowsChange ==
  ASSUME IInv, UNCHANGED <<quiVars, history, baselineDone, crawlDone, tracker, poll>>,
         status' \in [Torrents -> Statuses],
         targets' \in [Torrents -> SUBSET Trackers],
         checking' \in SUBSET Torrents,
         \A t \in Torrents : (status[t] = "absent") = (status'[t] = "absent"),
         \A t \in checking' : status'[t] # "absent",
         reconcileDue' = reconcileDue \/ reconcileDue' = TRUE
  PROVE  IInv'
<1> USE DEF IInv, quiVars, history
<1>1. TypeOK'
  BY DEF TypeOK
<1>2. NoneSlipsThrough'
  BY DEF NoneSlipsThrough, IsRead
<1>3. SeenIsSynced'
  BY DEF SeenIsSynced
<1>4. PollModes'
  BY DEF PollModes
<1>5. OldAwaitBaseline'
  BY DEF OldAwaitBaseline, Listed, ToSet, TypeOK
<1>6. CheckedHaveRows'
  BY DEF CheckedHaveRows
<1>7. QED
  BY <1>1, <1>2, <1>3, <1>4, <1>5, <1>6

\* Checks and the user's commands write items that have a row.
LEMMA ItemsPreserve ==
  ASSUME IInv, NEW t \in Torrents,
         CheckStarts(t) \/ CheckEnds(t) \/ CheckRetries(t) \/ Recheck(t) \/ Ignore(t)
  PROVE  IInv'
<1> USE DEF IInv, TypeOK
<1>1. CASE CheckStarts(t)
  BY <1>1, RowsChange DEF CheckStarts, flags, CheckedHaveRows, Statuses
<1>2. CASE CheckEnds(t)
  <2>1. PICK found \in SUBSET Trackers : targets' = [targets EXCEPT ![t] = found]
    BY <1>2 DEF CheckEnds
  <2>2. QED
    BY <1>2, <2>1, RowsChange DEF CheckEnds, flags, CheckedHaveRows, Statuses
<1>3. CASE CheckRetries(t)
  BY <1>3, RowsChange DEF CheckRetries, flags, CheckedHaveRows, Statuses
<1>4. CASE Recheck(t) \/ Ignore(t)
  <2>1. PICK to \in {"queued", "ignored"} : Command(t, to)
    BY <1>4 DEF Recheck, Ignore
  <2>2. QED
    BY <2>1, RowsChange DEF Command, flags, CheckedHaveRows, Statuses
<1>5. QED
  BY <1>1, <1>2, <1>3, <1>4

-----------------------------------------------------------------------------

\* What QUI may say of a torrent names a tracker or none.
LEMMA DetectType ==
  ASSUME NEW p \in Places
  PROVE  DetectTracker(p) \in Trackers \cup {NoTracker}
BY PlaceAssumption DEF DetectTracker

\* Adding a torrent pushes those of the list back by one position.
LEMMA PushType ==
  ASSUME NEW s \in Seq(Torrents), NEW t \in Torrents
  PROVE  /\ <<t>> \o s \in Seq(Torrents)
         /\ \A k \in DOMAIN s : k + 1 \in DOMAIN (<<t>> \o s) /\ (<<t>> \o s)[k + 1] = s[k]
OBVIOUS

\* Taking one away leaves those before it, and those behind it move up.
LEMMA RemoveType ==
  ASSUME NEW s \in Seq(Torrents), NEW i \in DOMAIN s
  PROVE  /\ RemoveAt(s, i) \in Seq(Torrents)
         /\ \A k \in 1..(i - 1) : k \in DOMAIN RemoveAt(s, i) /\ RemoveAt(s, i)[k] = s[k]
         /\ \A k \in (i + 1)..Len(s) :
               k - 1 \in DOMAIN RemoveAt(s, i) /\ RemoveAt(s, i)[k - 1] = s[k]
<1> DEFINE front == SubSeq(s, 1, i - 1)
           back == SubSeq(s, i + 1, Len(s))
<1>1. front \in Seq(Torrents) /\ Len(front) = i - 1 /\ \A k \in 1..(i - 1) : front[k] = s[k]
  OBVIOUS
<1>2. /\ back \in Seq(Torrents) /\ Len(back) = Len(s) - i
      /\ \A k \in 1..(Len(s) - i) : back[k] = s[i + k]
  OBVIOUS
<1> HIDE DEF front, back
<1>3. /\ front \o back \in Seq(Torrents) /\ Len(front \o back) = Len(s) - 1
      /\ \A k \in 1..(i - 1) : (front \o back)[k] = s[k]
  <2>1. /\ front \o back \in Seq(Torrents)
        /\ Len(front \o back) = Len(front) + Len(back)
        /\ \A k \in 1..Len(front) + Len(back) :
              (front \o back)[k] = IF k <= Len(front) THEN front[k] ELSE back[k - Len(front)]
    BY <1>1, <1>2, ConcatProperties
  <2>2. Len(front) + Len(back) = Len(s) - 1
    BY <1>1, <1>2
  <2>3. ASSUME NEW k \in 1..(i - 1)
        PROVE  (front \o back)[k] = s[k]
    BY <1>1, <1>2, <2>1
  <2>4. QED
    BY <2>1, <2>2, <2>3
<1>4. ASSUME NEW k \in (i + 1)..Len(s)
      PROVE  k - 1 \in DOMAIN (front \o back) /\ (front \o back)[k - 1] = s[k]
  <2>1. (front \o back)[k - 1] = back[k - 1 - Len(front)]
    <3>1. \A j \in 1..Len(front) + Len(back) :
             (front \o back)[j] = IF j <= Len(front) THEN front[j] ELSE back[j - Len(front)]
      BY <1>1, <1>2, ConcatProperties
    <3>2. k - 1 \in 1..Len(front) + Len(back) /\ ~(k - 1 <= Len(front))
      BY <1>1, <1>2
    <3>3. QED
      BY <3>1, <3>2
  <2>2. back[k - i] = s[i + (k - i)]
    BY <1>2
  <2>3. k - 1 - Len(front) = k - i /\ i + (k - i) = k /\ k - 1 \in 1..(Len(s) - 1)
    BY <1>1
  <2>4. DOMAIN (front \o back) = 1..(Len(s) - 1)
    BY <1>3
  <2>5. QED
    BY <2>1, <2>2, <2>3, <2>4
<1>5. RemoveAt(s, i) = front \o back
  BY DEF RemoveAt, front, back
<1>6. \A k \in 1..(i - 1) : k \in DOMAIN (front \o back)
  BY <1>3
<1>7. QED
  BY <1>3, <1>4, <1>5, <1>6

-----------------------------------------------------------------------------

\* Two status maps with the same inventory have the same coverage.
LEMMA SameCoverage ==
  ASSUME NEW s, NEW r, \A t \in Torrents : (s[t] = "inventory") = (r[t] = "inventory")
  PROVE  Coverage(s) = Coverage(r)
BY DEF Coverage

\* Resolving covered candidates touches the covered, the decided and the
\* missing only, and leaves coverage as it is.
LEMMA ResolveMoves ==
  ASSUME NEW s \in [Torrents -> Statuses], NEW lost \in SUBSET Torrents,
         \A t \in lost : s[t] = "covered",
         targets \in [Torrents -> SUBSET Trackers], Resolve(s, lost)
  PROVE  /\ status' \in [Torrents -> Statuses]
         /\ targets' \in [Torrents -> SUBSET Trackers]
         /\ Coverage(status') = Coverage(s)
         /\ \A t \in Torrents :
               /\ s[t] \notin {"covered", "decided", "missing"} => status'[t] = s[t]
               /\ status'[t] \in {s[t], "covered"} \/ (status'[t] = "queued" /\ t \in lost)
               /\ targets'[t] \in {{}, targets[t]}
<1> DEFINE requeued == [t \in Torrents |-> IF t \in lost THEN "queued" ELSE s[t]]
           covered == NowCovered(requeued)
<1>1. /\ status' = [t \in Torrents |-> IF t \in covered THEN "covered" ELSE requeued[t]]
      /\ targets' \in [Torrents -> SUBSET Trackers]
      /\ \A t \in Torrents : targets'[t] \in {{}, targets[t]}
  BY DEF Resolve
<1>2. requeued \in [Torrents -> Statuses]
  BY DEF Statuses
<1>3. \A t \in covered : requeued[t] \in {"decided", "missing"}
  BY DEF NowCovered
<1>4. \A t \in Torrents : requeued[t] = IF t \in lost THEN "queued" ELSE s[t]
  OBVIOUS
<1> HIDE DEF requeued, covered
<1>5. status' \in [Torrents -> Statuses]
  BY <1>1, <1>2 DEF Statuses
<1>6. ASSUME NEW t \in Torrents
      PROVE  /\ s[t] \notin {"covered", "decided", "missing"} => status'[t] = s[t]
             /\ status'[t] \in {s[t], "covered"} \/ (status'[t] = "queued" /\ t \in lost)
  <2>1. CASE t \in covered
    BY <2>1, <1>1, <1>3, <1>4
  <2>2. CASE t \notin covered
    BY <2>2, <1>1, <1>4
  <2>3. QED
    BY <2>1, <2>2
<1>7. Coverage(status') = Coverage(s)
  <2>1. \A t \in Torrents : (status'[t] = "inventory") = (s[t] = "inventory")
    BY <1>6
  <2>2. QED
    BY <2>1, SameCoverage
<1>8. QED
  BY <1>1, <1>5, <1>6, <1>7

\* After a requeue of what is lost, the covered are covered and the decided
\* are not.
LEMMA ResolveIsExact ==
  ASSUME NEW s \in [Torrents -> Statuses], NEW t \in Torrents,
         targets \in [Torrents -> SUBSET Trackers], Resolve(s, LostCoverage(s))
  PROVE  /\ status'[t] = "covered" => targets'[t] \subseteq Coverage(s)
         /\ status'[t] = "decided" /\ targets'[t] # {} => ~(targets'[t] \subseteq Coverage(s))
<1> DEFINE requeued == [u \in Torrents |-> IF u \in LostCoverage(s) THEN "queued" ELSE s[u]]
           covered == NowCovered(requeued)
<1>1. /\ status'[t] = IF t \in covered THEN "covered" ELSE requeued[t]
      /\ targets'[t] \in {{}, targets[t]}
  BY DEF Resolve
<1>2. requeued[t] = IF t \in LostCoverage(s) THEN "queued" ELSE s[t]
  OBVIOUS
<1>3. Coverage(requeued) = Coverage(s)
  <2>1. \A u \in Torrents : (requeued[u] = "inventory") = (s[u] = "inventory")
    BY DEF LostCoverage
  <2>2. QED
    BY <2>1, SameCoverage
<1>4. /\ t \in covered => targets[t] \subseteq Coverage(s)
      /\ requeued[t] = "decided" /\ t \notin covered =>
            targets[t] = {} \/ ~(targets[t] \subseteq Coverage(s))
  BY <1>3 DEF NowCovered
<1>5. s[t] = "covered" /\ t \notin LostCoverage(s) => targets[t] \subseteq Coverage(s)
  BY DEF LostCoverage
<1> HIDE DEF requeued, covered
<1>6. QED
  BY <1>1, <1>2, <1>4, <1>5

-----------------------------------------------------------------------------

\* What PollPage reads, what of it is new to the poll, what the poll has seen
\* with it, and the rows as the page leaves them.
ReadPage == {qui[i] : i \in {j \in DOMAIN qui : (j - 1) \div PageLimit = poll.page}}
Fresh == ReadPage \ poll.seen
SeenNow == poll.seen \cup ReadPage
Found == Discover(Fresh, poll.baseline)

\* A page goes on to the next one, or ends the poll in one of two ways.
LEMMA PageOutcomes ==
  ASSUME PollPage
  PROVE  /\ poll.on /\ tracker' = Sync(Fresh) /\ UNCHANGED <<quiVars, commands>>
         /\ old' = {t \in old : status'[t] = "absent"}
         /\ \/ EndPoll(Found, SeenNow, FALSE) /\ (poll.full => LastPage)
            \/ EndPoll(Found, SeenNow, TRUE) /\ ~LastPage
            \/ /\ poll' = [poll EXCEPT !.page = @ + 1, !.seen = SeenNow]
               /\ status' = Found
               /\ UNCHANGED <<gone, slid, altered, targets, checking, flags>>
BY DEF PollPage, ReadPage, Fresh, SeenNow, Found

\* Rows are added, for complete torrents of the page, and none is changed.
LEMMA FoundType ==
  ASSUME IInv
  PROVE  /\ ReadPage \subseteq Torrents
         /\ Found \in [Torrents -> Statuses]
         /\ \A t \in Torrents :
               /\ status[t] # "absent" => Found[t] = status[t]
               /\ Found[t] # status[t] =>
                     t \in complete /\ Found[t] \in {"inventory", "baseline", "queued"}
               /\ t \in Fresh \cap complete => Found[t] # "absent"
               /\ poll.baseline /\ Found[t] = "queued" => status[t] = "queued"
<1> USE DEF IInv, TypeOK
<1>1. ReadPage \subseteq Torrents
  BY DEF ReadPage
<1>2. ASSUME NEW t \in Torrents
      PROVE  /\ Found[t] = IF t \notin Fresh \/ status[t] # "absent" \/ t \notin complete
                           THEN status[t]
                           ELSE IF IsSupport(place[t]) THEN "inventory"
                           ELSE IF poll.baseline THEN "baseline" ELSE "queued"
             /\ Found[t] \in Statuses
  BY DEF Found, Discover, Statuses
<1>3. Found \in [Torrents -> Statuses]
  BY <1>2 DEF Found, Discover
<1>4. QED
  BY <1>1, <1>2, <1>3

\* Marking the missing touches rows only that the poll has not seen.
LEMMA MarkType ==
  ASSUME NEW s \in [Torrents -> Statuses], NEW seen
  PROVE  /\ MarkMissing(s, seen) \in [Torrents -> Statuses]
         /\ \A t \in Torrents :
               \/ MarkMissing(s, seen)[t] = s[t]
               \/ MarkMissing(s, seen)[t] = "missing" /\ t \notin seen /\ s[t] # "absent"
<1>1. ASSUME NEW t \in Torrents
      PROVE  /\ MarkMissing(s, seen)[t] \in Statuses
             /\ \/ MarkMissing(s, seen)[t] = s[t]
                \/ MarkMissing(s, seen)[t] = "missing" /\ t \notin seen /\ s[t] # "absent"
  BY DEF MarkMissing, Statuses
<1>2. QED
  BY <1>1 DEF MarkMissing

\* The rows a page leaves behind, however the poll goes on.
LEMMA PageWrites ==
  ASSUME IInv, PollPage
  PROVE  /\ status' \in [Torrents -> Statuses]
         /\ targets' \in [Torrents -> SUBSET Trackers]
         /\ checking' = checking
         /\ \A t \in Torrents :
               /\ status'[t] = "absent" <=> Found[t] = "absent"
               /\ status'[t] = "missing" =>
                     \/ status[t] = "missing"
                     \/ poll.full /\ LastPage /\ t \notin SeenNow
               /\ status'[t] = "queued" => Found[t] \in {"queued", "covered"}
<1> DEFINE marked == MarkMissing(Found, SeenNow)
<1>1. targets \in [Torrents -> SUBSET Trackers]
  BY DEF IInv, TypeOK
<1>2. /\ Found \in [Torrents -> Statuses]
      /\ \A t \in Torrents : Found[t] = "missing" => status[t] = "missing"
  BY FoundType
<1>3. /\ marked \in [Torrents -> Statuses]
      /\ \A t \in Torrents :
            \/ marked[t] = Found[t]
            \/ marked[t] = "missing" /\ t \notin SeenNow /\ Found[t] # "absent"
  BY <1>2, MarkType
<1> HIDE DEF marked
<1>4. CASE status' = Found /\ UNCHANGED <<targets, checking>>
  BY <1>4, <1>1, <1>2
<1>5. CASE Resolve(Found, {}) /\ UNCHANGED checking
  <2>1. {} \in SUBSET Torrents /\ \A t \in {} : Found[t] = "covered"
    OBVIOUS
  <2>2. /\ status' \in [Torrents -> Statuses]
        /\ targets' \in [Torrents -> SUBSET Trackers]
        /\ \A t \in Torrents :
              /\ Found[t] \notin {"covered", "decided", "missing"} => status'[t] = Found[t]
              /\ status'[t] \in {Found[t], "covered"}
    BY <1>1, <1>2, <1>5, <2>1, ResolveMoves
  <2>3. QED
    BY <1>2, <1>5, <2>2
<1>6. CASE Resolve(marked, LostCoverage(marked)) /\ poll.full /\ LastPage /\ UNCHANGED checking
  <2> DEFINE lost == LostCoverage(marked)
  <2>1. lost \in SUBSET Torrents /\ \A t \in lost : marked[t] = "covered"
    BY DEF LostCoverage
  <2> HIDE DEF lost
  <2>2. Resolve(marked, lost)
    BY <1>6 DEF lost
  <2>3. /\ status' \in [Torrents -> Statuses]
        /\ targets' \in [Torrents -> SUBSET Trackers]
        /\ \A t \in Torrents :
              /\ marked[t] \notin {"covered", "decided", "missing"} => status'[t] = marked[t]
              /\ status'[t] \in {marked[t], "covered"} \/ (status'[t] = "queued" /\ t \in lost)
    BY <1>1, <1>3, <2>1, <2>2, ResolveMoves
  <2>4. QED
    BY <1>2, <1>3, <1>6, <2>1, <2>3
<1>7. QED
  BY <1>4, <1>5, <1>6, PageOutcomes DEF EndPoll, marked

\* At the end of the list the poll has seen whatever could not slip through.
LEMMA CrawlSawAll ==
  ASSUME IInv, poll.on, LastPage, NEW t \in Torrents \ (gone \cup slid)
  PROVE  t \in SeenNow
<1>1. PICK i \in DOMAIN qui : qui[i] = t /\ (IsRead(i, poll.page) => t \in poll.seen)
  BY DEF IInv, NoneSlipsThrough
<1>2. i \in Nat \ {0} /\ i <= Len(qui) /\ Len(qui) \in Nat /\ poll.page \in Nat
  BY <1>1 DEF IInv, TypeOK
<1>3. (poll.page + 1) * PageLimit \in Nat
  BY <1>2, PageAssumption
<1>4. i - 1 < (poll.page + 1) * PageLimit
  BY <1>2, <1>3 DEF LastPage
<1>5. IsRead(i, poll.page + 1)
  BY <1>2, <1>4, ReadInOrder
<1>6. IsRead(i, poll.page) \/ (i - 1) \div PageLimit = poll.page
  BY <1>2, <1>5, ReadInOrder
<1>7. QED
  BY <1>1, <1>6 DEF SeenNow, ReadPage

\* A page that goes on, with nothing that stayed slipping through.
LEMMA PageContinues ==
  ASSUME IInv, PollPage, poll' = [poll EXCEPT !.page = @ + 1, !.seen = SeenNow],
         UNCHANGED <<gone, slid, altered, flags>>
  PROVE  NoneSlipsThrough' /\ SeenIsSynced' /\ PollModes' /\ OldAwaitBaseline'
<1> USE DEF quiVars, flags
<1>1. /\ UNCHANGED <<qui, complete, place>> /\ poll.on
      /\ tracker' = Sync(Fresh) /\ old' = {t \in old : status'[t] = "absent"}
  BY PageOutcomes
<1>2. /\ poll'.on = poll.on /\ poll'.full = poll.full /\ poll'.baseline = poll.baseline
      /\ poll'.page = poll.page + 1 /\ poll'.seen = SeenNow /\ poll.page \in Nat
  BY DEF IInv, TypeOK
<1>3. NoneSlipsThrough'
  <2> SUFFICES ASSUME NEW t \in Torrents \ (gone \cup slid)
               PROVE  \E i \in DOMAIN qui : qui[i] = t /\ (IsRead(i, poll.page + 1) => t \in SeenNow)
    BY <1>1, <1>2 DEF NoneSlipsThrough, IsRead
  <2>1. PICK i \in DOMAIN qui : qui[i] = t /\ (IsRead(i, poll.page) => t \in poll.seen)
    BY <1>1 DEF IInv, NoneSlipsThrough
  <2>2. i \in Nat \ {0}
    BY DEF IInv, TypeOK
  <2>3. IsRead(i, poll.page + 1) => IsRead(i, poll.page) \/ (i - 1) \div PageLimit = poll.page
    BY <1>2, <2>2, ReadInOrder
  <2>4. QED
    BY <2>1, <2>3 DEF SeenNow, ReadPage
<1>4. SeenIsSynced'
  <2> SUFFICES ASSUME poll.full, NEW t \in (SeenNow \cap complete) \ (gone \cup slid \cup altered)
               PROVE  tracker'[t] = DetectTracker(place[t])
    BY <1>1, <1>2 DEF SeenIsSynced
  <2>1. t \in Torrents
    BY DEF IInv, TypeOK
  <2>2. tracker'[t] = IF t \in Fresh THEN DetectTracker(place[t]) ELSE tracker[t]
    BY <1>1, <2>1 DEF Sync
  <2>3. QED
    BY <1>1, <2>2 DEF IInv, SeenIsSynced, SeenNow, Fresh
<1>5. PollModes'
  BY <1>2 DEF IInv, PollModes
<1>6. OldAwaitBaseline'
  <2>1. old' \cap SeenNow = {}
    <3> SUFFICES ASSUME NEW t \in old', t \in SeenNow PROVE FALSE
      OBVIOUS
    <3>1. t \in old /\ status'[t] = "absent" /\ t \in Torrents
      BY <1>1 DEF IInv, TypeOK
    <3>2. t \in Fresh \cap complete
      BY <1>1, <3>1 DEF IInv, OldAwaitBaseline, Fresh, SeenNow
    <3>3. Found[t] # "absent"
      BY <3>1, <3>2, FoundType
    <3>4. QED
      BY <3>1, <3>3, PageWrites
  <2>2. Listed' = Listed
    BY <1>1 DEF Listed
  <2>3. QED
    BY <1>1, <1>2, <2>1, <2>2 DEF IInv, OldAwaitBaseline
<1>7. QED
  BY <1>3, <1>4, <1>5, <1>6

\* Without a poll nothing is promised of one.
LEMMA PollIsOver ==
  ASSUME Stop
  PROVE  NoneSlipsThrough' /\ SeenIsSynced' /\ ~poll'.on /\ ~poll'.full
BY DEF Stop, NoPoll, NoneSlipsThrough, SeenIsSynced

\* A poll that ends leaves an old torrent only if the crawl was cut off.
LEMMA PageEnds ==
  ASSUME IInv, PollPage, NEW truncated \in BOOLEAN,
         EndPoll(Found, SeenNow, truncated), poll.full => LastPage \/ truncated
  PROVE  NoneSlipsThrough' /\ SeenIsSynced' /\ PollModes' /\ OldAwaitBaseline'
<1>1. /\ UNCHANGED <<qui, complete>> /\ poll.on
      /\ old' = {t \in old : status'[t] = "absent"}
  BY PageOutcomes DEF quiVars
<1>2. /\ Stop
      /\ baselineDone' = (baselineDone \/ ~truncated)
      /\ crawlDone' = (crawlDone \/ (poll.full /\ ~truncated))
  BY DEF EndPoll
<1>3. NoneSlipsThrough' /\ SeenIsSynced' /\ ~poll'.on /\ ~poll'.full
  BY <1>2, PollIsOver
<1>4. PollModes'
  BY <1>1, <1>2, <1>3 DEF IInv, TypeOK, PollModes
<1>5. crawlDone' => old' = {}
  <2> SUFFICES ASSUME crawlDone', NEW t \in old' PROVE FALSE
    OBVIOUS
  <2>1. t \in old /\ status'[t] = "absent" /\ t \in Torrents
    BY <1>1 DEF IInv, TypeOK
  <2>2. poll.full /\ LastPage
    BY <1>2, <2>1 DEF IInv, OldAwaitBaseline
  <2>3. t \in complete /\ t \notin poll.seen \cup gone \cup slid
    BY <1>1, <2>1 DEF IInv, OldAwaitBaseline
  <2>4. t \in SeenNow
    BY <1>1, <2>1, <2>2, <2>3, CrawlSawAll
  <2>5. Found[t] # "absent"
    BY <2>1, <2>3, <2>4, FoundType DEF Fresh, SeenNow
  <2>6. QED
    BY <2>1, <2>5, PageWrites
<1>6. Listed' = Listed
  BY <1>1 DEF Listed
<1>7. OldAwaitBaseline'
  BY <1>1, <1>3, <1>5, <1>6 DEF IInv, OldAwaitBaseline
<1>8. QED
  BY <1>3, <1>4, <1>7

\* The page that a poll reads.
LEMMA PagePreserves ==
  ASSUME IInv, PollPage
  PROVE  IInv'
<1>1. /\ UNCHANGED <<qui, complete, place>> /\ poll.on
      /\ tracker' = Sync(Fresh) /\ old' = {t \in old : status'[t] = "absent"}
  BY PageOutcomes DEF quiVars
<1>2. /\ status' \in [Torrents -> Statuses]
      /\ targets' \in [Torrents -> SUBSET Trackers]
      /\ checking' = checking
  BY PageWrites
<1>3. tracker' \in [Torrents -> Trackers \cup {NoTracker}]
  <2>1. \A t \in Torrents : DetectTracker(place[t]) \in Trackers \cup {NoTracker}
    BY DetectType DEF IInv, TypeOK
  <2>2. QED
    BY <1>1, <2>1 DEF Sync, IInv, TypeOK
<1>4. SeenNow \subseteq Torrents
  BY FoundType DEF SeenNow, IInv, TypeOK
<1>5. CheckedHaveRows'
  <2> SUFFICES ASSUME NEW t \in checking PROVE status'[t] # "absent"
    BY <1>2 DEF CheckedHaveRows
  <2>1. t \in Torrents /\ status[t] # "absent"
    BY DEF IInv, TypeOK, CheckedHaveRows
  <2>2. QED
    BY <2>1, FoundType, PageWrites
<1>6. CASE /\ poll' = [poll EXCEPT !.page = @ + 1, !.seen = SeenNow]
           /\ UNCHANGED <<gone, slid, altered, flags>>
  <2>1. poll' \in [on: BOOLEAN, page: Nat, full: BOOLEAN, baseline: BOOLEAN,
                   seen: SUBSET Torrents]
    <3>1. poll \in [on: BOOLEAN, page: Nat, full: BOOLEAN, baseline: BOOLEAN,
                    seen: SUBSET Torrents]
      BY DEF IInv, TypeOK
    <3>2. poll.page + 1 \in Nat /\ SeenNow \in SUBSET Torrents
      BY <1>4, <3>1
    <3>3. QED
      BY <1>6, <3>1, <3>2
  <2>2. TypeOK'
    BY <1>1, <1>2, <1>3, <1>6, <2>1 DEF IInv, TypeOK, flags
  <2>3. QED
    BY <1>5, <1>6, <2>2, PageContinues DEF IInv
<1>7. ASSUME NEW truncated \in BOOLEAN, EndPoll(Found, SeenNow, truncated),
             poll.full => LastPage \/ truncated
      PROVE  IInv'
  <2>1. poll' \in [on: BOOLEAN, page: Nat, full: BOOLEAN, baseline: BOOLEAN,
                   seen: SUBSET Torrents] /\ gone' = {} /\ slid' = {} /\ altered' = {}
    BY <1>7 DEF EndPoll, Stop, NoPoll
  <2>2. {baselineDone', crawlDone', reconcileDue'} \subseteq BOOLEAN
    BY <1>7 DEF EndPoll
  <2>3. TypeOK'
    BY <1>1, <1>2, <1>3, <2>1, <2>2 DEF IInv, TypeOK
  <2>4. QED
    BY <1>5, <1>7, <2>3, PageEnds DEF IInv
<1>8. QED
  BY <1>6, <1>7, PageOutcomes

-----------------------------------------------------------------------------

\* A poll begins with the list as it is then.
LEMMA StartPreserves ==
  ASSUME IInv, PollStarts
  PROVE  IInv'
<1> USE DEF PollStarts, quiVars, flags, items
<1>1. /\ poll' \in [on: BOOLEAN, page: Nat, full: BOOLEAN, baseline: BOOLEAN,
                    seen: SUBSET Torrents]
      /\ poll'.on /\ poll'.page = 0 /\ poll'.seen = {}
      /\ poll'.full = (~crawlDone \/ reconcileDue)
      /\ poll'.baseline = IF baselineDone THEN poll'.full ELSE KeepExisting
  BY KeepAssumption DEF IInv, TypeOK
<1>2. TypeOK'
  BY <1>1 DEF IInv, TypeOK
<1>3. NoneSlipsThrough'
  <2> SUFFICES ASSUME NEW t \in Torrents \ (gone' \cup slid')
               PROVE  \E i \in DOMAIN qui : qui[i] = t /\ ~IsRead(i, 0)
    BY <1>1 DEF NoneSlipsThrough, IsRead
  <2>1. PICK i \in DOMAIN qui : qui[i] = t
    BY DEF Listed, ToSet
  <2>2. i \in Nat \ {0}
    BY DEF IInv, TypeOK
  <2>3. (i - 1) \div PageLimit \in Nat
    BY <2>2, ReadInOrder
  <2>4. QED
    BY <2>1, <2>3 DEF IsRead
<1>4. SeenIsSynced' /\ PollModes'
  BY <1>1 DEF IInv, TypeOK, SeenIsSynced, PollModes
<1>5. OldAwaitBaseline'
  BY <1>1 DEF IInv, OldAwaitBaseline, PollModes, Listed
<1>6. CheckedHaveRows'
  BY DEF IInv, CheckedHaveRows
<1>7. QED
  BY <1>2, <1>3, <1>4, <1>5, <1>6 DEF IInv

\* A poll that fails leaves the flags and the old torrents for the next one.
LEMMA FailPreserves ==
  ASSUME IInv, PollFails
  PROVE  IInv'
<1> USE DEF PollFails, quiVars, flags, items
<1>1. NoneSlipsThrough' /\ SeenIsSynced' /\ ~poll'.on /\ ~poll'.full
  BY PollIsOver
<1>2. TypeOK'
  BY DEF IInv, TypeOK, Stop, NoPoll
<1>3. PollModes' /\ OldAwaitBaseline' /\ CheckedHaveRows'
  BY <1>1 DEF IInv, PollModes, OldAwaitBaseline, CheckedHaveRows, Listed
<1>4. QED
  BY <1>1, <1>2, <1>3 DEF IInv

\* The time of a reconciliation comes.
LEMMA TimePreserves ==
  ASSUME IInv, ReconcileTime
  PROVE  IInv'
BY RowsChange DEF ReconcileTime, items, IInv, TypeOK, CheckedHaveRows

-----------------------------------------------------------------------------

\* QUI gets a torrent: the others are pushed down.
LEMMA AddPreserves ==
  ASSUME IInv, NEW t \in Torrents, Add(t)
  PROVE  IInv'
<1> USE DEF Add, QuiChanges, flags, items
<1>1. qui' \in Seq(Torrents) /\ \A k \in DOMAIN qui : k + 1 \in DOMAIN qui' /\ qui'[k + 1] = qui[k]
  BY PushType DEF IInv, TypeOK
<1>2. TypeOK'
  BY <1>1 DEF IInv, TypeOK
<1>3. NoneSlipsThrough'
  <2> SUFFICES ASSUME poll.on, NEW u \in Torrents \ (gone \cup slid)
               PROVE  \E i \in DOMAIN qui' : qui'[i] = u /\ (IsRead(i, poll.page) => u \in poll.seen)
    BY DEF NoneSlipsThrough, IsRead
  <2>1. PICK k \in DOMAIN qui : qui[k] = u /\ (IsRead(k, poll.page) => u \in poll.seen)
    BY DEF IInv, NoneSlipsThrough
  <2>2. k \in Nat \ {0} /\ k + 1 \in Nat \ {0} /\ k \in 1..(k + 1) /\ poll.page \in Nat
    BY DEF IInv, TypeOK
  <2>3. IsRead(k + 1, poll.page) => IsRead(k, poll.page)
    BY <2>2, ReadInOrder
  <2>4. QED
    BY <1>1, <2>1, <2>3
<1>4. SeenIsSynced'
  <2>1. poll.on => t \in gone \cup slid
    BY DEF IInv, NoneSlipsThrough, Listed, ToSet
  <2>2. QED
    BY <2>1 DEF IInv, SeenIsSynced
<1>5. Listed \subseteq Listed'
  BY <1>1 DEF Listed, ToSet
<1>6. PollModes' /\ OldAwaitBaseline' /\ CheckedHaveRows'
  BY <1>5 DEF IInv, PollModes, OldAwaitBaseline, CheckedHaveRows
<1>7. QED
  BY <1>2, <1>3, <1>4, <1>6 DEF IInv

\* A torrent completes, or QUI says something else of it.
LEMMA AlterPreserves ==
  ASSUME IInv, NEW t \in Torrents, Complete(t) \/ \E p \in Places : Move(t, p)
  PROVE  IInv'
<1> USE DEF Complete, Move, QuiChanges, flags, items
<1>1. /\ UNCHANGED <<qui, gone, slid, old, baselineDone, crawlDone, reconcileDue,
                     status, targets, tracker, checking, poll>>
      /\ complete \subseteq complete' /\ complete' \subseteq complete \cup {t}
      /\ place' \in [Torrents -> Places]
      /\ \A u \in Torrents \ {t} : place'[u] = place[u]
      /\ altered' = IF poll.on THEN altered \cup {t} ELSE {}
  BY DEF IInv, TypeOK
<1>2. TypeOK'
  BY <1>1 DEF IInv, TypeOK
<1>3. NoneSlipsThrough'
  BY <1>1 DEF IInv, NoneSlipsThrough, IsRead
<1>4. SeenIsSynced'
  BY <1>1 DEF IInv, TypeOK, SeenIsSynced
<1>5. PollModes' /\ OldAwaitBaseline' /\ CheckedHaveRows'
  BY <1>1 DEF IInv, PollModes, OldAwaitBaseline, CheckedHaveRows, Listed
<1>6. QED
  BY <1>2, <1>3, <1>4, <1>5 DEF IInv

\* One is removed: those behind it may slip through, those before it cannot.
LEMMA TakeAwayPreserves ==
  ASSUME IInv, NEW i, TakeAway(i)
  PROVE  IInv'
<1> DEFINE behind == {qui[j] : j \in {k \in DOMAIN qui : k > i}}
<1> USE DEF QuiChanges, flags, items
<1>1. /\ i \in DOMAIN qui /\ qui' = RemoveAt(qui, i) /\ complete' = complete \ {qui[i]}
      /\ gone' = IF poll.on THEN gone \cup {qui[i]} ELSE {}
      /\ slid' = slid \cup (IF poll.on THEN behind ELSE {})
      /\ old' = old \ ({qui[i]} \cup (IF poll.on THEN behind ELSE {}))
      /\ UNCHANGED <<place, altered, flags, items, poll>>
  BY DEF TakeAway
<1>2. /\ qui \in Seq(Torrents) /\ qui' \in Seq(Torrents)
      /\ \A k \in 1..(i - 1) : k \in DOMAIN qui' /\ qui'[k] = qui[k]
      /\ \A k \in (i + 1)..Len(qui) : k - 1 \in DOMAIN qui' /\ qui'[k - 1] = qui[k]
  <2>1. qui \in Seq(Torrents)
    BY DEF IInv, TypeOK
  <2>2. QED
    BY <1>1, <2>1, RemoveType
<1>3. behind \subseteq Torrents /\ qui[i] \in Torrents /\ i \in 1..Len(qui)
  BY <1>1, <1>2
<1>4. TypeOK'
  BY <1>1, <1>2, <1>3 DEF IInv, TypeOK
<1>5. NoneSlipsThrough'
  <2> SUFFICES ASSUME poll.on, NEW t \in Torrents \ (gone' \cup slid')
               PROVE  \E k \in DOMAIN qui' : qui'[k] = t /\ (IsRead(k, poll.page) => t \in poll.seen)
    BY <1>1 DEF NoneSlipsThrough, IsRead
  <2>1. PICK k \in DOMAIN qui : qui[k] = t /\ (IsRead(k, poll.page) => t \in poll.seen)
    BY <1>1 DEF IInv, NoneSlipsThrough
  <2>2. k # i /\ ~(k > i)
    BY <1>1, <2>1
  <2>3. k \in 1..(i - 1)
    BY <1>2, <1>3, <2>2
  <2>4. QED
    BY <1>2, <2>1, <2>3
<1>6. SeenIsSynced'
  BY <1>1 DEF IInv, SeenIsSynced
<1>7. ASSUME NEW t \in old' PROVE t \in Listed'
  <2>1. PICK k \in DOMAIN qui : qui[k] = t
    BY <1>1 DEF IInv, OldAwaitBaseline, Listed, ToSet
  <2>2. k \in 1..(i - 1) \/ k \in (i + 1)..Len(qui)
    BY <1>1, <1>2, <1>3, <2>1
  <2>3. QED
    BY <1>2, <2>1, <2>2 DEF Listed, ToSet
<1>8. OldAwaitBaseline'
  BY <1>1, <1>7 DEF IInv, OldAwaitBaseline
<1>9. PollModes' /\ CheckedHaveRows'
  BY <1>1 DEF IInv, PollModes, CheckedHaveRows
<1>10. QED
  BY <1>4, <1>5, <1>6, <1>8, <1>9 DEF IInv

-----------------------------------------------------------------------------

\* A step keeps the invariant.
LEMMA NextKeeps ==
  ASSUME IInv, [Next]_vars
  PROVE  IInv'
<1>1. CASE UNCHANGED vars
  BY <1>1, RowsChange DEF vars, quiVars, history, flags, items, IInv, TypeOK, CheckedHaveRows
<1>2. CASE PollStarts \/ PollPage \/ PollFails \/ ReconcileTime
  BY <1>2, StartPreserves, PagePreserves, FailPreserves, TimePreserves
<1>3. ASSUME NEW t \in Torrents,
             \/ CheckStarts(t) \/ CheckEnds(t) \/ CheckRetries(t)
             \/ Recheck(t) \/ Ignore(t) \/ Add(t) \/ Complete(t)
             \/ \E p \in Places : Move(t, p)
      PROVE  IInv'
  BY <1>3, ItemsPreserve, AddPreserves, AlterPreserves
<1>4. ASSUME NEW i, TakeAway(i) PROVE IInv'
  BY <1>4, TakeAwayPreserves
<1>5. QED
  BY <1>1, <1>2, <1>3, <1>4 DEF Next

\* For any list of QUI and any changes of it.
THEOREM InductiveInvariant == Spec => []IInv
<1>1. IInv /\ [Next]_vars => IInv'
  BY NextKeeps
<1>2. QED
  BY InitHolds, <1>1, PTL DEF Spec

-----------------------------------------------------------------------------

\* Outside a page no row is made, nothing is marked missing, and no crawl is
\* reconciled.
LEMMA OutsidePages ==
  ASSUME IInv, [Next]_vars, ~PollPage
  PROVE  /\ ~Reconciles
         /\ \A t \in Torrents :
               status'[t] = status[t] \/ (status[t] # "absent" /\ status'[t] # "missing")
<1> USE DEF quiVars, history, flags, items
<1>1. /\ status \in [Torrents -> Statuses]
      /\ \A t \in checking : t \in Torrents /\ status[t] # "absent"
      /\ poll.full /\ crawlDone => reconcileDue
  BY DEF IInv, TypeOK, CheckedHaveRows, PollModes
<1>2. CASE UNCHANGED vars
  BY <1>2 DEF vars, Reconciles
<1>3. CASE PollStarts \/ PollFails \/ ReconcileTime
  BY <1>1, <1>3 DEF PollStarts, PollFails, ReconcileTime, Stop, Reconciles
<1>4. ASSUME NEW t \in Torrents, CheckStarts(t) \/ CheckEnds(t) \/ CheckRetries(t)
      PROVE  /\ ~Reconciles
             /\ \A u \in Torrents :
                   status'[u] = status[u] \/ (status[u] # "absent" /\ status'[u] # "missing")
  BY <1>1, <1>4 DEF CheckStarts, CheckEnds, CheckRetries, Reconciles
<1>5. ASSUME NEW t \in Torrents, NEW to \in {"queued", "ignored"}, Command(t, to)
      PROVE  /\ ~Reconciles
             /\ \A u \in Torrents :
                   status'[u] = status[u] \/ (status[u] # "absent" /\ status'[u] # "missing")
  BY <1>1, <1>5 DEF Command, Reconciles
<1>6. CASE QuiChanges
  BY <1>6 DEF QuiChanges, Reconciles
<1>7. ASSUME NEW t \in Torrents, Add(t) \/ Complete(t) \/ \E p \in Places : Move(t, p)
      PROVE  QuiChanges
  BY <1>7 DEF Add, Complete, Move
<1>8. ASSUME NEW i, TakeAway(i) PROVE QuiChanges
  BY <1>8 DEF TakeAway
<1>9. QED
  BY <1>2, <1>3, <1>4, <1>5, <1>6, <1>7, <1>8 DEF Next, Recheck, Ignore

\* MissingWasGone: whatever QUI's list does between two pages, an item is
\* marked missing only if its torrent was away or moved up.
THEOREM MissingWasGoneHolds == Spec => MissingWasGone
<1> DEFINE Step == \A t \in Torrents :
                      status[t] # "missing" /\ status'[t] = "missing" => t \in gone \cup slid
<1>1. IInv /\ [Next]_vars => Step
  <2> SUFFICES ASSUME IInv, [Next]_vars, NEW t \in Torrents,
                      status[t] # "missing", status'[t] = "missing"
               PROVE  t \in gone \cup slid
    OBVIOUS
  <2>1. PollPage
    BY OutsidePages
  <2>2. poll.on /\ LastPage /\ t \notin SeenNow
    BY <2>1, PageOutcomes, PageWrites
  <2>3. QED
    BY <2>2, CrawlSawAll
<1>2. IInv /\ [Next]_vars => [Step]_vars
  BY <1>1
<1>3. QED
  BY InductiveInvariant, <1>2, PTL DEF Spec, MissingWasGone

\* FirstRunBaselines: however often the first crawl fails, a torrent that was
\* complete before it is never queued by a poll.
THEOREM FirstRunBaselinesHolds == Spec => FirstRunBaselines
<1> DEFINE Step == KeepExisting => \A t \in old : status'[t] # "queued"
<1>1. IInv /\ [Next]_vars => Step
  <2> SUFFICES ASSUME IInv, [Next]_vars, KeepExisting, NEW t \in old PROVE status'[t] # "queued"
    OBVIOUS
  <2>1. t \in Torrents /\ status[t] = "absent" /\ ~crawlDone
    BY DEF IInv, TypeOK, OldAwaitBaseline
  <2>2. CASE PollPage
    <3>1. poll.baseline
      BY <2>1, <2>2, PageOutcomes DEF IInv, OldAwaitBaseline
    <3>2. Found[t] \notin {"queued", "covered"}
      BY <2>1, <3>1, FoundType
    <3>3. QED
      BY <2>1, <2>2, <3>2, PageWrites
  <2>3. CASE ~PollPage
    BY <2>1, <2>3, OutsidePages
  <2>4. QED
    BY <2>2, <2>3
<1>2. IInv /\ [Next]_vars => [Step]_vars
  BY <1>1
<1>3. QED
  BY InductiveInvariant, <1>2, PTL DEF Spec, FirstRunBaselines

\* A crawl that reaches the end knows the tracker of all that held still.
LEMMA CrawlKnowsTrackers ==
  ASSUME IInv, PollPage, poll.full, LastPage,
         NEW t \in complete \ (gone \cup slid \cup altered)
  PROVE  tracker'[t] = DetectTracker(place[t])
<1>1. t \in Torrents /\ poll.on
  BY PageOutcomes DEF IInv, TypeOK
<1>2. t \in SeenNow
  BY <1>1, CrawlSawAll
<1>3. tracker'[t] = IF t \in Fresh THEN DetectTracker(place[t]) ELSE tracker[t]
  BY <1>1, PageOutcomes DEF Sync
<1>4. QED
  BY <1>1, <1>2, <1>3 DEF IInv, SeenIsSynced, SeenNow, Fresh

\* ReconcileIsExact: for any list and any changes of it, what a
\* reconciliation leaves covered is, and what it leaves decided is not.
THEOREM ReconcileIsExactHolds == Spec => ReconcileIsExact
<1> DEFINE Step ==
       Reconciles =>
          \A t \in Torrents :
             /\ status'[t] = "inventory" /\ t \in complete \ (gone \cup slid \cup altered) =>
                   tracker'[t] = DetectTracker(place[t])
             /\ status'[t] = "covered" => targets'[t] \subseteq Coverage(status')
             /\ status'[t] = "decided" /\ targets'[t] # {} =>
                   ~(targets'[t] \subseteq Coverage(status'))
<1>1. IInv /\ [Next]_vars => Step
  <2> SUFFICES ASSUME IInv, [Next]_vars, Reconciles, NEW t \in Torrents
               PROVE  /\ t \in complete \ (gone \cup slid \cup altered) =>
                            tracker'[t] = DetectTracker(place[t])
                      /\ status'[t] = "covered" => targets'[t] \subseteq Coverage(status')
                      /\ status'[t] = "decided" /\ targets'[t] # {} =>
                            ~(targets'[t] \subseteq Coverage(status'))
    OBVIOUS
  <2> DEFINE marked == MarkMissing(Found, SeenNow)
             lost == LostCoverage(marked)
  <2>1. PollPage /\ poll.full /\ LastPage
    BY OutsidePages DEF Reconciles
  <2>2. EndPoll(Found, SeenNow, FALSE)
    BY <2>1, PageOutcomes DEF Reconciles, flags
  <2>3. Resolve(marked, lost)
    BY <2>1, <2>2 DEF EndPoll
  <2>4. marked \in [Torrents -> Statuses]
    BY FoundType, MarkType
  <2>5. lost \in SUBSET Torrents /\ \A u \in lost : marked[u] = "covered"
    BY DEF LostCoverage
  <2>6. targets \in [Torrents -> SUBSET Trackers]
    BY DEF IInv, TypeOK
  <2>7. /\ status'[t] = "covered" => targets'[t] \subseteq Coverage(marked)
        /\ status'[t] = "decided" /\ targets'[t] # {} => ~(targets'[t] \subseteq Coverage(marked))
    BY <2>3, <2>4, <2>6, ResolveIsExact
  <2> HIDE DEF marked, lost
  <2>8. Coverage(status') = Coverage(marked)
    BY <2>3, <2>4, <2>5, <2>6, ResolveMoves
  <2>9. QED
    BY <2>1, <2>7, <2>8, CrawlKnowsTrackers
<1>2. IInv /\ [Next]_vars => [Step]_vars
  BY <1>1
<1>3. QED
  BY InductiveInvariant, <1>2, PTL DEF Spec, ReconcileIsExact
=============================================================================
