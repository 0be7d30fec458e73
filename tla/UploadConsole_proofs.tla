----------------------- MODULE UploadConsole_proofs -----------------------
(***************************************************************************)
(* For any number of sessions, kill requests and watchers and any length   *)
(* of output: a session has the lease exactly from its start until its     *)
(* end, and every watcher gets its chunks in order, once, up to the end.   *)
(***************************************************************************)
EXTENDS UploadConsole, UaExecution, SequenceTheorems, TLAPS

States == {"none", "cancelled"} \cup Active \cup Ended
TaskStages == {"none", "created", "streaming", "cancelling", "done"}
ProcStages == {"none", "requested", "running", "exited"}
SomeSession == Sessions \cup {NoSession}

TypeOK ==
    /\ holder \in Sessions \cup {Others, NoLease}
    /\ current \in SomeSession
    /\ state \in [Sessions -> States]
    /\ task \in [Sessions -> TaskStages]
    /\ finished \in [Sessions -> BOOLEAN]
    /\ closedAt \in [Sessions -> Nat]
    /\ published \in [Sessions -> Nat]
    /\ kill \in [Kills -> [at : {"idle", "asking", "joining"}, session : SomeSession]]
    /\ watch \in [Watchers -> [session : SomeSession, first : Nat, got : Seq(Nat)]]
    /\ buffer \in [Watchers -> Seq(Nat)]
    /\ proc \in [Sessions -> ProcStages]

Started == {s \in Sessions : state[s] # "none"}

\* Tasks, kill requests, watchers and the manager only know sessions that
\* were started, and no other session ends.
StartedOnly ==
    /\ current # NoSession => current \in Started
    /\ \A s \in Sessions : task[s] # "none" \/ finished[s] => s \in Started
    /\ \A k \in Kills : kill[k].at # "idle" => kill[k].session \in Started
    /\ \A w \in Watchers : watch[w].session # NoSession => watch[w].session \in Started

ClosedInTime == \A s \in Sessions : closedAt[s] <= published[s]

\* What a watcher has got, and the first n items of its queue, read as one
\* line of chunks: it starts with chunk f and has no gap.
Gapless(f, got, b, n) ==
    /\ n \in Nat
    /\ \A i \in 1..Len(got) : got[i] = f + i - 1
    /\ \A j \in 1..n : b[j] = f + Len(got) + j - 1

\* The line of a running session goes on to the last chunk published, that
\* of a session that has ended to the one before End.
OpenLine(f, got, b, last) ==
    /\ Gapless(f, got, b, Len(b))
    /\ f + Len(got) + Len(b) - 1 = last

DoneLine(f, got, b, closed) ==
    /\ Gapless(f, got, b, Len(b) - 1)
    /\ b[Len(b)] = End
    /\ f + Len(got) + (Len(b) - 1) - 1 >= closed

LineOf(w, s) ==
    IF finished[s]
    THEN DoneLine(watch[w].first, watch[w].got, buffer[w], closedAt[s])
    ELSE OpenLine(watch[w].first, watch[w].got, buffer[w], published[s])

Lines ==
    \A w \in Watchers : watch[w].session # NoSession =>
        watch[w].first >= 1 /\ LineOf(w, watch[w].session)

IInv ==
    /\ TypeOK
    /\ StartedOnly
    /\ LeaseWhileUnfinished
    /\ ClosedInTime
    /\ Lines

-----------------------------------------------------------------------------

\* End is in the queue of a line that is done, and in no other.
LEMMA EndOfLine ==
  ASSUME NEW f \in Nat \ {0}, NEW got \in Seq(Nat), NEW b \in Seq(Nat),
         NEW closed, NEW last
  PROVE  /\ OpenLine(f, got, b, last) => ~Contains(b, End)
         /\ DoneLine(f, got, b, closed) => Contains(b, End)
<1>1. Len(got) \in Nat
  OBVIOUS
<1>2. ASSUME OpenLine(f, got, b, last)
      PROVE  ~Contains(b, End)
  BY <1>1, <1>2 DEF OpenLine, Gapless, Contains, End
<1>3. ASSUME DoneLine(f, got, b, closed)
      PROVE  Contains(b, End)
  <2>1. Len(b) \in 1..Len(b) /\ b[Len(b)] = End
    BY <1>3 DEF DoneLine, Gapless
  <2>2. QED
    BY <2>1 DEF Contains
<1>4. QED
  BY <1>2, <1>3

\* The next n chunks lengthen an open line.
LEMMA ChunksKeepLine ==
  ASSUME NEW f \in Nat, NEW got \in Seq(Nat), NEW b \in Seq(Nat),
         NEW last \in Nat, NEW n \in Nat, OpenLine(f, got, b, last)
  PROVE  LET new == [i \in 1..n |-> last + i]
         IN b \o new \in Seq(Nat) /\ OpenLine(f, got, b \o new, last + n)
<1> DEFINE new == [i \in 1..n |-> last + i]
           c == b \o new
<1>1. new \in Seq(Nat) /\ Len(new) = n /\ \A i \in 1..n : new[i] = last + i
  OBVIOUS
<1> HIDE DEF new
<1>2. /\ c \in Seq(Nat)
      /\ Len(c) = Len(b) + n
      /\ \A j \in 1..Len(b) + n : c[j] = IF j <= Len(b) THEN b[j] ELSE new[j - Len(b)]
  BY <1>1, ConcatProperties
<1> HIDE DEF c
<1>3. /\ Len(b) \in Nat /\ Len(got) \in Nat
      /\ f + Len(got) + Len(b) - 1 = last
      /\ \A i \in 1..Len(got) : got[i] = f + i - 1
      /\ \A j \in 1..Len(b) : b[j] = f + Len(got) + j - 1
  BY DEF OpenLine, Gapless
<1>4. ASSUME NEW j \in 1..Len(b) + n
      PROVE  c[j] = f + Len(got) + j - 1
  <2>1. CASE j <= Len(b)
    <3>1. j \in 1..Len(b) /\ c[j] = b[j]
      BY <1>2, <1>3, <2>1
    <3>2. QED
      BY <1>3, <3>1
  <2>2. CASE j > Len(b)
    <3>1. j - Len(b) \in 1..n
      BY <1>3, <2>2
    <3>2. c[j] = last + (j - Len(b))
      BY <1>1, <1>2, <1>3, <2>2, <3>1
    <3>3. last + (j - Len(b)) = f + Len(got) + j - 1
      BY <1>3
    <3>4. QED
      BY <3>2, <3>3
  <2>3. j <= Len(b) \/ j > Len(b)
    BY <1>3
  <2>4. QED
    BY <2>1, <2>2, <2>3
<1>5. f + Len(got) + Len(c) - 1 = last + n
  <2>1. \A l, m \in Nat : f + l + m - 1 = last => f + l + (m + n) - 1 = last + n
    OBVIOUS
  <2>2. /\ Len(got) \in Nat /\ Len(b) \in Nat
        /\ f + Len(got) + Len(b) - 1 = last
    BY <1>3
  <2>3. f + Len(got) + (Len(b) + n) - 1 = last + n
    BY <2>1, <2>2
  <2>4. Len(c) = Len(b) + n
    BY <1>2
  <2>5. QED
    BY <2>3, <2>4
<1>6. OpenLine(f, got, c, last + n)
  BY <1>2, <1>3, <1>4, <1>5 DEF OpenLine, Gapless
<1>7. QED
  BY <1>2, <1>6 DEF c, new

\* End closes an open line behind its last chunk.
LEMMA EndKeepsLine ==
  ASSUME NEW f \in Nat, NEW got \in Seq(Nat), NEW b \in Seq(Nat),
         NEW last \in Nat, OpenLine(f, got, b, last)
  PROVE  b \o <<End>> \in Seq(Nat) /\ DoneLine(f, got, b \o <<End>>, last)
<1> DEFINE e == <<End>>
           c == b \o e
<1>1. e \in Seq(Nat) /\ Len(e) = 1 /\ e[1] = End
  BY DEF End
<1> HIDE DEF e
<1>2. /\ c \in Seq(Nat)
      /\ Len(c) = Len(b) + Len(e)
      /\ \A j \in 1..Len(b) + Len(e) :
            c[j] = IF j <= Len(b) THEN b[j] ELSE e[j - Len(b)]
  BY <1>1, ConcatProperties
<1> HIDE DEF c
<1>3. /\ Len(b) \in Nat /\ Len(got) \in Nat
      /\ f + Len(got) + Len(b) - 1 = last
      /\ \A i \in 1..Len(got) : got[i] = f + i - 1
      /\ \A j \in 1..Len(b) : b[j] = f + Len(got) + j - 1
  BY DEF OpenLine, Gapless
<1>4. ASSUME NEW j \in 1..Len(b) PROVE c[j] = b[j]
  <2>1. j <= Len(b) /\ j \in 1..Len(b) + Len(e)
    BY <1>1, <1>3
  <2>2. QED
    BY <1>2, <2>1
<1>5. c[Len(b) + 1] = End
  <2>1. Len(b) + Len(e) = Len(b) + 1
    BY <1>1
  <2>2. /\ Len(b) + 1 \in 1..Len(b) + 1
        /\ ~(Len(b) + 1 <= Len(b))
        /\ (Len(b) + 1) - Len(b) = 1
    BY <1>3
  <2>3. c[Len(b) + 1] = e[(Len(b) + 1) - Len(b)]
    BY <1>2, <2>1, <2>2
  <2>4. QED
    BY <1>1, <2>2, <2>3
<1>6. DoneLine(f, got, c, last)
  <2>1. Len(c) = Len(b) + 1
    BY <1>1, <1>2
  <2>2. Len(c) - 1 = Len(b) /\ c[Len(c)] = End
    BY <1>3, <1>5, <2>1
  <2>3. Gapless(f, got, c, Len(c) - 1)
    BY <1>3, <1>4, <2>2 DEF Gapless
  <2>4. f + Len(got) + (Len(c) - 1) - 1 >= last
    BY <1>3, <2>2
  <2>5. QED
    BY <2>2, <2>3, <2>4 DEF DoneLine
<1>7. QED
  BY <1>2, <1>6 DEF c, e

\* Reading a chunk moves it from the queue to what the watcher has got.
LEMMA ReadKeepsGapless ==
  ASSUME NEW f \in Nat, NEW got \in Seq(Nat), NEW b \in Seq(Nat), b # <<>>,
         NEW n \in 1..Len(b), Gapless(f, got, b, n)
  PROVE  Gapless(f, Append(got, Head(b)), Tail(b), n - 1)
<1> DEFINE g == Append(got, Head(b))
           t == Tail(b)
<1>1. /\ Head(b) \in Nat /\ Head(b) = b[1]
      /\ Len(b) \in Nat \ {0} /\ Len(got) \in Nat
      /\ \A i \in 1..Len(b) - 1 : t[i] = b[i + 1]
  BY HeadTailProperties, EmptySeq
<1>2. /\ Len(g) = Len(got) + 1
      /\ \A i \in 1..Len(got) : g[i] = got[i]
      /\ g[Len(got) + 1] = b[1]
  BY <1>1, AppendProperties
<1>3. b[1] = f + Len(got)
  BY <1>1 DEF Gapless
<1> HIDE DEF g, t
<1>4. ASSUME NEW i \in 1..Len(got) + 1 PROVE g[i] = f + i - 1
  <2>1. CASE i \in 1..Len(got)
    BY <1>2, <2>1 DEF Gapless
  <2>2. CASE i = Len(got) + 1
    BY <1>1, <1>2, <1>3, <2>2
  <2>3. i \in 1..Len(got) \/ i = Len(got) + 1
    BY <1>1
  <2>4. QED
    BY <2>1, <2>2, <2>3
<1>5. ASSUME NEW j \in 1..(n - 1)
      PROVE  t[j] = f + (Len(got) + 1) + j - 1
  <2>1. t[j] = b[j + 1] /\ j + 1 \in 1..n
    BY <1>1
  <2>2. b[j + 1] = f + Len(got) + (j + 1) - 1
    BY <2>1 DEF Gapless
  <2>3. QED
    BY <1>1, <2>1, <2>2
<1>6. n - 1 \in Nat
  BY <1>1
<1>7. Gapless(f, g, t, n - 1)
  BY <1>2, <1>4, <1>5, <1>6 DEF Gapless
<1>8. QED
  BY <1>7 DEF g, t

LEMMA ReadKeepsLine ==
  ASSUME NEW f \in Nat, NEW got \in Seq(Nat), NEW b \in Seq(Nat),
         NEW closed \in Nat, NEW last \in Nat, b # <<>>, Head(b) # End
  PROVE  /\ Append(got, Head(b)) \in Seq(Nat) /\ Tail(b) \in Seq(Nat)
         /\ OpenLine(f, got, b, last) =>
               OpenLine(f, Append(got, Head(b)), Tail(b), last)
         /\ DoneLine(f, got, b, closed) =>
               DoneLine(f, Append(got, Head(b)), Tail(b), closed)
<1> DEFINE t == Tail(b)
           g == Append(got, Head(b))
<1>1. /\ Head(b) \in Nat /\ Head(b) = b[1] /\ t \in Seq(Nat)
      /\ Len(b) \in Nat \ {0} /\ Len(got) \in Nat
      /\ Len(t) = Len(b) - 1
      /\ \A i \in 1..Len(b) - 1 : t[i] = b[i + 1]
  BY HeadTailProperties, EmptySeq
<1>2. g \in Seq(Nat) /\ Len(g) = Len(got) + 1
  BY <1>1, AppendProperties
<1>3. ASSUME OpenLine(f, got, b, last)
      PROVE  OpenLine(f, g, t, last)
  <2>1. Gapless(f, got, b, Len(b)) /\ f + Len(got) + Len(b) - 1 = last
    BY <1>3 DEF OpenLine
  <2> HIDE DEF t, g
  <2>2. Len(b) \in 1..Len(b)
    BY <1>1
  <2>3. Gapless(f, g, t, Len(b) - 1)
    BY <2>1, <2>2, ReadKeepsGapless DEF t, g
  <2>4. f + (Len(got) + 1) + (Len(b) - 1) - 1 = last
    BY <1>1, <2>1
  <2>5. f + Len(g) + Len(t) - 1 = last
    BY <1>1, <1>2, <2>4
  <2>6. QED
    BY <1>1, <2>3, <2>5 DEF OpenLine
<1>4. ASSUME DoneLine(f, got, b, closed)
      PROVE  DoneLine(f, g, t, closed)
  <2>1. Len(b) - 1 \in 1..Len(b)
    BY <1>1, <1>4 DEF DoneLine
  <2>2. Gapless(f, g, t, (Len(b) - 1) - 1)
    BY <1>4, <2>1, ReadKeepsGapless DEF DoneLine
  <2> HIDE DEF t, g
  <2>3. t[Len(t)] = b[Len(b)]
    <3>1. Len(t) \in 1..Len(b) - 1
      BY <1>1, <2>1
    <3>2. t[Len(t)] = b[Len(t) + 1]
      BY <1>1, <3>1
    <3>3. Len(t) + 1 = Len(b)
      BY <1>1
    <3>4. QED
      BY <3>2, <3>3
  <2>4. QED
    BY <1>1, <1>2, <1>4, <2>1, <2>2, <2>3 DEF DoneLine
<1>5. QED
  BY <1>1, <1>2, <1>3, <1>4

\* A line that is done reaches any earlier close too.
LEMMA EarlierClose ==
  ASSUME NEW f \in Nat, NEW got \in Seq(Nat), NEW b \in Seq(Nat),
         NEW last \in Nat, NEW closed \in Nat, closed <= last,
         DoneLine(f, got, b, last)
  PROVE  DoneLine(f, got, b, closed)
<1>1. f + Len(got) + (Len(b) - 1) - 1 \in Int
  OBVIOUS
<1>2. QED
  BY <1>1 DEF DoneLine

\* The replay is the line of the chunks that are still kept.
LEMMA ReplayIsLine ==
  ASSUME TypeOK, NEW s \in Sessions
  PROVE  LET f == Oldest(published[s])
         IN /\ f \in Nat \ {0} /\ Replay(s) \in Seq(Nat)
            /\ OpenLine(f, <<>>, Replay(s), published[s])
<1> DEFINE p == published[s]
           f == Oldest(p)
<1>1. p \in Nat
  BY DEF TypeOK
<1>2. f \in Nat \ {0} /\ p + 1 - f \in Nat
  BY <1>1, ReplayAssumption DEF Oldest
<1> HIDE DEF p, f
<1>3. Replay(s) = [i \in 1..(p + 1 - f) |-> f + i - 1]
  BY DEF Replay, p, f
<1>4. Replay(s) \in Seq(Nat) /\ Len(Replay(s)) = p + 1 - f
  BY <1>1, <1>2, <1>3
<1>5. OpenLine(f, <<>>, Replay(s), p)
  BY <1>1, <1>2, <1>3, <1>4 DEF OpenLine, Gapless
<1>6. QED
  BY <1>2, <1>4, <1>5 DEF p, f

-----------------------------------------------------------------------------

\* A watcher's queue has End in it exactly when its session has ended.
LEMMA EndIsEnd ==
  ASSUME TypeOK, Lines, NEW s \in Sessions, NEW w \in Watchers, watch[w].session = s
  PROVE  Contains(buffer[w], End) <=> finished[s]
<1>1. watch[w].session # NoSession /\ watch[w].first \in Nat
  BY NoSessionAssumption DEF TypeOK
<1>2. watch[w].first >= 1 /\ LineOf(w, s)
  BY <1>1 DEF Lines
<1>3. /\ watch[w].got \in Seq(Nat) /\ buffer[w] \in Seq(Nat)
      /\ finished[s] \in BOOLEAN /\ closedAt[s] \in Nat /\ published[s] \in Nat
  BY DEF TypeOK
<1>4. watch[w].first \in Nat \ {0}
  BY <1>1, <1>2
<1>5. CASE finished[s]
  <2>1. DoneLine(watch[w].first, watch[w].got, buffer[w], closedAt[s])
    BY <1>2, <1>5 DEF LineOf
  <2>2. Contains(buffer[w], End)
    BY <1>3, <1>4, <2>1, EndOfLine
  <2>3. QED
    BY <1>5, <2>2
<1>6. CASE ~finished[s]
  <2>1. OpenLine(watch[w].first, watch[w].got, buffer[w], published[s])
    BY <1>2, <1>6 DEF LineOf
  <2>2. ~Contains(buffer[w], End)
    BY <1>3, <1>4, <2>1, EndOfLine
  <2>3. QED
    BY <1>6, <2>2
<1>7. QED
  BY <1>5, <1>6

\* A chunk that is published, or the end, reaches every watcher whose line
\* is open and no other.
LEMMA SubscribersAreOpen ==
  ASSUME TypeOK, Lines, NEW s \in Sessions, NEW w \in Watchers
  PROVE  w \in Subscribers(s) <=> watch[w].session = s /\ ~finished[s]
BY EndIsEnd DEF Subscribers

\* Publishing without an end keeps every line.
LEMMA PublishKeepsLines ==
  ASSUME IInv, NEW s \in Sessions, NEW n \in Nat, Emit(s, n, FALSE),
         UNCHANGED <<watch, finished, closedAt>>
  PROVE  /\ Lines' /\ ClosedInTime'
         /\ published' \in [Sessions -> Nat] /\ buffer' \in [Watchers -> Seq(Nat)]
<1> USE DEF IInv
<1> DEFINE new == [i \in 1..n |-> published[s] + i]
<1>1. /\ published' = [published EXCEPT ![s] = published[s] + n]
      /\ buffer' = [w \in Watchers |->
                       IF w \in Subscribers(s) THEN buffer[w] \o new \o <<>> ELSE buffer[w]]
  BY DEF Emit
<1>2. /\ published' \in [Sessions -> Nat]
      /\ published'[s] = published[s] + n
      /\ \A r \in Sessions : r # s => published'[r] = published[r]
  BY <1>1 DEF TypeOK
<1>3. ClosedInTime'
  <2>1. published[s] \in Nat /\ published[s] + n >= published[s]
    BY DEF TypeOK
  <2>2. \A r \in Sessions : published[r] \in Nat /\ published'[r] \in Nat
                            /\ published[r] <= published'[r]
    <3>1. ASSUME NEW r \in Sessions
          PROVE  /\ published[r] \in Nat /\ published'[r] \in Nat
                 /\ published[r] <= published'[r]
      <4>1. CASE r = s
        BY <1>2, <2>1, <4>1
      <4>2. CASE r # s
        BY <1>2, <4>2 DEF TypeOK
      <4>3. QED
        BY <4>1, <4>2
    <3>2. QED
      BY <3>1
  <2>3. closedAt' = closedAt /\ \A r \in Sessions : closedAt[r] \in Nat
    BY DEF TypeOK
  <2>4. QED
    BY <2>2, <2>3 DEF ClosedInTime
<1>4. new \in Seq(Nat)
  BY DEF TypeOK
<1>5. \A w \in Watchers : buffer[w] \o new \o <<>> = buffer[w] \o new
  BY <1>4, ConcatProperties, ConcatEmptySeq DEF TypeOK
<1>6. buffer' \in [Watchers -> Seq(Nat)]
  BY <1>1, <1>4, <1>5, ConcatProperties DEF TypeOK
<1>7. Lines'
  <2> SUFFICES ASSUME NEW w \in Watchers, watch[w].session # NoSession
               PROVE  LineOf(w, watch[w].session)'
    BY DEF Lines
  <2> DEFINE r == watch[w].session
  <2>1. /\ r \in Sessions /\ watch[w].first \in Nat /\ watch[w].got \in Seq(Nat)
        /\ buffer[w] \in Seq(Nat) /\ published[r] \in Nat
    BY DEF TypeOK, SomeSession
  <2>2. LineOf(w, r)
    BY DEF Lines
  <2>3. CASE r = s /\ ~finished[s]
    <3>1. buffer'[w] = buffer[w] \o new
      BY <1>1, <1>5, <2>3, SubscribersAreOpen
    <3>2. OpenLine(watch[w].first, watch[w].got, buffer[w], published[s])
      BY <2>2, <2>3 DEF LineOf
    <3>3. OpenLine(watch[w].first, watch[w].got, buffer[w] \o new, published[s] + n)
      BY <2>1, <2>3, <3>2, ChunksKeepLine
    <3>4. QED
      BY <1>2, <2>3, <3>1, <3>3 DEF LineOf
  <2>4. CASE ~(r = s /\ ~finished[s])
    <3>1. buffer'[w] = buffer[w]
      BY <1>1, <2>4, SubscribersAreOpen
    <3>2. QED
      BY <1>2, <2>1, <2>2, <2>4, <3>1 DEF LineOf
  <2>5. QED
    BY <2>3, <2>4
<1>8. QED
  BY <1>2, <1>3, <1>6, <1>7

\* The end of a session that has not ended: the last chunks and End close
\* the open lines of its watchers, and the lease is given back.
LEMMA EndKeepsLines ==
  ASSUME IInv, NEW s \in Started, NEW n \in Nat, FinishAfter(s, n), ~finished[s],
         UNCHANGED watch
  PROVE  /\ Lines' /\ ClosedInTime'
         /\ published' \in [Sessions -> Nat] /\ buffer' \in [Watchers -> Seq(Nat)]
         /\ closedAt' \in [Sessions -> Nat]
<1> USE DEF IInv
<1> DEFINE new == [i \in 1..n |-> published[s] + i]
<1>1. s \in Sessions
  BY DEF Started
<1>2. /\ published' = [published EXCEPT ![s] = published[s] + n]
      /\ buffer' = [w \in Watchers |->
                       IF w \in Subscribers(s) THEN buffer[w] \o new \o <<End>> ELSE buffer[w]]
      /\ finished' = [finished EXCEPT ![s] = TRUE]
      /\ closedAt' = [closedAt EXCEPT ![s] = published'[s]]
  BY DEF FinishAfter, Emit
<1>3. /\ published' \in [Sessions -> Nat]
      /\ published'[s] = published[s] + n
      /\ closedAt' \in [Sessions -> Nat]
      /\ closedAt'[s] = published[s] + n
      /\ finished'[s] = TRUE
      /\ \A r \in Sessions : r # s =>
            /\ published'[r] = published[r]
            /\ closedAt'[r] = closedAt[r]
            /\ finished'[r] = finished[r]
  BY <1>1, <1>2 DEF TypeOK
<1>4. ClosedInTime'
  <2>1. closedAt'[s] <= published'[s]
    BY <1>1, <1>3 DEF TypeOK
  <2>2. ASSUME NEW r \in Sessions, r # s
        PROVE  closedAt'[r] <= published'[r]
    BY <1>3, <2>2 DEF ClosedInTime
  <2>3. QED
    BY <2>1, <2>2 DEF ClosedInTime
<1>5. new \in Seq(Nat) /\ <<End>> \in Seq(Nat)
  BY <1>1 DEF TypeOK, End
<1>6. \A w \in Watchers : buffer[w] \o new \o <<End>> \in Seq(Nat)
  BY <1>5, ConcatProperties DEF TypeOK
<1>7. buffer' \in [Watchers -> Seq(Nat)]
  BY <1>2, <1>6 DEF TypeOK
<1>8. Lines'
  <2> SUFFICES ASSUME NEW w \in Watchers, watch[w].session # NoSession
               PROVE  LineOf(w, watch[w].session)'
    BY DEF Lines
  <2> DEFINE r == watch[w].session
  <2>1. /\ r \in Sessions /\ watch[w].first \in Nat /\ watch[w].got \in Seq(Nat)
        /\ buffer[w] \in Seq(Nat) /\ published[r] \in Nat
    BY DEF TypeOK, SomeSession
  <2>2. LineOf(w, r)
    BY DEF Lines
  <2>3. CASE r = s
    <3>1. buffer'[w] = (buffer[w] \o new) \o <<End>>
      BY <1>1, <1>2, <2>3, SubscribersAreOpen
    <3>2. OpenLine(watch[w].first, watch[w].got, buffer[w], published[s])
      BY <2>2, <2>3 DEF LineOf
    <3>3. /\ buffer[w] \o new \in Seq(Nat)
          /\ OpenLine(watch[w].first, watch[w].got, buffer[w] \o new, published[s] + n)
      BY <2>1, <2>3, <3>2, ChunksKeepLine
    <3>4. published[s] + n \in Nat
      BY <2>1, <2>3
    <3>5. DoneLine(watch[w].first, watch[w].got, (buffer[w] \o new) \o <<End>>,
                   published[s] + n)
      BY <2>1, <3>3, <3>4, EndKeepsLine
    <3>6. QED
      BY <1>3, <2>3, <3>1, <3>5 DEF LineOf
  <2>4. CASE r # s
    <3>1. buffer'[w] = buffer[w]
      BY <1>1, <1>2, <2>4, SubscribersAreOpen
    <3>2. QED
      BY <1>3, <2>1, <2>2, <2>4, <3>1 DEF LineOf
  <2>5. QED
    BY <2>3, <2>4
<1>9. QED
  BY <1>3, <1>4, <1>7, <1>8

\* A step of a started session that publishes, and may end it: _finish
\* releases the lease the first time, and does nothing the second.
LEMMA SessionStepKeeps ==
  ASSUME IInv, NEW s \in Started, NEW n \in Nat,
         \/ FinishAfter(s, n)
         \/ Emit(s, n, FALSE) /\ UNCHANGED <<holder, finished, closedAt>>,
         UNCHANGED <<watch, current>>,
         state' \in [Sessions -> States], Started' = Started,
         task' \in [Sessions -> TaskStages],
         \A r \in Sessions : task'[r] # "none" => r \in Started,
         kill' \in [Kills -> [at : {"idle", "asking", "joining"}, session : SomeSession]],
         \A k \in Kills : kill'[k].at # "idle" => kill'[k].session \in Started,
         proc' \in [Sessions -> ProcStages]
  PROVE  IInv'
<1> USE DEF IInv
<1>1. s \in Sessions /\ state[s] # "none"
  BY DEF Started
<1>2. \A r \in Sessions : state'[r] # "none" <=> state[r] # "none"
  BY DEF Started
<1>3. CASE /\ Emit(s, n, FALSE)
           /\ UNCHANGED <<holder, finished, closedAt>>
  <2>1. /\ Lines' /\ ClosedInTime'
        /\ published' \in [Sessions -> Nat] /\ buffer' \in [Watchers -> Seq(Nat)]
    BY <1>1, <1>3, PublishKeepsLines
  <2>2. TypeOK'
    BY <1>3, <2>1 DEF TypeOK
  <2>3. LeaseWhileUnfinished'
    BY <1>2, <1>3 DEF LeaseWhileUnfinished
  <2>4. StartedOnly'
    BY <1>3 DEF StartedOnly
  <2>5. QED
    BY <2>1, <2>2, <2>3, <2>4
<1>4. CASE FinishAfter(s, n) /\ finished[s]
  <2>1. Emit(s, n, FALSE) /\ UNCHANGED <<holder, closedAt>>
    BY <1>4 DEF FinishAfter, Emit
  <2>2. UNCHANGED finished
    BY <1>4 DEF FinishAfter, TypeOK
  <2>3. QED
    BY <1>3, <2>1, <2>2
<1>5. CASE FinishAfter(s, n) /\ ~finished[s]
  <2>1. /\ Lines' /\ ClosedInTime'
        /\ published' \in [Sessions -> Nat] /\ buffer' \in [Watchers -> Seq(Nat)]
        /\ closedAt' \in [Sessions -> Nat]
    BY <1>5, EndKeepsLines
  <2>2. holder = s /\ holder' = NoLease
    BY <1>1, <1>5 DEF FinishAfter, LeaseWhileUnfinished, Lease!Free
  <2>3. /\ finished' \in [Sessions -> BOOLEAN]
        /\ finished'[s] = TRUE
        /\ \A r \in Sessions : r # s => finished'[r] = finished[r]
    BY <1>1, <1>5 DEF FinishAfter, TypeOK
  <2>4. TypeOK'
    BY <2>1, <2>2, <2>3 DEF TypeOK
  <2>5. LeaseWhileUnfinished'
    BY <1>2, <2>2, <2>3, UsersDiffer DEF LeaseWhileUnfinished
  <2>6. StartedOnly'
    BY <2>3 DEF StartedOnly
  <2>7. QED
    BY <2>1, <2>4, <2>5, <2>6
<1>6. QED
  BY <1>3, <1>4, <1>5

-----------------------------------------------------------------------------

\* A new session gets the lease; no task, request or watcher knows it yet.
LEMMA StartKeeps ==
  ASSUME IInv, NEW s \in Sessions, Start(s)
  PROVE  IInv'
<1> USE DEF IInv, Start, Lease!Grant
<1>1. /\ state' \in [Sessions -> States] /\ task' \in [Sessions -> TaskStages]
      /\ state'[s] = "starting"
      /\ \A r \in Sessions : r # s => state'[r] = state[r] /\ task'[r] = task[r]
  BY DEF TypeOK, States, Active, TaskStages
<1>2. TypeOK'
  BY <1>1 DEF TypeOK, SomeSession
<1>3. Started' = Started \cup {s}
  BY <1>1 DEF Started
<1>4. StartedOnly'
  BY <1>1, <1>3 DEF StartedOnly
<1>5. ~finished[s]
  BY DEF StartedOnly, Started
<1>6. LeaseWhileUnfinished'
  BY <1>1, <1>5, UsersDiffer DEF LeaseWhileUnfinished
<1>7. Lines' /\ ClosedInTime'
  BY DEF Lines, LineOf, ClosedInTime
<1>8. QED
  BY <1>2, <1>4, <1>6, <1>7

\* The stream task publishes and ends its session, whatever a kill has made
\* of the state in between.
LEMMA StreamTaskKeeps ==
  ASSUME IInv, NEW s \in Sessions, StreamTask(s)
  PROVE  IInv'
<1> USE DEF IInv
<1>1. s \in Started
  BY DEF StreamTask, RunStart, StreamChunk, StreamEnds, StreamFails, StreamCancelled,
     StartedOnly
<1>2. \E n \in Nat : \/ FinishAfter(s, n)
                     \/ Emit(s, n, FALSE) /\ UNCHANGED <<holder, finished, closedAt>>
  BY DEF StreamTask, RunStart, StreamChunk, StreamEnds, StreamFails, StreamCancelled
<1>3. UNCHANGED <<watch, current, kill>>
  BY DEF StreamTask, RunStart, StreamChunk, StreamEnds, StreamFails, StreamCancelled
<1>4. /\ state' \in [Sessions -> States]
      /\ \A r \in Sessions : state'[r] # "none" <=> state[r] # "none"
  <2>1. \/ state' = state
        \/ \E x \in {"running", "complete", "error", "cancelled"} :
              state' = [state EXCEPT ![s] = x]
    BY DEF StreamTask, RunStart, StreamChunk, StreamEnds, StreamFails, StreamCancelled
  <2>2. state \in [Sessions -> States] /\ state[s] # "none"
    BY <1>1 DEF TypeOK, Started
  <2>3. QED
    BY <2>1, <2>2 DEF States, Active, Ended
<1>5. Started' = Started
  BY <1>4 DEF Started
<1>6. /\ task' \in [Sessions -> TaskStages]
      /\ \A r \in Sessions : task'[r] # "none" => r \in Started
  BY <1>1 DEF StreamTask, RunStart, StreamChunk, StreamEnds, StreamFails, StreamCancelled,
     TypeOK, TaskStages, StartedOnly
<1>7. proc' \in [Sessions -> ProcStages]
  BY DEF StreamTask, RunStart, StreamChunk, StreamEnds, StreamFails, StreamCancelled,
     TypeOK, ProcStages
<1>8. /\ kill' \in [Kills -> [at : {"idle", "asking", "joining"}, session : SomeSession]]
      /\ \A k \in Kills : kill'[k].at # "idle" => kill'[k].session \in Started
  BY <1>3 DEF TypeOK, StartedOnly
<1>9. QED
  BY <1>1, <1>2, <1>3, <1>4, <1>5, <1>6, <1>7, <1>8, SessionStepKeeps

\* A kill request marks the manager's session; its failure changes nothing
\* else.
LEMMA KillAsksKeeps ==
  ASSUME IInv, NEW k \in Kills, KillRequest(k) \/ KillFails(k)
  PROVE  IInv'
<1> USE DEF IInv, outputVars, sessionVars
<1>1. UNCHANGED <<holder, current, task, finished, closedAt, published, watch, buffer, proc>>
  BY DEF KillRequest, KillFails
<1>2. CASE KillRequest(k)
  <2>1. current \in Started /\ current \in Sessions
    BY <1>2 DEF KillRequest, StartedOnly, Started
  <2>2. /\ state' \in [Sessions -> States]
        /\ \A r \in Sessions : state'[r] # "none" <=> state[r] # "none"
    BY <1>2, <2>1 DEF KillRequest, TypeOK, States, Active, Started
  <2>3. /\ kill' \in [Kills -> [at : {"idle", "asking", "joining"}, session : SomeSession]]
        /\ \A j \in Kills : kill'[j].at # "idle" => kill'[j].session \in Started
    BY <1>2, <2>1 DEF KillRequest, TypeOK, SomeSession, StartedOnly
  <2>4. Started' = Started
    BY <2>2 DEF Started
  <2>5. TypeOK'
    BY <1>1, <2>2, <2>3 DEF TypeOK
  <2>6. StartedOnly' /\ LeaseWhileUnfinished'
    BY <1>1, <2>2, <2>3, <2>4 DEF StartedOnly, LeaseWhileUnfinished
  <2>7. Lines' /\ ClosedInTime'
    BY <1>1 DEF Lines, LineOf, ClosedInTime
  <2>8. QED
    BY <2>5, <2>6, <2>7
<1>3. CASE KillFails(k)
  <2>1. state' = state
    BY <1>3 DEF KillFails
  <2>2. /\ kill' \in [Kills -> [at : {"idle", "asking", "joining"}, session : SomeSession]]
        /\ \A j \in Kills : kill'[j].at # "idle" => kill'[j].session \in Started
    BY <1>3 DEF KillFails, TypeOK, SomeSession, StartedOnly
  <2>3. TypeOK'
    BY <1>1, <2>1, <2>2 DEF TypeOK
  <2>4. StartedOnly' /\ LeaseWhileUnfinished'
    BY <1>1, <2>1, <2>2 DEF StartedOnly, LeaseWhileUnfinished, Started
  <2>5. Lines' /\ ClosedInTime'
    BY <1>1 DEF Lines, LineOf, ClosedInTime
  <2>6. QED
    BY <2>3, <2>4, <2>5
<1>4. QED
  BY <1>2, <1>3

\* The answer to a kill ends the session, or cancels the stream task, which
\* ends it; the kill that joined the task finds it ended.
LEMMA KillEndsKeeps ==
  ASSUME IInv, NEW k \in Kills, KillEnded(k) \/ KillAnswered(k) \/ KillJoined(k)
  PROVE  IInv'
<1> USE DEF IInv
<1> DEFINE s == IF KillEnded(k) THEN current ELSE kill[k].session
<1>1. s \in Started /\ s \in Sessions
  BY DEF KillEnded, KillAnswered, KillJoined, StartedOnly, Started
<1>2. \E n \in Nat : \/ FinishAfter(s, n)
                     \/ Emit(s, n, FALSE) /\ UNCHANGED <<holder, finished, closedAt>>
  BY DEF KillEnded, KillAnswered, KillJoined
<1>3. UNCHANGED <<watch, current>>
  BY DEF KillEnded, KillAnswered, KillJoined
<1>4. /\ state' \in [Sessions -> States]
      /\ \A r \in Sessions : state'[r] # "none" <=> state[r] # "none"
  BY <1>1 DEF KillEnded, KillAnswered, KillJoined, TypeOK, States, Ended, Started
<1>5. Started' = Started
  BY <1>4 DEF Started
<1>6. /\ task' \in [Sessions -> TaskStages]
      /\ \A r \in Sessions : task'[r] # "none" => r \in Started
  BY <1>1 DEF KillEnded, KillAnswered, KillJoined, TypeOK, TaskStages, StartedOnly
<1>7. proc' \in [Sessions -> ProcStages]
  BY DEF KillEnded, KillAnswered, KillJoined, TypeOK, ProcStages
<1>8. /\ kill' \in [Kills -> [at : {"idle", "asking", "joining"}, session : SomeSession]]
      /\ \A j \in Kills : kill'[j].at # "idle" => kill'[j].session \in Started
  <2>1. CASE KillEnded(k)
    BY <2>1 DEF KillEnded, TypeOK, StartedOnly
  <2>2. CASE kill' = [kill EXCEPT ![k] = [at |-> "idle", session |-> NoSession]]
    BY <2>2 DEF TypeOK, SomeSession, StartedOnly
  <2>3. CASE kill[k].at # "idle" /\ kill' = [kill EXCEPT ![k].at = "joining"]
    <3> DEFINE K == [at : {"idle", "asking", "joining"}, session : SomeSession]
    <3>1. kill \in [Kills -> K] /\ kill[k] \in K
      BY DEF TypeOK
    <3>2. [kill[k] EXCEPT !.at = "joining"] \in K
      BY <3>1
    <3>3. /\ kill' \in [Kills -> K]
          /\ \A j \in Kills : kill'[j].session = kill[j].session
          /\ \A j \in Kills : kill'[j].at # "idle" => kill[j].at # "idle"
      BY <2>3, <3>1, <3>2
    <3>4. QED
      BY <3>3 DEF StartedOnly
  <2>4. QED
    BY <2>1, <2>2, <2>3 DEF KillAnswered, KillJoined
<1> HIDE DEF s
<1>9. QED
  BY <1>1, <1>2, <1>3, <1>4, <1>5, <1>6, <1>7, <1>8, SessionStepKeeps

-----------------------------------------------------------------------------

\* A watcher that joins gets the replay, and End at once if the session has
\* ended; one that reads or leaves disturbs nobody.
LEMMA WatcherKeeps ==
  ASSUME IInv, NEW w \in Watchers, Subscribe(w) \/ Read(w) \/ Leave(w)
  PROVE  IInv'
<1> USE DEF IInv, leaseVars, sessionVars
<1>1. UNCHANGED <<holder, current, state, task, finished, closedAt, published, kill, proc>>
  BY DEF Subscribe, Read, Leave
<1>2. /\ watch' = [watch EXCEPT ![w] = watch'[w]]
      /\ buffer' = [buffer EXCEPT ![w] = buffer'[w]]
  BY DEF Subscribe, Read, Leave, TypeOK
<1>3. SUFFICES /\ watch'[w] \in [session : SomeSession, first : Nat, got : Seq(Nat)]
               /\ buffer'[w] \in Seq(Nat)
               /\ watch'[w].session # NoSession =>
                     /\ watch'[w].session \in Started
                     /\ watch'[w].first >= 1
                     /\ LineOf(w, watch[w].session)'
  <2>1. TypeOK'
    BY <1>1, <1>2, <1>3 DEF TypeOK
  <2>2. LeaseWhileUnfinished' /\ ClosedInTime'
    BY <1>1 DEF LeaseWhileUnfinished, ClosedInTime
  <2>3. StartedOnly'
    BY <1>1, <1>2, <1>3 DEF StartedOnly, Started, TypeOK
  <2>4. Lines'
    <3> SUFFICES ASSUME NEW v \in Watchers, watch'[v].session # NoSession
                 PROVE  watch'[v].first >= 1 /\ LineOf(v, watch[v].session)'
      BY DEF Lines
    <3>1. CASE v = w
      BY <1>3, <3>1
    <3>2. CASE v # w
      <4>1. watch'[v] = watch[v] /\ buffer'[v] = buffer[v]
        BY <1>2, <3>2 DEF TypeOK
      <4>2. QED
        BY <1>1, <4>1 DEF Lines, LineOf
    <3>3. QED
      BY <3>1, <3>2
  <2>5. QED
    BY <2>1, <2>2, <2>3, <2>4
<1>4. CASE Subscribe(w)
  <2> DEFINE s == current
             f == Oldest(published[s])
  <2>1. s \in Started /\ s \in Sessions
    BY <1>4 DEF Subscribe, StartedOnly, Started
  <2>2. /\ f \in Nat \ {0} /\ Replay(s) \in Seq(Nat)
        /\ OpenLine(f, <<>>, Replay(s), published[s])
    BY <2>1, ReplayIsLine
  <2>3. published[s] \in Nat /\ closedAt[s] \in Nat /\ closedAt[s] <= published[s]
    BY <2>1 DEF TypeOK, ClosedInTime
  <2>4. /\ watch'[w] = [session |-> s, first |-> f, got |-> <<>>]
        /\ buffer'[w] = IF finished[s] THEN Replay(s) \o <<End>> ELSE Replay(s)
    BY <1>4 DEF Subscribe, TypeOK
  <2> HIDE DEF f
  <2>5. watch'[w] \in [session : SomeSession, first : Nat, got : Seq(Nat)]
    BY <2>1, <2>2, <2>4 DEF SomeSession
  <2>6. CASE finished[s]
    <3>1. /\ Replay(s) \o <<End>> \in Seq(Nat)
          /\ DoneLine(f, <<>>, Replay(s) \o <<End>>, published[s])
      <4>1. <<>> \in Seq(Nat)
        OBVIOUS
      <4>2. QED
        BY <2>2, <2>3, <4>1, EndKeepsLine
    <3>2. DoneLine(f, <<>>, Replay(s) \o <<End>>, closedAt[s])
      <4>1. f \in Nat /\ <<>> \in Seq(Nat)
        BY <2>2
      <4>2. QED
        BY <2>3, <3>1, <4>1, EarlierClose
    <3>3. QED
      BY <1>1, <2>1, <2>2, <2>4, <2>5, <2>6, <3>1, <3>2 DEF LineOf
  <2>7. CASE ~finished[s]
    BY <1>1, <2>1, <2>2, <2>4, <2>5, <2>7 DEF LineOf
  <2>8. QED
    BY <2>6, <2>7
<1>5. CASE Read(w)
  <2> DEFINE s == watch[w].session
             f == watch[w].first
             got == watch[w].got
             b == buffer[w]
  <2>1. f \in Nat /\ got \in Seq(Nat) /\ b \in Seq(Nat) /\ s \in SomeSession
    BY DEF TypeOK
  <2>2. /\ b # <<>> /\ Head(b) # End
        /\ watch'[w] = [session |-> s, first |-> f, got |-> Append(got, Head(b))]
        /\ buffer'[w] = Tail(b)
    BY <1>5 DEF Read, TypeOK
  <2> HIDE DEF s, f, got, b
  <2>3. Append(got, Head(b)) \in Seq(Nat) /\ Tail(b) \in Seq(Nat)
    BY <2>1, <2>2, ReadKeepsLine
  <2>4. watch'[w] \in [session : SomeSession, first : Nat, got : Seq(Nat)]
    BY <2>1, <2>2, <2>3
  <2>5. ASSUME s # NoSession
        PROVE  s \in Started /\ f >= 1 /\ LineOf(w, watch[w].session)'
    <3>1. s \in Started /\ s \in Sessions /\ f >= 1 /\ LineOf(w, s)
      BY <2>5 DEF StartedOnly, Started, Lines, s, f
    <3>2. published[s] \in Nat /\ closedAt[s] \in Nat
      BY <3>1 DEF TypeOK
    <3>3. CASE finished[s]
      <4>1. DoneLine(f, Append(got, Head(b)), Tail(b), closedAt[s])
        BY <2>1, <2>2, <3>1, <3>2, <3>3, ReadKeepsLine DEF LineOf, f, got, b
      <4>2. QED
        BY <1>1, <2>2, <3>1, <3>3, <4>1 DEF LineOf
    <3>4. CASE ~finished[s]
      <4>1. OpenLine(f, Append(got, Head(b)), Tail(b), published[s])
        BY <2>1, <2>2, <3>1, <3>2, <3>4, ReadKeepsLine DEF LineOf, f, got, b
      <4>2. QED
        BY <1>1, <2>2, <3>1, <3>4, <4>1 DEF LineOf
    <3>5. QED
      BY <3>1, <3>3, <3>4
  <2>6. QED
    BY <2>2, <2>3, <2>4, <2>5
<1>6. CASE Leave(w)
  BY <1>6 DEF Leave, TypeOK, SomeSession
<1>7. QED
  BY <1>4, <1>5, <1>6

\* The inductive invariant: only started sessions are known, the lease is
\* where it belongs and every watcher's line is in order.
LEMMA InductiveInvariant == Spec => []IInv
<1>1. Init => IInv
  <2> SUFFICES ASSUME Init PROVE IInv
    OBVIOUS
  <2>1. TypeOK
    BY DEF Init, TypeOK, States, TaskStages, ProcStages, SomeSession
  <2>2. StartedOnly /\ Lines /\ ClosedInTime
    BY DEF Init, StartedOnly, Lines, ClosedInTime
  <2>3. LeaseWhileUnfinished
    BY UsersDiffer DEF Init, LeaseWhileUnfinished
  <2>4. QED
    BY <2>1, <2>2, <2>3 DEF IInv
<1>2. IInv /\ [Next]_vars => IInv'
  <2> SUFFICES ASSUME IInv, [Next]_vars
               PROVE  IInv'
    OBVIOUS
  <2>1. ASSUME NEW s \in Sessions, Start(s) \/ StreamTask(s)
        PROVE  IInv'
    BY <2>1, StartKeeps, StreamTaskKeeps
  <2>2. ASSUME NEW k \in Kills,
               \/ KillRequest(k) \/ KillFails(k)
               \/ KillEnded(k) \/ KillAnswered(k) \/ KillJoined(k)
        PROVE  IInv'
    BY <2>2, KillAsksKeeps, KillEndsKeeps
  <2>3. ASSUME NEW w \in Watchers, Subscribe(w) \/ Read(w) \/ Leave(w)
        PROVE  IInv'
    BY <2>3, WatcherKeeps
  <2>4. ASSUME UNCHANGED <<current, state, task, finished, closedAt, published, kill,
                           watch, buffer>>,
               proc' \in [Sessions -> ProcStages],
               holder' = holder \/ {holder, holder'} \subseteq {Others, NoLease}
        PROVE  IInv'
    <3>1. TypeOK'
      BY <2>4 DEF IInv, TypeOK
    <3>2. LeaseWhileUnfinished'
      BY <2>4, UsersDiffer DEF IInv, LeaseWhileUnfinished
    <3>3. StartedOnly' /\ ClosedInTime' /\ Lines'
      BY <2>4 DEF IInv, StartedOnly, Started, ClosedInTime, Lines, LineOf
    <3>4. QED
      BY <3>1, <3>2, <3>3 DEF IInv
  <2>5. ASSUME NEW s \in Sessions, UaAccepts(s) \/ UaExits(s)
        PROVE  IInv'
    <3>1. proc' \in [Sessions -> ProcStages]
      BY <2>5 DEF UaAccepts, UaExits, IInv, TypeOK, ProcStages
    <3>2. QED
      BY <2>4, <2>5, <3>1 DEF UaAccepts, UaExits, leaseVars, sessionVars, outputVars
  <2>6. CASE OtherUse
    BY <2>4, <2>6
       DEF OtherUse, Lease!Grant, Lease!Free, sessionVars, outputVars, IInv, TypeOK
  <2>7. CASE UNCHANGED vars
    BY <2>4, <2>7 DEF vars, IInv, TypeOK
  <2>8. QED
    BY <2>1, <2>2, <2>3, <2>5, <2>6, <2>7 DEF Next
<1>3. QED
  BY <1>1, <1>2, PTL DEF Spec

\* A session has the lease from its start until its end and at no other
\* time, however kills, failures and the normal end race.
THEOREM LeaseWhileUnfinishedHolds == Spec => []LeaseWhileUnfinished
BY InductiveInvariant, PTL DEF IInv

\* A session that is started takes a free lease, and the first of its ends
\* gives it back.
LEMMA LeaseMoves ==
  ASSUME IInv, [Next]_vars
  PROVE  [Lease!LeaseNext]_holder
<1> USE DEF Lease!LeaseNext
<1>1. ASSUME NEW s \in Sessions, NEW n, FinishAfter(s, n)
      PROVE  Lease!LeaseNext \/ UNCHANGED holder
  BY <1>1 DEF FinishAfter
<1>2. ASSUME NEW s \in Sessions, Start(s) \/ StreamTask(s)
      PROVE  Lease!LeaseNext \/ UNCHANGED holder
  BY <1>1, <1>2 DEF Start, StreamTask, RunStart, StreamChunk, StreamEnds, StreamFails,
     StreamCancelled
<1>3. ASSUME NEW k \in Kills,
             \/ KillRequest(k) \/ KillFails(k)
             \/ KillEnded(k) \/ KillAnswered(k) \/ KillJoined(k)
      PROVE  Lease!LeaseNext \/ UNCHANGED holder
  <2>1. current # NoSession => current \in Sessions
    BY DEF IInv, TypeOK, SomeSession
  <2>2. kill[k].at # "idle" => kill[k].session \in Sessions
    BY DEF IInv, StartedOnly, Started
  <2>3. QED
    BY <1>1, <1>3, <2>1, <2>2
       DEF KillRequest, KillFails, KillEnded, KillAnswered, KillJoined
<1>4. CASE OtherUse
  BY <1>4 DEF OtherUse
<1>5. CASE \/ \E s \in Sessions : UaAccepts(s) \/ UaExits(s)
           \/ \E w \in Watchers : Subscribe(w) \/ Read(w) \/ Leave(w)
           \/ UNCHANGED vars
  BY <1>5 DEF UaAccepts, UaExits, Subscribe, Read, Leave, vars, leaseVars
<1>6. QED
  BY <1>2, <1>3, <1>4, <1>5 DEF Next

\* Sessions use the lease as the coordinator promises it, beside the checks
\* and imports: a second kill, or the end of a stream after a kill, does not
\* give back what has been handed to somebody else.
THEOREM ConsoleKeepsPromise == Spec => Lease!LeaseSpec
<1>1. Init => Lease!LeaseInit
  BY DEF Init, Lease!LeaseInit
<1>2. IInv /\ [Next]_vars => [Lease!LeaseNext]_holder
  BY LeaseMoves
<1>3. QED
  BY <1>1, <1>2, InductiveInvariant, PTL DEF Spec, Lease!LeaseSpec

\* No watcher waits on a session that has ended, and none is closed before
\* its session ends.
THEOREM WatcherReachesEndHolds == Spec => []WatcherReachesEnd
<1>1. IInv => WatcherReachesEnd
  <2> SUFFICES ASSUME IInv, NEW w \in Watchers, watch[w].session # NoSession
               PROVE  finished[watch[w].session] <=> Contains(buffer[w], End)
    BY DEF WatcherReachesEnd
  <2> USE DEF IInv
  <2>1. watch[w].session \in Sessions
    BY DEF TypeOK, SomeSession
  <2>2. QED
    BY <2>1, EndIsEnd
<1>2. QED
  BY <1>1, InductiveInvariant, PTL

\* A line without a gap, read as one sequence, counts up from its first
\* chunk.
LEMMA LineCountsUp ==
  ASSUME NEW f \in Nat, NEW got \in Seq(Nat), NEW b \in Seq(Nat),
         Gapless(f, got, b, Len(b))
  PROVE  /\ Len(got \o b) = Len(got) + Len(b)
         /\ \A i \in 1..Len(got \o b) : (got \o b)[i] = f + i - 1
<1> DEFINE c == got \o b
<1>1. /\ Len(c) = Len(got) + Len(b)
      /\ \A j \in 1..Len(got) + Len(b) :
            c[j] = IF j <= Len(got) THEN got[j] ELSE b[j - Len(got)]
  BY ConcatProperties
<1> HIDE DEF c
<1>2. /\ Len(b) \in Nat /\ Len(got) \in Nat
      /\ \A i \in 1..Len(got) : got[i] = f + i - 1
      /\ \A j \in 1..Len(b) : b[j] = f + Len(got) + j - 1
  BY DEF Gapless
<1>3. ASSUME NEW i \in 1..Len(got) + Len(b)
      PROVE  c[i] = f + i - 1
  <2>1. CASE i <= Len(got)
    <3>1. i \in 1..Len(got)
      BY <1>2, <2>1
    <3>2. c[i] = got[i]
      BY <1>1, <1>3, <2>1
    <3>3. QED
      BY <1>2, <3>1, <3>2
  <2>2. CASE i > Len(got)
    <3>1. i - Len(got) \in 1..Len(b)
      BY <1>2, <2>2
    <3>2. c[i] = b[i - Len(got)]
      <4>1. ~(i <= Len(got))
        BY <1>2, <2>2
      <4>2. QED
        BY <1>1, <1>3, <4>1
    <3>3. b[i - Len(got)] = f + Len(got) + (i - Len(got)) - 1
      BY <1>2, <3>1
    <3>4. QED
      BY <1>2, <3>2, <3>3
  <2>3. QED
    BY <1>2, <2>1, <2>2
<1>4. QED
  BY <1>1, <1>3 DEF c

\* What a watcher has not read yet carries its line on without a gap.
LEMMA UnreadIsGapless ==
  ASSUME IInv, NEW w \in Watchers, watch[w].session # NoSession
  PROVE  LET s == watch[w].session
             seen == Len(watch[w].got) + Len(Unread(w))
         IN /\ Unread(w) \in Seq(Nat)
            /\ Gapless(watch[w].first, watch[w].got, Unread(w), Len(Unread(w)))
            /\ finished[s] => watch[w].first + seen - 1 >= closedAt[s]
            /\ ~finished[s] => watch[w].first + seen - 1 = published[s]
<1> DEFINE s == watch[w].session
           f == watch[w].first
           got == watch[w].got
           b == buffer[w]
           u == Unread(w)
<1>1. /\ s \in Sessions /\ f \in Nat /\ got \in Seq(Nat) /\ b \in Seq(Nat)
      /\ closedAt[s] \in Nat /\ published[s] \in Nat
  BY DEF IInv, TypeOK, SomeSession
<1>2. LineOf(w, s) /\ (Contains(b, End) <=> finished[s])
  BY <1>1, EndIsEnd DEF IInv, Lines
<1>3. Len(got) \in Nat /\ Len(b) \in Nat
  BY <1>1
<1>4. CASE finished[s]
  <2>1. DoneLine(f, got, b, closedAt[s])
    BY <1>2, <1>4 DEF LineOf
  <2>2. u = SubSeq(b, 1, Len(b) - 1)
    BY <1>2, <1>4 DEF Unread, Front
  <2>3. Len(b) - 1 \in Nat /\ 1 <= Len(b)
    BY <1>3, <2>1 DEF DoneLine, Gapless
  <2>4. /\ u \in Seq(Nat) /\ Len(u) = Len(b) - 1
        /\ \A j \in 1..Len(b) - 1 : u[j] = b[j]
    <3> DEFINE n == Len(b) - 1
    <3> HIDE DEF n, u, b
    <3>1. u = SubSeq(b, 1, n) /\ n \in Nat /\ \A j \in 1..n : j \in 1..Len(b)
      BY <1>3, <2>2, <2>3 DEF n
    <3>2. SubSeq(b, 1, n) = [j \in 1..n |-> b[j]]
      BY <1>1, <3>1
    <3>3. \A j \in 1..n : b[j] \in Nat
      BY <1>1, <3>1
    <3>4. u \in Seq(Nat) /\ Len(u) = n /\ \A j \in 1..n : u[j] = b[j]
      BY <3>1, <3>2, <3>3
    <3>5. QED
      BY <3>4 DEF n
  <2> HIDE DEF f, got, b, u, s
  <2>5. Gapless(f, got, u, Len(u))
    BY <2>1, <2>3, <2>4 DEF DoneLine, Gapless
  <2>6. f + (Len(got) + Len(u)) - 1 >= closedAt[s]
    BY <1>1, <1>3, <2>1, <2>3, <2>4 DEF DoneLine
  <2>7. QED
    BY <1>4, <2>4, <2>5, <2>6 DEF f, got, u, s
<1>5. CASE ~finished[s]
  <2>1. OpenLine(f, got, b, published[s])
    BY <1>2, <1>5 DEF LineOf
  <2>2. u = b
    BY <1>2, <1>5 DEF Unread
  <2> HIDE DEF f, got, b, u, s
  <2>3. Gapless(f, got, u, Len(u)) /\ u \in Seq(Nat)
    BY <1>1, <2>1, <2>2 DEF OpenLine
  <2>4. f + (Len(got) + Len(u)) - 1 = published[s]
    BY <1>1, <1>3, <2>1, <2>2 DEF OpenLine
  <2>5. QED
    BY <1>5, <2>3, <2>4 DEF f, got, u, s
<1>6. QED
  BY <1>4, <1>5

\* Every watcher gets its chunks once, in order and without a gap from the
\* oldest one kept when it joined, and is closed behind the last.
THEOREM OutputInOrderHolds == Spec => []OutputInOrder
<1>1. IInv => OutputInOrder
  <2> SUFFICES ASSUME IInv, NEW w \in Watchers, watch[w].session # NoSession
               PROVE  LET s == watch[w].session
                          seen == watch[w].got \o Unread(w)
                          last == watch[w].first + Len(seen) - 1
                      IN /\ \A i \in 1..Len(seen) : seen[i] = watch[w].first + i - 1
                         /\ IF Contains(buffer[w], End)
                            THEN last >= closedAt[s]
                            ELSE last = published[s]
    BY DEF OutputInOrder
  <2> DEFINE s == watch[w].session
             seen == watch[w].got \o Unread(w)
  <2>1. /\ s \in Sessions /\ watch[w].first \in Nat /\ watch[w].got \in Seq(Nat)
    BY DEF IInv, TypeOK, SomeSession
  <2>2. Contains(buffer[w], End) <=> finished[s]
    BY <2>1, EndIsEnd DEF IInv
  <2>3. /\ Len(seen) = Len(watch[w].got) + Len(Unread(w))
        /\ \A i \in 1..Len(seen) : seen[i] = watch[w].first + i - 1
    BY <2>1, UnreadIsGapless, LineCountsUp
  <2>4. IF finished[s]
        THEN watch[w].first + Len(seen) - 1 >= closedAt[s]
        ELSE watch[w].first + Len(seen) - 1 = published[s]
    BY <2>3, UnreadIsGapless
  <2> HIDE DEF seen
  <2>5. IF Contains(buffer[w], End)
        THEN watch[w].first + Len(seen) - 1 >= closedAt[s]
        ELSE watch[w].first + Len(seen) - 1 = published[s]
    BY <2>2, <2>4
  <2>6. QED
    BY <2>3, <2>5 DEF seen
<1>2. QED
  BY <1>1, InductiveInvariant, PTL

-----------------------------------------------------------------------------

(***************************************************************************)
(* The coordinator that the console's lease comes from, module UaExecution,*)
(* for any number of tasks, job labels and lease objects: it is a mutual   *)
(* exclusion lock with no lost wake-up, and it implements the lease of     *)
(* module UaLease, which the console and the other users rely on.          *)
(***************************************************************************)

\* Every variable keeps its type: owner ids are always label and time stamp
\* or NoId, and only lease objects are ever marked as released.
THEOREM TypeCorrect == GateSpec => []GateTypeOK
<1>1. GateInit => GateTypeOK
  BY NoIdAssumption DEF GateInit, GateTypeOK
<1>2. GateTypeOK /\ [GateNext]_gateVars => GateTypeOK'
  <2> SUFFICES ASSUME GateTypeOK, [GateNext]_gateVars
               PROVE  GateTypeOK'
    OBVIOUS
  <2> USE DEF GateTypeOK
  <2>1. ASSUME NEW t \in Tasks, NEW label \in Labels, NEW l \in Leases,
               TakeOwnership(t, label, l)
        PROVE  GateTypeOK'
    BY <2>1 DEF TakeOwnership, Ids
  <2>2. ASSUME NEW t \in Tasks, Wait(t) \/ WakeAndSleep(t)
        PROVE  GateTypeOK'
    BY <2>2 DEF Wait, WakeAndSleep
  <2>3. ASSUME NEW l \in Leases, Release(l)
        PROVE  GateTypeOK'
    BY <2>3 DEF Release, CoordinatorRelease
  <2>4. ASSUME NEW l \in Leases, Collect(l)
        PROVE  GateTypeOK'
    BY <2>4 DEF Collect
  <2>5. CASE Clock
    BY <2>5 DEF Clock
  <2>6. CASE UNCHANGED gateVars
    BY <2>6 DEF gateVars
  <2>7. QED
    BY <2>1, <2>2, <2>3, <2>4, <2>5, <2>6 DEF GateNext, Acquire, WakeAndTake
<1>3. QED
  BY <1>1, <1>2, PTL DEF GateSpec

-----------------------------------------------------------------------------

\* LeaseExclusion is not inductive alone: a lease object must not be handed
\* out again with its released flag still set.
GateInv ==
    /\ GateTypeOK
    /\ LeaseExclusion
    /\ NoLostWakeup
    /\ \A l \in released : leaseId[l] # NoId

\* A live lease carries an id, so a free coordinator has no live lease.
LEMMA FreeMeansNoneLive ==
  ASSUME GateInv, owner = NoId
  PROVE  Live = {}
BY DEF GateInv, LeaseExclusion, Live

\* A task takes the coordinator only while it is free, so the new lease
\* becomes the only live one.
LEMMA TakeMakesOnlyLive ==
  ASSUME GateInv, owner = NoId,
         NEW t \in Tasks, NEW label \in Labels, NEW l \in Leases,
         TakeOwnership(t, label, l)
  PROVE  Live' = {l} /\ leaseId'[l] = owner' /\ owner' # NoId
<1> USE DEF GateInv, GateTypeOK, TakeOwnership
<1>1. Live = {}
  BY FreeMeansNoneLive
<1>2. <<label, ms>> \in Ids
  BY DEF Ids
<1>3. leaseId'[l] = <<label, ms>> /\ <<label, ms>> # NoId
  BY <1>2, NoIdAssumption
<1>4. \A m \in Leases : m # l => leaseId'[m] = leaseId[m]
  OBVIOUS
<1>5. l \notin released
  OBVIOUS
<1>6. Live' = {l}
  BY <1>1, <1>3, <1>4, <1>5 DEF Live
<1>7. QED
  BY <1>3, <1>6

\* The release of a lease that is not released yet empties Live and frees
\* the coordinator, whatever ids other lease objects carry.
LEMMA ReleaseFreesTheOwner ==
  ASSUME GateInv, NEW l \in Leases, Release(l)
  PROVE  /\ Live = {l} /\ Live' = {}
         /\ owner' = NoId
         /\ \A t \in Tasks : pc'[t] # "waiting"
<1> USE DEF GateInv, GateTypeOK, Release
<1>1. l \in Live
  BY DEF Live
<1>2. Live = {l} /\ owner = leaseId[l]
  BY <1>1 DEF LeaseExclusion
<1>3. owner' = NoId /\ \A t \in Tasks : pc'[t] # "waiting"
  BY <1>2 DEF CoordinatorRelease
<1>4. Live' = {}
  BY <1>2 DEF Live
<1>5. QED
  BY <1>2, <1>3, <1>4

\* Collecting a released lease object changes no live lease.
LEMMA CollectKeepsLive ==
  ASSUME GateInv, NEW l \in Leases, Collect(l)
  PROVE  /\ Live' = Live
         /\ \A m \in Live : leaseId'[m] = leaseId[m]
         /\ \A m \in released' : leaseId'[m] # NoId
BY DEF GateInv, GateTypeOK, Collect, Live

\* The inductive invariant: exclusion, no lost wake-up, and no lease object
\* in use twice.
LEMMA GateInvariant == GateSpec => []GateInv
<1>1. GateInit => GateInv
  BY NoIdAssumption DEF GateInit, GateInv, GateTypeOK, LeaseExclusion, NoLostWakeup, Live
<1>2. GateInv /\ GateTypeOK' /\ [GateNext]_gateVars => GateInv'
  <2> SUFFICES ASSUME GateInv, GateTypeOK', [GateNext]_gateVars
               PROVE  GateInv'
    OBVIOUS
  <2>1. ASSUME NEW t \in Tasks, NEW label \in Labels, NEW l \in Leases,
               owner = NoId, TakeOwnership(t, label, l)
        PROVE  GateInv'
    <3>1. Live' = {l} /\ leaseId'[l] = owner' /\ owner' # NoId
      BY <2>1, TakeMakesOnlyLive
    <3>2. LeaseExclusion' /\ NoLostWakeup'
      BY <3>1 DEF LeaseExclusion, NoLostWakeup
    <3>3. \A m \in released' : leaseId'[m] # NoId
      BY <2>1, <3>1 DEF GateInv, GateTypeOK, TakeOwnership
    <3>4. QED
      BY <3>2, <3>3 DEF GateInv
  <2>2. ASSUME NEW t \in Tasks, Wait(t) \/ WakeAndSleep(t)
        PROVE  GateInv'
    BY <2>2 DEF GateInv, Wait, WakeAndSleep, LeaseExclusion, NoLostWakeup, Live
  <2>3. ASSUME NEW l \in Leases, Release(l)
        PROVE  GateInv'
    <3>1. /\ Live' = {} /\ owner' = NoId
          /\ \A t \in Tasks : pc'[t] # "waiting"
      BY <2>3, ReleaseFreesTheOwner
    <3>2. LeaseExclusion' /\ NoLostWakeup'
      BY <3>1 DEF LeaseExclusion, NoLostWakeup
    <3>3. \A m \in released' : leaseId'[m] # NoId
      BY <2>3 DEF GateInv, Release
    <3>4. QED
      BY <3>2, <3>3 DEF GateInv
  <2>4. ASSUME NEW l \in Leases, Collect(l)
        PROVE  GateInv'
    <3>1. /\ Live' = Live
          /\ \A m \in Live : leaseId'[m] = leaseId[m]
          /\ \A m \in released' : leaseId'[m] # NoId
      BY <2>4, CollectKeepsLive
    <3>2. owner' = owner /\ pc' = pc
      BY <2>4 DEF Collect
    <3>3. LeaseExclusion' /\ NoLostWakeup'
      BY <3>1, <3>2 DEF GateInv, LeaseExclusion, NoLostWakeup
    <3>4. QED
      BY <3>1, <3>3 DEF GateInv
  <2>5. CASE Clock
    BY <2>5 DEF GateInv, Clock, LeaseExclusion, NoLostWakeup, Live
  <2>6. CASE UNCHANGED gateVars
    BY <2>6 DEF GateInv, gateVars, LeaseExclusion, NoLostWakeup, Live
  <2>7. QED
    BY <2>1, <2>2, <2>3, <2>4, <2>5, <2>6 DEF GateNext, Acquire, WakeAndTake
<1>3. QED
  BY <1>1, <1>2, TypeCorrect, PTL DEF GateSpec

\* Upload Assistant is behind a real lock: two lease objects are never live
\* at once, the live one is the recorded owner, and a lease that was given
\* back cannot free a successor that got the same id in the same
\* millisecond.
THEOREM LeaseExclusionHolds == GateSpec => []LeaseExclusion
BY GateInvariant, PTL DEF GateInv

\* release() never leaves a check asleep on a coordinator that is free.
THEOREM NoLostWakeupHolds == GateSpec => []NoLostWakeup
BY GateInvariant, PTL DEF GateInv

-----------------------------------------------------------------------------

\* Every step of the coordinator is a grant, a return or a stutter of the
\* promised lease: a waiting check, a try of an import and a release by
\* either of two holders of one lease object never hand the lease over
\* directly.
THEOREM ImplementsPromise == GateSpec => ImplementsLease
<1>1. GateInit => Promise!LeaseInit
  BY DEF GateInit, Promise!LeaseInit, Holder, Live
<1>2. GateInv /\ GateInv' /\ [GateNext]_gateVars => [Promise!LeaseNext]_Holder
  <2> SUFFICES ASSUME GateInv, GateInv', [GateNext]_gateVars
               PROVE  Promise!LeaseNext \/ Holder' = Holder
    OBVIOUS
  <2> USE DEF Promise!LeaseNext, Promise!Grant, Promise!Free
  <2>1. ASSUME NEW t \in Tasks, NEW label \in Labels, NEW l \in Leases,
               owner = NoId, TakeOwnership(t, label, l)
        PROVE  Promise!LeaseNext
    <3>1. Live = {} /\ Live' = {l}
      BY <2>1, FreeMeansNoneLive, TakeMakesOnlyLive
    <3>2. Holder = NoObject /\ Holder' = l
      BY <3>1 DEF Holder
    <3>3. QED
      BY <3>2
  <2>2. ASSUME NEW l \in Leases, Release(l)
        PROVE  Promise!LeaseNext
    <3>1. Live = {l} /\ Live' = {}
      BY <2>2, ReleaseFreesTheOwner
    <3>2. Holder = l /\ Holder' = NoObject
      BY <3>1 DEF Holder
    <3>3. QED
      BY <3>2
  <2>3. ASSUME NEW l \in Leases, Collect(l)
        PROVE  Holder' = Holder
    <3>1. Live' = Live
      BY <2>3, CollectKeepsLive
    <3>2. QED
      BY <3>1 DEF Holder
  <2>4. ASSUME UNCHANGED <<leaseId, released>>
        PROVE  Holder' = Holder
    BY <2>4 DEF Holder, Live
  <2>5. QED
    BY <2>1, <2>2, <2>3, <2>4
       DEF GateNext, Acquire, WakeAndTake, Wait, WakeAndSleep, Clock, gateVars
<1>3. QED
  BY <1>1, <1>2, GateInvariant, PTL
     DEF GateSpec, ImplementsLease, Promise!LeaseSpec
=============================================================================
