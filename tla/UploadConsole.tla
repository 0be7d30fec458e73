--------------------------- MODULE UploadConsole ---------------------------
(***************************************************************************)
(* The interactive upload console: UploadConsoleSession and                *)
(* UploadConsoleManager (app/ua_execution.py) with the request handlers    *)
(* that start, kill and watch a session (app/main.py).                     *)
(*                                                                         *)
(* A session is driven by its stream task, by any number of kill requests  *)
(* and by the watchers that read its output.  They run on one event loop   *)
(* and meet only where they suspend: the stream task on the next chunk,    *)
(* a kill on the answer of Upload Assistant and on the end of the stream   *)
(* task, a watcher on its queue.  Publishing and finishing do not suspend  *)
(* (their locks are free at every suspension, the queues are unbounded),   *)
(* so each is part of the step that calls it.                              *)
(*                                                                         *)
(* Upload Assistant is external: proc is the process it runs for a         *)
(* session.  Chunks are numbered in the order they are published.          *)
(***************************************************************************)
EXTENDS Naturals, Sequences, SequencesExt

CONSTANTS
    Sessions,       \* sessions started during a run of the program
    Kills,          \* kill requests that may be in flight at once
    Watchers,       \* browser connections reading a session's output
    NoSession,
    Others,         \* a check or a queued import that holds the lease
    NoLease,
    MaxOutput,      \* bound: chunks Upload Assistant sends per session
    MaxReplay       \* chunks kept for late watchers (1,000,000 characters)

ASSUME ReplayAssumption == MaxReplay \in Nat \ {0}
ASSUME NoSessionAssumption == NoSession \notin Sessions
ASSUME UsersDiffer == NoLease \notin Sessions \cup {Others} /\ Others \notin Sessions

VARIABLES
    holder,     \* who holds the Upload Assistant lease
    current,    \* UploadConsoleManager._session
    state,      \* session.state
    task,       \* the session's stream task
    finished,   \* session._finished
    closedAt,   \* chunks published when the session finished
    published,  \* chunks published so far
    kill,       \* kill requests: what each waits for, and its session
    watch,      \* watchers: the session each reads and the chunks it got
    buffer,     \* replayed and queued chunks a watcher has not read yet
    proc        \* Upload Assistant's process for the session

leaseVars == <<holder>>
sessionVars == <<current, state, task, finished, closedAt>>
outputVars == <<published, watch, buffer>>
vars == <<holder, current, state, task, finished, closedAt, published,
          kill, watch, buffer, proc>>

Lease == INSTANCE UaLease WITH Leases <- Sessions \cup {Others}

Active == {"starting", "running", "killing"}
Ended == {"complete", "error", "killed"}

\* The None that ends a watcher's queue.
End == 0

Init ==
    /\ holder = NoLease
    /\ current = NoSession
    /\ state = [s \in Sessions |-> "none"]
    /\ task = [s \in Sessions |-> "none"]
    /\ finished = [s \in Sessions |-> FALSE]
    /\ closedAt = [s \in Sessions |-> 0]
    /\ published = [s \in Sessions |-> 0]
    /\ kill = [k \in Kills |-> [at |-> "idle", session |-> NoSession]]
    /\ watch = [w \in Watchers |-> [session |-> NoSession, first |-> 0, got |-> <<>>]]
    /\ buffer = [w \in Watchers |-> <<>>]
    /\ proc = [s \in Sessions |-> "none"]

-----------------------------------------------------------------------------

\* Watchers registered in session s: subscribed and not closed by End.
Subscribers(s) ==
    {w \in Watchers : watch[w].session = s /\ ~Contains(buffer[w], End)}

\* The replay buffer holds the last MaxReplay chunks.
Oldest(n) == IF n > MaxReplay THEN n - MaxReplay + 1 ELSE 1
Replay(s) == [i \in 1..(published[s] + 1 - Oldest(published[s])) |->
                 Oldest(published[s]) + i - 1]

\* _publish n chunks: append them to the log, put them in every queue.
\* _finish after that: closing the watchers is the None put in each queue.
Emit(s, n, closing) ==
    LET new == [i \in 1..n |-> published[s] + i]
        end == IF closing THEN <<End>> ELSE <<>>
    IN /\ published' = [published EXCEPT ![s] = @ + n]
       /\ buffer' = [w \in Watchers |->
                        IF w \in Subscribers(s) THEN buffer[w] \o new \o end
                        ELSE buffer[w]]

\* Mutant: watchers are closed before the last chunk is published.
FinishBefore(s, n) ==
    /\ published' = [published EXCEPT ![s] = @ + n]
    /\ buffer' = [w \in Watchers |->
                     IF w \in Subscribers(s) /\ ~finished[s] THEN Append(buffer[w], End)
                     ELSE buffer[w]]
    /\ finished' = [finished EXCEPT ![s] = TRUE]
    /\ IF finished[s]
       THEN UNCHANGED <<holder, closedAt>>
       ELSE /\ IF holder = s THEN Lease!Free(s) ELSE UNCHANGED holder
            /\ closedAt' = [closedAt EXCEPT ![s] = published'[s]]

\* _publish n chunks, then _finish: the first caller releases the lease and
\* closes the watchers, a later one does nothing.
FinishAfter(s, n) ==
    /\ Emit(s, n, ~finished[s])
    /\ finished' = [finished EXCEPT ![s] = TRUE]
    /\ IF finished[s]
       THEN UNCHANGED <<holder, closedAt>>
       ELSE /\ IF holder = s THEN Lease!Free(s) ELSE UNCHANGED holder
            /\ closedAt' = [closedAt EXCEPT ![s] = published'[s]]

-----------------------------------------------------------------------------

\* Mutant: the manager looks at its own session only, not at the lease.
StartUngated(s) ==
    /\ state[s] = "none"
    /\ current # NoSession => state[current] \notin Active
    /\ holder' = s
    /\ current' = s
    /\ state' = [state EXCEPT ![s] = "starting"]
    /\ task' = [task EXCEPT ![s] = "created"]
    /\ UNCHANGED <<finished, closedAt, published, kill, watch, buffer, proc>>

\* UploadConsoleManager.start for a new session: refused while the current
\* session looks active, and while anybody holds the lease.
Start(s) ==
    /\ state[s] = "none"
    /\ current # NoSession => state[current] \notin Active
    /\ Lease!Grant(s)
    /\ current' = s
    /\ state' = [state EXCEPT ![s] = "starting"]
    /\ task' = [task EXCEPT ![s] = "created"]
    /\ UNCHANGED <<finished, closedAt, published, kill, watch, buffer, proc>>

\* First step of _run up to the request to Upload Assistant.  It sets
\* "running" whatever the state is, a kill may already have set "killing".
RunStart(s) ==
    /\ task[s] = "created"
    /\ state' = [state EXCEPT ![s] = "running"]
    /\ task' = [task EXCEPT ![s] = "streaming"]
    /\ proc' = [proc EXCEPT ![s] = "requested"]
    /\ Emit(s, 1, FALSE)
    /\ UNCHANGED <<holder, current, finished, closedAt, kill, watch>>

\* One more chunk of Upload Assistant's output.
StreamChunk(s) ==
    /\ task[s] = "streaming"
    /\ proc[s] = "running"
    /\ published[s] < 1 + MaxOutput
    /\ Emit(s, 1, FALSE)
    /\ UNCHANGED <<holder, current, state, task, finished, closedAt, kill, watch, proc>>

\* The stream ends: _run reports completion unless a kill is under way.
StreamEnds(s) ==
    LET killed == state[s] \in {"killing", "killed"}
    IN /\ task[s] = "streaming"
       /\ proc[s] = "exited"
       /\ state' = IF killed THEN state ELSE [state EXCEPT ![s] = "complete"]
       /\ task' = [task EXCEPT ![s] = "done"]
       /\ FinishAfter(s, IF killed THEN 0 ELSE 1)
       /\ UNCHANGED <<current, kill, watch, proc>>

\* Mutant: no finally around the stream, a failed request skips _finish.
StreamFailsUnfinished(s) ==
    /\ task[s] = "streaming"
    /\ state' = [state EXCEPT ![s] = "error"]
    /\ task' = [task EXCEPT ![s] = "done"]
    /\ Emit(s, 1, FALSE)
    /\ UNCHANGED <<holder, current, finished, closedAt, kill, watch, proc>>

\* The request fails: an HTTP error, a read timeout, a lost connection.
\* _run reports the error whatever the state is.
StreamFails(s) ==
    /\ task[s] = "streaming"
    /\ state' = [state EXCEPT ![s] = "error"]
    /\ task' = [task EXCEPT ![s] = "done"]
    /\ FinishAfter(s, 1)
    /\ UNCHANGED <<current, kill, watch, proc>>

\* The cancellation asked for by a kill reaches the stream task.
StreamCancelled(s) ==
    LET killed == state[s] \in {"killing", "killed"}
    IN /\ task[s] = "cancelling"
       /\ state' = IF killed THEN state ELSE [state EXCEPT ![s] = "cancelled"]
       /\ task' = [task EXCEPT ![s] = "done"]
       /\ FinishAfter(s, IF killed THEN 0 ELSE 1)
       /\ UNCHANGED <<current, kill, watch, proc>>

-----------------------------------------------------------------------------

\* A kill request for the manager's session, up to its call of Upload
\* Assistant.
KillRequest(k) ==
    /\ kill[k].at = "idle"
    /\ current # NoSession
    /\ state[current] \notin Ended
    /\ state' = [state EXCEPT ![current] = "killing"]
    /\ kill' = [kill EXCEPT ![k] = [at |-> "asking", session |-> current]]
    /\ UNCHANGED <<holder, current, task, finished, closedAt, outputVars, proc>>

\* A kill request for a session that has ended only calls _finish.
KillEnded(k) ==
    /\ kill[k].at = "idle"
    /\ current # NoSession
    /\ state[current] \in Ended
    /\ FinishAfter(current, 0)
    /\ UNCHANGED <<current, state, task, kill, watch, proc>>

\* Upload Assistant killed the process, or answered 404: it knows no active
\* process, the request may not have reached it yet.  The session counts as
\* killed; a stream task that is still there is cancelled and joined.  The
\* task's first step was queued before any answer can arrive.
KillAnswered(k) ==
    LET s == kill[k].session
    IN /\ kill[k].at = "asking"
       /\ task[s] # "created"
       /\ state' = [state EXCEPT ![s] = "killed"]
       /\ proc' = IF proc[s] = "running" THEN [proc EXCEPT ![s] = "exited"] ELSE proc
       /\ IF task[s] = "done"
          THEN /\ kill' = [kill EXCEPT ![k] = [at |-> "idle", session |-> NoSession]]
               /\ FinishAfter(s, 1)
               /\ UNCHANGED task
          ELSE /\ kill' = [kill EXCEPT ![k].at = "joining"]
               /\ task' = [task EXCEPT ![s] = "cancelling"]
               /\ Emit(s, 1, FALSE)
               /\ UNCHANGED <<holder, finished, closedAt>>
       /\ UNCHANGED <<current, watch>>

\* The call fails in any other way: the exception leaves kill() at once and
\* the session keeps its state.
KillFails(k) ==
    /\ kill[k].at = "asking"
    /\ task[kill[k].session] # "created"
    /\ kill' = [kill EXCEPT ![k] = [at |-> "idle", session |-> NoSession]]
    /\ UNCHANGED <<holder, sessionVars, outputVars, proc>>

\* The stream task is gone, or two seconds have passed and wait_for has
\* cancelled it again and seen it end.
KillJoined(k) ==
    LET s == kill[k].session
    IN /\ kill[k].at = "joining"
       /\ task[s] = "done"
       /\ FinishAfter(s, 0)
       /\ kill' = [kill EXCEPT ![k] = [at |-> "idle", session |-> NoSession]]
       /\ UNCHANGED <<current, state, task, watch, proc>>

-----------------------------------------------------------------------------

\* Mutant: the watcher is registered without looking at _finished.
SubscribeBlind(w) ==
    LET s == current
    IN /\ watch[w].session = NoSession
       /\ s # NoSession
       /\ watch' = [watch EXCEPT ![w] =
                       [session |-> s, first |-> Oldest(published[s]), got |-> <<>>]]
       /\ buffer' = [buffer EXCEPT ![w] = Replay(s)]
       /\ UNCHANGED <<leaseVars, sessionVars, published, kill, proc>>

\* subscribe() to the manager's session: copy the replay and register in
\* one critical section; a finished session only replays.
Subscribe(w) ==
    LET s == current
    IN /\ watch[w].session = NoSession
       /\ s # NoSession
       /\ watch' = [watch EXCEPT ![w] =
                       [session |-> s, first |-> Oldest(published[s]), got |-> <<>>]]
       /\ buffer' = [buffer EXCEPT ![w] =
                        IF finished[s] THEN Replay(s) \o <<End>> ELSE Replay(s)]
       /\ UNCHANGED <<leaseVars, sessionVars, published, kill, proc>>

\* The watcher reads its next chunk.
Read(w) ==
    /\ buffer[w] # <<>>
    /\ Head(buffer[w]) # End
    /\ watch' = [watch EXCEPT ![w].got = Append(@, Head(buffer[w]))]
    /\ buffer' = [buffer EXCEPT ![w] = Tail(@)]
    /\ UNCHANGED <<leaseVars, sessionVars, published, kill, proc>>

\* The watcher reads the end, or the browser goes away: it is unregistered.
Leave(w) ==
    /\ watch[w].session # NoSession
    /\ watch' = [watch EXCEPT ![w] = [session |-> NoSession, first |-> 0, got |-> <<>>]]
    /\ buffer' = [buffer EXCEPT ![w] = <<>>]
    /\ UNCHANGED <<leaseVars, sessionVars, published, kill, proc>>

-----------------------------------------------------------------------------

\* Upload Assistant takes the request, even one whose sender is gone.
UaAccepts(s) ==
    /\ proc[s] = "requested"
    /\ proc' = [proc EXCEPT ![s] = "running"]
    /\ UNCHANGED <<leaseVars, sessionVars, outputVars, kill>>

UaExits(s) ==
    /\ proc[s] = "running"
    /\ proc' = [proc EXCEPT ![s] = "exited"]
    /\ UNCHANGED <<leaseVars, sessionVars, outputVars, kill>>

\* Checks and queued imports use the same lease.
OtherUse ==
    /\ Lease!Grant(Others) \/ Lease!Free(Others)
    /\ UNCHANGED <<sessionVars, outputVars, kill, proc>>

StreamTask(s) ==
    \/ RunStart(s) \/ StreamChunk(s) \/ StreamEnds(s) \/ StreamFails(s)
    \/ StreamCancelled(s)

Next ==
    \/ \E s \in Sessions : Start(s) \/ StreamTask(s) \/ UaAccepts(s) \/ UaExits(s)
    \/ \E k \in Kills : \/ KillRequest(k) \/ KillEnded(k)
                        \/ KillAnswered(k) \/ KillFails(k) \/ KillJoined(k)
    \/ \E w \in Watchers : Subscribe(w) \/ Read(w) \/ Leave(w)
    \/ OtherUse

\* asyncio runs every ready task; Upload Assistant ends its stream or the
\* read timeout does; a kill call has a 30 s timeout.
Fairness ==
    /\ \A s \in Sessions :
          /\ WF_vars(RunStart(s))
          /\ WF_vars(StreamEnds(s) \/ StreamFails(s))
          /\ WF_vars(StreamCancelled(s))
    /\ \A k \in Kills :
          /\ WF_vars(KillAnswered(k) \/ KillFails(k))
          /\ WF_vars(KillJoined(k))

Spec == Init /\ [][Next]_vars /\ Fairness

-----------------------------------------------------------------------------

\* A session has the lease from its start until _finish and at no other
\* time: neither a race of kill, failure and normal end nor a second kill
\* leaks it, gives it back early or takes it from a check or an import.
LeaseWhileUnfinished ==
    \A s \in Sessions : (holder = s) <=> (state[s] # "none" /\ ~finished[s])

\* What is in a watcher's queue before its end.
Unread(w) == IF Contains(buffer[w], End) THEN Front(buffer[w]) ELSE buffer[w]

\* A watcher gets every chunk once and in order from the oldest one kept
\* when it joined, whether the chunk came before or after it joined, and it
\* is closed only behind the last chunk published before the end.
OutputInOrder ==
    \A w \in Watchers : watch[w].session # NoSession =>
        LET s == watch[w].session
            seen == watch[w].got \o Unread(w)
            last == watch[w].first + Len(seen) - 1
        IN /\ \A i \in 1..Len(seen) : seen[i] = watch[w].first + i - 1
           /\ IF Contains(buffer[w], End)
              THEN last >= closedAt[s]
              ELSE last = published[s]

\* Every session gives the lease back, however stream, kills and errors
\* interleave.
LeaseReturned == \A s \in Sessions : (holder = s) ~> (holder # s)

\* No watcher is left waiting on a session that has ended, however its
\* registration falls between the session's last chunk and its end.
WatcherReachesEnd ==
    \A w \in Watchers :
        watch[w].session # NoSession =>
            (finished[watch[w].session] <=> Contains(buffer[w], End))
=============================================================================
