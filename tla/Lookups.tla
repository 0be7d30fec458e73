------------------------------ MODULE Lookups ------------------------------
(***************************************************************************)
(* What a check asks other services after Upload Assistant has passed its  *)
(* item: Sonarr or Radarr, with a key that is bound to the service it was  *)
(* saved for (app/arr_compare.py, app/security.py), and srrDB, with its    *)
(* throttle and its stored verdicts (app/srrdb.py, app/service.py) --      *)
(* while the settings forms of app/main.py change URL and key, files are   *)
(* renamed and the program restarts.                                       *)
(*                                                                         *)
(* The Upload Assistant lease lets one check run at a time.  A check keeps *)
(* the configuration it read when it started; the key it reads when it     *)
(* comes to the Arr.  Ages are ticks and stop counting at Forever, when    *)
(* nothing depends on them any more.                                       *)
(*                                                                         *)
(* One Arr stands for both, one list of rows for its indexers, series and  *)
(* episodes, and one release for all that have the same torrent root.      *)
(***************************************************************************)
EXTENDS Integers, FiniteSets

CONSTANTS
    Origins,        \* URLs an Arr can have, and the keys made for each
    Unset,
    ArrTtl,         \* arr_metadata_cache_seconds, 0 switches the cache off
    FoundTtl, NotFoundTtl, ErrorTtl,    \* the times of app/srrdb.py
    Spacing         \* between two requests to srrDB

ASSUME OriginsAssumption == Unset \notin Origins
ASSUME TtlsAssumption == {ArrTtl, FoundTtl, NotFoundTtl, ErrorTtl, Spacing} \subseteq Nat

VARIABLES
    url,            \* of the Arr, in config.yaml
    key,            \* the stored key: the origin it was made for
    bound,          \* the origin stored with it; none in older releases
    check,          \* the check: its stage, what it read, the age of its question
    arrRows,        \* _arr_metadata_cache
    stored,         \* the verdict stored for the release
    sinceRequest,   \* age of _last_srrdb_request_at
    files,          \* the release's video file has the archived name
    listed,         \* srrDB lists the release
    told,           \* the verdict the last check used
    sent,           \* history: which service got which key
    sinceListed,    \* history: for how long srrDB has listed the release
    spoiled         \* history: the last form to change the key was rejected

settingsVars == <<url, key, bound, spoiled>>
srrdbVars == <<stored, sinceRequest, told>>
worldVars == <<files, listed, sinceListed>>
vars == <<settingsVars, check, arrRows, srrdbVars, worldVars, sent>>

Longest(S) == CHOOSE n \in S : \A m \in S : m <= n
Forever == Longest({ArrTtl, FoundTtl, NotFoundTtl, ErrorTtl, Spacing})

Idle == [at |-> "idle", url |-> Unset, named |-> FALSE, age |-> 0]
NoRows == [age |-> Forever, content |-> Forever]
NoVerdict == [status |-> "none", named |-> FALSE, age |-> Forever]

\* An installation of an older release has a key without an origin.
Init ==
    /\ url \in Origins \cup {Unset}
    /\ key = url
    /\ bound \in {url, Unset}
    /\ check = Idle
    /\ arrRows = [o \in Origins |-> NoRows]
    /\ stored = NoVerdict
    /\ sinceRequest = Forever
    /\ files \in BOOLEAN
    /\ listed \in BOOLEAN
    /\ told = NoVerdict
    /\ sent = {}
    /\ sinceListed = 0
    /\ spoiled = FALSE

-----------------------------------------------------------------------------

\* Mutant: a new URL leaves the key of the old one.
UpdateSecretKept(u, entered, cleared) ==
    IF cleared THEN key' = Unset /\ bound' = Unset
    ELSE IF entered THEN key' = u /\ bound' = u
    ELSE UNCHANGED <<key, bound>>

\* _update_bound_service_secret with URL u; the key entered is one for u.
\* A new URL without a key clears the old key.
UpdateSecret(u, entered, cleared) ==
    IF cleared \/ (u # url /\ ~entered)
    THEN key' = Unset /\ bound' = Unset
    ELSE IF entered THEN key' = u /\ bound' = u
    ELSE UNCHANGED <<key, bound>>

Changes(u, entered, cleared) == cleared \/ entered \/ u # url

\* A key needs a URL.
Acceptable(u, entered) == entered => u # Unset

\* save_config and save_config_uploading look at the whole form first.
SaveSettings ==
    /\ \E u \in Origins \cup {Unset}, entered, cleared \in BOOLEAN :
          /\ Acceptable(u, entered)
          /\ UpdateSecret(u, entered, cleared)
          /\ url' = u
          /\ spoiled' = (spoiled /\ ~Changes(u, entered, cleared))
    /\ UNCHANGED <<check, arrRows, srrdbVars, worldVars, sent>>

\* save_config_connections goes from service to service: one further down
\* that is not acceptable rejects the form when this one's key is changed.
SaveConnections ==
    /\ \E u \in Origins \cup {Unset}, entered, cleared, rejected \in BOOLEAN :
          /\ Acceptable(u, entered)
          /\ UpdateSecret(u, entered, cleared)
          /\ url' = IF rejected THEN url ELSE u
          /\ spoiled' = IF Changes(u, entered, cleared) THEN rejected ELSE spoiled
    /\ UNCHANGED <<check, arrRows, srrdbVars, worldVars, sent>>

-----------------------------------------------------------------------------

End == check' = Idle

\* A check reads the configuration; its MediaInfo names the file.
Begin ==
    /\ check.at = "idle"
    /\ check' = [at |-> "started", url |-> url, named |-> files, age |-> 0]
    /\ told' = NoVerdict
    /\ UNCHANGED <<settingsVars, arrRows, stored, sinceRequest, worldVars, sent>>

\* Mutant: the origin of a key is not compared.
UsableUnbound(u) == key # Unset /\ u # Unset

\* get_bound_secret: a key goes to the origin it is bound to, one of an
\* older release to the configured URL, to which it is bound from then on.
Usable(u) == key # Unset /\ u # Unset /\ bound \in {u, Unset}

\* Rows are served while they are younger than the time to keep them.
Cached(o) == arrRows[o].age < ArrTtl

\* The check comes to the Arr.
ArrStage ==
    /\ check.at = "started"
    /\ IF Usable(check.url)
       THEN /\ bound' = IF bound = Unset THEN check.url ELSE bound
            /\ sent' = sent \cup {<<check.url, key>>}
            /\ check' = [check EXCEPT !.at = IF Cached(check.url) THEN "search" ELSE "load",
                                      !.age = 0]
       ELSE End /\ UNCHANGED <<bound, sent>>
    /\ UNCHANGED <<url, key, spoiled, arrRows, srrdbVars, worldVars>>

\* Mutant: rows are as old as their arrival.
KeptFromArrival(age) == [age |-> 0, content |-> age]

\* Rows are kept as old as the question that brought them: what they say may
\* have been true then only.
Kept(age) == [age |-> age, content |-> age]

ArrLoads ==
    /\ check.at = "load"
    /\ check' = [check EXCEPT !.at = "search", !.age = 0]
    /\ arrRows' = IF ArrTtl = 0 THEN arrRows
                  ELSE [arrRows EXCEPT ![check.url] = Kept(check.age)]
    /\ UNCHANGED <<settingsVars, srrdbVars, worldVars, sent>>

\* A timeout, an error, nothing that matches, or a decision that is no
\* candidate: the check does not come to srrDB.
ArrFails ==
    /\ check.at \in {"load", "search"}
    /\ End
    /\ UNCHANGED <<settingsVars, arrRows, srrdbVars, worldVars, sent>>

-----------------------------------------------------------------------------

\* Mutant: a failed request is remembered like an answer.
LastsAlike(status) == FoundTtl

\* How long a verdict is used.
Lasts(status) ==
    IF status = "skipped" THEN ErrorTtl
    ELSE IF status = "not_found" THEN NotFoundTtl
    ELSE FoundTtl

\* _cache_read.
Remembered == stored.status # "none" /\ stored.age < Lasts(stored.status)

\* The search found no equal or better release: verify_srrdb_release uses
\* the verdict stored for the release, or waits for its turn to ask.
SearchPasses ==
    /\ check.at = "search"
    /\ IF Remembered
       THEN /\ End
            /\ told' = [stored EXCEPT !.named = check.named]
       ELSE /\ check' = [check EXCEPT !.at = "throttled", !.age = 0]
            /\ UNCHANGED told
    /\ UNCHANGED <<settingsVars, arrRows, stored, sinceRequest, worldVars, sent>>

\* _ThrottledSrrdbClient: the program's last request is long enough ago.
MyTurn == sinceRequest >= Spacing

Ask ==
    /\ check.at = "throttled"
    /\ MyTurn
    /\ check' = [check EXCEPT !.at = "asking"]
    /\ sinceRequest' = 0
    /\ UNCHANGED <<settingsVars, arrRows, stored, told, worldVars, sent>>

\* The verdict is stored with the time the question was put, whichever it is.
Concludes(status) ==
    LET verdict == [status |-> status, named |-> check.named, age |-> check.age]
    IN /\ stored' = verdict
       /\ told' = verdict
       /\ End
       /\ UNCHANGED <<settingsVars, arrRows, sinceRequest, worldVars, sent>>

SrrdbAnswers ==
    /\ check.at = "asking"
    /\ Concludes(IF ~listed THEN "not_found"
                 ELSE IF check.named THEN "verified" ELSE "mismatch")

SrrdbFails ==
    /\ check.at = "asking"
    /\ Concludes("skipped")

-----------------------------------------------------------------------------

\* The user renames the file, or a torrent of the same name has another.
Rename ==
    /\ files' = ~files
    /\ UNCHANGED <<settingsVars, check, arrRows, srrdbVars, listed, sinceListed, sent>>

SrrdbLists ==
    /\ ~listed /\ listed' = TRUE
    /\ UNCHANGED <<settingsVars, check, arrRows, srrdbVars, files, sinceListed, sent>>

\* A restart: stored verdicts and settings are kept.
Restart ==
    /\ End
    /\ arrRows' = [o \in Origins |-> NoRows]
    /\ sinceRequest' = Forever
    /\ UNCHANGED <<settingsVars, stored, told, worldVars, sent>>

Older(n) == IF n < Forever THEN n + 1 ELSE n

Tick ==
    /\ check' = IF check.at \in {"idle", "started", "search"} THEN check ELSE [check EXCEPT !.age = Older(@)]
    /\ arrRows' = [o \in Origins |-> [age |-> Older(arrRows[o].age),
                                      content |-> Older(arrRows[o].content)]]
    /\ stored' = [stored EXCEPT !.age = Older(@)]
    /\ sinceRequest' = Older(sinceRequest)
    /\ sinceListed' = IF listed THEN Older(sinceListed) ELSE 0
    /\ UNCHANGED <<settingsVars, told, files, listed, sent>>

Check == Begin \/ ArrStage \/ ArrLoads \/ ArrFails \/ SearchPasses \/ Ask
            \/ SrrdbAnswers \/ SrrdbFails

Next == SaveSettings \/ SaveConnections \/ Check \/ Rename \/ SrrdbLists \/ Restart \/ Tick

Spec == Init /\ [][Next]_vars

-----------------------------------------------------------------------------

\* A key is sent to the service it was made for only, however settings are
\* saved or rejected while a check is under way with those of its start.
KeyGoesHome == \A s \in sent : s[1] = s[2]

\* Rows served without asking the Arr were true less than ArrTtl ago.
RowsAreRecent ==
    [][check.at = "started" /\ check'.at = "search"
          => arrRows[check.url].content < ArrTtl]_vars

\* Once srrDB lists a release no check goes by a stored verdict that it does
\* not for longer than NotFoundTtl.
ListingIsNoticed ==
    [][check.at = "search" /\ check'.at = "idle" /\ told' # told /\ told'.status = "not_found"
          => sinceListed < NotFoundTtl]_vars

\* A stored key is one that the configured service gets, whatever was done
\* to URL and key before, unless it is a rejected form that left it.
KeptKeyIsUsable == key # Unset /\ ~spoiled => Usable(url)

\* tests/test_srrdb.py: a release whose file has the archived name is
\* verified, and one whose file has another name is a mismatch.
VerdictIsOfTheseFiles ==
    told.status \in {"verified", "mismatch"} => (told.status = "verified") = told.named
=============================================================================
