------------------------------ MODULE Sessions ------------------------------
(***************************************************************************)
(* Who may use the pages: the administrator account, the browser sessions  *)
(* and their cookies (app/security.py, the tables of app/database.py and   *)
(* the handlers of app/main.py that sign in and out and change             *)
(* credentials).                                                           *)
(*                                                                         *)
(* A request passes the middleware, runs its handler and passes the        *)
(* middleware again on its way out; other requests, of the same browser    *)
(* too, do the same in between.  Each part runs without an await, so it is *)
(* one step.  A browser takes its cookies from the answers in the order    *)
(* they are sent.                                                          *)
(*                                                                         *)
(* Sessions are numbered in the order they are issued.  Times are ticks.   *)
(* That an address is refused for a while after failed attempts is one of  *)
(* the refusals; bearer tokens, which let in no browser, are left out.     *)
(***************************************************************************)
EXTENDS Naturals, FiniteSets, Functions

CONSTANTS
    Browsers,       \* each with an address of its own
    Home,           \* those whose address a network bypass would cover
    Lanes,          \* bound: requests under way at once
    Ttl,            \* SESSION_TTL_SECONDS
    OldTtl,         \* what an older version gave its sessions
    Nobody,
    MaxTime, MaxSessions, MaxChanges, MaxCrashes    \* bounds

ASSUME BrowsersAssumption == Home \subseteq Browsers
ASSUME TtlAssumption == Ttl \in Nat \ {0} /\ OldTtl \in 1..Ttl
ASSUME SessionBounds ==
    {MaxTime, MaxChanges, MaxCrashes} \subseteq Nat /\ MaxSessions \in Nat \ {0}

VARIABLES
    up, now,
    admin,          \* admin_account.auth_version, 0 without an account
    bypass,         \* the network bypass is configured
    rows,           \* auth_sessions, by session
    cookie,         \* the session in a browser's cookies, 0 for none
    req,            \* requests under way
    issued,         \* sessions issued so far
    vouched,        \* history: sessions begun since credentials last changed
    signedOut,      \* history: sessions ended by signing out
    changes, crashes

accountVars == <<admin, bypass>>
historyVars == <<issued, vouched, signedOut, changes>>
vars == <<up, now, accountVars, rows, cookie, req, historyVars, crashes>>

Clear == MaxSessions + 1    \* an answer that deletes the cookies
Forms == {"login", "setup", "logout", "account", "rotate"}
Public == {"login", "setup"}

NoRequest ==
    [at |-> "none", by |-> Nobody, form |-> "page", token |-> 0, known |-> FALSE, sets |-> 0]

\* A database without an account, or one of an older version with a session
\* that some browser still has.
Init ==
    /\ up = FALSE /\ now = 0 /\ changes = 0 /\ crashes = 0
    /\ req = [l \in Lanes |-> NoRequest]
    /\ signedOut = {}
    /\ bypass = FALSE
    /\ \/ /\ admin = 0 /\ issued = 0 /\ rows = <<>> /\ vouched = {}
          /\ cookie = [b \in Browsers |-> 0]
       \/ \E b \in Browsers :
            /\ admin = 1 /\ issued = 1 /\ vouched = {1}
            /\ cookie = [c \in Browsers |-> IF c = b THEN 1 ELSE 0]
            /\ rows = [s \in {1} |-> [method |-> "password", version |-> 1, addr |-> b,
                                      created |-> 0, expires |-> OldTtl]]

-----------------------------------------------------------------------------

\* The sessions that let a request in.
Unexpired == {s \in DOMAIN rows : rows[s].expires > now}
Live == {s \in Unexpired :
            IF rows[s].method = "password"
            THEN rows[s].version = admin
            ELSE bypass /\ rows[s].addr \in Home}

\* session_identity: a network session is good at one address only.
Identity(b, s) == s \in Live /\ (rows[s].method = "network" => rows[s].addr = b)

\* get_auth_session and create_auth_session delete what has expired.
Pruned == Restrict(rows, Unexpired)

\* create_session.
Begin(s, method, b) ==
    /\ rows' = [r \in DOMAIN Pruned \cup {s} |->
                   IF r = s THEN [method |-> method, version |-> admin, addr |-> b,
                                  created |-> now, expires |-> now + Ttl]
                   ELSE rows[r]]
    /\ issued' = s
    /\ vouched' = vouched \cup {s}

\* Mutant: new credentials leave the sessions of the old ones.
EndAllNot ==
    /\ changes < MaxChanges
    /\ changes' = changes + 1
    /\ vouched' = {}
    /\ UNCHANGED rows

\* Credentials change and every session ends.
EndAll ==
    /\ changes < MaxChanges
    /\ changes' = changes + 1
    /\ vouched' = {}
    /\ rows' = <<>>

-----------------------------------------------------------------------------

\* A request of browser b: the middleware finds whose it is.
Sent(b, form) == [at |-> "admitted", by |-> b, form |-> form, token |-> cookie[b],
                  known |-> Identity(b, cookie[b]), sets |-> 0]

\* SecurityMiddleware.dispatch lets a request in: a public form, or any with
\* a session.
Admit(b, l, form) ==
    /\ up
    /\ req[l].at = "none"
    /\ form \in Public \/ Identity(b, cookie[b])
    /\ req' = [req EXCEPT ![l] = Sent(b, form)]
    /\ rows' = IF cookie[b] # 0 THEN Pruned ELSE rows
    /\ UNCHANGED <<up, now, accountVars, cookie, historyVars, crashes>>

\* At an address with bypass a page without a session begins one.
AdmitHome(b, l) ==
    /\ up
    /\ req[l].at = "none"
    /\ ~Identity(b, cookie[b])
    /\ admin # 0 /\ bypass /\ b \in Home
    /\ issued < MaxSessions
    /\ Begin(issued + 1, "network", b)
    /\ req' = [req EXCEPT ![l] = [NoRequest EXCEPT !.at = "handled", !.by = b,
                                                   !.sets = issued + 1]]
    /\ UNCHANGED <<up, now, accountVars, cookie, signedOut, changes, crashes>>

\* The handler of a request ends, with what it does to the cookies.
Handled(l, form, sets) ==
    /\ up
    /\ req[l].at = "admitted" /\ req[l].form = form
    /\ req' = [req EXCEPT ![l].at = "handled", ![l].sets = sets]
    /\ UNCHANGED <<up, now, crashes>>

\* login: a session begins, or the attempt is refused.
Login(l) ==
    \/ /\ Handled(l, "login", 0)
       /\ UNCHANGED <<accountVars, rows, cookie, historyVars>>
    \/ /\ Handled(l, "login", issued + 1)
       /\ admin # 0
       /\ issued < MaxSessions
       /\ Begin(issued + 1, "password", req[l].by)
       /\ UNCHANGED <<accountVars, cookie, signedOut, changes>>

\* setup_admin: closed once there is an account; the first to show the API
\* token creates it and decides on the bypass.
Setup(l) ==
    /\ Handled(l, "setup", 0)
    /\ \/ UNCHANGED accountVars
       \/ /\ admin = 0
          /\ admin' = 1
          /\ bypass' \in BOOLEAN
    /\ UNCHANGED <<rows, cookie, historyVars>>

\* logout.
Logout(l) ==
    LET s == req[l].token
    IN /\ Handled(l, "logout", Clear)
       /\ rows' = Restrict(rows, DOMAIN rows \ {s})
       /\ signedOut' = signedOut \cup {s}
       /\ UNCHANGED <<accountVars, cookie, issued, vouched, changes>>

\* update_admin_account, with the current password or the API token; without
\* it the form comes back.
Account(l) ==
    \/ /\ Handled(l, "account", 0)
       /\ UNCHANGED <<accountVars, rows, cookie, historyVars>>
    \/ /\ Handled(l, "account", Clear)
       /\ admin' = admin + 1
       /\ EndAll
       /\ UNCHANGED <<bypass, cookie, issued, signedOut>>

\* rotate_config_api_token, or the settings form with a new token; one that
\* is too short is refused.
Rotate(l) ==
    /\ Handled(l, "rotate", 0)
    /\ EndAll \/ UNCHANGED <<rows, vouched, changes>>
    /\ UNCHANGED <<accountVars, cookie, issued, signedOut>>

\* Mutant: the cookies of the request are refreshed whatever became of its
\* session.
RefreshedAlways(r) == r.known

\* The session's cookies are sent again if it still lets requests in.
Refreshed(r) == r.known /\ Identity(r.by, r.token)

\* The answer leaves.  Cookies sent again come after those of the handler.
Answer(l) ==
    LET r == req[l]
    IN /\ up
       /\ r.at = "handled" \/ (r.at = "admitted" /\ r.form = "page")
       /\ cookie' = [cookie EXCEPT ![r.by] =
                        IF Refreshed(r) THEN r.token
                        ELSE IF r.sets = Clear THEN 0
                        ELSE IF r.sets # 0 THEN r.sets
                        ELSE @]
       /\ rows' = IF r.known THEN Pruned ELSE rows
       /\ req' = [req EXCEPT ![l] = NoRequest]
       /\ UNCHANGED <<up, now, accountVars, historyVars, crashes>>

-----------------------------------------------------------------------------

\* Mutant: a start gives every session its time again.
ExtendedAll ==
    [s \in DOMAIN rows |-> [rows[s] EXCEPT !.expires = rows[s].created + Ttl]]

\* extend_active_auth_sessions, when the program or the tool starts.
Extended ==
    [s \in DOMAIN rows |->
        IF s \in Unexpired /\ rows[s].expires < rows[s].created + Ttl
        THEN [rows[s] EXCEPT !.expires = rows[s].created + Ttl]
        ELSE rows[s]]

Start ==
    /\ ~up /\ up' = TRUE
    /\ rows' = Extended
    /\ UNCHANGED <<now, accountVars, cookie, req, historyVars, crashes>>

\* tools/admin_credentials.py, run while the program is stopped.
OfflineReset ==
    /\ ~up
    /\ admin' = admin + 1
    /\ IF admin = 0
       THEN rows' = Extended /\ UNCHANGED <<changes, vouched>>
       ELSE EndAll
    /\ UNCHANGED <<up, now, bypass, cookie, req, issued, signedOut, crashes>>

\* The program stops or dies: requests get no answer.
Crash ==
    /\ up /\ up' = FALSE
    /\ crashes < MaxCrashes /\ crashes' = crashes + 1
    /\ req' = [l \in Lanes |-> NoRequest]
    /\ UNCHANGED <<now, accountVars, rows, cookie, historyVars>>

Tick ==
    /\ now < MaxTime /\ now' = now + 1
    /\ UNCHANGED <<up, accountVars, rows, cookie, req, historyVars, crashes>>

Request(l) ==
    \/ \E b \in Browsers, form \in Forms \cup {"page"} : Admit(b, l, form)
    \/ \E b \in Browsers : AdmitHome(b, l)
    \/ Login(l) \/ Setup(l) \/ Logout(l) \/ Account(l) \/ Rotate(l)
    \/ Answer(l)

Next ==
    \/ \E l \in Lanes : Request(l)
    \/ Start \/ OfflineReset \/ Crash \/ Tick

Spec == Init /\ [][Next]_vars

-----------------------------------------------------------------------------

\* No session outlives the credentials it was begun with: whoever is let in
\* signed in after the last change of the account or of the API token.
OldCredentialsAreOut == Live \subseteq vouched

\* A session that has ended, by signing out, by new credentials or by its
\* age, lets nobody in again: no start of the program revives it.
EndedStaysEnded == [][\A s \in 1..issued : s \notin Live => s \notin Live']_vars

\* Signing out holds: no answer still under way in the same browser puts the
\* cookies of the session back.
SigningOutHolds ==
    [][\A b \in Browsers : cookie'[b] # cookie[b] => cookie'[b] \notin signedOut]_vars
=============================================================================
