-------------------------- MODULE Sessions_proofs --------------------------
(***************************************************************************)
(* For any number of browsers, requests under way and sessions: no session *)
(* outlives its credentials, none that ended comes back, and signing out   *)
(* is not undone by an answer that was under way.                          *)
(***************************************************************************)
EXTENDS Sessions, TLAPS

Row == [method : {"password", "network"}, version : Nat,
        addr : Browsers \cup {Nobody},
        created : Nat, expires : Nat]

Req == [at : {"none", "admitted", "handled"}, by : Browsers \cup {Nobody},
        form : Forms \cup {"page"}, token : 0..issued, known : BOOLEAN,
        sets : 0..issued \cup {Clear}]

TypeOK ==
    /\ up \in BOOLEAN
    /\ now \in Nat
    /\ admin \in Nat
    /\ bypass \in BOOLEAN
    /\ issued \in 0..MaxSessions
    /\ DOMAIN rows \subseteq 1..issued
    /\ \A s \in DOMAIN rows : rows[s] \in Row
    /\ cookie \in [Browsers -> 0..issued]
    /\ req \in [Lanes -> Req]
    /\ vouched \subseteq 1..issued
    /\ signedOut \subseteq 1..issued
    /\ changes \in Nat
    /\ crashes \in Nat

\* The sessions in the table were begun with the present credentials, none
\* of them was signed out, and without an account there is none.
TableIsCurrent ==
    /\ DOMAIN rows \subseteq vouched
    /\ DOMAIN rows \cap signedOut = {}
    /\ admin = 0 => DOMAIN rows = {}

\* A request to sign out comes with a session.
SignsOutOne ==
    \A l \in Lanes : req[l].at = "admitted" /\ req[l].form = "logout" => req[l].token # 0

\* The session an answer is about to hand over, if there is one.
NewIn(l) == req[l].sets # 0 /\ req[l].sets # Clear

\* A session on its way to its browser is in nobody's cookies yet, in no
\* other answer and in no request, so nobody can have signed it out.
UnsentIsUnknown ==
    \A l \in Lanes : NewIn(l) =>
        /\ req[l].sets \notin signedOut
        /\ \A b \in Browsers : cookie[b] # req[l].sets
        /\ \A m \in Lanes : /\ req[m].token # req[l].sets
                            /\ m # l => req[m].sets # req[l].sets

IInv ==
    /\ TypeOK
    /\ TableIsCurrent
    /\ SignsOutOne
    /\ UnsentIsUnknown
-----------------------------------------------------------------------------

\* Session s of the table after a step was in it before, for the same
\* credentials and address; only an unexpired one is given more time.
Survives(s) ==
    /\ s \in DOMAIN rows
    /\ rows'[s] \in Row
    /\ rows'[s].method = rows[s].method
    /\ rows'[s].version = rows[s].version
    /\ rows'[s].addr = rows[s].addr
    /\ rows'[s].expires = rows[s].expires \/ s \in Unexpired

\* Session s of the table after a step was begun by it.
Begun(s) ==
    /\ s = issued + 1 /\ issued' = s /\ s <= MaxSessions
    /\ rows'[s] \in Row
    /\ vouched' = vouched \cup {s}
    /\ signedOut' = signedOut
    /\ admin # 0 /\ admin' = admin

\* What a step may do to the table and to what is known of its sessions.
TableStep ==
    /\ \A s \in DOMAIN rows' : Survives(s) \/ Begun(s)
    /\ \/ UNCHANGED accountVars
       \/ DOMAIN rows' = {} /\ admin' \in Nat \ {0} /\ bypass' \in BOOLEAN
    /\ \/ UNCHANGED <<issued, vouched>>
       \/ vouched' = {} /\ issued' = issued /\ DOMAIN rows' = {}
       \/ Begun(issued + 1)
    /\ \/ UNCHANGED signedOut
       \/ \E s \in 1..issued : /\ signedOut' = signedOut \cup {s}
                               /\ s \notin DOMAIN rows'
    /\ now' \in Nat /\ now' >= now
    /\ changes' \in Nat /\ crashes' \in Nat /\ up' \in BOOLEAN

\* Deleting expired sessions keeps the others as they are.
LEMMA PrunedRows ==
  /\ DOMAIN Pruned \subseteq DOMAIN rows
  /\ \A s \in DOMAIN Pruned : Pruned[s] = rows[s]
BY DEF Pruned, Restrict, Unexpired

\* A start gives unexpired sessions more time and changes nothing else.
LEMMA ExtendedRows ==
  ASSUME TypeOK, rows' = Extended
  PROVE  \A s \in DOMAIN rows' : Survives(s)
<1> SUFFICES ASSUME NEW s \in DOMAIN rows'
             PROVE  Survives(s)
  OBVIOUS
<1>1. s \in DOMAIN rows /\ rows[s] \in Row
  BY DEF Extended, TypeOK
<1>2. CASE s \in Unexpired /\ rows[s].expires < rows[s].created + Ttl
  <2>1. rows'[s] = [rows[s] EXCEPT !.expires = rows[s].created + Ttl]
    BY <1>1, <1>2 DEF Extended
  <2>2. rows[s].created + Ttl \in Nat
    BY <1>1, TtlAssumption DEF Row
  <2>3. QED
    BY <1>1, <1>2, <2>1, <2>2 DEF Survives, Row
<1>3. CASE ~(s \in Unexpired /\ rows[s].expires < rows[s].created + Ttl)
  <2>1. rows'[s] = rows[s]
    BY <1>1, <1>3 DEF Extended
  <2>2. QED
    BY <1>1, <2>1 DEF Survives
<1>4. QED
  BY <1>2, <1>3

\* A session that begins joins the unexpired ones.
LEMMA BeginRows ==
  ASSUME TypeOK, NEW method \in {"password", "network"}, NEW b \in Browsers \cup {Nobody},
         Begin(issued + 1, method, b), issued < MaxSessions, admin # 0,
         UNCHANGED <<admin, signedOut>>
  PROVE  Begun(issued + 1) /\ \A s \in DOMAIN rows' : Survives(s) \/ Begun(s)
<1> DEFINE n == issued + 1
           new == [method |-> method, version |-> admin, addr |-> b,
                   created |-> now, expires |-> now + Ttl]
<1>1. n \in Nat /\ n <= MaxSessions /\ n \notin DOMAIN rows
  BY SessionBounds DEF TypeOK
<1>2. new \in Row
  BY TtlAssumption DEF TypeOK, Row
<1>3. rows' = [r \in DOMAIN Pruned \cup {n} |-> IF r = n THEN new ELSE rows[r]]
  BY DEF Begin
<1> HIDE DEF new, n
<1>4. /\ DOMAIN rows' = DOMAIN Pruned \cup {n}
      /\ rows'[n] = new
      /\ \A s \in DOMAIN Pruned : rows'[s] = rows[s]
  BY <1>1, <1>3, PrunedRows
<1>5. Begun(n)
  BY <1>1, <1>2, <1>4 DEF Begin, Begun, n
<1>6. \A s \in DOMAIN Pruned : Survives(s)
  BY <1>4, PrunedRows DEF Survives, TypeOK
<1>7. QED
  BY <1>4, <1>5, <1>6 DEF n

\* Rows that are kept or deleted, but not changed, survive.
LEMMA KeptRows ==
  ASSUME TypeOK, DOMAIN rows' \subseteq DOMAIN rows,
         \A s \in DOMAIN rows' : rows'[s] = rows[s]
  PROVE  \A s \in DOMAIN rows' : Survives(s)
BY DEF TypeOK, Survives

\* Every step of the program is a step of the table.
LEMMA StepOfTable ==
  ASSUME IInv, [Next]_vars
  PROVE  TableStep
<1> USE DEF IInv, TableStep, accountVars, historyVars
<1>1. ASSUME NEW b \in Browsers, NEW l \in Lanes, NEW form \in Forms \cup {"page"},
             Admit(b, l, form)
      PROVE  TableStep
  BY <1>1, PrunedRows, KeptRows DEF Admit, TypeOK
<1>2. ASSUME NEW b \in Browsers, NEW l \in Lanes, AdmitHome(b, l)
      PROVE  TableStep
  BY <1>2, BeginRows DEF AdmitHome, TypeOK
<1>3. ASSUME NEW l \in Lanes, Login(l)
      PROVE  TableStep
  <2>1. req[l].by \in Browsers \cup {Nobody}
    BY DEF TypeOK, Req
  <2>2. UNCHANGED <<up, now, admin, bypass, changes, crashes, signedOut>>
    BY <1>3 DEF Login, Handled
  <2>3. CASE UNCHANGED <<rows, issued, vouched>>
    BY <2>2, <2>3, KeptRows DEF TypeOK
  <2>4. CASE /\ admin # 0 /\ issued < MaxSessions
             /\ Begin(issued + 1, "password", req[l].by)
    <3>1. Begun(issued + 1) /\ \A s \in DOMAIN rows' : Survives(s) \/ Begun(s)
      BY <2>1, <2>2, <2>4, BeginRows
    <3>2. QED
      BY <2>2, <3>1 DEF TypeOK
  <2>5. QED
    BY <1>3, <2>3, <2>4 DEF Login, Handled
<1>4. ASSUME NEW l \in Lanes, Setup(l)
      PROVE  TableStep
  BY <1>4, KeptRows DEF Setup, Handled, TypeOK, TableIsCurrent
<1>5. ASSUME NEW l \in Lanes, Logout(l)
      PROVE  TableStep
  <2>1. req[l].token \in 1..issued
    BY <1>5 DEF Logout, Handled, SignsOutOne, TypeOK, Req
  <2>2. DOMAIN rows' = DOMAIN rows \ {req[l].token} /\ \A s \in DOMAIN rows' : rows'[s] = rows[s]
    BY <1>5 DEF Logout, Restrict
  <2>3. QED
    <3>1. \A s \in DOMAIN rows' : Survives(s)
      BY <2>2, KeptRows
    <3>2. signedOut' = signedOut \cup {req[l].token} /\ req[l].token \notin DOMAIN rows'
      BY <1>5, <2>2 DEF Logout
    <3>3. UNCHANGED <<up, now, admin, bypass, issued, vouched, changes, crashes>>
      BY <1>5 DEF Logout, Handled
    <3>4. QED
      BY <2>1, <3>1, <3>2, <3>3 DEF TypeOK
<1>6. ASSUME NEW l \in Lanes, Account(l) \/ Rotate(l)
      PROVE  TableStep
  BY <1>6, KeptRows DEF Account, Rotate, EndAll, Handled, TypeOK
<1>7. ASSUME NEW l \in Lanes, Answer(l)
      PROVE  TableStep
  BY <1>7, PrunedRows, KeptRows DEF Answer, TypeOK
<1>8. CASE Start
  BY <1>8, ExtendedRows DEF Start, TypeOK
<1>9. CASE OfflineReset
  <2>1. CASE admin = 0
    <3>1. DOMAIN rows' = {}
      BY <1>9, <2>1 DEF OfflineReset, Extended, TableIsCurrent
    <3>2. QED
      BY <1>9, <2>1, <3>1 DEF OfflineReset, TypeOK
  <2>2. CASE admin # 0
    BY <1>9, <2>2 DEF OfflineReset, EndAll, TypeOK
  <2>3. QED
    BY <2>1, <2>2
<1>10. CASE Crash \/ Tick
  <2>1. \A s \in DOMAIN rows' : Survives(s)
    BY <1>10, KeptRows DEF Crash, Tick
  <2>2. now' \in Nat /\ now' >= now /\ crashes' \in Nat
    BY <1>10 DEF Crash, Tick, TypeOK
  <2>3. QED
    BY <1>10, <2>1, <2>2 DEF Crash, Tick, TypeOK
<1>11. CASE UNCHANGED vars
  BY <1>11, KeptRows DEF vars, TypeOK
<1>12. QED
  BY <1>1, <1>2, <1>3, <1>4, <1>5, <1>6, <1>7, <1>8, <1>9, <1>10, <1>11 DEF Next, Request
-----------------------------------------------------------------------------

\* The part of the invariant about requests, answers and cookies.
RequestsOK ==
    /\ cookie \in [Browsers -> 0..issued]
    /\ req \in [Lanes -> Req]
    /\ SignsOutOne
    /\ UnsentIsUnknown

\* What a request may become in a step: its handler hands over nothing, has
\* the cookies deleted, or hands over a session that began just now.
HandledTo(l, sets) ==
    /\ req' = [req EXCEPT ![l].at = "handled", ![l].sets = sets]
    /\ \/ sets \in {0, Clear} /\ issued' = issued
       \/ sets = issued + 1 /\ issued' = sets /\ issued < MaxSessions

\* A request that is handled is a request still.
LEMMA HandledRecord ==
  ASSUME NEW By, NEW Form, NEW Token, NEW Sets, NEW sets \in Sets,
         NEW r \in [at : {"none", "admitted", "handled"}, by : By, form : Form,
                   token : Token, known : BOOLEAN, sets : Sets]
  PROVE  [r EXCEPT !.at = "handled", !.sets = sets]
           \in [at : {"none", "admitted", "handled"}, by : By, form : Form,
               token : Token, known : BOOLEAN, sets : Sets]
OBVIOUS

\* A handler that signs nobody out keeps the requests in order.
LEMMA HandlingKeepsRequests ==
  ASSUME IInv, NEW l \in Lanes, NEW sets, HandledTo(l, sets), UNCHANGED cookie,
         \/ UNCHANGED signedOut
         \/ sets = Clear /\ signedOut' = signedOut \cup {req[l].token}
  PROVE  RequestsOK'
<1>1. /\ issued \in 0..MaxSessions /\ issued' \in 0..MaxSessions /\ issued <= issued'
      /\ sets \in 0..issued' \cup {Clear}
      /\ req \in [Lanes -> Req] /\ MaxSessions \in Nat
  BY SessionBounds DEF HandledTo, IInv, TypeOK, Clear
<1>2. \A m \in Lanes \ {l} : req'[m] = req[m]
  BY <1>1 DEF HandledTo
<1>3. req'[l] = [req[l] EXCEPT !.at = "handled", !.sets = sets]
  BY <1>1 DEF HandledTo, Req
<1>4. \A m \in Lanes : req'[m].token = req[m].token /\ req[m].token \in 0..issued
  <2>1. req[l] \in Req
    BY <1>1
  <2>2. req'[l].token = req[l].token
    BY <1>3, <2>1 DEF Req
  <2>3. \A m \in Lanes : req[m].token \in 0..issued
    BY <1>1 DEF Req
  <2>4. QED
    BY <1>2, <2>2, <2>3
<1>5. req' \in [Lanes -> Req]'
  <2>0. \A r \in Req : r \in Req' /\ [r EXCEPT !.at = "handled", !.sets = sets] \in Req'
    <3>1. SUFFICES ASSUME NEW r \in Req
                   PROVE  r \in Req' /\ [r EXCEPT !.at = "handled", !.sets = sets] \in Req'
      OBVIOUS
    <3>2. /\ r.at \in {"none", "admitted", "handled"}
          /\ r.by \in Browsers \cup {Nobody}
          /\ r.form \in Forms \cup {"page"} /\ r.token \in 0..issued'
          /\ r.known \in BOOLEAN /\ r.sets \in 0..issued' \cup {Clear}
      BY <1>1 DEF Req
    <3>3. sets \in 0..issued' \cup {Clear}
      BY <1>1
    <3>4. r \in Req'
      <4>1. r = [at |-> r.at, by |-> r.by, form |-> r.form, token |-> r.token,
                 known |-> r.known, sets |-> r.sets]
        BY DEF Req
      <4>2. QED
        BY <3>2, <4>1 DEF Req, Clear
    <3>5. QED
      BY <3>3, <3>4, HandledRecord DEF Req, Clear
  <2>1. \A m \in Lanes : req'[m] \in Req'
    BY <1>1, <1>2, <1>3, <2>0
  <2>2. QED
    BY <1>1, <2>1 DEF HandledTo
<1>6. (cookie \in [Browsers -> 0..issued])'
  BY <1>1 DEF IInv, TypeOK
<1>7. SignsOutOne'
  <2>1. req'[l].at = "handled"
    BY <1>1, <1>3 DEF Req
  <2>2. QED
    BY <1>2, <2>1 DEF SignsOutOne, IInv
<1>8. UnsentIsUnknown'
  <2>1. req'[l].sets = sets
    BY <1>1, <1>3 DEF Req
  <2>2. ASSUME NEW k \in Lanes, NewIn(k)', k # l
        PROVE  /\ req'[k].sets \notin signedOut'
               /\ \A b \in Browsers : cookie'[b] # req'[k].sets
               /\ \A m \in Lanes : /\ req'[m].token # req'[k].sets
                                   /\ m # k => req'[m].sets # req'[k].sets
    <3>1. req'[k] = req[k] /\ NewIn(k) /\ req[k].sets \in 1..issued
      BY <1>1, <1>2, <2>2 DEF NewIn, Req
    <3>2. sets # req[k].sets
      BY <1>1, <2>2, <3>1, SessionBounds DEF HandledTo, NewIn
    <3>3. QED
      BY <1>2, <1>4, <2>1, <3>1, <3>2 DEF IInv, UnsentIsUnknown
  <2>3. ASSUME NewIn(l)'
        PROVE  /\ req'[l].sets \notin signedOut'
               /\ \A b \in Browsers : cookie'[b] # req'[l].sets
               /\ \A m \in Lanes : /\ req'[m].token # req'[l].sets
                                   /\ m # l => req'[m].sets # req'[l].sets
    <3>1. sets = issued + 1 /\ sets # Clear /\ UNCHANGED signedOut
      BY <2>1, <2>3 DEF NewIn, HandledTo, Clear
    <3>2. sets \notin signedOut /\ \A b \in Browsers : cookie[b] # sets
      BY <1>1, <3>1 DEF IInv, TypeOK
    <3>3. \A m \in Lanes : req[m].token # sets /\ req[m].sets # sets
      BY <1>1, <1>4, <3>1 DEF Req
    <3>4. QED
      BY <1>2, <1>4, <2>1, <3>1, <3>2, <3>3
  <2>4. QED
    BY <2>2, <2>3 DEF UnsentIsUnknown
<1>9. QED
  BY <1>5, <1>6, <1>7, <1>8 DEF RequestsOK

\* A request that is let in keeps the requests in order.
LEMMA AdmittingKeepsRequests ==
  ASSUME IInv, NEW b \in Browsers, NEW l \in Lanes, NEW form \in Forms \cup {"page"},
         Admit(b, l, form)
  PROVE  RequestsOK'
<1> DEFINE new == Sent(b, form)
<1>1. /\ req' = [req EXCEPT ![l] = new] /\ UNCHANGED <<cookie, issued, signedOut>>
      /\ req \in [Lanes -> Req] /\ cookie \in [Browsers -> 0..issued]
  BY DEF Admit, IInv, TypeOK, historyVars
<1>2. /\ new.at = "admitted" /\ new.form = form /\ new.token = cookie[b] /\ new.sets = 0
  BY DEF Sent
<1>3. new \in Req
  <2>1. Identity(b, cookie[b]) \in BOOLEAN
    BY DEF Identity
  <2>2. issued \in Nat /\ cookie[b] \in 0..issued
    BY <1>1 DEF IInv, TypeOK
  <2>3. QED
    BY <2>1, <2>2 DEF Sent, Req
<1>4. form = "logout" => cookie[b] # 0
  BY DEF Admit, Public, Identity, Live, Unexpired, IInv, TypeOK
<1> HIDE DEF new
<1>5. req'[l] = new /\ \A m \in Lanes \ {l} : req'[m] = req[m]
  BY <1>1
<1>6. (req \in [Lanes -> Req] /\ cookie \in [Browsers -> 0..issued])'
  BY <1>1, <1>3 DEF Req
<1>7. SignsOutOne'
  BY <1>2, <1>4, <1>5 DEF SignsOutOne, IInv
<1>8. UnsentIsUnknown'
  <2>1. SUFFICES ASSUME NEW k \in Lanes, NewIn(k)'
        PROVE  /\ req'[k].sets \notin signedOut'
               /\ \A c \in Browsers : cookie'[c] # req'[k].sets
               /\ \A m \in Lanes : /\ req'[m].token # req'[k].sets
                                   /\ m # k => req'[m].sets # req'[k].sets
    BY DEF UnsentIsUnknown
  <2>2. k # l /\ NewIn(k) /\ req'[k] = req[k]
    BY <1>2, <1>5, <2>1 DEF NewIn, Clear
  <2>3. req[k].sets # 0 /\ req[k].sets # cookie[b]
    BY <2>2 DEF NewIn, IInv, UnsentIsUnknown
  <2>4. QED
    BY <1>1, <1>2, <1>5, <2>2, <2>3 DEF IInv, UnsentIsUnknown
<1>9. QED
  BY <1>6, <1>7, <1>8 DEF RequestsOK

\* So does a page at an address with bypass that begins a session.
LEMMA AdmittingHomeKeepsRequests ==
  ASSUME IInv, NEW b \in Browsers, NEW l \in Lanes, AdmitHome(b, l)
  PROVE  RequestsOK'
<1> DEFINE new == [NoRequest EXCEPT !.at = "handled", !.by = b, !.sets = issued + 1]
<1>1. /\ req' = [req EXCEPT ![l] = new] /\ UNCHANGED <<cookie, signedOut>>
      /\ issued' = issued + 1 /\ issued < MaxSessions
      /\ req \in [Lanes -> Req] /\ cookie \in [Browsers -> 0..issued]
      /\ issued \in Nat /\ signedOut \subseteq 1..issued
  BY DEF AdmitHome, Begin, IInv, TypeOK
<1>2. new.at = "handled" /\ new.token = 0 /\ new.sets = issued + 1
  BY DEF NoRequest
<1>3. new \in Req'
  <2>1. issued + 1 \in 0..issued' \cup {Clear} /\ 0 \in 0..issued'
    BY <1>1
  <2>2. NoRequest \in Req'
    BY <2>1 DEF NoRequest, Req, Clear
  <2>3. QED
    BY <2>1, <2>2 DEF Req, Clear
<1> HIDE DEF new
<1>4. req'[l] = new /\ \A m \in Lanes \ {l} : req'[m] = req[m]
  BY <1>1
<1>5. (req \in [Lanes -> Req] /\ cookie \in [Browsers -> 0..issued])'
  <2>1. \A r \in Req : r \in Req'
    BY <1>1 DEF Req, Clear
  <2>2. \A m \in Lanes : req'[m] \in Req'
    BY <1>1, <1>3, <1>4, <2>1
  <2>3. QED
    BY <1>1, <2>2
<1>6. SignsOutOne'
  BY <1>2, <1>4 DEF SignsOutOne, IInv
<1>7. UnsentIsUnknown'
  <2>1. \A m \in Lanes : req[m].token \in 0..issued /\ req[m].sets \in 0..issued \cup {Clear}
    BY <1>1 DEF Req
  <2>2. issued + 1 # Clear
    BY <1>1, SessionBounds DEF Clear
  <2>3. SUFFICES ASSUME NEW k \in Lanes, NewIn(k)'
        PROVE  /\ req'[k].sets \notin signedOut'
               /\ \A c \in Browsers : cookie'[c] # req'[k].sets
               /\ \A m \in Lanes : /\ req'[m].token # req'[k].sets
                                   /\ m # k => req'[m].sets # req'[k].sets
    BY DEF UnsentIsUnknown
  <2>4. CASE k = l
    <3>1. req'[k].sets = issued + 1
      BY <1>2, <1>4, <2>4
    <3>2. \A m \in Lanes \ {l} : req'[m].sets # issued + 1 /\ req'[m].token # issued + 1
      BY <1>1, <1>4, <2>1, <2>2
    <3>3. req'[l].token # issued + 1
      BY <1>1, <1>2, <1>4
    <3>4. (issued + 1) \notin signedOut /\ \A c \in Browsers : cookie[c] # issued + 1
      BY <1>1
    <3>5. QED
      BY <1>1, <2>4, <3>1, <3>2, <3>3, <3>4
  <2>5. CASE k # l
    <3>1. NewIn(k) /\ req'[k] = req[k]
      BY <1>4, <2>3, <2>5 DEF NewIn, Clear
    <3>2. req[k].sets # 0 /\ req[k].sets # issued + 1
      BY <1>1, <2>1, <2>2, <3>1 DEF NewIn
    <3>3. QED
      BY <1>1, <1>2, <1>4, <3>1, <3>2 DEF IInv, UnsentIsUnknown
  <2>6. QED
    BY <2>4, <2>5
<1>8. QED
  BY <1>5, <1>6, <1>7 DEF RequestsOK

\* An answer that leaves gives its session to one browser, and no other
\* answer has that session.
LEMMA AnsweringKeepsRequests ==
  ASSUME IInv, NEW l \in Lanes, Answer(l)
  PROVE  RequestsOK'
<1>1. /\ req' = [req EXCEPT ![l] = NoRequest] /\ UNCHANGED <<issued, signedOut>>
      /\ req \in [Lanes -> Req] /\ cookie \in [Browsers -> 0..issued]
      /\ issued \in Nat
  BY DEF Answer, IInv, TypeOK, historyVars
<1>2. req'[l] = NoRequest /\ \A m \in Lanes \ {l} : req'[m] = req[m]
  BY <1>1
<1>3. NoRequest \in Req
  BY <1>1 DEF NoRequest, Req
<1>4. NoRequest.at = "none" /\ NoRequest.token = 0 /\ NoRequest.sets = 0
  BY DEF NoRequest
<1>5. req[l].token \in 0..issued /\ req[l].sets \in 0..issued \cup {Clear}
  BY <1>1 DEF Req
<1>6. \A b \in Browsers : \/ cookie'[b] \in {cookie[b], 0, req[l].token}
                          \/ cookie'[b] = req[l].sets /\ NewIn(l)
  BY <1>1 DEF Answer, NewIn
<1>7. (req \in [Lanes -> Req])'
  BY <1>1, <1>3 DEF Req
<1>8. (cookie \in [Browsers -> 0..issued])'
  <2>1. \A b \in Browsers : cookie'[b] \in 0..issued
    BY <1>1, <1>5, <1>6 DEF NewIn
  <2>2. DOMAIN cookie' = Browsers /\ cookie' = [b \in DOMAIN cookie' |-> cookie'[b]]
    BY <1>1 DEF Answer
  <2>3. QED
    BY <1>1, <2>1, <2>2
<1>9. SignsOutOne'
  BY <1>2, <1>4 DEF SignsOutOne, IInv
<1>10. UnsentIsUnknown'
  <2>1. SUFFICES ASSUME NEW k \in Lanes, NewIn(k)'
        PROVE  /\ req'[k].sets \notin signedOut'
               /\ \A b \in Browsers : cookie'[b] # req'[k].sets
               /\ \A m \in Lanes : /\ req'[m].token # req'[k].sets
                                   /\ m # k => req'[m].sets # req'[k].sets
    BY DEF UnsentIsUnknown
  <2>2. k # l /\ NewIn(k) /\ req'[k] = req[k]
    BY <1>2, <1>4, <2>1 DEF NewIn, Clear
  <2>3. /\ req[k].sets # 0 /\ req[k].sets # req[l].token /\ req[k].sets # req[l].sets
        /\ \A b \in Browsers : cookie[b] # req[k].sets
        /\ req[k].sets \notin signedOut
        /\ \A m \in Lanes : /\ req[m].token # req[k].sets
                            /\ m # k => req[m].sets # req[k].sets
    BY <2>2 DEF NewIn, IInv, UnsentIsUnknown
  <2>4. \A b \in Browsers : cookie'[b] # req[k].sets
    BY <1>6, <2>3
  <2>5. QED
    BY <1>1, <1>2, <1>4, <2>2, <2>3, <2>4
<1>11. QED
  BY <1>7, <1>8, <1>9, <1>10 DEF RequestsOK

\* Every step of the program keeps the requests in order.
LEMMA StepKeepsRequests ==
  ASSUME IInv, [Next]_vars
  PROVE  RequestsOK'
<1> USE DEF historyVars
<1>1. ASSUME NEW b \in Browsers, NEW l \in Lanes, NEW form \in Forms \cup {"page"},
             Admit(b, l, form)
      PROVE  RequestsOK'
  BY <1>1, AdmittingKeepsRequests
<1>2. ASSUME NEW b \in Browsers, NEW l \in Lanes, AdmitHome(b, l)
      PROVE  RequestsOK'
  BY <1>2, AdmittingHomeKeepsRequests
<1>3. ASSUME NEW l \in Lanes, Login(l)
      PROVE  RequestsOK'
  <2>1. CASE Handled(l, "login", 0) /\ UNCHANGED <<accountVars, rows, cookie, historyVars>>
    <3>1. HandledTo(l, 0)
      BY <2>1 DEF Handled, HandledTo
    <3>2. QED
      BY <2>1, <3>1, HandlingKeepsRequests
  <2>2. CASE /\ Handled(l, "login", issued + 1) /\ issued < MaxSessions
             /\ Begin(issued + 1, "password", req[l].by)
             /\ UNCHANGED <<accountVars, cookie, signedOut, changes>>
    <3>1. HandledTo(l, issued + 1)
      BY <2>2 DEF Handled, HandledTo, Begin
    <3>2. QED
      BY <2>2, <3>1, HandlingKeepsRequests
  <2>3. QED
    BY <1>3, <2>1, <2>2 DEF Login
<1>4. ASSUME NEW l \in Lanes, Setup(l) \/ Rotate(l)
      PROVE  RequestsOK'
  <2>1. HandledTo(l, 0) /\ UNCHANGED <<cookie, signedOut>>
    BY <1>4 DEF Setup, Rotate, Handled, HandledTo
  <2>2. QED
    BY <2>1, HandlingKeepsRequests
<1>5. ASSUME NEW l \in Lanes, Logout(l)
      PROVE  RequestsOK'
  <2>1. /\ HandledTo(l, Clear) /\ UNCHANGED cookie
        /\ signedOut' = signedOut \cup {req[l].token}
    BY <1>5 DEF Logout, Handled, HandledTo
  <2>2. QED
    BY <2>1, HandlingKeepsRequests
<1>6. ASSUME NEW l \in Lanes, Account(l)
      PROVE  RequestsOK'
  <2>1. /\ HandledTo(l, 0) \/ HandledTo(l, Clear)
        /\ UNCHANGED <<cookie, signedOut>>
    BY <1>6 DEF Account, Handled, HandledTo
  <2>2. QED
    BY <2>1, HandlingKeepsRequests
<1>7. ASSUME NEW l \in Lanes, Answer(l)
      PROVE  RequestsOK'
  BY <1>7, AnsweringKeepsRequests
<1>8. CASE Crash
  <2>1. req' = [l \in Lanes |-> NoRequest] /\ UNCHANGED <<cookie, issued, signedOut>>
    BY <1>8 DEF Crash
  <2>2. NoRequest \in Req' /\ NoRequest.at = "none" /\ NoRequest.sets = 0
    BY <2>1 DEF NoRequest, Req, IInv, TypeOK
  <2>3. QED
    BY <2>1, <2>2 DEF RequestsOK, SignsOutOne, UnsentIsUnknown, NewIn, IInv, TypeOK
<1>9. CASE Start \/ OfflineReset \/ Tick \/ UNCHANGED vars
  <2>1. UNCHANGED <<req, cookie, issued, signedOut>>
    BY <1>9 DEF Start, OfflineReset, Tick, vars
  <2>2. QED
    BY <2>1 DEF RequestsOK, SignsOutOne, UnsentIsUnknown, NewIn, IInv, TypeOK, Req, Clear
<1>10. QED
  BY <1>1, <1>2, <1>3, <1>4, <1>5, <1>6, <1>7, <1>8, <1>9 DEF Next, Request
-----------------------------------------------------------------------------

\* A new database, or an older version's with one session, satisfies the
\* invariant.
LEMMA InitHolds == Init => IInv
<1> SUFFICES ASSUME Init PROVE IInv
  OBVIOUS
<1>1. /\ req = [l \in Lanes |-> NoRequest]
      /\ NoRequest.at = "none" /\ NoRequest.sets = 0 /\ NoRequest.token = 0
  BY DEF Init, NoRequest
<1>2. issued \in {0, 1} /\ issued \in 0..MaxSessions
  BY SessionBounds DEF Init
<1>3. req \in [Lanes -> Req]
  BY <1>1, <1>2 DEF NoRequest, Req
<1>4. SignsOutOne /\ UnsentIsUnknown
  BY <1>1 DEF SignsOutOne, UnsentIsUnknown, NewIn
<1>5. cookie \in [Browsers -> 0..issued]
  BY DEF Init
<1>6. /\ DOMAIN rows \subseteq 1..issued /\ \A s \in DOMAIN rows : rows[s] \in Row
      /\ TableIsCurrent
  BY TtlAssumption DEF Init, Row, TableIsCurrent
<1>7. /\ vouched \subseteq 1..issued /\ signedOut \subseteq 1..issued
      /\ admin \in Nat /\ up \in BOOLEAN /\ bypass \in BOOLEAN
      /\ now \in Nat /\ changes \in Nat /\ crashes \in Nat
  <2>1. up \in BOOLEAN /\ bypass \in BOOLEAN
    BY DEF Init
  <2>2. vouched \subseteq 1..issued /\ signedOut = {} /\ admin \in {0, 1}
    BY DEF Init
  <2>3. now = 0 /\ changes = 0 /\ crashes = 0
    BY DEF Init
  <2>4. QED
    BY <2>1, <2>2, <2>3
<1>8. QED
  BY <1>2, <1>3, <1>4, <1>5, <1>6, <1>7 DEF IInv, TypeOK

\* The invariant is inductive.
LEMMA NextHolds ==
  ASSUME IInv, [Next]_vars
  PROVE  IInv'
<1>1. TableStep /\ RequestsOK'
  BY StepOfTable, StepKeepsRequests
<1>2. /\ issued \in 0..MaxSessions /\ MaxSessions \in Nat
      /\ DOMAIN rows \subseteq 1..issued /\ vouched \subseteq 1..issued
      /\ signedOut \subseteq 1..issued /\ DOMAIN rows \subseteq vouched
      /\ DOMAIN rows \cap signedOut = {} /\ (admin = 0 => DOMAIN rows = {})
  BY SessionBounds DEF IInv, TypeOK, TableIsCurrent
<1>3. issued' \in 0..MaxSessions /\ issued' >= issued
  BY <1>1, <1>2 DEF TableStep, Begun
<1>4. /\ DOMAIN rows' \subseteq 1..issued' /\ \A s \in DOMAIN rows' : rows'[s] \in Row
  BY <1>1, <1>2, <1>3 DEF TableStep, Begun, Survives
<1>5. vouched' \subseteq 1..issued' /\ signedOut' \subseteq 1..issued'
  <2>1. issued \in Nat /\ issued' \in Nat /\ \A s \in 1..issued : s \in 1..issued'
    BY <1>2, <1>3
  <2>2. signedOut' \subseteq 1..issued
    <3>1. signedOut' = signedOut \/ \E s \in 1..issued : signedOut' = signedOut \cup {s}
      BY <1>1 DEF TableStep
    <3>2. QED
      BY <1>2, <3>1
  <2>3. vouched' \subseteq vouched \cup {issued'}
    BY <1>1 DEF TableStep, Begun
  <2>4. vouched' \subseteq vouched \/ issued' = issued + 1
    BY <1>1 DEF TableStep, Begun
  <2>5. vouched' \subseteq 1..issued'
    <3>1. issued' = issued + 1 => issued' \in 1..issued'
      BY <2>1
    <3>2. vouched \subseteq 1..issued'
      BY <1>2, <2>1
    <3>3. QED
      BY <2>3, <2>4, <3>1, <3>2
  <2>6. QED
    BY <2>1, <2>2, <2>5
<1>6. DOMAIN rows' \subseteq vouched'
  BY <1>1, <1>2 DEF TableStep, Begun, Survives
<1>7. DOMAIN rows' \cap signedOut' = {}
  BY <1>1, <1>2 DEF TableStep, Begun, Survives
<1>8. admin' = 0 => DOMAIN rows' = {}
  BY <1>1, <1>2 DEF TableStep, Begun, Survives, accountVars
<1>9. admin' \in Nat /\ bypass' \in BOOLEAN
  BY <1>1 DEF TableStep, accountVars, IInv, TypeOK
<1>10. QED
  BY <1>1, <1>3, <1>4, <1>5, <1>6, <1>7, <1>8, <1>9
     DEF TableStep, RequestsOK, IInv, TypeOK, TableIsCurrent

\* In every reachable state the table, the requests and the cookies agree.
THEOREM InductiveInvariant == Spec => []IInv
<1>1. QED
  BY InitHolds, NextHolds, PTL DEF Spec
-----------------------------------------------------------------------------

\* No session outlives its credentials: OldCredentialsAreOut holds for any
\* number of browsers, sessions and changes of credentials.
THEOREM OldCredentialsAreOutHolds == Spec => []OldCredentialsAreOut
<1>1. IInv => OldCredentialsAreOut
  BY DEF IInv, TableIsCurrent, OldCredentialsAreOut, Live, Unexpired
<1>2. QED
  BY <1>1, InductiveInvariant, PTL

\* What has ended stays ended: a step that lets a session in found it living.
LEMMA NoRevival ==
  ASSUME IInv, [Next]_vars, NEW s \in 1..issued, s \in Live'
  PROVE  s \in Live
<1>1. TableStep
  BY StepOfTable
<1>2. s \in DOMAIN rows' /\ rows'[s].expires > now'
  BY DEF Live, Unexpired
<1>3. Survives(s)
  BY <1>1, <1>2 DEF TableStep, Begun, IInv, TypeOK
<1>4. UNCHANGED accountVars
  BY <1>1, <1>2 DEF TableStep
<1>5. s \in Unexpired
  <2>1. CASE rows'[s].expires = rows[s].expires
    <3>1. rows[s].expires \in Nat /\ now \in Nat /\ now' \in Nat /\ now' >= now
      BY <1>1, <1>3 DEF IInv, TypeOK, TableStep, Survives, Row
    <3>2. QED
      BY <1>2, <1>3, <2>1, <3>1 DEF Unexpired, Survives
  <2>2. QED
    BY <1>3, <2>1 DEF Survives
<1>6. QED
  BY <1>3, <1>4, <1>5 DEF Live, Survives, accountVars

\* A session that ended lets nobody in again, whatever starts, answers and
\* new credentials follow.
THEOREM EndedStaysEndedHolds == Spec => EndedStaysEnded
<1>1. IInv /\ [Next]_vars => [\A s \in 1..issued : s \notin Live => s \notin Live']_vars
  BY NoRevival
<1>2. QED
  BY <1>1, InductiveInvariant, PTL DEF Spec, EndedStaysEnded

\* A cookie that an answer changes is not that of a session signed out.
LEMMA AnswersKeepOut ==
  ASSUME IInv, Next, NEW b \in Browsers, cookie'[b] # cookie[b]
  PROVE  cookie'[b] \notin signedOut
<1>1. PICK l \in Lanes : Answer(l)
  BY DEF Next, Request, Admit, AdmitHome, Login, Setup, Logout, Account, Rotate,
         Start, OfflineReset, Crash, Tick
<1>2. \/ cookie'[b] = req[l].token /\ Refreshed(req[l])
      \/ cookie'[b] = 0
      \/ cookie'[b] = req[l].sets /\ NewIn(l)
  BY <1>1 DEF Answer, NewIn, IInv, TypeOK
<1>3. CASE cookie'[b] = req[l].token /\ Refreshed(req[l])
  <2>1. req[l].token \in DOMAIN rows
    BY <1>3 DEF Refreshed, Identity, Live, Unexpired
  <2>2. QED
    BY <1>3, <2>1 DEF IInv, TableIsCurrent
<1>4. CASE cookie'[b] = 0
  BY <1>4 DEF IInv, TypeOK
<1>5. CASE cookie'[b] = req[l].sets /\ NewIn(l)
  BY <1>5 DEF IInv, UnsentIsUnknown
<1>6. QED
  BY <1>2, <1>3, <1>4, <1>5

\* Signing out holds: no answer that was under way puts the cookies of the
\* session back, in any browser.
THEOREM SigningOutStands == Spec => SigningOutHolds
<1>1. IInv /\ [Next]_vars =>
        [\A b \in Browsers : cookie'[b] # cookie[b] => cookie'[b] \notin signedOut]_vars
  BY AnswersKeepOut
<1>2. QED
  BY <1>1, InductiveInvariant, PTL DEF Spec, SigningOutHolds
============================================================================
