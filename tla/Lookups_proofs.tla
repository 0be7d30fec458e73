--------------------------- MODULE Lookups_proofs ---------------------------
(***************************************************************************)
(* For any number of origins and any times to keep rows and verdicts: a    *)
(* key goes to the service it was made for only, what is served from a     *)
(* store is as fresh as the store promises.  For any names, files, tracks  *)
(* and listings: what a check makes of the evidence it is told.            *)
(***************************************************************************)
EXTENDS Lookups, CheckEvidence, FiniteSetTheorems, WellFoundedInduction, TLAPS

Stages == {"idle", "started", "load", "search", "throttled", "asking"}
Statuses == {"none", "skipped", "not_found", "verified", "mismatch"}
MaybeOrigin == Origins \cup {Unset}
Ages == 0..Forever
Verdicts == [status : Statuses, named : BOOLEAN, age : Ages]

TypeOK ==
    /\ url \in MaybeOrigin /\ key \in MaybeOrigin /\ bound \in MaybeOrigin
    /\ spoiled \in BOOLEAN
    /\ check \in [at : Stages, url : MaybeOrigin, named : BOOLEAN, age : Ages]
    /\ arrRows \in [Origins -> [age : Ages, content : Ages]]
    /\ stored \in Verdicts /\ told \in Verdicts
    /\ sinceRequest \in Ages /\ sinceListed \in Ages
    /\ files \in BOOLEAN /\ listed \in BOOLEAN
    /\ sent \subseteq Origins \X Origins

\* The origin stored with a key is the one it was made for.  A key without
\* an origin is as an older release left it: it is that of the configured
\* URL, with which a check that is under way started too.
KeyIsBound ==
    /\ bound # Unset => key = bound
    /\ key # Unset /\ bound = Unset =>
          /\ key = url
          /\ check.at # "idle" => check.url = key
    /\ key # Unset /\ ~spoiled => key = url

\* A check that has passed the Arr asked one.
AskedSomebody == check.at \in {"load", "search", "throttled", "asking"} => check.url \in Origins

\* What the rows say is not older than the rows.
RowsAreDated == \A o \in Origins : arrRows[o].content <= arrRows[o].age

\* The stored verdict that a release is not listed is as old as its listing
\* at least.
VerdictIsDated ==
    /\ ~listed => sinceListed = 0
    /\ stored.status = "not_found" => sinceListed <= stored.age

IInv ==
    /\ TypeOK
    /\ KeyIsBound
    /\ AskedSomebody
    /\ RowsAreDated
    /\ VerdictIsDated
    /\ KeyGoesHome
-----------------------------------------------------------------------------

\* The age at which counting stops is one of the times.
LEMMA ForeverIsNat == Forever \in Nat
<1> DEFINE S == {ArrTtl, FoundTtl, NotFoundTtl, ErrorTtl, Spacing}
<1>1. S \subseteq Nat
  BY TtlsAssumption
<1>2. \A a, b \in Nat : \E n \in {a, b} : a <= n /\ b <= n
  OBVIOUS
<1>3. PICK x \in {ArrTtl, FoundTtl} : ArrTtl <= x /\ FoundTtl <= x
  BY <1>1, <1>2
<1>4. PICK y \in {x, NotFoundTtl} : x <= y /\ NotFoundTtl <= y
  BY <1>1, <1>2, <1>3
<1>5. PICK z \in {ErrorTtl, Spacing} : ErrorTtl <= z /\ Spacing <= z
  BY <1>1, <1>2
<1>6. PICK w \in {y, z} : y <= w /\ z <= w
  BY <1>1, <1>2, <1>3, <1>4, <1>5
<1>7. w \in S /\ \A m \in S : m <= w
  BY <1>1, <1>3, <1>4, <1>5, <1>6
<1>8. QED
  BY <1>1, <1>7 DEF Forever, Longest

\* Ages stay within what is counted, and keep their order.
LEMMA OlderKeepsOrder ==
  /\ 0 \in Ages /\ Forever \in Ages /\ \A n \in Ages : n \in Nat
  /\ \A n \in Ages : Older(n) \in Ages
  /\ \A m, n \in Ages : m <= n => Older(m) <= Older(n)
BY ForeverIsNat DEF Older, Ages

-----------------------------------------------------------------------------

\* What a settings form does to a key leaves it bound to its origin.
LEMMA FormKeepsKey ==
  ASSUME IInv, NEW u \in MaybeOrigin, NEW entered \in BOOLEAN, NEW cleared \in BOOLEAN,
         NEW rejected \in BOOLEAN,
         Acceptable(u, entered), UpdateSecret(u, entered, cleared),
         url' = IF rejected THEN url ELSE u,
         spoiled' = IF Changes(u, entered, cleared) THEN rejected ELSE spoiled,
         UNCHANGED check
  PROVE  /\ KeyIsBound'
         /\ url' \in MaybeOrigin /\ key' \in MaybeOrigin /\ bound' \in MaybeOrigin
         /\ spoiled' \in BOOLEAN
<1> USE DEF IInv, TypeOK, KeyIsBound
<1>1. CASE cleared \/ (u # url /\ ~entered)
  BY <1>1 DEF UpdateSecret, Changes, MaybeOrigin
<1>2. CASE ~cleared /\ entered
  BY <1>2 DEF UpdateSecret, Changes, Acceptable, MaybeOrigin
<1>3. CASE ~cleared /\ ~entered /\ u = url
  <2>1. UNCHANGED <<url, key, bound>>
    BY <1>3 DEF UpdateSecret
  <2>2. spoiled' = spoiled
    BY <1>3 DEF Changes
  <2>3. QED
    BY <2>1, <2>2
<1>4. QED
  BY <1>1, <1>2, <1>3

\* Saving settings touches nothing but the URL and the key.
LEMMA SettingsKeep ==
  ASSUME IInv, SaveSettings \/ SaveConnections
  PROVE  IInv'
<1>1. UNCHANGED <<check, arrRows, srrdbVars, worldVars, sent>>
  BY DEF SaveSettings, SaveConnections
<1>2. PICK u \in MaybeOrigin, entered \in BOOLEAN, cleared \in BOOLEAN, rejected \in BOOLEAN :
        /\ Acceptable(u, entered) /\ UpdateSecret(u, entered, cleared)
        /\ url' = IF rejected THEN url ELSE u
        /\ spoiled' = IF Changes(u, entered, cleared) THEN rejected ELSE spoiled
  <2>1. CASE SaveSettings
    <3>1. PICK u \in MaybeOrigin, entered \in BOOLEAN, cleared \in BOOLEAN :
            /\ Acceptable(u, entered) /\ UpdateSecret(u, entered, cleared)
            /\ url' = u /\ spoiled' = (spoiled /\ ~Changes(u, entered, cleared))
      BY <2>1 DEF SaveSettings, MaybeOrigin
    <3>2. spoiled \in BOOLEAN
      BY DEF IInv, TypeOK
    <3>3. spoiled' = IF Changes(u, entered, cleared) THEN FALSE ELSE spoiled
      BY <3>1, <3>2
    <3>4. QED
      BY <3>1, <3>3
  <2>2. CASE SaveConnections
    BY <2>2 DEF SaveConnections, MaybeOrigin
  <2>3. QED
    BY <2>1, <2>2
<1>3. /\ KeyIsBound'
      /\ url' \in MaybeOrigin /\ key' \in MaybeOrigin /\ bound' \in MaybeOrigin
      /\ spoiled' \in BOOLEAN
  BY <1>1, <1>2, FormKeepsKey
<1>4. QED
  BY <1>1, <1>3 DEF IInv, TypeOK, AskedSomebody, RowsAreDated, VerdictIsDated, KeyGoesHome,
     srrdbVars, worldVars

\* The check comes to the Arr: the key it sends is one made for it, also
\* when it has no origin stored with it yet.
LEMMA ArrStageKeeps ==
  ASSUME IInv, ArrStage
  PROVE  IInv'
<1> USE DEF IInv, TypeOK
<1>1. UNCHANGED <<url, key, spoiled, arrRows, srrdbVars, worldVars>> /\ check.at = "started"
  BY DEF ArrStage
<1>2. CASE Usable(check.url)
  <2>1. key # Unset /\ check.url # Unset /\ bound \in {check.url, Unset} /\ key = check.url
    BY <1>1, <1>2 DEF Usable, KeyIsBound
  <2>2. bound' = check.url /\ sent' = sent \cup {<<check.url, key>>}
    BY <1>2, <2>1 DEF ArrStage
  <2>3. check' \in [at : Stages, url : MaybeOrigin, named : BOOLEAN, age : Ages]
    BY <1>2, OlderKeepsOrder DEF ArrStage, Stages
  <2>4. check'.url = check.url /\ check.url \in Origins
    BY <1>2, <2>1 DEF ArrStage, MaybeOrigin
  <2>5. TypeOK'
    BY <1>1, <2>1, <2>2, <2>3, <2>4 DEF srrdbVars, worldVars
  <2>6. KeyIsBound'
    BY <1>1, <2>1, <2>2 DEF KeyIsBound
  <2>7. KeyGoesHome'
    BY <2>1, <2>2 DEF KeyGoesHome
  <2>8. AskedSomebody' /\ RowsAreDated' /\ VerdictIsDated'
    BY <1>1, <2>4 DEF AskedSomebody, RowsAreDated, VerdictIsDated, srrdbVars, worldVars
  <2>9. QED
    BY <2>5, <2>6, <2>7, <2>8
<1>3. CASE ~Usable(check.url)
  <2>1. check' = Idle /\ UNCHANGED <<bound, sent>>
    BY <1>3 DEF ArrStage, End
  <2>2. TypeOK'
    BY <1>1, <2>1, OlderKeepsOrder DEF srrdbVars, worldVars, Idle, Stages, MaybeOrigin
  <2>3. QED
    BY <1>1, <2>1, <2>2
       DEF KeyIsBound, KeyGoesHome, AskedSomebody, RowsAreDated, VerdictIsDated,
           srrdbVars, worldVars, Idle
<1>4. QED
  BY <1>2, <1>3

\* The rest of a check leaves settings and keys alone.
LEMMA CheckKeeps ==
  ASSUME IInv, Check
  PROVE  IInv'
<1> USE OlderKeepsOrder DEF IInv, TypeOK, settingsVars, srrdbVars, worldVars
<1>1. CASE Begin
  <2>1. check' = [at |-> "started", url |-> url, named |-> files, age |-> 0]
    BY <1>1 DEF Begin
  <2>2. NoVerdict \in Verdicts
    BY DEF NoVerdict, Verdicts, Statuses
  <2>3. TypeOK'
    BY <1>1, <2>1, <2>2 DEF Begin, Stages
  <2>4. QED
    BY <1>1, <2>1, <2>3
       DEF Begin, KeyIsBound, KeyGoesHome, AskedSomebody, RowsAreDated, VerdictIsDated
<1>2. CASE ArrStage
  BY <1>2, ArrStageKeeps
<1>3. CASE ArrLoads
  <2>1. check' = [check EXCEPT !.at = "search", !.age = 0] /\ check.at = "load"
    BY <1>3 DEF ArrLoads
  <2>2. /\ check' \in [at : Stages, url : MaybeOrigin, named : BOOLEAN, age : Ages]
        /\ check'.url = check.url /\ check'.at = "search"
    BY <2>1 DEF Stages
  <2>3. Kept(check.age) \in [age : Ages, content : Ages] /\ Kept(check.age).content <= Kept(check.age).age
    BY DEF Kept
  <2>4. /\ arrRows' \in [Origins -> [age : Ages, content : Ages]]
        /\ RowsAreDated'
    BY <1>3, <2>3 DEF ArrLoads, RowsAreDated
  <2>5. TypeOK'
    BY <1>3, <2>2, <2>4 DEF ArrLoads
  <2>6. QED
    BY <1>3, <2>1, <2>2, <2>4, <2>5
       DEF ArrLoads, KeyIsBound, KeyGoesHome, AskedSomebody, VerdictIsDated
<1>4. ASSUME check' = Idle, stored' \in Verdicts, told' \in Verdicts,
             stored'.status = "not_found" => sinceListed <= stored'.age,
             UNCHANGED <<settingsVars, arrRows, sinceRequest, worldVars, sent>>
      PROVE  IInv'
  <2>1. check' \in [at : Stages, url : MaybeOrigin, named : BOOLEAN, age : Ages]
    BY <1>4 DEF Idle, Stages, MaybeOrigin
  <2>2. TypeOK'
    BY <1>4, <2>1
  <2>3. QED
    BY <1>4, <2>2
       DEF KeyIsBound, KeyGoesHome, AskedSomebody, RowsAreDated, VerdictIsDated, Idle
<1>5. CASE ArrFails
  BY <1>4, <1>5 DEF ArrFails, End, VerdictIsDated
<1>6. CASE SearchPasses
  <2>1. CASE Remembered
    <3>1. [stored EXCEPT !.named = check.named] \in Verdicts
      BY DEF Verdicts
    <3>2. QED
      BY <1>4, <1>6, <2>1, <3>1 DEF SearchPasses, End, VerdictIsDated
  <2>2. CASE ~Remembered
    <3>1. /\ check' = [check EXCEPT !.at = "throttled", !.age = 0] /\ check.at = "search"
          /\ UNCHANGED <<settingsVars, arrRows, stored, told, sinceRequest, worldVars, sent>>
      BY <1>6, <2>2 DEF SearchPasses
    <3>2. /\ check' \in [at : Stages, url : MaybeOrigin, named : BOOLEAN, age : Ages]
          /\ check'.url = check.url /\ check'.at = "throttled"
      BY <3>1 DEF Stages
    <3>3. TypeOK'
      BY <3>1, <3>2
    <3>4. QED
      BY <3>1, <3>2, <3>3
         DEF KeyIsBound, KeyGoesHome, AskedSomebody, RowsAreDated, VerdictIsDated
  <2>3. QED
    BY <2>1, <2>2
<1>7. CASE Ask
  <2>1. /\ check' = [check EXCEPT !.at = "asking"] /\ check.at = "throttled"
        /\ UNCHANGED <<settingsVars, arrRows, stored, told, worldVars, sent>>
        /\ sinceRequest' = 0
    BY <1>7 DEF Ask
  <2>2. /\ check' \in [at : Stages, url : MaybeOrigin, named : BOOLEAN, age : Ages]
        /\ check'.url = check.url /\ check'.at = "asking"
    BY <2>1 DEF Stages
  <2>3. TypeOK'
    BY <2>1, <2>2
  <2>4. QED
    BY <2>1, <2>2, <2>3
       DEF KeyIsBound, KeyGoesHome, AskedSomebody, RowsAreDated, VerdictIsDated
<1>8. ASSUME NEW answer \in Statuses, Concludes(answer), answer = "not_found" => ~listed
      PROVE  IInv'
  <2> DEFINE verdict == [status |-> answer, named |-> check.named, age |-> check.age]
  <2>1. verdict \in Verdicts /\ verdict.status = answer /\ verdict.age \in Nat
    BY DEF Verdicts
  <2>2. /\ stored' = verdict /\ told' = verdict /\ check' = Idle
        /\ UNCHANGED <<settingsVars, arrRows, sinceRequest, worldVars, sent>>
    BY <1>8 DEF Concludes, End
  <2> HIDE DEF verdict
  <2>3. answer = "not_found" => sinceListed <= verdict.age
    BY <1>8, <2>1 DEF VerdictIsDated
  <2>4. QED
    BY <1>4, <2>1, <2>2, <2>3
<1>9. CASE SrrdbAnswers \/ SrrdbFails
  BY <1>8, <1>9 DEF SrrdbAnswers, SrrdbFails, Statuses
<1>10. QED
  BY <1>1, <1>2, <1>3, <1>5, <1>6, <1>7, <1>9 DEF Check

\* As time passes nothing becomes fresher than it was.
LEMMA TickKeeps ==
  ASSUME IInv, Tick
  PROVE  IInv'
<1> USE OlderKeepsOrder DEF IInv, TypeOK, settingsVars, srrdbVars, worldVars
<1>1. UNCHANGED <<url, key, bound, spoiled, told, files, listed, sent>>
  BY DEF Tick
<1>2. /\ check' \in [at : Stages, url : MaybeOrigin, named : BOOLEAN, age : Ages]
      /\ check'.at = check.at /\ check'.url = check.url
  BY DEF Tick
<1>3. /\ arrRows' \in [Origins -> [age : Ages, content : Ages]]
      /\ RowsAreDated'
  BY DEF Tick, RowsAreDated
<1>4. /\ stored' \in Verdicts
      /\ stored'.status = stored.status /\ stored'.age = Older(stored.age)
  BY DEF Tick, Verdicts
<1>5. sinceRequest' \in Ages /\ sinceListed' \in Ages
  BY DEF Tick
<1>6. VerdictIsDated'
  <2>1. stored.age \in Ages /\ Older(stored.age) \in Nat
    BY DEF Verdicts
  <2>2. sinceListed' = IF listed THEN Older(sinceListed) ELSE 0
    BY DEF Tick
  <2>3. QED
    BY <1>1, <1>4, <2>1, <2>2 DEF VerdictIsDated, Ages
<1>7. TypeOK'
  BY <1>1, <1>2, <1>3, <1>4, <1>5
<1>8. QED
  BY <1>1, <1>2, <1>3, <1>6, <1>7 DEF KeyIsBound, KeyGoesHome, AskedSomebody

\* Files and listings change, and a restart forgets rows and checks.
LEMMA WorldKeeps ==
  ASSUME IInv, Rename \/ SrrdbLists \/ Restart
  PROVE  IInv'
<1> USE OlderKeepsOrder DEF IInv, TypeOK, settingsVars, srrdbVars, worldVars
<1>1. CASE Rename
  <2>1. TypeOK'
    BY <1>1 DEF Rename
  <2>2. QED
    BY <1>1, <2>1
       DEF Rename, KeyIsBound, KeyGoesHome, AskedSomebody, RowsAreDated, VerdictIsDated
<1>2. CASE SrrdbLists
  <2>1. TypeOK'
    BY <1>2 DEF SrrdbLists
  <2>2. QED
    BY <1>2, <2>1
       DEF SrrdbLists, KeyIsBound, KeyGoesHome, AskedSomebody, RowsAreDated, VerdictIsDated
<1>3. CASE Restart
  <2>1. check' = Idle /\ arrRows' = [o \in Origins |-> NoRows] /\ sinceRequest' = Forever
    BY <1>3 DEF Restart, End
  <2>2. /\ check' \in [at : Stages, url : MaybeOrigin, named : BOOLEAN, age : Ages]
        /\ check'.at = "idle"
    BY <2>1 DEF Idle, Stages, MaybeOrigin
  <2>3. arrRows' \in [Origins -> [age : Ages, content : Ages]] /\ RowsAreDated'
    BY <2>1 DEF NoRows, RowsAreDated
  <2>4. TypeOK'
    BY <1>3, <2>1, <2>2, <2>3 DEF Restart
  <2>5. QED
    BY <1>3, <2>2, <2>3, <2>4 DEF Restart, KeyIsBound, KeyGoesHome, AskedSomebody, VerdictIsDated
<1>4. QED
  BY <1>1, <1>2, <1>3

\* Keys are bound and stores dated in every reachable state.
THEOREM InductiveInvariant == Spec => []IInv
<1>1. Init => IInv
  <2> SUFFICES ASSUME Init PROVE IInv
    OBVIOUS
  <2>1. check = Idle /\ Idle \in [at : Stages, url : MaybeOrigin, named : BOOLEAN, age : Ages]
    BY OlderKeepsOrder DEF Init, Idle, Stages, MaybeOrigin
  <2>2. NoVerdict \in Verdicts /\ NoVerdict.status = "none"
    BY OlderKeepsOrder DEF NoVerdict, Verdicts, Statuses
  <2>3. arrRows \in [Origins -> [age : Ages, content : Ages]] /\ RowsAreDated
    BY OlderKeepsOrder DEF Init, NoRows, RowsAreDated
  <2>4. TypeOK
    BY <2>1, <2>2, <2>3, OlderKeepsOrder DEF Init, TypeOK, MaybeOrigin
  <2>5. QED
    BY <2>1, <2>2, <2>3, <2>4
       DEF Init, IInv, KeyIsBound, KeyGoesHome, AskedSomebody, VerdictIsDated, Idle
<1>2. IInv /\ [Next]_vars => IInv'
  <2> SUFFICES ASSUME IInv, [Next]_vars
               PROVE  IInv'
    OBVIOUS
  <2>1. CASE UNCHANGED vars
    BY <2>1 DEF vars, settingsVars, srrdbVars, worldVars, IInv, TypeOK, KeyIsBound,
       KeyGoesHome, AskedSomebody, RowsAreDated, VerdictIsDated
  <2>2. QED
    BY <2>1, SettingsKeep, CheckKeeps, TickKeeps, WorldKeeps DEF Next
<1>3. QED
  BY <1>1, <1>2, PTL DEF Spec
-----------------------------------------------------------------------------

\* A key goes to the service it was made for only, however settings are
\* saved or rejected while a check is under way with those of its start.
THEOREM KeyGoesHomeHolds == Spec => []KeyGoesHome
BY InductiveInvariant, PTL DEF IInv

\* A stored key is one the configured service gets, unless a rejected form
\* left it.
THEOREM KeptKeyIsUsableHolds == Spec => []KeptKeyIsUsable
<1>1. IInv => KeptKeyIsUsable
  BY DEF IInv, KeyIsBound, KeptKeyIsUsable, Usable
<1>2. QED
  BY <1>1, InductiveInvariant, PTL

\* Rows that are served without a question were true less than ArrTtl ago,
\* also when the answer that brought them took its time.
THEOREM RowsAreRecentHolds == Spec => RowsAreRecent
<1>1. ASSUME IInv, Next, check.at = "started", check'.at = "search"
      PROVE  arrRows[check.url].content < ArrTtl
  <2>1. ArrStage
    BY <1>1 DEF Next, Check, SaveSettings, SaveConnections, Begin, ArrLoads, ArrFails,
       SearchPasses, Ask, SrrdbAnswers, SrrdbFails, Rename, SrrdbLists, Restart, Tick,
       End, Idle, IInv, TypeOK
  <2>2. Usable(check.url) /\ Cached(check.url)
    <3>1. Usable(check.url)
      BY <1>1, <2>1 DEF ArrStage, End, Idle
    <3>2. check' = [check EXCEPT !.at = IF Cached(check.url) THEN "search" ELSE "load",
                                 !.age = 0]
      BY <2>1, <3>1 DEF ArrStage
    <3>3. check'.at = IF Cached(check.url) THEN "search" ELSE "load"
      BY <1>1, <3>2 DEF IInv, TypeOK
    <3>4. QED
      BY <1>1, <3>1, <3>3
  <2>3. check.url \in Origins
    BY <1>1, <2>2 DEF Usable, IInv, TypeOK, MaybeOrigin
  <2>4. /\ arrRows[check.url].content <= arrRows[check.url].age
        /\ arrRows[check.url].content \in Nat /\ arrRows[check.url].age \in Nat
    BY <1>1, <2>3, OlderKeepsOrder DEF IInv, TypeOK, RowsAreDated
  <2>5. QED
    BY <2>2, <2>4, TtlsAssumption DEF Cached
<1>2. QED
  BY <1>1, InductiveInvariant, PTL DEF Spec, RowsAreRecent

\* Once srrDB lists a release, no check goes by a stored verdict that it
\* does not for longer than NotFoundTtl.
THEOREM ListingIsNoticedHolds == Spec => ListingIsNoticed
<1>1. ASSUME IInv, Next, check.at = "search", check'.at = "idle", told' # told,
             told'.status = "not_found"
      PROVE  sinceListed < NotFoundTtl
  <2>1. SearchPasses
    BY <1>1 DEF Next, Check, SaveSettings, SaveConnections, Begin, ArrStage, ArrLoads, ArrFails,
       Ask, SrrdbAnswers, SrrdbFails, Rename, SrrdbLists, Restart, Tick, srrdbVars
  <2>2. Remembered /\ told' = [stored EXCEPT !.named = check.named]
    BY <1>1, <2>1 DEF SearchPasses
  <2>3. stored.status = "not_found" /\ stored.age \in Nat /\ sinceListed \in Nat
    BY <1>1, <2>2, OlderKeepsOrder DEF IInv, TypeOK, Verdicts
  <2>4. stored.age < NotFoundTtl /\ sinceListed <= stored.age
    BY <1>1, <2>2, <2>3 DEF Remembered, Lasts, IInv, VerdictIsDated
  <2>5. QED
    BY <2>3, <2>4, TtlsAssumption
<1>2. QED
  BY <1>1, InductiveInvariant, PTL DEF Spec, ListingIsNoticed

-----------------------------------------------------------------------------

\* A set of naturals with an upper bound has a largest member.
LEMMA LargestOf ==
  ASSUME NEW k \in Nat, NEW S \in SUBSET (0..k), S # {}
  PROVE  \E m \in S : \A n \in S : n <= m
<1> DEFINE T == {t \in Nat : \E n \in S : t = k - n}
<1>1. T \subseteq Nat /\ T # {}
  <2>1. PICK n \in S : TRUE
    OBVIOUS
  <2>2. k - n \in T
    OBVIOUS
  <2>3. QED
    BY <2>2
<1> DEFINE R == OpToRel(<, Nat)
<1>2. \A u, t \in Nat : u < t => <<u, t>> \in R
  BY DEF OpToRel
<1>3. IsWellFoundedOn(R, Nat)
  BY NatLessThanWellFounded
<1> HIDE DEF R, T
<1>4. PICK t \in T : \A u \in T : ~(<<u, t>> \in R)
  BY <1>1, <1>3, WFMin
<1>5. \A u \in T : t <= u
  <2> TAKE u \in T
  <2>1. t \in Nat /\ u \in Nat /\ ~(<<u, t>> \in R)
    BY <1>1, <1>4
  <2>2. QED
    BY <1>2, <2>1
<1>6. PICK m \in S : t = k - m
  BY <1>4 DEF T
<1>7. \A n \in S : n <= m
  <2> TAKE n \in S
  <2>1. k - n \in T
    BY DEF T
  <2>2. QED
    BY <1>5, <1>6, <2>1
<1>8. QED
  BY <1>6, <1>7

\* The place of a name in a list of ranks is a number of that list, or 0.
LEMMA RankInList ==
  ASSUME NEW list, NEW name, NEW k \in Nat, DOMAIN list = 1..k
  PROVE  RankIn(list, name) \in 0..k
<1>1. CASE \E n \in DOMAIN list : name \in list[n]
  <2> DEFINE m == CHOOSE n \in DOMAIN list : name \in list[n]
  <2>1. m \in 1..k
    BY <1>1
  <2>2. QED
    BY <1>1, <2>1 DEF RankIn
<1>2. CASE ~\E n \in DOMAIN list : name \in list[n]
  BY <1>2 DEF RankIn
<1>3. QED
  BY <1>1, <1>2

\* No name says more than 11.1 channels.
LEMMA ChannelsAreFew ==
  ASSUME NEW name
  PROVE  ParseChannels(name) \in 0..111
<1> DEFINE said == name.channels \cap {n + k : n \in {10, 20, 50, 60, 70, 90, 110}, k \in {0, 1}}
           most == CHOOSE c \in said : \A d \in said : d <= c
<1>1. said \in SUBSET (0..111)
  OBVIOUS
<1>2. ASSUME said # {}
      PROVE  most \in 0..111
  <2> HIDE DEF said
  <2>1. \E c \in said : \A d \in said : d <= c
    BY <1>1, <1>2, LargestOf
  <2>2. QED
    BY <1>1, <2>1
<1>3. QED
  BY <1>2 DEF ParseChannels

-----------------------------------------------------------------------------

\* The keys of issues that other providers may clear up only by having seen
\* what the title claims, and of issues with a language.
ClaimKeys ==
    {"hdr10plus_missing", "dolby_vision_missing", "hdr10_missing", "audio_object_missing",
     "audio_channels_mismatch", "audio_codec_mismatch"}

LanguageKeys == {"primary_language", "primary_language_unverified"}

\* What is raised of a file and not cleared up is an issue of the check.
LEMMA RaisedStays ==
  ASSUME NEW layout, NEW qui, NEW local, NEW n \in DOMAIN qui, ~layout[n].sample,
         NEW k \in Raised(title, qui[n]),
         ~Confirmed([key |-> k, at |-> n], title, layout, qui, local)
  PROVE  \E i \in MediaIssues(title, layout, qui, local) : i.key = k
<1> DEFINE issue == [key |-> k, at |-> n]
<1>1. issue \in Issues(title, layout, qui)
  BY DEF Issues
<1>2. issue \in MediaIssues(title, layout, qui, local)
  BY <1>1 DEF MediaIssues
<1>3. QED
  BY <1>2

\* A claim that MediaInfo refutes is an issue.
LEMMA RefutedIsRaised ==
  ASSUME NEW layout, NEW qui, NEW local, DOMAIN local \subseteq DOMAIN qui,
         Refuted(layout, qui, local)
  PROVE  \E i \in MediaIssues(title, layout, qui, local) : i.key \in ClaimKeys
<1> DEFINE Same(n) == {m \in DOMAIN qui : layout[m].base = layout[n].base}
           Read(n) == Same(n) \cap DOMAIN local
           Hdr(n) == UNION ({qui[m].hdr : m \in Same(n)} \cup {local[m].hdr : m \in Read(n)})
           Objects(n) == UNION ({qui[m].objects : m \in Same(n)}
                                \cup {local[m].objects : m \in Read(n)})
<1>1. PICK n \in DOMAIN qui :
         /\ ~layout[n].sample
         /\ \/ (title.hdr \cap {"DV", "HDR10+"}) \ Hdr(n) # {}
            \/ "HDR10" \in title.hdr /\ Hdr(n) \cap {"HDR10", "HDR10+"} = {}
            \/ title.objects \ Objects(n) # {}
            \/ /\ title.channels # 0
               /\ qui[n].channels \notin {0, title.channels}
               /\ \A m \in Read(n) : local[m].channels # title.channels
            \/ /\ title.audio \notin {"", "Atmos"} /\ qui[n].audio # ""
               /\ AudioFamily(qui[n].audio) # AudioFamily(title.audio)
  BY DEF Refuted
<1>2. n \in Same(n)
  OBVIOUS
<1>3. /\ Same(n) = SameName(layout, n, DOMAIN qui)
      /\ Read(n) = SameName(layout, n, DOMAIN local)
  BY DEF SameName
<1>4. qui[n].hdr \subseteq Hdr(n) /\ qui[n].objects \subseteq Objects(n)
  BY <1>2
<1>5. UNION {local[m].objects : m \in Read(n)} \subseteq Objects(n)
  OBVIOUS
<1> DEFINE hdr == Hdr(n)
           objects == Objects(n)
           read == Read(n)
           Of(k) == [key |-> k, at |-> n]
           Cleared(k) == Confirmed(Of(k), title, layout, qui, local)
<1>6. /\ Cleared("dolby_vision_missing") => "DV" \in hdr
      /\ Cleared("hdr10plus_missing") => "HDR10+" \in hdr
      /\ Cleared("hdr10_missing") => hdr \cap {"HDR10", "HDR10+"} # {}
  BY <1>3 DEF Confirmed
<1>7. Cleared("audio_object_missing") =>
         title.objects \ qui[n].objects \subseteq UNION {local[m].objects : m \in read}
  BY <1>3 DEF Confirmed
<1>8. Cleared("audio_channels_mismatch") => \E m \in read : local[m].channels = title.channels
  BY <1>3 DEF Confirmed
<1>9. /\ "DV" \in title.hdr \ qui[n].hdr => "dolby_vision_missing" \in Raised(title, qui[n])
      /\ "HDR10+" \in title.hdr \ qui[n].hdr => "hdr10plus_missing" \in Raised(title, qui[n])
      /\ "HDR10" \in title.hdr /\ qui[n].hdr \cap {"HDR10", "HDR10+"} = {} =>
             "hdr10_missing" \in Raised(title, qui[n])
  BY DEF Raised, Holding, HdrIssues
<1>10. /\ ~(title.objects \subseteq qui[n].objects) =>
             "audio_object_missing" \in Raised(title, qui[n])
       /\ title.channels # 0 /\ qui[n].channels \notin {0, title.channels} =>
             "audio_channels_mismatch" \in Raised(title, qui[n])
  BY DEF Raised, Holding, FormatIssues, Differ
<1> DEFINE Differs == /\ title.audio \notin {"", "Atmos"} /\ qui[n].audio # ""
                      /\ AudioFamily(qui[n].audio) # AudioFamily(title.audio)
<1>11. /\ Differs => "audio_codec_mismatch" \in Raised(title, qui[n])
       /\ ~Cleared("audio_codec_mismatch")
  <2>1. ASSUME Differs
        PROVE  "audio_codec_mismatch" \in Raised(title, qui[n])
    <3>1. AudioFamily(title.audio) # "" /\ AudioFamily(qui[n].audio) # ""
      BY <2>1 DEF AudioFamily
    <3>2. Differ(AudioFamily(title.audio), AudioFamily(qui[n].audio), "")
      BY <2>1, <3>1 DEF Differ
    <3>3. QED
      BY <2>1, <3>2 DEF Raised, Holding, FormatIssues
  <2>2. ~Cleared("audio_codec_mismatch")
    BY DEF Confirmed
  <2>3. QED
    BY <2>1, <2>2
<1> HIDE DEF hdr, objects, read, Cleared
<1>12. \E k \in ClaimKeys : k \in Raised(title, qui[n]) /\ ~Cleared(k)
  BY <1>1, <1>4, <1>5, <1>6, <1>7, <1>8, <1>9, <1>10, <1>11 DEF ClaimKeys, hdr, objects, read
<1>13. PICK k \in ClaimKeys : k \in Raised(title, qui[n]) /\ ~Cleared(k)
  BY <1>12
<1>14. ~Confirmed([key |-> k, at |-> n], title, layout, qui, local)
  BY <1>13 DEF Cleared
<1>15. ~layout[n].sample
  BY <1>1
<1>16. \E i \in MediaIssues(title, layout, qui, local) : i.key = k
  BY <1>13, <1>14, <1>15, RaisedStays
<1>17. QED
  BY <1>16

\* A default track that is neither English nor announced is an issue.
LEMMA DubbedIsRaised ==
  ASSUME NEW layout, NEW qui, NEW local, Dubbed(layout, qui)
  PROVE  \E i \in MediaIssues(title, layout, qui, local) : i.key \in LanguageKeys
<1>1. PICK n \in DOMAIN qui : ~layout[n].sample /\ ForeignAudio(title, qui[n])
  BY DEF Dubbed
<1>2. PICK k \in LanguageKeys : k \in Raised(title, qui[n])
  BY <1>1 DEF Raised, Holding, PolicyIssues, LanguageKeys
<1>3. ~Confirmed([key |-> k, at |-> n], title, layout, qui, local)
  BY <1>2 DEF Confirmed, LanguageKeys
<1>4. QED
  BY <1>1, <1>2, <1>3, RaisedStays

-----------------------------------------------------------------------------

\* Two files of different groups make it a release of mixed groups.
LEMMA MixedIsSevere ==
  ASSUME NEW n \in Names, Mixed(n), NEW verified
  PROVE  RenameStatus(Found(n.item, n.root, n.mapped, n.files, decisions), verified)
             = "manual_review"
<1> DEFINE groups == Groups(n.files)
           found == Found(n.item, n.root, n.mapped, n.files, decisions)
<1>1. PICK f, g \in n.files : ~f.extra /\ ~g.extra /\ f.group # "" /\ g.group \notin {"", f.group}
  BY DEF Mixed
<1>2. {f.group, g.group} \subseteq groups /\ f.group # g.group
  BY <1>1 DEF Groups, Main
<1>3. IsFiniteSet(groups)
  <2> DEFINE group == [h \in Main(n.files) |-> h.group]
             all == {h.group : h \in Main(n.files)}
  <2>1. IsFiniteSet(n.files)
    BY NamesAssumption
  <2>2. IsFiniteSet(Main(n.files))
    <3>1. Main(n.files) \in SUBSET n.files
      BY DEF Main
    <3>2. QED
      BY <2>1, <3>1, FS_Subset
  <2>3. group \in Surjection(Main(n.files), all)
    BY DEF Surjection
  <2>4. IsFiniteSet(all)
    BY <2>2, <2>3, FS_Surjection
  <2>5. groups \in SUBSET all
    BY DEF Groups
  <2>6. QED
    BY <2>4, <2>5, FS_Subset
<1>4. Cardinality(groups) > 1
  <2>1. Cardinality(groups) \in Nat
    BY <1>3, FS_CardinalityType
  <2>2. Cardinality(groups) # 0
    BY <1>2, <1>3, FS_EmptySet
  <2>3. Cardinality(groups) # 1
    BY <1>2, <1>3, FS_Singleton
  <2>4. QED
    BY <2>1, <2>2, <2>3
<1>5. "mixed_release_groups" \in found
  BY <1>4 DEF Found, Holding, SiblingFindings
<1>6. QED
  BY <1>5 DEF RenameStatus, Severe

\* An archived video that the release does not have is a mismatch.
LEMMA ModifiedIsMismatch ==
  ASSUME NEW these, NEW archived, Modified(these, archived)
  PROVE  SrrdbVerdict(these, archived) = "mismatch"
<1>1. PICK a \in archived : \A f \in these :
         f.file # a.file \/ (f.size # a.size /\ 0 \notin {f.size, a.size})
  BY DEF Modified
<1>2. CASE \E f \in these : f.file = a.file
  BY <1>1, <1>2 DEF SrrdbVerdict
<1>3. CASE ~\E f \in these : f.file = a.file
  BY <1>1, <1>3 DEF SrrdbVerdict
<1>4. QED
  BY <1>2, <1>3

-----------------------------------------------------------------------------

\* The first track marked as default, or else the first one, is one of them.
LEMMA DefaultIsOne ==
  ASSUME NEW tracks, Len(tracks) \in Nat, DOMAIN tracks = 1..Len(tracks), Len(tracks) > 0
  PROVE  \E n \in DOMAIN tracks : Default(tracks) = tracks[n]
<1> DEFINE marked == {n \in DOMAIN tracks : tracks[n].default}
<1>1. CASE marked = {}
  BY <1>1 DEF Default
<1>2. CASE marked # {}
  <2> DEFINE R == OpToRel(<, Nat)
  <2>1. IsWellFoundedOn(R, Nat)
    BY NatLessThanWellFounded
  <2>2. \A m, n \in Nat : m < n => <<m, n>> \in R
    BY DEF OpToRel
  <2> HIDE DEF R
  <2>3. marked \subseteq Nat /\ marked \subseteq DOMAIN tracks
    OBVIOUS
  <2> HIDE DEF marked
  <2>4. PICK n \in marked : \A m \in marked : ~(<<m, n>> \in R)
    BY <1>2, <2>1, <2>3, WFMin
  <2>5. \A m \in marked : n <= m
    <3> TAKE m \in marked
    <3>1. m \in Nat /\ n \in Nat /\ ~(<<m, n>> \in R)
      BY <2>3, <2>4
    <3>2. QED
      BY <2>2, <3>1
  <2>6. \E m \in marked : Default(tracks) = tracks[m]
    BY <1>2, <2>5 DEF Default, marked
  <2>7. QED
    BY <2>3, <2>6
<1>3. QED
  BY <1>1, <1>2

LEMMA LayoutIsCounted ==
  ASSUME NEW layout, layout.speakers \in Nat, NEW count \in Nat
  PROVE  ChannelsOfLayout(layout, count) \in Nat
<1> DEFINE speakers == IF count >= 2 THEN count ELSE layout.speakers
<1>1. speakers \in Nat
  OBVIOUS
<1> HIDE DEF speakers
<1>2. speakers >= 2 => 10 * (speakers - 1) + 1 \in Nat
  BY <1>1
<1>3. 10 * layout.speakers \in Nat
  OBVIOUS
<1>4. ChannelsOfLayout(layout, count) =
        IF layout.speakers = 0 THEN 0
        ELSE IF layout.lfe /\ speakers >= 2 THEN 10 * (speakers - 1) + 1
        ELSE 10 * layout.speakers
  BY DEF ChannelsOfLayout, speakers
<1>5. QED
  BY <1>2, <1>3, <1>4

\* Every report says a number of channels.
LEMMA ChannelsAreCounted ==
  ASSUME NEW content \in Contents
  PROVE  ReportOn(content).channels \in Nat
<1> DEFINE tracks == content.tracks
<1>1. /\ Len(tracks) \in Nat /\ DOMAIN tracks = 1..Len(tracks)
      /\ \A n \in DOMAIN tracks : tracks[n].count \in Nat /\ tracks[n].layout.speakers \in Nat
  BY ContentsAssumption
<1>2. \A n \in DOMAIN tracks : ChannelsOf(tracks[n]) \in Nat
  <2> TAKE n \in DOMAIN tracks
  <2>1. ChannelsOfLayout(tracks[n].layout, tracks[n].count) \in Nat
    BY <1>1, LayoutIsCounted
  <2>2. QED
    BY <1>1, <2>1 DEF ChannelsOf
<1>3. Len(tracks) > 0 => ChannelsOf(Default(tracks)) \in Nat
  BY <1>1, <1>2, DefaultIsOne
<1>4. ReportOn(content).channels = IF Len(tracks) > 0 THEN ChannelsOf(Default(tracks)) ELSE 0
  BY DEF ReportOn, FileReport
<1>5. QED
  BY <1>3, <1>4

\* What goes to the Arr stage is what the name says, but for what MediaInfo
\* tells of HDR, audio and codec; formats of HDR give way to higher ones only.
Measured ==
    /\ \E name \in Titles : title = Traits(name)
    /\ traits.height = title.height /\ traits.scan = title.scan
    /\ traits.source = title.source /\ traits.versions = title.versions
    /\ traits.season = title.season /\ traits.episode = title.episode
    /\ traits.hdr = title.hdr \/ HdrRank(traits) > HdrRank(title) \/ title.hdr = {}
    /\ traits.channels \in Nat

\* The ranks are small numbers, whatever traits they are read off.
LEMMA RanksAreSmall ==
  ASSUME NEW of
  PROVE  /\ AudioRank(of) \in 0..16 /\ CodecRank(of) \in 0..7
         /\ ScanRank(of) \in 0..2 /\ HdrRank(of) \in 0..4
<1>1. AudioRank(of) \in 0..16
  <2>1. DOMAIN AudioByRank = 1..16
    BY DEF AudioByRank
  <2>2. QED
    BY <2>1, RankInList DEF AudioRank
<1>2. CodecRank(of) \in 0..7
  <2>1. DOMAIN CodecByRank = 1..7
    BY DEF CodecByRank
  <2>2. QED
    BY <2>1, RankInList DEF CodecRank
<1>3. ScanRank(of) \in 0..2
  <2>1. DOMAIN <<{"i"}, {"p"}>> = 1..2
    OBVIOUS
  <2>2. QED
    BY <2>1, RankInList DEF ScanRank
<1>4. HdrRank(of) \in 0..4
  BY DEF HdrRank
<1>5. QED
  BY <1>1, <1>2, <1>3, <1>4

\* More formats of HDR are of no lower rank.
LEMMA MoreHdrIsHigher ==
  ASSUME NEW one, NEW other, one.hdr \subseteq other.hdr
  PROVE  HdrRank(one) <= HdrRank(other)
<1> DEFINE Plain(of) == of.hdr \cap {"HDR10", "HDR10+"}
           Standard(of) == of.hdr \cap {"HDR10", "HLG"}
<1>1. ASSUME NEW of
      PROVE  /\ "DV" \in of.hdr /\ Plain(of) # {} => HdrRank(of) = 4
             /\ "DV" \in of.hdr /\ Plain(of) = {} => HdrRank(of) = 3
             /\ "DV" \notin of.hdr /\ "HDR10+" \in of.hdr => HdrRank(of) = 2
             /\ "DV" \notin of.hdr /\ "HDR10+" \notin of.hdr =>
                    HdrRank(of) = IF Standard(of) # {} THEN 1 ELSE 0
  BY DEF HdrRank
<1>2. /\ "DV" \in one.hdr => "DV" \in other.hdr
      /\ "HDR10+" \in one.hdr => "HDR10+" \in other.hdr
      /\ Plain(one) # {} => Plain(other) # {}
      /\ Standard(one) # {} => Standard(other) # {}
  OBVIOUS
<1>3. "HDR10+" \in one.hdr /\ "DV" \in other.hdr => Plain(other) # {}
  OBVIOUS
<1> HIDE DEF Plain, Standard
<1>4. QED
  BY <1>1, <1>2, <1>3

\* What MediaInfo has found changes nothing else.
LEMMA LocalTraitsAreMeasured ==
  ASSUME Measured, NEW qui, qui[1].channels \in Nat,
         traits' = LocalTraits(title, qui), title' = title
  PROVE  Measured'
<1>1. PICK name \in Titles : title = Traits(name)
  BY DEF Measured
<1>2. title.channels \in Nat
  BY <1>1, ChannelsAreFew DEF Traits
<1>3. /\ traits'.height = title.height /\ traits'.scan = title.scan
      /\ traits'.source = title.source /\ traits'.versions = title.versions
      /\ traits'.season = title.season /\ traits'.episode = title.episode
      /\ traits'.channels = IF qui[1].channels # 0 THEN qui[1].channels ELSE title.channels
      /\ traits'.hdr = IF \/ HdrRank(qui[1]) > HdrRank(title)
                          \/ title.hdr = {} /\ qui[1].hdr # {}
                       THEN qui[1].hdr ELSE title.hdr
  BY <1>1 DEF LocalTraits, Traits
<1>4. traits'.hdr = qui[1].hdr => HdrRank(traits') = HdrRank(qui[1])
  BY DEF HdrRank
<1>5. traits'.hdr = title.hdr \/ HdrRank(traits') > HdrRank(title) \/ title.hdr = {}
  BY <1>3, <1>4
<1>6. HdrRank(traits)' = HdrRank(traits')
  BY DEF HdrRank
<1>7. QED
  BY <1>1, <1>2, <1>3, <1>5, <1>6 DEF Measured, HdrRank

\* A listing that is as good as the release is by its name is equal or better
\* than the release with all that MediaInfo has found, if that is not more.
LEMMA AsGoodIsEqual ==
  ASSUME Measured, ~MoreThanNamed, NEW name, AsGoodAsNamed(Traits(name))
  PROVE  EqualOrBetter(traits, Traits(name))
<1> DEFINE listing == Traits(name)
<1>1. PICK own \in Titles : title = Traits(own)
  BY DEF Measured
<1>2. listing.channels \in Nat /\ title.channels \in Nat /\ traits.channels \in Nat
  <2>1. listing.channels = ParseChannels(name) /\ title.channels = ParseChannels(own)
    BY <1>1 DEF Traits
  <2>2. QED
    BY <2>1, ChannelsAreFew DEF Measured
<1> HIDE DEF listing
<1>3. /\ AudioRank(listing) \in Nat /\ AudioRank(title) \in Nat /\ AudioRank(traits) \in Nat
      /\ CodecRank(listing) \in Nat /\ CodecRank(title) \in Nat /\ CodecRank(traits) \in Nat
      /\ ScanRank(listing) \in Nat /\ HdrRank(listing) \in Nat
      /\ HdrRank(title) \in Nat /\ HdrRank(traits) \in Nat
  BY RanksAreSmall
<1>4. /\ SameLane(title, listing)
      /\ listing.hdr = {} \/ title.hdr \subseteq listing.hdr
      /\ ScanRank(listing) >= ScanRank(title) /\ AudioRank(listing) >= AudioRank(title)
      /\ CodecRank(listing) >= CodecRank(title) /\ listing.channels >= title.channels
  BY DEF AsGoodAsNamed, listing
<1>5. SameLane(traits, listing)
  BY <1>4 DEF Measured, SameLane, SameScope
<1>6. ScanRank(traits) = ScanRank(title)
  BY DEF Measured, ScanRank
<1>7. /\ AudioRank(listing) >= AudioRank(traits) /\ CodecRank(listing) >= CodecRank(traits)
      /\ listing.channels >= traits.channels
  BY <1>2, <1>3, <1>4 DEF MoreThanNamed
<1>8. HdrSatisfies(traits, listing)
  <2>1. CASE listing.hdr = {}
    BY <2>1 DEF HdrSatisfies
  <2>2. CASE title.hdr \subseteq listing.hdr /\ (traits.hdr = title.hdr \/ title.hdr = {})
    <3>1. HdrRank(title) <= HdrRank(listing)
      BY <2>2, MoreHdrIsHigher
    <3>2. HdrRank(traits) <= HdrRank(title)
      BY <1>3 DEF MoreThanNamed
    <3>3. QED
      BY <1>3, <3>1, <3>2 DEF HdrSatisfies
  <2>3. QED
    BY <1>3, <1>4, <2>1, <2>2 DEF Measured, MoreThanNamed
<1>9. EqualOrBetter(traits, listing)
  BY <1>4, <1>5, <1>6, <1>7, <1>8 DEF EqualOrBetter
<1>10. QED
  BY <1>9 DEF listing

\* A candidate tracker has no torrent that is equal or better.
LEMMA CandidateIsUnmatched ==
  ASSUME NEW t, NEW listings, NEW configured, NEW l \in listings,
         TrackerDecision(traits, t, listings, configured).status = "candidate",
         l.tracker = t, l.protocol = "torrent"
  PROVE  ~EqualOrBetter(traits, l.traits)
<1>1. EqualOrBetter(traits, l.traits) => SameLane(traits, l.traits)
  BY DEF EqualOrBetter
<1>2. QED
  BY <1>1 DEF TrackerDecision

-----------------------------------------------------------------------------

\* What is doubted of the files has left a flag, which no later stage takes
\* away while the doubt stays; names are doubted at the end only.
EvidenceInv ==
    /\ Measured
    /\ "refuted" \in doubts => flags \cap ClaimKeys # {}
    /\ "dubbed" \in doubts => flags \cap LanguageKeys # {}
    /\ "listed" \notin doubts
    /\ stage # "done" => doubts \cap {"modified", "mixed"} = {}
    /\ Candidate => flags \subseteq {"source_missing"} /\ doubts \cap {"modified", "mixed"} = {}

LEMMA EvidenceInitHolds == EvidenceInit => EvidenceInv
<1> SUFFICES ASSUME EvidenceInit PROVE EvidenceInv
  OBVIOUS
<1>1. PICK name \in Titles : title = Traits(name)
  BY DEF EvidenceInit
<1>2. title.channels \in Nat
  BY <1>1, ChannelsAreFew DEF Traits
<1>3. Measured
  BY <1>1, <1>2 DEF EvidenceInit, Measured
<1>4. QED
  BY <1>3 DEF EvidenceInit, EvidenceInv, Candidate

\* What has been measured stays.
LEMMA MeasuredStays ==
  ASSUME Measured, UNCHANGED <<title, traits>>
  PROVE  Measured'
BY DEF Measured, HdrRank

\* The languages take no flag of a claim away, and one of a language only
\* with the doubt.
LEMMA LanguageKeeps ==
  ASSUME NEW original
  PROVE  /\ flags \cap ClaimKeys # {} =>
               LanguageResolved(flags, language, original) \cap ClaimKeys # {}
         /\ flags \cap LanguageKeys # {} =>
               \/ LanguageResolved(flags, language, original) \cap LanguageKeys # {}
               \/ original = language /\ original \notin {"", "odd"}
BY DEF LanguageResolved, Confident, ClaimKeys, LanguageKeys

\* After the Arr's answer the flags and doubts go together as before.
LEMMA ArrNamesKeeps ==
  ASSUME EvidenceInv, stage = "arr", stage' = "policy", NEW original, NEW listings,
         ArrNames(original, listings), ~Listed(decisions', listings),
         UNCHANGED <<title, traits>>
  PROVE  EvidenceInv'
<1>1. /\ flags' = LanguageResolved(flags, language, original)
      /\ doubts' \subseteq doubts
      /\ original \notin {"", "odd"} /\ original = language => "dubbed" \notin doubts'
  BY DEF ArrNames
<1>2. "refuted" \in doubts' => flags' \cap ClaimKeys # {}
  BY <1>1, LanguageKeeps DEF EvidenceInv
<1>3. "dubbed" \in doubts' => flags' \cap LanguageKeys # {}
  BY <1>1, LanguageKeeps DEF EvidenceInv
<1>4. "listed" \notin doubts' /\ doubts' \cap {"modified", "mixed"} = {}
  BY <1>1 DEF EvidenceInv
<1>5. Measured'
  BY MeasuredStays DEF EvidenceInv
<1>6. QED
  BY <1>2, <1>3, <1>4, <1>5 DEF EvidenceInv, Candidate

\* Every report QUI makes is one on some content, and there is one at least.
LEMMA ReportsAreOnContents ==
  ASSUME NEW layout \in Layouts, NEW most, NEW qui \in ReportsOn(Examined(layout), most)
  PROVE  qui[1].channels \in Nat
<1>1. 1 \in Examined(layout)
  BY LayoutsAssumption DEF Examined
<1>2. PICK some : \E odd \in [some -> Reports] :
        qui = [n \in Examined(layout) |-> IF n \in DOMAIN odd THEN odd[n] ELSE ReportOn(Ordinary)]
  BY DEF ReportsOn
<1>3. PICK odd \in [some -> Reports] :
        qui = [n \in Examined(layout) |-> IF n \in DOMAIN odd THEN odd[n] ELSE ReportOn(Ordinary)]
  BY <1>2
<1>4. qui[1] \in Reports
  <2>1. qui[1] = IF 1 \in DOMAIN odd THEN odd[1] ELSE ReportOn(Ordinary)
    BY <1>1, <1>3
  <2>2. ReportOn(Ordinary) \in Reports
    BY ContentsAssumption DEF Reports
  <2>3. 1 \in DOMAIN odd => odd[1] \in Reports
    OBVIOUS
  <2>4. QED
    BY <2>1, <2>2, <2>3
<1>5. QED
  BY <1>4, ChannelsAreCounted DEF Reports

LEMMA CheckMediaKeeps ==
  ASSUME EvidenceInv, CheckMedia
  PROVE  EvidenceInv'
<1> DEFINE Looks(layout, qui, local) ==
             LET issues == MediaIssues(title, layout, qui, local)
             IN /\ flags' = {i.key : i \in issues}
                /\ language' = DefaultLanguage(qui)
                /\ traits' = LocalTraits(title, qui)
                /\ stage' = IF issues = {} /\ title.source = "web" /\ title.provider = ""
                            THEN "nfo" ELSE "path"
                /\ doubts' = {d \in {"refuted", "dubbed"} :
                                 CASE d = "refuted" -> Refuted(layout, qui, local)
                                   [] d = "dubbed" -> Dubbed(layout, qui)}
<1>1. PICK layout \in Layouts :
        \E qui \in ReportsOn(Examined(layout), MaxOdd), readable \in SUBSET Examined(layout) :
          \E local \in ReportsOn(readable, MaxOdd - Odd(qui)) : Looks(layout, qui, local)
  BY Zenon DEF CheckMedia
<1>2. PICK qui \in ReportsOn(Examined(layout), MaxOdd), readable \in SUBSET Examined(layout) :
          \E local \in ReportsOn(readable, MaxOdd - Odd(qui)) : Looks(layout, qui, local)
  BY <1>1
<1>3. PICK local \in ReportsOn(readable, MaxOdd - Odd(qui)) : Looks(layout, qui, local)
  BY <1>2
<1>4. DOMAIN qui = Examined(layout) /\ DOMAIN local = readable
  BY <1>2, <1>3 DEF ReportsOn
<1>5. "refuted" \in doubts' => flags' \cap ClaimKeys # {}
  <2>1. "refuted" \in doubts' => Refuted(layout, qui, local)
    BY <1>3
  <2>2. DOMAIN local \subseteq DOMAIN qui
    BY <1>2, <1>4
  <2>3. "refuted" \in doubts' =>
           \E i \in MediaIssues(title, layout, qui, local) : i.key \in ClaimKeys
    BY <2>1, <2>2, RefutedIsRaised
  <2>4. flags' = {i.key : i \in MediaIssues(title, layout, qui, local)}
    BY <1>3
  <2>5. QED
    BY <2>3, <2>4
<1>6. "dubbed" \in doubts' => flags' \cap LanguageKeys # {}
  <2>1. "dubbed" \in doubts' => Dubbed(layout, qui)
    BY <1>3
  <2>2. "dubbed" \in doubts' =>
           \E i \in MediaIssues(title, layout, qui, local) : i.key \in LanguageKeys
    BY <2>1, DubbedIsRaised
  <2>3. flags' = {i.key : i \in MediaIssues(title, layout, qui, local)}
    BY <1>3
  <2>4. QED
    BY <2>2, <2>3
<1>7. doubts' \subseteq {"refuted", "dubbed"}
  BY <1>3
<1>8. stage' \in {"nfo", "path"}
  BY <1>3
<1>9. Measured'
  <2>1. traits' = LocalTraits(title, qui)
    BY <1>3
  <2>2. title' = title
    BY DEF CheckMedia
  <2>3. qui[1].channels \in Nat
    BY <1>2, ReportsAreOnContents
  <2>4. QED
    BY <2>1, <2>2, <2>3, LocalTraitsAreMeasured DEF EvidenceInv
<1>10. QED
  BY <1>5, <1>6, <1>7, <1>8, <1>9 DEF EvidenceInv, Candidate

LEMMA CompareArrKeeps ==
  ASSUME EvidenceInv, CompareArr
  PROVE  EvidenceInv'
<1> DEFINE Compared(passed, original, configured, listings) ==
             /\ decisions' = [t \in passed |-> TrackerDecision(traits, t, listings, configured)]
             /\ ArrNames(original, listings)
<1>1. PICK passed \in SUBSET Trackers \ {{}}, original \in Languages :
        \E configured \in SUBSET passed, found \in [1..MaxListings -> Offers] :
          Compared(passed, original, configured, Range(found) \ {NoListing})
  BY Zenon DEF CompareArr
<1>2. PICK configured \in SUBSET passed, found \in [1..MaxListings -> Offers] :
          Compared(passed, original, configured, Range(found) \ {NoListing})
  BY <1>1
<1> DEFINE listings == Range(found) \ {NoListing}
<1>3. Compared(passed, original, configured, listings)
  BY <1>2
<1>4. \A l \in listings : \E offered \in Listings : l.traits = Traits(offered.name)
  <2>1. listings \subseteq {Offered(l) : l \in Listings}
    BY DEF Range, Offers
  <2>2. QED
    BY <2>1 DEF Offered
<1> HIDE DEF listings
<1>5. ~Listed(decisions', listings)
  <2> SUFFICES ASSUME ~MoreThanNamed', NEW t \in DOMAIN decisions', NEW l \in listings,
                      decisions'[t].status = "candidate",
                      l.tracker = t, l.protocol = "torrent", AsGoodAsNamed(l.traits)
               PROVE  FALSE
    BY DEF Listed, MoreThanNamed, CompareArr
  <2>1. ~MoreThanNamed
    BY DEF MoreThanNamed, CompareArr, HdrRank, AudioRank, CodecRank
  <2>2. decisions'[t] = TrackerDecision(traits, t, listings, configured)
    BY <1>3
  <2>3. ~EqualOrBetter(traits, l.traits)
    BY <2>2, CandidateIsUnmatched
  <2>4. EqualOrBetter(traits, l.traits)
    BY <1>4, <2>1, AsGoodIsEqual DEF EvidenceInv
  <2>5. QED
    BY <2>3, <2>4
<1>6. stage = "arr" /\ stage' = "policy" /\ UNCHANGED <<title, traits>>
  BY DEF CompareArr
<1>7. QED
  BY <1>3, <1>5, <1>6, ArrNamesKeeps

LEMMA ArrUndecidedKeeps ==
  ASSUME EvidenceInv, ArrUndecided
  PROVE  EvidenceInv'
<1>1. ~Listed(decisions', {})
  BY DEF Listed
<1>2. /\ stage = "arr" /\ stage' = "policy" /\ ArrNames("", {})
      /\ UNCHANGED <<title, traits>>
  BY DEF ArrUndecided
<1>3. QED
  BY <1>1, <1>2, ArrNamesKeeps

LEMMA CheckNamesKeeps ==
  ASSUME EvidenceInv, CheckNames
  PROVE  EvidenceInv'
<1>1. PICK n \in Names :
        LET found == Found(n.item, n.root, n.mapped, n.files, decisions)
            review == flags \ {"source_missing"} # {}
            mixed == Mixed(n)
        IN \E answer \in SrrdbSays(n.files) :
             /\ Ends(IF \/ answer.verdict = "mismatch"
                        \/ review
                        \/ RenameStatus(found, answer.verdict = "verified") = "manual_review"
                     THEN "manual_review" ELSE "candidate")
             /\ doubts' = doubts \cup {d \in {"modified", "mixed"} :
                             CASE d = "modified" -> answer.modified
                               [] d = "mixed" -> mixed}
  BY Zenon DEF CheckNames
<1> DEFINE found == Found(n.item, n.root, n.mapped, n.files, decisions)
<1>2. PICK answer \in SrrdbSays(n.files) :
        /\ Ends(IF \/ answer.verdict = "mismatch"
                   \/ flags \ {"source_missing"} # {}
                   \/ RenameStatus(found, answer.verdict = "verified") = "manual_review"
                THEN "manual_review" ELSE "candidate")
        /\ doubts' = doubts \cup {d \in {"modified", "mixed"} :
                        CASE d = "modified" -> answer.modified
                          [] d = "mixed" -> Mixed(n)}
  BY <1>1, Zenon
<1> DEFINE rename == RenameStatus(found, answer.verdict = "verified")
<1>3. /\ flags' = flags /\ doubts \cap {"modified", "mixed"} = {}
      /\ stage' = "done"
      /\ status' = "candidate" => /\ answer.verdict # "mismatch"
                                  /\ flags \ {"source_missing"} = {}
                                  /\ rename # "manual_review"
  BY <1>2 DEF CheckNames, EvidenceInv, Ends
<1>4. /\ doubts' \subseteq doubts \cup {"modified", "mixed"}
      /\ "modified" \in doubts' => answer.modified
      /\ "mixed" \in doubts' => Mixed(n)
  BY <1>2, <1>3
<1>5. answer.modified => answer.verdict = "mismatch"
  <2>1. CASE answer \in [verdict : {"verified", "mismatch", "not_found", "skipped"},
                          modified : {FALSE}]
    BY <2>1
  <2>2. CASE \E archived \in Archives :
               answer = [verdict |-> SrrdbVerdict(n.files, archived),
                         modified |-> Modified(n.files, archived)]
    <3>1. PICK archived \in Archives :
            answer = [verdict |-> SrrdbVerdict(n.files, archived),
                      modified |-> Modified(n.files, archived)]
      BY <2>2
    <3>2. answer.verdict = SrrdbVerdict(n.files, archived)
      BY <3>1
    <3>3. answer.modified = Modified(n.files, archived)
      BY <3>1
    <3>4. QED
      BY <3>2, <3>3, ModifiedIsMismatch
  <2>3. QED
    BY <2>1, <2>2 DEF SrrdbSays
<1>6. Mixed(n) => rename = "manual_review"
  BY MixedIsSevere
<1>7. status' = "candidate" => doubts' \cap {"modified", "mixed"} = {}
  BY <1>3, <1>4, <1>5, <1>6
<1>8. Measured'
  BY MeasuredStays DEF CheckNames, EvidenceInv
<1>9. QED
  BY <1>3, <1>4, <1>7, <1>8 DEF EvidenceInv, Candidate

\* Every stage keeps the invariant.
LEMMA EvidenceNextHolds ==
  ASSUME EvidenceInv, [EvidenceNext]_evidenceVars
  PROVE  EvidenceInv'
<1> USE MeasuredStays
<1>1. CASE CheckMedia
  BY <1>1, CheckMediaKeeps
<1>2. CASE MediaFails \/ PathFails
  BY <1>2 DEF MediaFails, PathFails, Ends, EvidenceInv, Candidate
<1>3. CASE GrabNfo
  BY <1>3 DEF GrabNfo, EvidenceInv, Candidate
<1>4. CASE AskUa
  BY <1>4 DEF AskUa, Ends, EvidenceInv, Candidate
<1>5. CASE CompareArr
  BY <1>5, CompareArrKeeps
<1>6. CASE ArrUndecided
  BY <1>6, ArrUndecidedKeeps
<1>7. CASE ApplyPolicy
  BY <1>7 DEF ApplyPolicy, Ends, EvidenceInv, Candidate
<1>8. CASE CheckNames
  BY <1>8, CheckNamesKeeps
<1>9. CASE UNCHANGED evidenceVars
  BY <1>9 DEF evidenceVars, EvidenceInv, Candidate
<1>10. QED
  BY <1>1, <1>2, <1>3, <1>4, <1>5, <1>6, <1>7, <1>8, <1>9 DEF EvidenceNext

\* The invariant holds throughout a check.
THEOREM EvidenceInvariant == EvidenceSpec => []EvidenceInv
BY EvidenceInitHolds, EvidenceNextHolds, PTL DEF EvidenceSpec

\* MediaInfo refutes no claim of a candidate's title in an examined file:
\* merging the reports of two providers clears up nothing that neither has
\* seen in a file of that name.
THEOREM ClaimsAreNotRefutedHolds == EvidenceSpec => []ClaimsAreNotRefuted
<1>1. EvidenceInv => ClaimsAreNotRefuted
  BY DEF EvidenceInv, ClaimsAreNotRefuted, ClaimKeys
<1>2. QED
  BY <1>1, EvidenceInvariant, PTL

\* A candidate's default tracks are English or announced, unless the language
\* the check goes by, of the first file that has any, is the original one.
THEOREM AudioIsOriginalHolds == EvidenceSpec => []AudioIsOriginal
<1>1. EvidenceInv => AudioIsOriginal
  BY DEF EvidenceInv, AudioIsOriginal, LanguageKeys
<1>2. QED
  BY <1>1, EvidenceInvariant, PTL

\* A tracker with a torrent, any of those a search finds, that is as good as
\* the release is by its name is no candidate, unless MediaInfo has found more
\* in the release: what it has found else makes no listing worse.
THEOREM ListedIsBlockedHolds == EvidenceSpec => []ListedIsBlocked
<1>1. EvidenceInv => ListedIsBlocked
  BY DEF EvidenceInv, ListedIsBlocked
<1>2. QED
  BY <1>1, EvidenceInvariant, PTL

\* No candidate is put together from two groups' releases, whatever verdict of
\* srrDB excuses its names; and none lacks a video of the archive that its
\* files were compared with, or has one of another size.
THEOREM NamesAreGenuineHolds == EvidenceSpec => []NamesAreGenuine
<1>1. EvidenceInv => NamesAreGenuine
  BY DEF EvidenceInv, NamesAreGenuine
<1>2. QED
  BY <1>1, EvidenceInvariant, PTL
=============================================================================
