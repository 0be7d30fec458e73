---------------------------- MODULE Maintenance ----------------------------
(***************************************************************************)
(* The maintenance guard of app/service.py: once a day, from a lead time   *)
(* before the start of maintenance until QUI has gone down and come back,  *)
(* the service loop neither polls nor starts checks.  The user can pause   *)
(* and resume by hand and switch the guard off.                            *)
(*                                                                         *)
(* The guard keeps its state in the database, so a restart only loses the  *)
(* turn of the loop that is waiting for QUI's health.  Everything else can *)
(* happen during that wait: the user's requests, midnight, QUI going down. *)
(* A day has the hours before the lead time, the lead time, and the rest.  *)
(* Either of the first two is missing if the start is early enough: a lead *)
(* time is looked for on the date of its start only.                       *)
(***************************************************************************)
EXTENDS Naturals

CONSTANT MaxDay     \* bound: days

ASSUME MaxDayAssumption == MaxDay \in Nat \ {0}

VARIABLES
    day,            \* the local date
    opens,          \* the hour the day begins with, by the settings
    hour,           \* "early", "lead" or "late": from the start on
    enabled,        \* maintenance.enabled, with QUI configured
    manual,         \* maintenance_manual_paused
    activeDate,     \* maintenance_active_date, 0 when empty
    completedDate,  \* maintenance_completed_date
    resumeDate,     \* maintenance_manual_resume_date
    seenDown,       \* maintenance_seen_down
    qui,            \* QUI is healthy
    remembered,     \* the health found in the last ten seconds, if any
    probe,          \* the loop's turn that waits for QUI's health
    decision,       \* what the loop's last turn found: paused or not
    sawDown,        \* history: QUI was seen down since activeDate was set
    resumedOn,      \* history: the day of the last resume by hand
    disturbed       \* history: something changed since the last decision

kvVars == <<manual, activeDate, completedDate, resumeDate, seenDown>>
clockVars == <<opens, day, hour>>
guardVars ==
    <<clockVars, enabled, manual, activeDate, completedDate, resumeDate, seenDown, qui,
      remembered, probe, decision, sawDown, resumedOn, disturbed>>

NoProbe == [today |-> 0, active |-> 0]

GuardInit ==
    /\ day = 1
    /\ opens \in {"early", "lead", "late"}
    /\ hour = opens
    /\ enabled \in BOOLEAN
    /\ manual = FALSE
    /\ activeDate = 0 /\ completedDate = 0 /\ resumeDate = 0
    /\ seenDown = FALSE
    /\ qui = TRUE
    /\ remembered = "none"
    /\ probe = NoProbe
    /\ decision = FALSE
    /\ sawDown = FALSE
    /\ resumedOn = 0
    /\ disturbed = TRUE

-----------------------------------------------------------------------------

\* maintenance_snapshot: what the dashboard shows and run_due_jobs obeys.
ScheduledActive == activeDate = day /\ completedDate # day /\ resumeDate # day

LeadPending ==
    enabled /\ hour = "lead" /\ resumeDate # day /\ completedDate # day

Active == manual \/ ScheduledActive \/ LeadPending

\* The loop's turn ends with a decision.
Decides(pause) ==
    /\ decision' = pause
    /\ probe' = NoProbe
    /\ UNCHANGED <<clockVars, enabled, qui, manual, resumeDate, resumedOn>>

Keep == UNCHANGED <<activeDate, completedDate, seenDown, sawDown>>

\* Mutant: an earlier day's seen_down is kept.
StartScheduledKeeping(today, down) ==
    /\ activeDate' = today
    /\ seenDown' = (seenDown \/ down)
    /\ sawDown' = ((activeDate = today /\ sawDown) \/ down)
    /\ UNCHANGED completedDate

\* _start_scheduled_maintenance, and seen_down set by a failed probe.
StartScheduled(today, down) ==
    /\ activeDate' = today
    /\ seenDown' = ((activeDate = today /\ seenDown) \/ down)
    /\ sawDown' = ((activeDate = today /\ sawDown) \/ down)
    /\ UNCHANGED completedDate

\* Mutant: a day whose maintenance is completed may start another one.
SuspendedByHand == resumeDate = day

\* The guard is out of force for the day.
Suspended == resumeDate = day \/ completedDate = day

\* The end of _maintenance_pause_active, with QUI's health.  The date and the
\* active date are those read before the wait, seen_down is read after it.
Concludes(today, active, ok) ==
    \/ /\ active # today /\ ok
       /\ Decides(FALSE) /\ Keep
    \/ /\ active # today /\ ~ok
       /\ Decides(TRUE) /\ StartScheduled(today, TRUE)
    \/ /\ active = today /\ ~ok
       /\ Decides(TRUE)
       /\ seenDown' = TRUE
       /\ sawDown' = TRUE
       /\ UNCHANGED <<activeDate, completedDate>>
    \/ /\ active = today /\ ok /\ seenDown
       /\ Decides(FALSE)
       /\ completedDate' = today
       /\ activeDate' = 0
       /\ seenDown' = FALSE
       /\ UNCHANGED sawDown
    \/ /\ active = today /\ ok /\ ~seenDown
       /\ Decides(TRUE) /\ Keep

\* _maintenance_pause_active, up to its end if it need not ask for QUI's
\* health: when the guard is off, suspended for the day or done, before the
\* start, and when the health found by a turn just before is remembered.
Turn ==
    /\ probe = NoProbe
    /\ disturbed' = FALSE
    /\ UNCHANGED remembered
    /\ \/ /\ manual
          /\ Decides(TRUE) /\ Keep
       \/ /\ ~manual
          /\ ~enabled \/ Suspended \/ hour = "early"
          /\ Decides(FALSE) /\ Keep
       \/ /\ ~manual /\ enabled /\ ~Suspended
          /\ hour = "lead"
          /\ Decides(TRUE) /\ StartScheduled(day, FALSE)
       \/ /\ ~manual /\ enabled /\ ~Suspended
          /\ hour = "late" /\ remembered # "none"
          /\ Concludes(day, activeDate, remembered = "up")
       \/ /\ ~manual /\ enabled /\ ~Suspended
          /\ hour = "late" /\ remembered = "none"
          /\ probe' = [today |-> day, active |-> activeDate]
          /\ UNCHANGED <<clockVars, enabled, kvVars, qui, decision, sawDown, resumedOn>>

\* The answer about QUI's health, which is remembered.
TurnEnds ==
    /\ probe # NoProbe
    /\ Concludes(probe.today, probe.active, qui)
    /\ remembered' = IF qui THEN "up" ELSE "down"
    /\ UNCHANGED disturbed

-----------------------------------------------------------------------------

\* Everything below may happen between two turns and during a turn's wait.
Disturb == disturbed' = TRUE /\ UNCHANGED <<probe, decision>>

ManualPause ==
    /\ Disturb
    /\ manual' = TRUE
    /\ UNCHANGED <<clockVars, enabled, activeDate, completedDate, resumeDate,
                   seenDown, qui, remembered, sawDown, resumedOn>>

\* Mutant: a resume by hand forgets to suspend the guard for the day.
ManualResumeOnce ==
    /\ Disturb
    /\ manual' = FALSE
    /\ resumedOn' = day
    /\ activeDate' = 0
    /\ seenDown' = FALSE
    /\ sawDown' = FALSE
    /\ UNCHANGED <<clockVars, enabled, completedDate, resumeDate, qui, remembered>>

ManualResume ==
    /\ Disturb
    /\ manual' = FALSE
    /\ resumedOn' = day
    /\ resumeDate' = day
    /\ activeDate' = 0
    /\ seenDown' = FALSE
    /\ sawDown' = FALSE
    /\ UNCHANGED <<clockVars, enabled, completedDate, qui, remembered>>

\* The guard is switched on or off in the settings.
Configure ==
    /\ Disturb
    /\ enabled' = ~enabled
    /\ UNCHANGED <<clockVars, kvVars, qui, remembered, sawDown, resumedOn>>

QuiChanges ==
    /\ qui' = ~qui
    /\ UNCHANGED <<clockVars, enabled, kvVars, remembered, probe, decision, sawDown,
                   resumedOn, disturbed>>

Forget ==
    /\ remembered' = "none"
    /\ UNCHANGED <<clockVars, enabled, kvVars, qui, probe, decision, sawDown, resumedOn,
                   disturbed>>

ClockMoves ==
    /\ Disturb
    /\ \/ hour = "early" /\ hour' = "lead" /\ UNCHANGED day
       \/ hour = "lead" /\ hour' = "late" /\ UNCHANGED day
       \/ hour = "late" /\ hour' = opens /\ day < MaxDay /\ day' = day + 1
    /\ UNCHANGED <<opens, enabled, kvVars, qui, remembered, sawDown, resumedOn>>

GuardRestarts ==
    /\ probe' = NoProbe
    /\ remembered' = "none"
    /\ decision' = FALSE
    /\ disturbed' = TRUE
    /\ UNCHANGED <<clockVars, enabled, kvVars, qui, sawDown, resumedOn>>

GuardNext ==
    \/ Turn \/ TurnEnds
    \/ ManualPause \/ ManualResume \/ Configure
    \/ QuiChanges \/ Forget \/ ClockMoves \/ GuardRestarts

GuardSpec == GuardInit /\ [][GuardNext]_guardVars

-----------------------------------------------------------------------------

\* seen_down is about the maintenance that is under way: what a probe saw
\* on another day, or before a resume by hand, never ends today's early.
SeenDownIsFresh == seenDown /\ activeDate # 0 => sawDown

\* The loop and the dashboard, which decide in two functions, agree: after
\* an undisturbed turn with the guard on, the loop pauses exactly when the
\* snapshot says so.
LoopAgreesWithSnapshot ==
    enabled /\ ~disturbed /\ probe = NoProbe => (decision <=> Active)

\* A resume by hand holds for the rest of the day, also against a turn of
\* the loop that was waiting for QUI meanwhile and finds it down: only a
\* pause by hand makes maintenance active again.
ResumeHolds == resumedOn = day /\ ~manual => ~Active
=============================================================================
