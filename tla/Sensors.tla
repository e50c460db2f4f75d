------------------------------- MODULE Sensors -------------------------------
(***************************************************************************)
(* The pushes of the time clock's state to Home Assistant: a snapshot of   *)
(* the database, written one sensor after the other, after punches (with   *)
(* a delay that lets several make one push) and every five minutes.        *)
(* Pushes may overlap, a push that fails ends there, and Home Assistant    *)
(* forgets what was pushed when it restarts.  A dashboard's card shows the *)
(* summary; its buttons punch through Home Assistant and the external API. *)
(*                                                                         *)
(* What a sensor says of an employee is how often their entries changed.   *)
(***************************************************************************)
EXTENDS Naturals

CONSTANTS
  Crew,        \* employees
  Pushes,      \* bound: pushes in progress at one time
  MaxNews,     \* bound: changes of entries and employees in a behaviour
  MaxLosses    \* bound: pushes that fail and restarts of Home Assistant

ASSUME NewsAssumption == MaxNews \in Nat /\ MaxLosses \in Nat

VARIABLES
  news,        \* the entries of each employee
  employed,    \* the active employees
  pending,     \* whether the timer of schedulePush runs
  push,        \* each push: its next statement and its snapshot
  sensor,      \* each employee's sensors (two, written one after the other)
  summary,     \* sensor.timeclock_summary: the same of all active employees
  history,     \* sensor.timeclock_history
  busy,        \* the card: whose button waits (_pending)
  asked,       \* calls of rest_command.timeclock_punch on their way, by employee
  changed,     \* changes so far
  losses       \* failures so far

tableVars == <<news, employed, changed>>
shownVars == <<sensor, summary, history>>
cardVars == <<busy, asked>>
sensorVars == <<tableVars, shownVars, cardVars, pending, push, losses>>

Nothing == [e \in {} |-> 0]
Resting == [stage |-> "resting", withHistory |-> FALSE, staff |-> {}, seen |-> Nothing,
            left |-> {}]
PushAt(p, stage) == push[p].stage = stage
GoOn(p, stage) == push' = [push EXCEPT ![p].stage = stage]

\* What buildTimeclockSummary makes of the tables.
Summary(staff, entries) == [e \in staff |-> entries[e]]

SensorsInit ==
  /\ news = [e \in Crew |-> 1] /\ employed = Crew /\ changed = 0
  /\ pending = FALSE
  /\ push = [p \in Pushes |-> Resting]
  /\ sensor = [e \in Crew |-> 0] /\ summary = Nothing /\ history = Nothing
  /\ busy = {} /\ asked = [e \in Crew |-> 0]
  /\ losses = 0

-----------------------------------------------------------------------------
(* The rest of the program *)

Happens == changed < MaxNews /\ changed' = changed + 1

\* Punches and breaks schedule a push; edits, reviews and the sweep do not.
EntriesChange(e, scheduled) ==
  /\ Happens
  /\ news' = [news EXCEPT ![e] = @ + 1]
  /\ pending' = (pending \/ scheduled)
  /\ UNCHANGED <<employed, shownVars, cardVars, push, losses>>

\* PATCH /admin/employees/:id schedules one.
EmployeeChanges(e) ==
  /\ Happens
  /\ employed' = IF e \in employed THEN employed \ {e} ELSE employed \cup {e}
  /\ pending' = TRUE
  /\ UNCHANGED <<news, shownVars, cardVars, push, losses>>

Lose == losses < MaxLosses /\ losses' = losses + 1

RestartHomeAssistant ==
  /\ Lose
  /\ sensor' = [e \in Crew |-> 0] /\ summary' = Nothing /\ history' = Nothing
  /\ UNCHANGED <<tableVars, cardVars, pending, push>>

-----------------------------------------------------------------------------
(* The dashboard's card, and POST /ext/punch *)

\* A tap on "Clock in" or "Clock out", which depends on what the summary says, on a card that
\* does not wait for an earlier tap of this employee; or one of the generated scripts.
CardPunch(e) ==
  /\ e \in DOMAIN summary /\ e \notin busy
  /\ Happens
  /\ busy' = busy \cup {e}
  /\ asked' = [asked EXCEPT ![e] = @ + 1]
  /\ UNCHANGED <<news, employed, shownVars, pending, push, losses>>

\* The key is checked, the employee looked up, and the punch made in a session of its own
\* that is revoked afterwards; or any of this fails, or the clock refuses the punch.
ServePunch(e, made) ==
  /\ asked[e] > 0
  /\ asked' = [asked EXCEPT ![e] = @ - 1]
  /\ made => e \in employed
  /\ news' = IF made THEN [news EXCEPT ![e] = @ + 1] ELSE news
  /\ pending' = (pending \/ made)
  /\ UNCHANGED <<employed, changed, busy, shownVars, push, losses>>

\* Three seconds after the answer, or after Home Assistant gave up waiting for one, the button
\* can be tapped again, whatever the summary shows by then.
CardReady(e) ==
  /\ e \in busy
  /\ busy' = busy \ {e}
  /\ UNCHANGED <<tableVars, shownVars, asked, pending, push, losses>>

-----------------------------------------------------------------------------
(* pushTimeclockStates() *)

Start(p, withHistory) ==
  /\ PushAt(p, "resting")
  /\ push' = [push EXCEPT ![p] = [Resting EXCEPT !.stage = "staff", !.withHistory = withHistory]]

\* The timer of schedulePush runs out; only such a push includes the history.
PendingPush(p) ==
  /\ pending /\ Start(p, TRUE)
  /\ pending' = FALSE
  /\ UNCHANGED <<tableVars, shownVars, cardVars, losses>>

\* Mutation: every five minutes, if a push is due.
PeriodicPushIfPending(p) ==
  pending /\ Start(p, FALSE) /\ UNCHANGED <<tableVars, shownVars, cardVars, pending, losses>>

\* Every five minutes.
PeriodicPush(p) == Start(p, FALSE) /\ UNCHANGED <<tableVars, shownVars, cardVars, pending, losses>>

ReadStaff(p) ==
  /\ PushAt(p, "staff")
  /\ push' = [push EXCEPT ![p].stage = "entries", ![p].staff = employed]
  /\ UNCHANGED <<tableVars, shownVars, cardVars, pending, losses>>

ReadEntries(p) ==
  /\ PushAt(p, "entries")
  /\ push' = [push EXCEPT ![p].stage = "summary", ![p].left = push[p].staff,
                          ![p].seen = Summary(push[p].staff, news)]
  /\ UNCHANGED <<tableVars, shownVars, cardVars, pending, losses>>

\* The sensors of one employee after another, in the order of the query.
WriteSummary(p) ==
  /\ PushAt(p, "summary")
  /\ summary' = push[p].seen
  /\ GoOn(p, IF push[p].withHistory THEN "history" ELSE "each")
  /\ UNCHANGED <<tableVars, sensor, history, cardVars, pending, losses>>

WriteHistory(p) ==
  /\ PushAt(p, "history")
  /\ history' = push[p].seen
  /\ GoOn(p, "each")
  /\ UNCHANGED <<tableVars, sensor, summary, cardVars, pending, losses>>

WriteSensor(p, e) ==
  /\ PushAt(p, "each") /\ e \in push[p].left
  /\ sensor' = [sensor EXCEPT ![e] = push[p].seen[e]]
  /\ push' = [push EXCEPT ![p].left = @ \ {e}]
  /\ UNCHANGED <<tableVars, summary, history, cardVars, pending, losses>>

PushEnds(p) ==
  /\ PushAt(p, "each") /\ push[p].left = {}
  /\ push' = [push EXCEPT ![p] = Resting]
  /\ UNCHANGED <<tableVars, shownVars, cardVars, pending, losses>>

\* A query or a call of Home Assistant throws: the push ends, and is not tried again.
PushFails(p) ==
  /\ ~PushAt(p, "resting") /\ Lose
  /\ push' = [push EXCEPT ![p] = Resting]
  /\ UNCHANGED <<tableVars, shownVars, cardVars, pending>>

PushStep(p) ==
  \/ ReadStaff(p) \/ ReadEntries(p) \/ WriteSummary(p) \/ WriteHistory(p)
  \/ PushEnds(p)
  \/ \E e \in Crew : WriteSensor(p, e)

SensorsNext ==
  \/ \E e \in Crew :
       \/ EmployeeChanges(e) \/ \E scheduled \in BOOLEAN : EntriesChange(e, scheduled)
       \/ CardPunch(e) \/ CardReady(e) \/ \E made \in BOOLEAN : ServePunch(e, made)
  \/ RestartHomeAssistant
  \/ \E p \in Pushes : PendingPush(p) \/ PeriodicPush(p) \/ PushStep(p) \/ PushFails(p)

\* cron keeps on starting pushes, a push goes on until it ends, and a timer runs out.
SensorsFairness ==
  /\ WF_sensorVars(\E p \in Pushes : PeriodicPush(p))
  /\ \A p \in Pushes : WF_sensorVars(PushStep(p))
  /\ \A e \in Crew : WF_sensorVars(CardReady(e))

SensorsSpec == SensorsInit /\ [][SensorsNext]_sensorVars /\ SensorsFairness

-----------------------------------------------------------------------------

\* Home Assistant shows what there is of everybody who works here, with buttons to tap.
Shown ==
  /\ summary = Summary(employed, news) /\ \A e \in employed : sensor[e] = news[e]
  /\ busy = {}
=============================================================================
