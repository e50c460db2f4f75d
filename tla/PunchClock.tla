----------------------------- MODULE PunchClock -----------------------------
(***************************************************************************)
(* The punch clock: the handlers of server/routes/clock.ts and the         *)
(* auto-clockout sweep of server/jobs/auto-clockout.ts over the            *)
(* time_entries, breaks and audit_log tables.                              *)
(*                                                                         *)
(* No handler opens a transaction.  Every awaited statement commits on its *)
(* own, so a request is a process with one action per statement, and what  *)
(* a statement returned is kept in the request's locals while other        *)
(* requests and the sweep run.  A statement can also fail, or the server   *)
(* stop, between any two of them: the rest of the handler is then lost.    *)
(*                                                                         *)
(* Time counts in units of the clock-in cooldown.  Rows carry the columns  *)
(* the punch rules read; job, location and photo file are left out.  The   *)
(* audit log is kept per entry and per break, in the order of its ids.     *)
(***************************************************************************)
EXTENDS Naturals, Sequences, FiniteSetsExt

CONSTANTS
  Employees,
  Requests,        \* requests the server can be working on at one time
  EmployeeOf,      \* whose request it is
  Cooldown,        \* REPUNCH_COOLDOWN_MS
  OfflineWindow,   \* age up to which clientQueuedAt is believed
  MaxShift,        \* settings.autoClockout.maxShiftHours
  DeductAfter,     \* settings.breaks.autoDeductAfterMin
  DeductMin,       \* settings.breaks.autoDeductMin
  MaxTime,         \* bound: the clock stops here
  MaxRequests,     \* bound: requests made in a behaviour
  MaxFailures      \* bound: statements that fail in a behaviour

ASSUME OwnersAssumption == EmployeeOf \in [Requests -> Employees]
ASSUME SettingsAssumption ==
  /\ Cooldown \in Nat /\ OfflineWindow \in Nat /\ MaxShift \in Nat
  /\ DeductAfter \in Nat /\ DeductMin \in Nat
ASSUME BoundsAssumption ==
  MaxTime \in Nat \ {0} /\ MaxRequests \in Nat /\ MaxFailures \in Nat

VARIABLES
  now,          \* the wall clock
  entries,      \* time_entries, by id
  breaks,       \* breaks, by id
  entryTrail,   \* audit rows of each time entry
  breakTrail,   \* audit rows of each break
  pc,           \* the statement each request is about to run
  loc,          \* the locals of each request's handler
  sweep,        \* the auto-clockout job, and settings.autoClockout.enabled
  requests,     \* requests made so far
  failures,     \* failures so far
  cutShort      \* entries a handler or sweep was working on when it failed

tables == <<entries, breaks>>
trails == <<entryTrail, breakTrail>>
bounds == <<requests, failures, cutShort>>
vars == <<now, tables, trails, pc, loc, sweep, bounds>>

Null == 0          \* SQL NULL for a time or an id: the clock starts at 1
Kinds == {"in", "out", "breakStart", "breakEnd", "switch"}
Flags == {"offline_queued", "suspect"}
Stages == {"idle", "findOpen", "cooldown", "checks", "insertEntry", "photo",
           "auditIn", "findBreak", "endBreak", "auditBreakEnd", "deduct",
           "insertDeduct", "auditDeduct", "closeEntry", "auditOut",
           "insertBreak", "auditBreakStart", "insertNext", "auditSwitchClose",
           "auditSwitchOpen"}

NoWork == [kind |-> "in", queued |-> Null, at |-> Null, entry |-> Null,
           in |-> Null, brk |-> Null, next |-> Null, unpaid |-> 0, deduct |-> 0,
           paid |-> FALSE, flags |-> {}]
SweepIdle == [enabled |-> TRUE, stage |-> "idle", at |-> Null, left |-> {}, entry |-> Null]

NewEntry(emp, at, flags) ==
  [emp |-> emp, in |-> at, out |-> Null, flags |-> flags, edited |-> FALSE]
NewBreak(entry, start, end, paid, auto) ==
  [entry |-> entry, start |-> start, end |-> end, paid |-> paid, auto |-> auto]

-----------------------------------------------------------------------------
(* Queries *)

\* Mutation: closed entries are found too.
AnyEntries(emp) == {e \in DOMAIN entries : entries[e].emp = emp}

OpenEntries(emp) == {e \in DOMAIN entries : entries[e].emp = emp /\ entries[e].out = Null}

\* openEntryFor orders by clockIn descending; ties come in any order.
LatestOpen(emp) ==
  {e \in OpenEntries(emp) : \A f \in OpenEntries(emp) : entries[f].in <= entries[e].in}

BreaksOf(e) == {b \in DOMAIN breaks : breaks[b].entry = e}
OpenBreaks(e) == {b \in BreaksOf(e) : breaks[b].end = Null}

\* unpaidBreakMinutes and workedMinutes; instants are whole units, so the rounding
\* to minutes has nothing to do.
UnpaidMinutes(e, at) ==
  MapThenSumSet(
    LAMBDA b : LET end == IF breaks[b].end = Null THEN at ELSE breaks[b].end
               IN IF end > breaks[b].start THEN end - breaks[b].start ELSE 0,
    {b \in BreaksOf(e) : ~breaks[b].paid})

WorkedMinutes(in, out, unpaid) == IF out > in + unpaid THEN out - in - unpaid ELSE 0

\* Mutation: a break longer than the standard one yields a negative deduction.
AutoDeductUnbounded(shift, unpaid) ==
  IF shift <= DeductAfter THEN 0 ELSE DeductMin - unpaid

\* Mutation: the break already taken is not taken off.
AutoDeductWhole(shift, unpaid) ==
  IF shift <= DeductAfter \/ unpaid >= DeductMin THEN 0 ELSE DeductMin

\* autoDeductMinutes
AutoDeduct(shift, unpaid) ==
  IF shift <= DeductAfter \/ unpaid >= DeductMin THEN 0 ELSE DeductMin - unpaid

\* queuedInstant: an offline instant is believed for OfflineWindow, else ignored.
Believed(q) == q # Null /\ q <= now /\ now - q <= OfflineWindow

-----------------------------------------------------------------------------
(* Steps of a handler *)

At(r, stage) == pc[r] = stage
Goto(r, stage) == pc' = [pc EXCEPT ![r] = stage]
Respond(r) == Goto(r, "idle") /\ loc' = [loc EXCEPT ![r] = NoWork]

AuditEntry(e, action, out, worked) ==
  entryTrail' = [entryTrail EXCEPT ![e] =
                   Append(@, [action |-> action, out |-> out, worked |-> worked])]
AuditBreak(b, action, end) ==
  breakTrail' = [breakTrail EXCEPT ![b] = Append(@, [action |-> action, end |-> end])]

Init ==
  /\ now = 1
  /\ entries = <<>> /\ breaks = <<>>
  /\ entryTrail = <<>> /\ breakTrail = <<>>
  /\ pc = [r \in Requests |-> "idle"]
  /\ loc = [r \in Requests |-> NoWork]
  /\ \E enabled \in BOOLEAN : sweep = [SweepIdle EXCEPT !.enabled = enabled]
  /\ requests = 0 /\ failures = 0 /\ cutShort = {}

Tick ==
  /\ now < MaxTime
  /\ now' = now + 1
  /\ UNCHANGED <<tables, trails, pc, loc, sweep, bounds>>

\* A request arrives.  Clock-in and clock-out may carry the instant at which an
\* offline kiosk queued them; a break states whether it is paid.
Arrive(r, kind, queued, paid) ==
  /\ At(r, "idle")
  /\ requests < MaxRequests
  /\ requests' = requests + 1
  /\ loc' = [loc EXCEPT ![r] = [NoWork EXCEPT !.kind = kind, !.queued = queued, !.paid = paid]]
  /\ Goto(r, "findOpen")
  /\ UNCHANGED <<now, tables, trails, sweep, failures, cutShort>>

\* openEntryFor(me.id), the first statement of every handler.
FindOpen(r) ==
  LET me == EmployeeOf[r] IN
  /\ At(r, "findOpen")
  /\ \/ /\ loc[r].kind = "in"
        /\ IF OpenEntries(me) # {} THEN Respond(r)        \* already_clocked_in
           ELSE LET q == IF Believed(loc[r].queued) THEN loc[r].queued ELSE Null IN
                /\ loc' = [loc EXCEPT ![r].queued = q]
                /\ Goto(r, IF q = Null THEN "cooldown" ELSE "checks")
     \/ /\ loc[r].kind # "in"
        /\ IF OpenEntries(me) = {} THEN Respond(r)        \* not_clocked_in
           ELSE \E e \in LatestOpen(me) :
                /\ loc' = [loc EXCEPT ![r].entry = e, ![r].in = entries[e].in]
                /\ Goto(r, "findBreak")
  /\ UNCHANGED <<now, tables, trails, sweep, bounds>>

-----------------------------------------------------------------------------
(* POST /in *)

\* Double-tap guard: the employee's latest closed entry is younger than Cooldown.
CheckCooldown(r) ==
  /\ At(r, "cooldown")
  /\ IF \E e \in DOMAIN entries : /\ entries[e].emp = EmployeeOf[r]
                                  /\ entries[e].out # Null
                                  /\ now < entries[e].out + Cooldown
     THEN Respond(r)                                      \* just_clocked_out
     ELSE Goto(r, "checks") /\ UNCHANGED loc
  /\ UNCHANGED <<now, tables, trails, sweep, bounds>>

\* Mutation: an offline punch is not flagged.
NoQueuedFlag(r) == {}

QueuedFlag(r) == IF loc[r].queued = Null THEN {} ELSE {"offline_queued"}

\* Settings, geofence, IP, photo required, door swipe: an enforced check refuses
\* the punch, any other leaves a flag.  The clock-in instant is fixed here.
CheckPunch(r) ==
  /\ At(r, "checks")
  /\ \/ Respond(r)                                        \* an enforced check
     \/ \E suspect \in SUBSET {"suspect"} :
          /\ loc' = [loc EXCEPT
               ![r].flags = suspect \cup QueuedFlag(r),
               ![r].at = IF loc[r].queued = Null THEN now ELSE loc[r].queued]
          /\ Goto(r, "insertEntry")
  /\ UNCHANGED <<now, tables, trails, sweep, bounds>>

InsertEntry(r) ==
  /\ At(r, "insertEntry")
  /\ entries' = Append(entries, NewEntry(EmployeeOf[r], loc[r].at, loc[r].flags))
  /\ entryTrail' = Append(entryTrail, <<>>)
  /\ loc' = [loc EXCEPT ![r].entry = Len(entries) + 1]
  /\ \E stage \in {"photo", "auditIn"} : Goto(r, stage)
  /\ UNCHANGED <<now, breaks, breakTrail, sweep, bounds>>

\* An enforced photo failed validation: the entry stands, flagged.
FlagPhoto(r) ==
  /\ At(r, "photo")
  /\ loc' = [loc EXCEPT ![r].flags = @ \cup {"suspect"}]
  /\ entries' = [entries EXCEPT ![loc[r].entry].flags = loc[r].flags \cup {"suspect"}]
  /\ Goto(r, "auditIn")
  /\ UNCHANGED <<now, breaks, trails, sweep, bounds>>

AuditIn(r) ==
  /\ At(r, "auditIn")
  /\ AuditEntry(loc[r].entry, "clock_in", Null, 0)
  /\ Respond(r)
  /\ UNCHANGED <<now, tables, breakTrail, sweep, bounds>>

-----------------------------------------------------------------------------
(* POST /out, /break/start, /break/end, /switch-job *)

\* The instant a handler stamps on what it changes.
Stamp(r) ==
  IF loc[r].kind = "out" /\ Believed(loc[r].queued) /\ loc[r].queued > loc[r].in
  THEN loc[r].queued ELSE now

\* Mutation: a second break may start while one is running.
AfterFindBreakTwice(kind, found) ==
  CASE kind = "out"        -> IF found THEN "endBreak" ELSE "deduct"
    [] kind = "breakStart" -> "insertBreak"
    [] kind = "breakEnd"   -> IF found THEN "endBreak" ELSE "idle"
    [] kind = "switch"     -> IF found THEN "idle" ELSE "closeEntry"

\* Mutation: clock-out leaves a running break alone.
AfterFindBreakRunning(kind, found) ==
  CASE kind = "out"        -> "deduct"
    [] kind = "breakStart" -> IF found THEN "idle" ELSE "insertBreak"
    [] kind = "breakEnd"   -> IF found THEN "endBreak" ELSE "idle"
    [] kind = "switch"     -> IF found THEN "idle" ELSE "closeEntry"

\* What each handler does with the open break openBreakFor(entry.id) found, or
\* with none: refuse, close it, or go on.
AfterFindBreak(kind, found) ==
  CASE kind = "out"        -> IF found THEN "endBreak" ELSE "deduct"
    [] kind = "breakStart" -> IF found THEN "idle" ELSE "insertBreak"     \* already_on_break
    [] kind = "breakEnd"   -> IF found THEN "endBreak" ELSE "idle"        \* not_on_break
    [] kind = "switch"     -> IF found THEN "idle" ELSE "closeEntry"      \* on_break

FindBreak(r) ==
  LET open == OpenBreaks(loc[r].entry)
      stage == AfterFindBreak(loc[r].kind, open # {})
  IN /\ At(r, "findBreak")
     /\ IF stage = "idle" THEN Respond(r)
        ELSE /\ Goto(r, stage)
             /\ \E b \in (IF open = {} THEN {Null} ELSE open) :
                  loc' = [loc EXCEPT ![r].brk = b, ![r].at = Stamp(r)]
     /\ UNCHANGED <<now, tables, trails, sweep, bounds>>

InsertBreak(r) ==
  /\ At(r, "insertBreak")
  /\ breaks' = Append(breaks, NewBreak(loc[r].entry, now, Null, loc[r].paid, FALSE))
  /\ breakTrail' = Append(breakTrail, <<>>)
  /\ loc' = [loc EXCEPT ![r].brk = Len(breaks) + 1]
  /\ Goto(r, "auditBreakStart")
  /\ UNCHANGED <<now, entries, entryTrail, sweep, bounds>>

AuditBreakStart(r) ==
  /\ At(r, "auditBreakStart")
  /\ AuditBreak(loc[r].brk, "break_start", Null)
  /\ Respond(r)
  /\ UNCHANGED <<now, tables, entryTrail, sweep, bounds>>

EndBreak(r) ==
  /\ At(r, "endBreak")
  /\ breaks' = [breaks EXCEPT ![loc[r].brk].end = loc[r].at]
  /\ Goto(r, "auditBreakEnd")
  /\ UNCHANGED <<now, entries, trails, loc, sweep, bounds>>

AuditBreakEnd(r) ==
  /\ At(r, "auditBreakEnd")
  /\ AuditBreak(loc[r].brk, "break_end", loc[r].at)
  /\ IF loc[r].kind = "out" THEN Goto(r, "deduct") /\ UNCHANGED loc ELSE Respond(r)
  /\ UNCHANGED <<now, tables, entryTrail, sweep, bounds>>

\* Clock-out reads the entry's breaks and works out the meal break to deduct.
ReadBreaks(r) ==
  LET unpaid == UnpaidMinutes(loc[r].entry, loc[r].at)
      deduct == AutoDeduct(loc[r].at - loc[r].in, unpaid)
  IN /\ At(r, "deduct")
     /\ loc' = [loc EXCEPT ![r].unpaid = unpaid, ![r].deduct = deduct]
     /\ Goto(r, IF deduct > 0 THEN "insertDeduct" ELSE "closeEntry")
     /\ UNCHANGED <<now, tables, trails, sweep, bounds>>

InsertDeduct(r) ==
  /\ At(r, "insertDeduct")
  /\ breaks' = Append(breaks, NewBreak(loc[r].entry, loc[r].at - loc[r].deduct, loc[r].at,
                                       FALSE, TRUE))
  /\ breakTrail' = Append(breakTrail, <<>>)
  /\ loc' = [loc EXCEPT ![r].brk = Len(breaks) + 1]
  /\ Goto(r, "auditDeduct")
  /\ UNCHANGED <<now, entries, entryTrail, sweep, bounds>>

AuditDeduct(r) ==
  /\ At(r, "auditDeduct")
  /\ AuditBreak(loc[r].brk, "auto_deduct", loc[r].at)
  /\ Goto(r, "closeEntry")
  /\ UNCHANGED <<now, tables, entryTrail, loc, sweep, bounds>>

\* UPDATE time_entries SET clock_out WHERE id: whether it is still open is not
\* asked again.
CloseEntry(r) ==
  /\ At(r, "closeEntry")
  /\ entries' = [entries EXCEPT ![loc[r].entry].out = loc[r].at]
  /\ Goto(r, IF loc[r].kind = "out" THEN "auditOut" ELSE "insertNext")
  /\ UNCHANGED <<now, breaks, trails, loc, sweep, bounds>>

\* Mutation: the worked minutes are taken before the deduction.
AuditOutGross(r) ==
  /\ At(r, "auditOut")
  /\ AuditEntry(loc[r].entry, "clock_out", loc[r].at,
                WorkedMinutes(loc[r].in, loc[r].at, loc[r].unpaid))
  /\ Respond(r)
  /\ UNCHANGED <<now, tables, breakTrail, sweep, bounds>>

AuditOut(r) ==
  /\ At(r, "auditOut")
  /\ AuditEntry(loc[r].entry, "clock_out", loc[r].at,
                WorkedMinutes(loc[r].in, loc[r].at, loc[r].unpaid + loc[r].deduct))
  /\ Respond(r)
  /\ UNCHANGED <<now, tables, breakTrail, sweep, bounds>>

\* Job switch: the next entry starts at the instant the current one ended.
InsertNext(r) ==
  /\ At(r, "insertNext")
  /\ entries' = Append(entries, NewEntry(EmployeeOf[r], loc[r].at, {}))
  /\ entryTrail' = Append(entryTrail, <<>>)
  /\ loc' = [loc EXCEPT ![r].next = Len(entries) + 1]
  /\ Goto(r, "auditSwitchClose")
  /\ UNCHANGED <<now, breaks, breakTrail, sweep, bounds>>

AuditSwitchClose(r) ==
  /\ At(r, "auditSwitchClose")
  /\ AuditEntry(loc[r].entry, "switch_job_close", loc[r].at, 0)
  /\ Goto(r, "auditSwitchOpen")
  /\ UNCHANGED <<now, tables, breakTrail, loc, sweep, bounds>>

AuditSwitchOpen(r) ==
  /\ At(r, "auditSwitchOpen")
  /\ AuditEntry(loc[r].next, "switch_job_open", Null, 0)
  /\ Respond(r)
  /\ UNCHANGED <<now, tables, breakTrail, sweep, bounds>>

\* A statement throws, or the server is stopped: the handler ends where it is.
Fail(r) ==
  /\ pc[r] # "idle"
  /\ failures < MaxFailures
  /\ failures' = failures + 1
  /\ cutShort' = cutShort \cup ({loc[r].entry, loc[r].next} \ {Null})
  /\ Respond(r)
  /\ UNCHANGED <<now, tables, trails, sweep, requests>>

-----------------------------------------------------------------------------
(* runAutoClockout, every 15 minutes *)

Overdue(e) == entries[e].out = Null /\ entries[e].in + MaxShift < now

SweepAt(stage) == sweep.stage = stage
SweepGoto(stage) == sweep' = [sweep EXCEPT !.stage = stage]
SweepEnds == sweep' = [SweepIdle EXCEPT !.enabled = sweep.enabled]

\* SELECT the entries open past the limit; the loop works on this list.
SweepSelect ==
  /\ SweepAt("idle")
  /\ sweep.enabled
  /\ \E e \in DOMAIN entries : Overdue(e)
  /\ sweep' = [sweep EXCEPT !.stage = "next", !.at = now,
                            !.left = {e \in DOMAIN entries : Overdue(e)}]
  /\ UNCHANGED <<now, tables, trails, pc, loc, bounds>>

\* The next entry of the list: end its open breaks.
SweepEndBreaks(e) ==
  /\ SweepAt("next")
  /\ e \in sweep.left
  /\ breaks' = [b \in DOMAIN breaks |->
                  IF b \in OpenBreaks(e) THEN [breaks[b] EXCEPT !.end = sweep.at]
                  ELSE breaks[b]]
  /\ sweep' = [sweep EXCEPT !.stage = "close", !.entry = e, !.left = @ \ {e}]
  /\ UNCHANGED <<now, entries, trails, pc, loc, bounds>>

\* Mutation: the sweep does not audit what it closes.
SweepCloseSilently ==
  /\ SweepAt("close")
  /\ entries' = [entries EXCEPT ![sweep.entry].out = sweep.at, ![sweep.entry].edited = TRUE]
  /\ SweepGoto("notify")
  /\ UNCHANGED <<now, breaks, trails, pc, loc, bounds>>

SweepCloseEntry ==
  /\ SweepAt("close")
  /\ entries' = [entries EXCEPT ![sweep.entry].out = sweep.at, ![sweep.entry].edited = TRUE]
  /\ SweepGoto("audit")
  /\ UNCHANGED <<now, breaks, trails, pc, loc, bounds>>

SweepAudit ==
  /\ SweepAt("audit")
  /\ AuditEntry(sweep.entry, "auto_clockout", sweep.at, 0)
  /\ SweepGoto("notify")
  /\ UNCHANGED <<now, tables, breakTrail, pc, loc, bounds>>

\* Mutation: the job does not end with its list.
SweepNotifyForever ==
  /\ SweepAt("notify")
  /\ sweep' = [sweep EXCEPT !.stage = "next", !.entry = Null]
  /\ UNCHANGED <<now, tables, trails, pc, loc, bounds>>

\* await notify(...), then the next entry or the end of the job.
SweepNotify ==
  /\ SweepAt("notify")
  /\ IF sweep.left = {} THEN SweepEnds
     ELSE sweep' = [sweep EXCEPT !.stage = "next", !.entry = Null]
  /\ UNCHANGED <<now, tables, trails, pc, loc, bounds>>

\* A statement throws, which safe() logs, or the server stops: this run of the job is over,
\* and the next one comes with a later tick of the scheduler.
SweepFail ==
  /\ sweep.stage # "idle"
  /\ failures < MaxFailures
  /\ failures' = failures + 1
  /\ cutShort' = cutShort \cup ({sweep.entry} \ {Null})
  /\ SweepEnds
  /\ UNCHANGED <<now, tables, trails, pc, loc, requests>>

-----------------------------------------------------------------------------
HandlerStep(r) ==
  \/ FindOpen(r)
  \/ CheckCooldown(r) \/ CheckPunch(r) \/ InsertEntry(r) \/ FlagPhoto(r) \/ AuditIn(r)
  \/ FindBreak(r)
  \/ InsertBreak(r) \/ AuditBreakStart(r)
  \/ EndBreak(r) \/ AuditBreakEnd(r)
  \/ ReadBreaks(r) \/ InsertDeduct(r) \/ AuditDeduct(r)
  \/ CloseEntry(r) \/ AuditOut(r)
  \/ InsertNext(r) \/ AuditSwitchClose(r) \/ AuditSwitchOpen(r)

ArriveAny(r) ==
  \/ \E kind \in {"in", "out"}, queued \in {Null} \cup 1..now : Arrive(r, kind, queued, FALSE)
  \/ \E paid \in BOOLEAN : Arrive(r, "breakStart", Null, paid)
  \/ \E kind \in {"breakEnd", "switch"} : Arrive(r, kind, Null, FALSE)

SweepStep ==
  \/ SweepSelect
  \/ \E e \in sweep.left : SweepEndBreaks(e)
  \/ SweepCloseEntry \/ SweepAudit \/ SweepNotify

Next ==
  \/ Tick
  \/ \E r \in Requests : ArriveAny(r) \/ HandlerStep(r) \/ Fail(r)
  \/ SweepStep
  \/ SweepFail

Spec == Init /\ [][Next]_vars

\* The server runs the handlers it has started and the scheduler its sweeps.
FairSpec ==
  /\ Spec
  /\ \A r \in Requests : WF_vars(HandlerStep(r))
  /\ WF_vars(SweepStep)
=============================================================================
