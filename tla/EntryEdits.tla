----------------------------- MODULE EntryEdits ------------------------------
(***************************************************************************)
(* Changing a time entry after the fact, and what is meant to stop it:     *)
(* applyEntryEdit and applyBreakEdit (server/domain/time/edit.ts) as       *)
(* self-edits, manager edits (server/routes/entries.ts) and approved       *)
(* corrections (server/routes/corrections.ts) run them; the lock they ask  *)
(* (server/domain/payperiod/guard.ts, server/routes/manager.ts); and the   *)
(* paid mark (markPaid of server/domain/pay/pay.ts on one entry).          *)
(*                                                                         *)
(* As in the punch clock no handler opens a transaction: one action per    *)
(* awaited statement, with what it returned kept in the request's locals.  *)
(* A statement can fail, or the server stop, between any two of them.      *)
(*                                                                         *)
(* An entry carries its times, its edited flag, its paid mark and (bound)  *)
(* one break; note, job, door flag, pay amount, whether the break is paid  *)
(* and the pay-period dates are left out.                                  *)
(* Times count in units in which days and pay periods are whole.           *)
(***************************************************************************)
EXTENDS Integers, Sequences, FiniteSets

CONSTANTS
  Entries,         \* time_entries
  CorrectionIds,   \* bound: corrections that can be requested
  Requests,        \* requests the server can be working on at one time
  DayLength,       \* a local calendar day
  PeriodLength,    \* a pay period
  Skew,            \* FUTURE_SKEW_MS
  StartTime,       \* the clock when the behaviour starts
  MaxTime,         \* bound: the clock stops here
  MaxRequests,     \* bound: requests made in a behaviour
  MaxFailures      \* bound: statements that fail in a behaviour

Null == 0         \* SQL NULL for a time: the clock starts later
Keep == -1        \* a field the body does not have
None == -1        \* no row

ASSUME IdsAssumption == None \notin Entries \cup CorrectionIds
ASSUME LengthsAssumption ==
  DayLength \in Nat \ {0} /\ PeriodLength \in Nat \ {0} /\ Skew \in Nat
ASSUME BoundsAssumption ==
  /\ StartTime \in Nat \ {0} /\ MaxTime \in Nat /\ StartTime <= MaxTime
  /\ MaxRequests \in Nat /\ MaxFailures \in Nat

VARIABLES
  now,            \* the wall clock
  entries,        \* time_entries, by id
  breaks,         \* the break of each entry
  corrections,    \* corrections, by id
  periods,        \* pay_periods, by number
  entryTrail,     \* audit rows of each entry
  breakTrail,     \* audit rows of its break
  reviewTrail,    \* audit rows of each correction
  periodTrail,    \* audit rows of each pay period
  pc,             \* the statement each request is about to run
  loc,            \* the locals of each request's handler
  overlap,        \* whether a request may arrive while another is in progress
  requests,       \* requests made so far
  failures,       \* failures so far
  cutShort        \* rows whose handler failed half-way

tables == <<entries, breaks, corrections, periods>>
trails == <<entryTrail, breakTrail, reviewTrail, periodTrail>>
bounds == <<overlap, requests, failures, cutShort>>
vars == <<now, tables, trails, pc, loc, bounds>>

Times == 1..MaxTime
DayOf(t) == t \div DayLength
PeriodOf(t) == t \div PeriodLength
Periods == 0..PeriodOf(MaxTime)
PeriodEnd(p) == (p + 1) * PeriodLength

Edits == [in : {Keep} \cup Times, out : {Keep, Null} \cup Times]
Wishes == [in : {Keep} \cup Times, out : {Keep} \cup Times]   \* a correction's request
NoEdit == [in |-> Keep, out |-> Keep]

Sources == {"self_edit", "manager_edit", "correction_approved"}
Stages == {"idle", "readEntry", "guard", "updateEntry", "auditEdit", "setPaid", "auditPaid",
           "guardBreak", "writeBreak", "flagEntry", "auditBreak",
           "insertCorrection", "auditRequest", "readCorrection", "setStatus", "auditReview",
           "readPeriod", "countOpen", "setLock", "auditLock"}

NoRow == [in |-> Null, out |-> Null, edited |-> FALSE, paid |-> FALSE]
NoBreak == [in |-> Null, out |-> Null]
NoCorrection == [entry |-> None, wish |-> NoEdit, status |-> "none"]
NoWork == [kind |-> "none", source |-> "self_edit", entry |-> None, edit |-> NoEdit,
           row |-> NoRow, after |-> NoRow, brk |-> NoBreak, correction |-> None, period |-> None]

-----------------------------------------------------------------------------
(* The rules *)

\* isSelfEditable: the shift's day or the day after.
SelfEditable(t) == DayOf(t) >= DayOf(now) - 1

\* Mutation: a paid entry is open to its owner.
AccessPaid(source, row, edit) ==
  source = "self_edit" => SelfEditable(row.in) /\ (edit.in # Keep => SelfEditable(edit.in))

\* editAccess, for the owner (self_edit) and for leads (manager_edit); anybody else
\* is refused outright.
EditAccess(source, row, edit) ==
  source = "self_edit" =>
    /\ ~row.paid
    /\ SelfEditable(row.in)
    /\ edit.in # Keep => SelfEditable(edit.in)

NewIn(row, edit) == IF edit.in = Keep THEN row.in ELSE edit.in
NewOut(row, edit) == IF edit.out = Keep THEN row.out ELSE edit.out

\* Mutation: the period the entry moves to is asked, not the one it is in.
EditableWhereItGoes(row, edit) == periods[PeriodOf(NewIn(row, edit))] # "locked"

\* assertEntryEditable: the period the entry was in when it was read.
Editable(row, edit) == periods[PeriodOf(row.in)] # "locked"

\* The times an edit may set: not in the future, and out after in.
TimesAccepted(row, edit) ==
  /\ edit.in <= now + Skew
  /\ edit.out <= now + Skew
  /\ edit # NoEdit => NewOut(row, edit) = Null \/ NewOut(row, edit) > NewIn(row, edit)

\* The times of a break: inside its shift (an open one runs to now), and end after start.
BreakAccepted(row, brk, edit) ==
  LET start == NewIn(brk, edit)
      end == NewOut(brk, edit)
      shiftEnd == IF row.out = Null THEN now + Skew ELSE row.out
  IN /\ start # Null
     /\ brk = NoBreak => end # Null
     /\ row.in <= start /\ start <= shiftEnd
     /\ end # Null => start < end /\ end <= shiftEnd

-----------------------------------------------------------------------------
At(r, stage) == pc[r] = stage
Goto(r, stage) == pc' = [pc EXCEPT ![r] = stage]
Respond(r) == Goto(r, "idle") /\ loc' = [loc EXCEPT ![r] = NoWork]
Is(r, kinds) == loc[r].kind \in kinds

View(row) == [in |-> row.in, out |-> row.out]
NoView == View(NoRow)
AuditEntry(e, action, reason, old, new) ==
  entryTrail' = [entryTrail EXCEPT ![e] =
    Append(@, [action |-> action, reason |-> reason, old |-> old, new |-> new])]

\* Entries as punches left them; the current pay period may not have been looked at yet
\* (bound: when requests overlap it has).
Init ==
  /\ now = StartTime
  /\ overlap \in BOOLEAN
  /\ entries \in [Entries -> {row \in [in : 1..StartTime, out : 0..StartTime,
                                       edited : {FALSE}, paid : {FALSE}] :
                                row.out = Null \/ row.out > row.in}]
  /\ breaks = [e \in Entries |-> NoBreak]
  /\ corrections = [c \in CorrectionIds |-> NoCorrection]
  /\ periods = [p \in Periods |->
                 IF p < PeriodOf(StartTime) + (IF overlap THEN 1 ELSE 0) THEN "open" ELSE "none"]
  /\ entryTrail = [e \in Entries |-> <<>>]
  /\ breakTrail = [e \in Entries |-> <<>>]
  /\ reviewTrail = [c \in CorrectionIds |-> <<>>]
  /\ periodTrail = [p \in Periods |-> <<>>]
  /\ pc = [r \in Requests |-> "idle"]
  /\ loc = [r \in Requests |-> NoWork]
  /\ requests = 0 /\ failures = 0 /\ cutShort = {}

\* Bound: while requests may overlap the clock stands still.
Horizon == IF overlap THEN StartTime ELSE MaxTime

Tick ==
  /\ now < Horizon
  /\ now' = now + 1
  /\ UNCHANGED <<tables, trails, pc, loc, bounds>>

\* GET /pay-periods: ensurePeriodContaining(new Date()), an INSERT that does nothing
\* when the period is there.
OpenPeriods ==
  /\ periods[PeriodOf(now)] = "none"
  /\ periods' = [periods EXCEPT ![PeriodOf(now)] = "open"]
  /\ UNCHANGED <<now, entries, breaks, corrections, trails, pc, loc, bounds>>

MayArrive(r) ==
  /\ At(r, "idle")
  /\ overlap \/ \A s \in Requests : At(s, "idle")
  /\ requests < MaxRequests

Arrive(r, work, stage) ==
  /\ requests' = requests + 1
  /\ loc' = [loc EXCEPT ![r] = work]
  /\ Goto(r, stage)
  /\ UNCHANGED <<now, tables, trails, overlap, failures, cutShort>>

-----------------------------------------------------------------------------
(* PATCH /entries/:id, and the edit inside POST /corrections/:id/approve *)

\* The handler reads the entry and decides on what it read.
ReadEntry(r) ==
  LET row == entries[loc[r].entry]
      GoOn(stage) == Goto(r, stage) /\ loc' = [loc EXCEPT ![r].row = row]
  IN /\ At(r, "readEntry")
     /\ \/ /\ Is(r, {"edit"})
           /\ IF EditAccess(loc[r].source, row, loc[r].edit) THEN GoOn("guard") ELSE Respond(r)
        \/ /\ Is(r, {"break"})
           /\ IF EditAccess(loc[r].source, row, NoEdit)
              THEN /\ Goto(r, "guardBreak")
                   /\ loc' = [loc EXCEPT ![r].row = row, ![r].brk = breaks[loc[r].entry]]
              ELSE Respond(r)
        \/ Is(r, {"approve"}) /\ GoOn("guard")
        \/ Is(r, {"request"}) /\ GoOn("insertCorrection")
        \/ /\ Is(r, {"pay", "unpay"})      \* entry_still_open, or already in that state
           /\ IF row.out # Null /\ row.paid = Is(r, {"unpay"}) THEN GoOn("setPaid")
              ELSE Respond(r)
     /\ UNCHANGED <<now, tables, trails, bounds>>

\* Mutation: the approval goes on when the edit was refused.
GuardSwallowed(r) ==
  /\ At(r, "guard")
  /\ IF Editable(loc[r].row, loc[r].edit) /\ TimesAccepted(loc[r].row, loc[r].edit)
     THEN Goto(r, "updateEntry") /\ UNCHANGED loc
     ELSE IF Is(r, {"approve"}) THEN Goto(r, "setStatus") /\ UNCHANGED loc ELSE Respond(r)
  /\ UNCHANGED <<now, tables, trails, bounds>>

\* applyEntryEdit up to its UPDATE.
Guard(r) ==
  /\ At(r, "guard")
  /\ IF Editable(loc[r].row, loc[r].edit) /\ TimesAccepted(loc[r].row, loc[r].edit)
     THEN Goto(r, "updateEntry") /\ UNCHANGED loc
     ELSE Respond(r)                              \* pay_period_locked, or bad times
  /\ UNCHANGED <<now, tables, trails, bounds>>

\* UPDATE time_entries of the given columns WHERE id, RETURNING the row.
UpdateEntry(r) ==
  LET e == loc[r].entry
      after == [entries[e] EXCEPT !.in = NewIn(entries[e], loc[r].edit),
                                  !.out = NewOut(entries[e], loc[r].edit),
                                  !.edited = TRUE]
  IN /\ At(r, "updateEntry")
     /\ entries' = [entries EXCEPT ![e] = after]
     /\ loc' = [loc EXCEPT ![r].after = after]
     /\ Goto(r, "auditEdit")
     /\ UNCHANGED <<now, breaks, corrections, periods, trails, bounds>>

\* Mutation: the audit row shows the new value as the old one too.
AuditEditNewOnly(r) ==
  /\ At(r, "auditEdit")
  /\ AuditEntry(loc[r].entry, loc[r].source, loc[r].correction, View(loc[r].after),
                View(loc[r].after))
  /\ IF Is(r, {"approve"}) THEN Goto(r, "setStatus") /\ UNCHANGED loc ELSE Respond(r)
  /\ UNCHANGED <<now, tables, breakTrail, reviewTrail, periodTrail, bounds>>

\* The audit row: old as it was read, new as it was returned.
AuditEdit(r) ==
  /\ At(r, "auditEdit")
  /\ AuditEntry(loc[r].entry, loc[r].source, loc[r].correction, View(loc[r].row),
                View(loc[r].after))
  /\ IF Is(r, {"approve"}) THEN Goto(r, "setStatus") /\ UNCHANGED loc ELSE Respond(r)
  /\ UNCHANGED <<now, tables, breakTrail, reviewTrail, periodTrail, bounds>>

-----------------------------------------------------------------------------
(* POST /entries/:id/breaks and PATCH /entries/:id/breaks/:breakId *)

\* What is kept of the locals: the row to write.
ToWrite(r) ==
  loc' = [loc EXCEPT ![r].row = NoRow,
                     ![r].edit = [in |-> NewIn(loc[r].brk, @), out |-> NewOut(loc[r].brk, @)]]

\* applyBreakEdit up to its INSERT or UPDATE.
GuardBreak(r) ==
  /\ At(r, "guardBreak")
  /\ IF /\ Editable(loc[r].row, loc[r].edit)
        /\ BreakAccepted(loc[r].row, loc[r].brk, loc[r].edit)
     THEN Goto(r, "writeBreak") /\ ToWrite(r) ELSE Respond(r)
  /\ UNCHANGED <<now, tables, trails, bounds>>

\* INSERT the break, or UPDATE all it says.
WriteBreak(r) ==
  /\ At(r, "writeBreak")
  /\ breaks' = [breaks EXCEPT ![loc[r].entry] = loc[r].edit]
  /\ Goto(r, "flagEntry")
  /\ UNCHANGED <<now, entries, corrections, periods, trails, loc, bounds>>

FlagEntry(r) ==
  /\ At(r, "flagEntry")
  /\ entries' = [entries EXCEPT ![loc[r].entry].edited = TRUE]
  /\ Goto(r, "auditBreak")
  /\ UNCHANGED <<now, breaks, corrections, periods, trails, loc, bounds>>

AuditBreak(r) ==
  LET row == [old |-> loc[r].brk, new |-> loc[r].edit]
  IN /\ At(r, "auditBreak")
     /\ breakTrail' = [breakTrail EXCEPT ![loc[r].entry] = Append(@, row)]
     /\ Respond(r)
     /\ UNCHANGED <<now, tables, entryTrail, reviewTrail, periodTrail, bounds>>

-----------------------------------------------------------------------------
(* POST /pay/mark with one entry *)

SetPaid(r) ==
  /\ At(r, "setPaid")
  /\ entries' = [entries EXCEPT ![loc[r].entry].paid = Is(r, {"pay"})]
  /\ Goto(r, "auditPaid")
  /\ UNCHANGED <<now, breaks, corrections, periods, trails, loc, bounds>>

AuditPaid(r) ==
  /\ At(r, "auditPaid")
  /\ AuditEntry(loc[r].entry, IF Is(r, {"pay"}) THEN "mark_paid" ELSE "mark_unpaid", None,
                NoView, NoView)
  /\ Respond(r)
  /\ UNCHANGED <<now, tables, breakTrail, reviewTrail, periodTrail, bounds>>

-----------------------------------------------------------------------------
(* POST /corrections, /corrections/:id/approve, /corrections/:id/reject *)

InsertCorrection(r) ==
  /\ At(r, "insertCorrection")
  /\ \E c \in CorrectionIds :
       /\ corrections[c].status = "none"
       /\ corrections' = [corrections EXCEPT
            ![c] = [entry |-> loc[r].entry, wish |-> loc[r].edit, status |-> "pending"]]
       /\ loc' = [loc EXCEPT ![r].correction = c]
  /\ Goto(r, "auditRequest")
  /\ UNCHANGED <<now, entries, breaks, periods, trails, bounds>>

AuditReviewAs(r, action) ==
  reviewTrail' = [reviewTrail EXCEPT ![loc[r].correction] = Append(@, action)]

AuditRequest(r) ==
  /\ At(r, "auditRequest")
  /\ AuditReviewAs(r, "request")
  /\ Respond(r)
  /\ UNCHANGED <<now, tables, entryTrail, breakTrail, periodTrail, bounds>>

\* Mutation: a reviewed correction can be reviewed again.
ReadCorrectionAny(r) ==
  LET row == corrections[loc[r].correction] IN
  /\ At(r, "readCorrection")
  /\ IF row.status = "none" THEN Respond(r)
     ELSE /\ loc' = [loc EXCEPT ![r].entry = row.entry, ![r].edit = row.wish]
          /\ Goto(r, IF Is(r, {"approve"}) THEN "readEntry" ELSE "setStatus")
  /\ UNCHANGED <<now, tables, trails, bounds>>

\* SELECT the correction WHERE status = 'pending'.
ReadCorrection(r) ==
  LET row == corrections[loc[r].correction] IN
  /\ At(r, "readCorrection")
  /\ IF row.status # "pending" THEN Respond(r)    \* not_found_or_reviewed
     ELSE /\ loc' = [loc EXCEPT ![r].entry = row.entry, ![r].edit = row.wish]
          /\ Goto(r, IF Is(r, {"approve"}) THEN "readEntry" ELSE "setStatus")
  /\ UNCHANGED <<now, tables, trails, bounds>>

\* UPDATE corrections SET status WHERE id: the status is not asked again.
SetStatus(r) ==
  /\ At(r, "setStatus")
  /\ corrections' = [corrections EXCEPT ![loc[r].correction].status =
                       IF Is(r, {"approve"}) THEN "approved" ELSE "rejected"]
  /\ Goto(r, "auditReview")
  /\ UNCHANGED <<now, entries, breaks, periods, trails, loc, bounds>>

AuditReview(r) ==
  /\ At(r, "auditReview")
  /\ AuditReviewAs(r, IF Is(r, {"approve"}) THEN "approve" ELSE "reject")
  /\ Respond(r)
  /\ UNCHANGED <<now, tables, entryTrail, breakTrail, periodTrail, bounds>>

-----------------------------------------------------------------------------
(* POST /pay-periods/:id/lock and /unlock *)

ReadPeriod(r) ==
  LET p == loc[r].period IN
  /\ At(r, "readPeriod")
  /\ \/ /\ Is(r, {"lock"})       \* not_found, already_locked, period_not_finished
        /\ IF periods[p] = "open" /\ PeriodEnd(p) <= now
           THEN Goto(r, "countOpen") /\ UNCHANGED loc ELSE Respond(r)
     \/ /\ Is(r, {"unlock"})     \* not_locked
        /\ IF periods[p] = "locked" THEN Goto(r, "setLock") /\ UNCHANGED loc ELSE Respond(r)
  /\ UNCHANGED <<now, tables, trails, bounds>>

OpenIn(p) == {e \in Entries : entries[e].out = Null /\ PeriodOf(entries[e].in) = p}

\* Mutation: open entries do not hold the lock back.
CountNothing(r) ==
  /\ At(r, "countOpen")
  /\ Goto(r, "setLock") /\ UNCHANGED loc
  /\ UNCHANGED <<now, tables, trails, bounds>>

CountOpen(r) ==
  /\ At(r, "countOpen")
  /\ IF OpenIn(loc[r].period) = {} THEN Goto(r, "setLock") /\ UNCHANGED loc
     ELSE Respond(r)                              \* open_entries_in_period
  /\ UNCHANGED <<now, tables, trails, bounds>>

SetLock(r) ==
  /\ At(r, "setLock")
  /\ periods' = [periods EXCEPT ![loc[r].period] = IF Is(r, {"lock"}) THEN "locked" ELSE "open"]
  /\ Goto(r, "auditLock")
  /\ UNCHANGED <<now, entries, breaks, corrections, trails, loc, bounds>>

AuditLock(r) ==
  /\ At(r, "auditLock")
  /\ periodTrail' = [periodTrail EXCEPT ![loc[r].period] = Append(@, loc[r].kind)]
  /\ Respond(r)
  /\ UNCHANGED <<now, tables, entryTrail, breakTrail, reviewTrail, bounds>>

\* A statement throws, or the server is stopped: the handler ends where it is (bound:
\* not while requests may overlap).
Fail(r) ==
  /\ pc[r] # "idle"
  /\ ~overlap
  /\ failures < MaxFailures
  /\ failures' = failures + 1
  /\ cutShort' = cutShort \cup ({loc[r].entry, loc[r].correction, loc[r].period} \ {None})
  /\ Respond(r)
  /\ UNCHANGED <<now, tables, trails, overlap, requests>>

-----------------------------------------------------------------------------
\* Bound: bodies ask for times the clock can reach.
Reachable(edit) == edit.in <= Horizon /\ edit.out <= Horizon

ArriveWith(r) ==
  \/ \E e \in Entries :
       \/ \E source \in {"self_edit", "manager_edit"}, edit \in {b \in Edits : Reachable(b)} :
            Arrive(r, [NoWork EXCEPT !.kind = "edit", !.source = source, !.entry = e,
                                     !.edit = edit], "readEntry")
       \/ \E source \in {"self_edit", "manager_edit"}, edit \in {b \in Edits : Reachable(b)} :
            Arrive(r, [NoWork EXCEPT !.kind = "break", !.source = source, !.entry = e,
                                     !.edit = edit], "readEntry")
       \/ \E wish \in {w \in Wishes : Reachable(w)} :
            Arrive(r, [NoWork EXCEPT !.kind = "request", !.entry = e, !.edit = wish], "readEntry")
       \/ \E kind \in {"pay", "unpay"} :
            Arrive(r, [NoWork EXCEPT !.kind = kind, !.entry = e], "readEntry")
  \/ \E c \in CorrectionIds, kind \in {"approve", "reject"} :
       Arrive(r, [NoWork EXCEPT !.kind = kind, !.source = "correction_approved",
                                !.correction = c], "readCorrection")
  \/ \E p \in Periods, kind \in {"lock", "unlock"} :
       Arrive(r, [NoWork EXCEPT !.kind = kind, !.period = p], "readPeriod")

ArriveAny(r) == MayArrive(r) /\ ArriveWith(r)

HandlerStep(r) ==
  \/ ReadEntry(r) \/ Guard(r) \/ UpdateEntry(r) \/ AuditEdit(r)
  \/ GuardBreak(r) \/ WriteBreak(r) \/ FlagEntry(r) \/ AuditBreak(r)
  \/ SetPaid(r) \/ AuditPaid(r)
  \/ InsertCorrection(r) \/ AuditRequest(r)
  \/ ReadCorrection(r) \/ SetStatus(r) \/ AuditReview(r)
  \/ ReadPeriod(r) \/ CountOpen(r) \/ SetLock(r) \/ AuditLock(r)

Next ==
  \/ Tick
  \/ OpenPeriods
  \/ \E r \in Requests : ArriveAny(r) \/ HandlerStep(r) \/ Fail(r)

Spec == Init /\ [][Next]_vars

\* The server runs the handlers it has started.
FairSpec == Spec /\ \A r \in Requests : WF_vars(HandlerStep(r))
=============================================================================
