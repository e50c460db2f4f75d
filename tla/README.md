# Specifications of ha-timeclock

ha-timeclock is a time clock that runs as a Home Assistant add-on: a Next.js and
Hono web application (`timeclock/webapp`) over PostgreSQL, with background jobs
in the same process, a kiosk page with an offline queue, and a card on Home
Assistant's dashboards. This directory holds TLA+ models of the parts of it
where order, overlap, failure and boundaries decide whether the hours people
are paid for are right, the model-checking runs over them, and proofs.

The one fact that shapes every model: **no handler opens a transaction.** Each
awaited statement commits on its own; between two of them other requests and
jobs run, and any of them can be the last one if it throws or the server stops.
So a request is a process, a statement is an action, and what a statement
returned lives in the request's locals while the tables move on.

## The system

| component | state | operations | hard because |
|---|---|---|---|
| punch clock (`server/routes/clock.ts`, `domain/time/breaks.ts`) | `time_entries`, `breaks` | in, out, break start, break end, switch job; offline replays of in and out | several statements each, unserialized; offline instants lie in the past |
| auto-clockout sweep (`server/jobs/auto-clockout.ts`, `scheduler.ts`) | the same tables | select overdue entries, then breaks, entry, audit, notification one by one | works through a stale list beside the requests; one failure ends the run |
| audit log (`db/migrations/0001_audit_hardening.sql`, `domain/audit/*`) | `audit_log`, an id sequence, an advisory lock | INSERT with a chaining trigger; two verifiers (SQL and TypeScript) | ids are drawn before the lock is taken; sessions are lost |
| entry edits and corrections (`domain/time/edit.ts`, `routes/entries.ts`, `routes/corrections.ts`) | `time_entries`, `breaks`, `corrections` | self edit, manager edit, break edit, request, approve, reject | decided on a row read earlier; approval is edit, then status, then audit |
| pay periods (`domain/payperiod/*`, `routes/manager.ts`) | `pay_periods` | materialize, lock, unlock, guard | count-then-lock; the guard asks one period of the two an edit can touch; tiling across a change of the clocks |
| pay (`domain/pay/pay.ts`, `routes/pay.ts`) | paid marks and amounts on entries, `bonuses` | mark and unmark batches; grant, pay, void a bonus | check, then update by id; a batch can stop half-way |
| leave (`routes/leave.ts`, `domain/leave/accrual.ts`) | `leave_requests`, `leave_ledger`, accrual marks | request, approve, reject, adjust, accrue | check, then update by id; credit and mark are separate commits; shifts end behind the mark |
| payroll rules (`domain/overtime`, `rounding`, `compliance`, `roster`, `holidays`, timesheet, insights) | none | pure functions | boundaries, double counting |
| settings and administration (`domain/settings.ts`, `routes/admin.ts`, `routes/roster.ts`, `integrations/ha/install.ts`) | a settings row behind an in-process cache; employees, jobs, rosters, devices; files Home Assistant reads | get and update settings, insert and change rows, write files and reload | a slow read can fill the cache after an update dropped it; read, merge, write; background refreshes |
| login (`routes/auth.ts`, `server/auth/*`) | sessions, devices, failed-attempt counters, cookies | PIN login, silent sign-in, logout, first claim | counters read and written around awaits; answers that arrive after the next request was sent |
| presence reminders (`integrations/ha/presence.ts`) | what each employee was last seen as, in memory | sweep: states, who is clocked in, decide, notify | sweeps overlap; nothing survives a restart |
| state push and card (`integrations/ha/state-push.ts`, `summary.ts`, `routes/ext.ts`, `public/timeclock-card.js`) | a timer; sensors in Home Assistant | push after a punch and every five minutes; punch from the card | pushes overlap and can arrive out of order |
| offline queue (`lib/offline-queue.ts`, kiosk clock page) | a list in `localStorage` | enqueue, flush | flush awaits between reading and rewriting the list; lost answers |
| pages (`app/**`, `lib/query-client.ts`) | the browser's query cache | read, poll, change, guess, invalidate | answers overtake one another; each button names what is read again |
| antifraud, notifications, reports, backup, migrations, locales, demo, packaging | rows, files | I/O and formatting | mostly not: single statements |

They interact through the shared tables; through direct calls (a route calls
`applyEntryEdit`, which calls the period guard; every write is followed by
`appendAudit`; the sweep calls `notify`; a punch calls `schedulePush`; a change of
an employee refreshes the Home Assistant files); through the trigger, which chains
each audit row; and through the kiosk, which replays queued punches to the punch
clock. What makes each component correct is stated in the properties below.
`PROJECT.json` lists every component, and every hazard with its line.

## Modules

| module | models | correspondence |
|---|---|---|
| `HashChain` | `hashchain.ts` | symbolic digests: `Hash(prev, payload)` is a record, so equal digests mean equal inputs; `BrokenIndex` is `verifyChain` |
| `AuditLog` | the trigger and `verify_audit_chain` | an INSERT is `DrawId` (bigserial default), `TakeLock`, `ReadTip`, `Commit`; `Rollback` is a session lost at any of these points, leaving a gap in the ids; READ COMMITTED makes `ReadTip` see what was committed before it |
| `AuditChain` | what an audit log promises | a sequence that grows at its end by rows linked to the one before |
| `PunchClock` | `clock.ts`, `breaks.ts`, `auto-clockout.ts` | `pc[r]`/`loc[r]` are a request's next statement and locals, `sweep` the job's; `entryTrail` and `breakTrail` are the audit rows per entity |
| `EntryEdits` | `edit.ts`, `edit-window.ts`, `guard.ts`; entry, break, correction and lock routes; `markPaid` on one entry | same shape; `overlap` says whether requests may be in progress at once |
| `PunchClockProperties`, `EntryEditsProperties` | | what has to hold of the two |
| `OfflineQueue` | `offline-queue.ts` and the clock page's use of it | `stored` is the list in `localStorage`, `flush[f]` a `flushQueue()` call with the copy of the list it read, `tap` the page's own request; the punch clock is reduced to who is clocked in |
| `KioskLogin` | `auth.ts`, `server/auth/*`, `pin-rate-limit.ts` | a request carries the cookies it was sent with; its answer sets them when it arrives; `issued` are the sessions, `wrong` when wrong PINs were found out |
| `Administration` | `settings.ts`, `admin.ts`, `roster.ts`, `install.ts` | `doc` is the settings row, `cache` the copy in the process; `cards` are rows of employees, jobs, rosters, devices; `trail` the audit rows, with the columns the code puts in them (`Tells`); `files` what was written for Home Assistant, `loaded` what it has read |
| `Reminders` | `presence.ts` | `poll[p]` is a sweep with what it read, `memory` the map the sweeps share; `run` is history for the property |
| `Sensors` | `state-push.ts`, `summary.ts`, `ext.ts`, the card | `push[p]` is a push with its snapshot; a snapshot is a version number per employee; `busy` are the card's buttons |
| `WebPages` | the pages, their queries and buttons, `query-client.ts` | `PageOf` lists what a page shows and its buttons; `cache`, `fetch` and `work` are TanStack Query's data, requests and mutations |
| `ShiftRows` | the shifts and employees that leave and pay read, and what the rest of the program does to them | `EndShift`, `EditShift`, `ChangeEmployee` stand for whole handlers elsewhere; `Arrive`, `FailOver` are the frame of every request |
| `LeaveLedger` | `routes/leave.ts`, `accrual.ts` | `ledger` is a bag of rows whose sum is the balance, in hundredths of an hour; what the handlers compute or are asked for is in thousandths, which stand for any number, and is rounded where a row is stored (`Stored`). A credit names the shifts it is for, which the table does not |
| `PayMarks` | `pay.ts`, `routes/pay.ts` | `batch[r]` holds the rows a batch read; the loop of `markPaid` is `MarkShift`, `AuditShift`, `MarkBonus`, `AuditBonus` |
| `PayPeriods` | `periods.ts`, the time helpers it steps with | hours of UTC and a wall clock that is set once; rows appear when a page is opened |
| `PayRules`, `Holidays`, `Insights` | rounding, worked minutes, overtime, breaks, roster comparison, `buildTimesheet`; `nz-public-holidays.ts`, `provider.ts`; the dashboard's statistics | operators; instants count in ticks, of which a minute has `Minute` (60 000 in the code) |
| `Timesheets` | | the rules asked one enumerated question at a time, and what the answers are held against |
| `Background` | composes `AuditLog`, `Sensors`, `WebPages` | `side` is what a behaviour is about |
| `Terminals` | composes `OfflineQueue`, `KioskLogin`, `Administration`, `Reminders` | `at` is where a behaviour takes place |
| `Records` | composes `LeaveLedger`, `PayMarks` (over the same `ShiftRows`), `PayPeriods`, `Timesheets`, and states the properties of the first two | `desk` is what a behaviour's requests are about |
| `MCPunchClock`, `MCEntryEdits`, `MCTerminals`, `MCRecords` | | instances for TLC |
| `AuditLogProofs`, `PunchClockProofs`, `PunchStoryProofs`, `EntryEditsProofs`, `RecordsProofs`, `TerminalsProofs`, `WebPagesProofs` | | theorems and proofs; `TerminalsProofs` holds those of `OfflineQueue`, `Administration`, `Reminders` and `KioskLogin` |
| `Sums` | | lemmas about totals of finitely many numbers, which the proofs about minutes need |

`Background` and `Terminals` put machines side by side that share no state, so
one run can ask about each of them: a behaviour picks one and the others stand
still. `ShiftRows`, the entry table that `EntryEdits` marks paid, and the audit
rows that every handler writes are the compositions through state.

Definitions headed "Mutation:" are deliberate mistakes; each property is known to
catch one of them. `PROJECT.json` pairs them, and maps every modelling definition
to its source lines.

Abstractions. Digests are symbolic, so `canonicalize` does nothing but keep
payloads apart; a PIN is right or wrong. Time is counted in a coarse unit (the
re-punch cooldown in `PunchClock`, a unit in which days and periods are whole in
`EntryEdits`, ticks of a part of a minute in the rules, hours in the tiling). Names, notes, jobs,
locations, photos and bonus amounts are left out; minutes, rates, pay, accrued
leave, overtime and rounding are computed as the code does. The antifraud checks
are a choice among refusal, acceptance and acceptance with a flag. In the request
models settings do not change within a behaviour; `Administration` is where they
do. What a sensor or a table shows is the set or number of the changes it
reflects. The order of the global audit log is left to `AuditLog`; the other
modules keep the rows of each entity in order.

## Runs

| run | what it checks | bounds |
|---|---|---|
| `audit_log` | Log: each row is chained to the newest one (`LinkedToNewest`); both verifiers report a break exactly when a row was committed after a higher id (`VerifierExact`), and any altered row (`TamperEvident`); while ids commit in order the table is the abstract chain (`ImplementsChain`); every INSERT ends (`InsertEnds`). Sensors: pushes catch up with the tables for good and the card's buttons come back (`SensorsCatchUp`). Pages: changes made on a page show on it (`OwnChangesShow`), polled lists catch up (`PollingPagesCatchUp`) | log: 3 sessions, 4 ids, 2 payloads. Sensors: 2 employees, 2 pushes, 1 change, 1 loss. Pages: 2 changes, 1 page opened, 1 fault, roles nobody, employee and administrator |
| `audit_log_fork` (violation) | Can the chain fork? | 2 sessions, 3 ids |
| `punch` | One device of an employee beside the sweep, a failure anywhere: one open entry and break (`OneOpenPunch`), overlaps are flagged, long shifts have their meal break, the trail tells the entry, no break outlives its shift, ends of shifts stay, overdue entries close | 3 requests, 4 time units, 1 failure |
| `punch_races` | Two devices of one employee and the sweep: every clock-out shown is on record (`EntriesOnRecord`) | 3 requests, 4 time units |
| `punch_double_in` (violation) | Can an employee be clocked in twice? | 2 requests |
| `punch_switch_no_meal` (violation) | Is every long shift deducted? | 2 requests |
| `edits` | Edits of entries and breaks, reviews, locks, paid marks: one at a time with the clock running, or two at once | 3 requests, 1 failure, 1 correction, 2 periods |
| `edits_moved_in` (violation) | Is a locked period immutable? | 3 requests, no overlap needed |
| `records` | Leave is deducted once, a shift credited once, the log adds up to the balance; paid amounts are right, kept and on record, a voided bonus is unpaid; pay periods tile time (`PeriodsTile`); the payroll rules are exact (`PayRulesExact`) | leave and pay: 1 employee, 2 shifts (3 or 240 minutes), 2 leave requests, 1 bonus; 4 requests one at a time or 3 overlapping, 2 changes elsewhere, 1 failure. Periods: 2 visits at once, 1200 hours, 1 change of the type. Rules: the questions of `MCRecords` |
| `periods_apart` (violation) | Do two pay periods ever overlap? | 1 visit at a time, no change of settings, one change of the clocks |
| `offline` | Queue: the saved list is a queue (`KeepsQueue`), a lost answer counts nobody's punch twice (`NoPunchTwice`), a flush empties it (`FlushDrains`). Login: the lock-out holds, the first boot happens once, who signed out stays so (`LoginHolds`). Office: what is set is what counts, and when (`SettingsTakeEffect`), and is on record (`AdminOnRecord`). Phone: reminders are right (`RemindersRight`) | queue: 2 employees, 2 punches, 2 changes of session, 1 server error, any number of drops and reloads, until flushes cross. Login: 2 browsers, 2 requests at once, 4 in all, a limit of 2 failures. Office: 2 requests at once, 3 in all, 3 rows (an employee there from the start, one yet to be made, a rostered shift), 1 failure. Phone: 1 employee, 2 sweeps at once, 3 minutes, 2 moves, 1 restart |
| `offline_lost` (violation) | Does every saved punch sync? | 1 employee, 2 punches |

Why these bounds are enough for the cases meant. The audit fork needs two sessions
out of order and a third row; four ids leave room for a gap before and after it. A
race at the clock needs the punch that opens the shift and two that meet on it,
hence three requests; a shift of three units is past both the deduction threshold
and the sweep's limit, and leaves room for a break that is shorter or longer than
the standard one. A lock against a correction is request, lock, approve: three
requests over an entry that ended before. One failure at every point shows what a
failure leaves behind; what two do to different requests is the same twice. The
clock stands still while requests overlap, and nothing fails then, which keeps the
runs with interleaving inside reach; in `records` a behaviour's requests are all
about leave or all about pay: the two share only rows that neither writes for the
other. Four requests overdraw a balance (two requests, two approvals) or mark,
unmark and mark a shift again; a request and two approvals of it are the three
that overlap. The offline queue goes wrong with two punches, one in flight while
the other is saved, or one repeated after the other; a request the kiosk has given
up on is never handled later, and the kiosk is the only device its employees use.
In `offline` the queue's part of a behaviour ends when two flushes, or a flush and a
saving, have crossed: its properties exempt all that follows (`crossed`), and what
crossing does is the question of `offline_lost`, which goes on.

A push that overtakes another needs two pushes and one change between their
snapshots. A page's answer that overtakes another needs two changes of one table;
queries of different tables do not meet, so a behaviour has one `topic` and starts
on a page that has to do with it (`Concerns`); `MayMove` allows one page to be
opened, none when the topic is the entries, which most pages show. The lock-out
needs as many wrong PINs as the limit allows and the attempts under way with the
last. A stale settings cache needs a read that began before an update, the update,
and the time the cache lasts. A reminder needs a reading, one that differs, and the
grace; two sweeps may then both find it due. The tiling needs months on both sides
of the change of the clocks, in steps that do not divide a day. The rules are
asked at and one off each of their thresholds, with shifts over midnight into a new
week, a job switch, an open shift, and cuts of a fortnight at, before and after the
week's end; the calendar is asked for each year from 2020 to 2045 and its Easter
compared with the tabulated full moons. A minute has four ticks, so that instants fall on it, just before and after it, and half-way;
the hours asked for and the adjustments have a third decimal, which the ledger rounds.

`CHECK_DEADLOCK FALSE` everywhere: ids, requests and the clock are bounded, so
every behaviour ends.

What holds of the properties with overlapping requests is part of their
statement: `EntryEdits` and `Records` say it with `~overlap`, `Administration` with
`~meet`, `OfflineQueue` with `crossed` and `overtaken`, `KioskLogin` with `met`.
`OneOpenPunch` and its companions run with `OneDevice`: the kiosk's clock page
disables its buttons until the answer is in, so one device makes one request at a
time. `EntriesOnRecord`, `ApprovedWasApplied`, `BalanceOnRecord`, the first parts
of `PaidOnRecord` and `AdminOnRecord`, `PinLockout`, `RemindersRight`,
`OwnChangesShow` and the second part of `SettingsFresh` need no such condition.

### Fairness

`PunchClock` and `EntryEdits` assume weak fairness of each request's handler (an
awaited statement ends, with a result or a throw) and of the sweep (the scheduler
runs it every 15 minutes). Nothing is assumed of arrivals, of the clock or of
failures. `AuditLog` assumes weak fairness of each session's trigger and commit,
and strong fairness of taking the lock, since PostgreSQL queues waiters for an
advisory lock. `Sensors` assumes that cron keeps starting pushes, that a push that
is running takes its next step (Node's `fetch` answers, or throws after its default
timeouts), and that the card's own timer runs out. `WebPages` assumes that the query a page polls goes
on: its interval comes, the server reads, the answer or its failure arrives.
Failures are bounded, so neither says that a failing Home Assistant catches up.

### Departures from what is documented

The violation runs:

- `audit_log_fork`: ids are drawn before the advisory lock, so rows can commit
  out of id order; the next row then shares a predecessor with another, and
  `verify_audit_chain` reports a break although nothing was tampered with.
- `punch_double_in`: two clock-ins in progress at once both find no open entry.
- `punch_switch_no_meal`: a shift ended by a job switch has no meal deduction.
- `edits_moved_in`: an edit may move an entry from an open period into a locked
  one; the guard asks only the period the entry is in.
- `offline_lost`: a flush writes back the list it read before its awaits, and
  overwrites a punch saved meanwhile.
- `periods_apart`: the tiling steps by days of 24 hours; across a change of the
  clocks the cursor is an hour off midnight and falls on the day before, so the
  period looked up next overlaps the row that was stored before it.

Further ones, found while modelling; where a property is named, taking out the
condition named in its definition shows it.

Punches and edits:

- The sweep's UPDATE does not ask whether the entry is still open, so a clock-out
  made after the sweep's SELECT is overwritten; nor does the clock-out's own, which
  overwrites the sweep's (`EndOfShiftKept` says that there are no other cases). A
  break started between the sweep's two statements, or just after them, is left
  running on a closed entry (`NoBreakOutlivesShift` says that it starts no earlier
  than the shift ended).
- A failure between a statement and its audit row leaves a punch or an edit that
  the log does not have (`cutShort` in the trail properties).
- With overlap: a period locked after the guard was asked does not stop the edit
  (`LockedEntriesKept`); an entry reopened after the count is locked open
  (`NothingOpenIsLocked`); two reviews both decide one correction
  (`ReviewedOnce`); a self-edit that read the entry unpaid is written after it was
  paid (`PaidIsSettled`); two edits, each valid against the row it read, end a
  shift before it starts, and the trail's old values are those that were read,
  not those that were overwritten (`TrailReconstructs`).
- Breaks are held inside the shift when the break is edited, not when the shift is.

Leave and pay:

- Two accrual runs at once, or one that fails between the ledger row and the
  mark, credit the same shifts twice, though the comment says the run is idempotent.
  A shift stored with an end behind the mark (a replayed clock-out, an edit, or the
  sweep at Monday 03:00, when the accrual runs too) is never credited; an edit that
  moves an end past the mark credits the shift again (`CreditedOnce` exempts `late`
  and edited shifts and failed runs). Approval does not ask the balance
  (`ApprovedWithinBalance` exempts what was drawn on since: `stale`). Two reviews at
  once deduct twice, or deduct a rejected request (`LeaveSettled`).
- An adjustment is stored with two decimals and audited as it was sent: 0.125 hours are
  0.13 in the ledger and 0.125 in the log (`BalanceOnRecord` rounds what the log says).
- A batch refused at one entry has marked those before it; the answer does not
  say so. With overlap a shift is marked twice, and a bonus both paid and voided.

Payroll rules:

- Minutes are overtime twice when the second daily threshold is below the first,
  which the settings allow (`Sane`). Weekly overtime is lost when the cut of the
  periods falls inside a week. Public holidays that move as a pair (1 and 2
  January, Christmas) fall on one date when the first is a Sunday.
- With the default increment of one minute punches keep their seconds and the minutes of
  each entry are rounded on their own: a job switch at 30 s makes 1 + 1 minutes of one
  (`RoundingFair` allows a minute).
- A public holiday counts as an otherwise working day from two of the last four same
  weekdays on (`timesheet.ts`), where the comment in `stat-pay.ts` says three; and only the period's own entries are
  looked at for it, so that a period of a fortnight holds one such weekday at most.
- A pay period has a row only if somebody looked while it ran; a change of type
  leaves holes or overlaps.

Settings, login, Home Assistant:

- Audit rows do not tell all of a change. Updating an employee audits neither
  `notifyService` nor `presenceEntity`; creating one leaves out `haUsername`,
  `notifyService`, `presenceEntity` and `accessEntities`; a PIN is told as `hadPin`
  only; a rostered shift is created with a job and a note that its row omits.
  `AdminOnRecord` is about the columns that are told (`Tells`), column by column, and
  names the others (`Untold`).
- A cache filled by a read that began before an update answers the old settings for
  as long as the cache lasts (`SettingsFresh` bounds it). Two updates that meet lose
  one setting. A reload that fails is not tried again while the file stays the same,
  and refreshes that overlap can write the older key (`IntegrationCurrent`).
- A silent sign-in under way during a sign-out brings the session back; the first
  claim does not ask for the sign-out cookie at all (`SignedOutStays` exempts both).
  The lock-out admits the attempts in progress when the limit was reached
  (`PinLockout` counts them).
- A reminder that could not be sent is not sent again; a restart forgets the first
  reading, and with it the next reminder.
- Edits, reviews and the sweep schedule no push, and no hourly push carries the
  history, though the header of `state-push.ts` says so: the history waits for the
  next punch. Sensors of an employee who left stay; equal slugs share one sensor.

Kiosk and pages:

- Saved punches carry no employee and are sent with the session of the moment: the
  next employee who signs in can be given them. An answer of 401 (nobody signed in
  when the page mounts) or 5xx drops them. A direct tap overtakes saved ones, and
  flushes that cross send a punch again after its successor: both can open a
  shift nobody ends (`crossed`, `overtaken`).
- A new API key has the integration read again and not the settings document, which
  holds it too; saving the raw document then puts the old key back. Saving the
  settings does not have the locale read again, though a comment says so (`LeftOld`).
- A lost answer leaves a list as it was until it is next read. Query keys name no
  employee: the next one who signs in can be shown entries up to ten seconds old.
- Posting the breaks of an edit one by one, a retry after one was refused posts those
  before it again.

## Proofs

For all values of the constants, checked by TLAPS. The theorems are about the `Spec`
of the module they are named for (`AdminSpec`, `RemindersSpec`, `LoginSpec`, ...);
where a run composes it with others (`Background`, `Terminals`), its part of the run
is that specification and the rest stands still.

- `AuditLogProofs`: `TypeCorrect` and `Invariance` of `IInv`, from which follow
  `ChainedToNewest` (`LinkedToNewest`) and `VerifierIsExact` (`VerifierExact`).
  `IInv` says that at most one session is past the lock, that the ids drawn are
  fresh and distinct, that the tip a session read is still the tip until it
  commits, that hashes are unique, and that every row carries the link and digest
  it was sealed with. Without the second and third the step `Commit` could not be
  shown to chain to the newest row. The exactness of the verifier is
  `OrderedVerifies` (rows committed in id order verify) and `VerifiedIsOrdered`
  (the converse: the row below a late commit was chained past it).
  `TamperingIsEvident`: the k-th id in ascending order is the one with k - 1 ids below
  it (`IdsRanked`), so the row that SQL walks over k-th is the k-th of the chronicle and
  both walks stop at the same one; a changed payload changes the digest, and the row
  after a removed one links to a hash that, hashes being unique, is not its
  predecessor's.
  `LogImplementsChain`: every step of the log is a step of `AuditChain` or a
  stutter: a commit in order appends to the rows in commit order, and one out of
  order leaves what the refinement shows as it is.
- `PunchClockProofs`: `PunchInvariant` and `OneOpenPunchAlways`. Under
  `OneRequestEach` (no employee has two requests in progress) an employee has at
  most one open entry, and an entry at most one running break, whatever the sweep
  does and wherever handlers fail. `OneOpenPunch` alone is not inductive:
  `PunchInv` adds what each request knows at each of its statements. A request
  about to insert an entry knows that none is open, one about to start a break
  that none is running, one that works on an entry that no other is open; the
  sweep only ever closes (`Shrink`), which keeps all of these.
  `NoBreakEverOutlives` and `EndOfShiftStands`, under the same assumption:
  `ShiftInv` adds that the entry in hand is running, or was written by the sweep,
  and that no break of it is left by the time a handler closes it. `HandInv` adds
  that a handler still at work on an entry has put no end of it on record
  (`EndWritten`), and that what the sweep has yet to close it has not closed before
  (`SweepFresh`); `LateBreaksInv`, that no shift ends ahead of the clock and that a
  break running on the entry the sweep is about to close started since the sweep read
  the clock (`SweepClock`), which is the end it writes.
  `OverlapsAlwaysFlagged`, likewise: `OverlapInv` adds that of two entries that are
  neither flagged as replayed nor written by the sweep one ends before the other begins (`Apart`),
  that such entries have not ended later than now, and that the instant a request
  holds is not ahead of the clock and, unless it was replayed, behind the end of
  every such entry of its employee: the new one then begins after them all.
  `EntriesAlwaysOnRecord`, with any number of requests of an employee: `RecordInv`
  accounts for every entry and every clock-out: it is on record, or in the hands of
  somebody still on the way to the audit statement, or was cut short. A clock-out
  that is overwritten takes its account with it.
- `PunchStoryProofs`: `PunchTypes`, with any number of requests of an employee.
  `TypeInv` adds to the types what each request has read of them by its statement, and
  that the requests which have yet to insert an entry, with the entries there are, are
  not more than the requests made. `TrailAlwaysTells` and `MealBreakAlwaysSettled`,
  under `OneRequestEach`: `StoryInv` says of every entry that neither the sweep nor a
  failure got hold of how far its employee's one handler has come with it. Before the
  entry's first audit row there is none; between writing the end and recording it, the
  minutes to be recorded are in the handler's locals and agree with the breaks; after
  that they are in the trail. A deduction that is decided but not inserted is the
  difference between the breaks there are and those the minutes were counted from.
  That one more break adds its minutes, and that breaks of other entries add none, is
  where `Sums` comes in: the sum of a finite set of numbers is defined by taking an
  arbitrary one of them first, and the lemmas show that any may be first.
- `EntryEditsProofs`: `EditTypes` and `ApprovedAlwaysApplied` with any overlap;
  `LocksHold`, `PaidStaysSettled` and `LockedHaveEnded` for requests that do not
  overlap. `EditInv` keeps, for each stage, which row a handler works on, and, when
  it is alone, that what it read is still so (`FreshOK`): the reason why the guards
  asked at the start hold at the UPDATE. `EditTypes` rests on it, since that a break
  written has a start and that a correction decided exists come from the guards.
  `TrailAlwaysReconstructs` and `CorrectionsReviewedOnce`: `SoloInv` tells the story
  of the tables by their trails. Between two requests the trails say what the tables
  say (`RestStory`); while a handler works they differ in just what it has written
  and not yet recorded, which its locals hold (one case for each stage); what a
  handler that failed leaves unrecorded is in `cutShort`. The rows of a trail keep
  their shape, and each edit begins where the edit before it ended.
- `TerminalsProofs`, `OfflineQueue`: `QueueIsKept`, `NoPunchMadeTwice` and `FlushEmptiesList`.
  `QueueInv`: while nothing crosses, the one flush that runs works on the very list
  that is stored; a punch that was made before is at its head, and its employee is
  in the state it led to, which it does not fit again.
- `RecordsProofs`, pay: `PayTypesKept` and `PaidAlwaysOnRecord` (its first part with any
  overlap), `VoidedStayUnpaid` and `AmountsAreKept` for one request at a time.
  `PayInv` says of a paid shift that its amount is on record or its audit row is the
  next statement of the request that marked it, of a shift's log that it ends with
  its mark or that the row is on its way, and of a batch alone that the rows it read
  are still so. Behaviours about anything else leave pay untouched (`PayDeskInv`).
- `RecordsProofs`, leave: `BalanceAlwaysOnRecord` with any overlap, `LeaveAlwaysSettled`,
  `ShiftsCreditedOnce` and `ApprovalsWithinBalance` for one request at a time.
  `LeaveInv` has two halves. With any overlap and no failure, a balance is what the
  audit log says plus what is due (`BalanceFits`): the rows that requests have inserted
  and have yet to audit, summed over the requests. With one request at a time, a leave's
  deductions and audit rows are those of its status, or the request that decided it is on
  the way to them (`LeaveFits`); the balance is at least the hours of a pending leave, and
  of one about to be deducted, until a row that draws from it makes the leave stale
  (`Covered`); and a shift has one credit or none, depending on the mark, or on where a
  run that has inserted its credit is about to move the mark (`CreditFits`). The run's
  shifts are exactly those between the two, since what it read is still so (`StillSo`).
  Balances and credits are sums over a bag: that one row more adds its hours to one
  balance, and itself to the credits of the shifts it names, is proved from `Sums`
  (`InsertEffect`), as is that a step of one request changes what is due by its own part.
- `RecordsProofs`, pay periods: `PeriodsAlwaysTile`, for any anchor, hours and visits.
  `PeriodsInv`: until the clocks are set or the type is changed, every row and every
  row about to be inserted is a whole number of periods from the anchor (`Window`).
  What is worked out for an hour is such a period (`WindowFound`): the cursor is at
  midnight already and within its period, so stepping back and stepping forward both
  stay where they are. That the stepping is a function at all, though nothing bounds
  its steps, is `TailRecursion`. The hour more by which the next period is looked for
  finds the right day even when the clocks are set in between (`StepToNext`).
- `RecordsProofs`, payroll rules: `RulesAlwaysExact` states `PayRulesExact` for every
  question of a kind, not for the enumerated ones. Break entitlements and the roster
  are cases. Rounding to an increment of more than a minute gives whole minutes, whose
  differences add up; with the increment of one, two parts rounded on their own differ
  from the whole by less than two minutes, and so by one at most (`RoundingIsFair`). For overtime, `Reassigned` says what each day gives up, from the
  last to the first; what a day hands on is what it cannot hold (`WeekCarries`), so a
  day gives only if those after it have given all.
  The timesheet is a sum over its days by weeks (`TotalByWeeks`), and a week is paid
  as overtime pays one; cut at a midnight, the days before and after it make two
  timesheets (`DaysCut`), whose weeks are those of the whole unless the cut is inside
  one: each part of that week then has the weekly threshold to itself, and overtime can
  only be lost (`OrdinaryCut`). A day in lieu of the part is one of the whole, whose entries
  include the part's (`HistoryGrows`, `PartOfLieu`).
  The dashboard adds the same minutes by employee, by day and employee, and by hour,
  and a sum can be taken by groups (`TotalByGroups`). For the heat map, the ticks on
  site are counted twice, by shift (`TimeByTicks`) and by the piece that they fall
  into (`TimeByPieces`); a piece stays within an hour (`SameHour`), and the loop that
  cuts a span, a recursive function on instants, gives the pieces between the ends of
  the hours (`SpanIsCut`).
  For the calendar, the computus is taken apart by golden number: the date is that of
  the table's full moon plus one to seven days (`MoonIs`) and the weekday cancels out
  to Sunday (`EasterOnSunday`). The year's dates are in order (`DatesInOrder`), so no two
  are one, for the years of the table, 1900 to 2199.
- `TerminalsProofs`, `Administration`: `AdminInvariant`, from which follow
  `SettingsAlwaysTakeEffect` and `AdminAlwaysOnRecord`. The invariant has two
  halves. The one that holds with any overlap bounds the age of a read in progress
  (`ReadsAge`: so what a read that began before an update puts into the cache is
  dated at most `QueryTime` after it) and finds what audit rows tell of each row on
  record or in the hands of a request at its audit statement, unless one was cut short
  there (`Recorded`; what no row tells is as it was made).
  The other holds until two requests meet: at most one works (`AdminAlone`), each audit
  row starts from what the one before it told of the same column (`Followed`), the cache
  is the document or is about to be dropped, and the files follow the rows and the key,
  or the request that changed them has yet to write or reload them.
- `TerminalsProofs`, `Reminders`: `MemoryMatchesRun` and `RemindersAreRight`. The map the sweeps
  share is determined by the history `run`: the reading last accepted, the one that
  waits to be, and since when. A sweep about to send holds the run that made it do so,
  which lasted the grace and was not asked about before.
- `TerminalsProofs`, `KioskLogin`: `LoginInvariant` and `LoginAlwaysHolds`. `LockInv`: each wrong
  PIN but the last few that are counted is followed, within the limit, by one that
  closed the lock; while the lock is closed, those found wrong since and those under
  check together stay below the requests in progress when it closed. `SsoInv`: a
  browser none of whose requests have met has at most one, and it knows whether the
  sign-out cookie is set. `ClaimedOnce` ties the count of claims to the
  links made and to the requests on the way to making one, `DevicesBounded` the
  devices to those that are registering.
- `WebPagesProofs`: `CacheKept` and `OwnChangesAlwaysShow`. `ButtonsCover` goes through
  the pages: whatever one shows of a table, to whomever, each of its buttons that
  changes the table has read again, but for what `LeftOld` names. `PagesInv` then
  follows an answer: a query has every change that is owed to it, or is marked old, or
  shows a guess that is still to be answered, and so has what a request in progress has
  read, since invalidating has asked it anew. A guess unmarks what it is drawn into and
  may be taken back to a wrong one before it: that it settles, and marks it again, is
  needed here.

Assumptions: the named ASSUMEs of the modules (settings and bounds are natural
numbers, a shift has an owner and a request an employee, the staff, shifts, leave
requests and requests in progress are finite, the clocks are set by an hour at most and
not at midnight, a question's settings are of the schema, its entries as the database has
them, its timesheet's ends midnights and its year one of the table, a minute has a positive
number of ticks, and what stands for
"nobody" or "no row" is no id, nor the settings or the installation a row) and `OneRequestEach`, which the
theorems that need it state.

Only model-checked, being out of the prover's reach: liveness (`InsertEnds`,
`OverdueCloses`, `SensorsCatchUp`, `PollingPagesCatchUp`). `PunchInv` is not
evaluated by TLC because it quantifies over the range of break starts; its parts are
what the runs check.

## Not modelled

- Reports and payroll exports: read-only formatting of timesheets.
- Database backup, add-on packaging and the ingress proxy: processes, files and
  request forwarding.
- Locale data and translations: tables of strings.
- The demo backend: an imitation of the API in the browser for a static
  demonstration; nothing in the product runs it.

Partly modelled: the antifraud checks by their outcome, since distances, address
ranges and image bytes are data no property looks at; notifications by whether
they are awaited and can fail; roles by the handlers behind them; the schema by
the tables, not the migrations; the scheduler by what it starts; Home Assistant's
automation file, which is the same bytes until the add-on is updated, and avatars,
which are read through; the external API without the session it makes for one
request and revokes behind it; the pages without what is typed into their forms.
