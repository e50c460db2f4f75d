------------------------ MODULE PunchClockProperties ------------------------
(***************************************************************************)
(* What the punch clock has to guarantee.  Each property names the         *)
(* conditions under which the code provides it: whether one employee can   *)
(* have two requests in progress (EmployeeOf is injective or not), and     *)
(* whether the auto-clockout sweep got hold of the entry: the sweep, and   *)
(* only it, leaves an entry "edited".                                      *)
(***************************************************************************)
EXTENDS PunchClock

Times == 0..MaxTime
EntryIds == DOMAIN entries
BreakIds == DOMAIN breaks
Closed(e) == entries[e].out # Null
Span(e) == entries[e].out - entries[e].in

\* A request of the entry's employee, or the sweep, is at work.
Busy(e) ==
  \/ \E r \in Requests : EmployeeOf[r] = entries[e].emp /\ pc[r] # "idle"
  \/ sweep.stage # "idle"

LastWord(e) == entryTrail[e][Len(entryTrail[e])]

EntryType == [emp : Employees, in : 1..MaxTime, out : Times, flags : SUBSET Flags,
              edited : BOOLEAN]
BreakType == [entry : 1..MaxRequests, start : Int, end : Times, paid : BOOLEAN, auto : BOOLEAN]
LocalsType == [kind : Kinds, queued : Times, at : Times, entry : 0..MaxRequests, in : Times,
               brk : Nat, next : 0..MaxRequests, unpaid : Nat, deduct : Nat,
               paid : BOOLEAN, flags : SUBSET Flags]
SweepType == [enabled : BOOLEAN, stage : {"idle", "next", "close", "audit", "notify"}, at : Times,
              left : SUBSET (1..MaxRequests), entry : 0..MaxRequests]

\* Type invariant.
TypeOK ==
  /\ now \in 1..MaxTime
  /\ entries \in Seq(EntryType)
  /\ breaks \in Seq(BreakType)
  /\ Len(entryTrail) = Len(entries)
  /\ Len(breakTrail) = Len(breaks)
  /\ pc \in [Requests -> Stages]
  /\ loc \in [Requests -> LocalsType]
  /\ sweep \in SweepType
  /\ requests \in 0..MaxRequests
  /\ failures \in 0..MaxFailures
  /\ cutShort \subseteq 1..MaxRequests

-----------------------------------------------------------------------------
(* With one request in progress per employee *)

\* The employee the kiosk shows as clocked in has exactly one open entry, with at
\* most one break running on it, across clock-outs, job switches, sweeps and
\* handlers cut short half-way.
OneOpenPunch ==
  /\ \A emp \in Employees : \A e, f \in OpenEntries(emp) : e = f
  /\ \A e \in EntryIds : \A b, c \in OpenBreaks(e) : b = c

\* No time is paid twice unnoticed: two entries of an employee overlap only if one
\* of them is marked for review, as replayed from an offline queue or as force-closed
\* by the sweep.
OverlapsFlagged ==
  LET End(e) == IF Closed(e) THEN entries[e].out ELSE now
      Overlap(e, f) == /\ e # f
                       /\ entries[e].emp = entries[f].emp
                       /\ entries[e].in < End(f) /\ entries[f].in < End(e)
  IN \A e, f \in EntryIds :
       Overlap(e, f) =>
         \E g \in {e, f} : "offline_queued" \in entries[g].flags \/ entries[g].edited

\* A shift ended by a clock-out alone has had its meal break: a shift longer than the
\* threshold carries at least the standard unpaid break, and one that was
\* topped up carries exactly that, whatever breaks were taken, paid or left
\* running, and whatever instant an offline clock-out is stamped with.
MealBreakSettled ==
  \A e \in EntryIds :
    /\ Closed(e) /\ ~Busy(e) /\ ~entries[e].edited /\ e \notin cutShort
    /\ LastWord(e).action = "clock_out"
    =>
      LET taken == UnpaidMinutes(e, entries[e].out) IN
      /\ Span(e) > DeductAfter => taken >= DeductMin
      /\ (\E b \in BreaksOf(e) : breaks[b].auto) => taken = DeductMin

\* The audit log's last word about an entry the sweep left alone is what the entry
\* says, in the clock-out as in the minutes worked, unless a failure cut its handler
\* short.
TrailTellsEntry ==
  \A e \in EntryIds :
    (~Busy(e) /\ ~entries[e].edited /\ e \notin cutShort) =>
      /\ entryTrail[e] # <<>>
      /\ LastWord(e).out = entries[e].out
      /\ LastWord(e).action = "clock_out" =>
           LastWord(e).worked = WorkedMinutes(entries[e].in, entries[e].out,
                                              UnpaidMinutes(e, entries[e].out))

\* The employee's own handler has put the entry's end on record.
EndWritten(e) ==
  \E k \in DOMAIN entryTrail[e] : entryTrail[e][k].action \in {"clock_out", "switch_job_close"}

\* A shift that has ended leaves no break running, with one exception: while the sweep ends
\* an entry, a break may start between its two updates, or just after them by a handler that
\* had found the entry open.  Such a break starts no earlier than the shift ended, so that
\* it takes nothing off the time worked.  The code says of it "Close any open break at the
\* same instant" (clock-out) and "Close any open break at the same moment" (sweep).
NoBreakOutlivesShift ==
  \A e \in EntryIds : Closed(e) =>
    \A b \in OpenBreaks(e) : entries[e].edited /\ breaks[b].start >= entries[e].out

\* The end of a shift moves only where the sweep and the employee meet: an end a handler wrote
\* is moved by the sweep alone, which marks the entry; an entry so marked is moved by no sweep
\* again, and by a handler only if no handler has its end on record yet.
EndOfShiftKept ==
  [][\A e \in EntryIds :
       Closed(e) /\ entries'[e].out # entries[e].out =>
         IF entries[e].edited THEN UNCHANGED sweep /\ ~EndWritten(e)
         ELSE entries'[e].edited]_vars

\* No two requests in progress are of the same employee.
OneRequestEach == \A r, s \in Requests : EmployeeOf[r] = EmployeeOf[s] => r = s

\* The inductive invariant behind OneOpenPunch: the shape of the tables ...
EntryRows == [emp : Employees, in : Nat, out : Nat, flags : SUBSET Flags, edited : BOOLEAN]
BreakRows(Starts) ==
  [entry : Nat, start : Starts, end : Nat, paid : BOOLEAN, auto : BOOLEAN]
TablesOK ==
  /\ now \in Nat \ {0}
  /\ entries \in Seq(EntryRows)
  /\ \E Starts : breaks \in Seq(BreakRows(Starts))

OneOpenEntry == \A emp \in Employees : \A e, f \in OpenEntries(emp) : e = f
OneOpenBreak == \A b, c \in BreakIds :
  breaks[b].end = Null /\ breaks[c].end = Null /\ breaks[b].entry = breaks[c].entry => b = c

LocalsOK(r) ==
  /\ DOMAIN loc[r] = DOMAIN NoWork
  /\ loc[r].kind \in Kinds
  /\ loc[r].queued \in Nat /\ loc[r].at \in Nat /\ loc[r].entry \in Nat
  /\ loc[r].paid \in BOOLEAN /\ loc[r].flags \in SUBSET Flags

\* ... and what each request knows: one about to open an entry, that its employee has
\* none open; one that works on an entry, that it has no other open; one about to
\* start a break, that none is running.
Opening == {"cooldown", "checks", "insertEntry", "insertNext"}
Stamped == {"endBreak", "auditBreakEnd", "deduct", "insertDeduct", "auditDeduct", "closeEntry"}
Working == Stamped \cup {"findBreak", "insertBreak"}

RequestOK(r) ==
  /\ pc[r] \in Stages
  /\ LocalsOK(r)
  /\ pc[r] \in Opening => OpenEntries(EmployeeOf[r]) = {}
  /\ pc[r] \in Working =>
       /\ loc[r].entry \in EntryIds
       /\ entries[loc[r].entry].emp = EmployeeOf[r]
       /\ OpenEntries(EmployeeOf[r]) \subseteq {loc[r].entry}
  /\ pc[r] \in Stamped => loc[r].at # Null
  /\ pc[r] = "findBreak" => loc[r].kind # "in"
  /\ pc[r] = "insertBreak" => OpenBreaks(loc[r].entry) = {}

SweepOK ==
  /\ DOMAIN sweep = DOMAIN SweepIdle
  /\ sweep.at \in Nat
  /\ sweep.stage # "idle" => sweep.at # Null

PunchInv ==
  /\ TablesOK
  /\ OneOpenEntry /\ OneOpenBreak
  /\ DOMAIN pc = Requests /\ DOMAIN loc = Requests
  /\ \A r \in Requests : RequestOK(r)
  /\ SweepOK

-----------------------------------------------------------------------------
(* With any number of requests in progress *)

\* However requests and sweeps race, every clock-out an entry shows is one that
\* somebody's audit row records, and every entry has the audit row of its opening,
\* unless a handler of that entry is still running or was cut short.
EntriesOnRecord ==
  \A e \in EntryIds :
    (~Busy(e) /\ e \notin cutShort) =>
      /\ Closed(e) => \E k \in DOMAIN entryTrail[e] : entryTrail[e][k].out = entries[e].out
      /\ \E k \in DOMAIN entryTrail[e] :
           entryTrail[e][k].action \in {"clock_in", "switch_job_open"}

\* While the sweep is on, an entry open past the safety limit is closed in the end, by its employee or by
\* a later sweep when one fails.
OverdueCloses ==
  \A e \in 1..MaxRequests :
    (e \in EntryIds /\ Overdue(e) /\ sweep.enabled) ~> (e \in EntryIds /\ Closed(e))

-----------------------------------------------------------------------------
(* What is said of the program *)

\* employee-guide.md: "If you work a long shift and never take a break, the system
\* deducts a standard meal break at clock-out" -- a shift is not exempt because
\* it ended with a job switch.
LongShiftDeducted ==
  \A e \in EntryIds :
    (Closed(e) /\ ~Busy(e) /\ ~entries[e].edited /\ Span(e) > DeductAfter) =>
      UnpaidMinutes(e, entries[e].out) >= DeductMin
=============================================================================
