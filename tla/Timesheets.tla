------------------------------ MODULE Timesheets ------------------------------
(***************************************************************************)
(* The payroll rules asked one question at a time: the questions are data  *)
(* of a bounded size, and the answers are held against what the rules are  *)
(* for rather than against the way they are computed.                      *)
(***************************************************************************)
EXTENDS Insights, Holidays

CONSTANT Questions   \* bound: the inputs the rules are tried on, by kind

VARIABLE sheet       \* the question of this behaviour

\* Rules of the settings schema, and entries as the database has them.
RoundingRules == [increment : {1, 5, 10, 15}, mode : {"nearest", "up", "down"}]
OvertimeRules(rules) ==
  rules.daily \in Nat /\ rules.weekly \in Nat /\ rules.daily2 \in Nat \cup {Off}
PayRulesSet(rules) ==
  OvertimeRules(rules) /\ rules.rounding \in RoundingRules /\ rules.holidayTimes \in Int
EntriesToPay(entries) ==
  /\ IsFiniteSet(entries)
  /\ \A e \in entries : /\ {e.in, e.out} \subseteq Int /\ IsFiniteSet(e.breaks)
                        /\ \A b \in e.breaks : {b.start, b.end} \subseteq Int

\* Times are what they stand for, a timesheet's are midnights, and the year is one of the
\* table.
ASSUME QuestionsAssumption ==
  \A q \in Questions :
    /\ q.kind = "rounding" =>
         /\ q.rule \in RoundingRules
         /\ {q.in, q.switch, q.out} \subseteq Int /\ q.in <= q.switch /\ q.switch <= q.out
    /\ q.kind = "overtime" => OvertimeRules(q.rules) /\ q.worked \in [WeekDays -> Nat]
    /\ q.kind = "breaks" =>
         /\ q.worked \in Int /\ q.longer \in Nat /\ IsFiniteSet(q.taken)
         /\ \A b \in q.taken : {b.start, b.end} \subseteq Int /\ (b.end # Open => b.start <= b.end)
    /\ q.kind = "roster" =>
         /\ {q.shift.start, q.shift.end, q.at} \subseteq Int /\ q.longer \in Nat
         /\ \A e \in q.punches : {e.in, e.out} \subseteq Int
    /\ q.kind = "timesheet" =>
         /\ EntriesToPay(q.entries) /\ PayRulesSet(q.rules)
         /\ {q.from, q.cut, q.to} \subseteq Int /\ \A t \in {q.from, q.cut, q.to} : t % Day = 0
         /\ q.from <= q.cut /\ q.cut <= q.to
    /\ q.kind = "dashboard" => EntriesToPay(q.entries) /\ q.at \in Int
    /\ q.kind = "calendar" => q.year \in TabledYears

NoQuestion == [kind |-> "none"]

SheetInit == sheet \in Questions \cup {NoQuestion}

Asked(kind) == sheet.kind = kind

\* Only second-level overtime that starts no earlier than the first does is free of
\* "double counting": the settings schema does not require it.
Sane(rules) == rules.daily2 = Off \/ rules.daily2 >= rules.daily

-----------------------------------------------------------------------------

\* Rounding moves a punch by less than an increment, and a job switch, which ends one entry and
\* starts the next at one instant, neither makes nor loses rounded time; with the default
\* increment, which leaves the seconds, the minutes of each entry are rounded instead, and a
\* switch makes or loses at most one.
RoundingFair ==
  LET rule == sheet.rule
      inc == rule.increment * Minute
      a == sheet.in  b == sheet.switch  c == sheet.out
      moved == RoundInstant(a, rule) - a
      parts == RoundedSpanMinutes(a, b, rule) + RoundedSpanMinutes(b, c, rule)
      whole == RoundedSpanMinutes(a, c, rule)
  IN /\ -inc < moved /\ moved < inc
     /\ rule.mode = "nearest" => 2 * moved <= inc /\ -2 * moved < inc
     /\ IF rule.increment = 1 THEN parts - whole \in -1..1 ELSE parts = whole

\* "No double counting: daily OT is carved out first; weekly OT applies to the remaining
\* ordinary minutes above the weekly threshold", and to the "latest hours worked".
OvertimeExact ==
  LET rules == sheet.rules
      paid == ComputeWeekOvertime(sheet.worked, rules)
      under == [d \in WeekDays |-> AtMost(sheet.worked[d], rules.daily)]
  IN /\ Sane(rules) => \A d \in WeekDays :
          paid[d].ordinary + paid[d].ot1 + paid[d].ot2 = sheet.worked[d]
     /\ SumOver(LAMBDA d : paid[d].ordinary, WeekDays)
          = AtMost(SumOver(LAMBDA d : under[d], WeekDays), rules.weekly)
     /\ \A d, e \in WeekDays : d < e /\ paid[d].ordinary < under[d] => paid[e].ordinary = 0
     /\ \A d \in WeekDays : paid[d].ot2 = DayOvertime(sheet.worked[d], rules).ot2

\* Longer work and fewer breaks never take a flag away.
EntitlementsGrow ==
  \A fewer \in SUBSET sheet.taken :
    BreakComplianceFlags(sheet.worked, sheet.taken)
      \subseteq BreakComplianceFlags(sheet.worked + sheet.longer, fewer)

\* Looked at later, a shift without a punch has gone on from upcoming to late to no-show
\* and not back, and one that was punched for keeps its verdict; a second punch never
\* changes it.
VerdictsLast ==
  LET Stage(c) == CHOOSE k \in 0..2 : c.status = <<"upcoming", "late", "no_show">>[k + 1]
      first == MatchFor(sheet.shift, sheet.punches)
      early == CompareShift(sheet.shift, sheet.punches, sheet.at)
      later == CompareShift(sheet.shift, sheet.punches, sheet.at + sheet.longer)
  IN IF first = {} THEN Stage(early) <= Stage(later)
     ELSE /\ early.status \in {"in_progress", later.status}
          /\ early = CompareShift(sheet.shift, first, sheet.at)
          /\ early.late = later.late

UsuallyWorked(day) ==
  \/ day \in sheet.rostered
  \/ Cardinality({w \in 1..4 : \E e \in sheet.entries : DayOfInstant(e.in) = day - 7 * w}) >= 2

\* A timesheet counts every minute once, on one day, as ordinary or as overtime; cut in two
\* at a Monday's midnight the parts add up to the whole, cut at any other they never find
\* more overtime; a day in lieu needs a day "rostered that date, else worked >= 2 of the last
\* 4 same weekdays", and a cut, which takes history from the part after it, never adds one.
CutAddsUp(whole, one, two) ==
  LET counted == UNION {whole.days[d].entries : d \in DOMAIN whole.days}
  IN /\ Sane(sheet.rules) => whole.ordinary + whole.ot1 + whole.ot2 = whole.worked
     /\ counted = EntriesOfPeriod(sheet.entries, [start |-> sheet.from, end |-> sheet.to])
     /\ one.worked + two.worked = whole.worked
     /\ one.extra + two.extra = whole.extra
     /\ IF DayOfInstant(sheet.cut) % 7 = 0
        THEN one.ordinary + two.ordinary = whole.ordinary
        ELSE one.ordinary + two.ordinary >= whole.ordinary
     /\ one.lieu \cup two.lieu \subseteq whole.lieu
     /\ \A day \in whole.lieu : day \in sheet.holidays /\ UsuallyWorked(day)

TimesheetAddsUp ==
  LET Built(from, to) == BuildTimesheet(sheet.entries, [start |-> from, end |-> to],
                                        sheet.rostered, sheet.holidays, sheet.rules)
  IN CutAddsUp(Built(sheet.from, sheet.to), Built(sheet.from, sheet.cut),
               Built(sheet.cut, sheet.to))

\* The ticks an entry of the slice is on site in an hour of a weekday, and the slice in all;
\* and the minutes of every day and worker.
StopOf(e, at) == IF e.out = Open THEN at ELSE e.out
WithinHour(t, day, h) == DayOfInstant(t) % 7 = day /\ (t % Day) \div Hour = h
TicksAt(e, at, day, h) == {t \in e.in .. StopOf(e, at) - 1 : WithinHour(t, day, h)}
OnSite(slice, at, day, h) == SumOver(LAMBDA e : Cardinality(TicksAt(e, at, day, h)), slice)
ByDay(daily) == SumOver(LAMBDA d : SumOver(LAMBDA w : daily[d][w], DOMAIN daily[d]), 0..13)

\* "every chart, table and calendar reads the same numbers": the tiles, the table and the
\* calendar add up to one another, and the heat map to the time between the punches,
\* tick by tick.
DashboardAgrees ==
  LET last == 14 * Day
      slice == InsightsSlice(sheet.entries, 0, last, sheet.rates, sheet.at)
      stats == WorkerStats(slice, sheet.starts)
      total == DashboardTotals(stats)
      daily == DailyMinutes(slice, 0..13)
      map == Heatmap(slice, sheet.at)
  IN /\ total.minutes = ByDay(daily)
     /\ total.shifts = Cardinality(slice)
     /\ \A day \in WeekDays, h \in 0..23 : map[day][h] = OnSite(slice, sheet.at, day, h)

\* The rules keep to what they are for, whatever the question.
PayRulesExact ==
  /\ Asked("rounding") => RoundingFair
  /\ Asked("overtime") => OvertimeExact
  /\ Asked("breaks") => EntitlementsGrow
  /\ Asked("roster") => VerdictsLast
  /\ Asked("timesheet") => TimesheetAddsUp
  /\ Asked("dashboard") => DashboardAgrees
  /\ Asked("calendar") => CalendarRight(sheet.year)
=============================================================================
