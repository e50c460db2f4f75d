------------------------------- MODULE PayRules -------------------------------
(***************************************************************************)
(* The rules a payroll run is made of, as pure operators: rounding, worked *)
(* and overtime minutes, break entitlements, statutory days, the roster    *)
(* against the clock, and the timesheet of one employee for one period.    *)
(*                                                                         *)
(* Instants count in ticks of which a minute has Minute, the milliseconds  *)
(* of the code, since midnight of day 0, a Monday, by a wall clock that is *)
(* not set (PayPeriods is about the one that is).                          *)
(***************************************************************************)
EXTENDS Integers, FiniteSetsExt

CONSTANT Minute      \* ticks in a minute, 60 000 in the code

ASSUME MinuteAssumption == Minute \in Nat \ {0}

Hour == 60 * Minute
Day == 24 * Hour

Open == -1       \* clock_out or end_at IS NULL
Off == -1        \* daily2ThresholdMin: null
AtLeast0(n) == IF n < 0 THEN 0 ELSE n
AtMost(n, limit) == IF n < limit THEN n ELSE limit
SumOver(Value(_), set) == SumFunction([x \in set |-> Value(x)])
DayOfInstant(t) == t \div Day

-----------------------------------------------------------------------------
(* Minutes *)

\* Math.round: the nearest number of units, the later one of two.
Nearest(t, unit) == (2 * t + unit) \div (2 * unit)
RoundMinutes(ticks) == Nearest(ticks, Minute)

\* The increment of one minute leaves the seconds of an instant.
RoundInstant(t, rule) ==
  LET inc == rule.increment * Minute IN
  IF rule.increment = 1 THEN t
  ELSE CASE rule.mode = "up"      -> inc * ((t + inc - 1) \div inc)
         [] rule.mode = "down"    -> inc * (t \div inc)
         [] rule.mode = "nearest" -> inc * Nearest(t, inc)

RoundedSpanMinutes(in, out, rule) ==
  AtLeast0(RoundMinutes(RoundInstant(out, rule) - RoundInstant(in, rule)))

UnpaidBreakMinutes(taken, at) ==
  RoundMinutes(SumOver(LAMBDA b : AtLeast0((IF b.end = Open THEN at ELSE b.end) - b.start),
                       {b \in taken : ~b.paid}))

\* Minutes from one instant to another, less the breaks, both rounded.
WorkedBetween(in, out, taken) == AtLeast0(RoundMinutes(out - in) - UnpaidBreakMinutes(taken, out))

-----------------------------------------------------------------------------
(* Break entitlements *)

RestDue(worked) ==
  IF worked > 600 THEN 3 + (worked - 600) \div 240
  ELSE IF worked > 360 THEN 2 ELSE 1

BreakComplianceFlags(worked, taken) ==
  LET ended == {b \in taken : b.end # Open}
      rests == Cardinality({b \in ended : b.paid})
      meal == SumOver(LAMBDA b : b.end - b.start, {b \in ended : ~b.paid})
  IN IF worked < 120 THEN {}
     ELSE {f \in {"missing_rest_break"} : rests < RestDue(worked)}
            \cup {f \in {"missing_meal_break"} : worked > 240 /\ meal < 30 * Minute}

-----------------------------------------------------------------------------
(* Overtime of one week, days 0 to 6 *)

WeekDays == 0..6

\* Daily overtime is carved out first.
DayOvertime(worked, rules) ==
  LET second == IF rules.daily2 # Off /\ worked > rules.daily2 THEN worked - rules.daily2 ELSE 0
  IN [ordinary |-> AtMost(worked, rules.daily),
      ot1 |-> AtLeast0(AtLeast0(worked - rules.daily) - second),
      ot2 |-> second]

\* Mutation: the weekly overtime is taken from the first days.
WeekOvertimeFromMonday(worked, rules) ==
  LET carved == [d \in WeekDays |-> DayOvertime(worked[d], rules)]
      weekly == AtLeast0(SumOver(LAMBDA d : carved[d].ordinary, WeekDays) - rules.weekly)
      left[d \in 0..7] == IF d = 0 THEN weekly
                          ELSE left[d - 1] - AtMost(carved[d - 1].ordinary, left[d - 1])
  IN [d \in WeekDays |->
        LET take == left[d] - left[d + 1]
        IN [carved[d] EXCEPT !.ordinary = @ - take, !.ot1 = @ + take]]

\* "Weekly threshold applies to ordinary minutes only"; what exceeds it is taken from the
\* end of the week backwards.
ComputeWeekOvertime(worked, rules) ==
  LET carved == [d \in WeekDays |-> DayOvertime(worked[d], rules)]
      weekly == AtLeast0(SumOver(LAMBDA d : carved[d].ordinary, WeekDays) - rules.weekly)
      \* what is left to reassign once the days from d on have been through
      left[d \in 0..7] == IF d = 7 THEN weekly
                          ELSE left[d + 1] - AtMost(carved[d].ordinary, left[d + 1])
  IN [d \in WeekDays |->
        LET take == left[d + 1] - left[d]
        IN [carved[d] EXCEPT !.ordinary = @ - take, !.ot1 = @ + take]]

\* Multipliers in tenths.
PayWeightedMinutes(total, rules) ==
  (10 * total.ordinary + rules.times1 * total.ot1 + rules.times2 * total.ot2 + 5) \div 10

-----------------------------------------------------------------------------
(* The roster against the clock *)

LateGraceMin == 5
Slack == 4 * Hour

\* The punch that counts for a rostered shift: the first one in its window.
MatchFor(shift, punches) ==
  LET near == {e \in punches : e.in > shift.start - Slack /\ e.in < shift.end + Slack}
  IN {e \in near : \A f \in near : e.in <= f.in}

CompareShift(shift, punches, at) ==
  LET match == MatchFor(shift, punches)
      missing == (at - shift.start) \div Minute
      late == AtLeast0(((CHOOSE e \in match : TRUE).in - shift.start) \div Minute)
      open == (CHOOSE e \in match : TRUE).out = Open
  IN IF match = {}
     THEN IF at < shift.start THEN [status |-> "upcoming", late |-> 0]
          ELSE IF at >= shift.end THEN [status |-> "no_show", late |-> 0]
          ELSE [status |-> IF missing > LateGraceMin THEN "late" ELSE "upcoming",
                late |-> missing]
     ELSE [status |-> IF open /\ at < shift.end THEN "in_progress"
                      ELSE IF late > LateGraceMin THEN "late" ELSE "ok",
           late |-> IF late > LateGraceMin THEN late ELSE 0]

-----------------------------------------------------------------------------
(* The timesheet: one employee's closed entries that start in the period *)

EntriesOfPeriod(entries, period) ==
  {e \in entries : period.start <= e.in /\ e.in < period.end /\ e.out # Open}

\* "rostered that date, else worked >= 2 of the last 4 same weekdays" -- of those weekdays
\* that are in the period.
OtherwiseWorkingDay(day, mine, rostered) ==
  \/ day \in rostered
  \/ Cardinality({w \in 1..4 : \E e \in mine : DayOfInstant(e.in) = day - 7 * w}) >= 2

\* New Zealand pays time and a half and may owe a day in lieu.
AssessStatDay(worked, otherwise) == [extra |-> worked, lieu |-> worked > 0 /\ otherwise]

\* Elsewhere the day is paid the premium that is set, in tenths.
HolidayPay(day, worked, otherwise, holidays, rules) ==
  CASE day \notin holidays    -> [extra |-> 0, lieu |-> FALSE]
    [] day \in holidays /\ rules.country = "NZ" -> AssessStatDay(worked, otherwise)
    [] OTHER -> [extra |-> (worked * AtLeast0(rules.holidayTimes - 10) + 5) \div 10, lieu |-> FALSE]

TimesheetDay(day, mine, rostered, holidays, rules) ==
  LET today == {e \in mine : DayOfInstant(e.in) = day}
      raw == SumOver(LAMBDA e : WorkedBetween(e.in, e.out, e.breaks), today)
      rounded == AtLeast0(SumOver(LAMBDA e : RoundedSpanMinutes(e.in, e.out, rules.rounding)
                                               - UnpaidBreakMinutes(e.breaks, e.out), today))
      pay == HolidayPay(day, rounded, OtherwiseWorkingDay(day, mine, rostered), holidays, rules)
  IN [worked |-> rounded, raw |-> raw, extra |-> pay.extra, lieu |-> pay.lieu,
      entries |-> today, edited |-> \E e \in today : e.edited,
      flags |-> BreakComplianceFlags(raw, UNION {e.breaks : e \in today})]

\* Overtime is by the week from Monday to Sunday, of the days in the period.
OvertimeOfWeeks(sheet, rules) ==
  [w \in {d \div 7 : d \in DOMAIN sheet} |->
     ComputeWeekOvertime([k \in WeekDays |-> IF 7 * w + k \in DOMAIN sheet
                                             THEN sheet[7 * w + k].worked ELSE 0], rules)]

TimesheetTotals(sheet, overtime, rules) ==
  LET days == DOMAIN sheet
      weeks == DOMAIN overtime
      Kind(w, f) == SumOver(LAMBDA k : overtime[w][k][f], WeekDays)
      Total(f) == SumOver(LAMBDA w : Kind(w, f), weeks)
      Weighted(w) == PayWeightedMinutes(
        [ordinary |-> Kind(w, "ordinary"), ot1 |-> Kind(w, "ot1"), ot2 |-> Kind(w, "ot2")], rules)
  IN [days |-> sheet,
      worked |-> SumOver(LAMBDA d : sheet[d].worked, days),
      ordinary |-> Total("ordinary"), ot1 |-> Total("ot1"), ot2 |-> Total("ot2"),
      weighted |-> SumOver(Weighted, weeks),
      extra |-> SumOver(LAMBDA d : sheet[d].extra, days),
      lieu |-> {d \in days : sheet[d].lieu},
      editedDays |-> {d \in days : sheet[d].edited},
      flagCount |-> SumOver(LAMBDA d : Cardinality(sheet[d].flags), days)]

BuildTimesheet(entries, period, rostered, holidays, rules) ==
  LET mine == EntriesOfPeriod(entries, period)
      sheet == [d \in {DayOfInstant(e.in) : e \in mine} |->
                  TimesheetDay(d, mine, rostered, holidays, rules)]
  IN TimesheetTotals(sheet, OvertimeOfWeeks(sheet, rules), rules)
=============================================================================
