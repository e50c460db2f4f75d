------------------------------- MODULE Insights -------------------------------
(***************************************************************************)
(* The numbers of the manager's dashboard, all worked out by the browser   *)
(* from one slice the server returns.                                      *)
(***************************************************************************)
EXTENDS PayRules

\* As UnpaidBreakMinutes has it, but for a break that ends before it starts.
BreakMinutes(taken, at) ==
  RoundMinutes(SumOver(LAMBDA b : (IF b.end = Open THEN at ELSE b.end) - b.start,
                       {b \in taken : ~b.paid}))

\* What the server says of an entry that starts in the range; one still open counts up to now.
SliceEntry(e, rate, at) ==
  LET end == IF e.out = Open THEN at ELSE e.out
      worked == WorkedBetween(e.in, end, e.breaks)
  IN [who |-> e.who, in |-> e.in, out |-> e.out, worked |-> worked,
      unpaid |-> BreakMinutes(e.breaks, end), edited |-> e.edited,
      cents |-> IF e.paid # Open THEN e.paid
                ELSE IF e.out # Open /\ rate # Open THEN (2 * worked * rate + 60) \div 120 ELSE Open]

InsightsSlice(entries, from, to, rates, at) ==
  {SliceEntry(e, rates[e.who], at) : e \in {f \in entries : from <= f.in /\ f.in < to}}

MinuteOfDay(t) == (t % Day) \div Minute

\* starts: the minute of the day when each employee's rostered shift begins.
WorkerStats(slice, starts) ==
  [who \in {e.who : e \in slice} |->
     LET es == {e \in slice : e.who = who}
         closed == {e \in es : e.out # Open}
         priced == {e \in es : e.cents # Open}
     IN [minutes |-> SumOver(LAMBDA e : e.worked, es),
         shifts |-> Cardinality(es),
         daysWorked |-> Cardinality({DayOfInstant(e.in) : e \in es}),
         avgShift |-> IF closed = {} THEN Open
                      ELSE (2 * SumOver(LAMBDA e : e.worked, closed) + Cardinality(closed))
                             \div (2 * Cardinality(closed)),
         unpaid |-> SumOver(LAMBDA e : e.unpaid, es),
         edits |-> Cardinality({e \in es : e.edited}),
         late |-> Cardinality({e \in es : LET day == DayOfInstant(e.in) IN
                     <<who, day>> \in DOMAIN starts /\ MinuteOfDay(e.in) > starts[who, day] + LateGraceMin}),
         onShift |-> closed # es,
         cents |-> IF priced = {} THEN Open ELSE SumOver(LAMBDA e : e.cents, priced)]]

DashboardTotals(stats) ==
  LET Total(f) == SumOver(LAMBDA who : stats[who][f], DOMAIN stats)
  IN [minutes |-> Total("minutes"), shifts |-> Total("shifts"), late |-> Total("late"),
      edits |-> Total("edits"), people |-> Cardinality(DOMAIN stats),
      cents |-> SumOver(LAMBDA who : AtLeast0(stats[who].cents), DOMAIN stats)]

\* "a shift counts on the day it started".
DailyMinutes(slice, days) ==
  [day \in days |-> [who \in {e.who : e \in {f \in slice : DayOfInstant(f.in) = day}} |->
     SumOver(LAMBDA e : e.worked, {e \in slice : e.who = who /\ DayOfInstant(e.in) = day})]]

\* A span of time is cut where an hour ends: its pieces, by start and length.
SpanPieces(start, end) ==
  LET cut[t \in Int] ==
        IF t >= end THEN {}
        ELSE LET next == AtMost(Hour * (t \div Hour) + Hour, end)
             IN {<<t, next - t>>} \cup cut[next]
  IN cut[start]

\* Time on site by weekday and hour.
Heatmap(slice, at) ==
  LET End(e) == IF e.out = Open THEN at ELSE e.out
      pieces == UNION {{<<e, p>> : p \in SpanPieces(e.in, End(e))} : e \in slice}
  IN [day \in WeekDays |-> [h \in 0..23 |->
        SumOver(LAMBDA x : x[2][2],
                {x \in pieces : /\ DayOfInstant(x[2][1]) % 7 = day
                                /\ MinuteOfDay(x[2][1]) \div 60 = h})]]
=============================================================================
