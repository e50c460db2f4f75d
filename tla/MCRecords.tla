------------------------------ MODULE MCRecords ------------------------------
(***************************************************************************)
(* Instances of Records.                                                   *)
(***************************************************************************)
EXTENDS Records, TLC

CONSTANTS ann, s1, s2, l1, l2, b1, r1, r2

OneOwner == [s \in {s1, s2} |-> ann]
\* Both are stored as other amounts: 21 and -20 hundredths.
GrantOrTake == {205, -195}
Symmetric == Permutations({s1, s2}) \cup Permutations({l1, l2}) \cup Permutations({r1, r2})

-----------------------------------------------------------------------------
(* What the timesheet rules are asked, of instants that are not whole minutes *)

T(n, ticks) == n * Minute + ticks

Rules(daily, weekly, daily2) ==
  [daily |-> daily, weekly |-> weekly, daily2 |-> daily2, times1 |-> 15, times2 |-> 20,
   country |-> "NZ", holidayTimes |-> 15, rounding |-> [increment |-> 15, mode |-> "nearest"]]

RoundingQuestions ==
  [kind : {"rounding"}, in : {T(0, 0), T(6, 3)}, switch : {T(n, k) : n \in 7..23, k \in {0, 2}},
   out : {T(n, k) : n \in 24..38, k \in {0, 2, 3}},
   rule : [increment : {1, 5, 10, 15}, mode : {"nearest", "up", "down"}]]

OvertimeQuestions ==
  {[kind |-> "overtime", rules |-> Rules(480, weekly, second),
    worked |-> [d \in WeekDays |-> IF d \in 2..3 THEN 0 ELSE w[d]]] :
     w \in [WeekDays \ (2..3) -> {0, 300, 780}], weekly \in {600, 2400},
     second \in {Off, 240, 720}}

Break(start, end, isPaid) == [start |-> start, end |-> end, paid |-> isPaid]

\* Meals of 29 minutes, of one, and of a tick less and more.
Taken == {Break(T(100, 0), T(110, 2), TRUE), Break(T(200, 0), T(229, 0), FALSE),
          Break(T(300, 1), T(301, 0), FALSE), Break(T(310, 3), T(311, 0), FALSE),
          Break(T(500, 0), Open, TRUE)}

BreakQuestions ==
  [kind : {"breaks"}, taken : SUBSET Taken, longer : {0, 1, 240},
   worked : {119, 120, 240, 241, 360, 361, 600, 601, 840}]

\* At most one punch at each instant, and none that has not been made yet.
RosterQuestions ==
  {q \in [kind : {"roster"}, shift : {[start |-> T(600, 0), end |-> T(900, 0)]},
          punches : SUBSET [in : {T(360, 0), T(360, 1), T(605, 3), T(606, 0)},
                            out : {Open, T(700, 0), T(890, 0)}],
          at : {T(500, 0), T(600, 0), T(605, 3), T(606, 0), T(899, 3), T(900, 0)},
          longer : {0, 1, T(500, 0)}] :
     /\ \A e, f \in q.punches : e.in = f.in => e = f
     /\ \A e \in q.punches : e.in <= q.at /\ e.out <= q.at}

Shift(day, in, out, taken) ==
  LET On(t) == IF t = Open THEN Open ELSE day * Day + t
  IN [who |-> "ann", in |-> On(in), out |-> On(out), edited |-> FALSE, paid |-> Open,
      breaks |-> {[b EXCEPT !.start = On(@), !.end = On(@)] : b \in taken}]

\* A shift over midnight into Monday, two with a job switch between them, and one open.
Worked ==
  {Shift(4, T(427, 2), T(1207, 1), {Break(T(700, 0), T(725, 2), FALSE)}),
   Shift(5, T(480, 1), T(1080, 2), {}),
   Shift(6, T(1000, 0), T(1500, 3), {Break(T(1200, 1), T(1230, 0), FALSE)}),
   Shift(7, T(480, 0), T(901, 2), {}),
   Shift(7, T(901, 2), T(1000, 3), {Break(T(930, 0), T(940, 0), TRUE)}),
   Shift(9, T(480, 0), Open, {})}

SheetQuestions ==
  [kind : {"timesheet"}, entries : SUBSET Worked, from : {0}, to : {14 * Day},
   cut : {6 * Day, 7 * Day, 8 * Day}, rostered : {{}, {7}}, holidays : {{5, 7}},
   rules : {Rules(480, 1200, Off), Rules(480, 1200, 720),
            [Rules(480, 1200, Off) EXCEPT !.rounding.increment = 1]}]

\* The same, but short.
Looked ==
  {Shift(6, T(1400, 1), T(1501, 2), {Break(T(1430, 0), T(1441, 3), FALSE)}),
   Shift(7, T(478, 1), T(541, 2), {}),
   Shift(7, T(541, 2), T(600, 3), {Break(T(550, 0), T(560, 0), TRUE)}),
   Shift(9, T(480, 3), Open, {})}

DashQuestions ==
  [kind : {"dashboard"}, entries : SUBSET Looked, rates : {[ann |-> 2000]},
   starts : {[x \in {<<"ann", 7>>} |-> 472]}, at : {9 * Day + T(500, 1)}]

CalendarQuestions == [kind : {"calendar"}, year : 2020..2045]

Asking == RoundingQuestions \cup OvertimeQuestions \cup BreakQuestions \cup RosterQuestions
            \cup SheetQuestions \cup DashQuestions \cup CalendarQuestions
=============================================================================
