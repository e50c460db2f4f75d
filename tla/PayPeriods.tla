------------------------------ MODULE PayPeriods ------------------------------
(***************************************************************************)
(* Pay periods: rows that exist once somebody has looked at the current    *)
(* one, tiled from the anchor day by stepping whole days of 24 hours and   *)
(* correcting to midnight of the wall clock, which is set forward or back  *)
(* in between.                                                             *)
(***************************************************************************)
EXTENDS Integers, FiniteSets

CONSTANTS
  Visits,          \* requests of the pay-period page
  AnchorDay,       \* "Anchor Monday; periods tile forward/backward from here"
  Before, After,   \* hours the wall clock is ahead, before and after it is set
  ClocksChange,    \* the hour at which it is set
  TickHours,       \* bound: time passes in steps of so many hours
  MaxHour,         \* bound: the last hour looked at
  MaxRetilings     \* bound: changes of the period type

ASSUME PeriodsAssumption ==
  /\ {AnchorDay, Before, After} \subseteq Int
  /\ {ClocksChange, TickHours, MaxHour} \subseteq Nat \ {0}
  /\ MaxRetilings \in Nat

\* The clocks are set by an hour at most, and skip no midnight nor show one twice.
ASSUME ClocksAssumption ==
  /\ After - Before \in {-1, 0, 1}
  /\ \A wall \in (ClocksChange + Before)..(ClocksChange + After - 1)
                   \cup (ClocksChange + After)..(ClocksChange + Before - 1) :
       wall % 24 # 0

VARIABLES
  hour,      \* now, in hours of UTC
  type,      \* settings.payPeriod.type
  periods,   \* the pay_periods rows
  visit,     \* what each request in progress is about to insert
  retilings  \* changes of the type so far

periodVars == <<hour, type, periods, visit, retilings>>

Nowhere == [start |-> 0, end |-> 0]

-----------------------------------------------------------------------------
(* The wall clock *)

Offset(t) == IF t < ClocksChange THEN Before ELSE After
Shown(t) == t + Offset(t)

\* The day an instant falls on.
NzDateOf(t) == Shown(t) \div 24

\* The instant of a wall-clock hour: a guess corrected twice by what the zone shows for it.
NzWallToInstant(wall) ==
  LET Correct(guess) == guess + (wall - Shown(guess))
  IN Correct(Correct(wall))

Midnight(day) == NzWallToInstant(24 * day)

-----------------------------------------------------------------------------
(* Tiling *)

LengthDays == IF type = "weekly" THEN 7 ELSE 14

\* Mutation: a period begins on the day it is first looked at.
WindowFromToday(at) ==
  LET today == Midnight(NzDateOf(at))
  IN [start |-> today, end |-> Midnight(NzDateOf(today + 24 * LengthDays + 1))]

PeriodWindowContaining(at) ==
  LET length == 24 * LengthDays
      anchor == Midnight(AnchorDay)
      cursor == anchor + ((at - anchor) \div length) * length
      Following(start) == Midnight(NzDateOf(start + length + 1))
      back[start \in Int] ==
        IF start > at THEN back[Midnight(NzDateOf(start - length))] ELSE start
      forward[start \in Int] ==
        IF Following(start) <= at THEN forward[Following(start)] ELSE start
      found == forward[back[Midnight(NzDateOf(cursor))]]
  IN [start |-> found, end |-> Following(found)]

Holds(p, at) == p.start <= at /\ at < p.end

FindPeriodContaining(at) == {p \in periods : Holds(p, at)}

-----------------------------------------------------------------------------

PeriodsInit ==
  /\ hour = Midnight(AnchorDay)
  /\ type \in {"weekly", "fortnightly"}
  /\ periods = {}
  /\ visit = [v \in Visits |-> Nowhere]
  /\ retilings = 0

\* GET /pay-periods: with no row around the present, one is worked out ...
OpenPeriods(v) ==
  /\ visit[v] = Nowhere
  /\ FindPeriodContaining(hour) = {}
  /\ visit' = [visit EXCEPT ![v] = PeriodWindowContaining(hour)]
  /\ UNCHANGED <<hour, type, periods, retilings>>

\* ... and inserted, unless there is a row with that start by now.
InsertPeriod(v) ==
  /\ visit[v] # Nowhere
  /\ periods' = IF \E p \in periods : p.start = visit[v].start THEN periods
                ELSE periods \cup {visit[v]}
  /\ visit' = [visit EXCEPT ![v] = Nowhere]
  /\ UNCHANGED <<hour, type, retilings>>

\* An administrator changes the period type.
Retile ==
  /\ retilings < MaxRetilings
  /\ type' = IF type = "weekly" THEN "fortnightly" ELSE "weekly"
  /\ retilings' = retilings + 1
  /\ UNCHANGED <<hour, periods, visit>>

PeriodsTick ==
  /\ hour + TickHours <= MaxHour
  /\ hour' = hour + TickHours
  /\ UNCHANGED <<type, periods, visit, retilings>>

PeriodsNext ==
  \/ \E v \in Visits : OpenPeriods(v) \/ InsertPeriod(v)
  \/ Retile
  \/ PeriodsTick

PeriodsSpec == PeriodsInit /\ [][PeriodsNext]_periodVars

-----------------------------------------------------------------------------

Apart(p, q) == p.end <= q.start \/ q.end <= p.start

\* "Compute the period window ... by tiling weekly/fortnightly blocks from the anchor
\* Monday (NZ midnight boundaries, DST-correct)": as long as the period settings stay
\* as they are, no instant is in two periods.
PeriodsApart == retilings = 0 => \A p, q \in periods : p # q => Apart(p, q)

\* While the clocks are not set, nor the type changed, the rows tile time: they keep to
\* the anchor's weekday and midnight, two of them have no instant in common, the row found
\* for now is the one its settings make, and two visits at once leave one row.
PeriodsTile ==
  (retilings = 0 /\ hour < ClocksChange) =>
    /\ \A p \in periods :
         /\ Shown(p.start) % 24 = 0
         /\ (NzDateOf(p.start) - AnchorDay) % LengthDays = 0
    /\ \A p, q \in periods : p # q => Apart(p, q)
    /\ \A p \in FindPeriodContaining(hour) : p = PeriodWindowContaining(hour)
=============================================================================
