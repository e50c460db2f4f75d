------------------------------- MODULE Holidays -------------------------------
(***************************************************************************)
(* New Zealand's public holidays as they are computed, and the lookup that *)
(* other countries' calendars go through as well.  A date is the number of *)
(* days since 1 March of the year 0, whose weekday Dow gives.              *)
(***************************************************************************)
EXTENDS Integers, FiniteSets, Sequences

\* The date a JavaScript Date makes of year, month and day.
Date(y, m, d) ==
  LET year == IF m <= 2 THEN y - 1 ELSE y
      month == (m + 9) % 12
  IN 365 * year + year \div 4 - year \div 100 + year \div 400 + (153 * month + 2) \div 5 + d - 1

\* 0 = Sunday .. 6 = Saturday
Dow(date) == (date + 3) % 7

Sunday == 0
Monday == 1
Saturday == 6

\* "Official Matariki dates (set by legislation, not computable)."
Matariki ==
  [y \in 2024..2031 |->
     CASE y = 2024 -> Date(y, 6, 28) [] y = 2025 -> Date(y, 6, 20) [] y = 2026 -> Date(y, 7, 10)
       [] y = 2027 -> Date(y, 6, 25) [] y = 2028 -> Date(y, 7, 14) [] y = 2029 -> Date(y, 7, 6)
       [] y = 2030 -> Date(y, 6, 21) [] y = 2031 -> Date(y, 7, 11)]

\* "Anonymous Gregorian computus (Meeus/Jones/Butcher)"
EasterSunday(y) ==
  LET a == y % 19
      b == y \div 100
      c == y % 100
      g == (b - (b + 8) \div 25 + 1) \div 3
      h == (19 * a + b - b \div 4 - g + 15) % 30
      l == (32 + 2 * (b % 4) + 2 * (c \div 4) - h - (c % 4)) % 7
      m == (a + 11 * h + 22 * l) \div 451
      n == h + l - 7 * m + 114
  IN Date(y, n \div 31, (n % 31) + 1)

\* A weekend day moves to Monday, or a day further; other days stay, whatever the bump.
Mondayise(date, bump) ==
  CASE Dow(date) = Saturday -> date + 2 + bump
    [] Dow(date) = Sunday   -> date + 1 + bump
    [] OTHER                -> date

NthWeekday(y, m, weekday, n) ==
  Date(y, m, 1) + ((weekday - Dow(Date(y, m, 1))) % 7) + 7 * (n - 1)

ClosestMonday(date) ==
  LET fwd == (Monday - Dow(date)) % 7
      back == (Dow(date) - Monday) % 7
  IN IF fwd <= back THEN date + fwd ELSE date - back

\* The second of two days that move together: past the first one's Monday.
Pair(first) ==
  LET bump == IF Dow(first) \in {Saturday, Sunday} THEN 1 ELSE 0
  IN {[date |-> Mondayise(first, 0), actual |-> first],
      [date |-> Mondayise(first + 1, bump), actual |-> first + 1]}

NzPublicHolidays(y) ==
  LET Moved(date) == [date |-> Mondayise(date, 0), actual |-> date]
      Fixed(date) == [date |-> date, actual |-> date]
      easter == EasterSunday(y)
  IN Pair(Date(y, 1, 1)) \cup Pair(Date(y, 12, 25))
       \cup {Moved(Date(y, 2, 6)), Moved(Date(y, 4, 25))}
       \cup {Fixed(d) : d \in {ClosestMonday(Date(y, 1, 29)), easter - 2, easter + 1,
                               NthWeekday(y, 6, Monday, 1), NthWeekday(y, 10, Monday, 4)}}
       \cup {Fixed(Matariki[z]) : z \in DOMAIN Matariki \cap {y}}

\* Elsewhere: the library's public and bank holidays of the year, one a day; none if its
\* rules cannot be loaded.
PublicHolidays(y, country, library) ==
  IF country = "NZ" THEN {h.date : h \in NzPublicHolidays(y)}
  ELSE {h.date : h \in {g \in library[country] : g.type \in {"public", "bank"} /\ g.year = y}}

-----------------------------------------------------------------------------
(* What the calendar should say *)

\* The paschal full moon by the year's golden number, as tabulated for three centuries: the
\* day of March.
TabledYears == 1900..2199
FullMoon == <<45, 34, 23, 42, 31, 49, 39, 28, 47, 36, 25, 44, 33, 22, 41, 30, 48, 38, 27>>

EasterOfTable(y) ==
  LET moon == Date(y, 3, FullMoon[(y % 19) + 1])
  IN CHOOSE d \in moon + 1 .. moon + 7 : Dow(d) = Sunday

\* The year's dates: Easter is where the table has it; a moved holiday lands on a working day
\* within three days; and no two are observed on one day, as "Jan 2's observed day must
\* skip Jan 1's observed Monday" -- unless the first day of a pair is a Sunday, or Easter
\* meets ANZAC Day.
CalendarRight(y) ==
  LET held == NzPublicHolidays(y)
      clash == \/ Dow(Date(y, 1, 1)) = Sunday \/ Dow(Date(y, 12, 25)) = Sunday
               \/ EasterSunday(y) \in {Date(y, 4, 24), Date(y, 4, 25)}
  IN /\ EasterSunday(y) = EasterOfTable(y)
     /\ \A h \in held :
          /\ Dow(h.date) \notin {Saturday, Sunday}
          /\ h.date - h.actual \in 0..3
     /\ ~clash => Cardinality(PublicHolidays(y, "NZ", <<>>)) = (IF y \in DOMAIN Matariki THEN 12 ELSE 11)
=============================================================================
