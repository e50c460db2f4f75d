---------------------------- MODULE PunchStoryProofs ---------------------------
(***************************************************************************)
(* Theorems about the punch clock that need the minutes of its breaks: the *)
(* types of everything it keeps, and what a finished handler leaves behind *)
(* of a shift (TrailTellsEntry, MealBreakSettled).                         *)
(***************************************************************************)
EXTENDS PunchClockProofs, Sums, SequenceTheorems

\* The unpaid breaks of an entry in a table, and what each of them lasts.
Unpaid(table, e) == {c \in {b \in DOMAIN table : table[b].entry = e} : ~table[c].paid}
Lasts(table, at, b) ==
  LET end == IF table[b].end = Null THEN at ELSE table[b].end
  IN IF end > table[b].start THEN end - table[b].start ELSE 0
Taken(table, e, at) == [b \in Unpaid(table, e) |-> Lasts(table, at, b)]

\* The equation that MapThenSumSet solves.
AddsUp(h, table, e, at) ==
  h = [s \in SUBSET Unpaid(table, e) |->
         IF s = {} THEN 0 ELSE Lasts(table, at, First(s)) + h[s \ {First(s)}]]

LEMMA SumIsTotal ==
  ASSUME NEW table, NEW e, NEW at
  PROVE  (CHOOSE h : AddsUp(h, table, e, at))[Unpaid(table, e)] = Total(Taken(table, e, at))
<1>. DEFINE S == Unpaid(table, e)
            f == Taken(table, e, at)
<1>1. DOMAIN f = S /\ \A b \in S : f[b] = Lasts(table, at, b)
  BY DEF Taken
<1>2. ASSUME NEW h PROVE AddsUp(h, table, e, at) = Adds(h, f)
  <2>. HIDE DEF f, S
  <2>. DEFINE F1 == [s \in SUBSET S |-> IF s = {} THEN 0 ELSE Lasts(table, at, First(s)) + h[s \ {First(s)}]]
              F2 == [s \in SUBSET S |-> IF s = {} THEN 0 ELSE f[First(s)] + h[s \ {First(s)}]]
  <2>1. ASSUME NEW s \in SUBSET S, s # {} PROVE f[First(s)] = Lasts(table, at, First(s))
    BY <1>1, <2>1, FirstIn
  <2>2. F1 = F2
    BY <2>1
  <2>. QED  BY <1>1, <2>2 DEF Adds, AddsUp, S
<1>. HIDE DEF f
<1>3. (CHOOSE h : AddsUp(h, table, e, at)) = (CHOOSE h : Adds(h, f))
  BY <1>2
<1>. QED  BY <1>1, <1>3 DEF Total, f

\* The unpaid minutes are the total of what the breaks last, now and after a step.
LEMMA UnpaidIsTotal ==
  ASSUME NEW e, NEW at
  PROVE  /\ UnpaidMinutes(e, at) = Total(Taken(breaks, e, at))
         /\ UnpaidMinutes(e, at)' = Total(Taken(breaks', e, at))
<1>1. UnpaidMinutes(e, at) = (CHOOSE h : AddsUp(h, breaks, e, at))[Unpaid(breaks, e)]
  BY DEF UnpaidMinutes, BreaksOf, MapThenSumSet, MapThenFoldSet, First, AddsUp, Unpaid, Lasts
<1>2. UnpaidMinutes(e, at)' = (CHOOSE h : AddsUp(h, breaks', e, at))[Unpaid(breaks', e)]
  BY DEF UnpaidMinutes, BreaksOf, MapThenSumSet, MapThenFoldSet, First, AddsUp, Unpaid, Lasts
<1>. QED  BY <1>1, <1>2, SumIsTotal

\* Times and lengths of breaks.
BreakTimes == [entry : Nat, start : Int, end : Nat, paid : BOOLEAN, auto : BOOLEAN]

LEMMA TakenTyped ==
  ASSUME NEW table \in Seq(BreakTimes), NEW e, NEW at \in Nat
  PROVE  /\ IsFiniteSet(Unpaid(table, e))
         /\ Taken(table, e, at) \in [Unpaid(table, e) -> Nat]
<1>1. DOMAIN table = 1..Len(table) /\ Len(table) \in Nat
  OBVIOUS
<1>2. IsFiniteSet(DOMAIN table)
  BY <1>1, FS_Interval
<1>3. Unpaid(table, e) \in SUBSET DOMAIN table
  BY DEF Unpaid
<1>4. IsFiniteSet(Unpaid(table, e))
  BY <1>2, <1>3, FS_Subset
<1>5. ASSUME NEW b \in Unpaid(table, e) PROVE Lasts(table, at, b) \in Nat
  <2>1. table[b] \in BreakTimes
    BY <1>3
  <2>2. table[b].start \in Int /\ table[b].end \in Nat
    BY <2>1 DEF BreakTimes
  <2>3. \A x \in Nat, y \in Int : (IF x > y THEN x - y ELSE 0) \in Nat
    OBVIOUS
  <2>. QED  BY <2>2, <2>3 DEF Lasts
<1>. QED  BY <1>4, <1>5 DEF Taken

\* The unpaid minutes are a number,
LEMMA UnpaidIsNat ==
  ASSUME breaks \in Seq(BreakTimes), NEW e, NEW at \in Nat
  PROVE  UnpaidMinutes(e, at) \in Nat
<1>1. Taken(breaks, e, at) \in [Unpaid(breaks, e) -> Nat] /\ IsFiniteSet(Unpaid(breaks, e))
  BY TakenTyped
<1>2. Total(Taken(breaks, e, at)) \in Nat
  BY <1>1, TotalNumber
<1>. QED  BY <1>2, UnpaidIsTotal

\* the same while the breaks are, and after the last of them has ended,
LEMMA UnpaidSame ==
  ASSUME NEW e, NEW at, BreaksOf(e)' = BreaksOf(e), \A b \in BreaksOf(e) : breaks'[b] = breaks[b]
  PROVE  UnpaidMinutes(e, at)' = UnpaidMinutes(e, at)
<1>1. Taken(breaks', e, at) = Taken(breaks, e, at)
  <2>1. /\ BreaksOf(e) = {b \in DOMAIN breaks : breaks[b].entry = e}
        /\ BreaksOf(e)' = {b \in DOMAIN breaks' : breaks'[b].entry = e}
    BY DEF BreaksOf
  <2>2. Unpaid(breaks', e) = Unpaid(breaks, e) /\ Unpaid(breaks, e) \subseteq BreaksOf(e)
    BY <2>1 DEF Unpaid
  <2>3. \A b \in Unpaid(breaks, e) : Lasts(breaks', at, b) = Lasts(breaks, at, b)
    BY <2>2 DEF Lasts
  <2>. QED  BY <2>2, <2>3 DEF Taken
<1>. QED  BY <1>1, UnpaidIsTotal

LEMMA TakenMore ==
  ASSUME NEW table, NEW grown, NEW e, NEW at, NEW x, IsFiniteSet(Unpaid(table, e)),
         x \notin Unpaid(table, e), Unpaid(grown, e) = Unpaid(table, e) \cup {x},
         \A b \in Unpaid(table, e) : Lasts(grown, at, b) = Lasts(table, at, b),
         \A b \in Unpaid(grown, e) : Lasts(grown, at, b) \in Int
  PROVE  Total(Taken(grown, e, at)) = Total(Taken(table, e, at)) + Lasts(grown, at, x)
<1>. DEFINE S == Unpaid(table, e)
            f == Taken(table, e, at)
            g == Taken(grown, e, at)
<1>1. f \in [S -> Int] /\ g \in [S \cup {x} -> Int]
  BY DEF Taken
<1>2. g[x] = Lasts(grown, at, x) /\ \A b \in S : f[b] = g[b]
  BY DEF Taken
<1>. HIDE DEF S, f, g
<1>3. IsFiniteSet(S) /\ x \notin S
  BY DEF S
<1>4. Total(g) = Total(f) + g[x]
  BY <1>1, <1>2, <1>3, TotalOneMore
<1>. QED  BY <1>2, <1>4 DEF f, g

\* and more by what a new break lasts.
LEMMA UnpaidMore ==
  ASSUME breaks \in Seq(BreakTimes), NEW e, NEW at \in Nat, NEW row \in BreakTimes,
         row.entry = e, ~row.paid, row.end # Null, row.start <= row.end,
         breaks' = Append(breaks, row)
  PROVE  UnpaidMinutes(e, at)' = UnpaidMinutes(e, at) + (row.end - row.start)
<1>. DEFINE x == Len(breaks) + 1
            S == Unpaid(breaks, e)
<1>1. /\ DOMAIN breaks = 1..Len(breaks) /\ Len(breaks) \in Nat
      /\ DOMAIN breaks' = 1..x /\ breaks'[x] = row
      /\ \A b \in DOMAIN breaks : breaks'[b] = breaks[b]
      /\ breaks' \in Seq(BreakTimes)
  BY AppendFacts
<1>2. x \notin DOMAIN breaks /\ DOMAIN breaks' = DOMAIN breaks \cup {x}
  BY <1>1
<1>. HIDE DEF x
<1>3. x \notin S /\ Unpaid(breaks', e) = S \cup {x}
  BY <1>1, <1>2 DEF Unpaid
<1>4. Lasts(breaks', at, x) = row.end - row.start
  <2>1. row.start \in Int /\ row.end \in Nat
    BY DEF BreakTimes
  <2>2. \A a \in Nat, b \in Int : b <= a => (IF a > b THEN a - b ELSE 0) = a - b
    OBVIOUS
  <2>. QED  BY <1>1, <2>1, <2>2 DEF Lasts
<1>5. \A b \in S : Lasts(breaks', at, b) = Lasts(breaks, at, b)
  BY <1>1 DEF Lasts, Unpaid
<1>6. IsFiniteSet(S) /\ \A b \in S \cup {x} : Lasts(breaks', at, b) \in Int
  <2>1. Taken(breaks', e, at) \in [Unpaid(breaks', e) -> Nat] /\ IsFiniteSet(S)
    BY <1>1, TakenTyped
  <2>. QED  BY <1>3, <2>1 DEF Taken
<1>. HIDE DEF S
<1>7. Total(Taken(breaks', e, at)) = Total(Taken(breaks, e, at)) + Lasts(breaks', at, x)
  BY <1>3, <1>5, <1>6, TakenMore DEF S
<1>. QED  BY <1>4, <1>7, UnpaidIsTotal

-----------------------------------------------------------------------------
(***************************************************************************)
(* Types.  Rows name entries and breaks that exist, minutes are never      *)
(* negative, and there are no more entries than requests: each request     *)
(* adds one at most.                                                       *)
(***************************************************************************)

EntryAudits == [action : {"clock_in", "clock_out", "switch_job_close", "switch_job_open", "auto_clockout"},
                out : Times, worked : Nat]
BreakAudits == [action : {"break_start", "break_end", "auto_deduct"}, end : Times]

\* A request that may still add an entry.
Spending == Stages \ {"idle", "photo", "auditIn", "auditSwitchClose", "auditSwitchOpen"}
Unspent == {r \in Requests : pc[r] \in Spending}

Dated == Stamped \cup {"insertEntry", "insertNext", "auditOut", "auditSwitchClose"}
OnBreak == {"endBreak", "auditBreakEnd", "auditBreakStart", "auditDeduct"}
LocalsTyped(r) ==
  /\ pc[r] \in Dated => loc[r].at # Null
  /\ pc[r] \in OnBreak => loc[r].brk \in BreakIds

TypeInv ==
  /\ RecordInv
  /\ TypeOK
  /\ entryTrail \in Seq(Seq(EntryAudits)) /\ breakTrail \in Seq(Seq(BreakAudits))
  /\ IsFiniteSet(Unspent) /\ Len(entries) + Cardinality(Unspent) <= requests
  /\ \A r \in Requests : LocalsTyped(r)

LEMMA Counted ==
  ASSUME TypeInv, NEW r \in Requests, NEW stage \in Stages, pc' = [pc EXCEPT ![r] = stage]
  PROVE  /\ IsFiniteSet(Unspent') /\ Cardinality(Unspent) \in Nat /\ Cardinality(Unspent') \in Nat
         /\ Cardinality(Unspent') <= Cardinality(Unspent) + 1
         /\ stage \in Spending /\ pc[r] \in Spending => Cardinality(Unspent') = Cardinality(Unspent)
         /\ stage \notin Spending => Cardinality(Unspent') <= Cardinality(Unspent)
         /\ stage \notin Spending /\ pc[r] \in Spending =>
              Cardinality(Unspent') = Cardinality(Unspent) - 1
         /\ pc[r] \in Spending => Cardinality(Unspent) >= 1
<1>1. DOMAIN pc = Requests /\ IsFiniteSet(Unspent)
  BY DEF TypeInv, TypeOK
<1>2. Unspent' = IF stage \in Spending THEN Unspent \cup {r} ELSE Unspent \ {r}
  BY <1>1 DEF Unspent
<1>3. (r \in Unspent) = (pc[r] \in Spending)
  BY DEF Unspent
<1>4. Cardinality(Unspent) \in Nat /\ (r \in Unspent => Cardinality(Unspent) # 0)
  BY <1>1, FS_CardinalityType, FS_EmptySet
<1>. HIDE DEF Unspent, Spending
<1>5. /\ IsFiniteSet(Unspent \cup {r}) /\ IsFiniteSet(Unspent \ {r})
      /\ Cardinality(Unspent \cup {r}) = IF r \in Unspent THEN Cardinality(Unspent) ELSE Cardinality(Unspent) + 1
      /\ Cardinality(Unspent \ {r}) = IF r \in Unspent THEN Cardinality(Unspent) - 1 ELSE Cardinality(Unspent)
  BY <1>1, FS_AddElement, FS_RemoveElement
<1>6. CASE stage \in Spending
  BY <1>2, <1>3, <1>4, <1>5, <1>6
<1>7. CASE stage \notin Spending
  BY <1>2, <1>3, <1>4, <1>5, <1>7
<1>. QED  BY <1>6, <1>7

\* What a step of a request has to see to.
LEMMA StepTypes ==
  ASSUME TypeInv, RecordInv', NEW r \in Requests, NEW stage \in Stages,
         pc' = [pc EXCEPT ![r] = stage],
         loc' \in [Requests -> LocalsType], \A s \in Requests \ {r} : loc'[s] = loc[s],
         entries' \in Seq(EntryType), breaks' \in Seq(BreakType), BreakIds \subseteq BreakIds',
         entryTrail' \in Seq(Seq(EntryAudits)), Len(entryTrail') = Len(entries'),
         breakTrail' \in Seq(Seq(BreakAudits)), Len(breakTrail') = Len(breaks'),
         UNCHANGED <<now, sweep>>, requests' \in 0..MaxRequests, failures' \in 0..MaxFailures,
         cutShort' \subseteq 1..MaxRequests, Len(entries') + Cardinality(Unspent') <= requests',
         LocalsTyped(r)'
  PROVE  TypeInv'
<1>1. pc' \in [Requests -> Stages]
  BY DEF TypeInv, TypeOK
<1>2. TypeOK'
  BY <1>1 DEF TypeInv, TypeOK
<1>3. IsFiniteSet(Unspent')
  BY Counted
<1>4. ASSUME NEW s \in Requests PROVE LocalsTyped(s)'
  <2>1. CASE s # r
    <3>1. LocalsTyped(s) /\ pc'[s] = pc[s] /\ loc'[s] = loc[s]
      BY <2>1 DEF TypeInv, TypeOK
    <3>. QED  BY <3>1 DEF LocalsTyped
  <2>. QED  BY <2>1
<1>. QED  BY <1>2, <1>3, <1>4 DEF TypeInv

\* One that writes no row and no break's audit row has to see to its locals.
LEMMA MoveTypes ==
  ASSUME TypeInv, RecordInv', NEW r \in Requests, NEW stage \in Stages,
         stage \in Spending => pc[r] \in Spending,
         pc' = [pc EXCEPT ![r] = stage],
         loc' \in [Requests -> LocalsType], \A s \in Requests \ {r} : loc'[s] = loc[s],
         UNCHANGED <<now, entries, breaks, trails, sweep, bounds>>,
         LocalsTyped(r)'
  PROVE  TypeInv'
<1>1. /\ UNCHANGED <<now, sweep>> /\ entries' = entries /\ breaks' = breaks
      /\ entryTrail' = entryTrail /\ breakTrail' = breakTrail
      /\ requests' = requests /\ failures' = failures /\ cutShort' = cutShort
  BY DEF trails, bounds
<1>2. /\ Cardinality(Unspent) \in Nat /\ Cardinality(Unspent') \in Nat
      /\ stage \in Spending /\ pc[r] \in Spending => Cardinality(Unspent') = Cardinality(Unspent)
      /\ stage \notin Spending => Cardinality(Unspent') <= Cardinality(Unspent)
  BY Counted
<1>3. Len(entries) \in Nat /\ requests \in Nat /\ Len(entries) + Cardinality(Unspent) <= requests
  BY DEF TypeInv, TypeOK
<1>4. Len(entries') + Cardinality(Unspent') <= requests'
  BY <1>1, <1>2, <1>3
<1>5. /\ entries' \in Seq(EntryType) /\ breaks' \in Seq(BreakType) /\ BreakIds \subseteq BreakIds'
      /\ entryTrail' \in Seq(Seq(EntryAudits)) /\ Len(entryTrail') = Len(entries')
      /\ breakTrail' \in Seq(Seq(BreakAudits)) /\ Len(breakTrail') = Len(breaks')
      /\ requests' \in 0..MaxRequests /\ failures' \in 0..MaxFailures /\ cutShort' \subseteq 1..MaxRequests
  BY <1>1 DEF TypeInv, TypeOK, BreakIds
<1>. QED  BY <1>1, <1>4, <1>5, StepTypes

\* A request's locals and what they tell.
LEMMA LocalTypes ==
  ASSUME TypeInv, NEW r \in Requests
  PROVE  /\ loc[r] \in LocalsType /\ pc[r] \in Stages /\ HolderOK(r) /\ LocalsTyped(r)
         /\ DOMAIN loc = Requests /\ DOMAIN pc = Requests
         /\ now \in 1..MaxTime /\ now \in Nat /\ MaxRequests \in Nat /\ MaxTime \in Nat
BY BoundsAssumption DEF TypeInv, TypeOK, RecordInv

LEMMA NoWorkTyped == NoWork \in LocalsType
BY BoundsAssumption DEF NoWork, LocalsType, Kinds, Times, Null, Flags

\* An answered request has nothing in hand.
LEMMA RespondTypes ==
  ASSUME TypeInv, NEW r \in Requests, Respond(r)
  PROVE  /\ pc' = [pc EXCEPT ![r] = "idle"] /\ "idle" \in Stages /\ "idle" \notin Spending
         /\ loc' \in [Requests -> LocalsType] /\ \A s \in Requests \ {r} : loc'[s] = loc[s]
         /\ LocalsTyped(r)'
<1>1. pc' = [pc EXCEPT ![r] = "idle"] /\ "idle" \in Stages /\ "idle" \notin Spending
  BY DEF Respond, Goto, Stages, Spending
<1>2. loc' = [loc EXCEPT ![r] = NoWork] /\ loc \in [Requests -> LocalsType]
  BY DEF Respond, TypeInv, TypeOK
<1>3. pc'[r] = "idle"
  BY <1>1 DEF TypeInv, TypeOK
<1>4. LocalsTyped(r)'
  BY <1>3 DEF LocalsTyped, Dated, Stamped, OnBreak
<1>. QED  BY <1>1, <1>2, <1>4, NoWorkTyped

-----------------------------------------------------------------------------
(* The steps that write no row *)

LEMMA FindOpenTypes ==
  ASSUME TypeInv, RecordInv', NEW r \in Requests, FindOpen(r)
  PROVE  TypeInv'
<1>1. UNCHANGED <<now, entries, breaks, trails, sweep, bounds>> /\ pc[r] = "findOpen"
  BY DEF FindOpen, tables, At
<1>2. CASE Respond(r)
  BY <1>1, <1>2, RespondTypes, MoveTypes
<1>3. CASE \E q \in {loc[r].queued, Null} :
             /\ loc' = [loc EXCEPT ![r].queued = q]
             /\ Goto(r, IF q = Null THEN "cooldown" ELSE "checks")
  <2>1. PICK q \in {loc[r].queued, Null}, stage \in {"cooldown", "checks"} :
          loc' = [loc EXCEPT ![r].queued = q] /\ pc' = [pc EXCEPT ![r] = stage]
    BY <1>3 DEF Goto
  <2>2. [loc[r] EXCEPT !.queued = q] \in LocalsType
    BY LocalTypes, NoWorkTyped DEF LocalsType, NoWork
  <2>3. loc' \in [Requests -> LocalsType] /\ \A s \in Requests \ {r} : loc'[s] = loc[s]
    BY <2>1, <2>2, LocalTypes DEF TypeInv, TypeOK
  <2>4. LocalsTyped(r)'
    BY <2>1, LocalTypes DEF LocalsTyped, Dated, Stamped, OnBreak
  <2>. QED  BY <1>1, <2>1, <2>3, <2>4, MoveTypes DEF Stages, Spending
<1>4. CASE \E e \in LatestOpen(EmployeeOf[r]) :
             loc' = [loc EXCEPT ![r].entry = e, ![r].in = entries[e].in] /\ Goto(r, "findBreak")
  <2>1. PICK e \in LatestOpen(EmployeeOf[r]) :
          /\ loc' = [loc EXCEPT ![r].entry = e, ![r].in = entries[e].in]
          /\ pc' = [pc EXCEPT ![r] = "findBreak"]
    BY <1>4 DEF Goto
  <2>2. e \in EntryIds /\ entries \in Seq(EntryType) /\ Len(entries) <= MaxRequests
    <3>1. Cardinality(Unspent) \in Nat
      BY <2>1, Counted DEF Stages
    <3>2. Len(entries) \in Nat /\ Len(entries) + Cardinality(Unspent) <= requests /\ requests \in 0..MaxRequests
      BY DEF TypeInv, TypeOK
    <3>. QED  BY <3>1, <3>2, LocalTypes DEF LatestOpen, OpenEntries, EntryIds, TypeInv, TypeOK
  <2>3. e \in 0..MaxRequests /\ entries[e].in \in Times
    <3>1. entries[e] \in EntryType /\ e \in 1..Len(entries) /\ Len(entries) \in Nat
      BY <2>2 DEF EntryIds
    <3>2. entries[e].in \in 1..MaxTime
      BY <3>1 DEF EntryType
    <3>. QED  BY <2>2, <3>1, <3>2, LocalTypes DEF Times
  <2>4. [[loc[r] EXCEPT !.entry = e] EXCEPT !.in = entries[e].in] \in LocalsType
    BY <2>3, LocalTypes DEF LocalsType
  <2>5. loc' = [loc EXCEPT ![r] = [[loc[r] EXCEPT !.entry = e] EXCEPT !.in = entries[e].in]]
    BY <2>1, LocalTypes
  <2>6. loc' \in [Requests -> LocalsType] /\ \A s \in Requests \ {r} : loc'[s] = loc[s]
    BY <2>4, <2>5 DEF TypeInv, TypeOK
  <2>7. LocalsTyped(r)'
    BY <2>1, LocalTypes DEF LocalsTyped, Dated, Stamped, OnBreak
  <2>. QED  BY <1>1, <2>1, <2>6, <2>7, MoveTypes DEF Stages, Spending
<1>. QED  BY <1>2, <1>3, <1>4 DEF FindOpen

LEMMA CheckTypes ==
  ASSUME TypeInv, RecordInv', NEW r \in Requests, CheckCooldown(r) \/ CheckPunch(r)
  PROVE  TypeInv'
<1>1. UNCHANGED <<now, entries, breaks, trails, sweep, bounds>> /\ pc[r] \in Spending
  BY DEF CheckCooldown, CheckPunch, tables, At, Spending, Stages
<1>2. CASE Respond(r)
  BY <1>1, <1>2, RespondTypes, MoveTypes
<1>3. CASE Goto(r, "checks") /\ UNCHANGED loc
  <2>1. pc' = [pc EXCEPT ![r] = "checks"]
    BY <1>3 DEF Goto
  <2>2. LocalsTyped(r)'
    BY <2>1, LocalTypes DEF LocalsTyped, Dated, Stamped, OnBreak
  <2>3. loc' \in [Requests -> LocalsType] /\ \A s \in Requests \ {r} : loc'[s] = loc[s]
    BY <1>3 DEF TypeInv, TypeOK
  <2>4. "checks" \in Stages
    BY DEF Stages
  <2>. QED  BY <1>1, <2>1, <2>2, <2>3, <2>4, MoveTypes
<1>4. CASE CheckPunch(r) /\ ~Respond(r)
  <2>1. PICK suspect \in SUBSET {"suspect"} :
          /\ loc' = [loc EXCEPT
               ![r].flags = suspect \cup QueuedFlag(r),
               ![r].at = IF loc[r].queued = Null THEN now ELSE loc[r].queued]
          /\ pc' = [pc EXCEPT ![r] = "insertEntry"]
    BY <1>4 DEF CheckPunch, Goto
  <2>2. PICK flags, at : flags = suspect \cup QueuedFlag(r) /\ at = IF loc[r].queued = Null THEN now ELSE loc[r].queued
    OBVIOUS
  <2>3. flags \in SUBSET Flags
    BY <2>2 DEF QueuedFlag, Flags
  <2>4. loc[r].queued \in Times
    BY LocalTypes DEF LocalsType
  <2>5. at \in Times /\ at # Null
    BY <2>2, <2>4, LocalTypes DEF Times, Null
  <2>6. [[loc[r] EXCEPT !.flags = flags] EXCEPT !.at = at] \in LocalsType
    BY <2>3, <2>5, LocalTypes DEF LocalsType
  <2>7. loc' = [loc EXCEPT ![r] = [[loc[r] EXCEPT !.flags = flags] EXCEPT !.at = at]]
    BY <2>1, <2>2, LocalTypes
  <2>8. loc' \in [Requests -> LocalsType] /\ \A s \in Requests \ {r} : loc'[s] = loc[s]
    BY <2>6, <2>7 DEF TypeInv, TypeOK
  <2>9. loc'[r].at = at /\ pc'[r] = "insertEntry"
    BY <2>1, <2>7, LocalTypes DEF LocalsType
  <2>10. LocalsTyped(r)'
    BY <2>5, <2>9 DEF LocalsTyped, OnBreak
  <2>11. "insertEntry" \in Stages
    BY DEF Stages
  <2>. QED  BY <1>1, <2>1, <2>8, <2>10, <2>11, MoveTypes
<1>. QED  BY <1>2, <1>3, <1>4 DEF CheckCooldown

LEMMA FindBreakTypes ==
  ASSUME TypeInv, RecordInv', NEW r \in Requests, FindBreak(r)
  PROVE  TypeInv'
<1>1. UNCHANGED <<now, entries, breaks, trails, sweep, bounds>> /\ pc[r] \in Spending
  BY DEF FindBreak, tables, At, Spending, Stages
<1>2. CASE Respond(r)
  BY <1>1, <1>2, RespondTypes, MoveTypes
<1>3. CASE ~Respond(r)
  <2>. DEFINE open == OpenBreaks(loc[r].entry)
              stage == AfterFindBreak(loc[r].kind, open # {})
  <2>1. PICK b \in (IF open = {} THEN {Null} ELSE open) :
          /\ stage # "idle" /\ pc' = [pc EXCEPT ![r] = stage]
          /\ loc' = [loc EXCEPT ![r].brk = b, ![r].at = Stamp(r)]
    BY <1>3 DEF FindBreak, Goto
  <2>2. loc[r].kind \in {"out", "breakStart", "breakEnd", "switch"}
    BY LocalTypes DEF HolderOK, Kinds, FindBreak, At
  <2>3. stage \in {"endBreak", "deduct", "insertBreak", "closeEntry"} /\ (stage = "endBreak" => open # {})
    BY <2>1, <2>2 DEF AfterFindBreak
  <2>4. open \subseteq BreakIds /\ BreakIds \subseteq Nat
    BY DEF OpenBreaks, BreaksOf, BreakIds, TypeInv, TypeOK
  <2>5. b \in Nat /\ (open # {} => b \in BreakIds)
    BY <2>4 DEF Null
  <2>6. Stamp(r) \in Times /\ Stamp(r) # Null
    <3>1. loc[r].queued \in Times
      BY LocalTypes DEF LocalsType
    <3>. QED  BY <3>1, LocalTypes DEF Stamp, Believed, Times, Null
  <2>. HIDE DEF stage, open
  <2>7. [[loc[r] EXCEPT !.brk = b] EXCEPT !.at = Stamp(r)] \in LocalsType
    BY <2>5, <2>6, LocalTypes DEF LocalsType
  <2>8. loc' = [loc EXCEPT ![r] = [[loc[r] EXCEPT !.brk = b] EXCEPT !.at = Stamp(r)]]
    BY <2>1, LocalTypes
  <2>9. loc' \in [Requests -> LocalsType] /\ \A s \in Requests \ {r} : loc'[s] = loc[s]
    BY <2>7, <2>8 DEF TypeInv, TypeOK
  <2>10. loc'[r].at = Stamp(r) /\ loc'[r].brk = b /\ pc'[r] = stage
    BY <2>1, <2>8, LocalTypes DEF LocalsType
  <2>11. BreakIds' = BreakIds
    BY <1>1 DEF BreakIds
  <2>12. LocalsTyped(r)'
    BY <2>3, <2>5, <2>6, <2>10, <2>11 DEF LocalsTyped, OnBreak
  <2>13. stage \in Stages
    BY <2>3 DEF Stages
  <2>. QED  BY <1>1, <2>1, <2>9, <2>12, <2>13, MoveTypes
<1>. QED  BY <1>2, <1>3

\* Breaks have lengths, and what is worked out from them is a number.
LEMMA BreaksTyped == ASSUME TypeInv PROVE breaks \in Seq(BreakTimes)
<1>1. BreakType \subseteq BreakTimes
  BY BoundsAssumption DEF BreakType, BreakTimes, Times
<1>2. breaks \in Seq(BreakType)
  BY DEF TypeInv, TypeOK
<1>. QED  BY <1>1, <1>2

LEMMA ReadBreaksTypes ==
  ASSUME TypeInv, RecordInv', NEW r \in Requests, ReadBreaks(r)
  PROVE  TypeInv'
<1>. DEFINE unpaid == UnpaidMinutes(loc[r].entry, loc[r].at)
            deduct == AutoDeduct(loc[r].at - loc[r].in, unpaid)
            stage == IF deduct > 0 THEN "insertDeduct" ELSE "closeEntry"
<1>1. /\ UNCHANGED <<now, entries, breaks, trails, sweep, bounds>> /\ pc[r] \in Spending /\ pc[r] = "deduct"
      /\ pc' = [pc EXCEPT ![r] = stage]
      /\ loc' = [loc EXCEPT ![r].unpaid = unpaid, ![r].deduct = deduct]
  BY DEF ReadBreaks, tables, At, Goto, Spending, Stages
<1>2. unpaid \in Nat
  BY LocalTypes, UnpaidIsNat, BreaksTyped DEF LocalsType, Times
<1>3. deduct \in Nat
  BY <1>2, SettingsAssumption DEF AutoDeduct
<1>4. stage \in {"insertDeduct", "closeEntry"}
  OBVIOUS
<1>. HIDE DEF unpaid, deduct, stage
<1>5. [[loc[r] EXCEPT !.unpaid = unpaid] EXCEPT !.deduct = deduct] \in LocalsType
  BY <1>2, <1>3, LocalTypes DEF LocalsType
<1>6. loc' = [loc EXCEPT ![r] = [[loc[r] EXCEPT !.unpaid = unpaid] EXCEPT !.deduct = deduct]]
  BY <1>1, LocalTypes
<1>7. loc' \in [Requests -> LocalsType] /\ \A s \in Requests \ {r} : loc'[s] = loc[s]
  BY <1>5, <1>6 DEF TypeInv, TypeOK
<1>8. loc'[r].at = loc[r].at /\ pc'[r] = stage
  BY <1>1, <1>6, LocalTypes DEF LocalsType
<1>9. LocalsTyped(r)'
  BY <1>1, <1>4, <1>8, LocalTypes DEF LocalsTyped, Dated, Stamped, OnBreak
<1>10. stage \in Stages
  BY <1>4 DEF Stages
<1>. QED  BY <1>1, <1>7, <1>9, <1>10, MoveTypes

LEMMA ArriveTypes ==
  ASSUME TypeInv, RecordInv', NEW r \in Requests, ArriveAny(r)
  PROVE  TypeInv'
<1>1. PICK kind \in Kinds, queued \in {Null} \cup 1..now, paid \in BOOLEAN : Arrive(r, kind, queued, paid)
  BY DEF ArriveAny, Kinds
<1>2. /\ UNCHANGED <<now, tables, trails, sweep, failures, cutShort>>
      /\ requests < MaxRequests /\ requests' = requests + 1
      /\ pc' = [pc EXCEPT ![r] = "findOpen"]
      /\ loc' = [loc EXCEPT ![r] = [NoWork EXCEPT !.kind = kind, !.queued = queued, !.paid = paid]]
  BY <1>1 DEF Arrive, Goto
<1>3. queued \in Times
  BY LocalTypes DEF Times, Null
<1>4. [NoWork EXCEPT !.kind = kind, !.queued = queued, !.paid = paid] \in LocalsType
  BY <1>3, NoWorkTyped DEF LocalsType, NoWork
<1>5. loc' \in [Requests -> LocalsType] /\ \A s \in Requests \ {r} : loc'[s] = loc[s]
  BY <1>2, <1>4 DEF TypeInv, TypeOK
<1>6. LocalsTyped(r)'
  BY <1>2, LocalTypes DEF LocalsTyped, Dated, Stamped, OnBreak
<1>7. Cardinality(Unspent') <= Cardinality(Unspent) + 1 /\ Cardinality(Unspent) \in Nat
      /\ Cardinality(Unspent') \in Nat
  BY <1>2, Counted DEF Stages
<1>8. Len(entries) \in Nat /\ requests \in 0..MaxRequests /\ Len(entries) + Cardinality(Unspent) <= requests
  BY DEF TypeInv, TypeOK
<1>9. entries' = entries /\ breaks' = breaks /\ entryTrail' = entryTrail /\ breakTrail' = breakTrail
  BY <1>2 DEF tables, trails
<1>10. Len(entries') + Cardinality(Unspent') <= requests' /\ requests' \in 0..MaxRequests
  BY <1>2, <1>7, <1>8, <1>9, LocalTypes
<1>11. /\ entries' \in Seq(EntryType) /\ breaks' \in Seq(BreakType) /\ BreakIds \subseteq BreakIds'
       /\ entryTrail' \in Seq(Seq(EntryAudits)) /\ Len(entryTrail') = Len(entries')
       /\ breakTrail' \in Seq(Seq(BreakAudits)) /\ Len(breakTrail') = Len(breaks')
       /\ failures' \in 0..MaxFailures /\ cutShort' \subseteq 1..MaxRequests
  BY <1>2, <1>9 DEF TypeInv, TypeOK, BreakIds
<1>. QED  BY <1>2, <1>5, <1>6, <1>10, <1>11, StepTypes DEF Stages

\* A handler that fails leaves the entries it had in hand in cutShort.
LEMMA FailTypes ==
  ASSUME TypeInv, RecordInv', NEW r \in Requests, Fail(r)
  PROVE  TypeInv'
<1>1. /\ UNCHANGED <<now, tables, trails, sweep, requests>> /\ Respond(r)
      /\ failures < MaxFailures /\ failures' = failures + 1
      /\ cutShort' = cutShort \cup ({loc[r].entry, loc[r].next} \ {Null})
  BY DEF Fail
<1>2. loc[r].entry \in 0..MaxRequests /\ loc[r].next \in 0..MaxRequests
  BY LocalTypes DEF LocalsType
<1>3. failures' \in 0..MaxFailures /\ cutShort' \subseteq 1..MaxRequests
  <2>1. failures \in 0..MaxFailures /\ cutShort \subseteq 1..MaxRequests
    BY DEF TypeInv, TypeOK
  <2>2. {loc[r].entry, loc[r].next} \ {Null} \subseteq 1..MaxRequests
    BY <1>2, BoundsAssumption DEF Null
  <2>3. failures' \in 0..MaxFailures
    BY <1>1, <2>1, BoundsAssumption
  <2>. QED  BY <1>1, <2>1, <2>2, <2>3
<1>4. Cardinality(Unspent') <= Cardinality(Unspent) /\ Cardinality(Unspent) \in Nat
      /\ Cardinality(Unspent') \in Nat
  BY <1>1, RespondTypes, Counted
<1>5. Len(entries) \in Nat /\ requests \in Nat /\ Len(entries) + Cardinality(Unspent) <= requests
  BY DEF TypeInv, TypeOK
<1>6. /\ entries' = entries /\ breaks' = breaks /\ entryTrail' = entryTrail /\ breakTrail' = breakTrail
      /\ requests' = requests
  BY <1>1 DEF tables, trails
<1>7. Len(entries') + Cardinality(Unspent') <= requests'
  BY <1>4, <1>5, <1>6
<1>8. /\ entries' \in Seq(EntryType) /\ breaks' \in Seq(BreakType) /\ BreakIds \subseteq BreakIds'
      /\ entryTrail' \in Seq(Seq(EntryAudits)) /\ Len(entryTrail') = Len(entries')
      /\ breakTrail' \in Seq(Seq(BreakAudits)) /\ Len(breakTrail') = Len(breaks')
      /\ requests' \in 0..MaxRequests
  BY <1>6 DEF TypeInv, TypeOK, BreakIds
<1>. QED  BY <1>1, <1>3, <1>7, <1>8, RespondTypes, StepTypes

-----------------------------------------------------------------------------
(* The steps that write a row *)

\* The request that adds an entry has not added one yet.
LEMMA AddEntryTypes ==
  ASSUME TypeInv, RecordInv', NEW r \in Requests, InsertEntry(r) \/ InsertNext(r)
  PROVE  TypeInv'
<1>1. PICK flags, stage :
        /\ flags \in SUBSET Flags /\ stage \in Stages \ Spending
        /\ stage \in {"photo", "auditIn"} \/ stage = "auditSwitchClose"
        /\ entries' = Append(entries, NewEntry(EmployeeOf[r], loc[r].at, flags))
        /\ entryTrail' = Append(entryTrail, <<>>)
        /\ pc' = [pc EXCEPT ![r] = stage]
        /\ \/ loc' = [loc EXCEPT ![r].entry = Len(entries) + 1]
           \/ loc' = [loc EXCEPT ![r].next = Len(entries) + 1]
        /\ UNCHANGED <<now, breaks, breakTrail, sweep, bounds>>
  <2>1. CASE InsertEntry(r)
    <3>1. loc[r].flags \in SUBSET Flags
      BY LocalTypes DEF LocalsType
    <3>2. {"photo", "auditIn"} \subseteq Stages \ Spending
      BY DEF Stages, Spending
    <3>. QED  BY <2>1, <3>1, <3>2 DEF InsertEntry, Goto
  <2>2. CASE InsertNext(r)
    <3>1. "auditSwitchClose" \in Stages \ Spending /\ {} \in SUBSET Flags
      BY DEF Stages, Spending
    <3>. QED  BY <2>2, <3>1 DEF InsertNext, Goto
  <2>. QED  BY <2>1, <2>2
<1>2. pc[r] \in Spending /\ pc[r] \in Dated
  BY DEF InsertEntry, InsertNext, At, Spending, Stages, Dated
<1>3. loc[r].at \in 1..MaxTime
  <2>1. loc[r].at \in Times /\ loc[r].at # Null
    BY <1>2, LocalTypes DEF LocalsTyped, LocalsType
  <2>. QED  BY <2>1, LocalTypes DEF Times, Null
<1>4. NewEntry(EmployeeOf[r], loc[r].at, flags) \in EntryType
  BY <1>1, <1>3, OwnersAssumption, LocalTypes DEF NewEntry, EntryType, Times, Null
<1>5. /\ entries' \in Seq(EntryType) /\ Len(entries') = Len(entries) + 1 /\ Len(entries) \in Nat
      /\ entryTrail' \in Seq(Seq(EntryAudits)) /\ Len(entryTrail') = Len(entries')
  <2>1. /\ entries \in Seq(EntryType) /\ entryTrail \in Seq(Seq(EntryAudits))
        /\ Len(entryTrail) = Len(entries)
    BY DEF TypeInv, TypeOK
  <2>2. <<>> \in Seq(EntryAudits)
    OBVIOUS
  <2>. QED  BY <1>1, <1>4, <2>1, <2>2
<1>6. Len(entries') + Cardinality(Unspent') <= requests' /\ Len(entries) + 1 \in 0..MaxRequests
  <2>1. /\ Cardinality(Unspent') = Cardinality(Unspent) - 1 /\ Cardinality(Unspent) \in Nat
        /\ Cardinality(Unspent) >= 1
    BY <1>1, <1>2, Counted
  <2>2. Len(entries) + Cardinality(Unspent) <= requests /\ requests \in 0..MaxRequests /\ requests' = requests
    BY <1>1 DEF TypeInv, TypeOK, bounds
  <2>. QED  BY <1>5, <2>1, <2>2, LocalTypes
<1>7. PICK l \in LocalsType : loc' = [loc EXCEPT ![r] = l] /\ l.at = loc[r].at
  <2>1. /\ [loc[r] EXCEPT !.entry = Len(entries) + 1] \in LocalsType
        /\ [loc[r] EXCEPT !.next = Len(entries) + 1] \in LocalsType
    BY <1>6, LocalTypes DEF LocalsType
  <2>2. /\ [loc[r] EXCEPT !.entry = Len(entries) + 1].at = loc[r].at
        /\ [loc[r] EXCEPT !.next = Len(entries) + 1].at = loc[r].at
    BY LocalTypes DEF LocalsType
  <2>. QED  BY <1>1, <2>1, <2>2
<1>8. loc' \in [Requests -> LocalsType] /\ \A s \in Requests \ {r} : loc'[s] = loc[s]
  BY <1>7 DEF TypeInv, TypeOK
<1>9. LocalsTyped(r)'
  <2>1. pc'[r] = stage /\ stage \notin OnBreak /\ loc'[r].at = loc[r].at
    BY <1>1, <1>7, LocalTypes DEF OnBreak
  <2>. QED  BY <1>3, <2>1 DEF LocalsTyped, Null
<1>10. /\ breaks' \in Seq(BreakType) /\ BreakIds \subseteq BreakIds'
       /\ breakTrail' \in Seq(Seq(BreakAudits)) /\ Len(breakTrail') = Len(breaks')
       /\ failures' \in 0..MaxFailures /\ cutShort' \subseteq 1..MaxRequests
       /\ requests' \in 0..MaxRequests
  BY <1>1 DEF TypeInv, TypeOK, BreakIds, bounds
<1>. QED  BY <1>1, <1>5, <1>6, <1>8, <1>9, <1>10, StepTypes

\* Writing a row that is there.
LEMMA Rewritten ==
  ASSUME NEW S, NEW s \in Seq(S), NEW i, NEW x \in S
  PROVE  /\ [s EXCEPT ![i] = x] \in Seq(S) /\ Len([s EXCEPT ![i] = x]) = Len(s)
         /\ DOMAIN [s EXCEPT ![i] = x] = DOMAIN s
<1>1. s \in [1..Len(s) -> S] /\ Len(s) \in Nat
  OBVIOUS
<1>2. [s EXCEPT ![i] = x] \in [1..Len(s) -> S]
  BY <1>1
<1>3. [s EXCEPT ![i] = x] \in Seq(S)
  BY <1>1, <1>2, IsASeq
<1>. QED  BY <1>1, <1>2, <1>3, LenProperties

\* A step that adds no entry leaves the count as it is, or lower.
LEMMA CountKept ==
  ASSUME TypeInv, NEW r \in Requests, NEW stage \in Stages, pc' = [pc EXCEPT ![r] = stage],
         stage \in Spending => pc[r] \in Spending, Len(entries') = Len(entries), requests' = requests
  PROVE  Len(entries') + Cardinality(Unspent') <= requests'
<1>1. /\ Cardinality(Unspent) \in Nat /\ Cardinality(Unspent') \in Nat
      /\ stage \in Spending /\ pc[r] \in Spending => Cardinality(Unspent') = Cardinality(Unspent)
      /\ stage \notin Spending => Cardinality(Unspent') <= Cardinality(Unspent)
  BY Counted
<1>2. Len(entries) \in Nat /\ requests \in Nat /\ Len(entries) + Cardinality(Unspent) <= requests
  BY DEF TypeInv, TypeOK
<1>. QED  BY <1>1, <1>2

LEMMA UpdateEntryTypes ==
  ASSUME TypeInv, RecordInv', NEW r \in Requests, FlagPhoto(r) \/ CloseEntry(r)
  PROVE  TypeInv'
<1>1. /\ loc[r].entry \in EntryIds /\ entries[loc[r].entry] \in EntryType
      /\ loc[r] \in LocalsType
  <2>1. pc[r] \in HasEntry
    BY DEF FlagPhoto, CloseEntry, At, HasEntry
  <2>2. entries \in Seq(EntryType)
    BY DEF TypeInv, TypeOK
  <2>. QED  BY <2>1, <2>2, LocalTypes DEF HolderOK, Owns, EntryIds
<1>2. PICK row \in EntryType, stage \in {"auditIn", "auditOut", "insertNext"} :
        /\ entries' = [entries EXCEPT ![loc[r].entry] = row]
        /\ pc' = [pc EXCEPT ![r] = stage]
        /\ stage \in Spending => pc[r] \in Spending
        /\ stage \in Dated => pc[r] \in Dated
  <2>1. CASE FlagPhoto(r)
    <3>1. loc[r].flags \cup {"suspect"} \in SUBSET Flags
      BY <1>1 DEF LocalsType, Flags
    <3>2. [entries[loc[r].entry] EXCEPT !.flags = loc[r].flags \cup {"suspect"}] \in EntryType
      BY <1>1, <3>1 DEF EntryType
    <3>3. "auditIn" \notin Spending /\ "auditIn" \notin Dated
      BY DEF Spending, Dated, Stamped
    <3>. QED  BY <2>1, <3>2, <3>3 DEF FlagPhoto, Goto
  <2>2. CASE CloseEntry(r)
    <3>1. loc[r].at \in Times
      BY <1>1 DEF LocalsType
    <3>2. [entries[loc[r].entry] EXCEPT !.out = loc[r].at] \in EntryType
      BY <1>1, <3>1 DEF EntryType
    <3>3. pc[r] \in Spending /\ pc[r] \in Dated
      BY <2>2 DEF CloseEntry, At, Spending, Stages, Dated, Stamped
    <3>. QED  BY <2>2, <3>2, <3>3 DEF CloseEntry, Goto
  <2>. QED  BY <2>1, <2>2
<1>3. PICK l \in LocalsType : loc' = [loc EXCEPT ![r] = l] /\ l.at = loc[r].at
  <2>1. CASE UNCHANGED loc
    <3>1. loc' = [loc EXCEPT ![r] = loc[r]]
      BY <2>1 DEF TypeInv, TypeOK
    <3>. QED  BY <1>1, <3>1
  <2>2. CASE loc' = [loc EXCEPT ![r].flags = @ \cup {"suspect"}]
    <3>1. loc[r].flags \cup {"suspect"} \in SUBSET Flags
      BY <1>1 DEF LocalsType, Flags
    <3>2. [loc[r] EXCEPT !.flags = @ \cup {"suspect"}] \in LocalsType
      BY <1>1, <3>1 DEF LocalsType
    <3>3. [loc[r] EXCEPT !.flags = @ \cup {"suspect"}].at = loc[r].at
      BY <1>1 DEF LocalsType
    <3>. QED  BY <2>2, <3>2, <3>3
  <2>. QED  BY <2>1, <2>2 DEF FlagPhoto, CloseEntry
<1>4. /\ entries' \in Seq(EntryType) /\ Len(entries') = Len(entries)
      /\ entries \in Seq(EntryType)
  <2>1. entries \in Seq(EntryType)
    BY DEF TypeInv, TypeOK
  <2>. QED  BY <1>2, <2>1, Rewritten
<1>5. UNCHANGED <<now, breaks, trails, sweep, bounds>>
  BY DEF FlagPhoto, CloseEntry
<1>6. loc' \in [Requests -> LocalsType] /\ \A s \in Requests \ {r} : loc'[s] = loc[s]
  BY <1>3 DEF TypeInv, TypeOK
<1>7. LocalsTyped(r)'
  <2>1. pc'[r] = stage /\ stage \notin OnBreak /\ loc'[r].at = loc[r].at
    BY <1>2, <1>3, LocalTypes DEF OnBreak
  <2>. QED  BY <1>2, <2>1, LocalTypes DEF LocalsTyped
<1>8. stage \in Stages
  BY DEF Stages
<1>9. Len(entries') + Cardinality(Unspent') <= requests'
  BY <1>2, <1>4, <1>5, <1>8, CountKept DEF bounds
<1>10. /\ breaks' \in Seq(BreakType) /\ BreakIds \subseteq BreakIds'
       /\ entryTrail' \in Seq(Seq(EntryAudits)) /\ Len(entryTrail') = Len(entries')
       /\ breakTrail' \in Seq(Seq(BreakAudits)) /\ Len(breakTrail') = Len(breaks')
       /\ failures' \in 0..MaxFailures /\ cutShort' \subseteq 1..MaxRequests
       /\ requests' \in 0..MaxRequests
  BY <1>4, <1>5 DEF TypeInv, TypeOK, BreakIds, bounds, trails
<1>. QED  BY <1>2, <1>4, <1>5, <1>6, <1>7, <1>8, <1>9, <1>10, StepTypes

\* An entry there is has an id up to the bound.
LEMMA EntriesCounted ==
  ASSUME TypeInv, NEW r \in Requests
  PROVE  EntryIds \subseteq 1..MaxRequests
<1>1. Cardinality(Unspent) \in Nat
  BY FS_CardinalityType DEF TypeInv
<1>2. /\ Len(entries) \in Nat /\ Len(entries) + Cardinality(Unspent) <= requests /\ requests \in 0..MaxRequests
      /\ EntryIds = 1..Len(entries)
  BY DEF TypeInv, TypeOK, EntryIds
<1>. QED  BY <1>1, <1>2, LocalTypes

\* Breaks that are added, also those that begin before the shift, are of an entry that
\* there is.
LEMMA AddBreakTypes ==
  ASSUME TypeInv, RecordInv', NEW r \in Requests, InsertBreak(r) \/ InsertDeduct(r)
  PROVE  TypeInv'
<1>1. loc[r] \in LocalsType /\ loc[r].entry \in 1..MaxRequests /\ pc[r] \in Spending
  <2>1. pc[r] \in HasEntry /\ pc[r] \in Spending
    BY DEF InsertBreak, InsertDeduct, At, HasEntry, Spending, Stages
  <2>. QED  BY <2>1, LocalTypes, EntriesCounted DEF HolderOK, Owns
<1>2. PICK row \in BreakType, stage \in {"auditBreakStart", "auditDeduct"} :
        /\ breaks' = Append(breaks, row) /\ breakTrail' = Append(breakTrail, <<>>)
        /\ loc' = [loc EXCEPT ![r].brk = Len(breaks) + 1]
        /\ pc' = [pc EXCEPT ![r] = stage]
        /\ stage \in Dated => pc[r] \in Dated
        /\ UNCHANGED <<now, entries, entryTrail, sweep, bounds>>
  <2>1. CASE InsertBreak(r)
    <3>1. NewBreak(loc[r].entry, now, Null, loc[r].paid, FALSE) \in BreakType
      BY <1>1, LocalTypes DEF NewBreak, BreakType, Times, Null, LocalsType
    <3>2. "auditBreakStart" \notin Dated
      BY DEF Dated, Stamped
    <3>. QED  BY <2>1, <3>1, <3>2 DEF InsertBreak, Goto
  <2>2. CASE InsertDeduct(r)
    <3>1. loc[r].at \in Times /\ loc[r].deduct \in Nat
      BY <1>1 DEF LocalsType
    <3>2. loc[r].at - loc[r].deduct \in Int
      BY <3>1, LocalTypes DEF Times
    <3>3. NewBreak(loc[r].entry, loc[r].at - loc[r].deduct, loc[r].at, FALSE, TRUE) \in BreakType
      BY <1>1, <3>1, <3>2 DEF NewBreak, BreakType
    <3>4. pc[r] \in Dated
      BY <2>2 DEF InsertDeduct, At, Dated, Stamped
    <3>. QED  BY <2>2, <3>3, <3>4 DEF InsertDeduct, Goto
  <2>. QED  BY <2>1, <2>2
<1>3. /\ breaks \in Seq(BreakType) /\ breakTrail \in Seq(Seq(BreakAudits)) /\ Len(breakTrail) = Len(breaks)
      /\ BreakIds = 1..Len(breaks) /\ Len(breaks) \in Nat
  BY DEF TypeInv, TypeOK, BreakIds
<1>4. /\ breaks' \in Seq(BreakType) /\ BreakIds' = 1..(Len(breaks) + 1)
      /\ breakTrail' \in Seq(Seq(BreakAudits)) /\ Len(breakTrail') = Len(breaks')
  <2>1. <<>> \in Seq(BreakAudits)
    OBVIOUS
  <2>. QED  BY <1>2, <1>3, <2>1 DEF BreakIds
<1>5. [loc[r] EXCEPT !.brk = Len(breaks) + 1] \in LocalsType
  <2>1. Len(breaks) + 1 \in Nat
    BY <1>3
  <2>. QED  BY <1>1, <2>1 DEF LocalsType
<1>6. loc' \in [Requests -> LocalsType] /\ \A s \in Requests \ {r} : loc'[s] = loc[s]
  BY <1>2, <1>5 DEF TypeInv, TypeOK
<1>7. LocalsTyped(r)'
  <2>1. pc'[r] = stage /\ loc'[r].at = loc[r].at /\ loc'[r].brk = Len(breaks) + 1
    BY <1>1, <1>2, LocalTypes DEF LocalsType
  <2>2. Len(breaks) + 1 \in BreakIds'
    BY <1>3, <1>4
  <2>. QED  BY <1>2, <2>1, <2>2, LocalTypes DEF LocalsTyped
<1>8. stage \in Stages
  BY DEF Stages
<1>9. Len(entries') + Cardinality(Unspent') <= requests'
  BY <1>1, <1>2, <1>8, CountKept DEF bounds
<1>10. /\ entries' \in Seq(EntryType) /\ BreakIds \subseteq BreakIds'
       /\ entryTrail' \in Seq(Seq(EntryAudits)) /\ Len(entryTrail') = Len(entries')
       /\ failures' \in 0..MaxFailures /\ cutShort' \subseteq 1..MaxRequests
       /\ requests' \in 0..MaxRequests
  BY <1>2, <1>3, <1>4 DEF TypeInv, TypeOK, bounds
<1>. QED  BY <1>2, <1>4, <1>6, <1>7, <1>8, <1>9, <1>10, StepTypes

LEMMA EndBreakTypes ==
  ASSUME TypeInv, RecordInv', NEW r \in Requests, EndBreak(r)
  PROVE  TypeInv'
<1>1. /\ pc[r] = "endBreak" /\ pc' = [pc EXCEPT ![r] = "auditBreakEnd"]
      /\ breaks' = [breaks EXCEPT ![loc[r].brk].end = loc[r].at]
      /\ UNCHANGED <<now, entries, trails, loc, sweep, bounds>>
  BY DEF EndBreak, Goto, At
<1>2. loc[r].brk \in BreakIds /\ loc[r].at # Null /\ loc[r].at \in Times
  BY <1>1, LocalTypes DEF LocalsTyped, OnBreak, Dated, Stamped, LocalsType
<1>3. breaks \in Seq(BreakType) /\ breaks[loc[r].brk] \in BreakType
  BY <1>2 DEF TypeInv, TypeOK, BreakIds
<1>4. [breaks[loc[r].brk] EXCEPT !.end = loc[r].at] \in BreakType
  BY <1>2, <1>3 DEF BreakType
<1>5. breaks' \in Seq(BreakType) /\ Len(breaks') = Len(breaks) /\ BreakIds' = BreakIds
  BY <1>1, <1>3, <1>4, Rewritten DEF BreakIds
<1>6. LocalsTyped(r)'
  BY <1>1, <1>2, <1>5, LocalTypes DEF LocalsTyped
<1>7. "auditBreakEnd" \in Stages /\ pc[r] \in Spending
  BY <1>1 DEF Stages, Spending
<1>8. Len(entries') + Cardinality(Unspent') <= requests'
  BY <1>1, <1>7, CountKept DEF bounds
<1>9. loc' \in [Requests -> LocalsType] /\ \A s \in Requests \ {r} : loc'[s] = loc[s]
  BY <1>1 DEF TypeInv, TypeOK
<1>10. /\ entries' \in Seq(EntryType)
       /\ entryTrail' \in Seq(Seq(EntryAudits)) /\ Len(entryTrail') = Len(entries')
       /\ breakTrail' \in Seq(Seq(BreakAudits)) /\ Len(breakTrail') = Len(breaks')
       /\ failures' \in 0..MaxFailures /\ cutShort' \subseteq 1..MaxRequests
       /\ requests' \in 0..MaxRequests
  BY <1>1, <1>5 DEF TypeInv, TypeOK, bounds, trails
<1>. QED  BY <1>1, <1>5, <1>6, <1>7, <1>8, <1>9, <1>10, StepTypes

-----------------------------------------------------------------------------
(* The audit rows *)

\* One more row in the trail of one of the entries, or breaks.
LEMMA TrailTyped ==
  ASSUME NEW S, NEW trail \in Seq(Seq(S)), NEW i \in DOMAIN trail, NEW row \in S
  PROVE  /\ [trail EXCEPT ![i] = Append(@, row)] \in Seq(Seq(S))
         /\ Len([trail EXCEPT ![i] = Append(@, row)]) = Len(trail)
<1>1. trail[i] \in Seq(S)
  OBVIOUS
<1>2. Append(trail[i], row) \in Seq(S)
  BY <1>1
<1>. QED  BY <1>2, Rewritten

\* An audit row about an entry, after which the handler answers or goes on.
LEMMA EntryAuditTypes ==
  ASSUME TypeInv, RecordInv', NEW r \in Requests,
         AuditIn(r) \/ AuditOut(r) \/ AuditSwitchClose(r) \/ AuditSwitchOpen(r)
  PROVE  TypeInv'
<1>1. /\ loc[r] \in LocalsType /\ loc[r].at \in Times /\ loc[r].in \in Times
      /\ loc[r].unpaid \in Nat /\ loc[r].deduct \in Nat
  BY LocalTypes DEF LocalsType
<1>2. WorkedMinutes(loc[r].in, loc[r].at, loc[r].unpaid + loc[r].deduct) \in Nat
  BY <1>1, LocalTypes DEF WorkedMinutes, Times
<1>3. Null \in Times
  BY LocalTypes DEF Null, Times
<1>4. PICK e \in EntryIds, row \in EntryAudits :
        entryTrail' = [entryTrail EXCEPT ![e] = Append(@, row)]
  <2>1. CASE AuditIn(r)
    <3>1. loc[r].entry \in EntryIds
      BY <2>1, LocalTypes DEF AuditIn, At, HolderOK, HasEntry, Owns
    <3>2. [action |-> "clock_in", out |-> Null, worked |-> 0] \in EntryAudits
      BY <1>3 DEF EntryAudits
    <3>. QED  BY <2>1, <3>1, <3>2 DEF AuditIn, AuditEntry
  <2>2. CASE AuditOut(r)
    <3>1. loc[r].entry \in EntryIds
      BY <2>2, LocalTypes DEF AuditOut, At, HolderOK, HasEntry, Owns
    <3>2. [action |-> "clock_out", out |-> loc[r].at,
           worked |-> WorkedMinutes(loc[r].in, loc[r].at, loc[r].unpaid + loc[r].deduct)] \in EntryAudits
      BY <1>1, <1>2 DEF EntryAudits
    <3>. QED  BY <2>2, <3>1, <3>2 DEF AuditOut, AuditEntry
  <2>3. CASE AuditSwitchClose(r)
    <3>1. loc[r].entry \in EntryIds
      BY <2>3, LocalTypes DEF AuditSwitchClose, At, HolderOK, HasEntry, Owns
    <3>2. [action |-> "switch_job_close", out |-> loc[r].at, worked |-> 0] \in EntryAudits
      BY <1>1 DEF EntryAudits
    <3>. QED  BY <2>3, <3>1, <3>2 DEF AuditSwitchClose, AuditEntry
  <2>4. CASE AuditSwitchOpen(r)
    <3>1. loc[r].next \in EntryIds
      BY <2>4, LocalTypes DEF AuditSwitchOpen, At, HolderOK, HasNext, Owns
    <3>2. [action |-> "switch_job_open", out |-> Null, worked |-> 0] \in EntryAudits
      BY <1>3 DEF EntryAudits
    <3>. QED  BY <2>4, <3>1, <3>2 DEF AuditSwitchOpen, AuditEntry
  <2>. QED  BY <2>1, <2>2, <2>3, <2>4
<1>5. /\ entryTrail \in Seq(Seq(EntryAudits)) /\ Len(entryTrail) = Len(entries)
      /\ DOMAIN entryTrail = EntryIds
  BY DEF TypeInv, TypeOK, EntryIds
<1>6. entryTrail' \in Seq(Seq(EntryAudits)) /\ Len(entryTrail') = Len(entryTrail)
  BY <1>4, <1>5, TrailTyped
<1>7. UNCHANGED <<now, tables, breakTrail, sweep, bounds>>
  BY DEF AuditIn, AuditOut, AuditSwitchClose, AuditSwitchOpen
<1>8. PICK stage \in {"idle", "auditSwitchOpen"} :
        /\ pc' = [pc EXCEPT ![r] = stage]
        /\ loc' \in [Requests -> LocalsType] /\ \A s \in Requests \ {r} : loc'[s] = loc[s]
        /\ LocalsTyped(r)'
  <2>1. CASE Respond(r)
    BY <2>1, RespondTypes
  <2>2. CASE pc' = [pc EXCEPT ![r] = "auditSwitchOpen"] /\ UNCHANGED loc
    <3>1. loc' \in [Requests -> LocalsType] /\ \A s \in Requests \ {r} : loc'[s] = loc[s]
      BY <2>2 DEF TypeInv, TypeOK
    <3>2. pc'[r] = "auditSwitchOpen"
      BY <2>2, LocalTypes
    <3>3. LocalsTyped(r)'
      BY <3>2 DEF LocalsTyped, Dated, Stamped, OnBreak
    <3>. QED  BY <2>2, <3>1, <3>3
  <2>. QED  BY <2>1, <2>2 DEF AuditIn, AuditOut, AuditSwitchClose, AuditSwitchOpen, Goto
<1>9. stage \in Stages /\ stage \notin Spending
  BY DEF Stages, Spending
<1>10. Len(entries') + Cardinality(Unspent') <= requests'
  BY <1>7, <1>8, <1>9, CountKept DEF bounds, tables
<1>11. /\ entries' \in Seq(EntryType) /\ breaks' \in Seq(BreakType) /\ BreakIds \subseteq BreakIds'
       /\ Len(entryTrail') = Len(entries')
       /\ breakTrail' \in Seq(Seq(BreakAudits)) /\ Len(breakTrail') = Len(breaks')
       /\ failures' \in 0..MaxFailures /\ cutShort' \subseteq 1..MaxRequests
       /\ requests' \in 0..MaxRequests
  BY <1>5, <1>6, <1>7 DEF TypeInv, TypeOK, BreakIds, bounds, tables
<1>. QED  BY <1>6, <1>7, <1>8, <1>9, <1>10, <1>11, StepTypes

\* An audit row about a break.
LEMMA BreakAuditTypes ==
  ASSUME TypeInv, RecordInv', NEW r \in Requests,
         AuditBreakStart(r) \/ AuditBreakEnd(r) \/ AuditDeduct(r)
  PROVE  TypeInv'
<1>1. loc[r].brk \in BreakIds /\ loc[r].at \in Times /\ Null \in Times
  <2>1. pc[r] \in OnBreak
    BY DEF AuditBreakStart, AuditBreakEnd, AuditDeduct, At, OnBreak
  <2>. QED  BY <2>1, LocalTypes DEF LocalsType, LocalsTyped, Null, Times
<1>2. PICK row \in BreakAudits : breakTrail' = [breakTrail EXCEPT ![loc[r].brk] = Append(@, row)]
  <2>1. ASSUME NEW action \in {"break_start", "break_end", "auto_deduct"}, NEW end \in Times
        PROVE  [action |-> action, end |-> end] \in BreakAudits
    BY DEF BreakAudits
  <2>2. CASE AuditBreakStart(r)
    BY <1>1, <2>1, <2>2 DEF AuditBreakStart, AuditBreak
  <2>3. CASE AuditBreakEnd(r)
    BY <1>1, <2>1, <2>3 DEF AuditBreakEnd, AuditBreak
  <2>4. CASE AuditDeduct(r)
    BY <1>1, <2>1, <2>4 DEF AuditDeduct, AuditBreak
  <2>. QED  BY <2>2, <2>3, <2>4
<1>3. /\ breakTrail \in Seq(Seq(BreakAudits)) /\ Len(breakTrail) = Len(breaks)
      /\ DOMAIN breakTrail = BreakIds
  BY DEF TypeInv, TypeOK, BreakIds
<1>4. breakTrail' \in Seq(Seq(BreakAudits)) /\ Len(breakTrail') = Len(breakTrail)
  BY <1>1, <1>2, <1>3, TrailTyped
<1>5. UNCHANGED <<now, tables, entryTrail, sweep, bounds>>
  BY DEF AuditBreakStart, AuditBreakEnd, AuditDeduct
<1>6. PICK stage \in {"idle", "deduct", "closeEntry"} :
        /\ pc' = [pc EXCEPT ![r] = stage]
        /\ stage \in Spending => pc[r] \in Spending
        /\ loc' \in [Requests -> LocalsType] /\ \A s \in Requests \ {r} : loc'[s] = loc[s]
        /\ LocalsTyped(r)'
  <2>1. CASE Respond(r)
    BY <2>1, RespondTypes
  <2>2. ASSUME NEW stage \in {"deduct", "closeEntry"}, pc' = [pc EXCEPT ![r] = stage], UNCHANGED loc,
               pc[r] \in {"auditBreakEnd", "auditDeduct"}
        PROVE  /\ stage \in Spending => pc[r] \in Spending
               /\ loc' \in [Requests -> LocalsType] /\ \A s \in Requests \ {r} : loc'[s] = loc[s]
               /\ LocalsTyped(r)'
    <3>1. loc' \in [Requests -> LocalsType] /\ \A s \in Requests \ {r} : loc'[s] = loc[s]
      BY <2>2 DEF TypeInv, TypeOK
    <3>2. pc'[r] = stage /\ stage \notin OnBreak /\ pc[r] \in Dated /\ pc[r] \in Spending
      BY <2>2, LocalTypes DEF OnBreak, Dated, Stamped, Spending, Stages
    <3>3. LocalsTyped(r)'
      BY <2>2, <3>2, LocalTypes DEF LocalsTyped
    <3>. QED  BY <3>1, <3>2, <3>3
  <2>3. \/ Respond(r)
        \/ \E stage \in {"deduct", "closeEntry"} :
             pc' = [pc EXCEPT ![r] = stage] /\ UNCHANGED loc /\ pc[r] \in {"auditBreakEnd", "auditDeduct"}
    BY DEF AuditBreakStart, AuditBreakEnd, AuditDeduct, Goto, At
  <2>. QED  BY <2>1, <2>2, <2>3, RespondTypes
<1>7. stage \in Stages
  BY DEF Stages
<1>8. Len(entries') + Cardinality(Unspent') <= requests'
  BY <1>5, <1>6, <1>7, CountKept DEF bounds, tables
<1>9. /\ entries' \in Seq(EntryType) /\ breaks' \in Seq(BreakType) /\ BreakIds \subseteq BreakIds'
      /\ entryTrail' \in Seq(Seq(EntryAudits)) /\ Len(entryTrail') = Len(entries')
      /\ Len(breakTrail') = Len(breaks')
      /\ failures' \in 0..MaxFailures /\ cutShort' \subseteq 1..MaxRequests
      /\ requests' \in 0..MaxRequests
  BY <1>3, <1>4, <1>5 DEF TypeInv, TypeOK, BreakIds, bounds, tables
<1>. QED  BY <1>4, <1>5, <1>6, <1>7, <1>8, <1>9, StepTypes

-----------------------------------------------------------------------------
(* The sweep and the clock *)

\* A step that leaves the requests alone has to see to the rows.
LEMMA SweepStepTypes ==
  ASSUME TypeInv, RecordInv', UNCHANGED <<pc, loc, breakTrail, requests>>,
         now' \in 1..MaxTime, sweep' \in SweepType,
         entries' \in Seq(EntryType), Len(entries') = Len(entries),
         breaks' \in Seq(BreakType), Len(breaks') = Len(breaks),
         entryTrail' \in Seq(Seq(EntryAudits)), Len(entryTrail') = Len(entries),
         failures' \in 0..MaxFailures, cutShort' \subseteq 1..MaxRequests
  PROVE  TypeInv'
<1>1. TypeOK' /\ breakTrail' \in Seq(Seq(BreakAudits))
  BY DEF TypeInv, TypeOK
<1>2. Unspent' = Unspent
  BY DEF Unspent
<1>3. IsFiniteSet(Unspent') /\ Len(entries') + Cardinality(Unspent') <= requests'
  BY <1>2 DEF TypeInv
<1>4. BreakIds' = BreakIds
  BY DEF TypeInv, TypeOK, BreakIds
<1>5. \A s \in Requests : LocalsTyped(s)'
  BY <1>4 DEF TypeInv, LocalsTyped
<1>. QED  BY <1>1, <1>3, <1>5 DEF TypeInv

\* What the sweep has in hand.
LEMMA SweepTypes ==
  ASSUME TypeInv
  PROVE  /\ sweep \in SweepType /\ sweep.left \subseteq EntryIds
         /\ sweep.stage \in {"close", "audit"} => sweep.entry \in EntryIds
         /\ EntryIds = 1..Len(entries) /\ EntryIds \subseteq 1..MaxRequests
         /\ now \in 1..MaxTime /\ MaxTime \in Nat /\ MaxRequests \in Nat
<1>1. Cardinality(Unspent) \in Nat
  BY FS_CardinalityType DEF TypeInv
<1>2. /\ Len(entries) \in Nat /\ Len(entries) + Cardinality(Unspent) <= requests /\ requests \in 0..MaxRequests
      /\ EntryIds = 1..Len(entries)
  BY DEF TypeInv, TypeOK, EntryIds
<1>3. EntryIds \subseteq 1..MaxRequests
  BY <1>1, <1>2, BoundsAssumption
<1>. QED  BY <1>2, <1>3, BoundsAssumption DEF TypeInv, TypeOK, RecordInv, SweepHolds

LEMMA SweepQuietTypes ==
  ASSUME TypeInv, RecordInv', Tick \/ SweepSelect \/ SweepNotify \/ SweepFail \/ UNCHANGED vars
  PROVE  TypeInv'
<1>1. UNCHANGED <<pc, loc, entries, breaks, entryTrail, breakTrail, requests>>
  BY DEF Tick, SweepSelect, SweepNotify, SweepFail, vars, tables, trails, bounds
<1>2. now' \in 1..MaxTime
  BY SweepTypes DEF Tick, SweepSelect, SweepNotify, SweepFail, vars
<1>3. sweep' \in SweepType
  <2>1. CASE UNCHANGED sweep
    BY <2>1, SweepTypes
  <2>2. CASE SweepSelect
    <3>1. {e \in DOMAIN entries : Overdue(e)} \in SUBSET (1..MaxRequests)
      BY SweepTypes DEF EntryIds
    <3>2. now \in Times /\ sweep \in SweepType
      BY SweepTypes DEF Times
    <3>. QED  BY <2>2, <3>1, <3>2 DEF SweepSelect, SweepType
  <2>3. CASE SweepEnds
    <3>1. Null \in Times /\ Null \in 0..MaxRequests /\ sweep.enabled \in BOOLEAN
      BY SweepTypes DEF Times, Null, SweepType
    <3>. QED  BY <2>3, <3>1 DEF SweepEnds, SweepIdle, SweepType
  <2>4. CASE sweep' = [sweep EXCEPT !.stage = "next", !.entry = Null]
    <3>1. Null \in 0..MaxRequests /\ sweep \in SweepType
      BY SweepTypes DEF Null
    <3>. QED  BY <2>4, <3>1 DEF SweepType
  <2>. QED  BY <2>1, <2>2, <2>3, <2>4 DEF Tick, SweepNotify, SweepFail, vars
<1>4. failures' \in 0..MaxFailures /\ cutShort' \subseteq 1..MaxRequests
  <2>1. failures \in 0..MaxFailures /\ cutShort \subseteq 1..MaxRequests
    BY DEF TypeInv, TypeOK
  <2>2. CASE SweepFail
    <3>1. sweep.entry \in 0..MaxRequests
      BY SweepTypes DEF SweepType
    <3>2. {sweep.entry} \ {Null} \subseteq 1..MaxRequests
      BY <3>1, SweepTypes DEF Null
    <3>3. failures' = failures + 1 /\ failures < MaxFailures
          /\ cutShort' = cutShort \cup ({sweep.entry} \ {Null})
      BY <2>2 DEF SweepFail
    <3>4. failures' \in 0..MaxFailures
      BY <2>1, <3>3, BoundsAssumption
    <3>. QED  BY <2>1, <3>2, <3>3, <3>4
  <2>. QED  BY <2>1, <2>2 DEF Tick, SweepSelect, SweepNotify, vars, bounds
<1>5. /\ entries' \in Seq(EntryType) /\ Len(entries') = Len(entries)
      /\ breaks' \in Seq(BreakType) /\ Len(breaks') = Len(breaks)
      /\ entryTrail' \in Seq(Seq(EntryAudits)) /\ Len(entryTrail') = Len(entries)
  BY <1>1 DEF TypeInv, TypeOK
<1>. QED  BY <1>1, <1>2, <1>3, <1>4, <1>5, SweepStepTypes

LEMMA SweepEndBreaksTypes ==
  ASSUME TypeInv, RecordInv', NEW e \in sweep.left, SweepEndBreaks(e)
  PROVE  TypeInv'
<1>1. UNCHANGED <<now, entries, trails, pc, loc, bounds>>
  BY DEF SweepEndBreaks
<1>2. sweep.at \in Times /\ sweep \in SweepType /\ e \in 0..MaxRequests
  BY SweepTypes DEF SweepType
<1>3. sweep' \in SweepType
  <2>1. sweep.left \ {e} \in SUBSET (1..MaxRequests)
    BY SweepTypes DEF SweepType
  <2>. QED  BY <1>2, <2>1 DEF SweepEndBreaks, SweepType
<1>4. breaks \in Seq(BreakType) /\ DOMAIN breaks = 1..Len(breaks) /\ Len(breaks) \in Nat
  BY DEF TypeInv, TypeOK
<1>5. breaks' \in Seq(BreakType) /\ Len(breaks') = Len(breaks)
  <2>1. ASSUME NEW b \in DOMAIN breaks
        PROVE  /\ breaks[b] \in BreakType
               /\ [breaks[b] EXCEPT !.end = sweep.at] \in BreakType
    <3>1. breaks[b] \in BreakType
      BY <1>4
    <3>. QED  BY <1>2, <3>1 DEF BreakType
  <2>2. breaks' \in [1..Len(breaks) -> BreakType]
    BY <1>4, <2>1 DEF SweepEndBreaks
  <2>3. breaks' \in Seq(BreakType)
    BY <1>4, <2>2, IsASeq
  <2>. QED  BY <1>4, <2>2, <2>3, LenProperties
<1>6. /\ entries' \in Seq(EntryType) /\ Len(entries') = Len(entries)
      /\ entryTrail' \in Seq(Seq(EntryAudits)) /\ Len(entryTrail') = Len(entries)
      /\ failures' \in 0..MaxFailures /\ cutShort' \subseteq 1..MaxRequests
      /\ UNCHANGED <<pc, loc, breakTrail, requests>> /\ now' \in 1..MaxTime
  BY <1>1 DEF TypeInv, TypeOK, trails, bounds
<1>. QED  BY <1>3, <1>5, <1>6, SweepStepTypes

LEMMA SweepCloseTypes ==
  ASSUME TypeInv, RecordInv', SweepCloseEntry \/ SweepAudit
  PROVE  TypeInv'
<1>1. /\ sweep.entry \in EntryIds /\ sweep.at \in Times /\ sweep \in SweepType
      /\ UNCHANGED <<now, breaks, breakTrail, pc, loc, bounds>>
  BY SweepTypes DEF SweepType, SweepCloseEntry, SweepAudit, SweepAt, tables, trails
<1>2. sweep' \in SweepType
  BY <1>1 DEF SweepType, SweepCloseEntry, SweepAudit, SweepGoto
<1>3. /\ entries \in Seq(EntryType) /\ entryTrail \in Seq(Seq(EntryAudits))
      /\ Len(entryTrail) = Len(entries) /\ DOMAIN entryTrail = EntryIds
      /\ entries[sweep.entry] \in EntryType
  BY <1>1 DEF TypeInv, TypeOK, EntryIds
<1>4. /\ entries' \in Seq(EntryType) /\ Len(entries') = Len(entries)
      /\ entryTrail' \in Seq(Seq(EntryAudits)) /\ Len(entryTrail') = Len(entries)
  <2>1. CASE SweepCloseEntry
    <3>1. [[entries[sweep.entry] EXCEPT !.out = sweep.at] EXCEPT !.edited = TRUE] \in EntryType
      BY <1>1, <1>3 DEF EntryType
    <3>2. entries' = [entries EXCEPT ![sweep.entry] =
                        [[entries[sweep.entry] EXCEPT !.out = sweep.at] EXCEPT !.edited = TRUE]]
      BY <1>3, <2>1 DEF SweepCloseEntry
    <3>3. entryTrail' = entryTrail
      BY <2>1 DEF SweepCloseEntry, trails
    <3>. DEFINE row == [[entries[sweep.entry] EXCEPT !.out = sweep.at] EXCEPT !.edited = TRUE]
    <3>. HIDE DEF row
    <3>4. entries' \in Seq(EntryType) /\ Len(entries') = Len(entries)
      <4>1. row \in EntryType /\ entries' = [entries EXCEPT ![sweep.entry] = row]
        BY <3>1, <3>2 DEF row
      <4>2. entries \in Seq(EntryType)
        BY <1>3
      <4>. QED  BY <4>1, <4>2, Rewritten
    <3>. QED  BY <1>3, <3>3, <3>4
  <2>2. CASE SweepAudit
    <3>1. [action |-> "auto_clockout", out |-> sweep.at, worked |-> 0] \in EntryAudits
      BY <1>1 DEF EntryAudits
    <3>2. entries' = entries
      BY <2>2 DEF SweepAudit, tables
    <3>3. entryTrail' = [entryTrail EXCEPT ![sweep.entry] =
                           Append(@, [action |-> "auto_clockout", out |-> sweep.at, worked |-> 0])]
      BY <2>2 DEF SweepAudit, AuditEntry
    <3>. QED  BY <1>1, <1>3, <3>1, <3>2, <3>3, TrailTyped
  <2>. QED  BY <2>1, <2>2
<1>5. /\ breaks' \in Seq(BreakType) /\ Len(breaks') = Len(breaks)
      /\ failures' \in 0..MaxFailures /\ cutShort' \subseteq 1..MaxRequests
      /\ requests' = requests /\ now' \in 1..MaxTime
  BY <1>1 DEF TypeInv, TypeOK, bounds
<1>. QED  BY <1>1, <1>2, <1>4, <1>5, SweepStepTypes

-----------------------------------------------------------------------------

LEMMA TypeInit == Init => TypeInv
<1>. SUFFICES ASSUME Init PROVE TypeInv
  OBVIOUS
<1>1. /\ now = 1 /\ entries = <<>> /\ breaks = <<>> /\ entryTrail = <<>> /\ breakTrail = <<>>
      /\ pc = [r \in Requests |-> "idle"] /\ loc = [r \in Requests |-> NoWork]
      /\ requests = 0 /\ failures = 0 /\ cutShort = {}
  BY DEF Init
<1>2. sweep \in SweepType
  <2>1. PICK enabled \in BOOLEAN : sweep = [SweepIdle EXCEPT !.enabled = enabled]
    BY DEF Init
  <2>2. Null \in Times /\ Null \in 0..MaxRequests
    BY BoundsAssumption DEF Null, Times
  <2>. QED  BY <2>1, <2>2 DEF SweepIdle, SweepType
<1>3. TypeOK
  BY <1>1, <1>2, NoWorkTyped, BoundsAssumption DEF TypeOK, Stages
<1>4. Unspent = {}
  BY <1>1 DEF Unspent, Spending
<1>5. IsFiniteSet(Unspent) /\ Len(entries) + Cardinality(Unspent) <= requests
  BY <1>1, <1>4, FS_EmptySet
<1>6. \A r \in Requests : LocalsTyped(r)
  BY <1>1 DEF LocalsTyped, Dated, Stamped, OnBreak
<1>7. entryTrail \in Seq(Seq(EntryAudits)) /\ breakTrail \in Seq(Seq(BreakAudits))
  BY <1>1
<1>. QED  BY <1>3, <1>5, <1>6, <1>7, RecordInit DEF TypeInv

LEMMA TypeNext ==
  ASSUME TypeInv, [Next]_vars
  PROVE  TypeInv'
<1>1. RecordInv'
  BY RecordNext DEF TypeInv
<1>2. ASSUME NEW r \in Requests, HandlerStep(r) PROVE TypeInv'
  BY <1>1, <1>2, FindOpenTypes, CheckTypes, AddEntryTypes, UpdateEntryTypes, EntryAuditTypes, FindBreakTypes,
     AddBreakTypes, BreakAuditTypes, EndBreakTypes, ReadBreaksTypes DEF HandlerStep
<1>3. ASSUME NEW r \in Requests, ArriveAny(r) \/ Fail(r) PROVE TypeInv'
  BY <1>1, <1>3, ArriveTypes, FailTypes
<1>4. ASSUME SweepStep \/ SweepFail \/ Tick \/ UNCHANGED vars PROVE TypeInv'
  BY <1>1, <1>4, SweepQuietTypes, SweepEndBreaksTypes, SweepCloseTypes DEF SweepStep
<1>. QED  BY <1>2, <1>3, <1>4 DEF Next

\* Every row and every request's locals stay of their types, each entry and break has its
\* own trail, and there are no more entries than requests were made: however many requests
\* of an employee race, and wherever they fail (clock.ts, auto-clockout.ts).
THEOREM PunchTypes == Spec => []TypeOK
<1>1. TypeInv /\ [Next]_vars => TypeInv'
  BY TypeNext
<1>2. TypeInv => TypeOK
  BY DEF TypeInv
<1>. QED  BY <1>1, <1>2, TypeInit, PTL DEF Spec

-----------------------------------------------------------------------------
(***************************************************************************)
(* What a finished handler leaves behind of a shift: its audit trail tells *)
(* the shift as it stands, and the meal break has been settled             *)
(* (TrailTellsEntry, MealBreakSettled), when no employee has two requests  *)
(* in progress.                                                            *)
(*                                                                         *)
(* The argument: of an entry neither the sweep nor a failure got hold of,  *)
(* each statement of its employee's one handler leaves something known:    *)
(* between the two writes of a handler it is in the handler's locals, and  *)
(* after its audit row it is in the trail.                                 *)
(***************************************************************************)

Untouched(e) == ~entries[e].edited /\ e \notin cutShort /\ sweep.entry # e

NoAuto(e) == \A b \in BreaksOf(e) : ~breaks[b].auto

\* The unpaid minutes taken are what the meal break rule asks for.
MealTaken(e, taken) ==
  /\ Span(e) > DeductAfter => taken >= DeductMin
  /\ ~NoAuto(e) => taken = DeductMin

\* The trail's last word is what the entry says.
Told(e) ==
  /\ entryTrail[e] # <<>>
  /\ LastWord(e).out = entries[e].out
  /\ LastWord(e).action = "clock_out" =>
       LET taken == UnpaidMinutes(e, entries[e].out) IN
       /\ Closed(e)
       /\ LastWord(e).worked = WorkedMinutes(entries[e].in, entries[e].out, taken)
       /\ MealTaken(e, taken)

\* Request r has written the end of e and owes its audit row.
EndOwed(r, e) == pc[r] \in {"auditOut", "insertNext", "auditSwitchClose"} /\ loc[r].entry = e

ClockingOut(r, e, stages) == pc[r] \in stages /\ loc[r].kind = "out" /\ loc[r].entry = e

\* The deduction is right for the breaks there are.
DeductRight(r, e) ==
  /\ loc[r].deduct = AutoDeduct(loc[r].at - entries[e].in, loc[r].unpaid)
  /\ UnpaidMinutes(e, loc[r].at) =
       IF pc[r] = "insertDeduct" THEN loc[r].unpaid ELSE loc[r].unpaid + loc[r].deduct
  /\ loc[r].deduct = 0 => NoAuto(e) /\ pc[r] # "insertDeduct"

Deducted == {"auditDeduct", "closeEntry"}
Deducting == {"insertDeduct"} \cup Deducted

\* How far the story of e has come when r is the request of its employee.
Story(r, e) ==
  /\ StartPending(r, e) => ~Closed(e) /\ entryTrail[e] = <<>>
  /\ EndOwed(r, e) => entries[e].out = loc[r].at
  /\ EndOwed(r, e) /\ pc[r] = "auditOut" =>
       LET taken == loc[r].unpaid + loc[r].deduct IN
       UnpaidMinutes(e, loc[r].at) = taken /\ MealTaken(e, taken)
  /\ ~StartPending(r, e) /\ ~EndOwed(r, e) => Told(e)
  /\ ClockingOut(r, e, Deducting) => DeductRight(r, e)
  /\ ~Closed(e) /\ ~ClockingOut(r, e, Deducted) => NoAuto(e)

\* What a handler's locals say of the rows they came from.
Grasp(r) ==
  /\ pc[r] \in Working \cup {"auditOut"} => loc[r].in = entries[loc[r].entry].in
  /\ pc[r] \in {"deduct", "insertDeduct", "auditDeduct"} => loc[r].kind = "out"
  /\ pc[r] = "endBreak" => breaks[loc[r].brk].entry = loc[r].entry

Rooted ==
  /\ \A e \in EntryIds : \E r \in Requests : entries[e].emp = EmployeeOf[r]
  /\ \A b \in BreakIds : breaks[b].entry \in EntryIds

SweepGrasp ==
  sweep.entry # Null =>
    /\ sweep.entry \in EntryIds
    /\ sweep.stage = "close" \/ entries[sweep.entry].edited

StoryInv ==
  /\ TypeInv /\ ShiftInv
  /\ Rooted /\ SweepGrasp
  /\ \A r \in Requests : Grasp(r)
  /\ \A r \in Requests, e \in EntryIds : Owns(r, e) /\ Untouched(e) => Story(r, e)

-----------------------------------------------------------------------------
(* What steps have in common *)

\* The entry, its breaks and its trail stay as they are.
Alike(e) ==
  /\ entries'[e] = entries[e] /\ entryTrail'[e] = entryTrail[e]
  /\ BreaksOf(e)' = BreaksOf(e)
  /\ \A b \in BreaksOf(e) : breaks'[b] = breaks[b]

LEMMA AlikeFacts ==
  ASSUME NEW e, Alike(e)
  PROVE  /\ \A at : UnpaidMinutes(e, at)' = UnpaidMinutes(e, at)
         /\ NoAuto(e)' = NoAuto(e) /\ Closed(e)' = Closed(e)
         /\ \A taken : MealTaken(e, taken)' = MealTaken(e, taken)
         /\ Told(e) => Told(e)'
<1>1. \A at : UnpaidMinutes(e, at)' = UnpaidMinutes(e, at)
  BY UnpaidSame DEF Alike
<1>2. NoAuto(e)' = NoAuto(e)
  BY DEF NoAuto, Alike
<1>3. Closed(e)' = Closed(e) /\ Span(e)' = Span(e) /\ LastWord(e)' = LastWord(e)
  BY DEF Alike, Closed, Span, LastWord
<1>4. \A taken : MealTaken(e, taken)' = MealTaken(e, taken)
  BY <1>2, <1>3 DEF MealTaken
<1>5. ASSUME Told(e) PROVE Told(e)'
  <2>. DEFINE taken == UnpaidMinutes(e, entries[e].out)
  <2>1. taken' = taken /\ entries'[e] = entries[e] /\ entryTrail'[e] = entryTrail[e]
    BY <1>1 DEF Alike
  <2>2. MealTaken(e, taken)' = MealTaken(e, taken)
    BY <1>2, <1>3, <2>1 DEF MealTaken
  <2>. HIDE DEF taken
  <2>3. /\ entryTrail[e] # <<>> /\ LastWord(e).out = entries[e].out
        /\ LastWord(e).action = "clock_out" =>
             /\ Closed(e) /\ LastWord(e).worked = WorkedMinutes(entries[e].in, entries[e].out, taken)
             /\ MealTaken(e, taken)
    BY <1>5 DEF Told, taken
  <2>4. /\ entryTrail'[e] # <<>> /\ LastWord(e)'.out = entries'[e].out
        /\ LastWord(e)'.action = "clock_out" =>
             /\ Closed(e)' /\ LastWord(e)'.worked = WorkedMinutes(entries'[e].in, entries'[e].out, taken')
             /\ MealTaken(e, taken)'
    BY <1>3, <2>1, <2>2, <2>3
  <2>. QED  BY <2>4 DEF Told, taken
<1>. QED  BY <1>1, <1>2, <1>3, <1>4, <1>5

\* The story goes on where the request that tells it does not move,
LEMMA AlikeStory ==
  ASSUME NEW r, NEW e, Alike(e), Story(r, e), pc'[r] = pc[r], loc'[r] = loc[r]
  PROVE  Story(r, e)'
<1>1. /\ StartPending(r, e)' = StartPending(r, e) /\ EndOwed(r, e)' = EndOwed(r, e)
      /\ \A stages : ClockingOut(r, e, stages)' = ClockingOut(r, e, stages)
  BY DEF StartPending, EndOwed, ClockingOut
<1>2. DeductRight(r, e)' = DeductRight(r, e)
  <2>1. /\ UnpaidMinutes(e, loc[r].at)' = UnpaidMinutes(e, loc[r].at)
        /\ AutoDeduct(loc[r].at - entries[e].in, loc[r].unpaid)' = AutoDeduct(loc[r].at - entries[e].in, loc[r].unpaid)
    BY AlikeFacts DEF AutoDeduct, Alike
  <2>. QED  BY <2>1, AlikeFacts DEF DeductRight
<1>3. /\ entries'[e] = entries[e] /\ entryTrail'[e] = entryTrail[e]
      /\ Closed(e)' = Closed(e) /\ NoAuto(e)' = NoAuto(e) /\ (Told(e) => Told(e)')
  BY AlikeFacts DEF Alike
<1>4. (LET taken == loc[r].unpaid + loc[r].deduct IN
         UnpaidMinutes(e, loc[r].at) = taken /\ MealTaken(e, taken))'
      = (LET taken == loc[r].unpaid + loc[r].deduct IN
           UnpaidMinutes(e, loc[r].at) = taken /\ MealTaken(e, taken))
  BY AlikeFacts, <1>3 DEF MealTaken, Span
<1>. QED  BY <1>1, <1>2, <1>3, <1>4 DEF Story

\* and where it moves between statements at which it owes no row about the entry.
LEMMA MoveStory ==
  ASSUME NEW r, NEW e, Alike(e), Story(r, e),
         ~StartPending(r, e), ~EndOwed(r, e), ~StartPending(r, e)', ~EndOwed(r, e)',
         ClockingOut(r, e, Deducted) => ClockingOut(r, e, Deducted)',
         ClockingOut(r, e, Deducting)' => DeductRight(r, e)'
  PROVE  Story(r, e)'
<1>1. Told(e)' /\ Closed(e)' = Closed(e) /\ NoAuto(e)' = NoAuto(e)
  BY AlikeFacts DEF Story
<1>2. ~Closed(e) /\ ~ClockingOut(r, e, Deducted) => NoAuto(e)
  BY DEF Story
<1>. QED  BY <1>1, <1>2 DEF Story

\* A request's step has to see to the entries of its employee.
LEMMA StepStory ==
  ASSUME StoryInv, OneRequestEach, TypeInv', ShiftInv', NEW r \in Requests, OthersAlone(r),
         UNCHANGED sweep, cutShort \subseteq cutShort', EntryIds \subseteq EntryIds', BreakIds \subseteq BreakIds',
         \A e \in EntryIds : /\ entries'[e].emp = entries[e].emp /\ entries'[e].in = entries[e].in
                             /\ entries'[e].edited = entries[e].edited,
         \A b \in BreakIds : breaks'[b].entry = breaks[b].entry,
         \A b \in BreakIds' \ BreakIds : breaks'[b].entry \in EntryIds',
         \A e \in EntryIds : ~Owns(r, e) => Alike(e),
         \A e \in EntryIds' \ EntryIds : Owns(r, e)',
         Grasp(r)',
         \A e \in EntryIds' : Owns(r, e)' /\ Untouched(e)' => Story(r, e)'
  PROVE  StoryInv'
<1>1. Rooted'
  <2>1. ASSUME NEW e \in EntryIds' PROVE \E s \in Requests : entries'[e].emp = EmployeeOf[s]
    <3>1. CASE e \in EntryIds
      BY <3>1 DEF StoryInv, Rooted
    <3>2. CASE e \notin EntryIds
      BY <3>2 DEF Owns
    <3>. QED  BY <3>1, <3>2
  <2>2. ASSUME NEW b \in BreakIds' PROVE breaks'[b].entry \in EntryIds'
    BY DEF StoryInv, Rooted
  <2>. QED  BY <2>1, <2>2 DEF Rooted
<1>2. SweepGrasp'
  BY DEF StoryInv, SweepGrasp
<1>3. ASSUME NEW s \in Requests PROVE Grasp(s)'
  <2>1. CASE s # r
    <3>1. pc'[s] = pc[s] /\ loc'[s] = loc[s] /\ Grasp(s)
      BY <2>1 DEF OthersAlone, StoryInv
    <3>2. pc[s] \in Working \cup {"auditOut"} => loc[s].entry \in EntryIds
      <4>1. HolderOK(s)
        BY LocalTypes DEF StoryInv
      <4>2. Working \cup {"auditOut"} \subseteq HasEntry
        BY DEF Working, Stamped, HasEntry
      <4>. QED  BY <4>1, <4>2 DEF HolderOK, Owns
    <3>3. pc[s] = "endBreak" => loc[s].brk \in BreakIds
      BY DEF StoryInv, ShiftInv, ShiftOK
    <3>. QED  BY <3>1, <3>2, <3>3 DEF Grasp
  <2>. QED  BY <2>1
<1>4. ASSUME NEW s \in Requests, NEW e \in EntryIds', Owns(s, e)', Untouched(e)' PROVE Story(s, e)'
  <2>1. CASE s = r
    BY <1>4, <2>1
  <2>2. CASE s # r
    <3>1. EmployeeOf[s] # EmployeeOf[r]
      BY <2>2 DEF OneRequestEach
    <3>2. e \in EntryIds
      BY <1>4, <3>1 DEF Owns
    <3>3. Owns(s, e) /\ ~Owns(r, e) /\ Untouched(e)
      BY <1>4, <3>1, <3>2 DEF Owns, Untouched
    <3>4. Story(s, e) /\ Alike(e)
      BY <3>2, <3>3 DEF StoryInv
    <3>5. pc'[s] = pc[s] /\ loc'[s] = loc[s]
      BY <2>2 DEF OthersAlone
    <3>. QED  BY <3>4, <3>5, AlikeStory
  <2>. QED  BY <2>1, <2>2
<1>. QED  BY <1>1, <1>2, <1>3, <1>4 DEF StoryInv

\* Where the tables stay, every entry stays.
Calm == UNCHANGED <<entries, breaks, entryTrail, sweep>> /\ cutShort \subseteq cutShort'

LEMMA CalmAlike == ASSUME Calm PROVE /\ EntryIds' = EntryIds /\ BreakIds' = BreakIds
                                     /\ \A e : Alike(e) /\ (Untouched(e)' => Untouched(e))
                                     /\ \A r, e : Owns(r, e)' = Owns(r, e)
BY DEF Calm, EntryIds, BreakIds, Alike, BreaksOf, Untouched, Owns

LEMMA CalmStory ==
  ASSUME StoryInv, OneRequestEach, TypeInv', ShiftInv', NEW r \in Requests, OthersAlone(r), Calm,
         Grasp(r)',
         \A e \in EntryIds : Owns(r, e) /\ Untouched(e)' => Story(r, e)'
  PROVE  StoryInv'
<1>1. /\ EntryIds' = EntryIds /\ BreakIds' = BreakIds
      /\ \A e : Alike(e)
      /\ \A e : Owns(r, e)' = Owns(r, e)
  BY CalmAlike
<1>2. /\ UNCHANGED sweep /\ cutShort \subseteq cutShort'
      /\ \A e \in EntryIds : /\ entries'[e].emp = entries[e].emp /\ entries'[e].in = entries[e].in
                             /\ entries'[e].edited = entries[e].edited
      /\ \A b \in BreakIds : breaks'[b].entry = breaks[b].entry
  BY DEF Calm
<1>. QED  BY <1>1, <1>2, StepStory

\* A handler that owed no row and owes none has to answer for its deduction.
LEMMA QuietStory ==
  ASSUME StoryInv, OneRequestEach, TypeInv', ShiftInv', NEW r \in Requests, OthersAlone(r), Calm,
         pc[r] \notin Owing, pc'[r] \notin Owing, Grasp(r)',
         \A e \in EntryIds : /\ ClockingOut(r, e, Deducted) => ClockingOut(r, e, Deducted)'
                             /\ Owns(r, e) /\ Untouched(e) /\ Story(r, e) /\ ClockingOut(r, e, Deducting)' => DeductRight(r, e)'
  PROVE  StoryInv'
<1>1. \A e : /\ ~StartPending(r, e) /\ ~EndOwed(r, e)
             /\ ~StartPending(r, e)' /\ ~EndOwed(r, e)'
  BY DEF Owing, StartPending, EndOwed, HasNext
<1>2. ASSUME NEW e \in EntryIds, Owns(r, e), Untouched(e)' PROVE Story(r, e)'
  <2>1. Alike(e) /\ Untouched(e)
    BY <1>2, CalmAlike
  <2>2. Story(r, e)
    BY <1>2, <2>1 DEF StoryInv
  <2>3. ClockingOut(r, e, Deducting)' => DeductRight(r, e)'
    BY <1>2, <2>1, <2>2
  <2>4. ClockingOut(r, e, Deducted) => ClockingOut(r, e, Deducted)'
    BY <1>2
  <2>. QED  BY <1>1, <2>1, <2>2, <2>3, <2>4, MoveStory
<1>. QED  BY <1>2, CalmStory

\* What is known of a request and of the entry it has in hand.
LEMMA Hands ==
  ASSUME StoryInv, NEW r \in Requests
  PROVE  /\ loc[r] \in LocalsType /\ HolderOK(r) /\ LocalsTyped(r) /\ ShiftOK(r) /\ Grasp(r)
         /\ DOMAIN loc = Requests /\ DOMAIN pc = Requests
         /\ pc[r] \in HasEntry => Owns(r, loc[r].entry)
         /\ pc[r] \in Working /\ Untouched(loc[r].entry) => ~Closed(loc[r].entry)
<1>1. loc[r] \in LocalsType /\ HolderOK(r) /\ LocalsTyped(r) /\ DOMAIN loc = Requests /\ DOMAIN pc = Requests
  BY LocalTypes DEF StoryInv
<1>2. ShiftOK(r) /\ Grasp(r)
  BY DEF StoryInv, ShiftInv
<1>. QED  BY <1>1, <1>2 DEF HolderOK, ShiftOK, Running, Untouched, Closed

\* A step of a request on its own, with the locals it leaves.
LEMMA Moves ==
  ASSUME StoryInv, NEW r \in Requests, NEW stage, NEW l,
         pc' = [pc EXCEPT ![r] = stage], loc' = [loc EXCEPT ![r] = l]
  PROVE  OthersAlone(r) /\ pc'[r] = stage /\ loc'[r] = l
BY Hands DEF OthersAlone

\* An answer leaves a request with nothing in hand.
LEMMA RespondMoves ==
  ASSUME StoryInv, NEW r \in Requests, Respond(r)
  PROVE  /\ OthersAlone(r) /\ pc'[r] = "idle" /\ Grasp(r)'
         /\ \A e : ~StartPending(r, e)' /\ ~EndOwed(r, e)'
         /\ \A e, stages : "idle" \notin stages => ~ClockingOut(r, e, stages)'
<1>1. OthersAlone(r) /\ pc'[r] = "idle"
  BY Moves DEF Respond, Goto
<1>2. Grasp(r)'
  BY <1>1 DEF Grasp, Working, Stamped
<1>. QED  BY <1>1, <1>2 DEF StartPending, EndOwed, ClockingOut, HasNext

-----------------------------------------------------------------------------
(* The steps that leave entries, breaks and trails alone *)

LEMMA FreeStory ==
  ASSUME StoryInv, OneRequestEach, TypeInv', ShiftInv', NEW r \in Requests,
         ArriveAny(r) \/ FindOpen(r) \/ CheckCooldown(r) \/ CheckPunch(r) \/ AuditBreakStart(r)
  PROVE  StoryInv'
<1>1. Calm /\ pc[r] \notin Owing \cup Deducting
  BY DEF ArriveAny, Arrive, FindOpen, CheckCooldown, CheckPunch, AuditBreakStart, tables, trails, bounds,
         Calm, At, Owing, Deducting, Deducted
<1>2. /\ OthersAlone(r) /\ Grasp(r)'
      /\ pc'[r] \in {"idle", "findOpen", "cooldown", "checks", "insertEntry", "findBreak"}
  <2>1. CASE Respond(r)
    BY <2>1, RespondMoves
  <2>2. CASE ArriveAny(r)
    <3>1. OthersAlone(r) /\ pc'[r] = "findOpen"
      BY <2>2, Hands DEF ArriveAny, Arrive, Goto, OthersAlone
    <3>. QED  BY <3>1 DEF Grasp, Working, Stamped
  <2>3. CASE CheckCooldown(r) /\ ~Respond(r)
    <3>1. OthersAlone(r) /\ pc'[r] = "checks"
      BY <2>3, Hands DEF CheckCooldown, Goto, OthersAlone
    <3>. QED  BY <3>1 DEF Grasp, Working, Stamped
  <2>4. CASE CheckPunch(r) /\ ~Respond(r)
    <3>1. OthersAlone(r) /\ pc'[r] = "insertEntry"
      BY <2>4, Hands DEF CheckPunch, Goto, OthersAlone
    <3>. QED  BY <3>1 DEF Grasp, Working, Stamped
  <2>5. CASE FindOpen(r) /\ loc[r].kind = "in" /\ ~Respond(r)
    <3>1. OthersAlone(r) /\ pc'[r] \in {"cooldown", "checks"}
      BY <2>5, Hands DEF FindOpen, Goto, OthersAlone
    <3>. QED  BY <3>1 DEF Grasp, Working, Stamped
  <2>6. CASE FindOpen(r) /\ loc[r].kind # "in" /\ ~Respond(r)
    <3>1. PICK e : /\ loc' = [loc EXCEPT ![r].entry = e, ![r].in = entries[e].in]
                   /\ pc' = [pc EXCEPT ![r] = "findBreak"] /\ UNCHANGED entries
      BY <2>6 DEF FindOpen, Goto, tables
    <3>2. loc' = [loc EXCEPT ![r] = [[loc[r] EXCEPT !.entry = e] EXCEPT !.in = entries[e].in]]
      BY <3>1, Hands
    <3>3. OthersAlone(r) /\ pc'[r] = "findBreak" /\ loc'[r].entry = e /\ loc'[r].in = entries[e].in
      <4>1. loc'[r] = [[loc[r] EXCEPT !.entry = e] EXCEPT !.in = entries[e].in]
        BY <3>2, Hands
      <4>2. loc'[r].entry = e /\ loc'[r].in = entries[e].in
        BY <4>1, Hands DEF LocalsType
      <4>. QED  BY <3>1, <4>2, Hands DEF OthersAlone
    <3>. QED  BY <3>1, <3>3 DEF Grasp, Working, Stamped
  <2>. QED  BY <2>1, <2>2, <2>3, <2>4, <2>5, <2>6 DEF AuditBreakStart, FindOpen
<1>3. pc[r] \notin Owing /\ pc'[r] \notin Owing
  BY <1>1, <1>2 DEF Owing
<1>4. \A e : ~ClockingOut(r, e, Deducted) /\ ~ClockingOut(r, e, Deducting)'
  BY <1>1, <1>2 DEF ClockingOut, Deducting, Deducted
<1>. QED  BY <1>1, <1>2, <1>3, <1>4, QuietStory

\* The break found is one of the entry's.
LEMMA FindBreakStory ==
  ASSUME StoryInv, OneRequestEach, TypeInv', ShiftInv', NEW r \in Requests, FindBreak(r)
  PROVE  StoryInv'
<1>1. Calm /\ pc[r] = "findBreak"
  BY DEF FindBreak, tables, trails, bounds, Calm, At
<1>2. /\ OthersAlone(r) /\ Grasp(r)'
      /\ pc'[r] \in {"idle", "endBreak", "deduct", "insertBreak", "closeEntry"}
      /\ \A e : ~ClockingOut(r, e, Deducting)'
  <2>1. CASE Respond(r)
    BY <2>1, RespondMoves DEF Deducting, Deducted
  <2>2. CASE ~Respond(r)
    <3>. DEFINE open == OpenBreaks(loc[r].entry)
                stage == AfterFindBreak(loc[r].kind, open # {})
    <3>1. PICK b \in (IF open = {} THEN {Null} ELSE open) :
            /\ stage # "idle" /\ pc' = [pc EXCEPT ![r] = stage]
            /\ loc' = [loc EXCEPT ![r].brk = b, ![r].at = Stamp(r)]
      BY <2>2 DEF FindBreak, Goto
    <3>2. loc[r].kind \in {"out", "breakStart", "breakEnd", "switch"}
      BY <1>1, Hands DEF HolderOK, Kinds
    <3>3. /\ stage \in {"endBreak", "deduct", "insertBreak", "closeEntry"}
          /\ stage = "endBreak" => open # {}
          /\ stage = "deduct" => loc[r].kind = "out"
          /\ stage = "closeEntry" => loc[r].kind = "switch"
      BY <3>1, <3>2 DEF AfterFindBreak
    <3>4. stage = "endBreak" => breaks[b].entry = loc[r].entry
      BY <3>1, <3>3 DEF OpenBreaks, BreaksOf
    <3>. HIDE DEF stage, open
    <3>5. loc' = [loc EXCEPT ![r] = [[loc[r] EXCEPT !.brk = b] EXCEPT !.at = Stamp(r)]]
      BY <3>1, Hands
    <3>6. /\ OthersAlone(r) /\ pc'[r] = stage
          /\ loc'[r].brk = b /\ loc'[r].entry = loc[r].entry /\ loc'[r].kind = loc[r].kind
          /\ loc'[r].in = loc[r].in
      <4>1. loc'[r] = [[loc[r] EXCEPT !.brk = b] EXCEPT !.at = Stamp(r)]
        BY <3>5, Hands
      <4>2. /\ loc'[r].brk = b /\ loc'[r].entry = loc[r].entry /\ loc'[r].kind = loc[r].kind
            /\ loc'[r].in = loc[r].in
        BY <4>1, Hands DEF LocalsType
      <4>. QED  BY <3>1, <4>2, Hands DEF OthersAlone
    <3>7. loc[r].in = entries[loc[r].entry].in /\ entries' = entries /\ breaks' = breaks
      BY <1>1, Hands DEF Grasp, Working, Calm
    <3>8. Grasp(r)'
      BY <3>3, <3>4, <3>6, <3>7 DEF Grasp
    <3>9. \A e : ~ClockingOut(r, e, Deducting)'
      BY <3>3, <3>6 DEF ClockingOut, Deducting, Deducted
    <3>. QED  BY <3>3, <3>6, <3>8, <3>9
  <2>. QED  BY <2>1, <2>2
<1>3. pc[r] \notin Owing /\ pc'[r] \notin Owing
  BY <1>1, <1>2 DEF Owing
<1>4. \A e : ~ClockingOut(r, e, Deducted)
  BY <1>1 DEF ClockingOut, Deducted
<1>. QED  BY <1>1, <1>2, <1>3, <1>4, QuietStory

\* The audit rows of breaks inside a clock-out.
LEMMA BreakAuditStory ==
  ASSUME StoryInv, OneRequestEach, TypeInv', ShiftInv', NEW r \in Requests,
         AuditBreakEnd(r) \/ AuditDeduct(r)
  PROVE  StoryInv'
<1>1. Calm /\ pc[r] \in {"auditBreakEnd", "auditDeduct"}
  BY DEF AuditBreakEnd, AuditDeduct, tables, trails, bounds, Calm, At
<1>2. CASE Respond(r) /\ AuditBreakEnd(r)
  <2>1. OthersAlone(r) /\ Grasp(r)' /\ pc[r] \notin Owing /\ pc'[r] \notin Owing
    BY <1>1, <1>2, RespondMoves DEF Owing
  <2>2. \A e : ~ClockingOut(r, e, Deducted) /\ ~ClockingOut(r, e, Deducting)'
    BY <1>2, RespondMoves DEF ClockingOut, Deducting, Deducted, AuditBreakEnd, At
  <2>. QED  BY <1>1, <2>1, <2>2, QuietStory
<1>3. CASE AuditBreakEnd(r) /\ ~Respond(r)
  <2>1. pc' = [pc EXCEPT ![r] = "deduct"] /\ loc' = loc /\ loc[r].kind = "out" /\ pc[r] = "auditBreakEnd"
    BY <1>3 DEF AuditBreakEnd, Goto, At
  <2>2. OthersAlone(r) /\ pc'[r] = "deduct"
    BY <2>1, Hands DEF OthersAlone
  <2>3. loc[r].in = entries[loc[r].entry].in
    BY <2>1, Hands DEF Grasp, Working, Stamped
  <2>4. Grasp(r)' /\ pc[r] \notin Owing /\ pc'[r] \notin Owing
    BY <1>1, <2>1, <2>2, <2>3 DEF Grasp, Owing, Calm
  <2>5. \A e : ~ClockingOut(r, e, Deducted) /\ ~ClockingOut(r, e, Deducting)'
    BY <2>1, <2>2 DEF ClockingOut, Deducting, Deducted
  <2>. QED  BY <1>1, <2>2, <2>4, <2>5, QuietStory
<1>4. CASE AuditDeduct(r)
  <2>1. pc' = [pc EXCEPT ![r] = "closeEntry"] /\ loc' = loc /\ pc[r] = "auditDeduct"
    BY <1>4 DEF AuditDeduct, Goto, At
  <2>2. OthersAlone(r) /\ pc'[r] = "closeEntry"
    BY <2>1, Hands DEF OthersAlone
  <2>3. loc[r].in = entries[loc[r].entry].in
    BY <2>1, Hands DEF Grasp, Working, Stamped
  <2>4. Grasp(r)' /\ pc[r] \notin Owing /\ pc'[r] \notin Owing
    BY <1>1, <2>1, <2>2, <2>3 DEF Grasp, Owing, Calm
  <2>5. ASSUME NEW e \in EntryIds
        PROVE  /\ ClockingOut(r, e, Deducted) => ClockingOut(r, e, Deducted)'
               /\ Story(r, e) /\ ClockingOut(r, e, Deducting)' => DeductRight(r, e)'
    <3>1. ClockingOut(r, e, Deducted) = ClockingOut(r, e, Deducted)'
      BY <2>1, <2>2 DEF ClockingOut, Deducted
    <3>2. ClockingOut(r, e, Deducting)' => ClockingOut(r, e, Deducting)
      BY <2>1, <2>2 DEF ClockingOut, Deducting, Deducted
    <3>3. DeductRight(r, e) => DeductRight(r, e)'
      <4>1. /\ UnpaidMinutes(e, loc[r].at)' = UnpaidMinutes(e, loc[r].at) /\ NoAuto(e)' = NoAuto(e)
            /\ loc'[r] = loc[r] /\ entries'[e] = entries[e]
        BY <1>1, <2>1, CalmAlike, AlikeFacts DEF Alike
      <4>2. DeductRight(r, e) =>
              /\ loc[r].deduct = AutoDeduct(loc[r].at - entries[e].in, loc[r].unpaid)
              /\ UnpaidMinutes(e, loc[r].at) = loc[r].unpaid + loc[r].deduct
              /\ loc[r].deduct = 0 => NoAuto(e)
        BY <2>1 DEF DeductRight
      <4>. QED  BY <2>2, <4>1, <4>2 DEF DeductRight, AutoDeduct
    <3>. QED  BY <3>1, <3>2, <3>3 DEF Story
  <2>. QED  BY <1>1, <2>2, <2>4, <2>5, QuietStory
<1>. QED  BY <1>2, <1>3, <1>4

\* The deduction that clock-out works out is right for the breaks it has read.
LEMMA ReadBreaksStory ==
  ASSUME StoryInv, OneRequestEach, TypeInv', ShiftInv', NEW r \in Requests, ReadBreaks(r)
  PROVE  StoryInv'
<1>. DEFINE unpaid == UnpaidMinutes(loc[r].entry, loc[r].at)
            deduct == AutoDeduct(loc[r].at - loc[r].in, unpaid)
            stage == IF deduct > 0 THEN "insertDeduct" ELSE "closeEntry"
<1>1. /\ Calm /\ pc[r] = "deduct" /\ pc' = [pc EXCEPT ![r] = stage]
      /\ loc' = [loc EXCEPT ![r].unpaid = unpaid, ![r].deduct = deduct]
  BY DEF ReadBreaks, tables, trails, bounds, Calm, At, Goto
<1>2. loc' = [loc EXCEPT ![r] = [[loc[r] EXCEPT !.unpaid = unpaid] EXCEPT !.deduct = deduct]]
  BY <1>1, Hands
<1>3. /\ OthersAlone(r) /\ pc'[r] = stage
      /\ loc'[r].unpaid = unpaid /\ loc'[r].deduct = deduct
      /\ loc'[r].entry = loc[r].entry /\ loc'[r].kind = loc[r].kind
      /\ loc'[r].in = loc[r].in /\ loc'[r].at = loc[r].at
  <2>. HIDE DEF unpaid, deduct, stage
  <2>1. loc'[r] = [[loc[r] EXCEPT !.unpaid = unpaid] EXCEPT !.deduct = deduct]
    BY <1>2, Hands
  <2>2. /\ loc'[r].unpaid = unpaid /\ loc'[r].deduct = deduct
        /\ loc'[r].entry = loc[r].entry /\ loc'[r].kind = loc[r].kind
        /\ loc'[r].in = loc[r].in /\ loc'[r].at = loc[r].at
    BY <2>1, Hands DEF LocalsType
  <2>. QED  BY <1>1, <2>2, Hands DEF OthersAlone
<1>4. loc[r].in = entries[loc[r].entry].in /\ loc[r].kind = "out" /\ loc[r].at \in Nat
  BY <1>1, Hands DEF Grasp, Working, Stamped, LocalsType, Times
<1>5. unpaid \in Nat /\ deduct \in Nat
  <2>1. unpaid \in Nat
    BY <1>4, UnpaidIsNat, BreaksTyped DEF StoryInv
  <2>. QED  BY <2>1, SettingsAssumption DEF AutoDeduct
<1>6. stage \in {"insertDeduct", "closeEntry"} /\ (stage = "closeEntry" => deduct = 0)
      /\ (stage = "insertDeduct" => deduct # 0)
  BY <1>5
<1>7. Grasp(r)' /\ pc[r] \notin Owing /\ pc'[r] \notin Owing
  BY <1>1, <1>3, <1>4, <1>6 DEF Grasp, Owing, Calm
<1>8. ASSUME NEW e \in EntryIds
      PROVE  /\ ~ClockingOut(r, e, Deducted)
             /\ Owns(r, e) /\ Untouched(e) /\ Story(r, e) /\ ClockingOut(r, e, Deducting)' => DeductRight(r, e)'
  <2>1. ~ClockingOut(r, e, Deducted)
    BY <1>1 DEF ClockingOut, Deducted
  <2>2. ASSUME Untouched(e), Story(r, e), ClockingOut(r, e, Deducting)' PROVE DeductRight(r, e)'
    <3>1. e = loc[r].entry
      BY <1>3, <2>2 DEF ClockingOut
    <3>2. ~Closed(e)
      BY <1>1, <2>2, <3>1, Hands DEF Working, Stamped
    <3>3. NoAuto(e)
      BY <2>1, <2>2, <3>2 DEF Story
    <3>4. NoAuto(e)' = NoAuto(e) /\ UnpaidMinutes(e, loc[r].at)' = UnpaidMinutes(e, loc'[r].at)
          /\ entries'[e] = entries[e]
      BY <1>1, CalmAlike, AlikeFacts DEF Alike
    <3>5. NoAuto(e) /\ NoAuto(e)' = NoAuto(e) /\ UnpaidMinutes(e, loc[r].at)' = unpaid
          /\ entries'[e].in = loc[r].in
      BY <1>3, <1>4, <3>1, <3>3, <3>4
    <3>6. deduct = AutoDeduct(loc[r].at - loc[r].in, unpaid)
      OBVIOUS
    <3>. HIDE DEF unpaid, deduct, stage
    <3>7. unpaid = IF stage = "insertDeduct" THEN unpaid ELSE unpaid + deduct
      BY <1>5, <1>6
    <3>8. loc'[r].deduct = AutoDeduct(loc'[r].at - entries'[e].in, loc'[r].unpaid)
      BY <1>3, <3>5, <3>6
    <3>9. AutoDeduct(loc[r].at - entries[e].in, loc[r].unpaid)' = AutoDeduct(loc'[r].at - entries'[e].in, loc'[r].unpaid)
      BY DEF AutoDeduct
    <3>10. UnpaidMinutes(e, loc[r].at)' = unpaid
      BY <3>5
    <3>11. deduct # 0 \/ stage # "insertDeduct"
      BY <1>6
    <3>. QED  BY <1>3, <3>5, <3>7, <3>8, <3>9, <3>11 DEF DeductRight
  <2>. QED  BY <2>1, <2>2
<1>. QED  BY <1>1, <1>3, <1>7, <1>8, QuietStory

\* What a failing handler had in hand is cut short.
LEMMA FailStory ==
  ASSUME StoryInv, OneRequestEach, TypeInv', ShiftInv', NEW r \in Requests, Fail(r)
  PROVE  StoryInv'
<1>1. /\ Calm /\ Respond(r)
      /\ cutShort' = cutShort \cup ({loc[r].entry, loc[r].next} \ {Null})
  BY DEF Fail, tables, trails, Calm
<1>2. OthersAlone(r) /\ pc'[r] = "idle" /\ Grasp(r)'
  BY <1>1, RespondMoves
<1>3. ASSUME NEW e \in EntryIds, Owns(r, e), Untouched(e)' PROVE Story(r, e)'
  <2>1. e # Null
    BY DEF StoryInv, TypeInv, TypeOK, EntryIds, Null
  <2>2. e # loc[r].entry /\ e # loc[r].next
    BY <1>1, <1>3, <2>1 DEF Untouched
  <2>3. ~StartPending(r, e) /\ ~EndOwed(r, e) /\ ~ClockingOut(r, e, Deducted)
    BY <2>2 DEF StartPending, EndOwed, ClockingOut
  <2>4. ~StartPending(r, e)' /\ ~EndOwed(r, e)' /\ ~ClockingOut(r, e, Deducting)'
    BY <1>1, RespondMoves DEF Deducting, Deducted
  <2>5. Alike(e) /\ Story(r, e)
    BY <1>1, <1>3, CalmAlike DEF StoryInv
  <2>. QED  BY <2>3, <2>4, <2>5, MoveStory
<1>. QED  BY <1>1, <1>2, <1>3, CalmStory

-----------------------------------------------------------------------------
(* The audit rows of entries *)

\* A row about an entry of r's employee is the trail's last word about it, and leaves
\* the other entries alone.
LEMMA RowStory ==
  ASSUME StoryInv, OneRequestEach, TypeInv', ShiftInv', NEW r \in Requests, OthersAlone(r), Grasp(r)',
         NEW x, NEW row, Owns(r, x),
         entryTrail' = [entryTrail EXCEPT ![x] = Append(@, row)],
         UNCHANGED <<entries, breaks, sweep, cutShort>>,
         \A e \in EntryIds \ {x} :
           /\ StartPending(r, e) <=> StartPending(r, e)'
           /\ ~EndOwed(r, e) /\ ~EndOwed(r, e)'
           /\ ~ClockingOut(r, e, Deducted) /\ ~ClockingOut(r, e, Deducting)',
         Untouched(x) => ~StartPending(r, x)',
         ~EndOwed(r, x)' /\ ~ClockingOut(r, x, Deducted) /\ ~ClockingOut(r, x, Deducting)',
         Untouched(x) /\ Story(r, x) =>
           /\ row.out = entries[x].out
           /\ row.action = "clock_out" =>
                LET taken == UnpaidMinutes(x, entries[x].out) IN
                /\ Closed(x) /\ row.worked = WorkedMinutes(entries[x].in, entries[x].out, taken)
                /\ MealTaken(x, taken)
  PROVE  StoryInv'
<1>1. /\ x \in EntryIds /\ EntryIds' = EntryIds /\ BreakIds' = BreakIds
      /\ entryTrail \in Seq(Seq(EntryAudits)) /\ DOMAIN entryTrail = EntryIds
  BY DEF Owns, EntryIds, BreakIds, StoryInv, TypeInv, TypeOK
<1>2. /\ entryTrail'[x] = Append(entryTrail[x], row) /\ entryTrail[x] \in Seq(EntryAudits)
      /\ \A e \in EntryIds \ {x} : entryTrail'[e] = entryTrail[e]
  BY <1>1
<1>3. ASSUME NEW e \in EntryIds \ {x} PROVE Alike(e)
  BY <1>2 DEF Alike, BreaksOf
<1>4. entryTrail'[x] # <<>> /\ LastWord(x)' = row
  <2>1. \A t \in Seq(EntryAudits) : /\ Append(t, row) # <<>>
                                    /\ Append(t, row)[Len(Append(t, row))] = row
    BY AppendFacts
  <2>. QED  BY <1>2, <2>1 DEF LastWord
<1>5. /\ \A at : UnpaidMinutes(x, at)' = UnpaidMinutes(x, at)
      /\ NoAuto(x)' = NoAuto(x) /\ Closed(x)' = Closed(x) /\ Span(x)' = Span(x)
      /\ \A e : Untouched(e)' = Untouched(e) /\ Owns(r, e)' = Owns(r, e)
  <2>1. BreaksOf(x)' = BreaksOf(x) /\ \A b \in BreaksOf(x) : breaks'[b] = breaks[b]
    BY DEF BreaksOf
  <2>. QED  BY <2>1, UnpaidSame DEF NoAuto, Closed, Span, Untouched, Owns, EntryIds
<1>6. ASSUME Untouched(x) PROVE Story(r, x)'
  <2>1. Story(r, x)
    BY <1>1, <1>6 DEF StoryInv
  <2>. DEFINE taken == UnpaidMinutes(x, entries[x].out)
  <2>2. taken' = taken /\ MealTaken(x, taken)' = MealTaken(x, taken)
    BY <1>5 DEF MealTaken
  <2>3. /\ row.out = entries[x].out
        /\ row.action = "clock_out" =>
             /\ Closed(x) /\ row.worked = WorkedMinutes(entries[x].in, entries[x].out, taken)
             /\ MealTaken(x, taken)
    BY <1>6, <2>1
  <2>. HIDE DEF taken
  <2>4. /\ entryTrail'[x] # <<>> /\ LastWord(x)'.out = entries'[x].out
        /\ LastWord(x)'.action = "clock_out" =>
             /\ Closed(x)' /\ LastWord(x)'.worked = WorkedMinutes(entries'[x].in, entries'[x].out, taken')
             /\ MealTaken(x, taken)'
    BY <1>4, <1>5, <2>2, <2>3
  <2>5. Told(x)'
    BY <2>4 DEF Told, taken
  <2>6. ~Closed(x) => NoAuto(x)
    BY <2>1 DEF Story
  <2>. QED  BY <1>5, <1>6, <2>5, <2>6 DEF Story
<1>7. ASSUME NEW e \in EntryIds \ {x}, Owns(r, e), Untouched(e) PROVE Story(r, e)'
  <2>1. Alike(e) /\ Story(r, e)
    BY <1>3, <1>7 DEF StoryInv
  <2>2. CASE StartPending(r, e)
    <3>1. StartPending(r, e)' /\ ~EndOwed(r, e)' /\ ~ClockingOut(r, e, Deducting)' /\ ~ClockingOut(r, e, Deducted)
      BY <2>2
    <3>2. ~Closed(e) /\ entryTrail[e] = <<>> /\ NoAuto(e)
      BY <2>1, <2>2, <3>1 DEF Story
    <3>3. ~Closed(e)' /\ entryTrail'[e] = <<>> /\ NoAuto(e)'
      BY <2>1, <3>2, AlikeFacts DEF Alike
    <3>. QED  BY <3>1, <3>3 DEF Story
  <2>3. CASE ~StartPending(r, e)
    <3>1. /\ ~StartPending(r, e)' /\ ~EndOwed(r, e) /\ ~EndOwed(r, e)'
          /\ ~ClockingOut(r, e, Deducted) /\ ~ClockingOut(r, e, Deducting)'
      BY <2>3
    <3>. QED  BY <2>1, <2>3, <3>1, MoveStory
  <2>. QED  BY <2>2, <2>3
<1>8. ASSUME NEW e \in EntryIds', Owns(r, e)', Untouched(e)' PROVE Story(r, e)'
  BY <1>1, <1>5, <1>6, <1>7, <1>8
<1>9. \A e \in EntryIds : ~Owns(r, e) => Alike(e)
  BY <1>3
<1>. QED  BY <1>1, <1>8, <1>9, StepStory

LEMMA AuditInStory ==
  ASSUME StoryInv, OneRequestEach, TypeInv', ShiftInv', NEW r \in Requests, AuditIn(r)
  PROVE  StoryInv'
<1>. PICK x : x = loc[r].entry
  OBVIOUS
<1>. DEFINE row == [action |-> "clock_in", out |-> Null, worked |-> 0]
<1>1. /\ pc[r] = "auditIn" /\ Respond(r) /\ entryTrail' = [entryTrail EXCEPT ![x] = Append(@, row)]
      /\ UNCHANGED <<entries, breaks, sweep, cutShort>>
  BY DEF AuditIn, At, AuditEntry, tables, bounds
<1>2. OthersAlone(r) /\ Grasp(r)' /\ Owns(r, x)
  BY <1>1, RespondMoves, Hands DEF HasEntry
<1>3. \A e : /\ e # x => ~StartPending(r, e)
             /\ ~EndOwed(r, e) /\ ~StartPending(r, e)' /\ ~EndOwed(r, e)'
             /\ ~ClockingOut(r, e, Deducted) /\ ~ClockingOut(r, e, Deducting)'
  BY <1>1, RespondMoves DEF StartPending, EndOwed, HasNext, ClockingOut, Deducting, Deducted
<1>4. Story(r, x) => row.out = entries[x].out
  <2>1. StartPending(r, x)
    BY <1>1 DEF StartPending
  <2>. QED  BY <2>1 DEF Story, Closed
<1>5. row.action # "clock_out"
  OBVIOUS
<1>. HIDE DEF row
<1>. QED  BY <1>1, <1>2, <1>3, <1>4, <1>5, RowStory

LEMMA AuditOutStory ==
  ASSUME StoryInv, OneRequestEach, TypeInv', ShiftInv', NEW r \in Requests, AuditOut(r)
  PROVE  StoryInv'
<1>. PICK x : x = loc[r].entry
  OBVIOUS
<1>. DEFINE row == [action |-> "clock_out", out |-> loc[r].at,
        worked |-> WorkedMinutes(loc[r].in, loc[r].at, loc[r].unpaid + loc[r].deduct)]
<1>1. /\ pc[r] = "auditOut" /\ Respond(r) /\ entryTrail' = [entryTrail EXCEPT ![x] = Append(@, row)]
      /\ UNCHANGED <<entries, breaks, sweep, cutShort>>
  BY DEF AuditOut, At, AuditEntry, tables, bounds
<1>2. OthersAlone(r) /\ Grasp(r)' /\ Owns(r, x)
  BY <1>1, RespondMoves, Hands DEF HasEntry
<1>3. \A e : /\ e # x => ~EndOwed(r, e)
             /\ ~StartPending(r, e) /\ ~StartPending(r, e)' /\ ~EndOwed(r, e)'
             /\ ~ClockingOut(r, e, Deducted) /\ ~ClockingOut(r, e, Deducting)'
  BY <1>1, RespondMoves DEF StartPending, EndOwed, HasNext, ClockingOut, Deducting, Deducted
<1>4. ASSUME Story(r, x)
      PROVE  LET taken == UnpaidMinutes(x, entries[x].out) IN
             /\ row.out = entries[x].out /\ Closed(x)
             /\ row.worked = WorkedMinutes(entries[x].in, entries[x].out, taken)
             /\ MealTaken(x, taken)
  <2>1. EndOwed(r, x)
    BY <1>1 DEF EndOwed
  <2>2. /\ entries[x].out = loc[r].at
        /\ UnpaidMinutes(x, loc[r].at) = loc[r].unpaid + loc[r].deduct
        /\ MealTaken(x, loc[r].unpaid + loc[r].deduct)
    BY <1>1, <1>4, <2>1 DEF Story
  <2>3. loc[r].in = entries[x].in /\ loc[r].at # Null
    BY <1>1, Hands DEF Grasp, LocalsTyped, Dated
  <2>4. UnpaidMinutes(x, entries[x].out) = loc[r].unpaid + loc[r].deduct
    BY <2>2
  <2>. QED  BY <2>2, <2>3, <2>4 DEF Closed
<1>. HIDE DEF row
<1>. QED  BY <1>1, <1>2, <1>3, <1>4, RowStory

LEMMA AuditSwitchStory ==
  ASSUME StoryInv, OneRequestEach, TypeInv', ShiftInv', NEW r \in Requests,
         AuditSwitchClose(r) \/ AuditSwitchOpen(r)
  PROVE  StoryInv'
<1>1. CASE AuditSwitchClose(r)
  <2>. PICK x : x = loc[r].entry
    OBVIOUS
  <2>. DEFINE row == [action |-> "switch_job_close", out |-> loc[r].at, worked |-> 0]
  <2>1. /\ pc[r] = "auditSwitchClose" /\ pc' = [pc EXCEPT ![r] = "auditSwitchOpen"] /\ loc' = loc
        /\ entryTrail' = [entryTrail EXCEPT ![x] = Append(@, row)]
        /\ UNCHANGED <<entries, breaks, sweep, cutShort>>
    BY <1>1 DEF AuditSwitchClose, At, Goto, AuditEntry, tables, bounds
  <2>2. OthersAlone(r) /\ pc'[r] = "auditSwitchOpen" /\ Owns(r, x)
    BY <2>1, Hands DEF OthersAlone, HasEntry
  <2>3. Grasp(r)'
    BY <2>2 DEF Grasp, Working, Stamped
  <2>4. \A e : /\ StartPending(r, e) <=> StartPending(r, e)'
               /\ e # x => ~EndOwed(r, e)
               /\ ~EndOwed(r, e)' /\ ~ClockingOut(r, e, Deducted) /\ ~ClockingOut(r, e, Deducting)'
    BY <2>1, <2>2 DEF StartPending, EndOwed, HasNext, ClockingOut, Deducting, Deducted
  <2>5. Untouched(x) => ~StartPending(r, x)'
    <3>1. ASSUME Untouched(x), StartPending(r, x)' PROVE FALSE
      <4>1. Story(r, x)
        BY <2>2, <3>1 DEF StoryInv, Owns
      <4>2. EndOwed(r, x)
        BY <2>1 DEF EndOwed
      <4>3. loc[r].at # Null
        BY <2>1, Hands DEF LocalsTyped, Dated
      <4>4. StartPending(r, x)
        BY <2>4, <3>1
      <4>. QED  BY <4>1, <4>2, <4>3, <4>4 DEF Story, Closed
    <3>. QED  BY <3>1
  <2>6. Story(r, x) => row.out = entries[x].out
    <3>1. EndOwed(r, x)
      BY <2>1 DEF EndOwed
    <3>. QED  BY <3>1 DEF Story
  <2>7. row.action # "clock_out"
    OBVIOUS
  <2>. HIDE DEF row
  <2>. QED  BY <2>1, <2>2, <2>3, <2>4, <2>5, <2>6, <2>7, RowStory
<1>2. CASE AuditSwitchOpen(r)
  <2>. PICK x : x = loc[r].next
    OBVIOUS
  <2>. DEFINE row == [action |-> "switch_job_open", out |-> Null, worked |-> 0]
  <2>1. /\ pc[r] = "auditSwitchOpen" /\ Respond(r) /\ entryTrail' = [entryTrail EXCEPT ![x] = Append(@, row)]
        /\ UNCHANGED <<entries, breaks, sweep, cutShort>>
    BY <1>2 DEF AuditSwitchOpen, At, AuditEntry, tables, bounds
  <2>2. OthersAlone(r) /\ Grasp(r)' /\ Owns(r, x)
    BY <2>1, RespondMoves, Hands DEF HasNext, HolderOK
  <2>3. \A e : /\ e # x => ~StartPending(r, e)
               /\ ~EndOwed(r, e) /\ ~StartPending(r, e)' /\ ~EndOwed(r, e)'
               /\ ~ClockingOut(r, e, Deducted) /\ ~ClockingOut(r, e, Deducting)'
    BY <2>1, RespondMoves DEF StartPending, EndOwed, HasNext, ClockingOut, Deducting, Deducted
  <2>4. Story(r, x) => row.out = entries[x].out
    <3>1. StartPending(r, x)
      BY <2>1 DEF StartPending, HasNext
    <3>. QED  BY <3>1 DEF Story, Closed
  <2>5. row.action # "clock_out"
    OBVIOUS
  <2>. HIDE DEF row
  <2>. QED  BY <2>1, <2>2, <2>3, <2>4, <2>5, RowStory
<1>. QED  BY <1>1, <1>2

-----------------------------------------------------------------------------
(* The steps that write an entry *)

\* A column of an entry changes; breaks and trails stay.
LEMMA EntryStory ==
  ASSUME StoryInv, OneRequestEach, TypeInv', ShiftInv', NEW r \in Requests, OthersAlone(r), Grasp(r)',
         NEW x, NEW row, Owns(r, x), entries' = [entries EXCEPT ![x] = row],
         row.emp = entries[x].emp, row.in = entries[x].in, row.edited = entries[x].edited,
         UNCHANGED <<breaks, entryTrail, sweep, cutShort>>,
         \A e \in EntryIds \ {x} :
           /\ ~StartPending(r, e) /\ ~EndOwed(r, e) /\ ~StartPending(r, e)' /\ ~EndOwed(r, e)'
           /\ ~ClockingOut(r, e, Deducted) /\ ~ClockingOut(r, e, Deducting)',
         Untouched(x) /\ Story(r, x) => Story(r, x)'
  PROVE  StoryInv'
<1>1. /\ x \in EntryIds /\ EntryIds' = EntryIds /\ BreakIds' = BreakIds
      /\ entries'[x] = row /\ \A e \in EntryIds \ {x} : entries'[e] = entries[e]
  BY DEF Owns, EntryIds, BreakIds, StoryInv, TypeInv, TypeOK
<1>2. ASSUME NEW e \in EntryIds \ {x} PROVE Alike(e)
  BY <1>1 DEF Alike, BreaksOf
<1>3. \A e \in EntryIds : /\ entries'[e].emp = entries[e].emp /\ entries'[e].in = entries[e].in
                          /\ entries'[e].edited = entries[e].edited
  BY <1>1
<1>4. ASSUME NEW e \in EntryIds', Owns(r, e)', Untouched(e)' PROVE Story(r, e)'
  <2>1. Owns(r, e) /\ Untouched(e) /\ e \in EntryIds
    BY <1>1, <1>3, <1>4 DEF Owns, Untouched
  <2>2. Story(r, e)
    BY <2>1 DEF StoryInv
  <2>3. CASE e = x
    BY <2>1, <2>2, <2>3
  <2>4. CASE e # x
    <3>1. Alike(e)
      BY <1>2, <2>1, <2>4
    <3>2. /\ ~StartPending(r, e) /\ ~EndOwed(r, e) /\ ~StartPending(r, e)' /\ ~EndOwed(r, e)'
          /\ ~ClockingOut(r, e, Deducted) /\ ~ClockingOut(r, e, Deducting)'
      BY <2>1, <2>4
    <3>. QED  BY <2>2, <3>1, <3>2, MoveStory
  <2>. QED  BY <2>3, <2>4
<1>5. \A e \in EntryIds : ~Owns(r, e) => Alike(e)
  BY <1>2
<1>6. \A b \in BreakIds : breaks'[b].entry = breaks[b].entry
  OBVIOUS
<1>. QED  BY <1>1, <1>3, <1>4, <1>5, <1>6, StepStory

\* The photo flag is set while the entry still owes its first row.
LEMMA FlagPhotoStory ==
  ASSUME StoryInv, OneRequestEach, TypeInv', ShiftInv', NEW r \in Requests, FlagPhoto(r)
  PROVE  StoryInv'
<1>1. PICK x, row, l :
        /\ x = loc[r].entry /\ row = [entries[x] EXCEPT !.flags = loc[r].flags \cup {"suspect"}]
        /\ l = [loc[r] EXCEPT !.flags = @ \cup {"suspect"}]
  OBVIOUS
<1>2. /\ pc[r] = "photo" /\ pc' = [pc EXCEPT ![r] = "auditIn"]
      /\ loc' = [loc EXCEPT ![r].flags = @ \cup {"suspect"}]
      /\ entries' = [entries EXCEPT ![x].flags = loc[r].flags \cup {"suspect"}]
      /\ UNCHANGED <<breaks, entryTrail, sweep, cutShort>>
  BY <1>1 DEF FlagPhoto, Goto, At, trails, bounds
<1>3. Owns(r, x) /\ x \in EntryIds
  BY <1>1, <1>2, Hands DEF HasEntry, Owns
<1>4. entries[x] \in EntryType /\ entries' = [entries EXCEPT ![x] = row]
  BY <1>1, <1>2, <1>3 DEF StoryInv, TypeInv, TypeOK, EntryIds
<1>5. row.emp = entries[x].emp /\ row.in = entries[x].in /\ row.edited = entries[x].edited /\ row.out = entries[x].out
  BY <1>1, <1>4 DEF EntryType
<1>6. loc'[r] = l /\ l.entry = loc[r].entry
  BY <1>1, <1>2, Hands DEF LocalsType
<1>7. OthersAlone(r) /\ pc'[r] = "auditIn" /\ loc'[r].entry = x
  BY <1>1, <1>2, <1>6, Hands DEF OthersAlone
<1>8. Grasp(r)'
  BY <1>7 DEF Grasp, Working, Stamped
<1>9. \A e : /\ StartPending(r, e) <=> e = x
             /\ StartPending(r, e)' <=> e = x
             /\ ~EndOwed(r, e) /\ ~EndOwed(r, e)'
             /\ ~ClockingOut(r, e, Deducted) /\ ~ClockingOut(r, e, Deducting)' /\ ~ClockingOut(r, e, Deducted)'
  BY <1>1, <1>2, <1>7 DEF StartPending, EndOwed, HasNext, ClockingOut, Deducting, Deducted
<1>10. ASSUME Story(r, x) PROVE Story(r, x)'
  <2>1. entryTrail[x] = <<>> /\ ~Closed(x) /\ NoAuto(x)
    BY <1>9, <1>10 DEF Story
  <2>2. entries'[x].out = entries[x].out
    BY <1>3, <1>4, <1>5 DEF StoryInv, TypeInv, TypeOK, EntryIds
  <2>3. NoAuto(x)'
    BY <1>2, <2>1 DEF NoAuto, BreaksOf
  <2>4. entryTrail'[x] = <<>> /\ ~Closed(x)'
    BY <1>2, <2>1, <2>2 DEF Closed
  <2>. QED  BY <1>9, <2>3, <2>4 DEF Story
<1>. QED  BY <1>2, <1>3, <1>4, <1>5, <1>7, <1>8, <1>9, <1>10, EntryStory

\* A clock-out is written with the deduction that was worked out for it.
LEMMA CloseEntryStory ==
  ASSUME StoryInv, OneRequestEach, TypeInv', ShiftInv', NEW r \in Requests, CloseEntry(r)
  PROVE  StoryInv'
<1>1. PICK x, at, row, stage :
        /\ x = loc[r].entry /\ at = loc[r].at /\ row = [entries[x] EXCEPT !.out = at]
        /\ stage = (IF loc[r].kind = "out" THEN "auditOut" ELSE "insertNext")
  OBVIOUS
<1>2. /\ pc[r] = "closeEntry" /\ pc' = [pc EXCEPT ![r] = stage] /\ loc' = loc
      /\ entries' = [entries EXCEPT ![x].out = at]
      /\ UNCHANGED <<breaks, entryTrail, sweep, cutShort>>
  BY <1>1 DEF CloseEntry, Goto, At, trails, bounds
<1>3. Owns(r, x) /\ x \in EntryIds /\ at \in Nat /\ at # Null
  BY <1>1, <1>2, Hands DEF HasEntry, Owns, LocalsType, LocalsTyped, Dated, Stamped, Times
<1>4. entries[x] \in EntryType /\ entries' = [entries EXCEPT ![x] = row]
  BY <1>1, <1>2, <1>3 DEF StoryInv, TypeInv, TypeOK, EntryIds
<1>5. row.emp = entries[x].emp /\ row.in = entries[x].in /\ row.edited = entries[x].edited /\ row.out = at
  BY <1>1, <1>4 DEF EntryType
<1>6. /\ OthersAlone(r) /\ pc'[r] = stage /\ stage \in {"auditOut", "insertNext"}
      /\ stage = "auditOut" => loc[r].kind = "out"
  BY <1>1, <1>2, Hands DEF OthersAlone
<1>7. entries'[x] = row /\ loc[r].in = entries[x].in
  <2>1. entries'[x] = row
    BY <1>3, <1>4 DEF StoryInv, TypeInv, TypeOK, EntryIds
  <2>. QED  BY <1>1, <1>2, <2>1, Hands DEF Grasp, Working, Stamped
<1>8. Grasp(r)'
  BY <1>1, <1>2, <1>5, <1>6, <1>7 DEF Grasp, Working, Stamped
<1>9. \A e : /\ ~StartPending(r, e) /\ ~StartPending(r, e)' /\ ~EndOwed(r, e)
             /\ EndOwed(r, e)' <=> e = x
             /\ ClockingOut(r, e, Deducted) <=> (e = x /\ loc[r].kind = "out")
             /\ ClockingOut(r, e, Deducting) <=> (e = x /\ loc[r].kind = "out")
             /\ ~ClockingOut(r, e, Deducting)'
  BY <1>1, <1>2, <1>6 DEF StartPending, EndOwed, HasNext, ClockingOut, Deducting, Deducted
<1>10. ASSUME Untouched(x), Story(r, x) PROVE Story(r, x)'
  <2>1. Closed(x)' /\ entries'[x].out = loc'[r].at
    BY <1>1, <1>2, <1>3, <1>5, <1>7 DEF Closed
  <2>2. ASSUME stage = "auditOut"
        PROVE  LET taken == loc[r].unpaid + loc[r].deduct IN
               UnpaidMinutes(x, loc[r].at)' = taken /\ MealTaken(x, taken)'
    <3>. DEFINE taken == loc[r].unpaid + loc[r].deduct
    <3>1. DeductRight(r, x)
      BY <1>6, <1>9, <1>10, <2>2 DEF Story
    <3>2. /\ loc[r].deduct = AutoDeduct(at - entries[x].in, loc[r].unpaid)
          /\ UnpaidMinutes(x, at) = taken
          /\ loc[r].deduct = 0 => NoAuto(x)
      BY <1>1, <1>2, <3>1 DEF DeductRight
    <3>3. Span(x)' = at - entries[x].in
      BY <1>5, <1>7 DEF Span
    <3>4. NoAuto(x)' = NoAuto(x) /\ UnpaidMinutes(x, loc[r].at)' = UnpaidMinutes(x, at)
      <4>1. BreaksOf(x)' = BreaksOf(x) /\ \A b \in BreaksOf(x) : breaks'[b] = breaks[b]
        BY <1>2 DEF BreaksOf
      <4>2. UnpaidMinutes(x, at)' = UnpaidMinutes(x, at)
        BY <4>1, UnpaidSame
      <4>. QED  BY <1>1, <1>2, <4>1, <4>2 DEF NoAuto
    <3>5. loc[r].unpaid \in Nat /\ loc[r].deduct \in Nat /\ entries[x].in \in Nat /\ DeductMin \in Nat /\ DeductAfter \in Nat
      BY <1>4, Hands, SettingsAssumption, BoundsAssumption DEF LocalsType, EntryType
    <3>6. /\ at - entries[x].in > DeductAfter => taken >= DeductMin
          /\ loc[r].deduct # 0 => taken = DeductMin
      BY <1>3, <3>2, <3>5 DEF AutoDeduct
    <3>7. MealTaken(x, taken)'
      <4>1. taken' = taken
        BY <1>2
      <4>. HIDE DEF taken
      <4>. QED  BY <3>2, <3>3, <3>4, <3>6, <4>1 DEF MealTaken
    <3>. QED  BY <1>2, <3>2, <3>4, <3>7
  <2>3. EndOwed(r, x)' /\ pc'[r] = "auditOut" => (LET taken == loc[r].unpaid + loc[r].deduct IN
               UnpaidMinutes(x, loc[r].at) = taken /\ MealTaken(x, taken))'
    BY <1>2, <1>6, <2>2
  <2>. QED  BY <1>9, <2>1, <2>3 DEF Story
<1>. QED  BY <1>2, <1>3, <1>4, <1>5, <1>6, <1>8, <1>9, <1>10, EntryStory

\* A new entry is open, has no breaks, and owes the row of its opening.
LEMMA InsertEntryStory ==
  ASSUME StoryInv, OneRequestEach, TypeInv', ShiftInv', NEW r \in Requests,
         InsertEntry(r) \/ InsertNext(r)
  PROVE  StoryInv'
<1>1. PICK x, flags : /\ x = Len(entries) + 1
                      /\ entries' = Append(entries, NewEntry(EmployeeOf[r], loc[r].at, flags))
                      /\ entryTrail' = Append(entryTrail, <<>>)
                      /\ UNCHANGED <<breaks, sweep, cutShort>>
  BY DEF InsertEntry, InsertNext, bounds
<1>2. /\ entries \in Seq(EntryType) /\ entryTrail \in Seq(Seq(EntryAudits)) /\ Len(entryTrail) = Len(entries)
      /\ EntryIds = 1..Len(entries) /\ Len(entries) \in Nat
  BY DEF StoryInv, TypeInv, TypeOK, EntryIds
<1>3. /\ EntryIds' = EntryIds \cup {x} /\ x \notin EntryIds /\ BreakIds' = BreakIds
      /\ entries'[x] = NewEntry(EmployeeOf[r], loc[r].at, flags)
      /\ entryTrail'[x] = <<>>
      /\ \A e \in EntryIds : entries'[e] = entries[e] /\ entryTrail'[e] = entryTrail[e]
  BY <1>1, <1>2 DEF EntryIds, BreakIds
<1>4. ASSUME NEW e \in EntryIds PROVE Alike(e)
  BY <1>1, <1>3 DEF Alike, BreaksOf
<1>5. ~Closed(x)' /\ NoAuto(x)' /\ Owns(r, x)'
  <2>1. BreaksOf(x)' = {}
    BY <1>1, <1>3 DEF BreaksOf, BreakIds, StoryInv, Rooted
  <2>. QED  BY <1>3, <2>1 DEF Closed, NoAuto, NewEntry, Owns
<1>6. /\ OthersAlone(r) /\ Grasp(r)'
      /\ \A e : StartPending(r, e)' <=> e = x
      /\ \A e \in EntryIds : /\ ~StartPending(r, e) /\ ~ClockingOut(r, e, Deducted)
                             /\ EndOwed(r, e)' <=> EndOwed(r, e)
      /\ \A e : ~ClockingOut(r, e, Deducting)'
      /\ ~EndOwed(r, x)'
      /\ loc'[r].at = loc[r].at /\ pc'[r] # "auditOut"
  <2>1. CASE InsertEntry(r)
    <3>1. PICK l : l = [loc[r] EXCEPT !.entry = x]
      OBVIOUS
    <3>2. PICK stage \in {"photo", "auditIn"} : pc' = [pc EXCEPT ![r] = stage]
      BY <2>1 DEF InsertEntry, Goto
    <3>3. pc[r] = "insertEntry" /\ loc' = [loc EXCEPT ![r].entry = x]
      BY <1>1, <2>1 DEF InsertEntry, At
    <3>4. loc'[r] = l /\ l.entry = x /\ l.at = loc[r].at
      BY <3>1, <3>3, Hands DEF LocalsType
    <3>5. OthersAlone(r) /\ pc'[r] = stage
      BY <3>2, <3>3, Hands DEF OthersAlone
    <3>. QED  BY <3>3, <3>4, <3>5 DEF Grasp, Working, Stamped, StartPending, EndOwed, HasNext, ClockingOut,
                                      Deducting, Deducted
  <2>2. CASE InsertNext(r)
    <3>1. PICK l : l = [loc[r] EXCEPT !.next = x]
      OBVIOUS
    <3>2. pc[r] = "insertNext" /\ loc' = [loc EXCEPT ![r].next = x] /\ pc' = [pc EXCEPT ![r] = "auditSwitchClose"]
      BY <1>1, <2>2 DEF InsertNext, At, Goto
    <3>3. loc'[r] = l /\ l.next = x /\ l.at = loc[r].at /\ l.entry = loc[r].entry
      BY <3>1, <3>2, Hands DEF LocalsType
    <3>4. OthersAlone(r) /\ pc'[r] = "auditSwitchClose"
      BY <3>2, Hands DEF OthersAlone
    <3>5. loc[r].entry \in EntryIds
      BY <3>2, Hands DEF HasEntry, Owns
    <3>. QED  BY <1>3, <3>2, <3>3, <3>4, <3>5 DEF Grasp, Working, Stamped, StartPending, EndOwed, HasNext, ClockingOut,
                                                  Deducting, Deducted
  <2>. QED  BY <2>1, <2>2
<1>7. Story(r, x)'
  BY <1>3, <1>5, <1>6 DEF Story
<1>8. ASSUME NEW e \in EntryIds, Owns(r, e)', Untouched(e)' PROVE Story(r, e)'
  <2>1. Owns(r, e) /\ Untouched(e) /\ Alike(e)
    BY <1>1, <1>3, <1>4, <1>8 DEF Owns, Untouched
  <2>2. Story(r, e)
    BY <2>1 DEF StoryInv
  <2>3. ~StartPending(r, e) /\ ~StartPending(r, e)' /\ ~ClockingOut(r, e, Deducted)
        /\ ~ClockingOut(r, e, Deducting)'
    BY <1>3, <1>6
  <2>4. CASE EndOwed(r, e)
    <3>1. entries[e].out = loc[r].at /\ (~Closed(e) => NoAuto(e))
      BY <2>2, <2>3, <2>4 DEF Story
    <3>2. entries'[e].out = loc'[r].at /\ (~Closed(e)' => NoAuto(e)') /\ EndOwed(r, e)'
      BY <1>3, <1>6, <2>1, <2>4, <3>1, AlikeFacts
    <3>. QED  BY <1>6, <2>3, <3>2 DEF Story
  <2>5. CASE ~EndOwed(r, e)
    <3>1. ~EndOwed(r, e)'
      BY <1>6, <2>5
    <3>. QED  BY <2>1, <2>2, <2>3, <2>5, <3>1, MoveStory
  <2>. QED  BY <2>4, <2>5
<1>9. ASSUME NEW e \in EntryIds', Owns(r, e)', Untouched(e)' PROVE Story(r, e)'
  BY <1>3, <1>7, <1>8, <1>9
<1>10. /\ \A e \in EntryIds : /\ entries'[e].emp = entries[e].emp /\ entries'[e].in = entries[e].in
                              /\ entries'[e].edited = entries[e].edited
       /\ \A b \in BreakIds : breaks'[b].entry = breaks[b].entry
       /\ \A e \in EntryIds' \ EntryIds : Owns(r, e)'
       /\ UNCHANGED sweep /\ cutShort \subseteq cutShort'
       /\ EntryIds \subseteq EntryIds' /\ BreakIds \subseteq BreakIds'
  BY <1>1, <1>3, <1>5
<1>11. \A b \in BreakIds' \ BreakIds : breaks'[b].entry \in EntryIds'
  BY <1>3
<1>. QED  BY <1>4, <1>6, <1>9, <1>10, <1>11, StepStory

-----------------------------------------------------------------------------
(* The steps that write a break *)

\* What the trail says of an open entry does not depend on its breaks.
LEMMA OpenTold ==
  ASSUME NEW e, Told(e), ~Closed(e), entries'[e] = entries[e], entryTrail'[e] = entryTrail[e]
  PROVE  Told(e)'
<1>1. entryTrail[e] # <<>> /\ LastWord(e).out = entries[e].out /\ LastWord(e).action # "clock_out"
  BY DEF Told
<1>2. LastWord(e)' = LastWord(e)
  BY DEF LastWord
<1>. QED  BY <1>1, <1>2 DEF Told

\* A break of the entry in hand changes; entries and trails stay.
LEMMA BreakStory ==
  ASSUME StoryInv, OneRequestEach, TypeInv', ShiftInv', NEW r \in Requests, OthersAlone(r), Grasp(r)',
         NEW x, x = loc[r].entry, pc[r] \in Working \ Deducted, pc'[r] \notin Owing,
         BreakIds \subseteq BreakIds',
         \A b \in BreakIds : breaks'[b].entry = breaks[b].entry /\ breaks'[b].auto = breaks[b].auto,
         \A b \in BreakIds : breaks[b].entry # x => breaks'[b] = breaks[b],
         \A b \in BreakIds' \ BreakIds : breaks'[b].entry = x,
         UNCHANGED <<entries, entryTrail, sweep, cutShort>>,
         \A e \in EntryIds \ {x} : ~ClockingOut(r, e, Deducting)',
         Untouched(x) /\ ~Closed(x) /\ Story(r, x) =>
           /\ ClockingOut(r, x, Deducting)' => DeductRight(r, x)'
           /\ ClockingOut(r, x, Deducted)' \/ \A b \in BreakIds' \ BreakIds : ~breaks'[b].auto
  PROVE  StoryInv'
<1>1. Owns(r, x) /\ x \in EntryIds /\ EntryIds' = EntryIds
  <2>1. pc[r] \in HasEntry
    BY DEF Working, Stamped, HasEntry
  <2>. QED  BY <2>1, Hands DEF Owns, EntryIds
<1>2. ASSUME NEW e \in EntryIds \ {x} PROVE Alike(e)
  BY <1>2 DEF Alike, BreaksOf, BreakIds
<1>3. \A e : /\ ~StartPending(r, e) /\ ~EndOwed(r, e) /\ ~ClockingOut(r, e, Deducted)
             /\ ~StartPending(r, e)' /\ ~EndOwed(r, e)'
  <2>1. pc[r] \notin Owing /\ pc[r] \notin Deducted
    BY DEF Working, Stamped, Owing
  <2>. QED  BY <2>1 DEF StartPending, EndOwed, ClockingOut, Owing, HasNext
<1>4. ASSUME Untouched(x) PROVE Story(r, x)'
  <2>1. ~Closed(x) /\ Story(r, x)
    <3>1. ~Closed(x)
      BY <1>4, Hands
    <3>. QED  BY <1>1, <1>4, <3>1 DEF StoryInv
  <2>2. NoAuto(x) /\ Told(x)
    BY <1>3, <2>1 DEF Story
  <2>3. Told(x)' /\ ~Closed(x)'
    BY <2>1, <2>2, OpenTold DEF Closed
  <2>4. /\ ClockingOut(r, x, Deducting)' => DeductRight(r, x)'
        /\ ClockingOut(r, x, Deducted)' \/ \A b \in BreakIds' \ BreakIds : ~breaks'[b].auto
    BY <1>4, <2>1
  <2>5. ClockingOut(r, x, Deducted)' \/ NoAuto(x)'
    BY <2>2, <2>4 DEF NoAuto, BreaksOf, BreakIds
  <2>. QED  BY <1>3, <2>3, <2>4, <2>5 DEF Story
<1>5. ASSUME NEW e \in EntryIds', Owns(r, e)', Untouched(e)' PROVE Story(r, e)'
  <2>1. Owns(r, e) /\ Untouched(e) /\ e \in EntryIds
    BY <1>1, <1>5 DEF Owns, Untouched
  <2>2. CASE e = x
    BY <1>4, <2>1, <2>2
  <2>3. CASE e # x
    <3>1. Alike(e) /\ Story(r, e) /\ ~ClockingOut(r, e, Deducting)'
      BY <1>2, <2>1, <2>3 DEF StoryInv
    <3>. QED  BY <1>3, <3>1, MoveStory
  <2>. QED  BY <2>2, <2>3
<1>6. /\ \A e \in EntryIds : /\ entries'[e].emp = entries[e].emp /\ entries'[e].in = entries[e].in
                             /\ entries'[e].edited = entries[e].edited
      /\ \A b \in BreakIds : breaks'[b].entry = breaks[b].entry
      /\ \A e \in EntryIds : ~Owns(r, e) => Alike(e)
      /\ \A e \in EntryIds' \ EntryIds : Owns(r, e)'
      /\ UNCHANGED sweep /\ cutShort \subseteq cutShort'
      /\ EntryIds \subseteq EntryIds'
      /\ \A b \in BreakIds' \ BreakIds : breaks'[b].entry \in EntryIds'
  BY <1>1, <1>2
<1>. QED  BY <1>5, <1>6, StepStory

LEMMA InsertBreakStory ==
  ASSUME StoryInv, OneRequestEach, TypeInv', ShiftInv', NEW r \in Requests, InsertBreak(r)
  PROVE  StoryInv'
<1>1. PICK x, row : x = loc[r].entry /\ row = NewBreak(x, now, Null, loc[r].paid, FALSE)
  OBVIOUS
<1>2. /\ pc[r] = "insertBreak" /\ pc' = [pc EXCEPT ![r] = "auditBreakStart"]
      /\ loc' = [loc EXCEPT ![r].brk = Len(breaks) + 1]
      /\ breaks' = Append(breaks, row)
      /\ UNCHANGED <<entries, entryTrail, sweep, cutShort>>
  BY <1>1 DEF InsertBreak, Goto, At, bounds
<1>3. /\ BreakIds \subseteq BreakIds' /\ \A b \in BreakIds : breaks'[b] = breaks[b]
      /\ \A b \in BreakIds' \ BreakIds : breaks'[b] = row
  BY <1>2, NewBreakRow DEF StoryInv, ShiftInv
<1>4. row.entry = x /\ ~row.auto
  BY <1>1 DEF NewBreak
<1>5. OthersAlone(r) /\ pc'[r] = "auditBreakStart"
  BY <1>2, Hands DEF OthersAlone
<1>6. Grasp(r)' /\ pc[r] \in Working \ Deducted /\ pc'[r] \notin Owing
  BY <1>2, <1>5 DEF Grasp, Working, Stamped, Deducted, Owing
<1>7. \A e : ~ClockingOut(r, e, Deducting)'
  BY <1>5 DEF ClockingOut, Deducting, Deducted
<1>8. /\ BreakIds \subseteq BreakIds' /\ x = loc[r].entry
      /\ \A b \in BreakIds : breaks'[b].entry = breaks[b].entry /\ breaks'[b].auto = breaks[b].auto
      /\ \A b \in BreakIds : breaks[b].entry # x => breaks'[b] = breaks[b]
      /\ \A b \in BreakIds' \ BreakIds : breaks'[b].entry = x
      /\ \A b \in BreakIds' \ BreakIds : ~breaks'[b].auto
      /\ UNCHANGED <<entries, entryTrail, sweep, cutShort>>
  BY <1>1, <1>2, <1>3, <1>4
<1>. QED  BY <1>5, <1>6, <1>7, <1>8, BreakStory

LEMMA EndBreakStory ==
  ASSUME StoryInv, OneRequestEach, TypeInv', ShiftInv', NEW r \in Requests, EndBreak(r)
  PROVE  StoryInv'
<1>1. PICK x, b, row : x = loc[r].entry /\ b = loc[r].brk /\ row = [breaks[b] EXCEPT !.end = loc[r].at]
  OBVIOUS
<1>2. /\ pc[r] = "endBreak" /\ pc' = [pc EXCEPT ![r] = "auditBreakEnd"] /\ loc' = loc
      /\ breaks' = [breaks EXCEPT ![b].end = loc[r].at]
      /\ UNCHANGED <<entries, entryTrail, sweep, cutShort>>
  BY <1>1 DEF EndBreak, Goto, At, trails, bounds
<1>3. b \in BreakIds /\ breaks[b].entry = x
  BY <1>1, <1>2, Hands DEF ShiftOK, Grasp
<1>4. breaks \in Seq(BreakType) /\ breaks[b] \in BreakType
  BY <1>3 DEF StoryInv, TypeInv, TypeOK, BreakIds
<1>5. row.entry = x /\ row.auto = breaks[b].auto
  BY <1>1, <1>3, <1>4 DEF BreakType
<1>6. /\ BreakIds' = BreakIds /\ breaks'[b] = row
      /\ \A c \in BreakIds \ {b} : breaks'[c] = breaks[c]
  BY <1>1, <1>2, <1>3, <1>4 DEF BreakIds
<1>7. OthersAlone(r) /\ pc'[r] = "auditBreakEnd"
  BY <1>2, Hands DEF OthersAlone
<1>8. loc[r].in = entries[loc[r].entry].in
  BY <1>2, Hands DEF Grasp, Working, Stamped
<1>9. Grasp(r)' /\ pc[r] \in Working \ Deducted /\ pc'[r] \notin Owing
  BY <1>2, <1>7, <1>8 DEF Grasp, Working, Stamped, Deducted, Owing
<1>10. \A e : ~ClockingOut(r, e, Deducting)'
  BY <1>7 DEF ClockingOut, Deducting, Deducted
<1>11. \A c \in BreakIds : /\ breaks'[c].entry = breaks[c].entry /\ breaks'[c].auto = breaks[c].auto
                           /\ breaks[c].entry # x => breaks'[c] = breaks[c]
  BY <1>3, <1>5, <1>6
<1>. QED  BY <1>1, <1>2, <1>6, <1>7, <1>9, <1>10, <1>11, BreakStory

\* The deducted break is the missing part of the meal break.
LEMMA InsertDeductStory ==
  ASSUME StoryInv, OneRequestEach, TypeInv', ShiftInv', NEW r \in Requests, InsertDeduct(r)
  PROVE  StoryInv'
<1>1. PICK x, at, deduct, row, l :
        /\ x = loc[r].entry /\ at = loc[r].at /\ deduct = loc[r].deduct
        /\ row = NewBreak(x, at - deduct, at, FALSE, TRUE)
        /\ l = [loc[r] EXCEPT !.brk = Len(breaks) + 1]
  OBVIOUS
<1>2. /\ pc[r] = "insertDeduct" /\ pc' = [pc EXCEPT ![r] = "auditDeduct"]
      /\ loc' = [loc EXCEPT ![r].brk = Len(breaks) + 1]
      /\ breaks' = Append(breaks, row)
      /\ UNCHANGED <<entries, entryTrail, sweep, cutShort>>
  BY <1>1 DEF InsertDeduct, Goto, At, bounds
<1>3. /\ BreakIds \subseteq BreakIds' /\ \A b \in BreakIds : breaks'[b] = breaks[b]
      /\ \A b \in BreakIds' \ BreakIds : breaks'[b] = row
  BY <1>2, NewBreakRow DEF StoryInv, ShiftInv
<1>4. loc'[r] = l
  BY <1>1, <1>2, Hands
<1>5. /\ l.entry = x /\ l.kind = loc[r].kind /\ l.in = loc[r].in /\ l.at = at
      /\ l.unpaid = loc[r].unpaid /\ l.deduct = deduct
  BY <1>1, Hands DEF LocalsType
<1>6. OthersAlone(r) /\ pc'[r] = "auditDeduct"
  BY <1>2, Hands DEF OthersAlone
<1>7. loc[r].in = entries[x].in /\ loc[r].kind = "out"
  BY <1>1, <1>2, Hands DEF Grasp, Working, Stamped
<1>8. Grasp(r)' /\ pc[r] \in Working \ Deducted /\ pc'[r] \notin Owing
  BY <1>2, <1>4, <1>5, <1>6, <1>7 DEF Grasp, Working, Stamped, Deducted, Owing
<1>9. \A e : /\ ClockingOut(r, e, Deducting)' <=> e = x
             /\ ClockingOut(r, e, Deducted)' <=> e = x
             /\ ClockingOut(r, e, Deducting) <=> e = x
  BY <1>1, <1>2, <1>4, <1>5, <1>6, <1>7 DEF ClockingOut, Deducting, Deducted
<1>10. /\ at \in Nat /\ at # Null /\ deduct \in Nat /\ loc[r].unpaid \in Nat
       /\ x \in Nat /\ breaks \in Seq(BreakTimes)
  <2>1. at # Null
    BY <1>1, <1>2, Hands DEF LocalsTyped, Dated, Stamped
  <2>2. x \in EntryIds /\ EntryIds \subseteq Nat
    BY <1>1, <1>2, Hands DEF HasEntry, Owns, EntryIds, StoryInv, TypeInv, TypeOK
  <2>. QED  BY <1>1, <2>1, <2>2, Hands, BreaksTyped DEF LocalsType, Times, StoryInv
<1>11. /\ row \in BreakTimes /\ row.entry = x /\ ~row.paid /\ row.end = at /\ row.start = at - deduct
  BY <1>1, <1>10 DEF NewBreak, BreakTimes
<1>12. row.start <= row.end /\ row.end - row.start = deduct
  BY <1>10, <1>11
<1>13. UnpaidMinutes(x, at)' = UnpaidMinutes(x, at) + deduct
  BY <1>2, <1>10, <1>11, <1>12, UnpaidMore
<1>14. ASSUME Story(r, x), Untouched(x), ~Closed(x) PROVE DeductRight(r, x)'
  <2>1. DeductRight(r, x)
    BY <1>9, <1>14 DEF Story
  <2>2. deduct = AutoDeduct(at - entries[x].in, loc[r].unpaid) /\ UnpaidMinutes(x, at) = loc[r].unpaid
    BY <1>1, <1>2, <2>1 DEF DeductRight
  <2>3. UnpaidMinutes(x, loc[r].at)' = loc[r].unpaid + deduct
    BY <1>4, <1>5, <1>13, <2>2
  <2>4. deduct # 0
    BY <1>1, <1>2, <2>1 DEF DeductRight
  <2>5. AutoDeduct(loc[r].at - entries[x].in, loc[r].unpaid)' = deduct
    BY <1>2, <1>4, <1>5, <2>2 DEF AutoDeduct
  <2>. QED  BY <1>4, <1>5, <1>6, <2>3, <2>4, <2>5 DEF DeductRight
<1>15. /\ BreakIds \subseteq BreakIds' /\ x = loc[r].entry
       /\ \A b \in BreakIds : breaks'[b].entry = breaks[b].entry /\ breaks'[b].auto = breaks[b].auto
       /\ \A b \in BreakIds : breaks[b].entry # x => breaks'[b] = breaks[b]
       /\ \A b \in BreakIds' \ BreakIds : breaks'[b].entry = x
       /\ UNCHANGED <<entries, entryTrail, sweep, cutShort>>
  BY <1>1, <1>2, <1>3, <1>11
<1>. QED  BY <1>6, <1>8, <1>9, <1>14, <1>15, BreakStory

-----------------------------------------------------------------------------
(* The sweep and the clock *)

\* What the sweep gets hold of is touched; the other entries stay.
LEMMA SweepStory ==
  ASSUME StoryInv, TypeInv', ShiftInv', UNCHANGED <<pc, loc>>,
         EntryIds' = EntryIds, BreakIds' = BreakIds,
         \A e \in EntryIds : entries'[e].emp = entries[e].emp /\ entries'[e].in = entries[e].in,
         \A b \in BreakIds : breaks'[b].entry = breaks[b].entry,
         SweepGrasp',
         \A e \in EntryIds : Untouched(e)' => Untouched(e) /\ Alike(e)
  PROVE  StoryInv'
<1>1. Rooted'
  BY DEF StoryInv, Rooted
<1>2. ASSUME NEW r \in Requests PROVE Grasp(r)'
  <2>1. Grasp(r) /\ HolderOK(r) /\ ShiftOK(r)
    BY Hands
  <2>2. pc[r] \in Working \cup {"auditOut"} => loc[r].entry \in EntryIds
    <3>1. Working \cup {"auditOut"} \subseteq HasEntry
      BY DEF Working, Stamped, HasEntry
    <3>. QED  BY <2>1, <3>1 DEF HolderOK, Owns
  <2>3. pc[r] = "endBreak" => loc[r].brk \in BreakIds
    BY <2>1 DEF ShiftOK
  <2>. QED  BY <2>1, <2>2, <2>3 DEF Grasp
<1>3. ASSUME NEW r \in Requests, NEW e \in EntryIds', Owns(r, e)', Untouched(e)' PROVE Story(r, e)'
  <2>1. Owns(r, e) /\ Untouched(e) /\ Alike(e)
    BY <1>3 DEF Owns
  <2>2. Story(r, e)
    BY <2>1 DEF StoryInv, Owns
  <2>. QED  BY <2>1, <2>2, AlikeStory
<1>. QED  BY <1>1, <1>2, <1>3 DEF StoryInv

LEMMA SweepStepStory ==
  ASSUME StoryInv, TypeInv', ShiftInv', SweepStep \/ SweepFail \/ Tick \/ UNCHANGED vars
  PROVE  StoryInv'
<1>1. UNCHANGED <<pc, loc>>
  BY DEF SweepStep, SweepSelect, SweepEndBreaks, SweepCloseEntry, SweepAudit, SweepNotify, SweepFail, Tick, vars
<1>2. /\ sweep \in SweepType /\ sweep.left \subseteq EntryIds
      /\ sweep.stage \in {"close", "audit"} => sweep.entry \in EntryIds
      /\ EntryIds = 1..Len(entries) /\ Len(entries) \in Nat
      /\ Null \notin EntryIds
  <2>1. EntryIds = 1..Len(entries) /\ Len(entries) \in Nat
    BY DEF StoryInv, TypeInv, TypeOK, EntryIds
  <2>. QED  BY <2>1, SweepTypes DEF StoryInv, Null
<1>3. CASE SweepSelect \/ SweepNotify \/ SweepFail \/ Tick \/ UNCHANGED vars
  <2>1. UNCHANGED <<entries, breaks, entryTrail>> /\ cutShort \subseteq cutShort'
    BY <1>3 DEF SweepSelect, SweepNotify, SweepFail, Tick, vars, tables, trails, bounds
  <2>2. \A e : Alike(e)
    BY <2>1 DEF Alike, BreaksOf
  <2>3. /\ sweep'.entry = sweep.entry \/ sweep'.entry = Null
        /\ sweep'.entry # Null => sweep'.stage = sweep.stage \/ sweep.stage # "close"
        /\ sweep'.entry # sweep.entry => sweep.stage # "close" \/ cutShort' = cutShort \cup ({sweep.entry} \ {Null})
    BY <1>2, <1>3 DEF SweepSelect, SweepNotify, SweepFail, Tick, vars, SweepAt, SweepEnds, SweepIdle, SweepType
  <2>4. SweepGrasp'
    BY <2>1, <2>3 DEF StoryInv, SweepGrasp, EntryIds
  <2>5. ASSUME NEW e \in EntryIds, Untouched(e)' PROVE Untouched(e)
    <3>1. ~entries[e].edited /\ e \notin cutShort /\ sweep'.entry # e /\ e \notin cutShort'
      BY <2>1, <2>5 DEF Untouched
    <3>2. sweep.entry # e
      BY <1>2, <2>3, <3>1 DEF StoryInv, SweepGrasp
    <3>. QED  BY <3>1, <3>2 DEF Untouched
  <2>6. /\ EntryIds' = EntryIds /\ BreakIds' = BreakIds
        /\ \A e \in EntryIds : entries'[e].emp = entries[e].emp /\ entries'[e].in = entries[e].in
        /\ \A b \in BreakIds : breaks'[b].entry = breaks[b].entry
    BY <2>1 DEF EntryIds, BreakIds
  <2>. QED  BY <1>1, <2>2, <2>4, <2>5, <2>6, SweepStory
<1>4. ASSUME NEW f \in sweep.left, SweepEndBreaks(f) PROVE StoryInv'
  <2>1. /\ sweep.stage = "next" /\ UNCHANGED <<entries, entryTrail, cutShort>>
        /\ breaks' = [b \in DOMAIN breaks |->
                        IF b \in OpenBreaks(f) THEN [breaks[b] EXCEPT !.end = sweep.at] ELSE breaks[b]]
        /\ sweep'.stage = "close" /\ sweep'.entry = f
    BY <1>2, <1>4 DEF SweepEndBreaks, SweepAt, trails, bounds, SweepType
  <2>2. SweepGrasp' /\ EntryIds' = EntryIds /\ BreakIds' = BreakIds
    BY <1>2, <1>4, <2>1 DEF SweepGrasp, EntryIds, BreakIds
  <2>3. ASSUME NEW b \in BreakIds
        PROVE  breaks'[b].entry = breaks[b].entry /\ (breaks[b].entry # f => breaks'[b] = breaks[b])
    <3>1. breaks[b] \in BreakType
      BY DEF StoryInv, TypeInv, TypeOK, BreakIds
    <3>2. [breaks[b] EXCEPT !.end = sweep.at].entry = breaks[b].entry
      BY <3>1 DEF BreakType
    <3>. QED  BY <2>1, <3>2 DEF BreakIds, OpenBreaks, BreaksOf
  <2>4. ASSUME NEW e \in EntryIds, Untouched(e)' PROVE Untouched(e) /\ Alike(e)
    <3>1. e # f /\ ~entries[e].edited /\ e \notin cutShort
      BY <2>1, <2>4 DEF Untouched
    <3>2. sweep.entry # e
      BY <1>2, <2>1, <3>1 DEF StoryInv, SweepGrasp
    <3>3. Alike(e)
      BY <2>1, <2>2, <2>3, <3>1 DEF Alike, BreaksOf, BreakIds
    <3>. QED  BY <3>1, <3>2, <3>3 DEF Untouched
  <2>. QED  BY <1>1, <2>1, <2>2, <2>3, <2>4, SweepStory
<1>5. CASE SweepCloseEntry \/ SweepAudit
  <2>1. PICK x : x = sweep.entry
    OBVIOUS
  <2>2. /\ x \in EntryIds /\ sweep'.entry = x /\ sweep'.stage \in {"audit", "notify"}
        /\ UNCHANGED <<breaks, cutShort>>
    BY <1>2, <1>5, <2>1 DEF SweepCloseEntry, SweepAudit, SweepAt, SweepGoto, SweepType, tables, bounds
  <2>3. /\ DOMAIN entries' = DOMAIN entries
        /\ \A e \in EntryIds \ {x} : entries'[e] = entries[e] /\ entryTrail'[e] = entryTrail[e]
        /\ entries'[x].emp = entries[x].emp /\ entries'[x].in = entries[x].in /\ entries'[x].edited
    <3>1. entries \in Seq(EntryType) /\ entries[x] \in EntryType /\ entryTrail \in Seq(Seq(EntryAudits))
          /\ DOMAIN entryTrail = EntryIds
      BY <2>2 DEF StoryInv, TypeInv, TypeOK, EntryIds
    <3>2. CASE SweepCloseEntry
      <4>1. [[entries[x] EXCEPT !.out = sweep.at] EXCEPT !.edited = TRUE] \in [emp : Employees, in : 1..MaxTime, out : Times, flags : SUBSET Flags, edited : {TRUE}]
        BY <1>2, <3>1 DEF EntryType, SweepType
      <4>2. entries' = [entries EXCEPT ![x] = [[entries[x] EXCEPT !.out = sweep.at] EXCEPT !.edited = TRUE]]
            /\ entryTrail' = entryTrail
        BY <2>1, <2>2, <3>1, <3>2 DEF SweepCloseEntry, trails
      <4>3. /\ [[entries[x] EXCEPT !.out = sweep.at] EXCEPT !.edited = TRUE].emp = entries[x].emp
            /\ [[entries[x] EXCEPT !.out = sweep.at] EXCEPT !.edited = TRUE].in = entries[x].in
            /\ [[entries[x] EXCEPT !.out = sweep.at] EXCEPT !.edited = TRUE].edited
        BY <3>1 DEF EntryType
      <4>. QED  BY <2>2, <3>1, <4>2, <4>3 DEF EntryIds
    <3>3. CASE SweepAudit
      <4>1. entries' = entries /\ sweep.stage = "audit"
        BY <3>3 DEF SweepAudit, tables, SweepAt
      <4>2. entries[x].edited
        BY <1>2, <2>1, <2>2, <4>1 DEF StoryInv, SweepGrasp
      <4>3. \A e \in EntryIds \ {x} : entryTrail'[e] = entryTrail[e]
        BY <2>1, <3>1, <3>3 DEF SweepAudit, AuditEntry
      <4>. QED  BY <4>1, <4>2, <4>3
    <3>. QED  BY <1>5, <3>2, <3>3
  <2>4. EntryIds' = EntryIds /\ BreakIds' = BreakIds /\ SweepGrasp'
    BY <2>2, <2>3 DEF EntryIds, BreakIds, SweepGrasp
  <2>5. ASSUME NEW e \in EntryIds, Untouched(e)' PROVE Untouched(e) /\ Alike(e)
    <3>1. e # x /\ ~entries'[e].edited /\ e \notin cutShort
      BY <2>2, <2>5 DEF Untouched
    <3>. QED  BY <2>1, <2>2, <2>3, <3>1 DEF Untouched, Alike, BreaksOf
  <2>6. \A e \in EntryIds : entries'[e].emp = entries[e].emp /\ entries'[e].in = entries[e].in
    BY <2>3
  <2>. QED  BY <1>1, <2>2, <2>4, <2>5, <2>6, SweepStory
<1>. QED  BY <1>3, <1>4, <1>5 DEF SweepStep

-----------------------------------------------------------------------------

LEMMA StoryInit == Init => StoryInv
<1>. SUFFICES ASSUME Init PROVE StoryInv
  OBVIOUS
<1>1. EntryIds = {} /\ BreakIds = {} /\ \A r \in Requests : pc[r] = "idle"
  BY DEF Init, EntryIds, BreakIds
<1>2. sweep.entry = Null
  BY DEF Init, SweepIdle
<1>. QED  BY <1>1, <1>2, TypeInit, ShiftInit DEF StoryInv, Rooted, SweepGrasp, Grasp, Working, Stamped

LEMMA StoryNext ==
  ASSUME OneRequestEach, StoryInv, [Next]_vars
  PROVE  StoryInv'
<1>1. TypeInv' /\ ShiftInv'
  BY TypeNext, ShiftNext DEF StoryInv
<1>2. ASSUME NEW r \in Requests, HandlerStep(r) PROVE StoryInv'
  BY <1>1, <1>2, FreeStory, InsertEntryStory, FlagPhotoStory, AuditInStory, FindBreakStory, InsertBreakStory,
     EndBreakStory, BreakAuditStory, ReadBreaksStory, InsertDeductStory, CloseEntryStory, AuditOutStory,
     AuditSwitchStory DEF HandlerStep
<1>3. ASSUME NEW r \in Requests, ArriveAny(r) \/ Fail(r) PROVE StoryInv'
  BY <1>1, <1>3, FreeStory, FailStory
<1>4. ASSUME SweepStep \/ SweepFail \/ Tick \/ UNCHANGED vars PROVE StoryInv'
  BY <1>1, <1>4, SweepStepStory
<1>. QED  BY <1>2, <1>3, <1>4 DEF Next

\* However the handlers of different employees and the sweep interleave, and wherever one
\* of them fails, every entry's story is as far as its employee's handler has come with it
\* (clock.ts, auto-clockout.ts).
THEOREM StoryInvariant ==
  ASSUME OneRequestEach
  PROVE  Spec => []StoryInv
<1>1. StoryInv /\ [Next]_vars => StoryInv'
  BY StoryNext
<1>. QED  BY <1>1, StoryInit, PTL DEF Spec

\* Once its employee's handler has answered, the story of an untouched entry is told.
LEMMA StoryTold ==
  ASSUME StoryInv, NEW e \in EntryIds, ~Busy(e), ~entries[e].edited, e \notin cutShort
  PROVE  Told(e)
<1>1. PICK r \in Requests : entries[e].emp = EmployeeOf[r]
  BY DEF StoryInv, Rooted
<1>2. pc[r] = "idle" /\ sweep.stage = "idle"
  BY <1>1 DEF Busy
<1>3. Untouched(e)
  <2>1. sweep.entry # e
    BY <1>2 DEF StoryInv, SweepGrasp, EntryIds, TypeInv, TypeOK, Null
  <2>. QED  BY <2>1 DEF Untouched
<1>4. Story(r, e)
  BY <1>1, <1>3 DEF StoryInv, Owns
<1>. QED  BY <1>2, <1>4 DEF Story, StartPending, EndOwed, HasNext

\* The audit log's last word about an entry that neither the sweep nor a failure got hold
\* of is what the entry says, in the clock-out as in the minutes worked (audit in clock.ts).
THEOREM TrailAlwaysTells ==
  ASSUME OneRequestEach
  PROVE  Spec => []TrailTellsEntry
<1>1. StoryInv => TrailTellsEntry
  BY StoryTold DEF TrailTellsEntry, Told
<1>. QED  BY <1>1, StoryInvariant, PTL

\* A shift ended by a clock-out alone has had its meal break: what was taken and what was
\* deducted come to the standard break or more, and to exactly that where any was deducted
\* (autoDeductMinutes and its use in clock.ts).
THEOREM MealBreakAlwaysSettled ==
  ASSUME OneRequestEach
  PROVE  Spec => []MealBreakSettled
<1>1. ASSUME StoryInv, NEW e \in EntryIds, Closed(e), ~Busy(e), ~entries[e].edited, e \notin cutShort,
             LastWord(e).action = "clock_out"
      PROVE  MealTaken(e, UnpaidMinutes(e, entries[e].out))
  BY <1>1, StoryTold DEF Told
<1>2. StoryInv => MealBreakSettled
  BY <1>1 DEF MealBreakSettled, MealTaken, NoAuto
<1>. QED  BY <1>2, StoryInvariant, PTL
===============================================================================
