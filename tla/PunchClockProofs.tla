-------------------------- MODULE PunchClockProofs --------------------------
(***************************************************************************)
(* The punch clock for every number of employees and requests, settings    *)
(* and bounds: one open entry and one running break per employee, what may *)
(* still move the end of a shift, the breaks it may leave running and no   *)
(* unmarked overlap, provided no employee has two requests in progress     *)
(* (OneRequestEach), and every entry on record without that proviso.  The  *)
(* sweep and failures may interfere at any point.                          *)
(***************************************************************************)
EXTENDS PunchClockProperties, TLAPS

\* The shape of a sequence that grows by one element.
LEMMA AppendFacts ==
  ASSUME NEW S, NEW s \in Seq(S), NEW x
  PROVE  /\ Len(s) \in Nat /\ DOMAIN s = 1..Len(s)
         /\ DOMAIN Append(s, x) = 1..(Len(s) + 1)
         /\ Append(s, x)[Len(s) + 1] = x
         /\ \A i \in 1..Len(s) : Append(s, x)[i] = s[i]
         /\ x \in S => Append(s, x) \in Seq(S)
  OBVIOUS

\* No entry and no break opens in the step; the rows otherwise stay what they are.
Shrink ==
  /\ EntryIds' = EntryIds /\ BreakIds' = BreakIds
  /\ \A e \in EntryIds : /\ entries'[e].emp = entries[e].emp
                         /\ entries'[e].out = Null => entries[e].out = Null
  /\ \A b \in BreakIds : /\ breaks'[b].entry = breaks[b].entry
                         /\ breaks'[b].end = Null => breaks[b].end = Null

\* Only request r's own state moves.
OthersAlone(r) ==
  /\ DOMAIN pc' = Requests /\ DOMAIN loc' = Requests
  /\ \A s \in Requests \ {r} : pc'[s] = pc[s] /\ loc'[s] = loc[s]

\* What a step that opens nothing preserves.
LEMMA ShrinkFacts ==
  ASSUME PunchInv, Shrink
  PROVE  /\ \A emp : OpenEntries(emp)' \subseteq OpenEntries(emp)
         /\ \A e : OpenBreaks(e)' \subseteq OpenBreaks(e)
         /\ OneOpenEntry' /\ OneOpenBreak'
         /\ \A s \in Requests : pc'[s] = pc[s] /\ loc'[s] = loc[s] => RequestOK(s)'
<1>1. ASSUME NEW emp PROVE OpenEntries(emp)' \subseteq OpenEntries(emp)
  BY DEF Shrink, OpenEntries, EntryIds
<1>2. ASSUME NEW e PROVE OpenBreaks(e)' \subseteq OpenBreaks(e)
  BY DEF Shrink, OpenBreaks, BreaksOf, BreakIds
<1>3. OneOpenEntry'
  BY <1>1 DEF PunchInv, OneOpenEntry
<1>4. OneOpenBreak'
  BY DEF PunchInv, OneOpenBreak, Shrink
<1>5. ASSUME NEW s \in Requests, pc'[s] = pc[s], loc'[s] = loc[s] PROVE RequestOK(s)'
  <2>1. RequestOK(s)
    BY DEF PunchInv
  <2>2. OpenEntries(EmployeeOf[s])' \subseteq OpenEntries(EmployeeOf[s])
    BY <1>1
  <2>3. OpenBreaks(loc[s].entry)' \subseteq OpenBreaks(loc[s].entry)
    BY <1>2, <1>5
  <2>4. /\ EntryIds' = EntryIds
        /\ \A e \in EntryIds : entries'[e].emp = entries[e].emp
    BY DEF Shrink
  <2>5. (pc[s] \in Working => /\ loc[s].entry \in EntryIds
                              /\ entries[loc[s].entry].emp = EmployeeOf[s]
                              /\ OpenEntries(EmployeeOf[s]) \subseteq {loc[s].entry})'
    BY <1>5, <2>1, <2>2, <2>4 DEF RequestOK
  <2>. QED  BY <1>5, <2>1, <2>2, <2>3, <2>5 DEF RequestOK, LocalsOK
<1>. QED  BY <1>1, <1>2, <1>3, <1>4, <1>5

\* A request's step that opens nothing need only look after that request.
LEMMA ShrinkPreserves ==
  ASSUME PunchInv, NEW r \in Requests, Shrink, OthersAlone(r), RequestOK(r)',
         TablesOK', SweepOK'
  PROVE  PunchInv'
<1>1. ASSUME NEW s \in Requests PROVE RequestOK(s)'
  <2>1. CASE s = r
    BY <2>1
  <2>2. CASE s # r
    BY <2>2, ShrinkFacts DEF OthersAlone
  <2>. QED  BY <2>1, <2>2
<1>. QED  BY <1>1, ShrinkFacts DEF PunchInv, OthersAlone

\* A step of a handler that leaves the tables and the sweep alone.
LocalStep(r) == OthersAlone(r) /\ UNCHANGED <<now, entries, breaks, sweep>>

\* A step that only moves one request's locals keeps the invariant of all others.
LEMMA LocalPreserves ==
  ASSUME PunchInv, NEW r \in Requests, LocalStep(r), RequestOK(r)'
  PROVE  PunchInv'
<1>1. Shrink
  BY DEF LocalStep, Shrink, EntryIds, BreakIds
<1>2. TablesOK'
  BY DEF LocalStep, PunchInv, TablesOK
<1>3. SweepOK'
  BY DEF LocalStep, PunchInv, SweepOK
<1>. QED  BY <1>1, <1>2, <1>3, ShrinkPreserves DEF LocalStep

\* A request that has been answered holds nothing.
LEMMA Responded ==
  ASSUME PunchInv, NEW r \in Requests, Respond(r)
  PROVE  OthersAlone(r) /\ RequestOK(r)'
<1>1. pc'[r] = "idle" /\ loc'[r] = NoWork
  BY DEF Respond, Goto, PunchInv
<1>2. RequestOK(r)'
  BY <1>1 DEF RequestOK, LocalsOK, NoWork, Kinds, Null, Stages, Opening, Working, Stamped
<1>. QED  BY <1>2 DEF OthersAlone, Respond, Goto, PunchInv

\* A handler that ends holds nothing the invariant asks about.
LEMMA RespondPreserves ==
  ASSUME PunchInv, NEW r \in Requests, Respond(r), UNCHANGED <<now, entries, breaks, sweep>>
  PROVE  PunchInv'
BY Responded, LocalPreserves DEF LocalStep

-----------------------------------------------------------------------------
(* The steps that only move a request *)

\* The open-entry lookup: what it finds, or that it finds nothing, is recorded truthfully.
LEMMA FindOpenStep ==
  ASSUME PunchInv, NEW r \in Requests, FindOpen(r)
  PROVE  PunchInv'
<1>1. UNCHANGED <<now, entries, breaks, sweep>>
  BY DEF FindOpen, tables, trails, bounds
<1>2. CASE Respond(r)
  BY <1>1, <1>2, RespondPreserves
<1>3. CASE OpenEntries(EmployeeOf[r]) = {} /\ ~Respond(r)
  <2>1. PICK q \in {loc[r].queued, Null}, stage \in {"cooldown", "checks"} :
          loc' = [loc EXCEPT ![r].queued = q] /\ Goto(r, stage)
    BY <1>3 DEF FindOpen
  <2>2. LocalStep(r)
    BY <1>1, <2>1 DEF LocalStep, OthersAlone, Goto, PunchInv
  <2>3. RequestOK(r)'
    <3>1. RequestOK(r)
      BY DEF PunchInv
    <3>2. pc'[r] \in {"cooldown", "checks"} /\ loc'[r] = [loc[r] EXCEPT !.queued = q]
      BY <2>1 DEF Goto, PunchInv
    <3>3. OpenEntries(EmployeeOf[r])' = {}
      BY <1>1, <1>3 DEF OpenEntries
    <3>4. LocalsOK(r)'
      BY <3>1, <3>2 DEF RequestOK, LocalsOK, NoWork, Null
    <3>. QED  BY <3>2, <3>3, <3>4 DEF RequestOK, Stages, Working, Stamped
  <2>. QED  BY <2>2, <2>3, LocalPreserves
<1>4. CASE OpenEntries(EmployeeOf[r]) # {} /\ ~Respond(r)
  <2>1. PICK e \in LatestOpen(EmployeeOf[r]) :
          loc' = [loc EXCEPT ![r].entry = e, ![r].in = entries[e].in] /\ Goto(r, "findBreak")
    BY <1>4 DEF FindOpen
  <2>2. LocalStep(r)
    BY <1>1, <2>1 DEF LocalStep, OthersAlone, Goto, PunchInv
  <2>3. RequestOK(r)'
    <3>1. RequestOK(r) /\ TablesOK
      BY DEF PunchInv
    <3>2. /\ pc'[r] = "findBreak"
          /\ loc'[r] = [[loc[r] EXCEPT !.entry = e] EXCEPT !.in = entries[e].in]
      BY <2>1 DEF Goto, PunchInv
    <3>3. e \in OpenEntries(EmployeeOf[r]) /\ e \in EntryIds /\ entries[e].emp = EmployeeOf[r]
      BY DEF LatestOpen, OpenEntries, EntryIds
    <3>4. OpenEntries(EmployeeOf[r]) \subseteq {e}
      BY <3>3, OwnersAssumption DEF PunchInv, OneOpenEntry
    <3>5. OpenEntries(EmployeeOf[r])' = OpenEntries(EmployeeOf[r]) /\ EntryIds' = EntryIds
      BY <1>1 DEF OpenEntries, EntryIds
    <3>6. e \in Nat
      BY <3>1, <3>3 DEF TablesOK, EntryIds
    <3>7. LocalsOK(r)' /\ loc'[r].entry = e
      BY <3>1, <3>2, <3>6 DEF RequestOK, LocalsOK, NoWork
    <3>8. loc'[r].kind # "in"
      BY <1>4, <3>1, <3>2 DEF FindOpen, RequestOK, LocalsOK, NoWork
    <3>. QED  BY <1>1, <3>2, <3>3, <3>4, <3>5, <3>7, <3>8
         DEF RequestOK, Stages, Opening, Working, Stamped
  <2>. QED  BY <2>2, <2>3, LocalPreserves
<1>. QED  BY <1>2, <1>3, <1>4

\* An arriving request claims nothing yet.
LEMMA ArriveStep ==
  ASSUME PunchInv, NEW r \in Requests, NEW kind \in Kinds, NEW queued \in Nat, NEW paid \in BOOLEAN,
         Arrive(r, kind, queued, paid)
  PROVE  PunchInv'
<1>1. LocalStep(r)
  BY DEF Arrive, LocalStep, OthersAlone, Goto, PunchInv, tables, trails
<1>2. pc'[r] = "findOpen" /\ loc'[r] = [NoWork EXCEPT !.kind = kind, !.queued = queued, !.paid = paid]
  BY DEF Arrive, Goto, PunchInv
<1>3. LocalsOK(r)'
  BY <1>2 DEF LocalsOK, NoWork, Null
<1>. QED  BY <1>1, <1>2, <1>3, LocalPreserves DEF RequestOK, Stages, Opening, Working, Stamped

\* The double-tap guard reads only.
LEMMA CheckCooldownStep ==
  ASSUME PunchInv, NEW r \in Requests, CheckCooldown(r)
  PROVE  PunchInv'
<1>1. UNCHANGED <<now, entries, breaks, sweep>>
  BY DEF CheckCooldown, tables, trails, bounds
<1>2. CASE Respond(r)
  BY <1>1, <1>2, RespondPreserves
<1>3. CASE Goto(r, "checks") /\ UNCHANGED loc
  <2>1. LocalStep(r)
    BY <1>1, <1>3 DEF LocalStep, OthersAlone, Goto, PunchInv
  <2>2. RequestOK(r) /\ pc[r] = "cooldown" /\ pc'[r] = "checks" /\ loc'[r] = loc[r]
    BY <1>3 DEF PunchInv, CheckCooldown, At, Goto
  <2>3. OpenEntries(EmployeeOf[r])' = OpenEntries(EmployeeOf[r])
    BY <1>1 DEF OpenEntries
  <2>4. RequestOK(r)'
    BY <2>2, <2>3 DEF RequestOK, LocalsOK, Stages, Opening, Working, Stamped
  <2>. QED  BY <2>1, <2>4, LocalPreserves
<1>. QED  BY <1>2, <1>3 DEF CheckCooldown

\* The clock-in checks fix the instant and the flags and write no row.
LEMMA CheckPunchStep ==
  ASSUME PunchInv, NEW r \in Requests, CheckPunch(r)
  PROVE  PunchInv'
<1>1. UNCHANGED <<now, entries, breaks, sweep>>
  BY DEF CheckPunch, tables, trails, bounds
<1>2. CASE Respond(r)
  BY <1>1, <1>2, RespondPreserves
<1>3. CASE ~Respond(r)
  <2>1. PICK suspect \in SUBSET {"suspect"} :
          /\ loc' = [loc EXCEPT
               ![r].flags = suspect \cup QueuedFlag(r),
               ![r].at = IF loc[r].queued = Null THEN now ELSE loc[r].queued]
          /\ Goto(r, "insertEntry")
    BY <1>3 DEF CheckPunch
  <2>2. LocalStep(r)
    BY <1>1, <2>1 DEF LocalStep, OthersAlone, Goto, PunchInv
  <2>3. RequestOK(r) /\ pc[r] = "checks" /\ pc'[r] = "insertEntry"
    BY <2>1 DEF PunchInv, CheckPunch, At, Goto
  <2>4. OpenEntries(EmployeeOf[r])' = OpenEntries(EmployeeOf[r])
    BY <1>1 DEF OpenEntries
  <2>5. QueuedFlag(r) \subseteq Flags /\ suspect \subseteq Flags
    BY DEF QueuedFlag, Flags
  <2>6. PICK flags \in SUBSET Flags, at \in Nat :
          loc'[r] = [[loc[r] EXCEPT !.flags = flags] EXCEPT !.at = at]
    <3>1. suspect \cup QueuedFlag(r) \in SUBSET Flags
      BY <2>5
    <3>2. (IF loc[r].queued = Null THEN now ELSE loc[r].queued) \in Nat
      BY <2>3 DEF RequestOK, LocalsOK, PunchInv, TablesOK
    <3>. QED  BY <2>1, <3>1, <3>2 DEF PunchInv
  <2>7. LocalsOK(r)'
    BY <2>3, <2>6 DEF RequestOK, LocalsOK, NoWork
  <2>8. RequestOK(r)'
    BY <2>3, <2>4, <2>7 DEF RequestOK, Stages, Opening, Working, Stamped
  <2>. QED  BY <2>2, <2>8, LocalPreserves
<1>. QED  BY <1>2, <1>3

\* The open-break lookup: no stage that closes or opens is entered on a wrong answer.
LEMMA FindBreakStep ==
  ASSUME PunchInv, NEW r \in Requests, FindBreak(r)
  PROVE  PunchInv'
<1>1. UNCHANGED <<now, entries, breaks, sweep>>
  BY DEF FindBreak, tables, trails, bounds
<1>2. CASE Respond(r)
  BY <1>1, <1>2, RespondPreserves
<1>3. CASE ~Respond(r)
  <2> DEFINE stage == AfterFindBreak(loc[r].kind, OpenBreaks(loc[r].entry) # {})
  <2>1. PICK b : /\ stage # "idle"
                 /\ Goto(r, stage)
                 /\ loc' = [loc EXCEPT ![r].brk = b, ![r].at = Stamp(r)]
    BY <1>3 DEF FindBreak
  <2>2. LocalStep(r)
    BY <1>1, <2>1 DEF LocalStep, OthersAlone, Goto, PunchInv
  <2>3. /\ RequestOK(r) /\ pc[r] = "findBreak" /\ pc'[r] = stage
        /\ loc'[r] = [[loc[r] EXCEPT !.brk = b] EXCEPT !.at = Stamp(r)]
    BY <2>1 DEF PunchInv, FindBreak, At, Goto
  <2>4. stage = "insertBreak" => OpenBreaks(loc[r].entry) = {}
    BY <2>3 DEF AfterFindBreak, RequestOK, LocalsOK, Kinds
  <2>5. Stamp(r) \in Nat /\ Stamp(r) # Null
    BY <2>3 DEF Stamp, Believed, RequestOK, LocalsOK, PunchInv, TablesOK, Null
  <2>6. LocalsOK(r)' /\ loc'[r].entry = loc[r].entry /\ loc'[r].at = Stamp(r)
    BY <2>3, <2>5 DEF RequestOK, LocalsOK, NoWork
  <2>7. /\ OpenEntries(EmployeeOf[r])' = OpenEntries(EmployeeOf[r]) /\ EntryIds' = EntryIds
        /\ OpenBreaks(loc[r].entry)' = OpenBreaks(loc[r].entry)
    BY <1>1, <2>6 DEF OpenEntries, EntryIds, OpenBreaks, BreaksOf
  <2>8. stage \in {"endBreak", "deduct", "insertBreak", "closeEntry"}
    BY <2>1, <2>3 DEF AfterFindBreak, RequestOK, LocalsOK, Kinds
  <2>. HIDE DEF stage
  <2>9. RequestOK(r)'
    BY <1>1, <2>3, <2>4, <2>5, <2>6, <2>7, <2>8
    DEF RequestOK, Stages, Opening, Working, Stamped
  <2>. QED  BY <2>2, <2>9, LocalPreserves
<1>. QED  BY <1>2, <1>3

\* Failures and the last audit rows of the handlers answer the request.
LEMMA AnsweringSteps ==
  ASSUME PunchInv, NEW r \in Requests,
         \/ AuditIn(r) \/ AuditBreakStart(r) \/ AuditOut(r) \/ AuditSwitchOpen(r) \/ Fail(r)
  PROVE  PunchInv'
<1>1. Respond(r) /\ UNCHANGED <<now, entries, breaks, sweep>>
  BY DEF AuditIn, AuditBreakStart, AuditOut, AuditSwitchOpen, Fail, tables, trails, bounds
<1>. QED  BY <1>1, RespondPreserves

\* The steps inside clock-out and job switch that leave entries and breaks alone.
LEMMA WithinHandler ==
  ASSUME PunchInv, NEW r \in Requests,
         \/ AuditBreakEnd(r) \/ ReadBreaks(r) \/ AuditDeduct(r) \/ AuditSwitchClose(r)
  PROVE  PunchInv'
<1>1. UNCHANGED <<now, entries, breaks, sweep>>
  BY DEF AuditBreakEnd, ReadBreaks, AuditDeduct, AuditSwitchClose, tables, trails, bounds
<1>2. CASE Respond(r)
  BY <1>1, <1>2, RespondPreserves
<1>3. CASE ~Respond(r)
  <2>1. PICK stage \in Stages :
          /\ pc' = [pc EXCEPT ![r] = stage]
          /\ \/ loc' = loc
             \/ \E u, d : loc' = [loc EXCEPT ![r].unpaid = u, ![r].deduct = d]
          /\ (stage \in Stamped /\ pc[r] \in Stamped) \/ stage = "auditSwitchOpen"
    <3>1. CASE AuditBreakEnd(r)
      BY <1>3, <3>1 DEF AuditBreakEnd, At, Goto, Stages, Stamped
    <3>2. CASE ReadBreaks(r)
      BY <3>2 DEF ReadBreaks, At, Goto, Stages, Stamped
    <3>3. CASE AuditDeduct(r)
      BY <3>3 DEF AuditDeduct, At, Goto, Stages, Stamped
    <3>4. CASE AuditSwitchClose(r)
      BY <3>4 DEF AuditSwitchClose, At, Goto, Stages
    <3>. QED  BY <3>1, <3>2, <3>3, <3>4
  <2>2. LocalStep(r)
    BY <1>1, <2>1 DEF LocalStep, OthersAlone, PunchInv
  <2>3. RequestOK(r)
    BY DEF PunchInv
  <2>4. pc'[r] = stage
    BY <2>1 DEF PunchInv
  <2>5. \/ loc'[r] = loc[r]
        \/ \E u, d : loc'[r] = [[loc[r] EXCEPT !.unpaid = u] EXCEPT !.deduct = d]
    <3>1. CASE loc' = loc
      BY <3>1
    <3>2. CASE \E u, d : loc' = [loc EXCEPT ![r].unpaid = u, ![r].deduct = d]
      <4>1. PICK u, d : loc' = [loc EXCEPT ![r].unpaid = u, ![r].deduct = d]
        BY <3>2
      <4>2. loc'[r] = [[loc[r] EXCEPT !.unpaid = u] EXCEPT !.deduct = d]
        BY <4>1 DEF PunchInv
      <4>. QED  BY <4>2
    <3>. QED  BY <2>1, <3>1, <3>2
  <2>6. LocalsOK(r)' /\ loc'[r].entry = loc[r].entry /\ loc'[r].at = loc[r].at
    BY <2>3, <2>5 DEF RequestOK, LocalsOK, NoWork
  <2>7. /\ OpenEntries(EmployeeOf[r])' = OpenEntries(EmployeeOf[r]) /\ EntryIds' = EntryIds
        /\ OpenBreaks(loc[r].entry)' = OpenBreaks(loc[r].entry)
    BY <1>1, <2>6 DEF OpenEntries, EntryIds, OpenBreaks, BreaksOf
  <2>8. RequestOK(r)'
    <3>1. CASE stage \in Stamped /\ pc[r] \in Stamped
      BY <1>1, <2>3, <2>4, <2>6, <2>7, <3>1 DEF RequestOK, Stages, Opening, Working, Stamped
    <3>2. CASE stage = "auditSwitchOpen"
      BY <2>4, <2>6, <3>2 DEF RequestOK, Stages, Opening, Working, Stamped
    <3>. QED  BY <2>1, <3>1, <3>2
  <2>. QED  BY <2>2, <2>8, LocalPreserves
<1>. QED  BY <1>2, <1>3

-----------------------------------------------------------------------------
(* The steps that change rows *)

\* A new row opens one entry of one employee and touches no other.
LEMMA EntryAppended ==
  ASSUME PunchInv, NEW emp \in Employees, NEW at \in Nat, NEW flags \in SUBSET Flags,
         entries' = Append(entries, NewEntry(emp, at, flags)), UNCHANGED <<now, breaks>>
  PROVE  /\ TablesOK'
         /\ EntryIds \subseteq EntryIds' /\ BreakIds' = BreakIds
         /\ \A e \in EntryIds : entries'[e] = entries[e]
         /\ \A m \in Employees \ {emp} : OpenEntries(m)' = OpenEntries(m)
         /\ OpenEntries(emp)' \subseteq OpenEntries(emp) \cup {Len(entries) + 1}
         /\ Len(entries) + 1 \in Nat
<1> DEFINE new == NewEntry(emp, at, flags)
<1>1. entries \in Seq(EntryRows)
  BY DEF PunchInv, TablesOK
<1>2. new \in EntryRows /\ new.emp = emp
  BY DEF NewEntry, Null, EntryRows
<1>. HIDE DEF new
<1>3. /\ Len(entries) \in Nat /\ DOMAIN entries = 1..Len(entries)
      /\ DOMAIN entries' = 1..(Len(entries) + 1)
      /\ entries'[Len(entries) + 1] = new
      /\ \A e \in 1..Len(entries) : entries'[e] = entries[e]
      /\ entries' \in Seq(EntryRows)
  BY <1>1, <1>2, AppendFacts DEF new
<1>4. TablesOK'
  BY <1>3 DEF PunchInv, TablesOK
<1>5. DOMAIN entries' = DOMAIN entries \cup {Len(entries) + 1}
  BY <1>3
<1>6. \A e \in EntryIds : entries'[e] = entries[e]
  BY <1>3 DEF EntryIds
<1>7. \A m \in Employees \ {emp} : OpenEntries(m)' = OpenEntries(m)
  BY <1>2, <1>3, <1>5, <1>6 DEF OpenEntries, EntryIds
<1>8. OpenEntries(emp)' \subseteq OpenEntries(emp) \cup {Len(entries) + 1}
  BY <1>5, <1>6 DEF OpenEntries, EntryIds
<1>. QED  BY <1>3, <1>4, <1>5, <1>6, <1>7, <1>8 DEF EntryIds, BreakIds

\* Opening an entry for an employee with none open keeps the invariant.
LEMMA OpeningPreserves ==
  ASSUME PunchInv, OneRequestEach, NEW r \in Requests, OthersAlone(r),
         OpenEntries(EmployeeOf[r]) = {},
         NEW at \in Nat, NEW flags \in SUBSET Flags,
         entries' = Append(entries, NewEntry(EmployeeOf[r], at, flags)),
         UNCHANGED <<now, breaks, sweep>>,
         RequestOK(r)'
  PROVE  PunchInv'
<1>1. EmployeeOf[r] \in Employees
  BY OwnersAssumption
<1>2. /\ TablesOK'
      /\ EntryIds \subseteq EntryIds' /\ BreakIds' = BreakIds
      /\ \A e \in EntryIds : entries'[e] = entries[e]
      /\ \A m \in Employees \ {EmployeeOf[r]} : OpenEntries(m)' = OpenEntries(m)
      /\ OpenEntries(EmployeeOf[r])' \subseteq {Len(entries) + 1}
  BY <1>1, EntryAppended
<1>3. OneOpenEntry'
  BY <1>2 DEF PunchInv, OneOpenEntry
<1>4. OneOpenBreak' /\ SweepOK'
  BY DEF PunchInv, OneOpenBreak, BreakIds, SweepOK
<1>5. ASSUME NEW s \in Requests PROVE RequestOK(s)'
  <2>1. CASE s = r
    BY <2>1
  <2>2. CASE s # r
    <3>1. RequestOK(s) /\ pc'[s] = pc[s] /\ loc'[s] = loc[s]
      BY <2>2 DEF PunchInv, OthersAlone
    <3>2. EmployeeOf[s] \in Employees \ {EmployeeOf[r]}
      BY <2>2, OwnersAssumption DEF OneRequestEach
    <3>3. OpenEntries(EmployeeOf[s])' = OpenEntries(EmployeeOf[s])
      BY <1>2, <3>2
    <3>4. OpenBreaks(loc[s].entry)' = OpenBreaks(loc[s].entry)
      BY <3>1 DEF OpenBreaks, BreaksOf
    <3>5. LocalsOK(s)'
      BY <3>1 DEF RequestOK, LocalsOK
    <3>6. (pc[s] \in Working => /\ loc[s].entry \in EntryIds
                                /\ entries[loc[s].entry].emp = EmployeeOf[s]
                                /\ OpenEntries(EmployeeOf[s]) \subseteq {loc[s].entry})'
      BY <1>2, <3>1, <3>3 DEF RequestOK
    <3>. QED  BY <3>1, <3>3, <3>4, <3>5, <3>6 DEF RequestOK
  <2>. QED  BY <2>1, <2>2
<1>. QED  BY <1>2, <1>3, <1>4, <1>5 DEF PunchInv, OthersAlone

\* Clock-in and job switch open an entry only where the employee has none open.
LEMMA InsertEntryStep ==
  ASSUME PunchInv, OneRequestEach, NEW r \in Requests, InsertEntry(r) \/ InsertNext(r)
  PROVE  PunchInv'
<1>1. /\ UNCHANGED <<now, breaks, sweep>>
      /\ OpenEntries(EmployeeOf[r]) = {}
      /\ RequestOK(r) /\ loc[r].at \in Nat /\ loc[r].flags \in SUBSET Flags
  BY DEF InsertEntry, InsertNext, At, PunchInv, RequestOK, LocalsOK, Opening, bounds
<1>2. PICK flags \in SUBSET Flags :
        entries' = Append(entries, NewEntry(EmployeeOf[r], loc[r].at, flags))
  BY <1>1 DEF InsertEntry, InsertNext
<1>3. OthersAlone(r)
  BY DEF InsertEntry, InsertNext, OthersAlone, Goto, PunchInv
<1>4. Len(entries) + 1 \in Nat
  BY <1>1, <1>2, OwnersAssumption, EntryAppended
<1>5. /\ pc'[r] \in {"photo", "auditIn", "auditSwitchClose"}
      /\ \/ loc'[r] = [loc[r] EXCEPT !.entry = Len(entries) + 1]
         \/ loc'[r] = [loc[r] EXCEPT !.next = Len(entries) + 1]
  BY DEF InsertEntry, InsertNext, Goto, PunchInv
<1>6. LocalsOK(r)'
  BY <1>1, <1>4, <1>5 DEF RequestOK, LocalsOK, NoWork
<1>7. RequestOK(r)'
  BY <1>5, <1>6 DEF RequestOK, Stages, Opening, Working, Stamped
<1>. QED  BY <1>1, <1>2, <1>3, <1>7, OpeningPreserves

\* An existing id has a row of the table's type.
LEMMA EntryIsRow ==
  ASSUME PunchInv, NEW e \in EntryIds
  PROVE  entries[e] \in EntryRows
<1>1. entries \in Seq(EntryRows) /\ e \in DOMAIN entries
  BY DEF PunchInv, TablesOK, EntryIds
<1>2. QED  BY <1>1

\* UPDATE time_entries: no column the invariant reads is reset.
LEMMA EntryUpdated ==
  ASSUME PunchInv, UNCHANGED <<now, breaks>>,
         NEW e, NEW out \in Nat, NEW flags \in SUBSET Flags, NEW edited \in BOOLEAN,
         \/ entries' = entries
         \/ /\ e \in EntryIds
            /\ entries' = [entries EXCEPT ![e] = [entries[e] EXCEPT !.out = out, !.flags = flags,
                                                                     !.edited = edited]]
            /\ out = Null => entries[e].out = Null
  PROVE  TablesOK' /\ Shrink
<1>1. CASE entries' = entries
  BY <1>1 DEF PunchInv, TablesOK, Shrink, EntryIds, BreakIds
<1>2. CASE entries' # entries
  <2> DEFINE row == [entries[e] EXCEPT !.out = out, !.flags = flags, !.edited = edited]
  <2>1. entries \in Seq(EntryRows) /\ e \in EntryIds /\ entries[e] \in EntryRows
    BY <1>2, EntryIsRow DEF PunchInv, TablesOK
  <2>2. row \in EntryRows /\ row.emp = entries[e].emp /\ row.out = out
    BY <2>1 DEF EntryRows
  <2>3. entries' = [entries EXCEPT ![e] = row]
    BY <1>2
  <2>. HIDE DEF row
  <2>4. entries' \in Seq(EntryRows) /\ DOMAIN entries' = DOMAIN entries
    BY <2>1, <2>2, <2>3 DEF EntryIds
  <2>5. TablesOK'
    BY <2>4 DEF PunchInv, TablesOK
  <2>6. \A f \in EntryIds : entries'[f] = IF f = e THEN row ELSE entries[f]
    BY <2>3 DEF EntryIds
  <2>7. Shrink
    BY <1>2, <2>2, <2>4, <2>6 DEF Shrink, EntryIds, BreakIds
  <2>. QED  BY <2>5, <2>7
<1>. QED  BY <1>1, <1>2

\* The photo flag touches neither times nor owner of an entry.
LEMMA FlagPhotoStep ==
  ASSUME PunchInv, NEW r \in Requests, FlagPhoto(r)
  PROVE  PunchInv'
<1> DEFINE e == loc[r].entry
           flags == loc[r].flags \cup {"suspect"}
<1>1. UNCHANGED <<now, breaks, sweep>> /\ OthersAlone(r)
  BY DEF FlagPhoto, OthersAlone, Goto, PunchInv, trails, bounds
<1>2. RequestOK(r) /\ flags \in SUBSET Flags
  BY DEF PunchInv, RequestOK, LocalsOK, Flags
<1>3. pc'[r] = "auditIn" /\ loc'[r] = [loc[r] EXCEPT !.flags = flags]
  BY DEF FlagPhoto, Goto, PunchInv
<1>4. RequestOK(r)'
  <2>1. LocalsOK(r)'
    BY <1>2, <1>3 DEF RequestOK, LocalsOK, NoWork
  <2>. QED  BY <1>3, <2>1 DEF RequestOK, Stages, Opening, Working, Stamped
<1>5. TablesOK' /\ Shrink
  <2>1. CASE e \in EntryIds
    <3>1. entries[e] \in EntryRows
      BY <2>1, EntryIsRow
    <3>2. [entries[e] EXCEPT !.flags = flags] =
            [entries[e] EXCEPT !.out = entries[e].out, !.flags = flags, !.edited = entries[e].edited]
      BY <3>1 DEF EntryRows
    <3>3. entries' = [entries EXCEPT ![e] = [entries[e] EXCEPT !.flags = flags]]
      BY DEF FlagPhoto
    <3>4. entries' = [entries EXCEPT ![e] =
            [entries[e] EXCEPT !.out = entries[e].out, !.flags = flags, !.edited = entries[e].edited]]
      BY <3>2, <3>3
    <3>5. entries[e].out \in Nat /\ entries[e].edited \in BOOLEAN
      BY <3>1 DEF EntryRows
    <3>. HIDE DEF e, flags
    <3>. QED  BY <1>1, <1>2, <2>1, <3>4, <3>5, EntryUpdated
  <2>2. CASE e \notin EntryIds
    <3>1. entries' = entries
      BY <2>2 DEF FlagPhoto, PunchInv, TablesOK, EntryIds
    <3>. QED  BY <1>1, <3>1 DEF PunchInv, TablesOK, Shrink, EntryIds, BreakIds
  <2>. QED  BY <2>1, <2>2
<1>6. SweepOK'
  BY <1>1 DEF PunchInv, SweepOK
<1>. QED  BY <1>1, <1>4, <1>5, <1>6, ShrinkPreserves

\* Clock-out and job switch close the entry and leave no other open.
LEMMA CloseEntryStep ==
  ASSUME PunchInv, NEW r \in Requests, CloseEntry(r)
  PROVE  PunchInv'
<1> DEFINE e == loc[r].entry
           out == loc[r].at
<1>1. UNCHANGED <<now, breaks, sweep, loc>> /\ OthersAlone(r) /\ SweepOK'
  BY DEF CloseEntry, OthersAlone, Goto, PunchInv, trails, bounds, SweepOK
<1>2. /\ RequestOK(r) /\ pc[r] = "closeEntry" /\ e \in EntryIds /\ out \in Nat /\ out # Null
      /\ OpenEntries(EmployeeOf[r]) \subseteq {e}
  BY DEF CloseEntry, At, PunchInv, RequestOK, LocalsOK, Working, Stamped
<1>3. pc'[r] \in {"auditOut", "insertNext"}
  BY DEF CloseEntry, Goto, PunchInv
<1>4. entries[e] \in EntryRows
  BY <1>2, EntryIsRow
<1>5. [entries[e] EXCEPT !.out = out] =
        [entries[e] EXCEPT !.out = out, !.flags = entries[e].flags, !.edited = entries[e].edited]
  BY <1>4 DEF EntryRows
<1>6. entries' = [entries EXCEPT ![e] = [entries[e] EXCEPT !.out = out]]
  BY DEF CloseEntry
<1>7. LocalsOK(r)'
  BY <1>1, <1>2 DEF RequestOK, LocalsOK
<1>. HIDE DEF e, out
<1>8. TablesOK' /\ Shrink
  <2>1. entries' = [entries EXCEPT ![e] =
          [entries[e] EXCEPT !.out = out, !.flags = entries[e].flags, !.edited = entries[e].edited]]
    BY <1>5, <1>6
  <2>2. entries[e].flags \in SUBSET Flags /\ entries[e].edited \in BOOLEAN
    BY <1>4 DEF EntryRows
  <2>. QED  BY <1>1, <1>2, <2>1, <2>2, EntryUpdated
<1>9. OpenEntries(EmployeeOf[r])' = {}
  <2>1. OpenEntries(EmployeeOf[r])' \subseteq {e}
    BY <1>2, <1>8, ShrinkFacts
  <2>2. entries'[e].out # Null
    BY <1>2, <1>4, <1>6 DEF EntryIds, EntryRows
  <2>. QED  BY <2>1, <2>2 DEF OpenEntries
<1>10. RequestOK(r)'
  BY <1>3, <1>7, <1>9 DEF RequestOK, Stages, Opening, Working, Stamped
<1>. QED  BY <1>1, <1>8, <1>10, ShrinkPreserves

\* The sweep's clock-out opens no entry.
LEMMA SweepCloseEntryStep ==
  ASSUME PunchInv, SweepCloseEntry
  PROVE  PunchInv'
<1> DEFINE e == sweep.entry
           out == sweep.at
<1>1. UNCHANGED <<now, breaks, pc, loc>>
  BY DEF SweepCloseEntry, trails, bounds
<1>2. out \in Nat /\ out # Null
  BY DEF SweepCloseEntry, SweepAt, PunchInv, SweepOK
<1>3. SweepOK'
  BY DEF SweepCloseEntry, SweepAt, SweepGoto, PunchInv, SweepOK, SweepIdle
<1>4. TablesOK' /\ Shrink
  <2>1. CASE e \in EntryIds
    <3>1. entries[e] \in EntryRows
      BY <2>1, EntryIsRow
    <3>2. [entries[e] EXCEPT !.out = out, !.edited = TRUE] =
            [entries[e] EXCEPT !.out = out, !.flags = entries[e].flags, !.edited = TRUE]
      BY <3>1 DEF EntryRows
    <3>3. entries' = [entries EXCEPT ![e] = [entries[e] EXCEPT !.out = out, !.edited = TRUE]]
      BY <2>1 DEF SweepCloseEntry, PunchInv, TablesOK, EntryIds
    <3>. HIDE DEF e, out
    <3>. QED  BY <1>1, <1>2, <2>1, <3>1, <3>2, <3>3, EntryUpdated DEF EntryRows
  <2>2. CASE e \notin EntryIds
    <3>1. entries' = entries
      BY <2>2 DEF SweepCloseEntry, PunchInv, TablesOK, EntryIds
    <3>. QED  BY <1>1, <3>1 DEF PunchInv, TablesOK, Shrink, EntryIds, BreakIds
  <2>. QED  BY <2>1, <2>2
<1>. QED  BY <1>1, <1>3, <1>4, ShrinkFacts DEF PunchInv

\* A new row adds one break to one entry; its start may be any value.
LEMMA BreakAppended ==
  ASSUME PunchInv, UNCHANGED <<now, entries>>,
         NEW start, NEW new \in BreakRows({start}), breaks' = Append(breaks, new)
  PROVE  /\ TablesOK'
         /\ BreakIds \subseteq BreakIds' /\ EntryIds' = EntryIds
         /\ \A b \in BreakIds : breaks'[b] = breaks[b]
         /\ \A b \in BreakIds' \ BreakIds : breaks'[b] = new
         /\ \A b, c \in BreakIds' \ BreakIds : b = c
<1>1. PICK Starts : breaks \in Seq(BreakRows(Starts))
  BY DEF PunchInv, TablesOK
<1> DEFINE Rows == BreakRows(Starts \cup {start})
<1>2. breaks \in Seq(Rows)
  <2>1. BreakRows(Starts) \subseteq Rows
    BY DEF BreakRows
  <2>. HIDE DEF Rows
  <2>. QED  BY <1>1, <2>1
<1>3. new \in Rows
  BY DEF BreakRows
<1>. HIDE DEF Rows
<1>4. /\ Len(breaks) \in Nat /\ DOMAIN breaks = 1..Len(breaks)
      /\ DOMAIN breaks' = 1..(Len(breaks) + 1)
      /\ breaks'[Len(breaks) + 1] = new
      /\ \A b \in 1..Len(breaks) : breaks'[b] = breaks[b]
      /\ breaks' \in Seq(Rows)
  BY <1>2, <1>3, AppendFacts
<1>5. TablesOK'
  BY <1>4 DEF PunchInv, TablesOK, Rows
<1>6. DOMAIN breaks' \ DOMAIN breaks = {Len(breaks) + 1} /\ DOMAIN breaks \subseteq DOMAIN breaks'
  BY <1>4
<1>. QED  BY <1>3, <1>4, <1>5, <1>6 DEF BreakIds, EntryIds

\* UPDATE breaks: the end of some breaks is set.
LEMMA BreaksEnded ==
  ASSUME PunchInv, UNCHANGED <<now, entries>>, NEW B, NEW end \in Nat, end # Null,
         breaks' = [b \in BreakIds |-> IF b \in B THEN [breaks[b] EXCEPT !.end = end] ELSE breaks[b]]
  PROVE  TablesOK' /\ Shrink
<1>1. PICK Starts : breaks \in Seq(BreakRows(Starts))
  BY DEF PunchInv, TablesOK
<1>2. BreakIds = 1..Len(breaks) /\ Len(breaks) \in Nat
  BY <1>1 DEF BreakIds
<1>3. \A b \in BreakIds : breaks[b] \in BreakRows(Starts)
  BY <1>1, <1>2
<1>4. \A b \in BreakIds : /\ breaks'[b] \in BreakRows(Starts)
                          /\ breaks'[b].entry = breaks[b].entry
                          /\ breaks'[b].end = Null => breaks[b].end = Null
  BY <1>3 DEF BreakRows
<1>5. breaks' \in Seq(BreakRows(Starts)) /\ BreakIds' = BreakIds
  <2>1. breaks' = [b \in 1..Len(breaks) |-> breaks'[b]] /\ DOMAIN breaks' = BreakIds
    BY <1>2
  <2>. QED  BY <1>2, <1>4, <2>1 DEF BreakIds
<1>6. TablesOK'
  BY <1>5 DEF PunchInv, TablesOK
<1>. QED  BY <1>4, <1>5, <1>6 DEF Shrink, EntryIds, BreakIds

\* The deducted meal break is inserted ended, so it is never a second running one.
LEMMA InsertDeductStep ==
  ASSUME PunchInv, NEW r \in Requests, InsertDeduct(r)
  PROVE  PunchInv'
<1>1. UNCHANGED <<now, entries, sweep>> /\ OthersAlone(r) /\ SweepOK'
  BY DEF InsertDeduct, OthersAlone, Goto, PunchInv, bounds, SweepOK
<1>2. /\ RequestOK(r) /\ pc[r] = "insertDeduct" /\ pc'[r] = "auditDeduct"
      /\ loc'[r] = [loc[r] EXCEPT !.brk = Len(breaks) + 1]
  BY DEF InsertDeduct, At, Goto, PunchInv
<1>3. loc[r].entry \in Nat /\ loc[r].at \in Nat /\ loc[r].at # Null
  BY <1>2 DEF RequestOK, LocalsOK, Stamped
<1>4. /\ TablesOK'
      /\ BreakIds \subseteq BreakIds' /\ EntryIds' = EntryIds
      /\ \A b \in BreakIds : breaks'[b] = breaks[b]
      /\ \A b \in BreakIds' \ BreakIds : breaks'[b].end # Null
  <2> DEFINE start == loc[r].at - loc[r].deduct
             new == NewBreak(loc[r].entry, start, loc[r].at, FALSE, TRUE)
  <2>1. new \in BreakRows({start}) /\ new.end # Null
    BY <1>3 DEF NewBreak, BreakRows
  <2>2. breaks' = Append(breaks, new)
    BY DEF InsertDeduct
  <2>. HIDE DEF start, new
  <2>. QED  BY <1>1, <2>1, <2>2, BreakAppended
<1>5. OneOpenBreak'
  BY <1>4 DEF PunchInv, OneOpenBreak
<1>6. OneOpenEntry' /\ \A emp : OpenEntries(emp)' = OpenEntries(emp)
  BY <1>1 DEF PunchInv, OneOpenEntry, OpenEntries
<1>7. \A e : OpenBreaks(e)' \subseteq OpenBreaks(e)
  BY <1>4 DEF OpenBreaks, BreaksOf, BreakIds
<1>8. ASSUME NEW s \in Requests PROVE RequestOK(s)'
  <2>1. CASE s # r
    <3>1. RequestOK(s) /\ pc'[s] = pc[s] /\ loc'[s] = loc[s]
      BY <1>1, <2>1 DEF PunchInv, OthersAlone
    <3>2. OpenEntries(EmployeeOf[s])' = OpenEntries(EmployeeOf[s])
      BY <1>6
    <3>3. OpenBreaks(loc[s].entry)' \subseteq OpenBreaks(loc[s].entry)
      BY <1>7, <3>1
    <3>. QED  BY <1>1, <3>1, <3>2, <3>3, <1>4 DEF RequestOK, LocalsOK
  <2>2. CASE s = r
    <3>1. LocalsOK(r)' /\ loc'[r].entry = loc[r].entry /\ loc'[r].at = loc[r].at
      BY <1>2 DEF RequestOK, LocalsOK, NoWork
    <3>2. OpenEntries(EmployeeOf[r])' = OpenEntries(EmployeeOf[r])
      BY <1>6
    <3>. QED  BY <1>1, <1>2, <1>4, <2>2, <3>1, <3>2
         DEF RequestOK, Stages, Opening, Working, Stamped
  <2>. QED  BY <2>1, <2>2
<1>. QED  BY <1>1, <1>4, <1>5, <1>6, <1>8 DEF PunchInv, OthersAlone

\* A break starts only on an entry without a running one.
LEMMA InsertBreakStep ==
  ASSUME PunchInv, OneRequestEach, NEW r \in Requests, InsertBreak(r)
  PROVE  PunchInv'
<1>1. UNCHANGED <<now, entries, sweep>> /\ OthersAlone(r) /\ SweepOK'
  BY DEF InsertBreak, OthersAlone, Goto, PunchInv, bounds, SweepOK
<1>2. /\ RequestOK(r) /\ pc[r] = "insertBreak" /\ pc'[r] = "auditBreakStart"
      /\ loc'[r] = [loc[r] EXCEPT !.brk = Len(breaks) + 1]
  BY DEF InsertBreak, At, Goto, PunchInv
<1>3. /\ loc[r].entry \in Nat /\ loc[r].paid \in BOOLEAN
      /\ entries[loc[r].entry].emp = EmployeeOf[r]
      /\ OpenBreaks(loc[r].entry) = {}
  BY <1>2 DEF RequestOK, LocalsOK, Working
<1>4. /\ TablesOK'
      /\ BreakIds \subseteq BreakIds' /\ EntryIds' = EntryIds
      /\ \A b \in BreakIds : breaks'[b] = breaks[b]
      /\ \A b \in BreakIds' \ BreakIds : breaks'[b].entry = loc[r].entry
      /\ \A b, c \in BreakIds' \ BreakIds : b = c
  <2> DEFINE new == NewBreak(loc[r].entry, now, Null, loc[r].paid, FALSE)
  <2>1. new \in BreakRows({now}) /\ new.entry = loc[r].entry
    BY <1>3 DEF NewBreak, BreakRows, Null
  <2>2. breaks' = Append(breaks, new)
    BY DEF InsertBreak
  <2>. HIDE DEF new
  <2>. QED  BY <1>1, <2>1, <2>2, BreakAppended
<1>5. OneOpenBreak'
  <2>1. \A b \in BreakIds : breaks[b].entry = loc[r].entry => breaks[b].end # Null
    BY <1>3 DEF OpenBreaks, BreaksOf, BreakIds
  <2>. QED  BY <1>4, <2>1 DEF PunchInv, OneOpenBreak
<1>6. OneOpenEntry' /\ \A emp : OpenEntries(emp)' = OpenEntries(emp)
  BY <1>1 DEF PunchInv, OneOpenEntry, OpenEntries
<1>7. \A e : e # loc[r].entry => OpenBreaks(e)' = OpenBreaks(e)
  BY <1>4 DEF OpenBreaks, BreaksOf, BreakIds
<1>8. ASSUME NEW s \in Requests PROVE RequestOK(s)'
  <2>1. CASE s # r
    <3>1. RequestOK(s) /\ pc'[s] = pc[s] /\ loc'[s] = loc[s]
      BY <1>1, <2>1 DEF PunchInv, OthersAlone
    <3>2. OpenEntries(EmployeeOf[s])' = OpenEntries(EmployeeOf[s])
      BY <1>6
    <3>3. ASSUME pc[s] = "insertBreak" PROVE OpenBreaks(loc[s].entry)' = {}
      <4>1. entries[loc[s].entry].emp = EmployeeOf[s] /\ OpenBreaks(loc[s].entry) = {}
        BY <3>1, <3>3 DEF RequestOK, Working
      <4>2. loc[s].entry # loc[r].entry
        BY <1>3, <2>1, <4>1 DEF OneRequestEach
      <4>. QED  BY <1>7, <3>1, <4>1, <4>2
    <3>. QED  BY <1>1, <3>1, <3>2, <3>3, <1>4 DEF RequestOK, LocalsOK
  <2>2. CASE s = r
    <3>1. LocalsOK(r)'
      BY <1>2 DEF RequestOK, LocalsOK, NoWork
    <3>. QED  BY <1>2, <2>2, <3>1 DEF RequestOK, Stages, Opening, Working, Stamped
  <2>. QED  BY <2>1, <2>2
<1>. QED  BY <1>1, <1>4, <1>5, <1>6, <1>8 DEF PunchInv, OthersAlone

\* Ending a break starts none.
LEMMA EndBreakStep ==
  ASSUME PunchInv, NEW r \in Requests, EndBreak(r)
  PROVE  PunchInv'
<1>1. UNCHANGED <<now, entries, loc, sweep>> /\ OthersAlone(r) /\ SweepOK'
  BY DEF EndBreak, OthersAlone, Goto, PunchInv, trails, bounds, SweepOK
<1>2. RequestOK(r) /\ pc[r] = "endBreak" /\ pc'[r] = "auditBreakEnd"
  BY DEF EndBreak, At, Goto, PunchInv
<1>3. loc[r].at \in Nat /\ loc[r].at # Null
  BY <1>2 DEF RequestOK, LocalsOK, Stamped
<1>4. breaks' = [b \in BreakIds |-> IF b \in {loc[r].brk} THEN [breaks[b] EXCEPT !.end = loc[r].at]
                                    ELSE breaks[b]]
  BY DEF EndBreak, BreakIds
<1>5. TablesOK' /\ Shrink
  BY <1>1, <1>3, <1>4, BreaksEnded
<1>6. OpenEntries(EmployeeOf[r])' = OpenEntries(EmployeeOf[r]) /\ EntryIds' = EntryIds
  BY <1>1 DEF OpenEntries, EntryIds
<1>7. RequestOK(r)'
  BY <1>1, <1>2, <1>6 DEF RequestOK, LocalsOK, Stages, Opening, Working, Stamped
<1>. QED  BY <1>1, <1>5, <1>7, ShrinkPreserves

\* The sweep, the clock and steps that change nothing.
LEMMA SweepSteps ==
  ASSUME PunchInv,
         \/ SweepSelect \/ SweepAudit \/ SweepNotify \/ SweepFail
         \/ \E e \in sweep.left : SweepEndBreaks(e)
         \/ Tick \/ UNCHANGED vars
  PROVE  PunchInv'
<1>1. CASE UNCHANGED <<entries, breaks>>
  <2>1. now' \in Nat \ {0} /\ UNCHANGED <<entries, breaks, pc, loc>>
    <3>1. CASE Tick
      BY <3>1 DEF Tick, tables, PunchInv, TablesOK
    <3>2. CASE ~Tick
      <4>1. UNCHANGED <<now, entries, breaks, pc, loc>>
        BY <1>1, <3>2 DEF SweepSelect, SweepAudit, SweepNotify, SweepFail, SweepEndBreaks, vars,
                          tables
      <4>. QED  BY <4>1 DEF PunchInv, TablesOK
    <3>. QED  BY <3>1, <3>2
  <2>2. TablesOK' /\ Shrink
    BY <2>1 DEF PunchInv, TablesOK, Shrink, EntryIds, BreakIds
  <2>3. SweepOK'
    <3>1. SweepOK /\ now \in Nat \ {0}
      BY DEF PunchInv, TablesOK
    <3>2. CASE SweepSelect
      BY <3>1, <3>2 DEF SweepSelect, SweepOK, SweepIdle, Null
    <3>3. CASE SweepAudit
      BY <3>1, <3>3 DEF SweepAudit, SweepGoto, SweepAt, SweepOK, SweepIdle
    <3>4. CASE SweepNotify
      <4>1. CASE sweep' = [SweepIdle EXCEPT !.enabled = sweep.enabled]
        BY <4>1 DEF SweepOK, SweepIdle, Null
      <4>2. CASE sweep' = [sweep EXCEPT !.stage = "next", !.entry = Null] /\ sweep.stage = "notify"
        BY <3>1, <4>2 DEF SweepOK, SweepIdle, Null
      <4>. QED  BY <3>4, <4>1, <4>2 DEF SweepNotify, SweepEnds, SweepAt
    <3>5. CASE SweepFail
      BY <3>1, <3>5 DEF SweepFail, SweepEnds, SweepOK, SweepIdle, Null
    <3>6. ASSUME NEW e \in sweep.left, SweepEndBreaks(e) PROVE SweepOK'
      BY <3>1, <3>6 DEF SweepEndBreaks, SweepAt, SweepOK, SweepIdle
    <3>7. CASE Tick \/ UNCHANGED vars
      BY <3>1, <3>7 DEF Tick, vars, SweepOK
    <3>. QED  BY <3>2, <3>3, <3>4, <3>5, <3>6, <3>7
  <2>. QED  BY <2>1, <2>2, <2>3, ShrinkFacts DEF PunchInv
<1>2. ASSUME NEW e \in sweep.left, SweepEndBreaks(e) PROVE PunchInv'
  <2>1. UNCHANGED <<now, entries, pc, loc>>
    BY <1>2 DEF SweepEndBreaks, trails
  <2>2. sweep.at \in Nat /\ sweep.at # Null
    BY <1>2 DEF PunchInv, SweepOK, SweepEndBreaks, SweepAt
  <2>3. TablesOK' /\ Shrink
    <3>1. breaks' = [b \in BreakIds |->
             IF b \in OpenBreaks(e) THEN [breaks[b] EXCEPT !.end = sweep.at] ELSE breaks[b]]
      BY <1>2 DEF SweepEndBreaks, BreakIds
    <3>. QED  BY <2>1, <2>2, <3>1, BreaksEnded
  <2>4. SweepOK'
    BY <1>2 DEF SweepEndBreaks, SweepAt, SweepIdle, PunchInv, SweepOK
  <2>. QED  BY <2>1, <2>3, <2>4, ShrinkFacts DEF PunchInv
<1>. QED  BY <1>1, <1>2 DEF SweepSelect, SweepAudit, SweepNotify, SweepFail, Tick, vars, tables

-----------------------------------------------------------------------------
\* The empty tables satisfy the invariant.
LEMMA InitInv == Init => PunchInv
<1> SUFFICES ASSUME Init PROVE PunchInv
  OBVIOUS
<1>1. TablesOK
  <2>1. entries \in Seq(EntryRows) /\ breaks \in Seq(BreakRows({})) /\ now \in Nat \ {0}
    BY DEF Init
  <2>. QED  BY <2>1 DEF TablesOK
<1>2. OneOpenEntry /\ OneOpenBreak
  BY DEF Init, OneOpenEntry, OneOpenBreak, OpenEntries, BreakIds
<1>3. ASSUME NEW r \in Requests PROVE RequestOK(r)
  BY DEF Init, RequestOK, LocalsOK, NoWork, Kinds, Null, Stages, Opening, Working, Stamped
<1>4. SweepOK
  BY DEF Init, SweepOK, SweepIdle, Null
<1>. QED  BY <1>1, <1>2, <1>3, <1>4 DEF PunchInv, Init

\* Every step of requests, sweep and clock keeps the invariant.
LEMMA NextInv ==
  ASSUME OneRequestEach, PunchInv, [Next]_vars
  PROVE  PunchInv'
<1>1. ASSUME NEW r \in Requests, ArriveAny(r) PROVE PunchInv'
  <2>1. \A queued \in {Null} \cup 1..now : queued \in Nat
    BY DEF Null, PunchInv, TablesOK
  <2>2. ASSUME NEW kind \in {"in", "out"}, NEW queued \in {Null} \cup 1..now,
               Arrive(r, kind, queued, FALSE)
        PROVE  PunchInv'
    BY <2>1, <2>2, ArriveStep DEF Kinds
  <2>3. ASSUME NEW paid \in BOOLEAN, Arrive(r, "breakStart", Null, paid) PROVE PunchInv'
    BY <2>1, <2>3, ArriveStep DEF Kinds
  <2>4. ASSUME NEW kind \in {"breakEnd", "switch"}, Arrive(r, kind, Null, FALSE) PROVE PunchInv'
    BY <2>1, <2>4, ArriveStep DEF Kinds
  <2>. QED  BY <1>1, <2>2, <2>3, <2>4 DEF ArriveAny
<1>2. ASSUME NEW r \in Requests, HandlerStep(r) \/ Fail(r) PROVE PunchInv'
  BY <1>2, FindOpenStep, CheckCooldownStep, CheckPunchStep, InsertEntryStep, FlagPhotoStep,
     FindBreakStep, InsertBreakStep, EndBreakStep, InsertDeductStep, CloseEntryStep,
     AnsweringSteps, WithinHandler
  DEF HandlerStep
<1>3. CASE SweepStep
  BY <1>3, SweepSteps, SweepCloseEntryStep DEF SweepStep
<1>4. CASE Tick \/ SweepFail \/ UNCHANGED vars
  BY <1>4, SweepSteps
<1>. QED  BY <1>1, <1>2, <1>3, <1>4 DEF Next

\* The inductive invariant of the punch clock.
THEOREM PunchInvariant ==
  ASSUME OneRequestEach
  PROVE  Spec => []PunchInv
<1>1. PunchInv /\ [Next]_vars => PunchInv'
  BY NextInv
<1>. QED  BY <1>1, InitInv, PTL DEF Spec

\* Whatever the sweep does and wherever handlers fail, an employee whose device
\* waits for each answer never has two entries open, nor two breaks running on one
\* (clock.ts, auto-clockout.ts).
THEOREM OneOpenPunchAlways ==
  ASSUME OneRequestEach
  PROVE  Spec => []OneOpenPunch
<1>1. PunchInv => OneOpenPunch
  BY DEF PunchInv, OneOpenPunch, OneOpenEntry, OneOpenBreak, OpenBreaks, BreaksOf, BreakIds, EntryIds
<1>. QED  BY <1>1, PunchInvariant, PTL

-----------------------------------------------------------------------------
(***************************************************************************)
(* A shift that ended without the sweep has no running break, for any      *)
(* number of employees and entries, when no employee has two requests in   *)
(* progress.                                                               *)
(*                                                                         *)
(* The argument: what a handler works on is still running or has been      *)
(* closed by the sweep, and by the time it closes it no break is left.     *)
(***************************************************************************)

\* An entry that the next clock-out or break may still touch.
Running(e) == entries[e].out = Null \/ entries[e].edited

\* The statements at which the entry's break, if any, has been ended.
Settled == {"auditBreakEnd", "deduct", "insertDeduct", "auditDeduct", "closeEntry"}

ShiftOK(r) ==
  /\ pc[r] \in Working => Running(loc[r].entry)
  /\ pc[r] = "endBreak" => loc[r].brk \in BreakIds /\ OpenBreaks(loc[r].entry) \subseteq {loc[r].brk}
  /\ pc[r] \in Settled => OpenBreaks(loc[r].entry) = {}

NoBreakLeft == \A e \in EntryIds : Closed(e) /\ ~entries[e].edited => OpenBreaks(e) = {}

ShiftInv ==
  /\ PunchInv
  /\ \A r \in Requests : ShiftOK(r)
  /\ NoBreakLeft

-----------------------------------------------------------------------------
(* What steps have in common *)

\* Entries of other employees stay running, and no break is opened on them.
Undisturbed(r) ==
  /\ BreakIds \subseteq BreakIds'
  /\ \A e \in EntryIds : entries[e].emp # EmployeeOf[r] =>
       /\ Running(e) => Running(e)'
       /\ OpenBreaks(e)' \subseteq OpenBreaks(e)

\* A request's step has to look after that request and the entries it touches.
LEMMA StepKeepsShifts ==
  ASSUME ShiftInv, OneRequestEach, PunchInv', NEW r \in Requests, OthersAlone(r), Undisturbed(r),
         ShiftOK(r)', NoBreakLeft'
  PROVE  ShiftInv'
<1>1. ASSUME NEW s \in Requests \ {r} PROVE ShiftOK(s)'
  <2>1. ShiftOK(s) /\ RequestOK(s) /\ pc'[s] = pc[s] /\ loc'[s] = loc[s]
    BY DEF ShiftInv, PunchInv, OthersAlone
  <2>2. CASE pc[s] \in Working
    <3>1. PICK e \in EntryIds : e = loc[s].entry /\ entries[e].emp = EmployeeOf[s]
      BY <2>1, <2>2 DEF RequestOK
    <3>2. EmployeeOf[s] # EmployeeOf[r]
      BY DEF OneRequestEach
    <3>3. (Running(e) => Running(e)') /\ OpenBreaks(e)' \subseteq OpenBreaks(e)
      BY <3>1, <3>2 DEF Undisturbed
    <3>4. Running(loc[s].entry)'
      BY <2>1, <2>2, <3>1, <3>3 DEF ShiftOK
    <3>5. OpenBreaks(loc[s].entry)' \subseteq OpenBreaks(loc[s].entry)
      BY <2>1, <3>1, <3>3
    <3>6. BreakIds \subseteq BreakIds'
      BY DEF Undisturbed
    <3>. QED  BY <2>1, <3>4, <3>5, <3>6 DEF ShiftOK
  <2>3. CASE pc[s] \notin Working
    BY <2>1, <2>3 DEF ShiftOK, Working, Stamped, Settled
  <2>. QED  BY <2>2, <2>3
<1>. QED  BY <1>1 DEF ShiftInv

\* A step that changes no row needs to look after its request only.
LEMMA SteadyKeepsShifts ==
  ASSUME ShiftInv, OneRequestEach, PunchInv', NEW r \in Requests, OthersAlone(r),
         UNCHANGED <<entries, breaks>>, ShiftOK(r)'
  PROVE  ShiftInv'
<1>1. Undisturbed(r)
  BY DEF Undisturbed, BreakIds, Running, OpenBreaks, BreaksOf
<1>2. NoBreakLeft'
  BY DEF ShiftInv, NoBreakLeft, EntryIds, Closed, OpenBreaks, BreaksOf
<1>. QED  BY <1>1, <1>2, StepKeepsShifts

\* A request that is answered has nothing in hand.
LEMMA RespondKeepsShifts ==
  ASSUME ShiftInv, OneRequestEach, PunchInv', NEW r \in Requests, Respond(r),
         UNCHANGED <<entries, breaks>>
  PROVE  ShiftInv'
<1>1. OthersAlone(r) /\ pc'[r] = "idle"
  BY Responded DEF ShiftInv, Respond, Goto, PunchInv
<1>2. ShiftOK(r)'
  BY <1>1 DEF ShiftOK, Working, Stamped, Settled
<1>. QED  BY <1>1, <1>2, SteadyKeepsShifts

-----------------------------------------------------------------------------
(* The steps that change no row *)

\* The entry found is open.
LEMMA FindOpenShift ==
  ASSUME ShiftInv, OneRequestEach, PunchInv', NEW r \in Requests, FindOpen(r)
  PROVE  ShiftInv'
<1>1. UNCHANGED <<entries, breaks>>
  BY DEF FindOpen, tables
<1>2. CASE Respond(r)
  BY <1>1, <1>2, RespondKeepsShifts
<1>3. CASE \E q : /\ loc' = [loc EXCEPT ![r].queued = q]
                  /\ pc' \in {[pc EXCEPT ![r] = "cooldown"], [pc EXCEPT ![r] = "checks"]}
  <2>1. OthersAlone(r) /\ pc'[r] \in {"cooldown", "checks"}
    BY <1>3 DEF OthersAlone, ShiftInv, PunchInv
  <2>2. ShiftOK(r)'
    BY <2>1 DEF ShiftOK, Working, Stamped, Settled
  <2>. QED  BY <1>1, <2>1, <2>2, SteadyKeepsShifts
<1>4. CASE \E e \in LatestOpen(EmployeeOf[r]) :
             loc' = [loc EXCEPT ![r].entry = e, ![r].in = entries[e].in] /\ Goto(r, "findBreak")
  <2>1. PICK e \in LatestOpen(EmployeeOf[r]) :
          loc' = [loc EXCEPT ![r].entry = e, ![r].in = entries[e].in] /\ Goto(r, "findBreak")
    BY <1>4
  <2>2. OthersAlone(r) /\ pc'[r] = "findBreak"
    BY <2>1 DEF OthersAlone, Goto, ShiftInv, PunchInv
  <2>3. loc'[r].entry = e
    BY <2>1 DEF ShiftInv, PunchInv, RequestOK, LocalsOK, NoWork
  <2>4. entries'[e].out = Null
    BY <1>1 DEF LatestOpen, OpenEntries
  <2>5. ShiftOK(r)'
    BY <2>2, <2>3, <2>4 DEF ShiftOK, Running, Settled
  <2>. QED  BY <1>1, <2>2, <2>5, SteadyKeepsShifts
<1>. QED  BY <1>2, <1>3, <1>4 DEF FindOpen, Goto

\* The break found is the only one running.
LEMMA FindBreakShift ==
  ASSUME ShiftInv, OneRequestEach, PunchInv', NEW r \in Requests, FindBreak(r)
  PROVE  ShiftInv'
<1>1. UNCHANGED <<entries, breaks>>
  BY DEF FindBreak, tables
<1>2. CASE Respond(r)
  BY <1>1, <1>2, RespondKeepsShifts
<1>3. CASE ~Respond(r)
  <2>1. PICK e : e = loc[r].entry
    OBVIOUS
  <2>2. PICK b, stage :
          /\ b \in (IF OpenBreaks(e) = {} THEN {Null} ELSE OpenBreaks(e))
          /\ stage = AfterFindBreak(loc[r].kind, OpenBreaks(e) # {})
          /\ stage # "idle" /\ Goto(r, stage)
          /\ loc' = [loc EXCEPT ![r].brk = b, ![r].at = Stamp(r)]
    BY <1>3, <2>1 DEF FindBreak
  <2>3. pc[r] = "findBreak" /\ loc[r].kind \in Kinds \ {"in"} /\ Running(e)
    BY <2>1 DEF FindBreak, At, ShiftInv, ShiftOK, PunchInv, RequestOK, LocalsOK, Working
  <2>4. /\ stage \in {"endBreak", "deduct", "insertBreak", "closeEntry"}
        /\ stage = "endBreak" => OpenBreaks(e) # {}
        /\ stage \in {"deduct", "closeEntry"} => OpenBreaks(e) = {}
    BY <2>2, <2>3 DEF AfterFindBreak, Kinds
  <2>5. OpenBreaks(e) # {} => OpenBreaks(e) \subseteq {b} /\ b \in BreakIds
    BY <2>2 DEF ShiftInv, PunchInv, OneOpenBreak, OpenBreaks, BreaksOf, BreakIds
  <2>6. OthersAlone(r) /\ pc'[r] = stage
    BY <2>2 DEF OthersAlone, Goto, ShiftInv, PunchInv
  <2>7. loc'[r].entry = e /\ loc'[r].brk = b
    BY <2>1, <2>2 DEF ShiftInv, PunchInv, RequestOK, LocalsOK, NoWork
  <2>8. Running(e)' /\ OpenBreaks(e)' = OpenBreaks(e) /\ BreakIds' = BreakIds
    BY <1>1, <2>3 DEF Running, OpenBreaks, BreaksOf, BreakIds
  <2>9. /\ Running(loc[r].entry)'
        /\ OpenBreaks(loc[r].entry)' = OpenBreaks(e)
    BY <2>7, <2>8
  <2>10. ShiftOK(r)'
    BY <2>4, <2>5, <2>6, <2>7, <2>8, <2>9 DEF ShiftOK, Settled
  <2>. QED  BY <1>1, <2>6, <2>10, SteadyKeepsShifts
<1>. QED  BY <1>2, <1>3

\* The other statements that change no row answer, or go on with what they have.
LEMMA SteadyShift ==
  ASSUME ShiftInv, OneRequestEach, PunchInv', NEW r \in Requests,
         \/ ArriveAny(r) \/ CheckCooldown(r) \/ CheckPunch(r) \/ AuditIn(r) \/ AuditBreakStart(r)
         \/ AuditBreakEnd(r) \/ ReadBreaks(r) \/ AuditDeduct(r) \/ AuditOut(r)
         \/ AuditSwitchClose(r) \/ AuditSwitchOpen(r) \/ Fail(r)
  PROVE  ShiftInv'
<1>1. UNCHANGED <<entries, breaks>>
  BY DEF ArriveAny, Arrive, CheckCooldown, CheckPunch, AuditIn, AuditBreakStart, AuditBreakEnd,
         ReadBreaks, AuditDeduct, AuditOut, AuditSwitchClose, AuditSwitchOpen, Fail, tables
<1>2. CASE Respond(r)
  BY <1>1, <1>2, RespondKeepsShifts
<1>3. CASE AuditBreakEnd(r) \/ ReadBreaks(r) \/ AuditDeduct(r)
  <2>1. CASE ~Respond(r)
    <3>1. PICK stage \in {"deduct", "insertDeduct", "closeEntry"} :
            Goto(r, stage) /\ pc[r] \in {"auditBreakEnd", "deduct", "auditDeduct"}
      BY <1>3, <2>1 DEF AuditBreakEnd, ReadBreaks, AuditDeduct, At
    <3>2. /\ loc'[r].entry = loc[r].entry /\ DOMAIN loc' = Requests
          /\ \A s \in Requests \ {r} : loc'[s] = loc[s]
      BY <1>3, <2>1 DEF AuditBreakEnd, ReadBreaks, AuditDeduct, ShiftInv, PunchInv, RequestOK,
                        LocalsOK, NoWork
    <3>3. OthersAlone(r) /\ pc'[r] = stage
      BY <3>1, <3>2 DEF OthersAlone, Goto, ShiftInv, PunchInv
    <3>4. Running(loc[r].entry) /\ OpenBreaks(loc[r].entry) = {}
      BY <3>1 DEF ShiftInv, ShiftOK, Working, Stamped, Settled
    <3>5. Running(loc[r].entry)' /\ OpenBreaks(loc[r].entry)' = {}
      BY <1>1, <3>2, <3>4 DEF Running, OpenBreaks, BreaksOf
    <3>6. ShiftOK(r)'
      BY <3>1, <3>3, <3>5 DEF ShiftOK
    <3>. QED  BY <1>1, <3>3, <3>6, SteadyKeepsShifts
  <2>. QED  BY <1>2, <2>1
<1>4. CASE OthersAlone(r) /\ pc'[r] \in {"findOpen", "checks", "insertEntry", "auditSwitchOpen"}
  <2>1. ShiftOK(r)'
    BY <1>4 DEF ShiftOK, Working, Stamped, Settled
  <2>. QED  BY <1>1, <1>4, <2>1, SteadyKeepsShifts
<1>5. ASSUME ~Respond(r), ~(AuditBreakEnd(r) \/ ReadBreaks(r) \/ AuditDeduct(r))
      PROVE  OthersAlone(r) /\ pc'[r] \in {"findOpen", "checks", "insertEntry", "auditSwitchOpen"}
  <2>1. CASE ArriveAny(r)
    BY <2>1 DEF ArriveAny, Arrive, Goto, OthersAlone, ShiftInv, PunchInv
  <2>2. CASE CheckCooldown(r) \/ CheckPunch(r) \/ AuditSwitchClose(r)
    BY <1>5, <2>2 DEF CheckCooldown, CheckPunch, AuditSwitchClose, Goto, OthersAlone, ShiftInv, PunchInv
  <2>. QED  BY <1>5, <2>1, <2>2 DEF AuditIn, AuditBreakStart, AuditOut, AuditSwitchOpen, Fail
<1>. QED  BY <1>2, <1>3, <1>4, <1>5

-----------------------------------------------------------------------------
(* The steps that change rows *)

\* A new entry has not ended, and the others are as they were.
LEMMA InsertEntryShift ==
  ASSUME ShiftInv, OneRequestEach, PunchInv', NEW r \in Requests, InsertEntry(r) \/ InsertNext(r)
  PROVE  ShiftInv'
<1>1. UNCHANGED breaks /\ OthersAlone(r)
      /\ pc'[r] \in {"photo", "auditIn", "auditSwitchClose"}
  BY DEF InsertEntry, InsertNext, Goto, OthersAlone, ShiftInv, PunchInv
<1>2. PICK row : entries' = Append(entries, row) /\ row.out = Null
  BY DEF InsertEntry, InsertNext, NewEntry
<1>3. /\ EntryIds' = EntryIds \cup {Len(entries) + 1}
      /\ entries'[Len(entries) + 1].out = Null
      /\ \A e \in EntryIds : entries'[e] = entries[e]
  <2>1. entries \in Seq(EntryRows)
    BY DEF ShiftInv, PunchInv, TablesOK
  <2>2. /\ DOMAIN entries = 1..Len(entries) /\ Len(entries) \in Nat
        /\ DOMAIN entries' = 1..(Len(entries) + 1)
        /\ entries'[Len(entries) + 1] = row
        /\ \A e \in 1..Len(entries) : entries'[e] = entries[e]
    BY <1>2, <2>1, AppendFacts
  <2>. QED  BY <1>2, <2>2 DEF EntryIds
<1>4. \A e : OpenBreaks(e)' = OpenBreaks(e)
  BY <1>1 DEF OpenBreaks, BreaksOf
<1>5. NoBreakLeft'
  BY <1>3, <1>4 DEF ShiftInv, NoBreakLeft, Closed
<1>6. Undisturbed(r)
  BY <1>1, <1>3, <1>4 DEF Undisturbed, BreakIds, Running
<1>7. ShiftOK(r)'
  BY <1>1 DEF ShiftOK, Working, Stamped, Settled
<1>. QED  BY <1>1, <1>5, <1>6, <1>7, StepKeepsShifts

\* An update of one entry, as far as the argument looks into it.
LEMMA UpdatedEntry ==
  ASSUME PunchInv, NEW e \in EntryIds, NEW row, entries' = [entries EXCEPT ![e] = row]
  PROVE  /\ EntryIds' = EntryIds /\ entries'[e] = row
         /\ \A f \in EntryIds \ {e} : entries'[f] = entries[f]
BY DEF PunchInv, TablesOK, EntryIds

\* The photo flag moves no clock-out.
LEMMA FlagPhotoShift ==
  ASSUME ShiftInv, OneRequestEach, PunchInv', NEW r \in Requests, FlagPhoto(r)
  PROVE  /\ ShiftInv'
         /\ EntryIds' = EntryIds
         /\ \A e \in EntryIds : entries'[e].out = entries[e].out /\ entries'[e].edited = entries[e].edited
<1>1. UNCHANGED breaks /\ OthersAlone(r) /\ pc'[r] = "auditIn"
  BY DEF FlagPhoto, Goto, OthersAlone, ShiftInv, PunchInv
<1>2. /\ EntryIds' = EntryIds
      /\ \A e \in EntryIds : entries'[e].out = entries[e].out /\ entries'[e].edited = entries[e].edited
  <2>1. PICK f, row : /\ row = [entries[f] EXCEPT !.flags = loc[r].flags \cup {"suspect"}]
                      /\ entries' = [entries EXCEPT ![f] = row]
    BY DEF FlagPhoto
  <2>2. CASE f \in EntryIds
    <3>1. entries[f] \in EntryRows
      BY <2>2, EntryIsRow DEF ShiftInv
    <3>2. row.out = entries[f].out /\ row.edited = entries[f].edited
      BY <2>1, <3>1 DEF EntryRows
    <3>. QED  BY <2>1, <2>2, <3>2, UpdatedEntry DEF ShiftInv
  <2>3. CASE f \notin EntryIds
    <3>1. entries' = entries
      BY <2>1, <2>3 DEF EntryIds, ShiftInv, PunchInv, TablesOK
    <3>. QED  BY <3>1 DEF EntryIds
  <2>. QED  BY <2>2, <2>3
<1>3. \A e : OpenBreaks(e)' = OpenBreaks(e)
  BY <1>1 DEF OpenBreaks, BreaksOf
<1>4. NoBreakLeft'
  BY <1>2, <1>3 DEF ShiftInv, NoBreakLeft, Closed
<1>5. Undisturbed(r)
  BY <1>1, <1>2, <1>3 DEF Undisturbed, BreakIds, Running
<1>6. ShiftOK(r)'
  BY <1>1 DEF ShiftOK, Working, Stamped, Settled
<1>. QED  BY <1>1, <1>2, <1>4, <1>5, <1>6, StepKeepsShifts

\* The entry a handler closes is open, or was closed by the sweep, and has no running break.
LEMMA CloseEntryShift ==
  ASSUME ShiftInv, OneRequestEach, PunchInv', NEW r \in Requests, CloseEntry(r)
  PROVE  /\ ShiftInv'
         /\ EntryIds' = EntryIds
         /\ \A e \in EntryIds : entries'[e] = entries[e] \/ (Running(e) /\ entries'[e].edited = entries[e].edited)
<1>1. PICK f, row : /\ f = loc[r].entry /\ row = [entries[f] EXCEPT !.out = loc[r].at]
                    /\ entries' = [entries EXCEPT ![f] = row]
  BY DEF CloseEntry
<1>2. /\ UNCHANGED breaks /\ OthersAlone(r) /\ pc[r] = "closeEntry"
      /\ pc'[r] \in {"auditOut", "insertNext"}
  BY DEF CloseEntry, Goto, At, OthersAlone, ShiftInv, PunchInv
<1>3. f \in EntryIds /\ entries[f].emp = EmployeeOf[r] /\ Running(f) /\ OpenBreaks(f) = {}
  BY <1>1, <1>2 DEF ShiftInv, ShiftOK, PunchInv, RequestOK, Working, Stamped, Settled
<1>4. row.edited = entries[f].edited
  BY <1>1, <1>3, EntryIsRow DEF ShiftInv, EntryRows
<1>5. /\ EntryIds' = EntryIds /\ entries'[f] = row
      /\ \A e \in EntryIds \ {f} : entries'[e] = entries[e]
  BY <1>1, <1>3, UpdatedEntry DEF ShiftInv
<1>6. \A e : OpenBreaks(e)' = OpenBreaks(e)
  BY <1>2 DEF OpenBreaks, BreaksOf
<1>7. NoBreakLeft'
  BY <1>3, <1>5, <1>6 DEF ShiftInv, NoBreakLeft, Closed
<1>8. Undisturbed(r)
  BY <1>2, <1>3, <1>5, <1>6 DEF Undisturbed, BreakIds, Running
<1>9. ShiftOK(r)'
  BY <1>2 DEF ShiftOK, Working, Stamped, Settled
<1>10. ShiftInv'
  BY <1>2, <1>7, <1>8, <1>9, StepKeepsShifts
<1>. QED  BY <1>3, <1>4, <1>5, <1>10

\* A new break, as far as the argument looks into it.
LEMMA NewBreakRow ==
  ASSUME PunchInv, NEW row, breaks' = Append(breaks, row)
  PROVE  /\ BreakIds \subseteq BreakIds'
         /\ \A b \in BreakIds : breaks'[b] = breaks[b]
         /\ \A b \in BreakIds' \ BreakIds : breaks'[b] = row
<1>1. PICK Starts : breaks \in Seq(BreakRows(Starts))
  BY DEF PunchInv, TablesOK
<1>2. /\ DOMAIN breaks = 1..Len(breaks) /\ Len(breaks) \in Nat
      /\ DOMAIN breaks' = 1..(Len(breaks) + 1)
      /\ breaks'[Len(breaks) + 1] = row
      /\ \A b \in 1..Len(breaks) : breaks'[b] = breaks[b]
  BY <1>1, AppendFacts
<1>3. DOMAIN breaks' \ DOMAIN breaks = {Len(breaks) + 1} /\ DOMAIN breaks \subseteq DOMAIN breaks'
  BY <1>2
<1>. QED  BY <1>2, <1>3 DEF BreakIds

\* A break starts on an entry that is running, or on one the sweep closed meanwhile.
LEMMA InsertBreakShift ==
  ASSUME ShiftInv, OneRequestEach, PunchInv', NEW r \in Requests, InsertBreak(r)
  PROVE  ShiftInv'
<1>1. PICK f, row : f = loc[r].entry /\ row.entry = f /\ breaks' = Append(breaks, row)
  BY DEF InsertBreak, NewBreak
<1>2. /\ UNCHANGED entries /\ OthersAlone(r) /\ pc[r] = "insertBreak"
      /\ pc'[r] = "auditBreakStart"
  BY DEF InsertBreak, Goto, At, OthersAlone, ShiftInv, PunchInv
<1>3. entries[f].emp = EmployeeOf[r] /\ Running(f)
  BY <1>1, <1>2 DEF ShiftInv, ShiftOK, PunchInv, RequestOK, Working
<1>4. /\ BreakIds \subseteq BreakIds'
      /\ \A b \in BreakIds : breaks'[b] = breaks[b]
      /\ \A b \in BreakIds' \ BreakIds : breaks'[b] = row
  BY <1>1, NewBreakRow DEF ShiftInv
<1>5. \A e : e # f => OpenBreaks(e)' \subseteq OpenBreaks(e)
  BY <1>1, <1>4 DEF OpenBreaks, BreaksOf, BreakIds
<1>6. NoBreakLeft'
  BY <1>2, <1>3, <1>5 DEF ShiftInv, NoBreakLeft, Closed, EntryIds, Running
<1>7. Undisturbed(r)
  BY <1>2, <1>3, <1>4, <1>5 DEF Undisturbed, Running
<1>8. ShiftOK(r)'
  BY <1>2 DEF ShiftOK, Working, Stamped, Settled
<1>. QED  BY <1>2, <1>6, <1>7, <1>8, StepKeepsShifts

\* The deducted break has an end.
LEMMA InsertDeductShift ==
  ASSUME ShiftInv, OneRequestEach, PunchInv', NEW r \in Requests, InsertDeduct(r)
  PROVE  ShiftInv'
<1>1. PICK f, row : f = loc[r].entry /\ row.end = loc[r].at /\ breaks' = Append(breaks, row)
  BY DEF InsertDeduct, NewBreak
<1>2. /\ UNCHANGED entries /\ OthersAlone(r) /\ pc[r] = "insertDeduct"
      /\ pc'[r] = "auditDeduct" /\ loc' = [loc EXCEPT ![r].brk = Len(breaks) + 1]
  BY DEF InsertDeduct, Goto, At, OthersAlone, ShiftInv, PunchInv
<1>3. loc[r].at # Null /\ Running(f) /\ OpenBreaks(f) = {}
  BY <1>1, <1>2 DEF ShiftInv, ShiftOK, PunchInv, RequestOK, Working, Stamped, Settled
<1>4. /\ BreakIds \subseteq BreakIds'
      /\ \A b \in BreakIds : breaks'[b] = breaks[b]
      /\ \A b \in BreakIds' \ BreakIds : breaks'[b] = row
  BY <1>1, NewBreakRow DEF ShiftInv
<1>5. \A e : OpenBreaks(e)' \subseteq OpenBreaks(e)
  BY <1>1, <1>3, <1>4 DEF OpenBreaks, BreaksOf, BreakIds
<1>6. NoBreakLeft'
  BY <1>2, <1>5 DEF ShiftInv, NoBreakLeft, Closed, EntryIds
<1>7. Undisturbed(r)
  BY <1>2, <1>4, <1>5 DEF Undisturbed, Running
<1>8. loc'[r].entry = f
  BY <1>1, <1>2 DEF ShiftInv, PunchInv, RequestOK, LocalsOK, NoWork
<1>9. Running(f)' /\ OpenBreaks(f)' = {}
  BY <1>2, <1>3, <1>5 DEF Running
<1>10. Running(loc[r].entry)' /\ OpenBreaks(loc[r].entry)' = {}
  BY <1>8, <1>9
<1>11. ShiftOK(r)'
  BY <1>2, <1>10 DEF ShiftOK
<1>. QED  BY <1>2, <1>6, <1>7, <1>11, StepKeepsShifts

\* Ending the one running break leaves none.
LEMMA EndBreakShift ==
  ASSUME ShiftInv, OneRequestEach, PunchInv', NEW r \in Requests, EndBreak(r)
  PROVE  ShiftInv'
<1>1. PICK f, b, at, row :
        /\ f = loc[r].entry /\ b = loc[r].brk /\ at = loc[r].at
        /\ row = [breaks[b] EXCEPT !.end = at] /\ breaks' = [breaks EXCEPT ![b] = row]
  BY DEF EndBreak
<1>2. /\ UNCHANGED <<entries, loc>> /\ OthersAlone(r) /\ pc[r] = "endBreak"
      /\ pc'[r] = "auditBreakEnd"
  BY DEF EndBreak, Goto, At, OthersAlone, ShiftInv, PunchInv
<1>3. at # Null /\ Running(f) /\ b \in BreakIds /\ OpenBreaks(f) \subseteq {b}
  BY <1>1, <1>2 DEF ShiftInv, ShiftOK, PunchInv, RequestOK, Working, Stamped
<1>4. /\ BreakIds' = BreakIds /\ breaks'[b] = row
      /\ \A c \in BreakIds \ {b} : breaks'[c] = breaks[c]
  BY <1>1, <1>3 DEF BreakIds
<1>5. row.end = at
  <2>1. PICK Starts : breaks \in Seq(BreakRows(Starts))
    BY DEF ShiftInv, PunchInv, TablesOK
  <2>2. breaks[b] \in BreakRows(Starts)
    BY <1>3, <2>1 DEF BreakIds
  <2>. QED  BY <1>1, <2>2 DEF BreakRows
<1>6. \A e : OpenBreaks(e)' \subseteq OpenBreaks(e) \ {b}
  BY <1>3, <1>4, <1>5 DEF OpenBreaks, BreaksOf, BreakIds
<1>7. NoBreakLeft'
  BY <1>2, <1>6 DEF ShiftInv, NoBreakLeft, Closed, EntryIds
<1>8. Undisturbed(r)
  BY <1>2, <1>4, <1>6 DEF Undisturbed, Running
<1>9. Running(f)' /\ OpenBreaks(f)' = {}
  BY <1>2, <1>3, <1>6 DEF Running
<1>10. Running(loc[r].entry)' /\ OpenBreaks(loc[r].entry)' = {}
  BY <1>1, <1>2, <1>9
<1>11. ShiftOK(r)'
  BY <1>2, <1>10 DEF ShiftOK
<1>. QED  BY <1>2, <1>7, <1>8, <1>11, StepKeepsShifts

-----------------------------------------------------------------------------
(* The sweep and the clock *)

\* The sweep ends breaks and closes entries, which it marks as edited.
LEMMA SweepShift ==
  ASSUME ShiftInv, PunchInv', SweepStep \/ SweepFail \/ Tick \/ UNCHANGED vars
  PROVE  /\ ShiftInv'
         /\ EntryIds' = EntryIds
         /\ \A e \in EntryIds : entries'[e] = entries[e] \/ entries'[e].edited
<1>1. UNCHANGED <<pc, loc>>
  BY DEF SweepStep, SweepSelect, SweepEndBreaks, SweepCloseEntry, SweepAudit, SweepNotify,
         SweepFail, Tick, vars
<1>2. /\ EntryIds' = EntryIds
      /\ \A e \in EntryIds : entries'[e] = entries[e] \/ entries'[e].edited
  <2>1. CASE UNCHANGED entries
    BY <2>1 DEF EntryIds
  <2>2. CASE SweepCloseEntry
    <3>1. PICK f, row : /\ row = [[entries[f] EXCEPT !.out = sweep.at] EXCEPT !.edited = TRUE]
                        /\ f = sweep.entry
      OBVIOUS
    <3>2. CASE f \in EntryIds
      <4>1. entries' = [entries EXCEPT ![f] = row]
        BY <2>2, <3>1, <3>2 DEF SweepCloseEntry, EntryIds
      <4>2. row.edited
        BY <3>1, <3>2, EntryIsRow DEF ShiftInv, EntryRows
      <4>. QED  BY <3>2, <4>1, <4>2, UpdatedEntry DEF ShiftInv
    <3>3. CASE f \notin EntryIds
      <4>1. entries' = entries
        BY <2>2, <3>1, <3>3 DEF SweepCloseEntry, EntryIds, ShiftInv, PunchInv, TablesOK
      <4>. QED  BY <4>1 DEF EntryIds
    <3>. QED  BY <3>2, <3>3
  <2>. QED  BY <2>1, <2>2 DEF SweepStep, SweepSelect, SweepEndBreaks, SweepAudit, SweepNotify,
                              SweepFail, Tick, vars, tables
<1>3. BreakIds' = BreakIds /\ \A e : OpenBreaks(e)' \subseteq OpenBreaks(e)
  <2>1. CASE UNCHANGED breaks
    BY <2>1 DEF BreakIds, OpenBreaks, BreaksOf
  <2>2. CASE \E e \in sweep.left : SweepEndBreaks(e)
    <3>1. PICK e : SweepEndBreaks(e)
      BY <2>2
    <3>2. sweep.at # Null
      BY <3>1 DEF SweepEndBreaks, SweepAt, ShiftInv, PunchInv, SweepOK
    <3>3. PICK Starts : breaks \in Seq(BreakRows(Starts))
      BY DEF ShiftInv, PunchInv, TablesOK
    <3>4. \A b \in BreakIds : breaks[b] \in BreakRows(Starts)
      BY <3>3 DEF BreakIds
    <3>5. BreakIds' = BreakIds /\ \A b \in BreakIds :
            breaks'[b] = IF b \in OpenBreaks(e) THEN [breaks[b] EXCEPT !.end = sweep.at] ELSE breaks[b]
      BY <3>1 DEF SweepEndBreaks, BreakIds
    <3>6. \A b \in BreakIds : breaks'[b] = breaks[b] \/ breaks'[b].end # Null
      BY <3>2, <3>4, <3>5 DEF BreakRows
    <3>. QED  BY <3>5, <3>6 DEF OpenBreaks, BreaksOf, BreakIds
  <2>. QED  BY <2>1, <2>2 DEF SweepStep, SweepSelect, SweepCloseEntry, SweepAudit, SweepNotify,
                              SweepFail, Tick, vars, tables
<1>4. NoBreakLeft'
  BY <1>2, <1>3 DEF ShiftInv, NoBreakLeft, Closed
<1>5. ASSUME NEW s \in Requests PROVE ShiftOK(s)'
  <2>1. ShiftOK(s) /\ RequestOK(s)
    BY DEF ShiftInv, PunchInv
  <2>2. pc[s] \in Working => loc[s].entry \in EntryIds
    BY <2>1 DEF RequestOK
  <2>3. pc[s] \in Working => Running(loc[s].entry)'
    BY <1>1, <1>2, <2>1, <2>2 DEF ShiftOK, Running
  <2>4. OpenBreaks(loc[s].entry)' \subseteq OpenBreaks(loc[s].entry)
    BY <1>1, <1>3
  <2>. QED  BY <1>1, <1>3, <2>1, <2>3, <2>4 DEF ShiftOK
<1>. QED  BY <1>2, <1>4, <1>5 DEF ShiftInv

-----------------------------------------------------------------------------
(* The theorems *)

\* There is no shift in the beginning ...
LEMMA ShiftInit == Init => ShiftInv
BY InitInv DEF Init, ShiftInv, ShiftOK, Working, Stamped, Settled, NoBreakLeft, EntryIds

\* ... and every step of every handler and of the sweep keeps the invariant.
LEMMA ShiftNext ==
  ASSUME OneRequestEach, ShiftInv, [Next]_vars
  PROVE  ShiftInv'
<1>1. PunchInv'
  BY NextInv DEF ShiftInv
<1>2. ASSUME NEW r \in Requests, ArriveAny(r) \/ HandlerStep(r) \/ Fail(r) PROVE ShiftInv'
  BY <1>1, <1>2, FindOpenShift, FindBreakShift, SteadyShift, InsertEntryShift, FlagPhotoShift,
     CloseEntryShift, InsertBreakShift, InsertDeductShift, EndBreakShift DEF HandlerStep
<1>3. CASE SweepStep \/ SweepFail \/ Tick \/ UNCHANGED vars
  BY <1>1, <1>3, SweepShift
<1>. QED  BY <1>2, <1>3 DEF Next

\* What handlers work on is running or was closed by the sweep, and no break is left
\* running when they close it.
THEOREM ShiftInvariant ==
  ASSUME OneRequestEach
  PROVE  Spec => []ShiftInv
<1>1. ShiftInv /\ [Next]_vars => ShiftInv'
  BY ShiftNext
<1>. QED  BY <1>1, ShiftInit, PTL DEF Spec

-----------------------------------------------------------------------------
(***************************************************************************)
(* No time is paid twice unnoticed (OverlapsFlagged), for any number of    *)
(* employees and entries, when no employee has two requests in progress.   *)
(*                                                                         *)
(* The argument: of two entries that neither the offline queue nor the     *)
(* sweep marked, one ended before the other began.  An instant a handler   *)
(* has in hand for a new entry is never earlier than the clock-outs that   *)
(* stand, for they were all made by the time the handler read the clock.   *)
(***************************************************************************)

\* An entry nothing marks for review.
Plain(e) == "offline_queued" \notin entries[e].flags /\ ~entries[e].edited

EndsBy(e, t) == Closed(e) /\ entries[e].out <= t

\* The unmarked shifts of an employee that have ended had ended by t.
EndedBy(emp, t) ==
  \A e \in EntryIds : entries[e].emp = emp /\ Plain(e) /\ Closed(e) => entries[e].out <= t

\* Of two unmarked entries of an employee one ended before the other began.
Apart ==
  \A e, f \in EntryIds :
    e # f /\ entries[e].emp = entries[f].emp /\ Plain(e) /\ Plain(f) =>
      EndsBy(e, entries[f].in) \/ EndsBy(f, entries[e].in)

\* What a handler knows of the instant it has in hand, and of the entry whose photo
\* it is about to flag.
InstantOK(r) ==
  /\ pc[r] \in Stamped => loc[r].at <= now
  /\ pc[r] \in Stamped /\ loc[r].kind # "out" => EndedBy(EmployeeOf[r], loc[r].at)
  /\ pc[r] = "insertNext" => EndedBy(EmployeeOf[r], loc[r].at)
  /\ pc[r] = "insertEntry" =>
       "offline_queued" \in loc[r].flags \/ EndedBy(EmployeeOf[r], loc[r].at)
  /\ pc[r] = "photo" =>
       /\ loc[r].entry \in EntryIds
       /\ "offline_queued" \in entries[loc[r].entry].flags <=> "offline_queued" \in loc[r].flags

\* No unmarked shift ends in the future.
EndedAll == \A e \in EntryIds : Plain(e) /\ Closed(e) => entries[e].out <= now

OverlapInv ==
  /\ ShiftInv
  /\ Apart
  /\ EndedAll
  /\ \A r \in Requests : InstantOK(r)

-----------------------------------------------------------------------------
(* What steps have in common *)

\* No entry is added, and one that is left unmarked is left as it was.
Kept ==
  /\ EntryIds' = EntryIds
  /\ now' >= now
  /\ \A e \in EntryIds :
       /\ entries'[e].emp = entries[e].emp /\ entries'[e].in = entries[e].in
       /\ "offline_queued" \in entries'[e].flags <=> "offline_queued" \in entries[e].flags
       /\ entries'[e].edited \/ (~entries[e].edited /\ entries'[e].out = entries[e].out)

\* Instants are natural numbers.
LEMMA TimesAreNumbers ==
  ASSUME PunchInv
  PROVE  /\ now \in Nat
         /\ \A e \in EntryIds : entries[e].in \in Nat /\ entries[e].out \in Nat
         /\ \A r \in Requests : loc[r].at \in Nat
<1>1. \A e \in EntryIds : entries[e].in \in Nat /\ entries[e].out \in Nat
  BY EntryIsRow DEF EntryRows
<1>. QED  BY <1>1 DEF PunchInv, TablesOK, RequestOK, LocalsOK

\* Where every entry is kept, what had ended by an instant still has.
LEMMA KeptFacts ==
  ASSUME OverlapInv, Kept, PunchInv'
  PROVE  /\ Apart' /\ EndedAll'
         /\ \A emp, t : EndedBy(emp, t) => EndedBy(emp, t)'
         /\ \A s \in Requests : pc'[s] = pc[s] /\ loc'[s] = loc[s] => InstantOK(s)'
<1>1. \A e \in EntryIds : Plain(e)' => Plain(e) /\ entries'[e].out = entries[e].out
  BY DEF Kept, Plain
<1>2. Apart'
  BY <1>1 DEF OverlapInv, Apart, Kept, EndsBy, Closed
<1>3. now \in Nat /\ now' \in Nat /\ \A e \in EntryIds : entries[e].out \in Nat
  BY TimesAreNumbers DEF OverlapInv, ShiftInv, PunchInv, TablesOK
<1>4. EndedAll'
  BY <1>1, <1>3 DEF OverlapInv, EndedAll, Kept, Closed
<1>5. ASSUME NEW emp, NEW t, EndedBy(emp, t) PROVE EndedBy(emp, t)'
  BY <1>1, <1>5 DEF EndedBy, Kept, Closed
<1>6. ASSUME NEW s \in Requests, pc'[s] = pc[s], loc'[s] = loc[s] PROVE InstantOK(s)'
  <2>1. InstantOK(s) /\ loc[s].at \in Nat
    BY TimesAreNumbers DEF OverlapInv, ShiftInv
  <2>2. EndedBy(EmployeeOf[s], loc[s].at) => EndedBy(EmployeeOf[s], loc[s].at)'
    BY <1>5, <1>6
  <2>3. loc[s].at <= now => loc[s].at <= now'
    BY <1>3, <2>1 DEF Kept
  <2>. QED  BY <1>6, <2>1, <2>2, <2>3 DEF InstantOK, Kept
<1>. QED  BY <1>2, <1>4, <1>5, <1>6

\* A request's step that keeps the entries has to look after that request.
LEMMA KeptPreserves ==
  ASSUME OverlapInv, ShiftInv', NEW r \in Requests, OthersAlone(r), Kept, InstantOK(r)'
  PROVE  OverlapInv'
<1>1. PunchInv'
  BY DEF ShiftInv
<1>2. ASSUME NEW s \in Requests PROVE InstantOK(s)'
  <2>1. CASE s # r
    BY <1>1, <2>1, KeptFacts DEF OthersAlone
  <2>. QED  BY <2>1
<1>. QED  BY <1>1, <1>2, KeptFacts DEF OverlapInv

\* A step that leaves entries and the clock alone keeps them.
LEMMA SteadyKept ==
  ASSUME PunchInv, UNCHANGED <<entries, now>>
  PROVE  Kept
BY TimesAreNumbers DEF Kept, EntryIds

\* A request that is answered has no instant in hand.
LEMMA RespondOverlap ==
  ASSUME OverlapInv, ShiftInv', NEW r \in Requests, Respond(r), UNCHANGED <<entries, now>>
  PROVE  OverlapInv'
<1>1. OthersAlone(r) /\ pc'[r] = "idle"
  BY Responded DEF OverlapInv, ShiftInv, Respond, Goto, PunchInv
<1>2. InstantOK(r)'
  BY <1>1 DEF InstantOK, Stamped
<1>. QED  BY <1>1, <1>2, SteadyKept, KeptPreserves DEF OverlapInv, ShiftInv

-----------------------------------------------------------------------------
(* The steps that change no entry *)

\* Arrivals, the look-up of the open entry, the cooldown and the audit rows take no instant.
LEMMA UntimedOverlap ==
  ASSUME OverlapInv, ShiftInv', NEW r \in Requests,
         \/ ArriveAny(r) \/ FindOpen(r) \/ CheckCooldown(r) \/ AuditIn(r) \/ AuditBreakStart(r)
         \/ AuditOut(r) \/ AuditSwitchClose(r) \/ AuditSwitchOpen(r) \/ Fail(r) \/ InsertBreak(r)
  PROVE  OverlapInv'
<1>1. UNCHANGED <<entries, now>>
  BY DEF ArriveAny, Arrive, FindOpen, CheckCooldown, AuditIn, AuditBreakStart, AuditOut,
         AuditSwitchClose, AuditSwitchOpen, Fail, InsertBreak, tables
<1>2. CASE Respond(r)
  BY <1>1, <1>2, RespondOverlap
<1>3. ASSUME ~Respond(r)
      PROVE  OthersAlone(r) /\ pc'[r] \in {"findOpen", "cooldown", "checks", "findBreak",
                                            "auditBreakStart", "auditSwitchOpen"}
  <2>1. CASE ArriveAny(r)
    BY <2>1 DEF ArriveAny, Arrive, Goto, OthersAlone, OverlapInv, ShiftInv, PunchInv
  <2>2. CASE FindOpen(r)
    <3>1. CASE \E q : /\ loc' = [loc EXCEPT ![r].queued = q]
                      /\ pc' \in {[pc EXCEPT ![r] = "cooldown"], [pc EXCEPT ![r] = "checks"]}
      BY <3>1 DEF OthersAlone, OverlapInv, ShiftInv, PunchInv
    <3>2. CASE \E e \in LatestOpen(EmployeeOf[r]) :
                 loc' = [loc EXCEPT ![r].entry = e, ![r].in = entries[e].in] /\ Goto(r, "findBreak")
      BY <3>2 DEF Goto, OthersAlone, OverlapInv, ShiftInv, PunchInv
    <3>. QED  BY <1>3, <2>2, <3>1, <3>2 DEF FindOpen, Goto
  <2>3. CASE CheckCooldown(r) \/ AuditSwitchClose(r) \/ InsertBreak(r)
    BY <1>3, <2>3 DEF CheckCooldown, AuditSwitchClose, InsertBreak, Goto, OthersAlone, OverlapInv,
                      ShiftInv, PunchInv
  <2>. QED  BY <1>3, <2>1, <2>2, <2>3
       DEF AuditIn, AuditBreakStart, AuditOut, AuditSwitchOpen, Fail
<1>4. CASE ~Respond(r)
  <2>1. InstantOK(r)'
    BY <1>3, <1>4 DEF InstantOK, Stamped
  <2>. QED  BY <1>1, <1>3, <1>4, <2>1, SteadyKept, KeptPreserves DEF OverlapInv, ShiftInv
<1>. QED  BY <1>2, <1>4

\* The clock-in checks read the clock when every earlier shift has ended.
LEMMA CheckPunchOverlap ==
  ASSUME OverlapInv, ShiftInv', NEW r \in Requests, CheckPunch(r)
  PROVE  OverlapInv'
<1>1. UNCHANGED <<entries, now>>
  BY DEF CheckPunch, tables
<1>2. CASE Respond(r)
  BY <1>1, <1>2, RespondOverlap
<1>3. CASE ~Respond(r)
  <2>1. PICK flags, at :
          /\ loc' = [loc EXCEPT ![r].flags = flags, ![r].at = at]
          /\ Goto(r, "insertEntry")
          /\ "offline_queued" \in flags \/ at = now
    <3>1. PICK suspect \in SUBSET {"suspect"} :
            /\ loc' = [loc EXCEPT
                 ![r].flags = suspect \cup QueuedFlag(r),
                 ![r].at = IF loc[r].queued = Null THEN now ELSE loc[r].queued]
            /\ Goto(r, "insertEntry")
      BY <1>3 DEF CheckPunch
    <3>2. loc[r].queued # Null => "offline_queued" \in suspect \cup QueuedFlag(r)
      BY DEF QueuedFlag
    <3>. QED  BY <3>1, <3>2
  <2>2. OthersAlone(r) /\ pc'[r] = "insertEntry"
    BY <2>1 DEF OthersAlone, Goto, OverlapInv, ShiftInv, PunchInv
  <2>3. loc'[r].flags = flags /\ loc'[r].at = at
    BY <2>1 DEF OverlapInv, ShiftInv, PunchInv, RequestOK, LocalsOK, NoWork
  <2>4. EndedBy(EmployeeOf[r], now)'
    BY <1>1 DEF OverlapInv, EndedAll, EndedBy, EntryIds, Plain, Closed
  <2>5. InstantOK(r)'
    BY <1>1, <2>1, <2>2, <2>3, <2>4 DEF InstantOK, Stamped
  <2>. QED  BY <1>1, <2>2, <2>5, SteadyKept, KeptPreserves DEF OverlapInv, ShiftInv
<1>. QED  BY <1>2, <1>3

\* The instant stamped on a break, a clock-out or a job switch: the present one, but for a
\* clock-out that was queued.
LEMMA FindBreakOverlap ==
  ASSUME OverlapInv, ShiftInv', NEW r \in Requests, FindBreak(r)
  PROVE  OverlapInv'
<1>1. UNCHANGED <<entries, now>>
  BY DEF FindBreak, tables
<1>2. CASE Respond(r)
  BY <1>1, <1>2, RespondOverlap
<1>3. CASE ~Respond(r)
  <2>1. PICK b, stage :
          /\ stage = AfterFindBreak(loc[r].kind, OpenBreaks(loc[r].entry) # {})
          /\ stage # "idle" /\ Goto(r, stage)
          /\ loc' = [loc EXCEPT ![r].brk = b, ![r].at = Stamp(r)]
    BY <1>3 DEF FindBreak
  <2>2. pc[r] = "findBreak" /\ loc[r].kind \in Kinds \ {"in"} /\ loc[r].queued \in Nat /\ now \in Nat
    BY DEF FindBreak, At, OverlapInv, ShiftInv, PunchInv, RequestOK, LocalsOK, TablesOK
  <2>3. stage \in {"endBreak", "deduct", "insertBreak", "closeEntry"}
    BY <2>1, <2>2 DEF AfterFindBreak, Kinds
  <2>4. OthersAlone(r) /\ pc'[r] = stage
    BY <2>1 DEF OthersAlone, Goto, OverlapInv, ShiftInv, PunchInv
  <2>5. loc'[r].kind = loc[r].kind /\ loc'[r].at = Stamp(r)
    BY <2>1 DEF OverlapInv, ShiftInv, PunchInv, RequestOK, LocalsOK, NoWork
  <2>6. Stamp(r) <= now /\ (loc[r].kind # "out" => Stamp(r) = now)
    BY <2>2 DEF Stamp, Believed
  <2>7. EndedBy(EmployeeOf[r], now)'
    BY <1>1 DEF OverlapInv, EndedAll, EndedBy, EntryIds, Plain, Closed
  <2>8. InstantOK(r)'
    BY <1>1, <2>3, <2>4, <2>5, <2>6, <2>7 DEF InstantOK
  <2>. QED  BY <1>1, <2>4, <2>8, SteadyKept, KeptPreserves DEF OverlapInv, ShiftInv
<1>. QED  BY <1>2, <1>3

\* What a handler does before it closes the entry leaves the instant in hand alone.
LEMMA StampedOverlap ==
  ASSUME OverlapInv, ShiftInv', NEW r \in Requests,
         AuditBreakEnd(r) \/ ReadBreaks(r) \/ AuditDeduct(r) \/ EndBreak(r) \/ InsertDeduct(r)
  PROVE  OverlapInv'
<1>1. UNCHANGED <<entries, now>>
  BY DEF AuditBreakEnd, ReadBreaks, AuditDeduct, EndBreak, InsertDeduct, tables
<1>2. CASE Respond(r)
  BY <1>1, <1>2, RespondOverlap
<1>3. CASE ~Respond(r)
  <2>1. PICK stage \in Stamped : Goto(r, stage) /\ pc[r] \in Stamped
    BY <1>3 DEF AuditBreakEnd, ReadBreaks, AuditDeduct, EndBreak, InsertDeduct, At, Stamped
  <2>2. /\ loc'[r].at = loc[r].at /\ loc'[r].kind = loc[r].kind /\ DOMAIN loc' = Requests
        /\ \A s \in Requests \ {r} : loc'[s] = loc[s]
    <3>1. DOMAIN loc = Requests /\ DOMAIN loc[r] = DOMAIN NoWork
      BY DEF OverlapInv, ShiftInv, PunchInv, RequestOK, LocalsOK
    <3>2. CASE loc' = loc
      BY <3>1, <3>2
    <3>3. CASE ReadBreaks(r)
      BY <3>1, <3>3 DEF ReadBreaks, NoWork
    <3>4. CASE InsertDeduct(r)
      BY <3>1, <3>4 DEF InsertDeduct, NoWork
    <3>. QED  BY <1>3, <3>2, <3>3, <3>4 DEF AuditBreakEnd, AuditDeduct, EndBreak
  <2>3. OthersAlone(r) /\ pc'[r] = stage
    BY <2>1, <2>2 DEF OthersAlone, Goto, OverlapInv, ShiftInv, PunchInv
  <2>4. EndedBy(EmployeeOf[r], loc[r].at) => EndedBy(EmployeeOf[r], loc[r].at)'
    BY <1>1, <2>2 DEF EndedBy, EntryIds, Plain, Closed
  <2>5. InstantOK(r)'
    BY <1>1, <2>1, <2>2, <2>3, <2>4 DEF OverlapInv, InstantOK, Stamped
  <2>. QED  BY <1>1, <2>3, <2>5, SteadyKept, KeptPreserves DEF OverlapInv, ShiftInv
<1>. QED  BY <1>2, <1>3

-----------------------------------------------------------------------------
(* The steps that change entries *)

\* An entry whose photo failed keeps its offline mark.
LEMMA FlagPhotoOverlap ==
  ASSUME OverlapInv, ShiftInv', NEW r \in Requests, FlagPhoto(r)
  PROVE  OverlapInv'
<1>1. now' = now /\ OthersAlone(r) /\ pc'[r] = "auditIn" /\ pc[r] = "photo"
  BY DEF FlagPhoto, At, Goto, OthersAlone, OverlapInv, ShiftInv, PunchInv
<1>2. PICK f, row : /\ f = loc[r].entry /\ row = [entries[f] EXCEPT !.flags = loc[r].flags \cup {"suspect"}]
                    /\ entries' = [entries EXCEPT ![f] = row]
  BY DEF FlagPhoto
<1>3. f \in EntryIds /\ ("offline_queued" \in entries[f].flags <=> "offline_queued" \in loc[r].flags)
  BY <1>1, <1>2 DEF OverlapInv, InstantOK
<1>4. /\ row.emp = entries[f].emp /\ row.in = entries[f].in /\ row.out = entries[f].out
      /\ row.edited = entries[f].edited /\ row.flags = loc[r].flags \cup {"suspect"}
  BY <1>2, <1>3, EntryIsRow DEF OverlapInv, ShiftInv, EntryRows
<1>5. /\ EntryIds' = EntryIds /\ entries'[f] = row
      /\ \A e \in EntryIds \ {f} : entries'[e] = entries[e]
  BY <1>2, <1>3, UpdatedEntry DEF OverlapInv, ShiftInv
<1>6. now \in Nat /\ \A e \in EntryIds : entries[e].edited \in BOOLEAN
  BY TimesAreNumbers, EntryIsRow DEF OverlapInv, ShiftInv, EntryRows
<1>7. Kept
  BY <1>1, <1>3, <1>4, <1>5, <1>6 DEF Kept
<1>8. InstantOK(r)'
  BY <1>1 DEF InstantOK, Stamped
<1>. QED  BY <1>1, <1>7, <1>8, KeptPreserves

\* The entry a handler closes unmarked was open, so every earlier one had ended before it began.
LEMMA CloseEntryOverlap ==
  ASSUME OverlapInv, ShiftInv', NEW r \in Requests, CloseEntry(r), OneRequestEach
  PROVE  OverlapInv'
<1>1. /\ UNCHANGED <<now, loc>> /\ OthersAlone(r)
      /\ pc[r] = "closeEntry" /\ pc'[r] \in {"auditOut", "insertNext"}
      /\ pc'[r] = "insertNext" => loc[r].kind # "out"
  BY DEF CloseEntry, At, Goto, OthersAlone, OverlapInv, ShiftInv, PunchInv
<1>2. PICK f, row : /\ f = loc[r].entry /\ row = [entries[f] EXCEPT !.out = loc[r].at]
                    /\ entries' = [entries EXCEPT ![f] = row]
  BY DEF CloseEntry
<1>3. /\ f \in EntryIds /\ entries[f].emp = EmployeeOf[r] /\ Running(f)
      /\ loc[r].at <= now /\ loc[r].at \in Nat /\ loc[r].at # Null
      /\ loc[r].kind # "out" => EndedBy(EmployeeOf[r], loc[r].at)
  BY <1>1, <1>2, TimesAreNumbers
  DEF OverlapInv, ShiftInv, ShiftOK, PunchInv, RequestOK, Working, Stamped, InstantOK
<1>4. /\ row.emp = entries[f].emp /\ row.in = entries[f].in /\ row.out = loc[r].at
      /\ row.edited = entries[f].edited /\ row.flags = entries[f].flags
  BY <1>2, <1>3, EntryIsRow DEF OverlapInv, ShiftInv, EntryRows
<1>5. /\ EntryIds' = EntryIds /\ entries'[f] = row
      /\ \A e \in EntryIds \ {f} : entries'[e] = entries[e]
  <2>1. PunchInv /\ f \in EntryIds /\ entries' = [entries EXCEPT ![f] = row]
    BY <1>2, <1>3 DEF OverlapInv, ShiftInv
  <2>. QED  BY <2>1, UpdatedEntry
<1>6. \A e \in EntryIds : /\ entries'[e].emp = entries[e].emp /\ entries'[e].in = entries[e].in
                          /\ Plain(e)' <=> Plain(e)
  BY <1>4, <1>5 DEF Plain
<1>7. Plain(f) => ~Closed(f)
  BY <1>3 DEF Plain, Running, Closed
<1>8. ASSUME NEW e \in EntryIds \ {f}, Plain(e), entries[e].emp = entries[f].emp, Plain(f)
      PROVE  EndsBy(e, entries[f].in)
  BY <1>3, <1>7, <1>8 DEF OverlapInv, Apart, EndsBy
<1>9. Apart'
  BY <1>3, <1>5, <1>6, <1>8 DEF OverlapInv, Apart, EndsBy, Closed
<1>10. EndedAll'
  BY <1>1, <1>3, <1>4, <1>5, <1>6 DEF OverlapInv, EndedAll, Closed
<1>11. ASSUME NEW emp, emp # EmployeeOf[r], NEW t, EndedBy(emp, t) PROVE EndedBy(emp, t)'
  BY <1>3, <1>5, <1>6, <1>11 DEF EndedBy, Closed
<1>12. EndedBy(EmployeeOf[r], loc[r].at) => EndedBy(EmployeeOf[r], loc[r].at)'
  BY <1>1, <1>3, <1>4, <1>5, <1>6 DEF EndedBy, Closed
<1>13. ASSUME NEW s \in Requests PROVE InstantOK(s)'
  <2>1. CASE s = r
    BY <1>1, <1>3, <1>12, <2>1 DEF InstantOK, Stamped
  <2>2. CASE s # r
    <3>1. InstantOK(s) /\ pc'[s] = pc[s] /\ loc'[s] = loc[s] /\ EmployeeOf[s] # EmployeeOf[r]
      BY <1>1, <2>2 DEF OverlapInv, OthersAlone, OneRequestEach
    <3>2. EndedBy(EmployeeOf[s], loc[s].at) => EndedBy(EmployeeOf[s], loc[s].at)'
      BY <1>1, <1>11, <3>1
    <3>3. \A e \in EntryIds : entries'[e].flags = entries[e].flags
      BY <1>4, <1>5
    <3>. QED  BY <1>1, <1>5, <3>1, <3>2, <3>3 DEF InstantOK
  <2>. QED  BY <2>1, <2>2
<1>. QED  BY <1>9, <1>10, <1>13 DEF OverlapInv

\* A new entry begins when the earlier ones had ended, or carries the offline mark.
LEMMA InsertEntryOverlap ==
  ASSUME OverlapInv, ShiftInv', NEW r \in Requests, InsertEntry(r) \/ InsertNext(r), OneRequestEach
  PROVE  OverlapInv'
<1>1. /\ now' = now /\ OthersAlone(r) /\ pc[r] \in {"insertEntry", "insertNext"}
      /\ pc'[r] \in {"photo", "auditIn", "auditSwitchClose"}
  BY DEF InsertEntry, InsertNext, At, Goto, OthersAlone, OverlapInv, ShiftInv, PunchInv
<1>2. PICK flags \in SUBSET Flags :
        /\ entries' = Append(entries, NewEntry(EmployeeOf[r], loc[r].at, flags))
        /\ "offline_queued" \in flags \/ EndedBy(EmployeeOf[r], loc[r].at)
        /\ pc'[r] = "photo" => loc'[r].entry = Len(entries) + 1 /\ loc'[r].flags = flags
  <2>1. RequestOK(r) /\ InstantOK(r) /\ loc[r].flags \in SUBSET Flags
    BY DEF OverlapInv, ShiftInv, PunchInv, RequestOK, LocalsOK
  <2>2. CASE InsertEntry(r)
    <3>1. loc'[r].entry = Len(entries) + 1 /\ loc'[r].flags = loc[r].flags
      BY <2>1, <2>2 DEF InsertEntry, OverlapInv, ShiftInv, PunchInv, RequestOK, LocalsOK, NoWork
    <3>2. entries' = Append(entries, NewEntry(EmployeeOf[r], loc[r].at, loc[r].flags))
      BY <2>2 DEF InsertEntry
    <3>3. "offline_queued" \in loc[r].flags \/ EndedBy(EmployeeOf[r], loc[r].at)
      BY <2>1, <2>2 DEF InsertEntry, At, InstantOK
    <3>. QED  BY <2>1, <3>1, <3>2, <3>3
  <2>3. CASE InsertNext(r)
    <3>1. pc'[r] = "auditSwitchClose"
      BY <2>3 DEF InsertNext, Goto, OverlapInv, ShiftInv, PunchInv
    <3>2. entries' = Append(entries, NewEntry(EmployeeOf[r], loc[r].at, {}))
      BY <2>3 DEF InsertNext
    <3>3. EndedBy(EmployeeOf[r], loc[r].at) /\ {} \in SUBSET Flags
      BY <2>1, <2>3 DEF InsertNext, At, InstantOK
    <3>. QED  BY <3>1, <3>2, <3>3
  <2>. QED  BY <2>2, <2>3
<1> DEFINE row == NewEntry(EmployeeOf[r], loc[r].at, flags)
<1>3. entries \in Seq(EntryRows) /\ OpenEntries(EmployeeOf[r]) = {}
  BY <1>1 DEF OverlapInv, ShiftInv, PunchInv, TablesOK, RequestOK, Opening
<1>4. PICK new : /\ new \notin EntryIds /\ new = Len(entries) + 1
                 /\ EntryIds' = EntryIds \cup {new} /\ entries'[new] = row
                 /\ \A e \in EntryIds : entries'[e] = entries[e]
  <2>1. /\ Len(entries) \in Nat /\ DOMAIN entries = 1..Len(entries)
        /\ DOMAIN entries' = 1..(Len(entries) + 1)
        /\ entries'[Len(entries) + 1] = row
        /\ \A e \in 1..Len(entries) : entries'[e] = entries[e]
    BY <1>2, <1>3, AppendFacts
  <2>2. /\ Len(entries) + 1 \notin 1..Len(entries)
        /\ 1..(Len(entries) + 1) = (1..Len(entries)) \cup {Len(entries) + 1}
    BY <2>1
  <2>. QED  BY <2>1, <2>2 DEF EntryIds
<1>5. /\ row.emp = EmployeeOf[r] /\ row.in = loc[r].at /\ row.out = Null /\ row.flags = flags
      /\ ~row.edited
  BY DEF NewEntry
<1>. HIDE DEF row
<1>6. \A e \in EntryIds : /\ Plain(e)' <=> Plain(e)
                          /\ Closed(e)' <=> Closed(e)
                          /\ \A t : EndsBy(e, t)' <=> EndsBy(e, t)
  BY <1>4 DEF Plain, Closed, EndsBy
<1>7. Plain(new)' => EndedBy(EmployeeOf[r], loc[r].at)
  BY <1>2, <1>4, <1>5 DEF Plain
<1>8. ~Closed(new)'
  BY <1>4, <1>5 DEF Closed
<1>9. ASSUME NEW e \in EntryIds, Plain(e), Plain(new)', entries[e].emp = EmployeeOf[r]
      PROVE  EndsBy(e, entries[new].in)'
  <2>1. Closed(e)
    BY <1>3, <1>9 DEF Closed, OpenEntries, EntryIds
  <2>2. EndsBy(e, loc[r].at)
    BY <1>7, <1>9, <2>1 DEF EndedBy, EndsBy
  <2>3. entries'[new].in = loc[r].at /\ entries'[e] = entries[e]
    BY <1>4, <1>5
  <2>. QED  BY <2>2, <2>3 DEF EndsBy, Closed
<1>10. Apart'
  <2>1. SUFFICES ASSUME NEW e \in EntryIds', NEW f \in EntryIds', e # f,
                        entries'[e].emp = entries'[f].emp, Plain(e)', Plain(f)'
                 PROVE  EndsBy(e, entries[f].in)' \/ EndsBy(f, entries[e].in)'
    BY DEF Apart
  <2>2. CASE e \in EntryIds /\ f \in EntryIds
    <3>1. EndsBy(e, entries[f].in) \/ EndsBy(f, entries[e].in)
      BY <1>4, <1>6, <2>1, <2>2 DEF OverlapInv, Apart
    <3>. QED  BY <1>4, <2>2, <3>1 DEF EndsBy, Closed
  <2>3. CASE e = new /\ f \in EntryIds
    <3>1. Plain(f) /\ Plain(new)' /\ entries[f].emp = EmployeeOf[r]
      BY <1>4, <1>5, <1>6, <2>1, <2>3
    <3>2. EndsBy(f, entries[new].in)'
      BY <1>9, <2>3, <3>1
    <3>. QED  BY <2>3, <3>2
  <2>4. CASE f = new /\ e \in EntryIds
    <3>1. Plain(e) /\ Plain(new)' /\ entries[e].emp = EmployeeOf[r]
      BY <1>4, <1>5, <1>6, <2>1, <2>4
    <3>2. EndsBy(e, entries[new].in)'
      BY <1>9, <2>4, <3>1
    <3>. QED  BY <2>4, <3>2
  <2>. QED  BY <1>4, <2>1, <2>2, <2>3, <2>4
<1>11. EndedAll'
  BY <1>1, <1>4, <1>6, <1>8 DEF OverlapInv, EndedAll
<1>12. \A emp, t : EndedBy(emp, t) => EndedBy(emp, t)'
  BY <1>4, <1>6, <1>8 DEF EndedBy
<1>13. ASSUME NEW s \in Requests PROVE InstantOK(s)'
  <2>1. CASE s = r
    <3>1. pc'[r] = "photo" => /\ loc'[r].entry = new
                              /\ entries'[new].flags = loc'[r].flags
      BY <1>2, <1>4, <1>5
    <3>. QED  BY <1>1, <1>4, <2>1, <3>1 DEF InstantOK, Stamped
  <2>2. CASE s # r
    <3>1. InstantOK(s) /\ pc'[s] = pc[s] /\ loc'[s] = loc[s]
      BY <2>2, <1>1 DEF OverlapInv, OthersAlone
    <3>2. EndedBy(EmployeeOf[s], loc[s].at) => EndedBy(EmployeeOf[s], loc[s].at)'
      BY <1>12, <3>1
    <3>. QED  BY <1>1, <1>4, <3>1, <3>2 DEF InstantOK
  <2>. QED  BY <2>1, <2>2
<1>. QED  BY <1>10, <1>11, <1>13 DEF OverlapInv

\* The sweep marks what it closes, and the clock only goes forward.
LEMMA SweepOverlap ==
  ASSUME OverlapInv, ShiftInv', SweepStep \/ SweepFail \/ Tick \/ UNCHANGED vars
  PROVE  OverlapInv'
<1>1. UNCHANGED <<pc, loc>>
  BY DEF SweepStep, SweepSelect, SweepEndBreaks, SweepCloseEntry, SweepAudit, SweepNotify,
         SweepFail, Tick, vars
<1>2. now' >= now
  <2>1. now' = now \/ now' = now + 1
    BY DEF SweepStep, SweepSelect, SweepEndBreaks, SweepCloseEntry, SweepAudit, SweepNotify,
           SweepFail, Tick, vars
  <2>. QED  BY <2>1, TimesAreNumbers DEF OverlapInv, ShiftInv
<1>3. PunchInv /\ PunchInv' /\ \A e \in EntryIds : entries[e].edited \in BOOLEAN
  BY EntryIsRow DEF OverlapInv, ShiftInv, EntryRows
<1>4. Kept
  <2>1. CASE UNCHANGED entries
    BY <1>2, <1>3, <2>1 DEF Kept, EntryIds
  <2>2. CASE SweepCloseEntry
    <3>1. PICK f, row : /\ row = [[entries[f] EXCEPT !.out = sweep.at] EXCEPT !.edited = TRUE]
                        /\ f = sweep.entry
      OBVIOUS
    <3>2. CASE f \in EntryIds
      <4>1. entries' = [entries EXCEPT ![f] = row]
        BY <2>2, <3>1, <3>2 DEF SweepCloseEntry, EntryIds
      <4>2. /\ row.edited /\ row.emp = entries[f].emp /\ row.in = entries[f].in
            /\ row.flags = entries[f].flags
        BY <1>3, <3>1, <3>2, EntryIsRow DEF EntryRows
      <4>3. /\ EntryIds' = EntryIds /\ entries'[f] = row
            /\ \A e \in EntryIds \ {f} : entries'[e] = entries[e]
        BY <1>3, <3>2, <4>1, UpdatedEntry
      <4>. QED  BY <1>2, <1>3, <4>2, <4>3 DEF Kept
    <3>3. CASE f \notin EntryIds
      <4>1. entries' = entries
        BY <1>3, <2>2, <3>1, <3>3 DEF SweepCloseEntry, EntryIds, PunchInv, TablesOK
      <4>. QED  BY <1>2, <1>3, <4>1 DEF Kept, EntryIds
    <3>. QED  BY <3>2, <3>3
  <2>. QED  BY <2>1, <2>2 DEF SweepStep, SweepSelect, SweepEndBreaks, SweepAudit, SweepNotify,
                              SweepFail, Tick, vars, tables
<1>. QED  BY <1>1, <1>3, <1>4, KeptFacts DEF OverlapInv

-----------------------------------------------------------------------------
(* The theorems *)

\* Every step of every handler, of the sweep and of the clock keeps the entries apart.
LEMMA OverlapNext ==
  ASSUME OneRequestEach, OverlapInv, [Next]_vars
  PROVE  OverlapInv'
<1>1. ShiftInv'
  BY ShiftNext DEF OverlapInv
<1>2. ASSUME NEW r \in Requests, ArriveAny(r) \/ HandlerStep(r) \/ Fail(r) PROVE OverlapInv'
  BY <1>1, <1>2, UntimedOverlap, CheckPunchOverlap, FindBreakOverlap, StampedOverlap,
     FlagPhotoOverlap, CloseEntryOverlap, InsertEntryOverlap DEF HandlerStep
<1>3. CASE SweepStep \/ SweepFail \/ Tick \/ UNCHANGED vars
  BY <1>1, <1>3, SweepOverlap
<1>. QED  BY <1>2, <1>3 DEF Next

\* Of two entries of an employee that nothing marks for review, one ended before the
\* other began, and an instant in hand is not earlier than what has ended.
THEOREM OverlapInvariant ==
  ASSUME OneRequestEach
  PROVE  Spec => []OverlapInv
<1>1. Init => OverlapInv
  BY ShiftInit DEF Init, OverlapInv, Apart, EndedAll, EntryIds, InstantOK, Stamped
<1>2. OverlapInv /\ [Next]_vars => OverlapInv'
  BY OverlapNext
<1>. QED  BY <1>1, <1>2, PTL DEF Spec

\* No time is paid twice unnoticed: entries of an employee overlap only when one of them is
\* marked, as queued offline or as closed by the sweep.
THEOREM OverlapsAlwaysFlagged ==
  ASSUME OneRequestEach
  PROVE  Spec => []OverlapsFlagged
<1>1. ASSUME OverlapInv PROVE OverlapsFlagged
  <2>1. \A e \in EntryIds : entries[e].in \in Nat /\ entries[e].out \in Nat
    BY <1>1, TimesAreNumbers DEF OverlapInv, ShiftInv
  <2>. QED  BY <1>1, <2>1 DEF OverlapInv, Apart, EndsBy, Plain, OverlapsFlagged
<1>. QED  BY <1>1, OverlapInvariant, PTL

-----------------------------------------------------------------------------
(***************************************************************************)
(* Every entry and every clock-out is on record, for any number of         *)
(* requests of one employee in progress at once, any number of entries and *)
(* failures, and whatever the sweep does (EntriesOnRecord).                *)
(*                                                                         *)
(* The argument: an entry or a clock-out that has no audit row yet is the  *)
(* business of somebody who is still at work on it, or of a handler that   *)
(* was cut short.                                                          *)
(***************************************************************************)

Columns == {"emp", "in", "out", "flags", "edited"}

\* The tables as far as the argument looks into them: rows with their columns, and
\* one list of audit rows for each entry.
RowsOK ==
  /\ \E S : entries \in Seq(S)
  /\ \A e \in EntryIds : DOMAIN entries[e] = Columns
  /\ \E Rows : entryTrail \in Seq(Seq(Rows))
  /\ Len(entryTrail) = Len(entries)

Owns(r, e) == e \in EntryIds /\ entries[e].emp = EmployeeOf[r]

\* The statements at which a handler has an entry in hand, and those at which a job
\* switch has the next one.
HasEntry == {"findBreak", "insertBreak", "endBreak", "auditBreakEnd", "deduct", "insertDeduct",
             "auditDeduct", "closeEntry", "auditOut", "insertNext", "auditSwitchClose",
             "photo", "auditIn"}
HasNext == {"auditSwitchClose", "auditSwitchOpen"}

HolderOK(r) ==
  /\ DOMAIN loc[r] = DOMAIN NoWork
  /\ loc[r].kind \in Kinds
  /\ pc[r] = "findBreak" => loc[r].kind # "in"
  /\ pc[r] \in HasEntry => Owns(r, loc[r].entry)
  /\ pc[r] \in HasNext => Owns(r, loc[r].next)

SweepHolds ==
  /\ DOMAIN sweep = DOMAIN SweepIdle
  /\ sweep.left \subseteq EntryIds
  /\ sweep.stage \in {"close", "audit"} => sweep.entry \in EntryIds

\* The clock-out of e is on record, or on its way there.
EndRecorded(e) == \E k \in DOMAIN entryTrail[e] : entryTrail[e][k].out = entries[e].out
EndPending(r, e) ==
  pc[r] \in {"auditOut", "insertNext", "auditSwitchClose"} /\ loc[r].entry = e /\ loc[r].at = entries[e].out
EndAccounted(e) ==
  \/ ~Closed(e)
  \/ e \in cutShort
  \/ EndRecorded(e)
  \/ \E r \in Requests : EndPending(r, e)
  \/ sweep.stage = "audit" /\ sweep.entry = e /\ sweep.at = entries[e].out

\* So is its opening.
StartRecorded(e) ==
  \E k \in DOMAIN entryTrail[e] : entryTrail[e][k].action \in {"clock_in", "switch_job_open"}
StartPending(r, e) ==
  \/ pc[r] \in {"photo", "auditIn"} /\ loc[r].entry = e
  \/ pc[r] \in HasNext /\ loc[r].next = e
StartAccounted(e) ==
  \/ e \in cutShort
  \/ StartRecorded(e)
  \/ \E r \in Requests : StartPending(r, e)

RecordInv ==
  /\ RowsOK
  /\ DOMAIN pc = Requests /\ DOMAIN loc = Requests
  /\ \A r \in Requests : HolderOK(r)
  /\ SweepHolds
  /\ \A e \in EntryIds : EndAccounted(e) /\ StartAccounted(e)

-----------------------------------------------------------------------------
(* What steps have in common *)

\* Entries and audit rows are added, never taken away.
Grows ==
  /\ EntryIds \subseteq EntryIds'
  /\ \A e \in EntryIds :
       /\ entries'[e].emp = entries[e].emp
       /\ DOMAIN entryTrail[e] \subseteq DOMAIN entryTrail'[e]
       /\ \A k \in DOMAIN entryTrail[e] : entryTrail'[e][k] = entryTrail[e][k]
  /\ cutShort \subseteq cutShort'

\* A request's step has to account for the entries it adds, for the clock-outs it
\* writes, and for those the request had in hand.
LEMMA HandlerPreserves ==
  ASSUME RecordInv, NEW r \in Requests, Grows, OthersAlone(r), UNCHANGED sweep,
         RowsOK', HolderOK(r)',
         \A e \in EntryIds : entries'[e].out # entries[e].out => EndAccounted(e)',
         \A e \in EntryIds : EndPending(r, e) => EndAccounted(e)',
         \A e \in EntryIds : StartPending(r, e) => StartAccounted(e)',
         \A e \in EntryIds' \ EntryIds : EndAccounted(e)' /\ StartAccounted(e)'
  PROVE  RecordInv'
<1>1. \A s \in Requests : HolderOK(s)'
  <2>1. ASSUME NEW s \in Requests \ {r} PROVE HolderOK(s)'
    BY <2>1 DEF OthersAlone, Grows, RecordInv, HolderOK, Owns
  <2>. QED  BY <2>1
<1>2. SweepHolds'
  BY DEF RecordInv, SweepHolds, Grows
<1>3. ASSUME NEW e \in EntryIds PROVE EndAccounted(e)'
  <2>1. CASE entries'[e].out # entries[e].out
    BY <2>1
  <2>2. CASE entries'[e].out = entries[e].out
    <3>1. CASE ~Closed(e) \/ e \in cutShort
      BY <2>2, <3>1 DEF EndAccounted, Closed, Grows
    <3>2. CASE EndRecorded(e)
      BY <2>2, <3>2 DEF EndAccounted, EndRecorded, Grows
    <3>3. ASSUME NEW s \in Requests, EndPending(s, e) PROVE EndAccounted(e)'
      <4>1. CASE s = r
        BY <3>3, <4>1
      <4>2. CASE s # r
        <5>1. EndPending(s, e)'
          BY <2>2, <3>3, <4>2 DEF EndPending, OthersAlone
        <5>. QED  BY <5>1 DEF EndAccounted
      <4>. QED  BY <4>1, <4>2
    <3>4. CASE sweep.stage = "audit" /\ sweep.entry = e /\ sweep.at = entries[e].out
      BY <2>2, <3>4 DEF EndAccounted
    <3>5. EndAccounted(e)
      BY DEF RecordInv
    <3>. QED  BY <3>1, <3>2, <3>3, <3>4, <3>5 DEF EndAccounted
  <2>. QED  BY <2>1, <2>2
<1>4. ASSUME NEW e \in EntryIds PROVE StartAccounted(e)'
  <2>1. CASE e \in cutShort
    BY <2>1 DEF StartAccounted, Grows
  <2>2. CASE StartRecorded(e)
    BY <2>2 DEF StartAccounted, StartRecorded, Grows
  <2>3. ASSUME NEW s \in Requests, StartPending(s, e) PROVE StartAccounted(e)'
    <3>1. CASE s = r
      BY <2>3, <3>1
    <3>2. CASE s # r
      <4>1. StartPending(s, e)'
        BY <2>3, <3>2 DEF StartPending, OthersAlone
      <4>. QED  BY <4>1 DEF StartAccounted
    <3>. QED  BY <3>1, <3>2
  <2>4. StartAccounted(e)
    BY DEF RecordInv
  <2>. QED  BY <2>1, <2>2, <2>3, <2>4 DEF StartAccounted
<1>. QED  BY <1>1, <1>2, <1>3, <1>4 DEF RecordInv, OthersAlone

\* The entries and their audit rows stay as they are.
Still == UNCHANGED <<entries, entryTrail, cutShort>>

\* Such a step takes nothing away.
LEMMA StillGrows ==
  ASSUME RecordInv, Still
  PROVE  Grows /\ RowsOK' /\ EntryIds' = EntryIds
BY DEF Still, Grows, RecordInv, RowsOK, EntryIds

\* A step that only moves a request, and drops nothing it had in hand.
LEMMA MovePreserves ==
  ASSUME RecordInv, NEW r \in Requests, OthersAlone(r), UNCHANGED sweep, Still, HolderOK(r)',
         \A e \in EntryIds : EndPending(r, e) => EndPending(r, e)',
         \A e \in EntryIds : StartPending(r, e) => StartPending(r, e)'
  PROVE  RecordInv'
<1>1. Grows /\ RowsOK' /\ EntryIds' = EntryIds
  BY StillGrows
<1>2. \A e \in EntryIds : entries'[e].out = entries[e].out
  BY DEF Still
<1>3. \A e \in EntryIds : EndPending(r, e) => EndAccounted(e)'
  BY DEF EndAccounted
<1>4. \A e \in EntryIds : StartPending(r, e) => StartAccounted(e)'
  BY DEF StartAccounted
<1>. QED  BY <1>1, <1>2, <1>3, <1>4, HandlerPreserves

\* The statements at which an audit row about an entry is still owed.
Owing == {"auditOut", "insertNext", "auditSwitchClose", "auditSwitchOpen", "photo", "auditIn"}

\* A handler that owes nothing and moves to a statement with the entry it has.
LEMMA FreePreserves ==
  ASSUME RecordInv, NEW r \in Requests, OthersAlone(r), UNCHANGED sweep, Still,
         pc[r] \notin Owing, HolderOK(r)'
  PROVE  RecordInv'
<1>1. \A e : ~EndPending(r, e) /\ ~StartPending(r, e)
  BY DEF EndPending, StartPending, Owing, HasNext
<1>. QED  BY <1>1, MovePreserves

\* A request that has been answered has nothing in hand.
LEMMA RespondHolds ==
  ASSUME RecordInv, NEW r \in Requests, Respond(r)
  PROVE  OthersAlone(r) /\ HolderOK(r)' /\ pc'[r] = "idle" /\ loc'[r] = NoWork
BY DEF Respond, Goto, RecordInv, HolderOK, OthersAlone, HasEntry, HasNext, NoWork, Kinds

\* A handler that owes nothing may end.
LEMMA RespondFree ==
  ASSUME RecordInv, NEW r \in Requests, Respond(r), UNCHANGED sweep, Still, pc[r] \notin Owing
  PROVE  RecordInv'
BY RespondHolds, FreePreserves

-----------------------------------------------------------------------------
(* The steps of a handler that write no entry *)

\* A handler that has nothing in hand yet, or finds its entry.
LEMMA FindOpenAccounts ==
  ASSUME RecordInv, NEW r \in Requests, FindOpen(r)
  PROVE  RecordInv'
<1>1. Still /\ UNCHANGED sweep /\ pc[r] \notin Owing
  BY DEF FindOpen, At, tables, trails, bounds, Still, Owing
<1>2. CASE Respond(r)
  BY <1>1, <1>2, RespondFree
<1>3. CASE \E q : loc' = [loc EXCEPT ![r].queued = q] /\ pc' \in {[pc EXCEPT ![r] = "cooldown"], [pc EXCEPT ![r] = "checks"]}
  <2>1. OthersAlone(r) /\ HolderOK(r)'
    BY <1>3 DEF OthersAlone, RecordInv, HolderOK, HasEntry, HasNext
  <2>. QED  BY <1>1, <2>1, FreePreserves
<1>4. CASE \E e \in LatestOpen(EmployeeOf[r]) :
             loc' = [loc EXCEPT ![r].entry = e, ![r].in = entries[e].in] /\ Goto(r, "findBreak")
  <2>1. PICK e \in LatestOpen(EmployeeOf[r]) :
          loc' = [loc EXCEPT ![r].entry = e, ![r].in = entries[e].in] /\ Goto(r, "findBreak")
    BY <1>4
  <2>2. Owns(r, e)
    BY DEF LatestOpen, OpenEntries, Owns, EntryIds
  <2>3. Owns(r, e)'
    BY <1>1, <2>2 DEF Still, Owns, EntryIds
  <2>4. OthersAlone(r) /\ pc'[r] = "findBreak"
    BY <2>1 DEF OthersAlone, RecordInv, Goto
  <2>5. /\ DOMAIN loc'[r] = DOMAIN NoWork /\ loc'[r].entry = e
        /\ loc'[r].kind \in Kinds \ {"in"}
    <3>1. DOMAIN loc'[r] = DOMAIN NoWork /\ loc'[r].entry = e /\ loc'[r].kind = loc[r].kind
      BY <2>1 DEF RecordInv, HolderOK, NoWork
    <3>2. loc[r].kind # "in"
      BY <1>4, <2>4 DEF FindOpen, Respond, Goto, RecordInv
    <3>. QED  BY <3>1, <3>2 DEF RecordInv, HolderOK
  <2>. QED  BY <1>1, <2>3, <2>4, <2>5, FreePreserves DEF HolderOK, HasNext
<1>. QED  BY <1>2, <1>3, <1>4 DEF FindOpen, Goto

\* An arriving request owes nothing yet.
LEMMA ArriveAccounts ==
  ASSUME RecordInv, NEW r \in Requests, NEW kind \in Kinds, NEW queued, NEW paid, Arrive(r, kind, queued, paid)
  PROVE  RecordInv'
<1>1. Still /\ UNCHANGED sweep /\ pc[r] \notin Owing
  BY DEF Arrive, At, tables, trails, Still, Owing
<1>2. OthersAlone(r) /\ HolderOK(r)'
  BY DEF Arrive, Goto, OthersAlone, RecordInv, HolderOK, HasEntry, HasNext, NoWork
<1>. QED  BY <1>1, <1>2, FreePreserves

\* Neither do the checks before a clock-in.
LEMMA CheckAccounts ==
  ASSUME RecordInv, NEW r \in Requests, CheckCooldown(r) \/ CheckPunch(r)
  PROVE  RecordInv'
<1>1. Still /\ UNCHANGED sweep /\ pc[r] \notin Owing
  BY DEF CheckCooldown, CheckPunch, At, tables, trails, bounds, Still, Owing
<1>2. CASE Respond(r)
  BY <1>1, <1>2, RespondFree
<1>3. CASE Goto(r, "checks") /\ UNCHANGED loc
  <2>1. OthersAlone(r) /\ HolderOK(r)'
    BY <1>3 DEF Goto, OthersAlone, RecordInv, HolderOK, HasEntry, HasNext
  <2>. QED  BY <1>1, <2>1, FreePreserves
<1>4. CASE \E flags, at : loc' = [loc EXCEPT ![r].flags = flags, ![r].at = at] /\ Goto(r, "insertEntry")
  <2>1. OthersAlone(r) /\ HolderOK(r)'
    BY <1>4 DEF Goto, OthersAlone, RecordInv, HolderOK, HasEntry, HasNext
  <2>. QED  BY <1>1, <2>1, FreePreserves
<1>. QED  BY <1>2, <1>3, <1>4 DEF CheckCooldown, CheckPunch

\* The statements between finding the entry and closing it keep it in hand.
LEMMA WorkAccounts ==
  ASSUME RecordInv, NEW r \in Requests,
         \/ FindBreak(r) \/ InsertBreak(r) \/ AuditBreakStart(r) \/ EndBreak(r)
         \/ AuditBreakEnd(r) \/ ReadBreaks(r) \/ InsertDeduct(r) \/ AuditDeduct(r)
  PROVE  RecordInv'
<1>1. Still /\ UNCHANGED sweep /\ pc[r] \notin Owing
  BY DEF FindBreak, InsertBreak, AuditBreakStart, EndBreak, AuditBreakEnd, ReadBreaks,
         InsertDeduct, AuditDeduct, AuditBreak, At, tables, trails, bounds, Still, Owing
<1>2. CASE Respond(r)
  BY <1>1, <1>2, RespondFree
<1>3. CASE ~Respond(r)
  <2>1. pc[r] \in HasEntry
    BY <1>3 DEF FindBreak, InsertBreak, AuditBreakStart, EndBreak, AuditBreakEnd, ReadBreaks,
         InsertDeduct, AuditDeduct, At, HasEntry
  <2>2. PICK stage : /\ Goto(r, stage)
                     /\ stage \in {"endBreak", "deduct", "insertBreak", "closeEntry",
                                   "auditBreakStart", "auditBreakEnd", "insertDeduct", "auditDeduct"}
    <3>1. CASE FindBreak(r)
      <4>. DEFINE stage == AfterFindBreak(loc[r].kind, OpenBreaks(loc[r].entry) # {})
      <4>1. stage # "idle" /\ Goto(r, stage)
        BY <1>3, <3>1 DEF FindBreak
      <4>2. loc[r].kind \in Kinds \ {"in"}
        BY <3>1 DEF RecordInv, HolderOK, FindBreak, At
      <4>3. stage \in {"idle", "endBreak", "deduct", "insertBreak", "closeEntry"}
        BY <4>2 DEF AfterFindBreak, Kinds
      <4>. QED  BY <4>1, <4>3
    <3>. QED  BY <1>3, <3>1 DEF InsertBreak, AuditBreakStart, EndBreak, AuditBreakEnd, ReadBreaks,
                     InsertDeduct, AuditDeduct
  <2>3. /\ loc'[r].entry = loc[r].entry /\ loc'[r].kind = loc[r].kind
        /\ DOMAIN loc'[r] = DOMAIN NoWork
        /\ DOMAIN loc' = Requests
        /\ \A s \in Requests \ {r} : loc'[s] = loc[s]
    BY <1>3 DEF RecordInv, HolderOK, NoWork, FindBreak, InsertBreak, AuditBreakStart, EndBreak,
         AuditBreakEnd, ReadBreaks, InsertDeduct, AuditDeduct
  <2>4. OthersAlone(r) /\ pc'[r] = stage
    BY <2>2, <2>3 DEF OthersAlone, RecordInv, Goto
  <2>5. Owns(r, loc[r].entry)'
    BY <1>1, <2>1, <2>3 DEF RecordInv, HolderOK, Owns, EntryIds, Still
  <2>6. HolderOK(r)'
    BY <2>2, <2>3, <2>4, <2>5 DEF HolderOK, HasNext, RecordInv
  <2>. QED  BY <1>1, <2>4, <2>6, FreePreserves
<1>. QED  BY <1>2, <1>3

-----------------------------------------------------------------------------
(* The steps that insert an entry *)

\* An entry added at the end, with an empty list of audit rows.
LEMMA EntryAdded ==
  ASSUME RecordInv, NEW row, DOMAIN row = Columns, entries' = Append(entries, row),
         entryTrail' = Append(entryTrail, <<>>), UNCHANGED cutShort
  PROVE  /\ Grows /\ RowsOK'
         /\ EntryIds' = EntryIds \cup {Len(entries) + 1}
         /\ entries'[Len(entries) + 1] = row
         /\ \A e \in EntryIds : entries'[e] = entries[e]
         /\ Len(entries) + 1 \notin EntryIds
<1>1. PICK S : entries \in Seq(S)
  BY DEF RecordInv, RowsOK
<1>2. PICK Rows : entryTrail \in Seq(Seq(Rows))
  BY DEF RecordInv, RowsOK
<1>3. entries \in Seq(S \cup {row})
  BY <1>1
<1>4. /\ Len(entries) \in Nat /\ DOMAIN entries = 1..Len(entries)
      /\ DOMAIN entries' = 1..(Len(entries) + 1)
      /\ entries'[Len(entries) + 1] = row
      /\ \A i \in 1..Len(entries) : entries'[i] = entries[i]
      /\ entries' \in Seq(S \cup {row})
  BY <1>3, AppendFacts
<1>5. /\ Len(entryTrail) = Len(entries) /\ DOMAIN entryTrail = 1..Len(entryTrail)
      /\ DOMAIN entryTrail' = 1..(Len(entryTrail) + 1)
      /\ \A i \in 1..Len(entryTrail) : entryTrail'[i] = entryTrail[i]
      /\ entryTrail' \in Seq(Seq(Rows))
  <2>1. <<>> \in Seq(Rows)
    OBVIOUS
  <2>. QED  BY <1>2, <2>1, AppendFacts DEF RecordInv, RowsOK
<1>6. Len(entryTrail') = Len(entries')
  BY <1>4, <1>5
<1>7. EntryIds' = EntryIds \cup {Len(entries) + 1} /\ Len(entries) + 1 \notin EntryIds
  BY <1>4 DEF EntryIds
<1>8. \A e \in EntryIds' : DOMAIN entries'[e] = Columns
  BY <1>4, <1>7 DEF RecordInv, RowsOK, EntryIds
<1>9. RowsOK'
  BY <1>4, <1>5, <1>6, <1>8 DEF RowsOK
<1>10. Grows
  BY <1>4, <1>5, <1>7 DEF Grows, EntryIds
<1>. QED  BY <1>4, <1>7, <1>9, <1>10 DEF EntryIds

\* A clock-in owes the opening row of the entry it adds.
LEMMA InsertEntryAccounts ==
  ASSUME RecordInv, NEW r \in Requests, InsertEntry(r)
  PROVE  RecordInv'
<1>a. PICK e : e = Len(entries) + 1
  OBVIOUS
<1>b. PICK row : row = NewEntry(EmployeeOf[r], loc[r].at, loc[r].flags)
  OBVIOUS
<1>1. DOMAIN row = Columns /\ row.out = Null /\ row.emp = EmployeeOf[r]
  BY <1>b DEF NewEntry, Columns
<1>2. /\ entries' = Append(entries, row) /\ entryTrail' = Append(entryTrail, <<>>)
      /\ UNCHANGED cutShort /\ UNCHANGED sweep /\ pc[r] = "insertEntry"
      /\ loc' = [loc EXCEPT ![r].entry = e]
      /\ \E stage \in {"photo", "auditIn"} : Goto(r, stage)
  BY <1>a, <1>b DEF InsertEntry, bounds, At
<1>3. /\ Grows /\ RowsOK' /\ EntryIds' = EntryIds \cup {e} /\ entries'[e] = row
      /\ \A f \in EntryIds : entries'[f] = entries[f]
  BY <1>1, <1>2, <1>a, EntryAdded
<1>4. OthersAlone(r) /\ pc'[r] \in {"photo", "auditIn"}
  BY <1>2 DEF OthersAlone, RecordInv, Goto
<1>5. loc'[r].entry = e /\ DOMAIN loc'[r] = DOMAIN NoWork /\ loc'[r].kind = loc[r].kind
  BY <1>2 DEF RecordInv, HolderOK, NoWork
<1>6. HolderOK(r)'
  BY <1>1, <1>3, <1>4, <1>5 DEF HolderOK, Owns, HasNext, RecordInv
<1>7. EndAccounted(e)' /\ StartAccounted(e)'
  BY <1>1, <1>3, <1>4, <1>5 DEF EndAccounted, Closed, StartAccounted, StartPending
<1>8. \A f : ~EndPending(r, f) /\ ~StartPending(r, f)
  BY <1>2 DEF EndPending, StartPending, HasNext
<1>. QED  BY <1>2, <1>3, <1>4, <1>6, <1>7, <1>8, HandlerPreserves

\* A job switch still owes the closing row of the entry it ended when it adds the next.
LEMMA InsertNextAccounts ==
  ASSUME RecordInv, NEW r \in Requests, InsertNext(r)
  PROVE  RecordInv'
<1>a. PICK e : e = Len(entries) + 1
  OBVIOUS
<1>b. PICK row : row = NewEntry(EmployeeOf[r], loc[r].at, {})
  OBVIOUS
<1>1. DOMAIN row = Columns /\ row.out = Null /\ row.emp = EmployeeOf[r]
  BY <1>b DEF NewEntry, Columns
<1>2. /\ entries' = Append(entries, row) /\ entryTrail' = Append(entryTrail, <<>>)
      /\ UNCHANGED cutShort /\ UNCHANGED sweep /\ pc[r] = "insertNext"
      /\ loc' = [loc EXCEPT ![r].next = e] /\ Goto(r, "auditSwitchClose")
  BY <1>a, <1>b DEF InsertNext, bounds, At
<1>3. /\ Grows /\ RowsOK' /\ EntryIds' = EntryIds \cup {e} /\ entries'[e] = row
      /\ \A f \in EntryIds : entries'[f] = entries[f]
  BY <1>1, <1>2, <1>a, EntryAdded
<1>4. OthersAlone(r) /\ pc'[r] = "auditSwitchClose"
  BY <1>2 DEF OthersAlone, RecordInv, Goto
<1>5. /\ loc'[r].next = e /\ DOMAIN loc'[r] = DOMAIN NoWork /\ loc'[r].kind = loc[r].kind
      /\ loc'[r].entry = loc[r].entry /\ loc'[r].at = loc[r].at
  BY <1>2 DEF RecordInv, HolderOK, NoWork
<1>6. Owns(r, loc[r].entry)
  BY <1>2 DEF RecordInv, HolderOK, HasEntry
<1>7. HolderOK(r)'
  BY <1>1, <1>3, <1>4, <1>5, <1>6 DEF HolderOK, Owns, RecordInv
<1>8. EndAccounted(e)' /\ StartAccounted(e)'
  BY <1>1, <1>3, <1>4, <1>5 DEF EndAccounted, Closed, StartAccounted, StartPending, HasNext
<1>9. \A f \in EntryIds : EndPending(r, f) => EndAccounted(f)'
  BY <1>3, <1>4, <1>5 DEF EndPending, EndAccounted
<1>10. \A f : ~StartPending(r, f)
  BY <1>2 DEF StartPending, HasNext
<1>. QED  BY <1>2, <1>3, <1>4, <1>7, <1>8, <1>9, <1>10, HandlerPreserves

-----------------------------------------------------------------------------
(* The steps that change an entry *)

\* One column of one entry is written.
LEMMA EntryWritten ==
  ASSUME RecordInv, NEW e \in EntryIds, NEW row, DOMAIN row = Columns, row.emp = entries[e].emp,
         entries' = [entries EXCEPT ![e] = row], UNCHANGED <<entryTrail, cutShort>>
  PROVE  /\ Grows /\ RowsOK' /\ EntryIds' = EntryIds
         /\ entries'[e] = row
         /\ \A f \in EntryIds \ {e} : entries'[f] = entries[f]
<1>1. PICK S : entries \in Seq(S)
  BY DEF RecordInv, RowsOK
<1>2. entries' \in Seq(S \cup {row}) /\ Len(entries') = Len(entries) /\ EntryIds' = EntryIds
  BY <1>1 DEF EntryIds
<1>3. entries'[e] = row /\ \A f \in EntryIds \ {e} : entries'[f] = entries[f]
  BY DEF EntryIds
<1>4. \A f \in EntryIds' : DOMAIN entries'[f] = Columns
  BY <1>2, <1>3 DEF RecordInv, RowsOK
<1>5. RowsOK'
  BY <1>2, <1>4 DEF RecordInv, RowsOK
<1>. QED  BY <1>2, <1>3, <1>5 DEF Grows

\* The photo check writes the flags only.
LEMMA FlagPhotoAccounts ==
  ASSUME RecordInv, NEW r \in Requests, FlagPhoto(r)
  PROVE  RecordInv'
<1>a. PICK e : e = loc[r].entry
  OBVIOUS
<1>b. PICK row : row = [entries[e] EXCEPT !.flags = loc[r].flags \cup {"suspect"}]
  OBVIOUS
<1>1. /\ entries' = [entries EXCEPT ![e] = row] /\ UNCHANGED <<entryTrail, cutShort>>
      /\ UNCHANGED sweep /\ pc[r] = "photo" /\ Goto(r, "auditIn")
      /\ loc' = [loc EXCEPT ![r].flags = loc[r].flags \cup {"suspect"}]
  BY <1>a, <1>b DEF FlagPhoto, At, trails, bounds
<1>2. Owns(r, e)
  BY <1>1, <1>a DEF RecordInv, HolderOK, HasEntry
<1>3. DOMAIN row = Columns /\ row.emp = entries[e].emp /\ row.out = entries[e].out
  BY <1>2, <1>b DEF RecordInv, RowsOK, Owns, Columns
<1>4. OthersAlone(r) /\ pc'[r] = "auditIn"
  BY <1>1 DEF OthersAlone, RecordInv, Goto
<1>5. loc'[r].entry = e /\ DOMAIN loc'[r] = DOMAIN NoWork /\ loc'[r].kind = loc[r].kind
  BY <1>1, <1>a DEF RecordInv, HolderOK, NoWork
<1>6. /\ Grows /\ RowsOK' /\ EntryIds' = EntryIds
      /\ \A f \in EntryIds : entries'[f].out = entries[f].out
  <2>1. /\ Grows /\ RowsOK' /\ EntryIds' = EntryIds /\ entries'[e] = row
        /\ \A f \in EntryIds \ {e} : entries'[f] = entries[f]
    BY <1>1, <1>2, <1>3, EntryWritten DEF Owns
  <2>. QED  BY <1>3, <2>1
<1>7. Owns(r, e)'
  BY <1>2, <1>6 DEF Owns, Grows
<1>8. HolderOK(r)'
  BY <1>4, <1>5, <1>7 DEF HolderOK, HasNext, RecordInv
<1>9. \A f \in EntryIds : StartPending(r, f) => StartAccounted(f)'
  BY <1>1, <1>4, <1>5, <1>a DEF StartPending, StartAccounted, HasNext
<1>10. \A f : ~EndPending(r, f)
  BY <1>1 DEF EndPending
<1>. QED  BY <1>1, <1>4, <1>6, <1>8, <1>9, <1>10, HandlerPreserves

\* Who closes an entry owes the row that says so, whether or not it was closed before.
LEMMA CloseEntryAccounts ==
  ASSUME RecordInv, NEW r \in Requests, CloseEntry(r)
  PROVE  RecordInv'
<1>a. PICK e : e = loc[r].entry
  OBVIOUS
<1>b. PICK row : row = [entries[e] EXCEPT !.out = loc[r].at]
  OBVIOUS
<1>1. /\ entries' = [entries EXCEPT ![e] = row] /\ UNCHANGED <<entryTrail, cutShort>>
      /\ UNCHANGED sweep /\ pc[r] = "closeEntry" /\ UNCHANGED loc
      /\ \E stage \in {"auditOut", "insertNext"} : Goto(r, stage)
  BY <1>a, <1>b DEF CloseEntry, At, trails, bounds
<1>2. Owns(r, e)
  BY <1>1, <1>a DEF RecordInv, HolderOK, HasEntry
<1>3. DOMAIN row = Columns /\ row.emp = entries[e].emp /\ row.out = loc[r].at
  BY <1>2, <1>b DEF RecordInv, RowsOK, Owns, Columns
<1>4. OthersAlone(r) /\ pc'[r] \in {"auditOut", "insertNext"}
  BY <1>1 DEF OthersAlone, RecordInv, Goto
<1>6. /\ Grows /\ RowsOK' /\ EntryIds' = EntryIds /\ entries'[e].out = loc[r].at
      /\ \A f \in EntryIds \ {e} : entries'[f] = entries[f]
  BY <1>1, <1>2, <1>3, EntryWritten DEF Owns
<1>7. Owns(r, e)'
  BY <1>1, <1>2, <1>6 DEF Owns, Grows
<1>8. HolderOK(r)'
  BY <1>1, <1>4, <1>7, <1>a DEF HolderOK, HasNext, RecordInv
<1>9. EndAccounted(e)'
  BY <1>1, <1>4, <1>6, <1>a DEF EndPending, EndAccounted
<1>10. \A f : ~EndPending(r, f) /\ ~StartPending(r, f)
  BY <1>1 DEF EndPending, StartPending, HasNext
<1>. QED  BY <1>1, <1>4, <1>6, <1>8, <1>9, <1>10, HandlerPreserves

-----------------------------------------------------------------------------
(* The steps that write an audit row *)

\* A row added to the list of one entry.
LEMMA RowWritten ==
  ASSUME RecordInv, NEW e \in EntryIds, NEW action, NEW out, NEW worked,
         AuditEntry(e, action, out, worked), UNCHANGED <<entries, cutShort>>
  PROVE  /\ Grows /\ RowsOK' /\ EntryIds' = EntryIds
         /\ out = entries[e].out => EndRecorded(e)'
         /\ action \in {"clock_in", "switch_job_open"} => StartRecorded(e)'
<1>a. PICK row : row = [action |-> action, out |-> out, worked |-> worked]
  OBVIOUS
<1>1. PICK Rows : entryTrail \in Seq(Seq(Rows))
  BY DEF RecordInv, RowsOK
<1>2. entryTrail' = [entryTrail EXCEPT ![e] = Append(entryTrail[e], row)]
  BY <1>a DEF AuditEntry
<1>3. e \in DOMAIN entryTrail /\ DOMAIN entryTrail = EntryIds
  BY <1>1 DEF RecordInv, RowsOK, EntryIds
<1>4. entryTrail[e] \in Seq(Rows \cup {row})
  BY <1>1, <1>3
<1>5. /\ DOMAIN entryTrail[e] = 1..Len(entryTrail[e]) /\ Len(entryTrail[e]) \in Nat
      /\ DOMAIN entryTrail'[e] = 1..(Len(entryTrail[e]) + 1)
      /\ entryTrail'[e][Len(entryTrail[e]) + 1] = row
      /\ \A k \in 1..Len(entryTrail[e]) : entryTrail'[e][k] = entryTrail[e][k]
      /\ entryTrail'[e] \in Seq(Rows \cup {row})
  <2>1. entryTrail'[e] = Append(entryTrail[e], row)
    BY <1>2, <1>3
  <2>. QED  BY <1>4, <2>1, AppendFacts
<1>6. \A f \in EntryIds \ {e} : entryTrail'[f] = entryTrail[f]
  BY <1>2, <1>3
<1>7. EntryIds' = EntryIds
  BY DEF EntryIds
<1>8. Grows
  BY <1>5, <1>6, <1>7 DEF Grows
<1>9. RowsOK'
  <2>1. entryTrail \in Seq(Seq(Rows \cup {row}))
    BY <1>1
  <2>2. entryTrail' \in Seq(Seq(Rows \cup {row})) /\ Len(entryTrail') = Len(entryTrail)
    BY <1>2, <1>3, <1>5, <2>1
  <2>. QED  BY <1>7, <2>2 DEF RecordInv, RowsOK
<1>10. ASSUME out = entries[e].out PROVE EndRecorded(e)'
  BY <1>5, <1>10, <1>a DEF EndRecorded
<1>11. ASSUME action \in {"clock_in", "switch_job_open"} PROVE StartRecorded(e)'
  BY <1>5, <1>11, <1>a DEF StartRecorded
<1>. QED  BY <1>7, <1>8, <1>9, <1>10, <1>11

\* The audit row that ends a handler settles what it owed.
LEMMA LastRowAccounts ==
  ASSUME RecordInv, NEW r \in Requests, AuditIn(r) \/ AuditOut(r) \/ AuditSwitchOpen(r)
  PROVE  RecordInv'
<1>1. Respond(r) /\ UNCHANGED entries /\ UNCHANGED cutShort /\ UNCHANGED sweep
  BY DEF AuditIn, AuditOut, AuditSwitchOpen, tables, bounds
<1>2. OthersAlone(r) /\ HolderOK(r)'
  BY <1>1, RespondHolds
<1>3. \A f : entries'[f].out = entries[f].out
  BY <1>1
<1>4. CASE AuditIn(r)
  <2>1. PICK e : e = loc[r].entry
    OBVIOUS
  <2>2. pc[r] = "auditIn" /\ AuditEntry(e, "clock_in", Null, 0) /\ e \in EntryIds
    BY <1>4, <2>1 DEF AuditIn, At, RecordInv, HolderOK, HasEntry, Owns
  <2>3. Grows /\ RowsOK' /\ EntryIds' = EntryIds /\ StartRecorded(e)'
    BY <1>1, <2>2, RowWritten
  <2>4. \A f : ~EndPending(r, f) /\ (StartPending(r, f) => f = e)
    BY <2>1, <2>2 DEF EndPending, StartPending, HasNext
  <2>5. StartAccounted(e)'
    BY <2>3 DEF StartAccounted
  <2>. QED  BY <1>1, <1>2, <1>3, <2>3, <2>4, <2>5, HandlerPreserves
<1>5. CASE AuditOut(r)
  <2>1. PICK e, out, worked : /\ e = loc[r].entry /\ out = loc[r].at
                              /\ AuditEntry(e, "clock_out", out, worked)
    BY <1>5 DEF AuditOut
  <2>2. pc[r] = "auditOut" /\ e \in EntryIds
    BY <1>5, <2>1 DEF AuditOut, At, RecordInv, HolderOK, HasEntry, Owns
  <2>3. Grows /\ RowsOK' /\ EntryIds' = EntryIds /\ (out = entries[e].out => EndRecorded(e)')
    BY <1>1, <2>1, <2>2, RowWritten
  <2>4. \A f \in EntryIds : EndPending(r, f) => EndAccounted(f)'
    BY <2>1, <2>3 DEF EndPending, EndAccounted
  <2>5. \A f : ~StartPending(r, f)
    BY <2>2 DEF StartPending, HasNext
  <2>. QED  BY <1>1, <1>2, <1>3, <2>3, <2>4, <2>5, HandlerPreserves
<1>6. CASE AuditSwitchOpen(r)
  <2>1. PICK e : e = loc[r].next
    OBVIOUS
  <2>2. pc[r] = "auditSwitchOpen" /\ AuditEntry(e, "switch_job_open", Null, 0) /\ e \in EntryIds
    BY <1>6, <2>1 DEF AuditSwitchOpen, At, RecordInv, HolderOK, HasNext, Owns
  <2>3. Grows /\ RowsOK' /\ EntryIds' = EntryIds /\ StartRecorded(e)'
    BY <1>1, <2>2, RowWritten
  <2>4. \A f : ~EndPending(r, f) /\ (StartPending(r, f) => f = e)
    BY <2>1, <2>2 DEF EndPending, StartPending
  <2>5. StartAccounted(e)'
    BY <2>3 DEF StartAccounted
  <2>. QED  BY <1>1, <1>2, <1>3, <2>3, <2>4, <2>5, HandlerPreserves
<1>. QED  BY <1>4, <1>5, <1>6

\* A job switch records the end of the old entry and goes on owing the start of the next.
LEMMA AuditSwitchCloseAccounts ==
  ASSUME RecordInv, NEW r \in Requests, AuditSwitchClose(r)
  PROVE  RecordInv'
<1>1. PICK e, out : /\ e = loc[r].entry /\ out = loc[r].at
                    /\ AuditEntry(e, "switch_job_close", out, 0)
  BY DEF AuditSwitchClose
<1>2. /\ UNCHANGED <<entries, cutShort>> /\ UNCHANGED sweep /\ UNCHANGED loc
      /\ pc[r] = "auditSwitchClose" /\ Goto(r, "auditSwitchOpen")
  BY DEF AuditSwitchClose, tables, bounds, At
<1>3. e \in EntryIds /\ Owns(r, loc[r].next)
  BY <1>1, <1>2 DEF RecordInv, HolderOK, HasEntry, HasNext, Owns
<1>4. Grows /\ RowsOK' /\ EntryIds' = EntryIds /\ (out = entries[e].out => EndRecorded(e)')
  BY <1>1, <1>2, <1>3, RowWritten
<1>5. OthersAlone(r) /\ pc'[r] = "auditSwitchOpen"
  BY <1>2 DEF OthersAlone, RecordInv, Goto
<1>6. Owns(r, loc[r].next)'
  BY <1>2, <1>3 DEF Owns, EntryIds
<1>7. HolderOK(r)'
  BY <1>2, <1>5, <1>6 DEF HolderOK, HasEntry, RecordInv
<1>8. \A f \in EntryIds : EndPending(r, f) => EndAccounted(f)'
  BY <1>1, <1>4 DEF EndPending, EndAccounted
<1>9. \A f \in EntryIds : StartPending(r, f) => StartAccounted(f)'
  BY <1>2, <1>5 DEF StartPending, StartAccounted, HasNext
<1>10. \A f : entries'[f].out = entries[f].out
  BY <1>2
<1>. QED  BY <1>2, <1>4, <1>5, <1>7, <1>8, <1>9, <1>10, HandlerPreserves

-----------------------------------------------------------------------------
(* Failures and the sweep *)

\* What a handler owed when it failed is remembered as cut short.
LEMMA FailAccounts ==
  ASSUME RecordInv, NEW r \in Requests, Fail(r)
  PROVE  RecordInv'
<1>1. /\ Respond(r) /\ UNCHANGED <<entries, entryTrail>> /\ UNCHANGED sweep
      /\ cutShort' = cutShort \cup ({loc[r].entry, loc[r].next} \ {Null})
  BY DEF Fail, tables, trails
<1>2. OthersAlone(r) /\ HolderOK(r)'
  BY <1>1, RespondHolds
<1>3. Grows /\ RowsOK' /\ EntryIds' = EntryIds
  BY <1>1 DEF Grows, RecordInv, RowsOK, EntryIds
<1>4. Null \notin EntryIds
  BY DEF RecordInv, RowsOK, EntryIds, Null
<1>5. \A f \in EntryIds : EndPending(r, f) => EndAccounted(f)'
  BY <1>1, <1>4 DEF EndPending, EndAccounted
<1>6. \A f \in EntryIds : StartPending(r, f) => StartAccounted(f)'
  BY <1>1, <1>4 DEF StartPending, StartAccounted
<1>7. \A f : entries'[f].out = entries[f].out
  BY <1>1
<1>. QED  BY <1>1, <1>2, <1>3, <1>5, <1>6, <1>7, HandlerPreserves

\* The sweep's step has to account for the clock-outs it writes and for the one it
\* had in hand.
LEMMA SweepPreserves ==
  ASSUME RecordInv, Grows, EntryIds' = EntryIds, UNCHANGED <<pc, loc>>, RowsOK', SweepHolds',
         \A e \in EntryIds : entries'[e].out # entries[e].out => EndAccounted(e)',
         \A e \in EntryIds :
           (sweep.stage = "audit" /\ sweep.entry = e /\ sweep.at = entries[e].out) => EndAccounted(e)'
  PROVE  RecordInv'
<1>1. \A s \in Requests : HolderOK(s)'
  BY DEF Grows, RecordInv, HolderOK, Owns
<1>2. ASSUME NEW e \in EntryIds PROVE EndAccounted(e)'
  <2>1. CASE entries'[e].out # entries[e].out
    BY <2>1
  <2>2. CASE entries'[e].out = entries[e].out
    <3>1. CASE ~Closed(e) \/ e \in cutShort
      BY <2>2, <3>1 DEF EndAccounted, Closed, Grows
    <3>2. CASE EndRecorded(e)
      BY <2>2, <3>2 DEF EndAccounted, EndRecorded, Grows
    <3>3. ASSUME NEW s \in Requests, EndPending(s, e) PROVE EndAccounted(e)'
      <4>1. EndPending(s, e)'
        BY <2>2, <3>3 DEF EndPending
      <4>. QED  BY <4>1 DEF EndAccounted
    <3>4. EndAccounted(e)
      BY DEF RecordInv
    <3>. QED  BY <3>1, <3>2, <3>3, <3>4 DEF EndAccounted
  <2>. QED  BY <2>1, <2>2
<1>3. ASSUME NEW e \in EntryIds PROVE StartAccounted(e)'
  <2>1. StartAccounted(e)
    BY DEF RecordInv
  <2>2. \A s \in Requests : StartPending(s, e) => StartPending(s, e)'
    BY DEF StartPending
  <2>3. StartRecorded(e) => StartRecorded(e)'
    BY DEF StartRecorded, Grows
  <2>. QED  BY <2>1, <2>2, <2>3 DEF StartAccounted, Grows
<1>. QED  BY <1>1, <1>2, <1>3 DEF RecordInv

\* The sweep reads, ends breaks and goes on to the next entry.
LEMMA SweepQuietAccounts ==
  ASSUME RecordInv,
         SweepSelect \/ (\E e \in sweep.left : SweepEndBreaks(e)) \/ SweepNotify
  PROVE  RecordInv'
<1>1. Still /\ UNCHANGED <<pc, loc>> /\ sweep.stage # "audit"
  BY DEF SweepSelect, SweepEndBreaks, SweepNotify, SweepAt, Still, tables, trails, bounds
<1>2. Grows /\ RowsOK' /\ EntryIds' = EntryIds
  BY <1>1, StillGrows
<1>3. SweepHolds'
  <2>1. CASE SweepSelect
    BY <2>1, <1>2 DEF SweepSelect, RecordInv, SweepHolds, SweepIdle, EntryIds
  <2>2. CASE \E e \in sweep.left : SweepEndBreaks(e)
    BY <2>2, <1>2 DEF SweepEndBreaks, RecordInv, SweepHolds, SweepIdle
  <2>3. CASE SweepNotify
    BY <2>3, <1>2 DEF SweepNotify, SweepEnds, RecordInv, SweepHolds, SweepIdle
  <2>. QED  BY <2>1, <2>2, <2>3
<1>4. \A e \in EntryIds : entries'[e].out = entries[e].out
  BY <1>1 DEF Still
<1>. QED  BY <1>1, <1>2, <1>3, <1>4, SweepPreserves

\* It owes a row for each entry it closes, also when it overwrites a clock-out.
LEMMA SweepCloseAccounts ==
  ASSUME RecordInv, SweepCloseEntry
  PROVE  RecordInv'
<1>1. PICK e : e = sweep.entry
  OBVIOUS
<1>2. PICK row : row = [[entries[e] EXCEPT !.out = sweep.at] EXCEPT !.edited = TRUE]
  OBVIOUS
<1>3. /\ sweep.stage = "close" /\ sweep' = [sweep EXCEPT !.stage = "audit"]
      /\ UNCHANGED <<entryTrail, cutShort>> /\ UNCHANGED <<pc, loc>>
  BY DEF SweepCloseEntry, SweepAt, SweepGoto, trails, bounds
<1>4. e \in EntryIds
  BY <1>1, <1>3 DEF RecordInv, SweepHolds
<1>5. entries' = [entries EXCEPT ![e] = row]
  BY <1>1, <1>2, <1>4 DEF SweepCloseEntry, EntryIds
<1>6. DOMAIN row = Columns /\ row.emp = entries[e].emp /\ row.out = sweep.at
  BY <1>2, <1>4 DEF RecordInv, RowsOK, Columns
<1>7. /\ Grows /\ RowsOK' /\ EntryIds' = EntryIds /\ entries'[e].out = sweep.at
      /\ \A f \in EntryIds \ {e} : entries'[f] = entries[f]
  BY <1>3, <1>4, <1>5, <1>6, EntryWritten
<1>8. sweep'.stage = "audit" /\ sweep'.entry = e /\ sweep'.at = sweep.at /\ sweep'.left = sweep.left
      /\ DOMAIN sweep' = DOMAIN SweepIdle
  BY <1>1, <1>3 DEF RecordInv, SweepHolds, SweepIdle
<1>9. SweepHolds'
  BY <1>4, <1>7, <1>8 DEF RecordInv, SweepHolds
<1>10. EndAccounted(e)'
  BY <1>7, <1>8 DEF EndAccounted
<1>. QED  BY <1>3, <1>7, <1>9, <1>10, SweepPreserves

\* The sweep's row settles it.
LEMMA SweepAuditAccounts ==
  ASSUME RecordInv, SweepAudit
  PROVE  RecordInv'
<1>1. PICK e, out : e = sweep.entry /\ out = sweep.at /\ AuditEntry(e, "auto_clockout", out, 0)
  BY DEF SweepAudit
<1>2. /\ sweep.stage = "audit" /\ sweep' = [sweep EXCEPT !.stage = "notify"]
      /\ UNCHANGED <<entries, cutShort>> /\ UNCHANGED <<pc, loc>>
  BY DEF SweepAudit, SweepAt, SweepGoto, tables, bounds
<1>3. e \in EntryIds
  BY <1>1, <1>2 DEF RecordInv, SweepHolds
<1>4. Grows /\ RowsOK' /\ EntryIds' = EntryIds /\ (out = entries[e].out => EndRecorded(e)')
  BY <1>1, <1>2, <1>3, RowWritten
<1>5. SweepHolds'
  BY <1>2, <1>4 DEF RecordInv, SweepHolds, SweepIdle
<1>6. \A f \in EntryIds :
        (sweep.stage = "audit" /\ sweep.entry = f /\ sweep.at = entries[f].out) => EndAccounted(f)'
  BY <1>1, <1>4 DEF EndAccounted
<1>7. \A f : entries'[f].out = entries[f].out
  BY <1>2
<1>. QED  BY <1>2, <1>4, <1>5, <1>6, <1>7, SweepPreserves

\* A failed sweep leaves the entry it had in hand among those cut short.
LEMMA SweepFailAccounts ==
  ASSUME RecordInv, SweepFail
  PROVE  RecordInv'
<1>1. /\ UNCHANGED <<entries, entryTrail>> /\ UNCHANGED <<pc, loc>>
      /\ cutShort' = cutShort \cup ({sweep.entry} \ {Null})
      /\ sweep' = [SweepIdle EXCEPT !.enabled = sweep.enabled]
  BY DEF SweepFail, SweepEnds, tables, trails
<1>2. Grows /\ RowsOK' /\ EntryIds' = EntryIds
  BY <1>1 DEF Grows, RecordInv, RowsOK, EntryIds
<1>3. SweepHolds'
  BY <1>1 DEF RecordInv, SweepHolds, SweepIdle
<1>4. Null \notin EntryIds
  BY DEF RecordInv, RowsOK, EntryIds, Null
<1>5. \A f \in EntryIds : sweep.entry = f => EndAccounted(f)'
  BY <1>1, <1>4 DEF EndAccounted
<1>6. \A f : entries'[f].out = entries[f].out
  BY <1>1
<1>. QED  BY <1>1, <1>2, <1>3, <1>5, <1>6, SweepPreserves

-----------------------------------------------------------------------------
(* The theorem *)

\* Nothing is owed in the beginning ...
LEMMA RecordInit == Init => RecordInv
<1>. SUFFICES ASSUME Init PROVE RecordInv
  OBVIOUS
<1>1. RowsOK /\ EntryIds = {}
  BY DEF Init, RowsOK, EntryIds
<1>2. \A r \in Requests : HolderOK(r)
  BY DEF Init, HolderOK, NoWork, Kinds, HasEntry, HasNext
<1>3. SweepHolds
  BY DEF Init, SweepHolds, SweepIdle
<1>. QED  BY <1>1, <1>2, <1>3 DEF RecordInv, Init

\* ... nor by a step of the clock ...
LEMMA RecordUnchanged ==
  ASSUME RecordInv, Still, UNCHANGED <<pc, loc, sweep>>
  PROVE  RecordInv'
<1>1. Grows /\ RowsOK' /\ EntryIds' = EntryIds
  BY StillGrows
<1>2. SweepHolds'
  BY <1>1 DEF RecordInv, SweepHolds
<1>3. \A e \in EntryIds : entries'[e].out = entries[e].out
  BY DEF Still
<1>4. \A e \in EntryIds :
        (sweep.stage = "audit" /\ sweep.entry = e /\ sweep.at = entries[e].out) => EndAccounted(e)'
  BY DEF Still, EndAccounted
<1>. QED  BY <1>1, <1>2, <1>3, <1>4, SweepPreserves

\* ... and every other step accounts for what it writes.
LEMMA RecordNext == RecordInv /\ [Next]_vars => RecordInv'
<1>. SUFFICES ASSUME RecordInv, [Next]_vars PROVE RecordInv'
  OBVIOUS
<1>1. CASE Tick
  BY <1>1, RecordUnchanged DEF Tick, Still, tables, trails, bounds
<1>2. ASSUME NEW r \in Requests, ArriveAny(r) PROVE RecordInv'
  BY <1>2, ArriveAccounts DEF ArriveAny, Kinds
<1>3. ASSUME NEW r \in Requests, HandlerStep(r) PROVE RecordInv'
  BY <1>3, FindOpenAccounts, CheckAccounts, WorkAccounts, InsertEntryAccounts, InsertNextAccounts,
     FlagPhotoAccounts, CloseEntryAccounts, LastRowAccounts, AuditSwitchCloseAccounts DEF HandlerStep
<1>4. ASSUME NEW r \in Requests, Fail(r) PROVE RecordInv'
  BY <1>4, FailAccounts
<1>5. CASE SweepStep
  BY <1>5, SweepQuietAccounts, SweepCloseAccounts, SweepAuditAccounts DEF SweepStep
<1>6. CASE SweepFail
  BY <1>6, SweepFailAccounts
<1>7. CASE UNCHANGED vars
  BY <1>7, RecordUnchanged DEF vars, Still, tables, trails, bounds
<1>. QED  BY <1>1, <1>2, <1>3, <1>4, <1>5, <1>6, <1>7 DEF Next

\* A pending audit row is that of a request of the entry's employee, or of the sweep:
\* once neither is at work, and nothing was cut short, the rows are there.
LEMMA AccountedOnRecord == RecordInv => EntriesOnRecord
<1>. SUFFICES ASSUME RecordInv, NEW e \in EntryIds, ~Busy(e), e \notin cutShort
              PROVE  /\ Closed(e) => EndRecorded(e)
                     /\ StartRecorded(e)
  BY DEF EntriesOnRecord, EndRecorded, StartRecorded
<1>1. sweep.stage # "audit"
  BY DEF Busy
<1>2. ASSUME NEW r \in Requests PROVE ~EndPending(r, e) /\ ~StartPending(r, e)
  <2>1. HolderOK(r)
    BY DEF RecordInv
  <2>2. EmployeeOf[r] = entries[e].emp => pc[r] = "idle"
    BY DEF Busy
  <2>. QED  BY <2>1, <2>2 DEF HolderOK, Owns, EndPending, StartPending, HasEntry, HasNext
<1>3. EndAccounted(e) /\ StartAccounted(e)
  BY DEF RecordInv
<1>. QED  BY <1>1, <1>2, <1>3 DEF EndAccounted, StartAccounted

\* Every entry has the audit row of its opening, and every clock-out an entry shows is
\* one an audit row records, however many requests of an employee race with each other
\* and with the sweep: clock-outs that overwrite each other, job switches, flagged
\* photos and a sweep working through a stale list all write their own row in the end.
THEOREM EntriesAlwaysOnRecord == Spec => []EntriesOnRecord
<1>1. Init => RecordInv
  BY RecordInit
<1>2. RecordInv /\ [Next]_vars => RecordInv'
  BY RecordNext
<1>3. RecordInv => EntriesOnRecord
  BY AccountedOnRecord
<1>. QED  BY <1>1, <1>2, <1>3, PTL DEF Spec

-----------------------------------------------------------------------------
(***************************************************************************)
(* The end of a shift and the breaks it leaves running (EndOfShiftKept,    *)
(* NoBreakOutlivesShift), for any number of employees and entries, when no *)
(* employee has two requests in progress.                                  *)
(*                                                                         *)
(* The argument: an entry whose end is not on record yet has been given    *)
(* none, or one by the sweep or by the handler at work on it; the sweep    *)
(* comes to each entry once; and a break that starts once the sweep has    *)
(* ended an entry's breaks starts no earlier than the instant the sweep    *)
(* read the clock.                                                         *)
(***************************************************************************)

\* A handler ends the entry it has in hand, and so does the sweep.
EndedByHandler(r, e) ==
  /\ CloseEntry(r) /\ e = loc[r].entry
  /\ entries'[e].out = loc[r].at /\ entries'[e].edited = entries[e].edited
EndedBySweep(e) ==
  /\ SweepCloseEntry /\ e = sweep.entry
  /\ entries'[e].out = sweep.at /\ entries'[e].edited

EndKept(e) == entries'[e].out = entries[e].out /\ entries'[e].edited = entries[e].edited

\* No other step writes a clock-out, and no entry is ended as it is added.
LEMMA WhoEnds ==
  ASSUME ShiftInv, RecordInv, [Next]_vars
  PROVE  /\ EntryIds \subseteq EntryIds'
         /\ \A e \in EntryIds' \ EntryIds : entries'[e].out = Null /\ ~entries'[e].edited
         /\ \A e \in EntryIds :
              EndKept(e) \/ (\E r \in Requests : EndedByHandler(r, e)) \/ EndedBySweep(e)
<1>1. CASE UNCHANGED entries
  BY <1>1 DEF EntryIds, EndKept
<1>2. ASSUME NEW r \in Requests, InsertEntry(r) \/ InsertNext(r)
      PROVE  /\ EntryIds \subseteq EntryIds'
             /\ \A e \in EntryIds' \ EntryIds : entries'[e].out = Null /\ ~entries'[e].edited
             /\ \A e \in EntryIds : EndKept(e)
  <2>1. PICK row : /\ entries' = Append(entries, row) /\ row.out = Null /\ ~row.edited
                   /\ DOMAIN row = Columns
    BY <1>2 DEF InsertEntry, InsertNext, NewEntry, Columns
  <2>2. entryTrail' = Append(entryTrail, <<>>) /\ UNCHANGED cutShort
    BY <1>2 DEF InsertEntry, InsertNext, bounds
  <2>3. /\ EntryIds' = EntryIds \cup {Len(entries) + 1}
        /\ entries'[Len(entries) + 1] = row
        /\ \A e \in EntryIds : entries'[e] = entries[e]
    BY <2>1, <2>2, EntryAdded
  <2>. QED  BY <2>1, <2>3 DEF EndKept
<1>3. ASSUME NEW r \in Requests, FlagPhoto(r)
      PROVE  EntryIds' = EntryIds /\ \A e \in EntryIds : EndKept(e)
  <2>1. PICK f, row : /\ f = loc[r].entry
                      /\ row = [entries[f] EXCEPT !.flags = loc[r].flags \cup {"suspect"}]
                      /\ entries' = [entries EXCEPT ![f] = row]
    BY <1>3 DEF FlagPhoto
  <2>2. f \in EntryIds
    BY <1>3, <2>1 DEF FlagPhoto, At, RecordInv, HolderOK, HasEntry, Owns
  <2>3. row.out = entries[f].out /\ row.edited = entries[f].edited
    BY <2>1, <2>2, EntryIsRow DEF ShiftInv, EntryRows
  <2>. QED  BY <2>1, <2>2, <2>3, UpdatedEntry DEF ShiftInv, EndKept
<1>4. ASSUME NEW r \in Requests, CloseEntry(r)
      PROVE  EntryIds' = EntryIds /\ \A e \in EntryIds : EndKept(e) \/ EndedByHandler(r, e)
  <2>1. PICK f, row : /\ f = loc[r].entry /\ row = [entries[f] EXCEPT !.out = loc[r].at]
                      /\ entries' = [entries EXCEPT ![f] = row]
    BY <1>4 DEF CloseEntry
  <2>2. f \in EntryIds
    BY <1>4, <2>1 DEF CloseEntry, At, RecordInv, HolderOK, HasEntry, Owns
  <2>3. row.out = loc[r].at /\ row.edited = entries[f].edited
    BY <2>1, <2>2, EntryIsRow DEF ShiftInv, EntryRows
  <2>4. /\ EntryIds' = EntryIds /\ entries'[f] = row
        /\ \A e \in EntryIds \ {f} : entries'[e] = entries[e]
    BY <2>1, <2>2, UpdatedEntry DEF ShiftInv
  <2>. QED  BY <1>4, <2>1, <2>3, <2>4 DEF EndKept, EndedByHandler
<1>5. CASE SweepCloseEntry
  <2>1. PICK f, row : /\ f = sweep.entry
                      /\ row = [[entries[f] EXCEPT !.out = sweep.at] EXCEPT !.edited = TRUE]
    OBVIOUS
  <2>2. f \in EntryIds
    BY <1>5, <2>1 DEF SweepCloseEntry, SweepAt, RecordInv, SweepHolds
  <2>3. entries' = [entries EXCEPT ![f] = row]
    BY <1>5, <2>1, <2>2 DEF SweepCloseEntry, EntryIds
  <2>4. row.out = sweep.at /\ row.edited
    BY <2>1, <2>2, EntryIsRow DEF ShiftInv, EntryRows
  <2>5. /\ EntryIds' = EntryIds /\ entries'[f] = row
        /\ \A e \in EntryIds \ {f} : entries'[e] = entries[e]
    BY <2>2, <2>3, UpdatedEntry DEF ShiftInv
  <2>. QED  BY <1>5, <2>1, <2>4, <2>5 DEF EndKept, EndedBySweep
<1>6. ASSUME NEW r \in Requests, ArriveAny(r) \/ HandlerStep(r) \/ Fail(r)
      PROVE  \/ UNCHANGED entries
             \/ InsertEntry(r) \/ InsertNext(r) \/ FlagPhoto(r) \/ CloseEntry(r)
  BY <1>6 DEF ArriveAny, Arrive, HandlerStep, FindOpen, CheckCooldown, CheckPunch, AuditIn,
      FindBreak, InsertBreak, AuditBreakStart, EndBreak, AuditBreakEnd, ReadBreaks, InsertDeduct,
      AuditDeduct, AuditOut, AuditSwitchClose, AuditSwitchOpen, Fail, tables
<1>7. ASSUME SweepStep \/ SweepFail \/ Tick \/ UNCHANGED vars
      PROVE  UNCHANGED entries \/ SweepCloseEntry
  BY <1>7 DEF SweepStep, SweepSelect, SweepEndBreaks, SweepAudit, SweepNotify, SweepFail, Tick,
      vars, tables
<1>. QED  BY <1>1, <1>2, <1>3, <1>4, <1>5, <1>6, <1>7 DEF Next

\* The audit rows a handler writes of an end it gave.
EndRow(r, e) ==
  /\ AuditOut(r) \/ AuditSwitchClose(r)
  /\ e = loc[r].entry

\* No other step puts a handler's end on record.
LEMMA WhoRecords ==
  ASSUME RecordInv, [Next]_vars, NEW e \in EntryIds', EndWritten(e)'
  PROVE  e \in EntryIds /\ (EndWritten(e) \/ \E r \in Requests : EndRow(r, e))
<1>1. PICK Rows : entryTrail \in Seq(Seq(Rows))
  BY DEF RecordInv, RowsOK
<1>2. DOMAIN entryTrail = EntryIds
  BY <1>1 DEF RecordInv, RowsOK, EntryIds
<1>3. CASE UNCHANGED <<entries, entryTrail>>
  BY <1>3 DEF EntryIds, EndWritten
<1>4. ASSUME NEW r \in Requests, InsertEntry(r) \/ InsertNext(r)
      PROVE  e \in EntryIds /\ EndWritten(e)
  <2>1. entryTrail' = Append(entryTrail, <<>>)
    BY <1>4 DEF InsertEntry, InsertNext
  <2>2. PICK row : entries' = Append(entries, row)
    BY <1>4 DEF InsertEntry, InsertNext
  <2>3. PICK S : entries \in Seq(S)
    BY DEF RecordInv, RowsOK
  <2>4. entries \in Seq(S \cup {row})
    BY <2>3
  <2>5. EntryIds' = 1..(Len(entries) + 1) /\ EntryIds = 1..Len(entries) /\ Len(entries) \in Nat
    BY <2>2, <2>4, AppendFacts DEF EntryIds
  <2>6. <<>> \in Seq(Rows) /\ Len(entryTrail) = Len(entries)
    BY DEF RecordInv, RowsOK
  <2>7. /\ entryTrail'[Len(entries) + 1] = <<>>
        /\ \A f \in EntryIds : entryTrail'[f] = entryTrail[f]
    BY <1>1, <2>1, <2>5, <2>6, AppendFacts
  <2>8. e # Len(entries) + 1
    BY <2>7 DEF EndWritten
  <2>9. e \in EntryIds
    BY <2>5, <2>8
  <2>. QED  BY <2>7, <2>9 DEF EndWritten
<1>5. ASSUME NEW f \in EntryIds, NEW action, NEW out, NEW worked,
             AuditEntry(f, action, out, worked), UNCHANGED entries,
             e # f \/ action \notin {"clock_out", "switch_job_close"}
      PROVE  e \in EntryIds /\ EndWritten(e)
  <2>1. PICK row : row = [action |-> action, out |-> out, worked |-> worked]
    OBVIOUS
  <2>2. /\ row.action = action
        /\ entryTrail' = [entryTrail EXCEPT ![f] = Append(entryTrail[f], row)]
    BY <1>5, <2>1 DEF AuditEntry
  <2>3. e \in EntryIds
    BY <1>5 DEF EntryIds
  <2>4. CASE e # f
    BY <1>2, <2>2, <2>3, <2>4 DEF EndWritten
  <2>5. CASE e = f
    <3>1. entryTrail[f] \in Seq(Rows \cup {row})
      BY <1>1, <1>2
    <3>2. entryTrail'[f] = Append(entryTrail[f], row)
      BY <1>2, <2>2
    <3>3. /\ DOMAIN entryTrail[f] = 1..Len(entryTrail[f]) /\ Len(entryTrail[f]) \in Nat
          /\ DOMAIN entryTrail'[f] = 1..(Len(entryTrail[f]) + 1)
          /\ entryTrail'[f][Len(entryTrail[f]) + 1] = row
          /\ \A k \in 1..Len(entryTrail[f]) : entryTrail'[f][k] = entryTrail[f][k]
      BY <3>1, <3>2, AppendFacts
    <3>4. PICK k \in DOMAIN entryTrail'[e] :
            entryTrail'[e][k].action \in {"clock_out", "switch_job_close"}
      BY DEF EndWritten
    <3>5. k # Len(entryTrail[f]) + 1
      BY <1>5, <2>2, <2>5, <3>3, <3>4
    <3>6. k \in DOMAIN entryTrail[f]
      BY <2>5, <3>3, <3>4, <3>5
    <3>. QED  BY <2>3, <2>5, <3>3, <3>4, <3>6 DEF EndWritten
  <2>. QED  BY <2>4, <2>5
<1>6. ASSUME NEW r \in Requests, AuditIn(r) \/ AuditSwitchOpen(r)
      PROVE  e \in EntryIds /\ EndWritten(e)
  <2>1. UNCHANGED entries
    BY <1>6 DEF AuditIn, AuditSwitchOpen, tables
  <2>2. CASE AuditIn(r)
    <3>1. loc[r].entry \in EntryIds /\ AuditEntry(loc[r].entry, "clock_in", Null, 0)
      BY <2>2 DEF AuditIn, At, RecordInv, HolderOK, HasEntry, Owns
    <3>. QED  BY <1>5, <2>1, <3>1
  <2>3. CASE AuditSwitchOpen(r)
    <3>1. loc[r].next \in EntryIds /\ AuditEntry(loc[r].next, "switch_job_open", Null, 0)
      BY <2>3 DEF AuditSwitchOpen, At, RecordInv, HolderOK, HasNext, Owns
    <3>. QED  BY <1>5, <2>1, <3>1
  <2>. QED  BY <1>6, <2>2, <2>3
<1>7. ASSUME NEW r \in Requests, AuditOut(r) \/ AuditSwitchClose(r)
      PROVE  e \in EntryIds /\ (EndWritten(e) \/ EndRow(r, e))
  <2>1. PICK f, action, out, worked : f = loc[r].entry /\ AuditEntry(f, action, out, worked)
    BY <1>7 DEF AuditOut, AuditSwitchClose
  <2>2. UNCHANGED entries /\ f \in EntryIds
    BY <1>7, <2>1 DEF AuditOut, AuditSwitchClose, At, tables, RecordInv, HolderOK, HasEntry, Owns
  <2>3. e \in EntryIds
    BY <2>2 DEF EntryIds
  <2>4. CASE e # f
    BY <1>5, <2>1, <2>2, <2>4
  <2>5. CASE e = f
    BY <1>7, <2>1, <2>3, <2>5 DEF EndRow
  <2>. QED  BY <2>4, <2>5
<1>8. ASSUME SweepAudit PROVE e \in EntryIds /\ EndWritten(e)
  <2>1. /\ UNCHANGED entries /\ sweep.entry \in EntryIds
        /\ AuditEntry(sweep.entry, "auto_clockout", sweep.at, 0)
    BY <1>8 DEF SweepAudit, SweepAt, tables, RecordInv, SweepHolds
  <2>. QED  BY <1>5, <2>1
<1>9. ASSUME UNCHANGED entryTrail, DOMAIN entries' = DOMAIN entries
      PROVE  e \in EntryIds /\ EndWritten(e)
  BY <1>9 DEF EntryIds, EndWritten
<1>10. ASSUME NEW r \in Requests, ArriveAny(r) \/ HandlerStep(r) \/ Fail(r)
       PROVE  \/ UNCHANGED entryTrail /\ DOMAIN entries' = DOMAIN entries
              \/ InsertEntry(r) \/ InsertNext(r) \/ AuditIn(r) \/ AuditSwitchOpen(r)
              \/ AuditOut(r) \/ AuditSwitchClose(r)
  <2>1. CASE FlagPhoto(r) \/ CloseEntry(r)
    BY <2>1 DEF FlagPhoto, CloseEntry, trails
  <2>. QED  BY <1>10, <2>1
       DEF ArriveAny, Arrive, HandlerStep, FindOpen, CheckCooldown, CheckPunch, FindBreak,
           InsertBreak, AuditBreakStart, EndBreak, AuditBreakEnd, ReadBreaks, InsertDeduct,
           AuditDeduct, Fail, tables, trails
<1>11. ASSUME SweepStep \/ SweepFail \/ Tick \/ UNCHANGED vars
       PROVE  (UNCHANGED entryTrail /\ DOMAIN entries' = DOMAIN entries) \/ SweepAudit
  BY <1>11 DEF SweepStep, SweepSelect, SweepEndBreaks, SweepCloseEntry, SweepNotify, SweepFail,
      Tick, vars, tables, trails
<1>. QED  BY <1>4, <1>6, <1>7, <1>8, <1>9, <1>10, <1>11 DEF Next

\* A handler about to end an entry, or to write to it, has not put an end on record, and one
\* that owes the row of an end has given it.
Owed == {"auditOut", "insertNext", "auditSwitchClose"}
HandOK(r) ==
  /\ pc[r] \in Working => ~EndWritten(loc[r].entry)
  /\ pc[r] \in Owed => Closed(loc[r].entry)

\* The sweep ends no entry it has ended before.
SweepFresh ==
  /\ \A e \in sweep.left : ~entries[e].edited
  /\ sweep.stage = "close" => ~entries[sweep.entry].edited /\ sweep.entry \notin sweep.left

Unended == \A e \in EntryIds : ~Closed(e) => ~entries[e].edited /\ ~EndWritten(e)

HandInv ==
  /\ OverlapInv /\ RecordInv
  /\ \A r \in Requests : HandOK(r)
  /\ SweepFresh
  /\ Unended

\* Where a request's step takes it.
LEMMA HandMoves ==
  ASSUME RecordInv, NEW r \in Requests, ArriveAny(r) \/ HandlerStep(r) \/ Fail(r)
  PROVE  /\ OthersAlone(r) /\ UNCHANGED sweep
         /\ pc'[r] \in Working =>
              \/ pc[r] \in Working /\ loc'[r].entry = loc[r].entry
              \/ UNCHANGED entries /\ loc'[r].entry \in OpenEntries(EmployeeOf[r])
         /\ pc'[r] \in Owed => loc'[r].entry = loc[r].entry /\ (CloseEntry(r) \/ pc[r] \in Owed)
<1>1. DOMAIN pc = Requests /\ DOMAIN loc = Requests /\ DOMAIN loc[r] = DOMAIN NoWork
  BY DEF RecordInv, HolderOK
<1>2. ASSUME Respond(r) PROVE OthersAlone(r) /\ pc'[r] = "idle"
  BY <1>1, <1>2 DEF Respond, Goto, OthersAlone
<1>3. "idle" \notin Working /\ "idle" \notin Owed
  BY DEF Working, Stamped, Owed
<1>4. UNCHANGED sweep
  BY DEF ArriveAny, Arrive, HandlerStep, FindOpen, CheckCooldown, CheckPunch, InsertEntry,
      FlagPhoto, AuditIn, FindBreak, InsertBreak, AuditBreakStart, EndBreak, AuditBreakEnd,
      ReadBreaks, InsertDeduct, AuditDeduct, CloseEntry, AuditOut, InsertNext, AuditSwitchClose,
      AuditSwitchOpen, Fail
<1>5. CASE Respond(r)
  BY <1>2, <1>3, <1>4, <1>5
<1>6. CASE ArriveAny(r)
  <2>1. OthersAlone(r) /\ pc'[r] = "findOpen"
    BY <1>1, <1>6 DEF ArriveAny, Arrive, Goto, OthersAlone
  <2>. QED  BY <1>4, <2>1 DEF Working, Stamped, Owed
<1>7. CASE FindOpen(r) /\ ~Respond(r)
  <2>1. CASE \E e \in LatestOpen(EmployeeOf[r]) :
               loc' = [loc EXCEPT ![r].entry = e, ![r].in = entries[e].in] /\ Goto(r, "findBreak")
    <3>1. PICK e \in LatestOpen(EmployeeOf[r]) :
            loc' = [loc EXCEPT ![r].entry = e, ![r].in = entries[e].in] /\ Goto(r, "findBreak")
      BY <2>1
    <3>2. OthersAlone(r) /\ pc'[r] = "findBreak"
      BY <1>1, <3>1 DEF Goto, OthersAlone
    <3>3. loc'[r].entry = e
      BY <1>1, <3>1 DEF NoWork
    <3>4. UNCHANGED entries /\ e \in OpenEntries(EmployeeOf[r])
      BY <1>7 DEF FindOpen, tables, LatestOpen
    <3>. QED  BY <1>4, <3>2, <3>3, <3>4 DEF Owed
  <2>2. CASE \E q : /\ loc' = [loc EXCEPT ![r].queued = q]
                    /\ pc' \in {[pc EXCEPT ![r] = "cooldown"], [pc EXCEPT ![r] = "checks"]}
    <3>1. OthersAlone(r) /\ pc'[r] \in {"cooldown", "checks"}
      BY <1>1, <2>2 DEF OthersAlone
    <3>. QED  BY <1>4, <3>1 DEF Working, Stamped, Owed
  <2>. QED  BY <1>7, <2>1, <2>2 DEF FindOpen, Goto
<1>8. CASE (CheckCooldown(r) \/ CheckPunch(r)) /\ ~Respond(r)
  <2>1. OthersAlone(r) /\ pc'[r] \in {"checks", "insertEntry"}
    BY <1>1, <1>8 DEF CheckCooldown, CheckPunch, Goto, OthersAlone
  <2>. QED  BY <1>4, <2>1 DEF Working, Stamped, Owed
<1>9. CASE InsertEntry(r) \/ FlagPhoto(r)
  <2>1. OthersAlone(r) /\ pc'[r] \in {"photo", "auditIn"}
    BY <1>1, <1>9 DEF InsertEntry, FlagPhoto, Goto, OthersAlone
  <2>. QED  BY <1>4, <2>1 DEF Working, Stamped, Owed
<1>10. CASE FindBreak(r) /\ ~Respond(r)
  <2>1. PICK b, at, stage : /\ stage = AfterFindBreak(loc[r].kind, OpenBreaks(loc[r].entry) # {})
                            /\ Goto(r, stage) /\ stage # "idle"
                            /\ loc' = [loc EXCEPT ![r].brk = b, ![r].at = at]
    BY <1>10 DEF FindBreak
  <2>2. pc[r] = "findBreak" /\ loc[r].kind \in Kinds \ {"in"}
    BY <1>10 DEF FindBreak, At, RecordInv, HolderOK
  <2>3. stage \in {"endBreak", "deduct", "insertBreak", "closeEntry"}
    BY <2>1, <2>2 DEF AfterFindBreak, Kinds
  <2>4. OthersAlone(r) /\ pc'[r] = stage
    BY <1>1, <2>1 DEF Goto, OthersAlone
  <2>5. loc'[r].entry = loc[r].entry
    BY <1>1, <2>1 DEF NoWork
  <2>. QED  BY <1>4, <2>2, <2>3, <2>4, <2>5 DEF Working, Owed
<1>11. CASE InsertBreak(r) \/ AuditSwitchClose(r)
  <2>1. OthersAlone(r) /\ pc'[r] \in {"auditBreakStart", "auditSwitchOpen"}
    BY <1>1, <1>11 DEF InsertBreak, AuditSwitchClose, Goto, OthersAlone
  <2>. QED  BY <1>4, <2>1 DEF Working, Stamped, Owed
<1>12. CASE EndBreak(r) \/ ((AuditBreakEnd(r) \/ AuditDeduct(r)) /\ ~Respond(r))
  <2>1. UNCHANGED loc /\ pc[r] \in Working /\ \E stage \in Working \ Owed : Goto(r, stage)
    BY <1>12 DEF EndBreak, AuditBreakEnd, AuditDeduct, At, Working, Stamped, Owed
  <2>2. OthersAlone(r) /\ pc'[r] \notin Owed
    BY <1>1, <2>1 DEF Goto, OthersAlone
  <2>. QED  BY <1>4, <2>1, <2>2
<1>13. CASE ReadBreaks(r) \/ InsertDeduct(r)
  <2>1. PICK b, unpaid, deduct :
          loc' \in {[loc EXCEPT ![r].unpaid = unpaid, ![r].deduct = deduct],
                    [loc EXCEPT ![r].brk = b]}
    BY <1>13 DEF ReadBreaks, InsertDeduct
  <2>2. pc[r] \in Working /\ \E stage \in {"insertDeduct", "closeEntry", "auditDeduct"} : Goto(r, stage)
    BY <1>13 DEF ReadBreaks, InsertDeduct, At, Working, Stamped
  <2>3. OthersAlone(r) /\ pc'[r] \in {"insertDeduct", "closeEntry", "auditDeduct"}
    BY <1>1, <2>1, <2>2 DEF Goto, OthersAlone
  <2>4. loc'[r].entry = loc[r].entry
    BY <1>1, <2>1 DEF NoWork
  <2>. QED  BY <1>4, <2>2, <2>3, <2>4 DEF Owed
<1>14. CASE CloseEntry(r)
  <2>1. OthersAlone(r) /\ UNCHANGED loc /\ pc'[r] \in {"auditOut", "insertNext"}
    BY <1>1, <1>14 DEF CloseEntry, Goto, OthersAlone
  <2>. QED  BY <1>4, <1>14, <2>1 DEF Working, Stamped
<1>15. CASE InsertNext(r)
  <2>1. /\ OthersAlone(r) /\ pc'[r] = "auditSwitchClose" /\ pc[r] = "insertNext"
        /\ loc'[r].entry = loc[r].entry
    BY <1>1, <1>15 DEF InsertNext, At, Goto, OthersAlone, NoWork
  <2>. QED  BY <1>4, <2>1 DEF Working, Stamped, Owed
<1>. QED  BY <1>5, <1>6, <1>7, <1>8, <1>9, <1>10, <1>11, <1>12, <1>13, <1>14, <1>15
     DEF HandlerStep, AuditIn, AuditBreakStart, AuditOut, AuditSwitchOpen, Fail

\* What has ended stays ended, and only the handler that ended an entry puts that on record.
LEMMA EndsStay ==
  ASSUME HandInv, [Next]_vars, NEW e \in EntryIds
  PROVE  /\ Closed(e) => Closed(e)'
         /\ EndWritten(e)' => EndWritten(e) \/ \E r \in Requests : EndRow(r, e)
         /\ \A r \in Requests : EndRow(r, e) =>
              Closed(e) /\ pc[r] \notin Working /\ entries[e].emp = EmployeeOf[r]
<1>1. ASSUME NEW r \in Requests, EndedByHandler(r, e) PROVE Closed(e)'
  <2>1. pc[r] \in Stamped
    BY <1>1 DEF EndedByHandler, CloseEntry, At, Stamped
  <2>2. loc[r].at # Null
    BY <2>1 DEF HandInv, OverlapInv, ShiftInv, PunchInv, RequestOK
  <2>. QED  BY <1>1, <2>2 DEF EndedByHandler, Closed
<1>2. ASSUME EndedBySweep(e) PROVE Closed(e)'
  BY <1>2 DEF EndedBySweep, SweepCloseEntry, SweepAt, HandInv, OverlapInv, ShiftInv, PunchInv,
              SweepOK, Closed
<1>3. Closed(e) => Closed(e)'
  BY <1>1, <1>2, WhoEnds DEF HandInv, OverlapInv, EndKept, Closed
<1>4. EndWritten(e)' => EndWritten(e) \/ \E r \in Requests : EndRow(r, e)
  <2>1. e \in EntryIds'
    BY WhoEnds DEF HandInv, OverlapInv
  <2>. QED  BY <2>1, WhoRecords DEF HandInv
<1>5. ASSUME NEW r \in Requests, EndRow(r, e)
      PROVE  Closed(e) /\ pc[r] \notin Working /\ entries[e].emp = EmployeeOf[r]
  <2>1. e = loc[r].entry /\ pc[r] \in {"auditOut", "auditSwitchClose"}
    BY <1>5 DEF EndRow, AuditOut, AuditSwitchClose, At
  <2>2. HandOK(r) /\ HolderOK(r)
    BY DEF HandInv, RecordInv
  <2>. QED  BY <2>1, <2>2 DEF HandOK, HolderOK, Owns, HasEntry, Owed, Working, Stamped
<1>. QED  BY <1>3, <1>4, <1>5

\* An entry that has not ended has no end on record and was not the sweep's.
LEMMA UnendedNext ==
  ASSUME HandInv, [Next]_vars
  PROVE  Unended'
<1>. SUFFICES ASSUME NEW e \in EntryIds', ~Closed(e)'
              PROVE  ~entries'[e].edited /\ ~EndWritten(e)'
  BY DEF Unended
<1>1. CASE e \notin EntryIds
  BY <1>1, WhoEnds, WhoRecords DEF HandInv, OverlapInv
<1>2. CASE e \in EntryIds
  <2>1. ~Closed(e) /\ ~EndWritten(e)'
    BY <1>2, EndsStay DEF HandInv, Unended
  <2>2. ~entries[e].edited
    BY <1>2, <2>1 DEF HandInv, Unended
  <2>3. ~EndedBySweep(e)
    BY DEF EndedBySweep, SweepCloseEntry, SweepAt, HandInv, OverlapInv, ShiftInv, PunchInv,
           SweepOK, Closed
  <2>. QED  BY <1>2, <2>1, <2>2, <2>3, WhoEnds DEF HandInv, OverlapInv, EndKept, EndedByHandler
<1>. QED  BY <1>1, <1>2

\* A request that goes on with its entry, or is left alone, still knows what it knew.
LEMMA HandStays ==
  ASSUME OneRequestEach, HandInv, [Next]_vars, NEW s \in Requests,
         loc'[s].entry = loc[s].entry
  PROVE  /\ pc[s] \in Working => ~EndWritten(loc[s].entry)'
         /\ pc[s] \in Owed => Closed(loc[s].entry)'
<1>1. HandOK(s) /\ HolderOK(s)
  BY DEF HandInv, RecordInv
<1>2. PICK e : e = loc[s].entry
  OBVIOUS
<1>3. pc[s] \in Working \cup Owed => e \in EntryIds /\ entries[e].emp = EmployeeOf[s]
  BY <1>1, <1>2 DEF HolderOK, Owns, HasEntry, Working, Stamped, Owed
<1>4. ASSUME pc[s] \in Working PROVE ~EndWritten(e)'
  BY <1>1, <1>2, <1>3, <1>4, EndsStay DEF HandOK, OneRequestEach
<1>5. ASSUME pc[s] \in Owed PROVE Closed(e)'
  BY <1>1, <1>2, <1>3, <1>5, EndsStay DEF HandOK
<1>6. loc'[s].entry = e
  BY <1>2
<1>. QED  BY <1>2, <1>4, <1>5, <1>6

\* So every request knows what it has to, after every step ...
LEMMA HandNext ==
  ASSUME OneRequestEach, HandInv, [Next]_vars, NEW s \in Requests
  PROVE  HandOK(s)'
<1>1. CASE UNCHANGED <<pc, loc>>
  BY <1>1, HandStays DEF HandOK
<1>2. ASSUME NEW r \in Requests, ArriveAny(r) \/ HandlerStep(r) \/ Fail(r) PROVE HandOK(s)'
  <2>1. /\ OthersAlone(r)
        /\ pc'[r] \in Working =>
             \/ pc[r] \in Working /\ loc'[r].entry = loc[r].entry
             \/ UNCHANGED entries /\ loc'[r].entry \in OpenEntries(EmployeeOf[r])
        /\ pc'[r] \in Owed => loc'[r].entry = loc[r].entry /\ (CloseEntry(r) \/ pc[r] \in Owed)
    BY <1>2, HandMoves DEF HandInv
  <2>2. CASE s # r
    <3>1. pc'[s] = pc[s] /\ loc'[s] = loc[s]
      BY <2>1, <2>2 DEF OthersAlone
    <3>2. /\ pc[s] \in Working => ~EndWritten(loc[s].entry)'
          /\ pc[s] \in Owed => Closed(loc[s].entry)'
      BY <3>1, HandStays
    <3>. QED  BY <3>1, <3>2 DEF HandOK
  <2>3. CASE s = r
    <3>1. ASSUME pc'[r] \in Working PROVE ~EndWritten(loc[r].entry)'
      <4>1. CASE pc[r] \in Working /\ loc'[r].entry = loc[r].entry
        BY <4>1, HandStays
      <4>2. CASE UNCHANGED entries /\ loc'[r].entry \in OpenEntries(EmployeeOf[r])
        <5>1. PICK e : e = loc'[r].entry
          OBVIOUS
        <5>2. e \in EntryIds' /\ ~Closed(e)'
          BY <4>2, <5>1 DEF OpenEntries, EntryIds, Closed
        <5>3. ~EndWritten(e)'
          BY <5>2, UnendedNext DEF Unended
        <5>. QED  BY <5>1, <5>3
      <4>. QED  BY <2>1, <3>1, <4>1, <4>2
    <3>2. ASSUME pc'[r] \in Owed PROVE Closed(loc[r].entry)'
      <4>1. loc'[r].entry = loc[r].entry
        BY <2>1, <3>2
      <4>2. CASE pc[r] \in Owed
        BY <4>1, <4>2, HandStays
      <4>3. CASE CloseEntry(r)
        <5>1. PICK e : e = loc[r].entry
          OBVIOUS
        <5>2. pc[r] = "closeEntry" /\ e \in EntryIds
          BY <4>3, <5>1 DEF CloseEntry, At, HandInv, RecordInv, HolderOK, HasEntry, Owns
        <5>3. loc[r].at # Null
          BY <5>2 DEF HandInv, OverlapInv, ShiftInv, PunchInv, RequestOK, Stamped
        <5>4. entries' = [entries EXCEPT ![e].out = loc[r].at]
          BY <4>3, <5>1 DEF CloseEntry
        <5>5. DOMAIN entries[e] = Columns
          BY <5>2 DEF HandInv, RecordInv, RowsOK
        <5>6. Closed(e)'
          BY <5>2, <5>3, <5>4, <5>5 DEF Closed, EntryIds, Columns
        <5>. QED  BY <4>1, <5>1, <5>6
      <4>. QED  BY <2>1, <3>2, <4>2, <4>3
    <3>. QED  BY <2>3, <3>1, <3>2 DEF HandOK
  <2>. QED  BY <2>2, <2>3
<1>3. SweepStep \/ SweepFail \/ Tick \/ UNCHANGED vars => UNCHANGED <<pc, loc>>
  BY DEF SweepStep, SweepSelect, SweepEndBreaks, SweepCloseEntry, SweepAudit, SweepNotify,
         SweepFail, Tick, vars
<1>. QED  BY <1>1, <1>2, <1>3 DEF Next

\* ... and the sweep comes to each entry once.
LEMMA SweepFreshNext ==
  ASSUME HandInv, [Next]_vars
  PROVE  SweepFresh'
<1>1. sweep.left \subseteq EntryIds /\ (sweep.stage = "close" => sweep.entry \in EntryIds)
      /\ DOMAIN sweep = {"enabled", "stage", "at", "left", "entry"}
  BY DEF HandInv, RecordInv, SweepHolds, SweepIdle
<1>2. ASSUME NEW e \in EntryIds, ~entries[e].edited, ~EndedBySweep(e) PROVE ~entries'[e].edited
  BY <1>2, WhoEnds DEF HandInv, OverlapInv, EndKept, EndedByHandler
<1>3. ASSUME NEW e \in sweep.left PROVE ~entries'[e].edited
  <2>1. ~EndedBySweep(e)
    BY <1>3 DEF EndedBySweep, SweepCloseEntry, SweepAt, HandInv, SweepFresh
  <2>. QED  BY <1>1, <1>2, <1>3, <2>1 DEF HandInv, SweepFresh
<1>4. CASE UNCHANGED sweep
  <2>1. ~SweepCloseEntry
    BY <1>1, <1>4 DEF SweepCloseEntry, SweepAt, SweepGoto
  <2>2. sweep.stage = "close" => ~entries'[sweep.entry].edited
    BY <1>1, <1>2, <2>1 DEF EndedBySweep, HandInv, SweepFresh
  <2>. QED  BY <1>3, <1>4, <2>2 DEF HandInv, SweepFresh
<1>5. CASE SweepSelect
  <2>1. UNCHANGED entries /\ sweep'.stage = "next"
        /\ sweep'.left = {e \in DOMAIN entries : Overdue(e)}
    BY <1>1, <1>5 DEF SweepSelect, tables
  <2>2. \A e \in sweep'.left : ~entries[e].edited
    BY <2>1 DEF Overdue, HandInv, Unended, Closed, EntryIds
  <2>. QED  BY <2>1, <2>2 DEF SweepFresh
<1>6. ASSUME NEW f \in sweep.left, SweepEndBreaks(f) PROVE SweepFresh'
  <2>1. sweep'.entry = f /\ sweep'.left = sweep.left \ {f}
    BY <1>1, <1>6 DEF SweepEndBreaks
  <2>. QED  BY <1>3, <2>1 DEF SweepFresh
<1>7. CASE SweepCloseEntry \/ SweepAudit \/ SweepNotify \/ SweepFail
  <2>1. sweep'.stage # "close" /\ sweep'.left \subseteq sweep.left
    BY <1>1, <1>7 DEF SweepCloseEntry, SweepAudit, SweepNotify, SweepFail, SweepGoto, SweepEnds,
                      SweepIdle
  <2>. QED  BY <1>3, <2>1 DEF SweepFresh
<1>8. ASSUME NEW r \in Requests, ArriveAny(r) \/ HandlerStep(r) \/ Fail(r) PROVE UNCHANGED sweep
  BY <1>8, HandMoves DEF HandInv
<1>. QED  BY <1>4, <1>5, <1>6, <1>7, <1>8 DEF Next, SweepStep, Tick, vars

\* Nobody ends an entry whose end by a handler is on record, and the sweep none it has ended.
THEOREM HandInvariant ==
  ASSUME OneRequestEach
  PROVE  Spec => []HandInv
<1>1. ASSUME Init PROVE HandInv
  <2>1. OverlapInv
    BY <1>1, ShiftInit DEF Init, OverlapInv, Apart, EndedAll, EntryIds, InstantOK, Stamped
  <2>2. RecordInv
    BY <1>1, RecordInit
  <2>3. EntryIds = {} /\ sweep.left = {} /\ sweep.stage = "idle"
    BY <1>1 DEF Init, EntryIds, SweepIdle
  <2>4. \A r \in Requests : HandOK(r)
    BY <1>1 DEF Init, HandOK, Working, Stamped, Owed
  <2>. QED  BY <2>1, <2>2, <2>3, <2>4 DEF HandInv, SweepFresh, Unended
<1>2. ASSUME HandInv, [Next]_vars PROVE HandInv'
  <2>1. OverlapInv' /\ RecordInv'
    BY <1>2, OverlapNext, RecordNext DEF HandInv
  <2>. QED  BY <1>2, <2>1, HandNext, SweepFreshNext, UnendedNext DEF HandInv
<1>. QED  BY <1>1, <1>2, PTL DEF Spec

\* An ended shift moves only where the sweep and the employee meet: the sweep ends no entry
\* twice, a handler ends an ended entry only if the sweep had ended it and no handler's end is
\* on record (clock.ts, auto-clockout.ts).
THEOREM EndOfShiftStands ==
  ASSUME OneRequestEach
  PROVE  Spec => EndOfShiftKept
<1>1. HandInv /\ [Next]_vars =>
        [\A e \in EntryIds :
           Closed(e) /\ entries'[e].out # entries[e].out =>
             IF entries[e].edited THEN UNCHANGED sweep /\ ~EndWritten(e)
             ELSE entries'[e].edited]_vars
  <2>1. SUFFICES ASSUME HandInv, [Next]_vars, NEW e \in EntryIds, Closed(e),
                        entries'[e].out # entries[e].out
                 PROVE  IF entries[e].edited THEN UNCHANGED sweep /\ ~EndWritten(e)
                        ELSE entries'[e].edited
    OBVIOUS
  <2>2. ASSUME NEW r \in Requests, EndedByHandler(r, e)
        PROVE  entries[e].edited /\ UNCHANGED sweep /\ ~EndWritten(e)
    <3>1. pc[r] \in Working /\ e = loc[r].entry /\ UNCHANGED sweep
      BY <2>2 DEF EndedByHandler, CloseEntry, At, Working, Stamped
    <3>2. ShiftOK(r) /\ HandOK(r)
      BY <2>1 DEF HandInv, OverlapInv, ShiftInv
    <3>. QED  BY <2>1, <3>1, <3>2 DEF ShiftOK, HandOK, Running, Closed
  <2>3. ASSUME EndedBySweep(e) PROVE ~entries[e].edited /\ entries'[e].edited
    BY <2>1, <2>3 DEF EndedBySweep, SweepCloseEntry, SweepAt, HandInv, SweepFresh
  <2>4. ~EndKept(e)
    BY <2>1 DEF EndKept
  <2>. QED  BY <2>1, <2>2, <2>3, <2>4, WhoEnds DEF HandInv, OverlapInv
<1>. QED  BY <1>1, HandInvariant, PTL DEF Spec, EndOfShiftKept

\* A handler starts break b on entry e.
StartsBreak(r, e, b) == InsertBreak(r) /\ e = loc[r].entry /\ breaks'[b].start = now

\* No other step leaves a break running that was not, or moves its start.
LEMMA WhoBreaks ==
  ASSUME PunchInv, [Next]_vars, NEW e, NEW b \in OpenBreaks(e)'
  PROVE  \/ b \in OpenBreaks(e) /\ breaks'[b].start = breaks[b].start
         \/ \E r \in Requests : StartsBreak(r, e, b)
<1>1. CASE UNCHANGED breaks
  BY <1>1 DEF OpenBreaks, BreaksOf
<1>2. PICK Starts : breaks \in Seq(BreakRows(Starts))
  BY DEF PunchInv, TablesOK
<1>3. \A c \in BreakIds : breaks[c] \in BreakRows(Starts)
  BY <1>2 DEF BreakIds
<1>4. ASSUME NEW row, breaks' = Append(breaks, row), b \in BreakIds
      PROVE  b \in OpenBreaks(e) /\ breaks'[b].start = breaks[b].start
  BY <1>4, NewBreakRow DEF OpenBreaks, BreaksOf, BreakIds
<1>5. ASSUME NEW r \in Requests, InsertBreak(r), b \notin BreakIds PROVE StartsBreak(r, e, b)
  <2>1. PICK row : /\ breaks' = Append(breaks, row) /\ row.start = now /\ row.entry = loc[r].entry
    BY <1>5 DEF InsertBreak, NewBreak
  <2>2. breaks'[b] = row /\ breaks'[b].entry = e
    BY <1>5, <2>1, NewBreakRow DEF OpenBreaks, BreaksOf, BreakIds
  <2>. QED  BY <1>5, <2>1, <2>2 DEF StartsBreak
<1>6. ASSUME NEW r \in Requests, InsertDeduct(r) PROVE b \in BreakIds
  <2>1. PICK row : breaks' = Append(breaks, row) /\ row.end = loc[r].at
    BY <1>6 DEF InsertDeduct, NewBreak
  <2>2. loc[r].at # Null
    BY <1>6 DEF InsertDeduct, At, PunchInv, RequestOK, Stamped
  <2>. QED  BY <2>1, <2>2, NewBreakRow DEF OpenBreaks, BreaksOf, BreakIds
<1>7. ASSUME NEW r \in Requests, EndBreak(r)
      PROVE  b \in OpenBreaks(e) /\ breaks'[b].start = breaks[b].start
  <2>1. PICK c, row : /\ c = loc[r].brk /\ row = [breaks[c] EXCEPT !.end = loc[r].at]
                      /\ breaks' = [breaks EXCEPT ![c] = row]
    BY <1>7 DEF EndBreak
  <2>2. loc[r].at # Null
    BY <1>7 DEF EndBreak, At, PunchInv, RequestOK, Stamped
  <2>3. b \in BreakIds
    BY <2>1 DEF OpenBreaks, BreaksOf, BreakIds
  <2>4. b # c
    BY <1>3, <2>1, <2>2, <2>3 DEF OpenBreaks, BreaksOf, BreakIds, BreakRows
  <2>. QED  BY <2>1, <2>3, <2>4 DEF OpenBreaks, BreaksOf, BreakIds
<1>8. ASSUME NEW f, SweepEndBreaks(f)
      PROVE  b \in OpenBreaks(e) /\ breaks'[b].start = breaks[b].start
  <2>1. BreakIds' = BreakIds /\ \A c \in BreakIds :
          breaks'[c] = IF c \in OpenBreaks(f) THEN [breaks[c] EXCEPT !.end = sweep.at] ELSE breaks[c]
    BY <1>8 DEF SweepEndBreaks, BreakIds
  <2>2. sweep.at # Null
    BY <1>8 DEF SweepEndBreaks, SweepAt, PunchInv, SweepOK
  <2>3. b \in BreakIds
    BY <2>1 DEF OpenBreaks, BreaksOf, BreakIds
  <2>4. b \notin OpenBreaks(f)
    BY <1>3, <2>1, <2>2, <2>3 DEF OpenBreaks, BreaksOf, BreakIds, BreakRows
  <2>. QED  BY <2>1, <2>3, <2>4 DEF OpenBreaks, BreaksOf, BreakIds
<1>9. ASSUME NEW r \in Requests, InsertBreak(r) \/ InsertDeduct(r) PROVE \E row : breaks' = Append(breaks, row)
  BY <1>9 DEF InsertBreak, InsertDeduct
<1>10. ASSUME NEW r \in Requests, ArriveAny(r) \/ HandlerStep(r) \/ Fail(r)
       PROVE  UNCHANGED breaks \/ InsertBreak(r) \/ InsertDeduct(r) \/ EndBreak(r)
  BY <1>10 DEF ArriveAny, Arrive, HandlerStep, FindOpen, CheckCooldown, CheckPunch, InsertEntry,
      FlagPhoto, AuditIn, FindBreak, AuditBreakStart, AuditBreakEnd, ReadBreaks, AuditDeduct,
      CloseEntry, AuditOut, InsertNext, AuditSwitchClose, AuditSwitchOpen, Fail, tables
<1>11. ASSUME SweepStep \/ SweepFail \/ Tick \/ UNCHANGED vars
       PROVE  UNCHANGED breaks \/ \E f \in sweep.left : SweepEndBreaks(f)
  BY <1>11 DEF SweepStep, SweepSelect, SweepCloseEntry, SweepAudit, SweepNotify, SweepFail, Tick,
      vars, tables
<1>. QED  BY <1>1, <1>4, <1>5, <1>6, <1>7, <1>8, <1>9, <1>10, <1>11 DEF Next

\* No shift ends in the future, and a break that runs on an entry whose breaks the sweep has
\* ended started since the sweep read the clock.
EndsByNow == \A e \in EntryIds : Closed(e) => entries[e].out <= now
SweepClock ==
  /\ sweep.at <= now
  /\ sweep.stage = "close" =>
       \A b \in OpenBreaks(sweep.entry) : breaks[b].start >= sweep.at

LateBreaksInv == EndsByNow /\ SweepClock /\ NoBreakOutlivesShift

\* The clock and the instants handlers and the sweep have in hand.
LEMMA Clocks ==
  ASSUME OverlapInv, [Next]_vars, sweep.at <= now
  PROVE  /\ now \in Nat /\ now' \in Nat /\ now <= now' /\ sweep.at \in Nat
         /\ \A r \in Requests : CloseEntry(r) => loc[r].at \in Nat /\ loc[r].at <= now
         /\ \A e \in EntryIds : entries[e].out \in Nat
<1>1. now \in Nat /\ (\A e \in EntryIds : entries[e].out \in Nat) /\ sweep.at \in Nat
      /\ \A r \in Requests : loc[r].at \in Nat
  BY TimesAreNumbers DEF OverlapInv, ShiftInv, PunchInv, SweepOK
<1>2. now' = now \/ now' = now + 1
  BY DEF Next, ArriveAny, Arrive, HandlerStep, FindOpen, CheckCooldown, CheckPunch, InsertEntry,
      FlagPhoto, AuditIn, FindBreak, InsertBreak, AuditBreakStart, EndBreak, AuditBreakEnd,
      ReadBreaks, InsertDeduct, AuditDeduct, CloseEntry, AuditOut, InsertNext, AuditSwitchClose,
      AuditSwitchOpen, Fail, SweepStep, SweepSelect, SweepEndBreaks, SweepCloseEntry, SweepAudit,
      SweepNotify, SweepFail, Tick, vars
<1>3. ASSUME NEW r \in Requests, CloseEntry(r) PROVE loc[r].at <= now
  BY <1>3 DEF CloseEntry, At, OverlapInv, InstantOK, Stamped
<1>. QED  BY <1>1, <1>2, <1>3

\* Ends stay in the past ...
LEMMA EndsByNowNext ==
  ASSUME OverlapInv, RecordInv, EndsByNow, sweep.at <= now, [Next]_vars
  PROVE  EndsByNow'
<1>. SUFFICES ASSUME NEW e \in EntryIds', Closed(e)'
              PROVE  entries'[e].out <= now'
  BY DEF EndsByNow
<1>1. e \in EntryIds
  BY WhoEnds DEF OverlapInv, Closed
<1>2. CASE EndKept(e)
  BY <1>1, <1>2, Clocks DEF EndKept, EndsByNow, Closed
<1>3. ASSUME NEW r \in Requests, EndedByHandler(r, e) PROVE entries'[e].out <= now'
  BY <1>3, Clocks DEF EndedByHandler
<1>4. CASE EndedBySweep(e)
  BY <1>4, Clocks DEF EndedBySweep
<1>. QED  BY <1>1, <1>2, <1>3, <1>4, WhoEnds DEF OverlapInv

\* ... breaks the sweep has not ended are younger than its clock ...
LEMMA SweepClockNext ==
  ASSUME OverlapInv, RecordInv, SweepClock, [Next]_vars
  PROVE  SweepClock'
<1>1. /\ now \in Nat /\ now' \in Nat /\ now <= now' /\ sweep.at \in Nat /\ sweep.at <= now
      /\ DOMAIN sweep = {"enabled", "stage", "at", "left", "entry"}
  BY Clocks DEF SweepClock, RecordInv, SweepHolds, SweepIdle
<1>2. CASE UNCHANGED sweep
  <2>1. PICK f : f = sweep.entry
    OBVIOUS
  <2>2. ASSUME sweep.stage = "close", NEW b \in OpenBreaks(f)'
        PROVE  breaks'[b].start >= sweep.at
    <3>1. CASE b \in OpenBreaks(f) /\ breaks'[b].start = breaks[b].start
      BY <2>1, <2>2, <3>1 DEF SweepClock
    <3>2. CASE breaks'[b].start = now
      BY <1>1, <3>2
    <3>. QED  BY <2>2, <3>1, <3>2, WhoBreaks DEF OverlapInv, ShiftInv, StartsBreak
  <2>3. sweep'.entry = f /\ sweep'.at = sweep.at /\ sweep'.stage = sweep.stage
    BY <1>2, <2>1
  <2>4. sweep'.stage = "close" =>
          \A b \in OpenBreaks(sweep.entry)' : breaks'[b].start >= sweep'.at
    BY <2>2, <2>3
  <2>5. sweep'.at <= now'
    BY <1>1, <2>3
  <2>. QED  BY <2>4, <2>5 DEF SweepClock
<1>3. ASSUME NEW f \in sweep.left, SweepEndBreaks(f) PROVE SweepClock'
  <2>1. sweep'.at = sweep.at /\ sweep'.entry = f /\ now' = now
    BY <1>1, <1>3 DEF SweepEndBreaks
  <2>2. sweep.at # Null
    BY <1>3 DEF SweepEndBreaks, SweepAt, OverlapInv, ShiftInv, PunchInv, SweepOK
  <2>3. OpenBreaks(f)' = {}
    <3>1. PICK Starts : breaks \in Seq(BreakRows(Starts))
      BY DEF OverlapInv, ShiftInv, PunchInv, TablesOK
    <3>2. \A b \in BreakIds : breaks[b] \in BreakRows(Starts)
      BY <3>1 DEF BreakIds
    <3>3. BreakIds' = BreakIds /\ \A b \in BreakIds :
            breaks'[b] = IF b \in OpenBreaks(f) THEN [breaks[b] EXCEPT !.end = sweep.at] ELSE breaks[b]
      BY <1>3 DEF SweepEndBreaks, BreakIds
    <3>4. SUFFICES ASSUME NEW b \in OpenBreaks(f)' PROVE FALSE
      OBVIOUS
    <3>5. b \in BreakIds
      BY <3>3 DEF OpenBreaks, BreaksOf, BreakIds
    <3>. QED  BY <2>2, <3>2, <3>3, <3>4, <3>5 DEF OpenBreaks, BreaksOf, BreakIds, BreakRows
  <2>4. \A b \in OpenBreaks(sweep.entry)' : breaks'[b].start >= sweep'.at
    BY <2>1, <2>3
  <2>5. sweep'.at <= now'
    BY <1>1, <2>1
  <2>. QED  BY <2>4, <2>5 DEF SweepClock
<1>4. CASE SweepSelect \/ SweepCloseEntry \/ SweepAudit \/ SweepNotify \/ SweepFail
  <2>1. sweep'.stage # "close" /\ sweep'.at \in {sweep.at, now, Null}
    <3>1. CASE SweepSelect
      BY <1>1, <3>1 DEF SweepSelect
    <3>2. CASE SweepCloseEntry \/ SweepAudit
      BY <1>1, <3>2 DEF SweepCloseEntry, SweepAudit, SweepGoto
    <3>3. CASE SweepEnds
      BY <3>3 DEF SweepEnds, SweepIdle
    <3>4. CASE sweep' = [sweep EXCEPT !.stage = "next", !.entry = Null]
      BY <1>1, <3>4
    <3>. QED  BY <1>4, <3>1, <3>2, <3>3, <3>4 DEF SweepNotify, SweepFail
  <2>. QED  BY <1>1, <2>1 DEF SweepClock, Null
<1>5. ASSUME NEW r \in Requests, ArriveAny(r) \/ HandlerStep(r) \/ Fail(r) PROVE UNCHANGED sweep
  BY <1>5, HandMoves
<1>. QED  BY <1>2, <1>3, <1>4, <1>5 DEF Next, SweepStep, Tick, vars

\* ... and so is what is left running on an ended shift than its end.
LEMMA LateBreaksNext ==
  ASSUME OverlapInv, RecordInv, LateBreaksInv, [Next]_vars
  PROVE  NoBreakOutlivesShift'
<1>. SUFFICES ASSUME NEW e \in EntryIds', Closed(e)', NEW b \in OpenBreaks(e)'
              PROVE  entries'[e].edited /\ breaks'[b].start >= entries'[e].out
  BY DEF NoBreakOutlivesShift
<1>1. e \in EntryIds
  BY WhoEnds DEF OverlapInv, Closed
<1>2. \/ b \in OpenBreaks(e) /\ breaks'[b].start = breaks[b].start
      \/ \E r \in Requests : StartsBreak(r, e, b)
  BY WhoBreaks DEF OverlapInv, ShiftInv
<1>3. CASE EndKept(e)
  <2>1. Closed(e)
    BY <1>3 DEF EndKept, Closed
  <2>2. CASE b \in OpenBreaks(e) /\ breaks'[b].start = breaks[b].start
    BY <1>1, <1>3, <2>1, <2>2 DEF LateBreaksInv, NoBreakOutlivesShift, EndKept
  <2>3. ASSUME NEW r \in Requests, StartsBreak(r, e, b)
        PROVE  entries'[e].edited /\ breaks'[b].start >= entries'[e].out
    <3>1. Running(e)
      BY <2>3 DEF StartsBreak, InsertBreak, At, OverlapInv, ShiftInv, ShiftOK, Working
    <3>2. entries[e].out <= now /\ entries[e].out \in Nat /\ now \in Nat
      BY <1>1, <2>1, Clocks DEF LateBreaksInv, EndsByNow, SweepClock
    <3>. QED  BY <1>3, <2>1, <2>3, <3>1, <3>2 DEF Running, Closed, StartsBreak, EndKept
  <2>. QED  BY <1>2, <2>2, <2>3
<1>4. ASSUME NEW r \in Requests, EndedByHandler(r, e) PROVE FALSE
  <2>1. OpenBreaks(e) = {}
    BY <1>4 DEF EndedByHandler, CloseEntry, At, OverlapInv, ShiftInv, ShiftOK, Settled
  <2>2. UNCHANGED breaks
    BY <1>4 DEF EndedByHandler, CloseEntry
  <2>. QED  BY <2>1, <2>2 DEF OpenBreaks, BreaksOf
<1>5. CASE EndedBySweep(e)
  <2>1. UNCHANGED breaks /\ sweep.stage = "close" /\ e = sweep.entry
    BY <1>5 DEF EndedBySweep, SweepCloseEntry, SweepAt
  <2>2. b \in OpenBreaks(sweep.entry) /\ breaks'[b].start = breaks[b].start
    BY <2>1 DEF OpenBreaks, BreaksOf
  <2>. QED  BY <1>5, <2>1, <2>2 DEF EndedBySweep, LateBreaksInv, SweepClock
<1>. QED  BY <1>1, <1>3, <1>4, <1>5, WhoEnds DEF OverlapInv

\* A break left running on an ended shift was started while the sweep ended it, no earlier
\* than the instant the shift ended, also when a clock-out or the sweep fails half-way
\* (clock.ts, auto-clockout.ts).
THEOREM NoBreakEverOutlives ==
  ASSUME OneRequestEach
  PROVE  Spec => []NoBreakOutlivesShift
<1>1. ASSUME Init PROVE OverlapInv /\ RecordInv /\ LateBreaksInv
  <2>1. OverlapInv
    BY <1>1, ShiftInit DEF Init, OverlapInv, Apart, EndedAll, EntryIds, InstantOK, Stamped
  <2>2. EntryIds = {} /\ sweep.stage = "idle" /\ sweep.at <= now
    BY <1>1 DEF Init, EntryIds, SweepIdle, Null
  <2>. QED  BY <1>1, <2>1, <2>2, RecordInit
            DEF LateBreaksInv, EndsByNow, SweepClock, NoBreakOutlivesShift
<1>2. ASSUME OverlapInv /\ RecordInv /\ LateBreaksInv, [Next]_vars
      PROVE  (OverlapInv /\ RecordInv /\ LateBreaksInv)'
  <2>1. OverlapInv' /\ RecordInv'
    BY <1>2, OverlapNext, RecordNext
  <2>2. sweep.at <= now
    BY <1>2 DEF LateBreaksInv, SweepClock
  <2>3. EndsByNow' /\ SweepClock' /\ NoBreakOutlivesShift'
    BY <1>2, <2>2, EndsByNowNext, SweepClockNext, LateBreaksNext DEF LateBreaksInv
  <2>. QED  BY <2>1, <2>3 DEF LateBreaksInv
<1>3. LateBreaksInv => NoBreakOutlivesShift
  BY DEF LateBreaksInv
<1>. QED  BY <1>1, <1>2, <1>3, PTL DEF Spec
=============================================================================
