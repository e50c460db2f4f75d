---------------------------- MODULE RecordsProofs -----------------------------
(***************************************************************************)
(* Pay and leave, for any number of employees, shifts, bonuses, leave      *)
(* requests and requests in progress.  Pay: however batches overlap, what  *)
(* a shift was paid is in the audit log; and with one batch at a time,     *)
(* amounts are those of the moment and stay, and the log tells what a      *)
(* shift and a bonus are.  Leave: however requests overlap, the audit log  *)
(* adds up to the balances; and with one at a time, a leave is decided,    *)
(* deducted and told of once and within the balance, and a shift is        *)
(* credited once.  Pay periods: while nothing is set, they tile time.      *)
(* Payroll: the rules, the timesheet, the dashboard and the holidays keep  *)
(* to what they are for, whatever they are asked.                          *)
(***************************************************************************)
EXTENDS Records, Sums, SequenceTheorems, TLAPS

-----------------------------------------------------------------------------
(* The shifts and the employees *)

LEMMA ShiftsStart ==
  ASSUME ShiftsInit
  PROVE  ShiftsTypeOK
<1>1. people \in [Staff -> [active : BOOLEAN, tracked : BOOLEAN, rate : {Null} \cup Rates]]
  <2>1. [active : {TRUE}, tracked : {TRUE}, rate : {Null} \cup Rates]
          \subseteq [active : BOOLEAN, tracked : BOOLEAN, rate : {Null} \cup Rates]
    OBVIOUS
  <2>. QED  BY <2>1 DEF ShiftsInit, Hired
<1>2. shifts \in [Shifts -> [out : {Null} \cup Times, minutes : {0} \cup Minutes,
                             edited : BOOLEAN]]
  BY DEF ShiftsInit
<1>3. /\ now \in Times /\ requests \in 0..MaxRequests /\ changes \in 0..MaxChanges
      /\ failures \in 0..MaxFailures
  BY BoundsAssumption DEF ShiftsInit, Times
<1>. QED  BY <1>1, <1>2, <1>3 DEF ShiftsTypeOK

\* What becomes of a shift: it ends, or it is edited when it has ended.
ShiftsMove ==
  \A s \in Shifts : shifts'[s] # shifts[s] =>
    shifts'[s].out # Null /\ shifts'[s].edited = (shifts[s].out # Null)

LEMMA ElsewhereShifts ==
  ASSUME ShiftsTypeOK, Elsewhere
  PROVE  /\ ShiftsTypeOK' /\ now <= now' /\ UNCHANGED <<pc, overlap, failures, cutShort>>
         /\ overlap \/ Idle \/ UNCHANGED rows
         /\ ShiftsMove
<1>1. CASE Tick
  <2>1. ShiftsTypeOK' /\ now <= now'
    BY <1>1, BoundsAssumption DEF Tick, rows, bounds, ShiftsTypeOK, Times
  <2>. QED  BY <1>1, <2>1 DEF Tick, rows, bounds, ShiftsMove
<1>2. ASSUME Change PROVE now' \in Times /\ now <= now' /\ changes' \in 0..MaxChanges
  BY <1>2, BoundsAssumption DEF Change, ShiftsTypeOK, Times
<1>3. ASSUME NEW s \in Shifts, NEW out \in 1..now, NEW minutes \in Minutes,
             EndShift(s, out, minutes) \/ EditShift(s, out, minutes)
      PROVE  /\ ShiftsTypeOK' /\ now <= now' /\ UNCHANGED <<pc, overlap, failures, cutShort>>
             /\ overlap \/ Idle
             /\ ShiftsMove
  <2>1. PICK edited \in BOOLEAN :
          /\ shifts' = [shifts EXCEPT ![s] = [out |-> out, minutes |-> minutes, edited |-> edited]]
          /\ edited = (shifts[s].out # Null)
    BY <1>3 DEF EndShift, EditShift
  <2>2. Change /\ UNCHANGED people
    BY <1>3 DEF EndShift, EditShift
  <2>3. out \in Times /\ out # Null
    BY BoundsAssumption DEF ShiftsTypeOK, Times, Null
  <2>4. shifts' \in [Shifts -> [out : {Null} \cup Times, minutes : {0} \cup Minutes,
                                edited : BOOLEAN]]
    BY <2>1, <2>3 DEF ShiftsTypeOK
  <2>5. ShiftsTypeOK'
    BY <1>2, <2>2, <2>4 DEF Change, ShiftsTypeOK
  <2>6. ShiftsMove
    BY <2>1, <2>3 DEF ShiftsMove, ShiftsTypeOK
  <2>. QED  BY <1>2, <2>2, <2>5, <2>6 DEF Change
<1>4. ASSUME NEW who \in Staff,
             NEW row \in [active : BOOLEAN, tracked : BOOLEAN, rate : {Null} \cup Rates],
             ChangeEmployee(who, row)
      PROVE  /\ ShiftsTypeOK' /\ now <= now' /\ UNCHANGED <<pc, overlap, failures, cutShort>>
             /\ overlap \/ Idle
             /\ ShiftsMove
  <2>1. people' \in [Staff -> [active : BOOLEAN, tracked : BOOLEAN, rate : {Null} \cup Rates]]
    BY <1>4 DEF ShiftsTypeOK, ChangeEmployee
  <2>2. ShiftsTypeOK'
    BY <1>2, <1>4, <2>1 DEF Change, ChangeEmployee, ShiftsTypeOK
  <2>. QED  BY <1>2, <1>4, <2>2 DEF Change, ChangeEmployee, ShiftsMove
<1>. QED  BY <1>1, <1>3, <1>4 DEF Elsewhere

-----------------------------------------------------------------------------
(* The inductive invariant of pay *)

PaidMark == [rate : Int, cents : Int]
MarkRow == [action : {"pay", "unpay"}, cents : Int]
BonusRow == [who : Staff \cup {Null}, paid : BOOLEAN, voided : BOOLEAN]
Batches == {"pay", "unpay"}

\* What pay changes has its types.
PayTypeOK ==
  /\ paid \in [Shifts -> PaidMark]
  /\ bonuses \in [BonusIds -> BonusRow]
  /\ shiftTrail \in [Shifts -> Seq(MarkRow)]
  /\ bonusTrail \in [BonusIds -> Seq(Batches \cup {"grant", "void"})]

ShapeOK ==
  /\ ShiftsTypeOK /\ PayTypeOK
  /\ DOMAIN pc = Requests /\ DOMAIN batch = Requests
  /\ overlap \in BOOLEAN

\* What a handler has in hand at its statements.
Working == {"readBatch", "readPeople", "markShift", "auditShift", "markBonus"}
HasRead == {"readPeople", "markShift", "auditShift"}
HasPeople == {"markShift", "auditShift"}

WorkOK(r) ==
  /\ DOMAIN batch[r] = DOMAIN NoBatch
  /\ pc[r] = "idle" => batch[r] = NoBatch
  /\ batch[r].shifts \subseteq Shifts /\ batch[r].bonuses \subseteq BonusIds
  /\ pc[r] \in Working => For(r, Batches)
  /\ pc[r] = "auditShift" => batch[r].item \in Shifts /\ batch[r].cents \in Int
  /\ pc[r] \in {"readGrantee", "insertBonus"} =>
       For(r, {"grant"}) /\ batch[r].who \in Staff /\ batch[r].bonuses = {}
  /\ pc[r] \in {"readBonus", "setVoided"} =>
       For(r, {"void"}) /\ batch[r].item \in BonusIds /\ batch[r].bonuses = {}
  /\ pc[r] = "auditBonus" =>
       /\ batch[r].item \in BonusIds
       /\ \/ For(r, Batches)
          \/ For(r, {"grant", "void"}) /\ batch[r].bonuses = {}

\* What a batch has read has its types.
ReadOK(r) ==
  /\ pc[r] \in HasRead => \A s \in batch[r].shifts :
       batch[r].read[s].minutes \in Int /\ batch[r].paidThen[s] \in PaidMark
  /\ pc[r] \in HasPeople => \A s \in batch[r].shifts : batch[r].people[Owner[s]].rate \in Int

\* With one request in progress, what it has read is still so.
FreshOK(r) ==
  /\ pc[r] \in HasRead => \A s \in batch[r].shifts :
       batch[r].read[s] = shifts[s] /\ batch[r].paidThen[s] = paid[s]
  /\ pc[r] \in HasPeople => \A s \in batch[r].shifts :
       batch[r].people[Owner[s]] = people[Owner[s]]
  /\ pc[r] \in {"markBonus", "auditBonus"} => \A b \in batch[r].bonuses :
       batch[r].read[b] = bonuses[b]
  /\ pc[r] = "setVoided" => ~bonuses[batch[r].item].voided /\ ~bonuses[batch[r].item].paid

AloneOK == \A r, q \in Requests : pc[r] # "idle" /\ pc[q] # "idle" => r = q

\* The request whose audit row of a shift, or of a bonus, is yet to come.
MarkingShift(r, s) == pc[r] = "auditShift" /\ batch[r].item = s
MarkingBonus(r, b) == pc[r] = "auditBonus" /\ batch[r].item = b

\* A paid amount is on record, or its own audit row is the next statement.
Recorded(s) ==
  \E k \in DOMAIN shiftTrail[s] :
    shiftTrail[s][k] = [action |-> "pay", cents |-> paid[s].cents]
Recording(r, s) == MarkingShift(r, s) /\ For(r, {"pay"}) /\ batch[r].cents = paid[s].cents
PaidKnown(s) == paid[s] # Unpaid => Recorded(s) \/ \E r \in Requests : Recording(r, s)

\* The log of a shift ends with its mark, and each row that takes a mark away follows the
\* row that made it.
EndsWith(trail, row) == trail # <<>> /\ trail[Len(trail)] = row
Chained(trail) ==
  \A k \in DOMAIN trail : trail[k].action = "unpay" =>
    k > 1 /\ trail[k - 1] = [action |-> "pay", cents |-> trail[k].cents]
Settled(s) ==
  IF paid[s] = Unpaid THEN shiftTrail[s] = <<>> \/ shiftTrail[s][Len(shiftTrail[s])].action = "unpay"
  ELSE EndsWith(shiftTrail[s], [action |-> "pay", cents |-> paid[s].cents])
Marked(r, s) ==
  IF For(r, {"pay"}) THEN paid[s] # Unpaid /\ batch[r].cents = paid[s].cents
  ELSE paid[s] = Unpaid /\ EndsWith(shiftTrail[s], [action |-> "pay", cents |-> batch[r].cents])
ShiftFits(s) ==
  /\ Chained(shiftTrail[s])
  /\ (\A r \in Requests : ~MarkingShift(r, s)) => Settled(s)
  /\ \A r \in Requests : MarkingShift(r, s) => Marked(r, s)

\* The log of a bonus ends with what was done to it last.
Tells(kind, b) ==
  /\ kind = "pay" => bonuses[b].paid /\ ~bonuses[b].voided
  /\ kind = "void" => bonuses[b].voided /\ ~bonuses[b].paid
  /\ kind \in {"grant", "unpay"} => ~bonuses[b].paid /\ ~bonuses[b].voided
BonusFits(b) ==
  bonuses[b] # NoBonus =>
    /\ (\A r \in Requests : ~MarkingBonus(r, b)) =>
         bonusTrail[b] # <<>> /\ Tells(bonusTrail[b][Len(bonusTrail[b])], b)
    /\ \A r \in Requests : MarkingBonus(r, b) => Tells(batch[r].kind, b)

TablesFit ==
  /\ \A s \in Shifts \ cutShort : PaidKnown(s)
  /\ ~overlap => /\ \A s \in Shifts \ cutShort : ShiftFits(s)
                 /\ \A b \in BonusIds \ cutShort : BonusFits(b)

PayInv ==
  /\ ShapeOK
  /\ \A r \in Requests : WorkOK(r) /\ ReadOK(r)
  /\ ~overlap => AloneOK /\ \A r \in Requests : FreshOK(r)
  /\ TablesFit

\* The other desks leave pay as it was at the start.
Blank ==
  /\ paid = [s \in Shifts |-> Unpaid] /\ shiftTrail = [s \in Shifts |-> <<>>]
  /\ bonuses = [b \in BonusIds |-> NoBonus] /\ bonusTrail = [b \in BonusIds |-> <<>>]

PayDeskInv == IF desk = "pay" THEN PayInv ELSE Blank

-----------------------------------------------------------------------------
(* What steps have in common *)

OthersAlone(r) ==
  /\ DOMAIN pc' = Requests /\ DOMAIN batch' = Requests
  /\ \A q \in Requests \ {r} : pc'[q] = pc[q] /\ batch'[q] = batch[q]

\* A request goes to a statement, and no other request is touched.
LEMMA Goes ==
  ASSUME ShapeOK, NEW r \in Requests, NEW stage, Goto(r, stage),
         DOMAIN batch' = Requests, \A q \in Requests \ {r} : batch'[q] = batch[q]
  PROVE  OthersAlone(r) /\ pc'[r] = stage
BY DEF ShapeOK, Goto, OthersAlone

\* A request that is done has nothing in hand.
LEMMA RestOK ==
  ASSUME ShapeOK, NEW r \in Requests, Done(r)
  PROVE  OthersAlone(r) /\ pc'[r] = "idle" /\ (WorkOK(r) /\ ReadOK(r) /\ FreshOK(r))'
<1>1. batch'[r] = NoBatch /\ DOMAIN batch' = Requests
      /\ \A q \in Requests \ {r} : batch'[q] = batch[q]
  BY DEF Done, ShapeOK
<1>2. OthersAlone(r) /\ pc'[r] = "idle"
  BY <1>1, Goes DEF Done
<1>. QED  BY <1>1, <1>2 DEF NoBatch, WorkOK, ReadOK, FreshOK, Working, HasRead, HasPeople

\* Without overlap the other requests are idle.
LEMMA InProgressAlone ==
  ASSUME PayInv, NEW r \in Requests, pc[r] # "idle", ~overlap
  PROVE  \A q \in Requests \ {r} : pc[q] = "idle"
BY DEF PayInv, AloneOK

\* A statement of one request keeps the invariant if it keeps what that request has in hand
\* and what the tables say.
LEMMA StepPreserves ==
  ASSUME PayInv, NEW r \in Requests, pc[r] # "idle", OthersAlone(r), Undisturbed,
         PayTypeOK', WorkOK(r)', ReadOK(r)', ~overlap => FreshOK(r)', TablesFit'
  PROVE  PayInv'
<1>1. ShapeOK'
  BY DEF PayInv, ShapeOK, ShiftsTypeOK, OthersAlone, Undisturbed, rows, bounds
<1>2. ASSUME NEW q \in Requests PROVE WorkOK(q)' /\ ReadOK(q)'
  <2>1. CASE q = r
    BY <2>1
  <2>2. CASE q # r
    <3>1. WorkOK(q) /\ ReadOK(q) /\ pc'[q] = pc[q] /\ batch'[q] = batch[q]
      BY <2>2 DEF PayInv, OthersAlone
    <3>. QED  BY <3>1 DEF WorkOK, ReadOK, For
  <2>. QED  BY <2>1, <2>2
<1>3. ASSUME ~overlap' PROVE AloneOK' /\ \A q \in Requests : FreshOK(q)'
  <2>1. ~overlap
    BY <1>3 DEF Undisturbed, bounds
  <2>2. \A q \in Requests \ {r} : pc'[q] = "idle"
    BY <2>1, InProgressAlone DEF OthersAlone
  <2>3. AloneOK'
    BY <2>2 DEF AloneOK
  <2>4. ASSUME NEW q \in Requests PROVE FreshOK(q)'
    <3>1. CASE q = r
      BY <2>1, <3>1
    <3>2. CASE q # r
      BY <2>2, <3>2 DEF FreshOK, HasRead, HasPeople
    <3>. QED  BY <3>1, <3>2
  <2>. QED  BY <2>3, <2>4
<1>. QED  BY <1>1, <1>2, <1>3 DEF PayInv

\* A step that is not about a shift leaves what is known of it.
LEMMA ShiftUntouched ==
  ASSUME NEW r \in Requests, OthersAlone(r), NEW s \in Shifts,
         paid'[s] = paid[s], shiftTrail'[s] = shiftTrail[s],
         ~MarkingShift(r, s), ~MarkingShift(r, s)'
  PROVE  (PaidKnown(s) => PaidKnown(s)') /\ (ShiftFits(s) => ShiftFits(s)')
<1>1. ASSUME NEW q \in Requests
      PROVE  /\ MarkingShift(q, s)' <=> MarkingShift(q, s)
             /\ MarkingShift(q, s) => batch'[q] = batch[q]
  BY <1>1 DEF OthersAlone, MarkingShift
<1>2. ASSUME PaidKnown(s) PROVE PaidKnown(s)'
  <2>1. CASE paid[s] = Unpaid
    BY <2>1 DEF PaidKnown
  <2>2. CASE Recorded(s)
    BY <2>2 DEF PaidKnown, Recorded
  <2>3. CASE \E q \in Requests : Recording(q, s)
    <3>1. PICK q \in Requests : Recording(q, s)
      BY <2>3
    <3>2. Recording(q, s)'
      BY <1>1, <3>1 DEF Recording, For
    <3>. QED  BY <3>2 DEF PaidKnown
  <2>. QED  BY <1>2, <2>1, <2>2, <2>3 DEF PaidKnown
<1>3. ASSUME ShiftFits(s) PROVE ShiftFits(s)'
  <2>1. Chained(shiftTrail[s])'
    BY <1>3 DEF ShiftFits
  <2>2. (\A q \in Requests : ~MarkingShift(q, s)') => Settled(s)'
    BY <1>1, <1>3 DEF ShiftFits, Settled
  <2>3. ASSUME NEW q \in Requests, MarkingShift(q, s)' PROVE Marked(q, s)'
    BY <1>1, <1>3, <2>3 DEF ShiftFits, Marked, For
  <2>. QED  BY <2>1, <2>2, <2>3 DEF ShiftFits
<1>. QED  BY <1>2, <1>3

\* Nor what is known of a bonus.
LEMMA BonusUntouched ==
  ASSUME NEW r \in Requests, OthersAlone(r), NEW b \in BonusIds,
         bonuses'[b] = bonuses[b], bonusTrail'[b] = bonusTrail[b],
         ~MarkingBonus(r, b), ~MarkingBonus(r, b)'
  PROVE  BonusFits(b) => BonusFits(b)'
<1>1. ASSUME NEW q \in Requests
      PROVE  /\ MarkingBonus(q, b)' <=> MarkingBonus(q, b)
             /\ MarkingBonus(q, b) => batch'[q] = batch[q]
  BY <1>1 DEF OthersAlone, MarkingBonus
<1>2. SUFFICES ASSUME BonusFits(b), bonuses[b] # NoBonus
               PROVE  BonusFits(b)'
  BY DEF BonusFits
<1>3. ASSUME NEW q \in Requests, MarkingBonus(q, b)' PROVE Tells(batch[q].kind, b)'
  BY <1>1, <1>2, <1>3 DEF BonusFits, Tells
<1>4. ASSUME \A q \in Requests : ~MarkingBonus(q, b)'
      PROVE  (bonusTrail[b] # <<>> /\ Tells(bonusTrail[b][Len(bonusTrail[b])], b))'
  BY <1>1, <1>2, <1>4 DEF BonusFits, Tells
<1>. QED  BY <1>3, <1>4 DEF BonusFits

\* A step between whose statements no audit row is due leaves the tables as they were.
LEMMA Quiet ==
  ASSUME PayInv, NEW r \in Requests, OthersAlone(r),
         UNCHANGED <<paid, bonuses, shiftTrail, bonusTrail, overlap, cutShort>>,
         pc[r] \notin {"auditShift", "auditBonus"}, pc'[r] \notin {"auditShift", "auditBonus"}
  PROVE  PayTypeOK' /\ TablesFit'
<1>1. PayTypeOK'
  BY DEF PayInv, ShapeOK, PayTypeOK
<1>2. ASSUME NEW s \in Shifts
      PROVE  (PaidKnown(s) => PaidKnown(s)') /\ (ShiftFits(s) => ShiftFits(s)')
  <2>1. ~MarkingShift(r, s) /\ ~MarkingShift(r, s)'
    BY DEF MarkingShift
  <2>. QED  BY <2>1, ShiftUntouched
<1>3. ASSUME NEW b \in BonusIds PROVE BonusFits(b) => BonusFits(b)'
  <2>1. ~MarkingBonus(r, b) /\ ~MarkingBonus(r, b)'
    BY DEF MarkingBonus
  <2>. QED  BY <2>1, BonusUntouched
<1>. QED  BY <1>1, <1>2, <1>3 DEF PayInv, TablesFit

-----------------------------------------------------------------------------
(* The statements that read *)

LEMMA ReadBatchStep ==
  ASSUME PayInv, NEW r \in Requests, ReadBatch(r)
  PROVE  PayInv'
<1>1. ShapeOK /\ WorkOK(r) /\ pc[r] = "readBatch" /\ Undisturbed
  BY DEF PayInv, ReadBatch, At
<1>2. /\ DOMAIN batch' = Requests /\ \A q \in Requests \ {r} : batch'[q] = batch[q]
      /\ DOMAIN batch'[r] = DOMAIN NoBatch
      /\ batch'[r].kind = batch[r].kind /\ batch'[r].shifts = batch[r].shifts
      /\ batch'[r].bonuses = batch[r].bonuses
      /\ batch'[r].read = [s \in batch[r].shifts |-> shifts[s]]
      /\ batch'[r].paidThen = [s \in batch[r].shifts |-> paid[s]]
  BY <1>1 DEF ReadBatch, ShapeOK, WorkOK, NoBatch
<1>3. OthersAlone(r) /\ pc'[r] = "readPeople"
  BY <1>1, <1>2, Goes DEF ReadBatch
<1>4. PayTypeOK' /\ TablesFit'
  BY <1>1, <1>3, Quiet DEF ReadBatch, Undisturbed, bounds
<1>5. batch[r].shifts \subseteq Shifts
  BY <1>1 DEF WorkOK, Working
<1>6. WorkOK(r)'
  BY <1>1, <1>2, <1>3 DEF WorkOK, Working, For
<1>7. \A s \in batch[r].shifts : shifts[s].minutes \in Int /\ paid[s] \in PaidMark
  <2>1. \A s \in Shifts : shifts[s].minutes \in {0} \cup Minutes
    BY <1>1 DEF ShapeOK, ShiftsTypeOK
  <2>2. {0} \cup Minutes \subseteq Int
    BY AmountsAssumption
  <2>3. \A s \in Shifts : paid[s] \in PaidMark
    BY <1>1 DEF ShapeOK, PayTypeOK
  <2>. QED  BY <1>5, <2>1, <2>2, <2>3
<1>8. ReadOK(r)'
  BY <1>2, <1>3, <1>7 DEF ReadOK, HasRead, HasPeople
<1>9. FreshOK(r)'
  BY <1>1, <1>2, <1>3 DEF FreshOK, HasRead, HasPeople, ReadBatch, Undisturbed, rows
<1>. QED  BY <1>1, <1>3, <1>4, <1>6, <1>8, <1>9, StepPreserves

LEMMA ReadPeopleStep ==
  ASSUME PayInv, NEW r \in Requests, ReadPeople(r)
  PROVE  PayInv'
<1>1. ShapeOK /\ WorkOK(r) /\ ReadOK(r) /\ pc[r] = "readPeople" /\ Undisturbed
  BY DEF PayInv, ReadPeople, At
<1>. DEFINE whose == {Owner[s] : s \in batch[r].shifts}
<1>2. /\ DOMAIN batch' = Requests /\ \A q \in Requests \ {r} : batch'[q] = batch[q]
      /\ DOMAIN batch'[r] = DOMAIN NoBatch
      /\ batch'[r].kind = batch[r].kind /\ batch'[r].shifts = batch[r].shifts
      /\ batch'[r].bonuses = batch[r].bonuses /\ batch'[r].read = batch[r].read
      /\ batch'[r].paidThen = batch[r].paidThen
      /\ batch'[r].people = [who \in whose |-> people[who]]
  BY <1>1 DEF ReadPeople, ShapeOK, WorkOK, NoBatch
<1>3. OthersAlone(r) /\ pc'[r] = "markShift"
  BY <1>1, <1>2, Goes DEF ReadPeople
<1>4. PayTypeOK' /\ TablesFit'
  BY <1>1, <1>3, Quiet DEF ReadPeople, Undisturbed, bounds
<1>5. batch[r].shifts \subseteq Shifts
  BY <1>1 DEF WorkOK, Working
<1>6. WorkOK(r)'
  BY <1>1, <1>2, <1>3 DEF WorkOK, Working, For
<1>7. \A s \in batch[r].shifts : Owner[s] \in whose /\ Owner[s] \in Staff
  BY <1>5, OwnerAssumption
<1>8. \A s \in batch[r].shifts :
        batch'[r].people[Owner[s]] = people[Owner[s]] /\ people[Owner[s]].rate \in Int
  <2>1. \A who \in Staff : people[who].rate \in {Null} \cup Rates
    BY <1>1 DEF ShapeOK, ShiftsTypeOK
  <2>2. {Null} \cup Rates \subseteq Int
    BY AmountsAssumption DEF Null
  <2>. HIDE DEF whose
  <2>. QED  BY <1>2, <1>7, <2>1, <2>2
<1>9. ReadOK(r)'
  BY <1>1, <1>2, <1>3, <1>8 DEF ReadOK, HasRead, HasPeople
<1>10. ~overlap => FreshOK(r)'
  <2>1. ~overlap => FreshOK(r)
    BY DEF PayInv
  <2>. QED
    BY <1>1, <1>2, <1>3, <1>8, <2>1 DEF FreshOK, HasRead, HasPeople, ReadPeople, Undisturbed, rows
<1>. QED  BY <1>1, <1>3, <1>4, <1>6, <1>9, <1>10, StepPreserves

\* A request that ends without a change.
LEMMA DoneStep ==
  ASSUME PayInv, NEW r \in Requests, Done(r), Undisturbed,
         pc[r] \notin {"idle", "auditShift", "auditBonus"},
         UNCHANGED <<paid, bonuses, shiftTrail, bonusTrail>>
  PROVE  PayInv'
<1>1. OthersAlone(r) /\ pc'[r] = "idle" /\ (WorkOK(r) /\ ReadOK(r) /\ FreshOK(r))'
  BY RestOK DEF PayInv
<1>2. PayTypeOK' /\ TablesFit'
  BY <1>1, Quiet DEF Undisturbed, bounds
<1>. QED  BY <1>1, <1>2, StepPreserves

LEMMA ReadBonusesStep ==
  ASSUME PayInv, NEW r \in Requests, ReadBonuses(r)
  PROVE  PayInv'
<1>1. /\ ShapeOK /\ WorkOK(r) /\ pc[r] = "markShift" /\ Undisturbed
      /\ UNCHANGED <<paid, bonuses, shiftTrail, bonusTrail>>
  BY DEF PayInv, ReadBonuses, At
<1>2. CASE batch[r].bonuses = {}
  BY <1>1, <1>2, DoneStep DEF ReadBonuses
<1>3. CASE batch[r].bonuses # {}
  <2>1. /\ DOMAIN batch' = Requests /\ \A q \in Requests \ {r} : batch'[q] = batch[q]
        /\ DOMAIN batch'[r] = DOMAIN NoBatch
        /\ batch'[r].kind = batch[r].kind /\ batch'[r].shifts = batch[r].shifts
        /\ batch'[r].bonuses = batch[r].bonuses
        /\ batch'[r].read = [b \in batch[r].bonuses |-> bonuses[b]]
    BY <1>1, <1>3 DEF ReadBonuses, ShapeOK, WorkOK, NoBatch
  <2>2. OthersAlone(r) /\ pc'[r] = "markBonus"
    BY <1>1, <1>3, <2>1, Goes DEF ReadBonuses
  <2>3. PayTypeOK' /\ TablesFit'
    BY <1>1, <2>2, Quiet DEF Undisturbed, bounds
  <2>4. WorkOK(r)' /\ ReadOK(r)'
    BY <1>1, <2>1, <2>2 DEF WorkOK, Working, For, ReadOK, HasRead, HasPeople
  <2>5. FreshOK(r)'
    BY <1>1, <2>1, <2>2 DEF FreshOK, HasRead, HasPeople
  <2>. QED  BY <1>1, <2>2, <2>3, <2>4, <2>5, StepPreserves
<1>. QED  BY <1>2, <1>3

\* A request that goes on with what it has.
LEMMA GoOnStep ==
  ASSUME PayInv, NEW r \in Requests, Undisturbed,
         UNCHANGED <<paid, bonuses, shiftTrail, bonusTrail, batch>>,
         \/ pc[r] = "readGrantee" /\ Goto(r, "insertBonus")
         \/ /\ pc[r] = "readBonus" /\ Goto(r, "setVoided")
            /\ ~bonuses[batch[r].item].voided /\ ~bonuses[batch[r].item].paid
  PROVE  PayInv'
<1>1. ShapeOK /\ WorkOK(r)
  BY DEF PayInv
<1>2. OthersAlone(r) /\ pc'[r] \in {"insertBonus", "setVoided"} /\ pc[r] # "idle"
  BY <1>1, Goes DEF ShapeOK
<1>3. PayTypeOK' /\ TablesFit'
  BY <1>2, Quiet DEF Undisturbed, bounds
<1>4. \/ pc[r] = "readGrantee" /\ pc'[r] = "insertBonus"
      \/ /\ pc[r] = "readBonus" /\ pc'[r] = "setVoided"
         /\ ~bonuses[batch[r].item].voided /\ ~bonuses[batch[r].item].paid
  BY <1>1, Goes DEF ShapeOK
<1>5. WorkOK(r)' /\ ReadOK(r)'
  BY <1>1, <1>4 DEF WorkOK, Working, For, ReadOK, HasRead, HasPeople
<1>6. FreshOK(r)'
  BY <1>4 DEF FreshOK, HasRead, HasPeople
<1>. QED  BY <1>2, <1>3, <1>5, <1>6, StepPreserves

LEMMA ReadGranteeStep ==
  ASSUME PayInv, NEW r \in Requests, ReadGrantee(r) \/ ReadBonus(r)
  PROVE  PayInv'
<1>1. CASE Done(r)
  BY <1>1, DoneStep DEF ReadGrantee, ReadBonus, At
<1>2. CASE ~Done(r)
  BY <1>2, GoOnStep DEF ReadGrantee, ReadBonus, At
<1>. QED  BY <1>1, <1>2

-----------------------------------------------------------------------------
(* The statements about a shift *)

\* Amounts are whole numbers.
LEMMA AmountInt ==
  ASSUME NEW m \in Int, NEW rate \in Int
  PROVE  Amount(m, rate) \in Int
<1>1. 2 * m * rate \in Int
  OBVIOUS
<1>. QED  BY <1>1 DEF Amount

\* Only the shift a step is about has to be looked at.
LEMMA OneShift ==
  ASSUME PayInv, NEW r \in Requests, OthersAlone(r), NEW s \in Shifts,
         UNCHANGED <<bonuses, bonusTrail, overlap, cutShort>>,
         pc[r] # "auditBonus", pc'[r] # "auditBonus",
         \A t \in Shifts \ {s} : /\ paid'[t] = paid[t] /\ shiftTrail'[t] = shiftTrail[t]
                                 /\ ~MarkingShift(r, t) /\ ~MarkingShift(r, t)',
         s \notin cutShort => PaidKnown(s)' /\ (~overlap => ShiftFits(s)')
  PROVE  TablesFit'
<1>1. ASSUME NEW t \in Shifts \ {s}
      PROVE  (PaidKnown(t) => PaidKnown(t)') /\ (ShiftFits(t) => ShiftFits(t)')
  BY <1>1, ShiftUntouched
<1>2. ASSUME NEW b \in BonusIds PROVE BonusFits(b) => BonusFits(b)'
  <2>1. ~MarkingBonus(r, b) /\ ~MarkingBonus(r, b)'
    BY DEF MarkingBonus
  <2>. QED  BY <2>1, BonusUntouched
<1>3. \A t \in Shifts \ cutShort : PaidKnown(t)'
  BY <1>1 DEF PayInv, TablesFit
<1>4. ~overlap => \A t \in Shifts \ cutShort : ShiftFits(t)'
  BY <1>1 DEF PayInv, TablesFit
<1>5. ~overlap => \A b \in BonusIds \ cutShort : BonusFits(b)'
  BY <1>2 DEF PayInv, TablesFit
<1>. QED  BY <1>3, <1>4, <1>5 DEF TablesFit

LEMMA MarkShiftStep ==
  ASSUME PayInv, NEW r \in Requests, MarkShift(r)
  PROVE  PayInv'
<1>1. ShapeOK /\ WorkOK(r) /\ ReadOK(r) /\ (~overlap => FreshOK(r)) /\ pc[r] = "markShift"
  BY DEF PayInv, MarkShift, At
<1>2. Undisturbed /\ UNCHANGED <<bonuses, shiftTrail, bonusTrail>>
  BY DEF MarkShift
<1>. DEFINE rateOf(s) == batch[r].people[Owner[s]].rate
            centsOf(s) == Amount(batch[r].read[s].minutes, rateOf(s))
            rest(s) == [batch EXCEPT ![r].shifts = @ \ {s}]
<1>3. PICK s \in batch[r].shifts :
        IF Refused(r, s) THEN Done(r) /\ UNCHANGED paid
        ELSE IF Skipped(r, s) THEN batch' = rest(s) /\ UNCHANGED <<pc, paid>>
        ELSE /\ paid' = [paid EXCEPT ![s] = IF For(r, {"pay"})
                                            THEN [rate |-> rateOf(s), cents |-> centsOf(s)]
                                            ELSE Unpaid]
             /\ batch' = [rest(s) EXCEPT ![r].item = s,
                            ![r].cents = IF For(r, {"pay"}) THEN centsOf(s)
                                         ELSE batch[r].paidThen[s].cents]
             /\ Goto(r, "auditShift")
  BY DEF MarkShift
<1>4. s \in Shifts /\ batch[r].shifts \subseteq Shifts
  BY <1>1 DEF WorkOK, Working
<1>5. CASE Refused(r, s)
  BY <1>1, <1>2, <1>3, <1>5, DoneStep
<1>6. CASE ~Refused(r, s) /\ Skipped(r, s)
  <2>1. batch' = rest(s) /\ UNCHANGED <<pc, paid>>
    BY <1>3, <1>6
  <2>2. /\ DOMAIN batch' = Requests /\ \A q \in Requests \ {r} : batch'[q] = batch[q]
        /\ DOMAIN batch'[r] = DOMAIN NoBatch
        /\ batch'[r].kind = batch[r].kind /\ batch'[r].shifts = batch[r].shifts \ {s}
        /\ batch'[r].bonuses = batch[r].bonuses /\ batch'[r].read = batch[r].read
        /\ batch'[r].paidThen = batch[r].paidThen /\ batch'[r].people = batch[r].people
    BY <1>1, <2>1 DEF ShapeOK, WorkOK, NoBatch
  <2>3. OthersAlone(r) /\ pc'[r] = "markShift"
    BY <1>1, <2>1, <2>2 DEF OthersAlone, ShapeOK
  <2>4. PayTypeOK' /\ TablesFit'
    BY <1>1, <1>2, <2>1, <2>3, Quiet DEF Undisturbed, bounds
  <2>5. WorkOK(r)' /\ ReadOK(r)'
    BY <1>1, <2>2, <2>3 DEF WorkOK, Working, For, ReadOK, HasRead, HasPeople
  <2>6. ~overlap => FreshOK(r)'
    BY <1>1, <1>2, <2>1, <2>2, <2>3 DEF FreshOK, HasRead, HasPeople, Undisturbed, rows
  <2>. QED  BY <1>1, <1>2, <2>3, <2>4, <2>5, <2>6, StepPreserves
<1>7. CASE ~Refused(r, s) /\ ~Skipped(r, s)
  <2>1. /\ paid' = [paid EXCEPT ![s] = IF For(r, {"pay"})
                                       THEN [rate |-> rateOf(s), cents |-> centsOf(s)]
                                       ELSE Unpaid]
        /\ batch' = [rest(s) EXCEPT ![r].item = s,
                       ![r].cents = IF For(r, {"pay"}) THEN centsOf(s)
                                    ELSE batch[r].paidThen[s].cents]
        /\ Goto(r, "auditShift")
    BY <1>3, <1>7
  <2>2. rateOf(s) \in Int /\ centsOf(s) \in Int /\ batch[r].paidThen[s] \in PaidMark
    BY <1>1, AmountInt DEF ReadOK, HasRead, HasPeople
  <2>. HIDE DEF rateOf, centsOf
  <2>3. /\ DOMAIN batch' = Requests /\ \A q \in Requests \ {r} : batch'[q] = batch[q]
        /\ DOMAIN batch'[r] = DOMAIN NoBatch
        /\ batch'[r].kind = batch[r].kind /\ batch'[r].shifts = batch[r].shifts \ {s}
        /\ batch'[r].bonuses = batch[r].bonuses /\ batch'[r].read = batch[r].read
        /\ batch'[r].paidThen = batch[r].paidThen /\ batch'[r].people = batch[r].people
        /\ batch'[r].item = s
        /\ batch'[r].cents = IF For(r, {"pay"}) THEN centsOf(s) ELSE batch[r].paidThen[s].cents
    BY <1>1, <2>1 DEF ShapeOK, WorkOK, NoBatch
  <2>4. OthersAlone(r) /\ pc'[r] = "auditShift"
    BY <1>1, <2>1, <2>3, Goes
  <2>5. PayTypeOK'
    <3>1. /\ Unpaid \in PaidMark /\ [rate |-> rateOf(s), cents |-> centsOf(s)] \in PaidMark
          /\ paid \in [Shifts -> PaidMark]
      BY <1>1, <2>2 DEF Unpaid, PaidMark, Null, ShapeOK, PayTypeOK
    <3>2. paid' \in [Shifts -> PaidMark]
      BY <1>4, <2>1, <3>1
    <3>. QED  BY <1>1, <1>2, <3>2 DEF ShapeOK, PayTypeOK
  <2>6. /\ paid'[s] = IF For(r, {"pay"}) THEN [rate |-> rateOf(s), cents |-> centsOf(s)]
                      ELSE Unpaid
        /\ \A t \in Shifts \ {s} : paid'[t] = paid[t]
    BY <1>1, <1>4, <2>1 DEF ShapeOK, PayTypeOK
  <2>7. WorkOK(r)' /\ ReadOK(r)'
    <3>1. batch'[r].cents \in Int
      BY <2>2, <2>3 DEF PaidMark
    <3>. QED
      BY <1>1, <1>4, <2>3, <2>4, <3>1 DEF WorkOK, Working, For, ReadOK, HasRead, HasPeople
  <2>8. ~overlap => FreshOK(r)'
    BY <1>1, <1>2, <1>4, <2>3, <2>4, <2>6 DEF FreshOK, HasRead, HasPeople, Undisturbed, rows
  <2>9. For(r, {"pay"}) => rateOf(s) # Null /\ batch[r].paidThen[s] = Unpaid
    BY <1>7 DEF Refused, Skipped, rateOf
  <2>10. ~For(r, {"pay"}) => batch[r].paidThen[s] # Unpaid
    BY <1>7 DEF Skipped, For
  <2>11. For(r, {"pay"}) => paid'[s] # Unpaid /\ batch'[r].cents = paid'[s].cents
    BY <2>3, <2>6, <2>9 DEF Unpaid
  <2>12. PaidKnown(s)'
    BY <2>3, <2>4, <2>6, <2>11 DEF PaidKnown, Recording, MarkingShift, For
  <2>13. ASSUME ~overlap, s \notin cutShort PROVE ShiftFits(s)'
    <3>1. \A q \in Requests \ {r} : pc'[q] = "idle" /\ pc[q] = "idle"
      BY <1>1, <2>4, <2>13, InProgressAlone DEF OthersAlone
    <3>2. ShiftFits(s) /\ FreshOK(r)
      BY <1>1, <1>4, <2>13 DEF PayInv, TablesFit
    <3>3. Settled(s) /\ Chained(shiftTrail[s])
      BY <1>1, <3>1, <3>2 DEF ShiftFits, MarkingShift
    <3>4. paid[s] = batch[r].paidThen[s]
      BY <1>1, <3>2 DEF FreshOK, HasRead
    <3>5. Marked(r, s)'
      <4>1. CASE For(r, {"pay"})
        BY <2>3, <2>11, <4>1 DEF Marked, For
      <4>2. CASE ~For(r, {"pay"})
        <5>1. EndsWith(shiftTrail[s], [action |-> "pay", cents |-> paid[s].cents])
          BY <2>10, <3>3, <3>4, <4>2 DEF Settled
        <5>2. batch'[r].cents = paid[s].cents /\ paid'[s] = Unpaid /\ ~For(r, {"pay"})'
          BY <2>3, <2>6, <3>4, <4>2 DEF For
        <5>. QED  BY <1>2, <5>1, <5>2 DEF Marked
      <4>. QED  BY <4>1, <4>2
    <3>6. MarkingShift(r, s)' /\ \A q \in Requests \ {r} : ~MarkingShift(q, s)'
      BY <2>3, <2>4, <3>1 DEF MarkingShift
    <3>. QED  BY <1>2, <3>3, <3>5, <3>6 DEF ShiftFits
  <2>14. \A t \in Shifts \ {s} : ~MarkingShift(r, t) /\ ~MarkingShift(r, t)'
    BY <1>1, <2>3, <2>4 DEF MarkingShift
  <2>15. TablesFit'
    BY <1>1, <1>2, <1>4, <2>4, <2>6, <2>12, <2>13, <2>14, OneShift DEF Undisturbed, bounds
  <2>. QED  BY <1>1, <1>2, <2>4, <2>5, <2>7, <2>8, <2>15, StepPreserves
<1>. QED  BY <1>5, <1>6, <1>7

\* A row appended to a trail.
LEMMA Appended ==
  ASSUME NEW S, NEW trail \in Seq(S), NEW row \in S
  PROVE  /\ Append(trail, row) \in Seq(S)
         /\ EndsWith(Append(trail, row), row)
         /\ Len(Append(trail, row)) = Len(trail) + 1 /\ Len(trail) \in Nat
         /\ DOMAIN trail = 1..Len(trail) /\ DOMAIN Append(trail, row) = 1..Len(trail) + 1
         /\ \A k \in DOMAIN trail : Append(trail, row)[k] = trail[k]
BY DEF EndsWith

LEMMA AuditShiftStep ==
  ASSUME PayInv, NEW r \in Requests, AuditShift(r)
  PROVE  PayInv'
<1>1. ShapeOK /\ WorkOK(r) /\ ReadOK(r) /\ (~overlap => FreshOK(r)) /\ pc[r] = "auditShift"
  BY DEF PayInv, AuditShift, At
<1>2. Undisturbed /\ UNCHANGED <<paid, bonuses, bonusTrail>>
  BY DEF AuditShift
<1>3. PICK s \in Shifts : s = batch[r].item
  BY <1>1 DEF WorkOK
<1>. DEFINE row == [action |-> batch[r].kind, cents |-> batch[r].cents]
            trail == shiftTrail[s]
<1>4. /\ DOMAIN batch' = Requests /\ \A q \in Requests \ {r} : batch'[q] = batch[q]
      /\ DOMAIN batch'[r] = DOMAIN NoBatch
      /\ batch'[r].kind = batch[r].kind /\ batch'[r].shifts = batch[r].shifts
      /\ batch'[r].bonuses = batch[r].bonuses /\ batch'[r].read = batch[r].read
      /\ batch'[r].paidThen = batch[r].paidThen /\ batch'[r].people = batch[r].people
  BY <1>1 DEF AuditShift, ShapeOK, WorkOK, NoBatch
<1>5. OthersAlone(r) /\ pc'[r] = "markShift"
  BY <1>1, <1>4, Goes DEF AuditShift
<1>6. shiftTrail \in [Shifts -> Seq(MarkRow)] /\ trail \in Seq(MarkRow) /\ row \in MarkRow
  BY <1>1 DEF ShapeOK, PayTypeOK, WorkOK, Working, For, Batches, MarkRow
<1>7. /\ shiftTrail'[s] = Append(trail, row)
      /\ \A t \in Shifts \ {s} : shiftTrail'[t] = shiftTrail[t]
      /\ shiftTrail' = [shiftTrail EXCEPT ![s] = Append(trail, row)]
  BY <1>3, <1>6 DEF AuditShift
<1>8. Append(trail, row) \in Seq(MarkRow) /\ EndsWith(Append(trail, row), row)
  BY <1>6, Appended
<1>9. PayTypeOK'
  <2>1. shiftTrail' \in [Shifts -> Seq(MarkRow)]
    BY <1>6, <1>7, <1>8
  <2>. QED  BY <1>1, <1>2, <2>1 DEF ShapeOK, PayTypeOK
<1>10. WorkOK(r)' /\ ReadOK(r)'
  BY <1>1, <1>4, <1>5 DEF WorkOK, Working, For, ReadOK, HasRead, HasPeople
<1>11. ~overlap => FreshOK(r)'
  BY <1>1, <1>2, <1>4, <1>5 DEF FreshOK, HasRead, HasPeople, Undisturbed, rows
<1>12. ASSUME s \notin cutShort PROVE PaidKnown(s)'
  <2>1. PaidKnown(s)
    BY <1>12 DEF PayInv, TablesFit
  <2>2. CASE paid[s] = Unpaid
    BY <1>2, <2>2 DEF PaidKnown
  <2>3. CASE Recorded(s)
    <3>1. PICK k \in DOMAIN trail : trail[k] = [action |-> "pay", cents |-> paid[s].cents]
      BY <2>3 DEF Recorded
    <3>2. k \in DOMAIN Append(trail, row) /\ Append(trail, row)[k] = trail[k]
      BY <1>6, <3>1, Appended
    <3>. QED  BY <1>2, <1>7, <3>1, <3>2 DEF PaidKnown, Recorded
  <2>4. ASSUME NEW q \in Requests, Recording(q, s) PROVE PaidKnown(s)'
    <3>1. CASE q = r
      <4>1. row = [action |-> "pay", cents |-> paid[s].cents]
        BY <2>4, <3>1 DEF Recording, For
      <4>2. Len(Append(trail, row)) \in DOMAIN Append(trail, row)
        BY <1>6, Appended
      <4>. QED  BY <1>2, <1>7, <1>8, <4>1, <4>2 DEF PaidKnown, Recorded, EndsWith
    <3>2. CASE q # r
      <4>1. pc'[q] = pc[q] /\ batch'[q] = batch[q]
        BY <1>5, <3>2 DEF OthersAlone
      <4>2. Recording(q, s)'
        BY <1>2, <2>4, <4>1 DEF Recording, MarkingShift, For
      <4>. QED  BY <4>2 DEF PaidKnown
    <3>. QED  BY <3>1, <3>2
  <2>. QED  BY <2>1, <2>2, <2>3, <2>4 DEF PaidKnown
<1>13. ASSUME ~overlap, s \notin cutShort PROVE ShiftFits(s)'
  <2>1. \A q \in Requests : pc'[q] # "auditShift"
    BY <1>1, <1>5, <1>13, InProgressAlone DEF OthersAlone
  <2>2. ShiftFits(s) /\ MarkingShift(r, s)
    BY <1>1, <1>3, <1>13 DEF PayInv, TablesFit, MarkingShift
  <2>3. Marked(r, s) /\ Chained(trail)
    BY <2>2 DEF ShiftFits
  <2>4. For(r, {"pay"}) <=> row.action = "pay"
    BY DEF For
  <2>5. Settled(s)'
    <3>1. CASE For(r, {"pay"})
      BY <1>2, <1>7, <1>8, <2>3, <2>4, <3>1 DEF Settled, Marked
    <3>2. CASE ~For(r, {"pay"})
      <4>1. row.action = "unpay" /\ paid'[s] = Unpaid
        BY <1>2, <1>6, <2>3, <2>4, <3>2 DEF MarkRow, Marked
      <4>. QED  BY <1>7, <1>8, <4>1 DEF Settled, EndsWith
    <3>. QED  BY <3>1, <3>2
  <2>6. Chained(Append(trail, row))
    <3>1. SUFFICES ASSUME NEW k \in DOMAIN Append(trail, row), Append(trail, row)[k].action = "unpay"
                   PROVE  /\ k > 1
                          /\ Append(trail, row)[k - 1]
                               = [action |-> "pay", cents |-> Append(trail, row)[k].cents]
      BY DEF Chained
    <3>2. CASE k \in DOMAIN trail
      <4>0. trail[k] = Append(trail, row)[k]
        BY <1>6, <3>2, Appended
      <4>1. k > 1 /\ trail[k - 1] = [action |-> "pay", cents |-> trail[k].cents]
        BY <2>3, <3>1, <3>2, <4>0 DEF Chained
      <4>2. k - 1 \in DOMAIN trail
        BY <1>6, <3>2, <4>1, Appended
      <4>3. Append(trail, row)[k - 1] = trail[k - 1]
        BY <1>6, <4>2, Appended
      <4>. QED  BY <4>0, <4>1, <4>3
    <3>3. CASE k \notin DOMAIN trail
      <4>1. k = Len(trail) + 1 /\ Append(trail, row)[k] = row /\ Len(trail) \in Nat
        BY <1>6, <3>1, <3>3, Appended DEF EndsWith
      <4>2. EndsWith(trail, [action |-> "pay", cents |-> row.cents])
        BY <2>3, <2>4, <3>1, <4>1 DEF Marked
      <4>3. Len(trail) \in DOMAIN trail /\ Len(trail) > 0
        BY <1>6, <4>1, <4>2 DEF EndsWith
      <4>4. Append(trail, row)[Len(trail)] = trail[Len(trail)]
        BY <1>6, <4>3, Appended
      <4>. QED  BY <4>1, <4>2, <4>3, <4>4 DEF EndsWith
    <3>. QED  BY <3>2, <3>3
  <2>. QED  BY <1>7, <2>1, <2>5, <2>6 DEF ShiftFits, MarkingShift
<1>14. \A t \in Shifts \ {s} : ~MarkingShift(r, t) /\ ~MarkingShift(r, t)'
  BY <1>3, <1>5 DEF MarkingShift
<1>15. TablesFit'
  BY <1>1, <1>2, <1>5, <1>7, <1>12, <1>13, <1>14, OneShift DEF Undisturbed, bounds
<1>. QED  BY <1>1, <1>2, <1>5, <1>9, <1>10, <1>11, <1>15, StepPreserves

-----------------------------------------------------------------------------
(* The statements about a bonus *)

\* Only the bonus a step is about has to be looked at.
LEMMA OneBonus ==
  ASSUME PayInv, NEW r \in Requests, OthersAlone(r), NEW b \in BonusIds,
         UNCHANGED <<paid, shiftTrail, overlap, cutShort>>,
         pc[r] # "auditShift", pc'[r] # "auditShift",
         \A c \in BonusIds \ {b} : /\ bonuses'[c] = bonuses[c] /\ bonusTrail'[c] = bonusTrail[c]
                                   /\ ~MarkingBonus(r, c) /\ ~MarkingBonus(r, c)',
         b \notin cutShort /\ ~overlap => BonusFits(b)'
  PROVE  TablesFit'
<1>1. ASSUME NEW c \in BonusIds \ {b} PROVE BonusFits(c) => BonusFits(c)'
  BY <1>1, BonusUntouched
<1>2. ASSUME NEW s \in Shifts
      PROVE  (PaidKnown(s) => PaidKnown(s)') /\ (ShiftFits(s) => ShiftFits(s)')
  <2>1. ~MarkingShift(r, s) /\ ~MarkingShift(r, s)'
    BY DEF MarkingShift
  <2>. QED  BY <2>1, ShiftUntouched
<1>3. \A s \in Shifts \ cutShort : PaidKnown(s)'
  BY <1>2 DEF PayInv, TablesFit
<1>4. ~overlap => \A s \in Shifts \ cutShort : ShiftFits(s)'
  BY <1>2 DEF PayInv, TablesFit
<1>5. ~overlap => \A c \in BonusIds \ cutShort : BonusFits(c)'
  BY <1>1 DEF PayInv, TablesFit
<1>. QED  BY <1>3, <1>4, <1>5 DEF TablesFit

\* A bonus of which the handler says what it is fits, also before its audit row.
LEMMA BonusTold ==
  ASSUME PayInv, NEW r \in Requests, pc[r] # "idle", OthersAlone(r), ~overlap,
         NEW b \in BonusIds, MarkingBonus(r, b)', Tells(batch[r].kind, b)'
  PROVE  BonusFits(b)'
<1>1. \A q \in Requests \ {r} : pc'[q] = "idle"
  BY InProgressAlone DEF OthersAlone
<1>. QED  BY <1>1 DEF BonusFits, MarkingBonus

\* One flag of a bonus changes.
LEMMA BonusRows ==
  ASSUME ShapeOK, NEW b \in BonusIds, NEW flag \in BOOLEAN,
         \/ bonuses' = [bonuses EXCEPT ![b].paid = flag]
         \/ bonuses' = [bonuses EXCEPT ![b].voided = flag]
  PROVE  /\ bonuses' \in [BonusIds -> BonusRow]
         /\ \A c \in BonusIds \ {b} : bonuses'[c] = bonuses[c]
         /\ bonuses' = [bonuses EXCEPT ![b].paid = flag] =>
              bonuses'[b].paid = flag /\ bonuses'[b].voided = bonuses[b].voided
         /\ bonuses' = [bonuses EXCEPT ![b].voided = flag] =>
              bonuses'[b].voided = flag /\ bonuses'[b].paid = bonuses[b].paid
<1>1. bonuses \in [BonusIds -> BonusRow] /\ bonuses[b] \in BonusRow
  BY DEF ShapeOK, PayTypeOK
<1>2. [bonuses[b] EXCEPT !.paid = flag] \in BonusRow
      /\ [bonuses[b] EXCEPT !.voided = flag] \in BonusRow
  BY <1>1 DEF BonusRow
<1>3. \/ bonuses' = [bonuses EXCEPT ![b] = [bonuses[b] EXCEPT !.paid = flag]]
      \/ bonuses' = [bonuses EXCEPT ![b] = [bonuses[b] EXCEPT !.voided = flag]]
  BY <1>1
<1>4. /\ bonuses' \in [BonusIds -> BonusRow]
      /\ \A c \in BonusIds \ {b} : bonuses'[c] = bonuses[c]
  BY <1>1, <1>2, <1>3
<1>. QED  BY <1>1, <1>4 DEF BonusRow

LEMMA MarkBonusStep ==
  ASSUME PayInv, NEW r \in Requests, MarkBonus(r)
  PROVE  PayInv'
<1>1. ShapeOK /\ WorkOK(r) /\ ReadOK(r) /\ (~overlap => FreshOK(r)) /\ pc[r] = "markBonus"
  BY DEF PayInv, MarkBonus, At
<1>2. Undisturbed /\ UNCHANGED <<paid, shiftTrail, bonusTrail>>
  BY DEF MarkBonus
<1>. DEFINE rest(b) == [batch EXCEPT ![r].bonuses = @ \ {b}]
            row(b) == batch[r].read[b]
<1>3. PICK b \in batch[r].bonuses :
        IF row(b).voided THEN Done(r) /\ UNCHANGED bonuses
        ELSE IF row(b).paid = For(r, {"pay"})
        THEN /\ UNCHANGED bonuses
             /\ IF batch[r].bonuses = {b} THEN Done(r) ELSE batch' = rest(b) /\ UNCHANGED pc
        ELSE /\ bonuses' = [bonuses EXCEPT ![b].paid = For(r, {"pay"})]
             /\ batch' = [rest(b) EXCEPT ![r].item = b]
             /\ Goto(r, "auditBonus")
  BY DEF MarkBonus
<1>4. b \in BonusIds /\ batch[r].bonuses \subseteq BonusIds
  BY <1>1 DEF WorkOK, Working
<1>5. CASE Done(r) /\ UNCHANGED bonuses
  BY <1>1, <1>2, <1>5, DoneStep
<1>6. CASE UNCHANGED bonuses /\ batch' = rest(b) /\ UNCHANGED pc
  <2>1. /\ DOMAIN batch' = Requests /\ \A q \in Requests \ {r} : batch'[q] = batch[q]
        /\ DOMAIN batch'[r] = DOMAIN NoBatch
        /\ batch'[r].kind = batch[r].kind /\ batch'[r].shifts = batch[r].shifts
        /\ batch'[r].bonuses = batch[r].bonuses \ {b} /\ batch'[r].read = batch[r].read
    BY <1>1, <1>6 DEF ShapeOK, WorkOK, NoBatch
  <2>2. OthersAlone(r) /\ pc'[r] = "markBonus"
    BY <1>1, <1>6, <2>1 DEF OthersAlone, ShapeOK
  <2>3. PayTypeOK' /\ TablesFit'
    BY <1>1, <1>2, <1>6, <2>2, Quiet DEF Undisturbed, bounds
  <2>4. WorkOK(r)' /\ ReadOK(r)'
    BY <1>1, <2>1, <2>2 DEF WorkOK, Working, For, ReadOK, HasRead, HasPeople
  <2>5. ~overlap => FreshOK(r)'
    BY <1>1, <1>6, <2>1, <2>2 DEF FreshOK, HasRead, HasPeople
  <2>. QED  BY <1>1, <1>2, <2>2, <2>3, <2>4, <2>5, StepPreserves
<1>7. CASE /\ ~row(b).voided
           /\ bonuses' = [bonuses EXCEPT ![b].paid = For(r, {"pay"})]
           /\ batch' = [rest(b) EXCEPT ![r].item = b]
           /\ Goto(r, "auditBonus")
  <2>1. /\ DOMAIN batch' = Requests /\ \A q \in Requests \ {r} : batch'[q] = batch[q]
        /\ DOMAIN batch'[r] = DOMAIN NoBatch
        /\ batch'[r].kind = batch[r].kind /\ batch'[r].shifts = batch[r].shifts
        /\ batch'[r].bonuses = batch[r].bonuses \ {b} /\ batch'[r].read = batch[r].read
        /\ batch'[r].item = b
    BY <1>1, <1>7 DEF ShapeOK, WorkOK, NoBatch
  <2>2. OthersAlone(r) /\ pc'[r] = "auditBonus"
    BY <1>1, <1>7, <2>1, Goes
  <2>3. PICK flag \in BOOLEAN : flag = For(r, {"pay"})
    <3>1. For(r, {"pay"}) \in BOOLEAN
      BY DEF For
    <3>. QED  BY <3>1
  <2>4. /\ bonuses' \in [BonusIds -> BonusRow]
        /\ \A c \in BonusIds \ {b} : bonuses'[c] = bonuses[c]
        /\ bonuses'[b].paid = flag /\ bonuses'[b].voided = bonuses[b].voided
    BY <1>1, <1>4, <1>7, <2>3, BonusRows
  <2>5. PayTypeOK'
    BY <1>1, <1>2, <2>4 DEF ShapeOK, PayTypeOK
  <2>6. WorkOK(r)' /\ ReadOK(r)'
    BY <1>1, <1>4, <2>1, <2>2 DEF WorkOK, Working, For, ReadOK, HasRead, HasPeople
  <2>7. ~overlap => FreshOK(r)'
    BY <1>1, <1>4, <2>1, <2>2, <2>4 DEF FreshOK, HasRead, HasPeople
  <2>8. ASSUME ~overlap PROVE BonusFits(b)'
    <3>1. row(b) = bonuses[b]
      BY <1>1, <2>8 DEF FreshOK
    <3>2. ~bonuses'[b].voided
      BY <1>7, <2>4, <3>1
    <3>3. batch'[r].kind \in Batches /\ (flag <=> batch'[r].kind = "pay")
      BY <1>1, <2>1, <2>3 DEF WorkOK, Working, For
    <3>4. Tells(batch[r].kind, b)'
      BY <2>4, <3>2, <3>3 DEF Tells, Batches
    <3>5. MarkingBonus(r, b)'
      BY <2>1, <2>2 DEF MarkingBonus
    <3>. QED  BY <1>1, <1>4, <2>2, <2>8, <3>4, <3>5, BonusTold
  <2>9. \A c \in BonusIds \ {b} : ~MarkingBonus(r, c) /\ ~MarkingBonus(r, c)'
    BY <1>1, <2>1, <2>2 DEF MarkingBonus
  <2>10. TablesFit'
    BY <1>1, <1>2, <1>4, <2>2, <2>4, <2>8, <2>9, OneBonus DEF Undisturbed, bounds
  <2>. QED  BY <1>1, <1>2, <2>2, <2>5, <2>6, <2>7, <2>10, StepPreserves
<1>. QED  BY <1>3, <1>5, <1>6, <1>7

LEMMA AuditBonusStep ==
  ASSUME PayInv, NEW r \in Requests, AuditBonus(r)
  PROVE  PayInv'
<1>1. ShapeOK /\ WorkOK(r) /\ ReadOK(r) /\ (~overlap => FreshOK(r)) /\ pc[r] = "auditBonus"
  BY DEF PayInv, AuditBonus, At
<1>2. Undisturbed /\ UNCHANGED <<paid, bonuses, shiftTrail>>
  BY DEF AuditBonus
<1>3. PICK b \in BonusIds : b = batch[r].item
  BY <1>1 DEF WorkOK
<1>. DEFINE kind == batch[r].kind
            trail == bonusTrail[b]
            kinds == Batches \cup {"grant", "void"}
<1>4. bonusTrail \in [BonusIds -> Seq(kinds)] /\ trail \in Seq(kinds) /\ kind \in kinds
  BY <1>1 DEF ShapeOK, PayTypeOK, WorkOK, For
<1>5. Append(trail, kind) \in Seq(kinds) /\ EndsWith(Append(trail, kind), kind)
  BY <1>4, Appended
<1>6. bonusTrail' = [bonusTrail EXCEPT ![b] = Append(trail, kind)]
  BY <1>3 DEF AuditBonus
<1>7. /\ bonusTrail' \in [BonusIds -> Seq(kinds)] /\ bonusTrail'[b] = Append(trail, kind)
      /\ \A c \in BonusIds \ {b} : bonusTrail'[c] = bonusTrail[c]
  BY <1>4, <1>5, <1>6
<1>8. PayTypeOK'
  BY <1>1, <1>2, <1>7 DEF ShapeOK, PayTypeOK
<1>9. /\ OthersAlone(r) /\ pc'[r] \in {"idle", "markBonus"}
      /\ WorkOK(r)' /\ ReadOK(r)' /\ (~overlap => FreshOK(r)')
  <2>1. CASE batch[r].bonuses = {}
    <3>1. Done(r)
      BY <2>1 DEF AuditBonus
    <3>. QED  BY <1>1, <3>1, RestOK
  <2>2. CASE batch[r].bonuses # {}
    <3>1. /\ DOMAIN batch' = Requests /\ \A q \in Requests \ {r} : batch'[q] = batch[q]
          /\ DOMAIN batch'[r] = DOMAIN NoBatch
          /\ batch'[r].kind = batch[r].kind /\ batch'[r].shifts = batch[r].shifts
          /\ batch'[r].bonuses = batch[r].bonuses /\ batch'[r].read = batch[r].read
      BY <1>1, <2>2 DEF AuditBonus, ShapeOK, WorkOK, NoBatch
    <3>2. OthersAlone(r) /\ pc'[r] = "markBonus"
      BY <1>1, <2>2, <3>1, Goes DEF AuditBonus
    <3>3. WorkOK(r)' /\ ReadOK(r)'
      BY <1>1, <2>2, <3>1, <3>2 DEF WorkOK, Working, For, ReadOK, HasRead, HasPeople
    <3>4. ~overlap => FreshOK(r)'
      BY <1>1, <1>2, <3>1, <3>2 DEF FreshOK, HasRead, HasPeople
    <3>. QED  BY <3>2, <3>3, <3>4
  <2>. QED  BY <2>1, <2>2
<1>10. ASSUME ~overlap, b \notin cutShort PROVE BonusFits(b)'
  <2>1. \A q \in Requests : ~MarkingBonus(q, b)'
    BY <1>1, <1>9, <1>10, InProgressAlone DEF OthersAlone, MarkingBonus
  <2>2. bonuses[b] # NoBonus => Tells(kind, b)
    BY <1>1, <1>3, <1>10 DEF PayInv, TablesFit, BonusFits, MarkingBonus
  <2>3. bonusTrail'[b] # <<>> /\ bonusTrail'[b][Len(bonusTrail'[b])] = kind
    BY <1>5, <1>7 DEF EndsWith
  <2>. QED  BY <1>2, <2>1, <2>2, <2>3 DEF BonusFits, Tells
<1>11. \A c \in BonusIds \ {b} : ~MarkingBonus(r, c) /\ ~MarkingBonus(r, c)'
  BY <1>3, <1>9 DEF MarkingBonus
<1>12. TablesFit'
  BY <1>1, <1>2, <1>7, <1>9, <1>10, <1>11, OneBonus DEF Undisturbed, bounds
<1>. QED  BY <1>1, <1>2, <1>8, <1>9, <1>12, StepPreserves

LEMMA InsertBonusStep ==
  ASSUME PayInv, NEW r \in Requests, InsertBonus(r)
  PROVE  PayInv'
<1>1. ShapeOK /\ WorkOK(r) /\ ReadOK(r) /\ pc[r] = "insertBonus"
  BY DEF PayInv, InsertBonus, At
<1>2. Undisturbed /\ UNCHANGED <<paid, shiftTrail, bonusTrail>>
  BY DEF InsertBonus
<1>3. PICK b \in BonusIds : /\ bonuses[b] = NoBonus
                            /\ bonuses' = [bonuses EXCEPT ![b].who = batch[r].who]
                            /\ batch' = [batch EXCEPT ![r].item = b]
  BY DEF InsertBonus
<1>4. /\ DOMAIN batch' = Requests /\ \A q \in Requests \ {r} : batch'[q] = batch[q]
      /\ DOMAIN batch'[r] = DOMAIN NoBatch
      /\ batch'[r].kind = batch[r].kind /\ batch'[r].bonuses = batch[r].bonuses
      /\ batch'[r].shifts = batch[r].shifts /\ batch'[r].item = b
  BY <1>1, <1>3 DEF ShapeOK, WorkOK, NoBatch
<1>5. OthersAlone(r) /\ pc'[r] = "auditBonus"
  BY <1>1, <1>4, Goes DEF InsertBonus
<1>6. For(r, {"grant"}) /\ batch[r].who \in Staff /\ batch[r].bonuses = {}
  BY <1>1 DEF WorkOK
<1>7. bonuses \in [BonusIds -> BonusRow] /\ bonuses[b] \in BonusRow
  BY <1>1 DEF ShapeOK, PayTypeOK
<1>8. bonuses' = [bonuses EXCEPT ![b] = [bonuses[b] EXCEPT !.who = batch[r].who]]
  BY <1>3
<1>9. [bonuses[b] EXCEPT !.who = batch[r].who] \in BonusRow
  BY <1>6, <1>7 DEF BonusRow
<1>10. /\ bonuses' \in [BonusIds -> BonusRow]
       /\ bonuses'[b] = [bonuses[b] EXCEPT !.who = batch[r].who]
       /\ \A c \in BonusIds \ {b} : bonuses'[c] = bonuses[c]
  BY <1>7, <1>8, <1>9
<1>11. ~bonuses'[b].paid /\ ~bonuses'[b].voided
  BY <1>3, <1>10 DEF NoBonus
<1>12. PayTypeOK'
  BY <1>1, <1>2, <1>10 DEF ShapeOK, PayTypeOK
<1>13. WorkOK(r)' /\ ReadOK(r)' /\ FreshOK(r)'
  BY <1>1, <1>4, <1>5, <1>6 DEF WorkOK, Working, For, ReadOK, FreshOK, HasRead, HasPeople
<1>14. ASSUME ~overlap PROVE BonusFits(b)'
  <2>1. MarkingBonus(r, b)'
    BY <1>4, <1>5 DEF MarkingBonus
  <2>2. Tells(batch[r].kind, b)'
    BY <1>4, <1>6, <1>11 DEF Tells, For
  <2>. QED  BY <1>1, <1>5, <1>14, <2>1, <2>2, BonusTold
<1>15. \A c \in BonusIds \ {b} : ~MarkingBonus(r, c) /\ ~MarkingBonus(r, c)'
  BY <1>1, <1>4, <1>5 DEF MarkingBonus
<1>16. TablesFit'
  BY <1>1, <1>2, <1>5, <1>10, <1>14, <1>15, OneBonus DEF Undisturbed, bounds
<1>. QED  BY <1>1, <1>2, <1>5, <1>12, <1>13, <1>16, StepPreserves

LEMMA SetVoidedStep ==
  ASSUME PayInv, NEW r \in Requests, SetVoided(r)
  PROVE  PayInv'
<1>1. ShapeOK /\ WorkOK(r) /\ ReadOK(r) /\ (~overlap => FreshOK(r)) /\ pc[r] = "setVoided"
  BY DEF PayInv, SetVoided, At
<1>2. Undisturbed /\ UNCHANGED <<paid, shiftTrail, bonusTrail, batch>>
  BY DEF SetVoided
<1>3. PICK b \in BonusIds : b = batch[r].item
  BY <1>1 DEF WorkOK
<1>4. /\ bonuses' \in [BonusIds -> BonusRow]
      /\ \A c \in BonusIds \ {b} : bonuses'[c] = bonuses[c]
      /\ bonuses'[b].voided = TRUE /\ bonuses'[b].paid = bonuses[b].paid
  BY <1>1, <1>3, BonusRows DEF SetVoided
<1>5. OthersAlone(r) /\ pc'[r] = "auditBonus"
  BY <1>1, <1>2, Goes DEF SetVoided, ShapeOK
<1>6. PayTypeOK'
  BY <1>1, <1>2, <1>4 DEF ShapeOK, PayTypeOK
<1>7. For(r, {"void"}) /\ batch[r].bonuses = {}
  BY <1>1 DEF WorkOK
<1>8. WorkOK(r)' /\ ReadOK(r)' /\ FreshOK(r)'
  BY <1>1, <1>2, <1>3, <1>5, <1>7
     DEF WorkOK, Working, For, ReadOK, FreshOK, HasRead, HasPeople
<1>9. ASSUME ~overlap PROVE BonusFits(b)'
  <2>1. MarkingBonus(r, b)'
    BY <1>2, <1>3, <1>5 DEF MarkingBonus
  <2>2. ~bonuses[b].paid
    BY <1>1, <1>3, <1>9 DEF FreshOK
  <2>3. Tells(batch[r].kind, b)'
    BY <1>2, <1>4, <1>7, <2>2 DEF Tells, For
  <2>. QED  BY <1>1, <1>5, <1>9, <2>1, <2>3, BonusTold
<1>10. \A c \in BonusIds \ {b} : ~MarkingBonus(r, c) /\ ~MarkingBonus(r, c)'
  BY <1>1, <1>2, <1>3, <1>5 DEF MarkingBonus
<1>11. TablesFit'
  BY <1>1, <1>2, <1>4, <1>5, <1>9, <1>10, OneBonus DEF Undisturbed, bounds
<1>. QED  BY <1>1, <1>2, <1>5, <1>6, <1>8, <1>11, StepPreserves

-----------------------------------------------------------------------------
(* The steps around a request *)

LEMMA ArrivesStep ==
  ASSUME PayInv, NEW r \in Requests, PayArrives(r)
  PROVE  PayInv'
<1>1. ShapeOK /\ UNCHANGED <<paid, bonuses, shiftTrail, bonusTrail, now, rows, overlap, cutShort>>
  BY DEF PayInv, PayArrives, ArriveFor, Arrive
<1>2. PICK stage \in {"readBatch", "markShift", "readGrantee", "readBonus"} :
        pc[r] = "idle" /\ (overlap \/ Idle) /\ Goto(r, stage)
  BY DEF PayArrives, ArriveFor, Arrive, At
<1>3. requests' \in 0..MaxRequests /\ UNCHANGED <<changes, failures>>
  <2>1. /\ requests < (IF overlap THEN MaxOverlapping ELSE MaxRequests)
        /\ requests' = requests + 1 /\ UNCHANGED <<changes, failures>>
    BY DEF PayArrives, ArriveFor, Arrive
  <2>. QED  BY <1>1, <2>1, BoundsAssumption DEF ShapeOK, ShiftsTypeOK
<1>4. DOMAIN batch' = Requests /\ \A q \in Requests \ {r} : batch'[q] = batch[q]
  BY <1>1 DEF PayArrives, ArriveFor, ShapeOK
<1>5. OthersAlone(r) /\ pc'[r] = stage
  BY <1>1, <1>2, <1>4, Goes
<1>6. WorkOK(r)' /\ (stage = "markShift" => batch'[r].shifts = {})
  <2>1. ASSUME NEW kind \in {"pay", "unpay"}, NEW some \in SUBSET Shifts, NEW extra \in SUBSET Granted,
               ArriveFor(r, [NoBatch EXCEPT !.kind = kind, !.shifts = some, !.bonuses = extra],
                         IF some = {} THEN "markShift" ELSE "readBatch")
        PROVE  WorkOK(r)' /\ (stage = "markShift" => batch'[r].shifts = {})
    <3>1. /\ batch'[r] = [NoBatch EXCEPT !.kind = kind, !.shifts = some, !.bonuses = extra]
          /\ stage = IF some = {} THEN "markShift" ELSE "readBatch"
      BY <1>1, <1>5, <2>1 DEF ArriveFor, Arrive, Goto, ShapeOK
    <3>2. extra \subseteq BonusIds
      BY DEF Granted
    <3>. QED  BY <1>5, <3>1, <3>2 DEF NoBatch, WorkOK, Working, For, Batches
  <2>2. ASSUME NEW who \in Staff,
               ArriveFor(r, [NoBatch EXCEPT !.kind = "grant", !.who = who], "readGrantee")
        PROVE  WorkOK(r)' /\ stage # "markShift"
    <3>1. batch'[r] = [NoBatch EXCEPT !.kind = "grant", !.who = who] /\ stage = "readGrantee"
      BY <1>1, <1>5, <2>2 DEF ArriveFor, Arrive, Goto, ShapeOK
    <3>. QED  BY <1>5, <3>1 DEF NoBatch, WorkOK, Working, For
  <2>3. ASSUME NEW b \in Granted,
               ArriveFor(r, [NoBatch EXCEPT !.kind = "void", !.item = b], "readBonus")
        PROVE  WorkOK(r)' /\ stage # "markShift"
    <3>1. batch'[r] = [NoBatch EXCEPT !.kind = "void", !.item = b] /\ stage = "readBonus"
      BY <1>1, <1>5, <2>3 DEF ArriveFor, Arrive, Goto, ShapeOK
    <3>. QED  BY <1>5, <3>1 DEF NoBatch, WorkOK, Working, For, Granted
  <2>. QED  BY <2>1, <2>2, <2>3 DEF PayArrives
<1>7. ReadOK(r)' /\ FreshOK(r)'
  BY <1>5, <1>6 DEF ReadOK, FreshOK, HasRead, HasPeople
<1>8. PayTypeOK' /\ TablesFit'
  BY <1>1, <1>2, <1>5, Quiet
<1>9. ShapeOK'
  BY <1>1, <1>3, <1>5, <1>8 DEF ShapeOK, ShiftsTypeOK, OthersAlone, rows
<1>10. ASSUME NEW q \in Requests \ {r} PROVE WorkOK(q)' /\ ReadOK(q)'
  <2>1. WorkOK(q) /\ ReadOK(q) /\ pc'[q] = pc[q] /\ batch'[q] = batch[q]
    BY <1>5, <1>10 DEF PayInv, OthersAlone
  <2>. QED  BY <2>1 DEF WorkOK, ReadOK, For
<1>11. ASSUME ~overlap' PROVE AloneOK' /\ \A q \in Requests : FreshOK(q)'
  <2>1. \A q \in Requests \ {r} : pc'[q] = "idle"
    BY <1>1, <1>2, <1>5, <1>11 DEF Idle, OthersAlone
  <2>2. \A q \in Requests \ {r} : FreshOK(q)'
    BY <2>1 DEF FreshOK, HasRead, HasPeople
  <2>. QED  BY <1>7, <2>1, <2>2 DEF AloneOK
<1>. QED  BY <1>6, <1>7, <1>8, <1>9, <1>10, <1>11 DEF PayInv

LEMMA FailsStep ==
  ASSUME PayInv, NEW r \in Requests, PayFails(r)
  PROVE  PayInv'
<1>1. /\ ShapeOK /\ WorkOK(r) /\ pc[r] # "idle" /\ ~overlap
      /\ cutShort' = cutShort \cup ({batch[r].item} \ {Null})
      /\ UNCHANGED <<paid, bonuses, shiftTrail, bonusTrail, now, rows, overlap, requests, changes>>
  BY DEF PayInv, PayFails, FailOver
<1>2. /\ pc'[r] = "idle" /\ batch'[r] = NoBatch /\ OthersAlone(r)
      /\ \A q \in Requests : pc'[q] = "idle"
  <2>1. DOMAIN batch' = Requests /\ batch'[r] = NoBatch
        /\ \A q \in Requests \ {r} : batch'[q] = batch[q]
    BY <1>1 DEF PayFails, ShapeOK
  <2>2. OthersAlone(r) /\ pc'[r] = "idle"
    BY <1>1, <2>1, Goes DEF PayFails, FailOver
  <2>. QED  BY <1>1, <2>1, <2>2, InProgressAlone DEF OthersAlone
<1>3. failures' \in 0..MaxFailures
  BY <1>1, BoundsAssumption DEF PayFails, FailOver, ShapeOK, ShiftsTypeOK
<1>4. PayTypeOK' /\ ShapeOK'
  BY <1>1, <1>2, <1>3 DEF ShapeOK, ShiftsTypeOK, PayTypeOK, OthersAlone, rows
<1>5. ASSUME NEW q \in Requests PROVE WorkOK(q)' /\ ReadOK(q)' /\ FreshOK(q)'
  <2>1. CASE q = r
    BY <1>2, <2>1 DEF NoBatch, WorkOK, Working, ReadOK, FreshOK, HasRead, HasPeople
  <2>2. CASE q # r
    <3>1. WorkOK(q) /\ pc[q] = "idle" /\ pc'[q] = "idle" /\ batch'[q] = batch[q]
      BY <1>1, <1>2, <2>2, InProgressAlone DEF PayInv, OthersAlone
    <3>. QED  BY <3>1 DEF WorkOK, Working, ReadOK, FreshOK, HasRead, HasPeople
  <2>. QED  BY <2>1, <2>2
<1>6. AloneOK'
  BY <1>2 DEF AloneOK
<1>7. TablesFit'
  <2>1. ASSUME NEW s \in Shifts \ cutShort' PROVE PaidKnown(s)' /\ ShiftFits(s)'
    <3>1. ~MarkingShift(r, s) /\ ~MarkingShift(r, s)'
      BY <1>1, <1>2, <2>1, IdsAssumption DEF MarkingShift
    <3>2. PaidKnown(s) /\ ShiftFits(s)
      BY <1>1, <2>1 DEF PayInv, TablesFit
    <3>. QED  BY <1>1, <1>2, <3>1, <3>2, ShiftUntouched
  <2>2. ASSUME NEW b \in BonusIds \ cutShort' PROVE BonusFits(b)'
    <3>1. ~MarkingBonus(r, b) /\ ~MarkingBonus(r, b)'
      BY <1>1, <1>2, <2>2, IdsAssumption DEF MarkingBonus
    <3>2. BonusFits(b)
      BY <1>1, <2>2 DEF PayInv, TablesFit
    <3>. QED  BY <1>1, <1>2, <3>1, <3>2, BonusUntouched
  <2>. QED  BY <2>1, <2>2 DEF TablesFit
<1>. QED  BY <1>4, <1>5, <1>6, <1>7 DEF PayInv

\* What is done elsewhere touches no pay, and without overlap happens between requests.
LEMMA ElsewhereKeeps ==
  ASSUME PayInv, UNCHANGED <<payVars, pc, overlap, cutShort>>, ShiftsTypeOK',
         overlap \/ Idle \/ UNCHANGED rows
  PROVE  PayInv'
<1>1. ShapeOK'
  BY DEF PayInv, ShapeOK, PayTypeOK, payVars
<1>2. \A q \in Requests : WorkOK(q)' /\ ReadOK(q)'
  BY DEF PayInv, WorkOK, ReadOK, For, payVars
<1>3. ASSUME ~overlap PROVE AloneOK' /\ \A q \in Requests : FreshOK(q)'
  <2>1. AloneOK'
    BY <1>3 DEF PayInv, AloneOK
  <2>2. ASSUME NEW q \in Requests PROVE FreshOK(q)'
    <3>1. FreshOK(q) /\ (pc[q] = "idle" \/ UNCHANGED rows)
      BY <1>3 DEF PayInv, Idle
    <3>. QED  BY <3>1 DEF FreshOK, HasRead, HasPeople, rows, payVars
  <2>. QED  BY <2>1, <2>2
<1>4. TablesFit'
  <2>1. \A q \in Requests, s \in Shifts : MarkingShift(q, s)' <=> MarkingShift(q, s)
    BY DEF MarkingShift, payVars
  <2>2. \A q \in Requests, b \in BonusIds : MarkingBonus(q, b)' <=> MarkingBonus(q, b)
    BY DEF MarkingBonus, payVars
  <2>3. \A s \in Shifts : PaidKnown(s) => PaidKnown(s)'
    BY <2>1 DEF PaidKnown, Recorded, Recording, For, payVars
  <2>4. \A s \in Shifts : ShiftFits(s) => ShiftFits(s)'
    BY <2>1 DEF ShiftFits, Settled, Marked, For, payVars
  <2>5. \A b \in BonusIds : BonusFits(b) => BonusFits(b)'
    BY <2>2 DEF BonusFits, Tells, payVars
  <2>. QED  BY <2>3, <2>4, <2>5 DEF PayInv, TablesFit
<1>. QED  BY <1>1, <1>2, <1>3, <1>4 DEF PayInv

LEMMA ElsewhereStep ==
  ASSUME PayInv, Elsewhere, UNCHANGED payVars
  PROVE  PayInv'
<1>1. ShiftsTypeOK
  BY DEF PayInv, ShapeOK
<1>. QED  BY <1>1, ElsewhereShifts, ElsewhereKeeps

LEMMA PayStepKeeps ==
  ASSUME PayInv, PayNext
  PROVE  PayInv'
<1>1. PICK r \in Requests : PayArrives(r) \/ PayStep(r) \/ PayFails(r)
  BY DEF PayNext
<1>2. CASE PayArrives(r)
  BY <1>2, ArrivesStep
<1>3. CASE PayFails(r)
  BY <1>3, FailsStep
<1>4. CASE ReadBatch(r) \/ ReadPeople(r) \/ ReadBonuses(r) \/ ReadGrantee(r) \/ ReadBonus(r)
  BY <1>4, ReadBatchStep, ReadPeopleStep, ReadBonusesStep, ReadGranteeStep
<1>5. CASE MarkShift(r) \/ AuditShift(r)
  BY <1>5, MarkShiftStep, AuditShiftStep
<1>6. CASE MarkBonus(r) \/ AuditBonus(r) \/ InsertBonus(r) \/ SetVoided(r)
  BY <1>6, MarkBonusStep, AuditBonusStep, InsertBonusStep, SetVoidedStep
<1>. QED  BY <1>1, <1>2, <1>3, <1>4, <1>5, <1>6 DEF PayStep

\* At the start nothing is paid and nobody is asked anything.
LEMMA PayStarts ==
  ASSUME Init
  PROVE  PayDeskInv
<1>1. ShiftsInit /\ PayInit
  BY DEF Init
<1>2. Blank
  BY <1>1 DEF PayInit, Blank
<1>3. ShiftsTypeOK
  BY <1>1, ShiftsStart
<1>4. PayTypeOK
  BY <1>1 DEF PayInit, PayTypeOK, PaidMark, BonusRow, Unpaid, NoBonus, Null
<1>5. ShapeOK
  BY <1>1, <1>3, <1>4 DEF ShiftsInit, PayInit, ShapeOK
<1>6. \A r \in Requests : pc[r] = "idle" /\ batch[r] = NoBatch
  BY <1>1 DEF ShiftsInit, PayInit
<1>7. ASSUME NEW r \in Requests PROVE WorkOK(r) /\ ReadOK(r) /\ FreshOK(r)
  <2>1. pc[r] = "idle" /\ batch[r] = NoBatch
    BY <1>6
  <2>2. NoBatch.shifts = {} /\ NoBatch.bonuses = {}
    BY DEF NoBatch
  <2>3. WorkOK(r)
    BY <2>1, <2>2 DEF WorkOK, Working
  <2>4. ReadOK(r) /\ FreshOK(r)
    BY <2>1 DEF ReadOK, FreshOK, HasRead, HasPeople
  <2>. QED  BY <2>3, <2>4
<1>8. TablesFit
  BY <1>1, <1>6 DEF PayInit, TablesFit, PaidKnown, ShiftFits, Settled, Chained, MarkingShift, BonusFits
<1>. QED  BY <1>2, <1>5, <1>6, <1>7, <1>8 DEF PayDeskInv, PayInv, AloneOK

LEMMA PayKeeps ==
  ASSUME PayDeskInv, [Next]_vars
  PROVE  PayDeskInv'
<1>1. desk' = desk
  BY DEF Next, vars
<1>2. CASE desk = "pay"
  <2>1. CASE Elsewhere /\ UNCHANGED payVars
    BY <1>1, <1>2, <2>1, ElsewhereStep DEF PayDeskInv
  <2>2. CASE PayNext
    BY <1>1, <1>2, <2>2, PayStepKeeps DEF PayDeskInv
  <2>3. CASE UNCHANGED vars
    <3>1. ShiftsTypeOK'
      BY <1>2, <2>3 DEF PayDeskInv, PayInv, ShapeOK, ShiftsTypeOK, vars, shiftVars, rows, bounds
    <3>2. PayInv'
      BY <1>2, <2>3, <3>1, ElsewhereKeeps DEF PayDeskInv, vars, shiftVars, bounds
    <3>. QED  BY <1>1, <1>2, <3>2 DEF PayDeskInv
  <2>. QED  BY <1>2, <2>1, <2>2, <2>3 DEF Next
<1>3. CASE desk # "pay"
  <2>1. UNCHANGED payVars
    BY <1>3 DEF Next, vars
  <2>. QED  BY <1>1, <1>3, <2>1 DEF PayDeskInv, Blank, payVars
<1>. QED  BY <1>2, <1>3

-----------------------------------------------------------------------------
(* What follows for the shifts and the bonuses *)

LEMMA InvTypes ==
  ASSUME PayDeskInv
  PROVE  PayTypeOK
<1>1. Blank => PayTypeOK
  BY DEF Blank, PayTypeOK, PaidMark, BonusRow, Unpaid, NoBonus, Null
<1>. QED  BY <1>1 DEF PayDeskInv, PayInv, ShapeOK

LEMMA InvOnRecord ==
  ASSUME PayDeskInv
  PROVE  PaidOnRecord
<1>1. SUFFICES ASSUME NEW s \in Shifts, ~AboutToRecord(s), s \notin cutShort
               PROVE  LET trail == shiftTrail[s]
                          marked == {k \in DOMAIN trail : trail[k].action = "pay"}
                      IN /\ paid[s] # Unpaid => \E k \in marked : trail[k].cents = paid[s].cents
                         /\ ~overlap =>
                              /\ (paid[s] # Unpaid) = (trail # <<>> /\ Len(trail) \in marked)
                              /\ \A k \in DOMAIN trail \ marked :
                                   k > 1 /\ trail[k - 1] = [action |-> "pay", cents |-> trail[k].cents]
  BY DEF PaidOnRecord
<1>. DEFINE trail == shiftTrail[s]
            marked == {k \in DOMAIN trail : trail[k].action = "pay"}
<1>2. CASE desk # "pay"
  <2>1. paid[s] = Unpaid /\ trail = <<>>
    BY <1>2 DEF PayDeskInv, Blank
  <2>. QED  BY <2>1
<1>3. CASE desk = "pay"
  <2>1. PayInv /\ trail \in Seq(MarkRow)
    BY <1>3 DEF PayDeskInv, PayInv, ShapeOK, PayTypeOK
  <2>2. \A r \in Requests : ~MarkingShift(r, s)
    BY <1>1 DEF AboutToRecord, MarkingShift
  <2>3. ASSUME paid[s] # Unpaid PROVE \E k \in marked : trail[k].cents = paid[s].cents
    <3>1. Recorded(s)
      BY <1>1, <2>1, <2>2, <2>3 DEF PayInv, TablesFit, PaidKnown, Recording
    <3>. QED  BY <3>1 DEF Recorded
  <2>4. ASSUME ~overlap
        PROVE  /\ (paid[s] # Unpaid) = (trail # <<>> /\ Len(trail) \in marked)
               /\ \A k \in DOMAIN trail \ marked :
                    k > 1 /\ trail[k - 1] = [action |-> "pay", cents |-> trail[k].cents]
    <3>1. Settled(s) /\ Chained(trail)
      BY <1>1, <2>1, <2>2, <2>4 DEF PayInv, TablesFit, ShiftFits
    <3>2. trail # <<>> => Len(trail) \in DOMAIN trail
      BY <2>1
    <3>3. \A k \in DOMAIN trail : trail[k].action \in {"pay", "unpay"}
      <4>1. \A k \in DOMAIN trail : trail[k] \in MarkRow
        BY <2>1
      <4>. QED  BY <4>1 DEF MarkRow
    <3>4. paid[s] # Unpaid <=> trail # <<>> /\ Len(trail) \in marked
      BY <3>1, <3>2, <3>3 DEF Settled, EndsWith
    <3>5. \A k \in DOMAIN trail \ marked : trail[k].action = "unpay"
      BY <3>3
    <3>. QED  BY <3>1, <3>4, <3>5 DEF Chained
  <2>. QED  BY <2>3, <2>4
<1>. QED  BY <1>2, <1>3

LEMMA InvVoid ==
  ASSUME PayDeskInv
  PROVE  VoidNotPaid
<1>1. SUFFICES ASSUME ~overlap, NEW b \in BonusIds, Whole(b), bonuses[b] # NoBonus
               PROVE  LET trail == bonusTrail[b] IN
                      trail # <<>> /\
                      trail[Len(trail)] \in
                        IF bonuses[b].voided THEN IF bonuses[b].paid THEN {} ELSE {"void"}
                        ELSE IF bonuses[b].paid THEN {"pay"} ELSE {"grant", "unpay"}
  BY DEF VoidNotPaid
<1>. DEFINE trail == bonusTrail[b]
<1>2. desk = "pay"
  BY <1>1 DEF PayDeskInv, Blank
<1>3. PayInv /\ trail \in Seq(Batches \cup {"grant", "void"}) /\ bonuses[b] \in BonusRow
  BY <1>2 DEF PayDeskInv, PayInv, ShapeOK, PayTypeOK
<1>4. \A r \in Requests : ~MarkingBonus(r, b)
  BY <1>1 DEF Whole, InProgress, MarkingBonus
<1>5. trail # <<>> /\ Tells(trail[Len(trail)], b)
  BY <1>1, <1>3, <1>4 DEF PayInv, TablesFit, BonusFits, Whole
<1>6. trail[Len(trail)] \in {"pay", "unpay", "grant", "void"}
  BY <1>3, <1>5 DEF Batches
<1>. QED  BY <1>3, <1>5, <1>6 DEF Tells, BonusRow

\* Only the statement that marks a shift changes what it was paid.
LEMMA AmountsStay ==
  ASSUME PayDeskInv, [Next]_vars
  PROVE  ~overlap => \A s \in Shifts :
           /\ paid[s] # Unpaid => paid'[s] \in {paid[s], Unpaid}
           /\ paid[s] = Unpaid /\ paid'[s] # Unpaid =>
                LET rate == people[Owner[s]].rate
                IN paid'[s] = [rate |-> rate, cents |-> Amount(shifts[s].minutes, rate)]
<1>1. SUFFICES ASSUME ~overlap, NEW s \in Shifts, paid'[s] # paid[s]
               PROVE  /\ paid[s] # Unpaid => paid'[s] = Unpaid
                      /\ paid[s] = Unpaid =>
                           LET rate == people[Owner[s]].rate
                           IN paid'[s] = [rate |-> rate, cents |-> Amount(shifts[s].minutes, rate)]
  OBVIOUS
<1>2. desk = "pay" /\ PayNext
  BY <1>1 DEF Next, vars, payVars
<1>3. PICK r \in Requests : MarkShift(r)
  BY <1>1, <1>2 DEF PayNext, PayStep, PayArrives, PayFails, ReadBatch, ReadPeople, AuditShift,
     ReadBonuses, MarkBonus, AuditBonus, ReadGrantee, InsertBonus, ReadBonus, SetVoided
<1>4. PayInv
  BY <1>2 DEF PayDeskInv
<1>5. pc[r] = "markShift" /\ FreshOK(r) /\ paid \in [Shifts -> PaidMark]
  BY <1>1, <1>3, <1>4 DEF MarkShift, At, PayInv, ShapeOK, PayTypeOK
<1>. DEFINE rateOf(t) == batch[r].people[Owner[t]].rate
            centsOf(t) == Amount(batch[r].read[t].minutes, rateOf(t))
<1>6. PICK t \in batch[r].shifts :
        /\ ~Skipped(r, t)
        /\ paid' = [paid EXCEPT ![t] = IF For(r, {"pay"})
                                       THEN [rate |-> rateOf(t), cents |-> centsOf(t)]
                                       ELSE Unpaid]
  BY <1>1, <1>3 DEF MarkShift
<1>7. t = s
  BY <1>1, <1>5, <1>6
<1>8. /\ paid'[s] = IF For(r, {"pay"}) THEN [rate |-> rateOf(s), cents |-> centsOf(s)] ELSE Unpaid
      /\ s \in batch[r].shifts
  BY <1>5, <1>6, <1>7
<1>9. batch[r].read[s] = shifts[s] /\ batch[r].paidThen[s] = paid[s]
      /\ batch[r].people[Owner[s]] = people[Owner[s]]
  BY <1>5, <1>8 DEF FreshOK, HasRead, HasPeople
<1>10. For(r, {"pay"}) => paid[s] = Unpaid
  BY <1>6, <1>7, <1>9 DEF Skipped, For
<1>. QED  BY <1>1, <1>8, <1>9, <1>10

-----------------------------------------------------------------------------
(* The inductive invariant of leave *)

Statuses == {"none", "pending", "approved", "rejected"}
Reviews == {"approve", "reject"}
LeaveRow == [who : Staff \cup {Null}, type : {"annual", "unpaid"}, hours : Nat, status : Statuses]
LedgerRow == [who : Staff, delta : Int, source : {"adjustment", "request", "accrual"},
              ref : LeaveIds \cup {Null}, of : SUBSET Shifts]
Locals == [kind : {"none", "request", "adjust", "accrue"} \cup Reviews,
           leave : LeaveIds \cup {Null}, row : LeaveRow, who : Staff \cup {Null},
           todo : SUBSET Staff, since : Int, through : Int, picked : SUBSET Shifts, delta : Int]

\* Amounts of an employee in the audit log.
IsLog(log) ==
  /\ DOMAIN log \subseteq Int /\ IsFiniteSet(DOMAIN log) /\ log \in [DOMAIN log -> Nat \ {0}]

\* What leave changes has its types, and the ledger is finite.
LeaveTypeOK ==
  /\ leaves \in [LeaveIds -> LeaveRow]
  /\ DOMAIN ledger \subseteq LedgerRow /\ IsFiniteSet(DOMAIN ledger)
  /\ ledger \in [DOMAIN ledger -> Nat \ {0}]
  /\ marks \in [Staff -> Int]
  /\ reviews \in [LeaveIds -> Seq({"request"} \cup Reviews)]
  /\ DOMAIN audited = Staff /\ \A who \in Staff : IsLog(audited[who])
  /\ work \in [Requests -> Locals]

LeaveShapeOK ==
  /\ ShiftsTypeOK /\ LeaveTypeOK
  /\ DOMAIN pc = Requests /\ overlap \in BOOLEAN

\* A request that has not been made says nothing; one that has is an employee's.
UnmadeOK(l) ==
  IF leaves[l].status = "none" THEN leaves[l] = NoLeave /\ reviews[l] = <<>>
  ELSE leaves[l].who \in Staff

\* What a handler has in hand at its statements.
ForLeave == {"auditLeave", "readLeave", "setReviewed", "insertDeduction"}
Accruing == {"readMark", "selectShifts", "insertAccrual", "setMark"}
ForOne == {"insertAdjustment", "selectShifts", "insertAccrual", "setMark", "auditCredit"}

HandOK(r) ==
  LET mine == work[r] IN
  /\ pc[r] = "idle" => mine = NoWork
  /\ pc[r] \in {"readBalance", "insertLeave"} =>
       mine.kind = "request" /\ mine.row.who \in Staff /\ mine.delta \in Nat
  /\ pc[r] \in ForLeave => mine.leave \in LeaveIds
  /\ pc[r] = "auditLeave" =>
       mine.kind \in {"request"} \cup Reviews /\ leaves[mine.leave].status # "none"
  /\ pc[r] \in {"readLeave", "setReviewed"} => mine.kind \in Reviews
  /\ pc[r] \in {"setReviewed", "insertDeduction"} =>
       /\ leaves[mine.leave].status # "none"
       /\ mine.row = [leaves[mine.leave] EXCEPT !.status = "pending"]
  /\ pc[r] = "insertDeduction" => mine.kind = "approve" /\ mine.row.type # "unpaid"
  /\ pc[r] = "insertAdjustment" => mine.kind = "adjust"
  /\ pc[r] = "auditCredit" => mine.kind \in {"adjust", "accrue"}
  /\ pc[r] \in Accruing \cup {"listStaff"} => mine.kind = "accrue"
  /\ pc[r] \in ForOne => mine.who \in Staff
  /\ mine.through <= now

\* With one request in progress, what it has read is still so.
StillSo(r) ==
  LET mine == work[r]
      status == leaves[mine.leave].status
  IN
  /\ pc[r] = "insertLeave" /\ mine.row.type # "unpaid" =>
       Balance(mine.row.who) >= Stored(mine.delta)
  /\ pc[r] = "setReviewed" => status = "pending"
  /\ pc[r] = "insertDeduction" => status = "approved"
  /\ pc[r] = "auditLeave" =>
       status = CASE mine.kind = "request" -> "pending"
                  [] mine.kind = "approve" -> "approved"
                  [] OTHER                 -> "rejected"
  /\ pc[r] \in Accruing \/ (pc[r] = "auditCredit" /\ mine.kind = "accrue") =>
       \A who \in Staff : marks[who] <= mine.through
  /\ pc[r] \in {"selectShifts", "insertAccrual", "setMark"} => mine.since = marks[mine.who]
  /\ pc[r] \in {"insertAccrual", "setMark"} =>
       mine.picked = Uncredited(mine.who, mine.since, mine.through)

OneAtATime == \A r, q \in Requests : pc[r] # "idle" /\ pc[q] # "idle" => r = q

\* The requests that are about to deduct a leave, to tell of it, or to move a mark.
Deducting(r, l) == pc[r] = "insertDeduction" /\ work[r].leave = l
Reviewing(r, l) == pc[r] \in {"insertDeduction", "auditLeave"} /\ work[r].leave = l
Crediting(r, who) == pc[r] = "setMark" /\ work[r].who = who

\* A leave tells its story, between the statements that add to it.
Told(l) ==
  reviews[l] = CASE leaves[l].status = "none"     -> <<>>
                 [] leaves[l].status = "pending"  -> <<"request">>
                 [] leaves[l].status = "approved" -> <<"request", "approve">>
                 [] OTHER                         -> <<"request", "reject">>
Deducted(l) ==
  IF leaves[l].status = "approved" /\ leaves[l].type # "unpaid"
  THEN LET row == Row(leaves[l].who, -leaves[l].hours, "request", l, {})
       IN Deductions(l) = {row} /\ ledger[row] = 1
  ELSE Deductions(l) = {}
LeaveFits(l) ==
  /\ (\A r \in Requests : ~Reviewing(r, l)) => Told(l)
  /\ \A r \in Requests : Reviewing(r, l) =>
       reviews[l] = IF Is(r, {"request"}) THEN <<>> ELSE <<"request">>
  /\ (\A r \in Requests : ~Deducting(r, l)) => Deducted(l)
  /\ \A r \in Requests : Deducting(r, l) => Deductions(l) = {}

\* The balance a leave was checked against is there until something is drawn from it.
Covered(l) ==
  /\ leaves[l].type # "unpaid" /\ l \notin stale
  /\ leaves[l].status = "pending" \/ \E r \in Requests : Deducting(r, l)
  => Balance(leaves[l].who) >= leaves[l].hours

\* A shift is credited once, as soon as the mark has passed it.
CreditedUpTo(s, mark) ==
  CreditsOf(s) = IF shifts[s].out # Null /\ shifts[s].out <= mark THEN 1 ELSE 0
CreditFits(s) ==
  ~shifts[s].edited /\ s \notin late =>
    /\ (\A r \in Requests : ~Crediting(r, Owner[s])) => CreditedUpTo(s, marks[Owner[s]])
    /\ \A r \in Requests : Crediting(r, Owner[s]) => CreditedUpTo(s, work[r].through)

\* What the ledger has and the audit log has yet to say.
Due(r, who) ==
  IF pc[r] \in {"setMark", "auditCredit"} /\ work[r].who = who THEN Stored(work[r].delta)
  ELSE IF pc[r] = "auditLeave" /\ work[r].kind = "approve" /\ work[r].leave \in Tracked(who)
  THEN -leaves[work[r].leave].hours
  ELSE 0
DueTo(who) == SumFunction([r \in Requests |-> Due(r, who)])
Spent(who) == SumFunction([l \in Tracked(who) |-> Approvals(l) * leaves[l].hours])
BalanceFits(who) == Balance(who) = Logged(who) - Spent(who) + DueTo(who)

LeaveInv ==
  /\ LeaveShapeOK
  /\ \A l \in LeaveIds : UnmadeOK(l)
  /\ \A s \in Shifts : shifts[s].out = Null => ~shifts[s].edited
  /\ \A r \in Requests : HandOK(r)
  /\ failures = 0 => \A who \in Staff : BalanceFits(who)
  /\ ~overlap =>
       /\ OneAtATime
       /\ \A who \in Staff : marks[who] <= now
       /\ \A r \in Requests : StillSo(r)
       /\ \A l \in LeaveIds : Covered(l) /\ (l \notin cutShort => LeaveFits(l))
       /\ \A s \in Shifts : Owner[s] \notin cutShort => CreditFits(s)

\* The other desks leave the leave tables as they were at the start.
LeaveBlank ==
  /\ leaves = [l \in LeaveIds |-> NoLeave]
  /\ ledger = SetToBag({Row(who, Opening, "adjustment", Null, {}) : who \in Staff})
  /\ marks = [who \in Staff |-> 0]
  /\ reviews = [l \in LeaveIds |-> <<>>]
  /\ audited = [who \in Staff |-> SetToBag({10 * Opening})]
  /\ desk # "pay" => \A s \in Shifts : shifts[s].out = Null

LeaveDeskInv == IF desk = "leave" THEN LeaveInv ELSE LeaveBlank

-----------------------------------------------------------------------------
(* The ledger as totals, and what one more row adds to them *)

Own(table, who) == {row \in DOMAIN table : row.who = who}
Weighed(table, who) == [row \in Own(table, who) |-> table[row] * row.delta]
CreditRows(table) == {row \in DOMAIN table : row.source = "accrual"}
Counted(table, s) == [row \in CreditRows(table) |-> IF s \in row.of THEN table[row] ELSE 0]

LEMMA BalanceIsTotal ==
  ASSUME NEW who
  PROVE  /\ Balance(who) = Total(Weighed(ledger, who))
         /\ Balance(who)' = Total(Weighed(ledger', who))
BY FunctionSumIsTotal DEF Balance, Weighed, Own, BagToSet

LEMMA CreditsAreTotal ==
  ASSUME NEW s
  PROVE  /\ CreditsOf(s) = Total(Counted(ledger, s))
         /\ CreditsOf(s)' = Total(Counted(ledger', s))
BY FunctionSumIsTotal DEF CreditsOf, Credits, Counted, CreditRows, BagToSet

\* A table of the ledger's kind.
IsLedger(table) ==
  /\ DOMAIN table \subseteq LedgerRow /\ IsFiniteSet(DOMAIN table)
  /\ table \in [DOMAIN table -> Nat \ {0}]

With(table, row) == table (+) SetToBag({row})

LEMMA WithRow ==
  ASSUME NEW table, IsLedger(table), NEW row \in LedgerRow
  PROVE  /\ IsLedger(With(table, row))
         /\ DOMAIN With(table, row) = DOMAIN table \cup {row}
         /\ \A x \in DOMAIN table \ {row} : With(table, row)[x] = table[x]
         /\ With(table, row)[row] = (IF row \in DOMAIN table THEN table[row] ELSE 0) + 1
<1>. DEFINE grown == With(table, row)
<1>1. /\ DOMAIN grown = DOMAIN table \cup {row}
      /\ \A x \in DOMAIN table \cup {row} :
           grown[x] = (IF x \in DOMAIN table THEN table[x] ELSE 0) + (IF x = row THEN 1 ELSE 0)
  BY DEF With, (+), SetToBag
<1>2. \A x \in DOMAIN table : table[x] \in Nat \ {0}
  BY DEF IsLedger
<1>3. \A x \in DOMAIN grown : grown[x] \in Nat \ {0}
  BY <1>1, <1>2
<1>4. grown = [x \in DOMAIN grown |-> grown[x]]
  BY DEF With, (+)
<1>5. IsFiniteSet(DOMAIN grown)
  BY <1>1, FS_AddElement DEF IsLedger
<1>6. IsLedger(grown)
  <2>1. DOMAIN grown \subseteq LedgerRow
    BY <1>1 DEF IsLedger
  <2>2. grown \in [DOMAIN grown -> Nat \ {0}]
    <3>. HIDE DEF grown
    <3>. QED  BY <1>3, <1>4
  <2>. QED  BY <1>5, <2>1, <2>2 DEF IsLedger
<1>. QED  BY <1>1, <1>2, <1>6

LEMMA WeighedTyped ==
  ASSUME NEW table, IsLedger(table), NEW who
  PROVE  /\ IsFiniteSet(Own(table, who)) /\ Weighed(table, who) \in [Own(table, who) -> Int]
         /\ Total(Weighed(table, who)) \in Int
<1>1. Own(table, who) \in SUBSET DOMAIN table
  BY DEF Own
<1>2. IsFiniteSet(Own(table, who))
  BY <1>1, FS_Subset DEF IsLedger
<1>3. \A row \in DOMAIN table : table[row] \in Int /\ row.delta \in Int
  BY DEF IsLedger, LedgerRow
<1>4. Weighed(table, who) \in [Own(table, who) -> Int]
  <2>1. \A row \in Own(table, who) : table[row] * row.delta \in Int
    BY <1>1, <1>3
  <2>. QED  BY <2>1 DEF Weighed
<1>. QED  BY <1>2, <1>4, TotalNumber

\* What a column keeps of an amount is a number, of an amount in hundredths that amount,
\* and of one a balance covers no more than the balance.
LEMMA StoredAmount ==
  ASSUME NEW amount \in Int
  PROVE  /\ Stored(amount) \in Int /\ (amount \in Nat => Stored(amount) \in Nat)
         /\ \A n \in Int : Stored(10 * n) = n /\ (10 * n >= amount => n >= Stored(amount))
<1>1. /\ (amount + 5) \div 10 \in Int /\ -((5 - amount) \div 10) \in Int
      /\ amount >= 0 => (amount + 5) \div 10 >= 0
  OBVIOUS
<1>2. ASSUME NEW n \in Int PROVE Stored(10 * n) = n
  <2>1. 10 * n >= 0 => (10 * n + 5) \div 10 = n
    OBVIOUS
  <2>2. ~(10 * n >= 0) => -((5 - 10 * n) \div 10) = n
    OBVIOUS
  <2>. QED  BY <2>1, <2>2 DEF Stored
<1>3. ASSUME NEW n \in Int, 10 * n >= amount PROVE n >= Stored(amount)
  <2>1. amount >= 0 => n >= (amount + 5) \div 10
    BY <1>3
  <2>2. ~(amount >= 0) => n >= -((5 - amount) \div 10)
    BY <1>3
  <2>. QED  BY <2>1, <2>2 DEF Stored
<1>. QED  BY <1>1, <1>2, <1>3 DEF Stored

LEMMA CountedTyped ==
  ASSUME NEW table, IsLedger(table), NEW s
  PROVE  /\ IsFiniteSet(CreditRows(table)) /\ Counted(table, s) \in [CreditRows(table) -> Int]
         /\ Total(Counted(table, s)) \in Int
<1>1. CreditRows(table) \in SUBSET DOMAIN table
  BY DEF CreditRows
<1>2. IsFiniteSet(CreditRows(table))
  BY <1>1, FS_Subset DEF IsLedger
<1>3. Counted(table, s) \in [CreditRows(table) -> Int]
  <2>1. \A row \in CreditRows(table) : (IF s \in row.of THEN table[row] ELSE 0) \in Int
    BY <1>1 DEF IsLedger
  <2>. QED  BY <2>1 DEF Counted
<1>. QED  BY <1>2, <1>3, TotalNumber

LEMMA WithWeighs ==
  ASSUME NEW table, IsLedger(table), NEW row \in LedgerRow, NEW who
  PROVE  Total(Weighed(With(table, row), who)) =
           Total(Weighed(table, who)) + (IF row.who = who THEN row.delta ELSE 0)
<1>. DEFINE grown == With(table, row)
            f == Weighed(table, who)
            g == Weighed(grown, who)
<1>1. /\ IsLedger(grown) /\ DOMAIN grown = DOMAIN table \cup {row}
      /\ \A x \in DOMAIN table \ {row} : grown[x] = table[x]
      /\ grown[row] = (IF row \in DOMAIN table THEN table[row] ELSE 0) + 1
  BY WithRow
<1>2. IsFiniteSet(Own(table, who)) /\ f \in [Own(table, who) -> Int] /\ Total(f) \in Int
  BY WeighedTyped
<1>3. g \in [Own(grown, who) -> Int]
  BY <1>1, WeighedTyped
<1>4. \A x \in Own(table, who) : f[x] = table[x] * x.delta
  BY DEF Weighed
<1>5. \A x \in Own(grown, who) : g[x] = grown[x] * x.delta
  BY DEF Weighed
<1>6. row.delta \in Int /\ (row \in DOMAIN table => table[row] \in Int)
  BY DEF LedgerRow, IsLedger
<1>. HIDE DEF f, g, grown
<1>7. CASE row.who = who
  <2>1. Own(grown, who) = Own(table, who) \cup {row}
    BY <1>1, <1>7 DEF Own
  <2>2. \A y \in Own(table, who) \ {row} : f[y] = g[y]
    BY <1>1, <1>4, <1>5, <2>1 DEF Own
  <2>3. row \in Own(table, who) <=> row \in DOMAIN table
    BY <1>7 DEF Own
  <2>4. g[row] = (IF row \in Own(table, who) THEN f[row] ELSE 0) + row.delta
    <3>1. CASE row \in DOMAIN table
      <4>1. g[row] = (table[row] + 1) * row.delta /\ f[row] = table[row] * row.delta
        BY <1>1, <1>4, <1>5, <2>1, <2>3, <3>1
      <4>2. \A a, b \in Int : (a + 1) * b = a * b + b
        OBVIOUS
      <4>. QED  BY <1>6, <2>3, <3>1, <4>1, <4>2
    <3>2. CASE row \notin DOMAIN table
      <4>1. g[row] = (0 + 1) * row.delta
        BY <1>1, <1>5, <2>1, <3>2
      <4>. QED  BY <1>6, <2>3, <3>2, <4>1
    <3>. QED  BY <3>1, <3>2
  <2>5. Total(g) = Total(f) + row.delta
    BY <1>2, <1>3, <1>6, <2>1, <2>2, <2>4, TotalOneRaised
  <2>. QED  BY <1>7, <2>5 DEF f, g, grown
<1>8. CASE row.who # who
  <2>1. Own(grown, who) = Own(table, who) /\ \A y \in Own(table, who) : grown[y] = table[y]
    BY <1>1, <1>8 DEF Own
  <2>2. f = g
    BY <2>1 DEF f, g, Weighed
  <2>. QED  BY <1>2, <1>8, <2>2 DEF f, g, grown
<1>. QED  BY <1>7, <1>8

\* The audit log as totals.
Amounts(log) == [amount \in DOMAIN log |-> log[amount] * Stored(amount)]

LEMMA LoggedIsTotal ==
  ASSUME NEW who
  PROVE  Logged(who) = Total(Amounts(audited[who])) /\ Logged(who)' = Total(Amounts(audited'[who]))
BY FunctionSumIsTotal DEF Logged, Amounts, BagToSet

LEMMA AmountsTyped ==
  ASSUME NEW log, IsLog(log)
  PROVE  Amounts(log) \in [DOMAIN log -> Int] /\ Total(Amounts(log)) \in Int
<1>1. \A amount \in DOMAIN log : log[amount] \in Int /\ Stored(amount) \in Int
  BY StoredAmount DEF IsLog
<1>2. \A amount \in DOMAIN log : log[amount] * Stored(amount) \in Int
  BY <1>1
<1>3. Amounts(log) \in [DOMAIN log -> Int]
  BY <1>2 DEF Amounts
<1>. QED  BY <1>3, TotalNumber DEF IsLog

LEMMA LogGrows ==
  ASSUME NEW log, IsLog(log), NEW amount \in Int
  PROVE  /\ IsLog(With(log, amount))
         /\ Total(Amounts(With(log, amount))) = Total(Amounts(log)) + Stored(amount)
<1>. DEFINE grown == With(log, amount)
            f == Amounts(log)
            g == Amounts(grown)
            d == Stored(amount)
<1>1. /\ DOMAIN grown = DOMAIN log \cup {amount}
      /\ \A x \in DOMAIN log \cup {amount} :
           grown[x] = (IF x \in DOMAIN log THEN log[x] ELSE 0) + (IF x = amount THEN 1 ELSE 0)
      /\ grown = [x \in DOMAIN grown |-> grown[x]]
  BY DEF With, (+), SetToBag
<1>2. \A x \in DOMAIN log : log[x] \in Nat \ {0}
  BY DEF IsLog
<1>. HIDE DEF grown
<1>3. \A x \in DOMAIN grown : grown[x] \in Nat \ {0}
  BY <1>1, <1>2
<1>4. grown \in [DOMAIN grown -> Nat \ {0}]
  BY <1>1, <1>3
<1>5. DOMAIN grown \subseteq Int /\ IsFiniteSet(DOMAIN grown)
  BY <1>1, FS_AddElement DEF IsLog
<1>6. IsLog(grown)
  BY <1>4, <1>5 DEF IsLog
<1>7. f \in [DOMAIN log -> Int] /\ g \in [DOMAIN log \cup {amount} -> Int] /\ d \in Int
  BY <1>1, <1>6, AmountsTyped, StoredAmount
<1>8. /\ \A x \in DOMAIN log : f[x] = log[x] * Stored(x)
      /\ \A x \in DOMAIN grown : g[x] = grown[x] * Stored(x)
  BY DEF Amounts
<1>9. \A x \in DOMAIN log \ {amount} : f[x] = g[x]
  <2>1. \A x \in DOMAIN log \ {amount} : grown[x] = log[x] /\ x \in DOMAIN grown
    BY <1>1, <1>2
  <2>. QED  BY <1>8, <2>1
<1>10. g[amount] = (IF amount \in DOMAIN log THEN f[amount] ELSE 0) + d
  <2>1. CASE amount \in DOMAIN log
    <3>1. g[amount] = (log[amount] + 1) * d /\ f[amount] = log[amount] * d /\ log[amount] \in Int
      BY <1>1, <1>2, <1>8, <2>1
    <3>2. \A a, b \in Int : (a + 1) * b = a * b + b
      OBVIOUS
    <3>. QED  BY <1>7, <2>1, <3>1, <3>2
  <2>2. CASE amount \notin DOMAIN log
    <3>1. g[amount] = (0 + 1) * d
      BY <1>1, <1>8, <2>2
    <3>. QED  BY <1>7, <2>2, <3>1
  <2>. QED  BY <2>1, <2>2
<1>. HIDE DEF f, g, d
<1>11. IsFiniteSet(DOMAIN log)
  BY DEF IsLog
<1>12. Total(g) = Total(f) + d
  BY <1>7, <1>9, <1>10, <1>11, TotalOneRaised
<1>. QED  BY <1>6, <1>12 DEF f, g, d, grown

LEMMA LoggedSame ==
  ASSUME LeaveTypeOK, NEW who \in Staff, audited'[who] = audited[who]
  PROVE  Logged(who) \in Int /\ Logged(who)' = Logged(who) /\ Logged(who)' = Logged(who) + 0
<1>1. Logged(who) \in Int
  BY AmountsTyped, LoggedIsTotal DEF LeaveTypeOK
<1>2. Logged(who)' = Logged(who)
  BY LoggedIsTotal
<1>. QED  BY <1>1, <1>2

LEMMA WithCounts ==
  ASSUME NEW table, IsLedger(table), NEW row \in LedgerRow, NEW s
  PROVE  Total(Counted(With(table, row), s)) =
           Total(Counted(table, s)) + (IF row.source = "accrual" /\ s \in row.of THEN 1 ELSE 0)
<1>. DEFINE grown == With(table, row)
            f == Counted(table, s)
            g == Counted(grown, s)
            d == IF s \in row.of THEN 1 ELSE 0
<1>1. /\ IsLedger(grown) /\ DOMAIN grown = DOMAIN table \cup {row}
      /\ \A x \in DOMAIN table \ {row} : grown[x] = table[x]
      /\ grown[row] = (IF row \in DOMAIN table THEN table[row] ELSE 0) + 1
  BY WithRow
<1>2. IsFiniteSet(CreditRows(table)) /\ f \in [CreditRows(table) -> Int] /\ Total(f) \in Int
  BY CountedTyped
<1>3. g \in [CreditRows(grown) -> Int]
  BY <1>1, CountedTyped
<1>4. \A x \in CreditRows(table) : f[x] = IF s \in x.of THEN table[x] ELSE 0
  BY DEF Counted
<1>5. \A x \in CreditRows(grown) : g[x] = IF s \in x.of THEN grown[x] ELSE 0
  BY DEF Counted
<1>6. row \in DOMAIN table => table[row] \in Int
  BY DEF IsLedger
<1>. HIDE DEF f, g, grown
<1>7. CASE row.source = "accrual"
  <2>1. CreditRows(grown) = CreditRows(table) \cup {row}
    BY <1>1, <1>7 DEF CreditRows
  <2>2. \A y \in CreditRows(table) \ {row} : f[y] = g[y]
    BY <1>1, <1>4, <1>5, <2>1 DEF CreditRows
  <2>3. row \in CreditRows(table) <=> row \in DOMAIN table
    BY <1>7 DEF CreditRows
  <2>4. g[row] = (IF row \in CreditRows(table) THEN f[row] ELSE 0) + d
    BY <1>1, <1>4, <1>5, <1>6, <2>1, <2>3
  <2>5. Total(g) = Total(f) + d
    BY <1>2, <1>3, <2>1, <2>2, <2>4, TotalOneRaised
  <2>. QED  BY <1>7, <2>5 DEF f, g, grown
<1>8. CASE row.source # "accrual"
  <2>1. CreditRows(grown) = CreditRows(table) /\ \A y \in CreditRows(table) : grown[y] = table[y]
    BY <1>1, <1>8 DEF CreditRows
  <2>2. f = g
    BY <2>1 DEF f, g, Counted
  <2>. QED  BY <1>2, <1>8, <2>2 DEF f, g, grown
<1>. QED  BY <1>7, <1>8

\* What a row that is inserted does to balances, credits and deductions.
LEMMA InsertEffect ==
  ASSUME LeaveTypeOK, NEW row \in LedgerRow, Insert(row)
  PROVE  /\ IsLedger(ledger) /\ IsLedger(ledger')
         /\ \A who : Balance(who) \in Int
         /\ \A who : Balance(who)' = Balance(who) + (IF row.who = who THEN row.delta ELSE 0)
         /\ \A s : CreditsOf(s) \in Int
         /\ \A s : CreditsOf(s)' = CreditsOf(s) + (IF row.source = "accrual" /\ s \in row.of
                                                  THEN 1 ELSE 0)
         /\ \A l : Deductions(l)' = IF row.source = "request" /\ row.ref = l
                                    THEN Deductions(l) \cup {row} ELSE Deductions(l)
         /\ \A x \in DOMAIN ledger \ {row} : ledger'[x] = ledger[x]
         /\ ledger'[row] = (IF row \in DOMAIN ledger THEN ledger[row] ELSE 0) + 1
<1>1. IsLedger(ledger) /\ ledger' = With(ledger, row)
  BY DEF LeaveTypeOK, IsLedger, Insert, With
<1>2. /\ IsLedger(ledger') /\ DOMAIN ledger' = DOMAIN ledger \cup {row}
      /\ \A x \in DOMAIN ledger \ {row} : ledger'[x] = ledger[x]
      /\ ledger'[row] = (IF row \in DOMAIN ledger THEN ledger[row] ELSE 0) + 1
  BY <1>1, WithRow
<1>3. ASSUME NEW who
      PROVE  /\ Balance(who) \in Int
             /\ Balance(who)' = Balance(who) + (IF row.who = who THEN row.delta ELSE 0)
  BY <1>1, BalanceIsTotal, WeighedTyped, WithWeighs
<1>4. ASSUME NEW s
      PROVE  /\ CreditsOf(s) \in Int
             /\ CreditsOf(s)' = CreditsOf(s) + (IF row.source = "accrual" /\ s \in row.of
                                                THEN 1 ELSE 0)
  BY <1>1, CreditsAreTotal, CountedTyped, WithCounts
<1>5. ASSUME NEW l
      PROVE  Deductions(l)' = IF row.source = "request" /\ row.ref = l
                              THEN Deductions(l) \cup {row} ELSE Deductions(l)
  BY <1>2 DEF Deductions, BagToSet
<1>. QED  BY <1>1, <1>2, <1>3, <1>4, <1>5

-----------------------------------------------------------------------------
(* What has been spent and what is due, as totals *)

Approved(told) == {k \in DOMAIN told : told[k] = "approve"}

LEMMA ApprovedAppend ==
  ASSUME NEW told \in Seq({"request"} \cup Reviews), NEW kind \in {"request"} \cup Reviews
  PROVE  /\ Cardinality(Approved(told)) \in Nat
         /\ Cardinality(Approved(Append(told, kind))) =
              Cardinality(Approved(told)) + (IF kind = "approve" THEN 1 ELSE 0)
<1>. DEFINE n == Len(told)
            more == Append(told, kind)
<1>1. n \in Nat /\ DOMAIN told = 1..n /\ DOMAIN more = 1..(n + 1) /\ more[n + 1] = kind
      /\ \A k \in 1..n : more[k] = told[k]
  OBVIOUS
<1>. HIDE DEF n, more
<1>2. IsFiniteSet(Approved(told)) /\ n + 1 \notin Approved(told)
  <2>1. IsFiniteSet(1..n) /\ Approved(told) \in SUBSET (1..n)
    BY <1>1, FS_Interval DEF Approved
  <2>. QED  BY <1>1, <2>1, FS_Subset
<1>3. Cardinality(Approved(told)) \in Nat
  BY <1>2, FS_CardinalityType
<1>4. CASE kind = "approve"
  <2>1. Approved(more) = Approved(told) \cup {n + 1}
    BY <1>1, <1>4 DEF Approved
  <2>2. Cardinality(Approved(more)) = Cardinality(Approved(told)) + 1
    BY <1>2, <2>1, FS_AddElement
  <2>. QED  BY <1>3, <1>4, <2>2 DEF more
<1>5. CASE kind # "approve"
  <2>1. Approved(more) = Approved(told)
    BY <1>1, <1>5 DEF Approved
  <2>. QED  BY <1>3, <1>5, <2>1 DEF more
<1>. QED  BY <1>4, <1>5

TrackedIn(table, who) == {l \in LeaveIds : table[l].who = who /\ table[l].type # "unpaid"}
Part(table, told, l) == Cardinality(Approved(told[l])) * table[l].hours
Parts(table, told, who) == [l \in TrackedIn(table, who) |-> Part(table, told, l)]

LEMMA SpentIsTotal ==
  ASSUME NEW who
  PROVE  /\ Spent(who) = Total(Parts(leaves, reviews, who))
         /\ Spent(who)' = Total(Parts(leaves', reviews', who))
BY FunctionSumIsTotal DEF Spent, Tracked, Approvals, Approved, TrackedIn, Part, Parts

LEMMA PartsTyped ==
  ASSUME NEW table \in [LeaveIds -> LeaveRow], NEW who,
         NEW told \in [LeaveIds -> Seq({"request"} \cup Reviews)]
  PROVE  /\ IsFiniteSet(TrackedIn(table, who))
         /\ Parts(table, told, who) \in [TrackedIn(table, who) -> Int]
         /\ \A l \in LeaveIds : Part(table, told, l) \in Int
         /\ Total(Parts(table, told, who)) \in Int
<1>1. IsFiniteSet(TrackedIn(table, who))
  <2>1. IsFiniteSet(LeaveIds) /\ TrackedIn(table, who) \in SUBSET LeaveIds
    BY FiniteAssumption DEF TrackedIn
  <2>. QED  BY <2>1, FS_Subset
<1>2. ASSUME NEW l \in LeaveIds PROVE Part(table, told, l) \in Int
  <2>1. table[l].hours \in Nat
    BY DEF LeaveRow
  <2>2. Cardinality(Approved(told[l])) \in Nat
    BY ApprovedAppend
  <2>3. \A a, b \in Nat : a * b \in Int
    OBVIOUS
  <2>. QED  BY <2>1, <2>2, <2>3 DEF Part
<1>3. Parts(table, told, who) \in [TrackedIn(table, who) -> Int]
  BY <1>2 DEF Parts, TrackedIn
<1>. QED  BY <1>1, <1>2, <1>3, TotalNumber

\* A step about one leave changes what is spent by what that leave takes.
LEMMA SpentMoves ==
  ASSUME LeaveTypeOK, LeaveTypeOK', NEW who, NEW l \in LeaveIds,
         \A m \in LeaveIds \ {l} : leaves'[m] = leaves[m] /\ reviews'[m] = reviews[m],
         NEW d \in Int,
         l \in TrackedIn(leaves, who) => l \in TrackedIn(leaves', who),
         l \in TrackedIn(leaves', who) =>
           Part(leaves', reviews', l) =
             (IF l \in TrackedIn(leaves, who) THEN Part(leaves, reviews, l) ELSE 0) + d,
         l \notin TrackedIn(leaves', who) => d = 0
  PROVE  Spent(who) \in Int /\ Spent(who)' = Spent(who) + d
<1>. DEFINE S == TrackedIn(leaves, who)
            f == Parts(leaves, reviews, who)
            g == Parts(leaves', reviews', who)
<1>1. /\ IsFiniteSet(S) /\ f \in [S -> Int] /\ Total(f) \in Int
      /\ g \in [TrackedIn(leaves', who) -> Int]
  BY PartsTyped DEF LeaveTypeOK
<1>2. \A m \in LeaveIds \ {l} : m \in TrackedIn(leaves', who) <=> m \in S
  BY DEF TrackedIn
<1>3. /\ \A m \in S : f[m] = Part(leaves, reviews, m)
      /\ \A m \in TrackedIn(leaves', who) : g[m] = Part(leaves', reviews', m)
  BY DEF Parts
<1>4. \A m \in LeaveIds \ {l} : Part(leaves', reviews', m) = Part(leaves, reviews, m)
  BY DEF Part
<1>5. S \subseteq LeaveIds /\ TrackedIn(leaves', who) \subseteq LeaveIds
  BY DEF TrackedIn
<1>6. Spent(who) = Total(f) /\ Spent(who)' = Total(g)
  BY SpentIsTotal
<1>. HIDE DEF f, g, S
<1>7. CASE l \in TrackedIn(leaves', who)
  <2>1. TrackedIn(leaves', who) = S \cup {l}
    BY <1>2, <1>5, <1>7 DEF S
  <2>2. \A m \in S \ {l} : f[m] = g[m]
    BY <1>3, <1>4, <1>5, <2>1
  <2>3. g[l] = (IF l \in S THEN f[l] ELSE 0) + d
    BY <1>3, <1>7 DEF S
  <2>4. /\ IsFiniteSet(S) /\ f \in [S -> Int] /\ Total(f) \in Int /\ g \in [S \cup {l} -> Int]
        /\ d \in Int
    BY <1>1, <2>1
  <2>5. Total(g) = Total(f) + d
    BY ONLY <2>2, <2>3, <2>4, TotalOneRaised
  <2>. QED  BY <1>1, <1>6, <2>5
<1>8. CASE l \notin TrackedIn(leaves', who)
  <2>1. TrackedIn(leaves', who) = S /\ d = 0
    BY <1>2, <1>5, <1>8 DEF S
  <2>2. l \notin S
    BY <1>8 DEF S
  <2>3. f = g
    BY <1>1, <1>3, <1>4, <1>5, <2>1, <2>2
  <2>. QED  BY <1>1, <1>6, <2>1, <2>3
<1>. QED  BY <1>7, <1>8

\* A step that changes no leave but its status, and tells nothing.
LEMMA SpentSame ==
  ASSUME LeaveTypeOK, NEW who, reviews' = reviews,
         \A l \in LeaveIds : /\ leaves'[l].who = leaves[l].who
                             /\ leaves'[l].type = leaves[l].type
                             /\ leaves'[l].hours = leaves[l].hours
  PROVE  Spent(who) \in Int /\ Spent(who)' = Spent(who)
<1>1. TrackedIn(leaves', who) = TrackedIn(leaves, who)
  BY DEF TrackedIn
<1>2. Parts(leaves', reviews', who) = Parts(leaves, reviews, who)
  BY <1>1 DEF Parts, Part, TrackedIn
<1>3. Spent(who)' = Spent(who)
  BY <1>2, SpentIsTotal
<1>. QED  BY <1>3, SpentIsTotal, PartsTyped DEF LeaveTypeOK

Dues(who) == [r \in Requests |-> Due(r, who)]

LEMMA DueIsTotal ==
  ASSUME NEW who
  PROVE  DueTo(who) = Total(Dues(who)) /\ DueTo(who)' = Total(Dues(who)')
BY FunctionSumIsTotal DEF DueTo, Dues

LEMMA DueTyped ==
  ASSUME NEW who, NEW r \in Requests
  PROVE  /\ LeaveTypeOK => Due(r, who) \in Int
         /\ LeaveTypeOK' => Due(r, who)' \in Int
<1>1. \A n \in Nat : -n \in Int
  OBVIOUS
<1>2. ASSUME LeaveTypeOK PROVE Due(r, who) \in Int
  <2>1. Stored(work[r].delta) \in Int
    BY <1>2, StoredAmount DEF LeaveTypeOK, Locals
  <2>2. work[r].leave \in Tracked(who) => leaves[work[r].leave].hours \in Nat
    BY <1>2 DEF LeaveTypeOK, LeaveRow, Tracked
  <2>. QED  BY <1>1, <2>1, <2>2 DEF Due
<1>3. ASSUME LeaveTypeOK' PROVE Due(r, who)' \in Int
  <2>1. Stored(work'[r].delta) \in Int
    BY <1>3, StoredAmount DEF LeaveTypeOK, Locals
  <2>2. (work[r].leave \in Tracked(who))' => leaves'[work'[r].leave].hours \in Nat
    BY <1>3 DEF LeaveTypeOK, LeaveRow, Tracked
  <2>. QED  BY <1>1, <2>1, <2>2 DEF Due
<1>. QED  BY <1>2, <1>3

\* A step of one request changes what is due by what it was and is to do with that.
LEMMA DueMoves ==
  ASSUME LeaveTypeOK, LeaveTypeOK', NEW who, NEW r \in Requests,
         \A q \in Requests \ {r} : Due(q, who)' = Due(q, who)
  PROVE  DueTo(who) \in Int /\ DueTo(who)' = DueTo(who) + (Due(r, who)' - Due(r, who))
<1>1. \A q \in Requests : Due(q, who) \in Int
  BY DueTyped
<1>2. \A q \in Requests : Due(q, who)' \in Int
  BY DueTyped
<1>. DEFINE f == Dues(who)
            g == Dues(who)'
<1>3. f \in [Requests -> Int] /\ \A q \in Requests : f[q] = Due(q, who)
  BY <1>1 DEF Dues
<1>4. g \in [Requests -> Int] /\ \A q \in Requests : g[q] = Due(q, who)'
  BY <1>2 DEF Dues
<1>5. DueTo(who) = Total(f) /\ DueTo(who)' = Total(g)
  BY DueIsTotal
<1>. HIDE DEF f, g
<1>6. IsFiniteSet(Requests)
  BY FiniteAssumption
<1>7. Total(g) = Total(f) + (g[r] - f[r])
  BY <1>3, <1>4, <1>6, TotalOneChanged
<1>8. Total(f) \in Int
  BY <1>3, <1>6, TotalNumber
<1>. QED  BY <1>3, <1>4, <1>5, <1>7, <1>8

-----------------------------------------------------------------------------
(* What steps have in common *)

OthersKeep(r) ==
  DOMAIN pc' = Requests /\ \A q \in Requests \ {r} : pc'[q] = pc[q] /\ work'[q] = work[q]

\* A leave that has been made changes in its status only.
LeavesKeep ==
  \A l \in LeaveIds : leaves[l].status # "none" =>
    \E status \in Statuses \ {"none"} : leaves'[l] = [leaves[l] EXCEPT !.status = status]

OthersRest(r) == ~overlap => \A q \in Requests \ {r} : pc[q] = "idle"

LEMMA AloneAtWork ==
  ASSUME LeaveInv, NEW r \in Requests, pc[r] # "idle"
  PROVE  OthersRest(r)
BY DEF LeaveInv, OneAtATime, OthersRest

\* What the others have in hand stays right.
LEMMA OthersHandOK ==
  ASSUME LeaveInv, NEW r \in Requests, OthersKeep(r), LeavesKeep, UNCHANGED now,
         NEW q \in Requests \ {r}
  PROVE  HandOK(q)'
<1>1. HandOK(q) /\ pc'[q] = pc[q] /\ work'[q] = work[q]
  BY DEF LeaveInv, OthersKeep
<1>2. ASSUME NEW l \in LeaveIds, leaves[l].status # "none"
      PROVE  /\ leaves'[l].status # "none"
             /\ [leaves'[l] EXCEPT !.status = "pending"] = [leaves[l] EXCEPT !.status = "pending"]
  <2>1. leaves[l] \in LeaveRow
    BY DEF LeaveInv, LeaveShapeOK, LeaveTypeOK
  <2>2. PICK status \in Statuses \ {"none"} : leaves'[l] = [leaves[l] EXCEPT !.status = status]
    BY <1>2 DEF LeavesKeep
  <2>. QED  BY <2>1, <2>2 DEF LeaveRow
<1>3. pc[q] \in ForLeave => work[q].leave \in LeaveIds
  BY <1>1 DEF HandOK
<1>. QED  BY <1>1, <1>2, <1>3 DEF HandOK, ForLeave, Accruing, ForOne

\* A step of one request keeps the invariant if it keeps what that request has in hand and
\* what the tables say.
LEMMA LeaveStepKeeps ==
  ASSUME LeaveInv, NEW r \in Requests, OthersKeep(r), OthersRest(r),
         UNCHANGED <<now, rows, overlap>>, ShiftsTypeOK', LeaveTypeOK', LeavesKeep,
         \A l \in LeaveIds : UnmadeOK(l)', HandOK(r)',
         failures' = 0 => \A who \in Staff : BalanceFits(who)',
         ~overlap =>
           /\ StillSo(r)'
           /\ \A who \in Staff : marks'[who] <= now
           /\ \A l \in LeaveIds : Covered(l)'
           /\ \A l \in LeaveIds \ cutShort' : LeaveFits(l)'
           /\ \A s \in Shifts : Owner[s] \notin cutShort' => CreditFits(s)'
  PROVE  LeaveInv'
<1>1. LeaveShapeOK'
  BY DEF LeaveInv, LeaveShapeOK, OthersKeep
<1>2. \A s \in Shifts : shifts'[s].out = Null => ~shifts'[s].edited
  BY DEF LeaveInv, rows
<1>3. \A q \in Requests : HandOK(q)'
  BY OthersHandOK
<1>4. ASSUME ~overlap' PROVE OneAtATime' /\ \A q \in Requests : StillSo(q)'
  <2>1. \A q \in Requests \ {r} : pc'[q] = "idle"
    BY <1>4 DEF OthersRest, OthersKeep
  <2>2. OneAtATime'
    BY <2>1 DEF OneAtATime
  <2>3. ASSUME NEW q \in Requests \ {r} PROVE StillSo(q)'
    BY <2>1 DEF StillSo, Accruing
  <2>. QED  BY <1>4, <2>2, <2>3
<1>. QED  BY <1>1, <1>2, <1>3, <1>4 DEF LeaveInv

LEMMA LedgerSame ==
  ASSUME ledger' = ledger
  PROVE  /\ \A who : Balance(who)' = Balance(who)
         /\ \A s : CreditsOf(s)' = CreditsOf(s)
         /\ \A l : Deductions(l)' = Deductions(l)
<1>1. ASSUME NEW who PROVE Balance(who)' = Balance(who)
  BY BalanceIsTotal
<1>2. ASSUME NEW s PROVE CreditsOf(s)' = CreditsOf(s)
  BY CreditsAreTotal
<1>3. ASSUME NEW l PROVE Deductions(l)' = Deductions(l)
  BY DEF Deductions
<1>. QED  BY <1>1, <1>2, <1>3

\* A step that is not about a leave leaves its story as it was,
LEMMA LeaveFitsKept ==
  ASSUME NEW r \in Requests, OthersKeep(r), NEW l \in LeaveIds,
         leaves'[l] = leaves[l], reviews'[l] = reviews[l], Deductions(l)' = Deductions(l),
         \A x \in Deductions(l) : ledger'[x] = ledger[x],
         ~Reviewing(r, l), ~Reviewing(r, l)', LeaveFits(l)
  PROVE  LeaveFits(l)'
<1>1. ASSUME NEW q \in Requests
      PROVE  /\ Reviewing(q, l)' <=> Reviewing(q, l)
             /\ Deducting(q, l)' <=> Deducting(q, l)
             /\ Reviewing(q, l) => (Is(q, {"request"})' <=> Is(q, {"request"}))
  BY DEF OthersKeep, Reviewing, Deducting, Is
<1>2. (\A q \in Requests : ~Reviewing(q, l)') => Told(l)'
  BY <1>1 DEF LeaveFits, Told
<1>3. \A q \in Requests : Reviewing(q, l)' =>
        reviews'[l] = IF Is(q, {"request"})' THEN <<>> ELSE <<"request">>
  BY <1>1 DEF LeaveFits
<1>4. (\A q \in Requests : ~Deducting(q, l)') => Deducted(l)'
  BY <1>1 DEF LeaveFits, Deducted
<1>5. \A q \in Requests : Deducting(q, l)' => Deductions(l)' = {}
  BY <1>1 DEF LeaveFits
<1>. QED  BY <1>2, <1>3, <1>4, <1>5 DEF LeaveFits

\* and what it was checked against,
LEMMA CoveredKept ==
  ASSUME NEW r \in Requests, OthersKeep(r), NEW l \in LeaveIds,
         leaves'[l] = leaves[l], stale \subseteq stale',
         l \notin stale' => \A who : who = leaves[l].who => Balance(who)' = Balance(who),
         Deducting(r, l)' => Deducting(r, l), Covered(l)
  PROVE  Covered(l)'
<1>1. \A q \in Requests : Deducting(q, l)' => Deducting(q, l)
  BY DEF OthersKeep, Deducting
<1>2. PICK who : who = leaves[l].who
  OBVIOUS
<1>3. Balance(leaves[l].who) = Balance(who) /\ Balance(leaves[l].who)' = Balance(who)'
  BY <1>2 DEF Balance
<1>. QED  BY <1>1, <1>2, <1>3 DEF Covered

\* and the credit of a shift.
LEMMA CreditFitsKept ==
  ASSUME NEW r \in Requests, OthersKeep(r), NEW s \in Shifts,
         UNCHANGED <<rows, late>>, marks'[Owner[s]] = marks[Owner[s]],
         CreditsOf(s)' = CreditsOf(s),
         ~Crediting(r, Owner[s]), ~Crediting(r, Owner[s])', CreditFits(s)
  PROVE  CreditFits(s)'
<1>1. ASSUME NEW q \in Requests
      PROVE  /\ Crediting(q, Owner[s])' <=> Crediting(q, Owner[s])
             /\ Crediting(q, Owner[s]) => work'[q] = work[q]
  BY DEF OthersKeep, Crediting
<1>. QED  BY <1>1 DEF CreditFits, CreditedUpTo, rows

\* The balance stays on record if what it changes by is due.
LEMMA BalanceMoves ==
  ASSUME LeaveTypeOK, LeaveTypeOK', NEW who \in Staff, BalanceFits(who), Balance(who) \in Int,
         NEW b \in Int, NEW a \in Int, NEW t \in Int, NEW d \in Int, b = (a - t) + d,
         Balance(who)' = Balance(who) + b,
         Logged(who) \in Int /\ Logged(who)' = Logged(who) + a,
         Spent(who) \in Int /\ Spent(who)' = Spent(who) + t,
         DueTo(who) \in Int /\ DueTo(who)' = DueTo(who) + d
  PROVE  BalanceFits(who)'
<1>1. Balance(who) = Logged(who) - Spent(who) + DueTo(who)
  BY DEF BalanceFits
<1>2. Balance(who)' = Logged(who)' - Spent(who)' + DueTo(who)'
  BY <1>1
<1>. QED  BY <1>2 DEF BalanceFits

\* A request goes to a statement with what it has in hand, and no other is touched.
LEMMA GoesWith ==
  ASSUME LeaveInv, NEW r \in Requests, NEW stage, Goto(r, stage),
         NEW mine \in Locals, work' = [work EXCEPT ![r] = mine]
  PROVE  /\ OthersKeep(r) /\ pc'[r] = stage /\ work'[r] = mine
         /\ work' \in [Requests -> Locals]
BY DEF LeaveInv, LeaveShapeOK, LeaveTypeOK, Goto, OthersKeep

LEMMA GoesOn ==
  ASSUME LeaveInv, NEW r \in Requests, NEW stage, Goto(r, stage), UNCHANGED work
  PROVE  /\ OthersKeep(r) /\ pc'[r] = stage /\ work'[r] = work[r]
         /\ work' \in [Requests -> Locals]
BY DEF LeaveInv, LeaveShapeOK, LeaveTypeOK, Goto, OthersKeep

LEMMA NoWorkFits == NoWork \in Locals
BY DEF NoWork, NoLeave, Locals, LeaveRow, Statuses

\* A request that is done has nothing in hand.
LEMMA DoneOK ==
  ASSUME LeaveInv, NEW r \in Requests, Respond(r), now' \in Times
  PROVE  /\ OthersKeep(r) /\ pc'[r] = "idle" /\ work'[r] = NoWork
         /\ work' \in [Requests -> Locals] /\ HandOK(r)' /\ StillSo(r)'
<1>2. OthersKeep(r) /\ pc'[r] = "idle" /\ work'[r] = NoWork /\ work' \in [Requests -> Locals]
  BY NoWorkFits, GoesWith DEF Respond
<1>3. NoWork.through <= now'
  BY BoundsAssumption DEF NoWork, Times
<1>. QED  BY <1>2, <1>3 DEF HandOK, StillSo, ForLeave, Accruing, ForOne

\* A step that only reads.
Telling == {"insertDeduction", "auditLeave", "setMark", "auditCredit"}

LEMMA LeaveQuiet ==
  ASSUME LeaveInv, NEW r \in Requests, OthersKeep(r), OthersRest(r),
         UNCHANGED <<now, rows, overlap, failures, tables, history>>, ShiftsTypeOK',
         cutShort \subseteq cutShort', work' \in [Requests -> Locals],
         pc[r] \notin Telling, pc'[r] \notin Telling, HandOK(r)', ~overlap => StillSo(r)'
  PROVE  LeaveInv'
<1>1. LeaveTypeOK /\ LeaveTypeOK'
  BY DEF LeaveInv, LeaveShapeOK, LeaveTypeOK, tables, history
<1>2. LeavesKeep /\ \A l \in LeaveIds : UnmadeOK(l)'
  <2>1. \A l \in LeaveIds : leaves[l].status # "none" =>
          leaves'[l] = [leaves[l] EXCEPT !.status = leaves[l].status]
    BY <1>1 DEF LeaveTypeOK, LeaveRow, tables
  <2>2. \A l \in LeaveIds : leaves[l].status \in Statuses
    BY <1>1 DEF LeaveTypeOK, LeaveRow
  <2>. QED  BY <2>1, <2>2 DEF LeavesKeep, LeaveInv, UnmadeOK, tables, history
<1>3. /\ \A who : Balance(who)' = Balance(who)
      /\ \A s : CreditsOf(s)' = CreditsOf(s)
      /\ \A l : Deductions(l)' = Deductions(l)
  BY LedgerSame DEF tables
<1>4. ASSUME failures' = 0, NEW who \in Staff PROVE BalanceFits(who)'
  <2>1. BalanceFits(who)
    BY <1>4 DEF LeaveInv
  <2>2. Spent(who)' = Spent(who)
    BY <1>1, SpentSame DEF tables, history
  <2>3. \A q \in Requests : Due(q, who)' = Due(q, who)
    <3>1. ASSUME NEW q \in Requests \ {r} PROVE Due(q, who)' = Due(q, who)
      BY DEF Due, Tracked, OthersKeep, tables
    <3>2. Due(r, who) = 0 /\ Due(r, who)' = 0
      BY DEF Due, Telling
    <3>. QED  BY <3>1, <3>2
  <2>4. DueTo(who)' = DueTo(who)
    <3>1. DueTo(who)' = DueTo(who) + (Due(r, who)' - Due(r, who)) /\ DueTo(who) \in Int
      BY <1>1, <2>3, DueMoves
    <3>2. Due(r, who) \in Int /\ Due(r, who)' = Due(r, who)
      BY <1>1, <2>3, DueTyped
    <3>. QED  BY <3>1, <3>2
  <2>5. Logged(who)' = Logged(who)
    BY <1>1, LoggedSame DEF history
  <2>. QED  BY <1>3, <2>1, <2>2, <2>4, <2>5 DEF BalanceFits
<1>5. ASSUME ~overlap
      PROVE  /\ \A who \in Staff : marks'[who] <= now
             /\ \A l \in LeaveIds : Covered(l)'
             /\ \A l \in LeaveIds \ cutShort' : LeaveFits(l)'
             /\ \A s \in Shifts : Owner[s] \notin cutShort' => CreditFits(s)'
  <2>1. \A who \in Staff : marks'[who] <= now
    BY <1>5 DEF LeaveInv, tables
  <2>2. ASSUME NEW l \in LeaveIds PROVE Covered(l)'
    <3>1. Covered(l) /\ ~Deducting(r, l)'
      BY <1>5 DEF LeaveInv, Deducting, Telling
    <3>. QED  BY <1>3, <3>1, CoveredKept DEF tables, history
  <2>3. ASSUME NEW l \in LeaveIds \ cutShort' PROVE LeaveFits(l)'
    <3>1. LeaveFits(l) /\ ~Reviewing(r, l) /\ ~Reviewing(r, l)'
      BY <1>5 DEF LeaveInv, Reviewing, Telling
    <3>. QED  BY <1>3, <3>1, LeaveFitsKept DEF tables, history
  <2>4. ASSUME NEW s \in Shifts, Owner[s] \notin cutShort' PROVE CreditFits(s)'
    <3>1. CreditFits(s) /\ ~Crediting(r, Owner[s]) /\ ~Crediting(r, Owner[s])'
      BY <1>5, <2>4 DEF LeaveInv, Crediting, Telling
    <3>. QED  BY <1>3, <3>1, CreditFitsKept DEF tables, history
  <2>. QED  BY <2>1, <2>2, <2>3, <2>4
<1>. QED  BY <1>1, <1>2, <1>4, <1>5, LeaveStepKeeps

-----------------------------------------------------------------------------
(* The statements that read *)

LEMMA KeepingKeeps ==
  ASSUME LeaveInv, Keeping
  PROVE  ShiftsTypeOK' /\ now' \in Times /\ UNCHANGED <<now, rows, overlap, failures, cutShort>>
BY DEF LeaveInv, LeaveShapeOK, ShiftsTypeOK, Keeping, rows, bounds

LEMMA BalanceNumber ==
  ASSUME LeaveTypeOK, NEW who
  PROVE  Balance(who) \in Int
<1>1. IsLedger(ledger)
  BY DEF LeaveTypeOK, IsLedger
<1>. QED  BY <1>1, BalanceIsTotal, WeighedTyped

LEMMA ReadBalanceStep ==
  ASSUME LeaveInv, NEW r \in Requests, ReadBalance(r)
  PROVE  LeaveInv'
<1>1. /\ HandOK(r) /\ pc[r] = "readBalance" /\ LeaveTypeOK
      /\ Keeping /\ UNCHANGED <<tables, history>>
  BY DEF LeaveInv, LeaveShapeOK, ReadBalance, At
<1>2. /\ ShiftsTypeOK' /\ now' \in Times /\ OthersRest(r)
      /\ UNCHANGED <<now, rows, overlap, failures, cutShort>>
  BY <1>1, KeepingKeeps, AloneAtWork
<1>3. CASE Respond(r)
  BY <1>1, <1>2, <1>3, DoneOK, LeaveQuiet DEF Telling
<1>4. CASE /\ ~(10 * Balance(work[r].row.who) < work[r].delta)
           /\ Goto(r, "insertLeave") /\ UNCHANGED work
  <2>1. /\ OthersKeep(r) /\ pc'[r] = "insertLeave" /\ work'[r] = work[r]
        /\ work' \in [Requests -> Locals]
    BY <1>4, GoesOn
  <2>2. HandOK(r)'
    BY <1>1, <1>2, <2>1 DEF HandOK, ForLeave, Accruing, ForOne
  <2>3. PICK who : who = work[r].row.who
    OBVIOUS
  <2>4. Balance(who) >= Stored(work[r].delta)
    <3>1. work[r].delta \in Int /\ Balance(who) \in Int
      BY <1>1, BalanceNumber DEF LeaveTypeOK, Locals
    <3>2. 10 * Balance(who) >= work[r].delta
      BY <1>4, <2>3, <3>1
    <3>. QED  BY <3>1, <3>2, StoredAmount
  <2>5. Balance(work[r].row.who)' >= Stored(work'[r].delta)
    <3>1. Balance(who)' = Balance(who)
      BY <1>1, LedgerSame DEF tables
    <3>. QED  BY <2>1, <2>3, <2>4, <3>1 DEF Balance
  <2>6. StillSo(r)'
    BY <2>1, <2>5 DEF StillSo, Accruing
  <2>. QED  BY <1>1, <1>2, <2>1, <2>2, <2>6, LeaveQuiet DEF Telling
<1>. QED  BY <1>3, <1>4 DEF ReadBalance

LEMMA ReadLeaveStep ==
  ASSUME LeaveInv, NEW r \in Requests, ReadLeave(r)
  PROVE  LeaveInv'
<1>1. /\ HandOK(r) /\ pc[r] = "readLeave" /\ LeaveTypeOK
      /\ Keeping /\ UNCHANGED <<tables, history>>
  BY DEF LeaveInv, LeaveShapeOK, ReadLeave, At
<1>2. /\ ShiftsTypeOK' /\ now' \in Times /\ OthersRest(r)
      /\ UNCHANGED <<now, rows, overlap, failures, cutShort>>
  BY <1>1, KeepingKeeps, AloneAtWork
<1>3. CASE Respond(r)
  BY <1>1, <1>2, <1>3, DoneOK, LeaveQuiet DEF Telling
<1>. DEFINE row == leaves[work[r].leave]
            mine == [work[r] EXCEPT !.row = row]
<1>4. CASE row.status = "pending" /\ Goto(r, "setReviewed") /\ work' = [work EXCEPT ![r].row = row]
  <2>1. work[r].leave \in LeaveIds /\ work[r].kind \in Reviews /\ row \in LeaveRow
    BY <1>1 DEF HandOK, ForLeave, LeaveTypeOK
  <2>2. mine \in Locals /\ work' = [work EXCEPT ![r] = mine]
    <3>1. work[r] \in Locals
      BY <1>1 DEF LeaveTypeOK
    <3>. QED  BY <1>4, <2>1, <3>1 DEF Locals
  <2>3. /\ OthersKeep(r) /\ pc'[r] = "setReviewed" /\ work'[r] = mine
        /\ work' \in [Requests -> Locals]
    BY <1>4, <2>2, GoesWith
  <2>4. /\ mine.kind = work[r].kind /\ mine.leave = work[r].leave /\ mine.row = row
        /\ mine.through = work[r].through
    BY <1>1 DEF LeaveTypeOK, Locals
  <2>5. row = [row EXCEPT !.status = "pending"]
    BY <1>4, <2>1 DEF LeaveRow
  <2>6. HandOK(r)'
    <3>1. leaves' = leaves /\ now' = now
      BY <1>1, <1>2 DEF tables
    <3>2. work[r].through <= now
      BY <1>1 DEF HandOK
    <3>. HIDE DEF mine
    <3>. QED  BY <1>4, <2>1, <2>3, <2>4, <2>5, <3>1, <3>2 DEF HandOK, ForLeave, Accruing, ForOne
  <2>7. StillSo(r)'
    <3>1. leaves' = leaves
      BY <1>1 DEF tables
    <3>. QED  BY <1>4, <2>3, <2>4, <3>1 DEF StillSo, Accruing
  <2>. QED  BY <1>1, <1>2, <2>3, <2>6, <2>7, LeaveQuiet DEF Telling
<1>. QED  BY <1>3, <1>4 DEF ReadLeave

\* A run that is done with an employee goes on to the next, or is done.
LEMMA NextEmployeeOK ==
  ASSUME LeaveInv, NEW r \in Requests, NextEmployee(r), UNCHANGED now
  PROVE  /\ OthersKeep(r) /\ pc'[r] \in {"idle", "readMark"} /\ work' \in [Requests -> Locals]
         /\ HandOK(r)'
         /\ (\A who \in Staff : marks'[who] <= work[r].through) => StillSo(r)'
<1>1. work[r] \in Locals /\ work[r].through <= now /\ now \in Times
  BY DEF LeaveInv, LeaveShapeOK, LeaveTypeOK, ShiftsTypeOK, HandOK
<1>2. CASE Respond(r)
  BY <1>1, <1>2, DoneOK
<1>. DEFINE mine == [NoWork EXCEPT !.kind = "accrue", !.todo = work[r].todo,
                                   !.through = work[r].through]
<1>3. CASE Goto(r, "readMark") /\ work' = [work EXCEPT ![r] = mine]
  <2>1. mine \in Locals /\ mine.kind = "accrue" /\ mine.through = work[r].through
    <3>1. work[r].todo \in SUBSET Staff /\ work[r].through \in Int
      BY <1>1 DEF Locals
    <3>2. PICK none \in Locals : none = NoWork
      BY NoWorkFits
    <3>3. mine = [none EXCEPT !.kind = "accrue", !.todo = work[r].todo, !.through = work[r].through]
      BY <3>2
    <3>. HIDE DEF mine
    <3>. QED  BY <3>1, <3>3 DEF Locals
  <2>. HIDE DEF mine
  <2>2. /\ OthersKeep(r) /\ pc'[r] = "readMark" /\ work'[r] = mine
        /\ work' \in [Requests -> Locals]
    BY <1>3, <2>1, GoesWith
  <2>3. HandOK(r)'
    BY <1>1, <2>1, <2>2 DEF HandOK, ForLeave, Accruing, ForOne
  <2>4. (\A who \in Staff : marks'[who] <= work[r].through) => StillSo(r)'
    BY <2>1, <2>2 DEF StillSo, Accruing
  <2>. QED  BY <2>2, <2>3, <2>4
<1>. QED  BY <1>2, <1>3 DEF NextEmployee

LEMMA ListStaffStep ==
  ASSUME LeaveInv, NEW r \in Requests, ListStaff(r)
  PROVE  LeaveInv'
<1>1. /\ HandOK(r) /\ pc[r] = "listStaff" /\ LeaveTypeOK /\ now \in Times
      /\ Keeping /\ UNCHANGED <<tables, history>>
  BY DEF LeaveInv, LeaveShapeOK, ShiftsTypeOK, ListStaff, At
<1>2. /\ ShiftsTypeOK' /\ now' \in Times /\ OthersRest(r)
      /\ UNCHANGED <<now, rows, overlap, failures, cutShort>>
  BY <1>1, KeepingKeeps, AloneAtWork
<1>3. CASE Respond(r)
  BY <1>1, <1>2, <1>3, DoneOK, LeaveQuiet DEF Telling
<1>. DEFINE active == {who \in Staff : people[who].active}
            mine == [work[r] EXCEPT !.todo = active, !.through = now]
<1>4. CASE work' = [work EXCEPT ![r].todo = active, ![r].through = now] /\ Goto(r, "readMark")
  <2>1. work[r] \in Locals
    BY <1>1 DEF LeaveTypeOK
  <2>2. mine \in Locals /\ mine.kind = work[r].kind /\ mine.through = now
    <3>1. active \in SUBSET Staff /\ now \in Int
      BY <1>1 DEF Times
    <3>. HIDE DEF active
    <3>. QED  BY <2>1, <3>1 DEF Locals
  <2>3. work' = [work EXCEPT ![r] = mine]
    BY <1>1, <1>4 DEF LeaveTypeOK
  <2>. HIDE DEF mine
  <2>4. /\ OthersKeep(r) /\ pc'[r] = "readMark" /\ work'[r] = mine
        /\ work' \in [Requests -> Locals]
    BY <1>4, <2>2, <2>3, GoesWith
  <2>5. work[r].kind = "accrue"
    BY <1>1 DEF HandOK
  <2>6. HandOK(r)'
    BY <1>1, <1>2, <2>2, <2>4, <2>5 DEF HandOK, ForLeave, Accruing, ForOne, Times
  <2>7. ASSUME ~overlap PROVE StillSo(r)'
    <3>1. \A who \in Staff : marks'[who] <= now
      BY <1>1, <2>7 DEF LeaveInv, tables
    <3>. QED  BY <2>2, <2>4, <3>1 DEF StillSo, Accruing
  <2>. QED  BY <1>1, <1>2, <2>4, <2>6, <2>7, LeaveQuiet DEF Telling
<1>. QED  BY <1>3, <1>4 DEF ListStaff

LEMMA ReadMarkStep ==
  ASSUME LeaveInv, NEW r \in Requests, ReadMark(r)
  PROVE  LeaveInv'
<1>1. /\ HandOK(r) /\ pc[r] = "readMark" /\ LeaveTypeOK /\ work[r] \in Locals
      /\ Keeping /\ UNCHANGED <<tables, history>>
  BY DEF LeaveInv, LeaveShapeOK, LeaveTypeOK, ReadMark, At
<1>2. /\ ShiftsTypeOK' /\ now' \in Times /\ OthersRest(r)
      /\ UNCHANGED <<now, rows, overlap, failures, cutShort>>
  BY <1>1, KeepingKeeps, AloneAtWork
<1>3. PICK who \in work[r].todo :
        work' = [work EXCEPT ![r].who = who, ![r].todo = @ \ {who}, ![r].since = marks[who]]
  BY DEF ReadMark
<1>. DEFINE mine == [work[r] EXCEPT !.who = who, !.todo = @ \ {who}, !.since = marks[who]]
<1>4. who \in Staff /\ marks[who] \in Int
  BY <1>1 DEF Locals, LeaveTypeOK
<1>5. /\ mine \in Locals /\ mine.kind = work[r].kind /\ mine.through = work[r].through
      /\ mine.who = who /\ mine.since = marks[who]
  BY <1>1, <1>4 DEF Locals
<1>6. work' = [work EXCEPT ![r] = mine]
  BY <1>1, <1>3 DEF LeaveTypeOK
<1>. HIDE DEF mine
<1>7. /\ OthersKeep(r) /\ pc'[r] = "selectShifts" /\ work'[r] = mine
      /\ work' \in [Requests -> Locals]
  BY <1>5, <1>6, GoesWith DEF ReadMark
<1>8. HandOK(r)'
  BY <1>1, <1>2, <1>4, <1>5, <1>7 DEF HandOK, ForLeave, Accruing, ForOne
<1>9. ASSUME ~overlap PROVE StillSo(r)'
  <2>1. StillSo(r) /\ marks' = marks
    BY <1>1, <1>9 DEF LeaveInv, tables
  <2>. QED  BY <1>1, <1>5, <1>7, <2>1 DEF StillSo, Accruing
<1>. QED  BY <1>1, <1>2, <1>7, <1>8, <1>9, LeaveQuiet DEF Telling

LEMMA AccruedNumber ==
  ASSUME ShiftsTypeOK, NEW picked \in SUBSET Shifts
  PROVE  Accrued(SumFunction([s \in picked |-> shifts[s].minutes])) \in Int
<1>. DEFINE f == [s \in picked |-> shifts[s].minutes]
<1>1. f \in [picked -> Int]
  <2>1. \A s \in Shifts : shifts[s].minutes \in {0} \cup Minutes
    BY DEF ShiftsTypeOK
  <2>2. {0} \cup Minutes \subseteq Int
    BY AmountsAssumption
  <2>3. \A s \in picked : shifts[s].minutes \in Int
    BY <2>1, <2>2
  <2>. QED  BY <2>3
<1>2. IsFiniteSet(picked)
  BY FiniteAssumption, FS_Subset
<1>3. Total(f) \in Int
  BY <1>1, <1>2, TotalNumber
<1>. HIDE DEF f
<1>4. SumFunction(f) \in Int
  BY <1>3, FunctionSumIsTotal
<1>5. \A n \in Int : 10 * ((10 * n + 39) \div 78) \in Int
  OBVIOUS
<1>. QED  BY <1>4, <1>5 DEF Accrued, f

LEMMA SelectShiftsStep ==
  ASSUME LeaveInv, NEW r \in Requests, SelectShifts(r)
  PROVE  LeaveInv'
<1>1. /\ HandOK(r) /\ pc[r] = "selectShifts" /\ LeaveTypeOK /\ work[r] \in Locals /\ ShiftsTypeOK
      /\ Keeping /\ UNCHANGED <<tables, history>>
  BY DEF LeaveInv, LeaveShapeOK, LeaveTypeOK, SelectShifts, At
<1>2. /\ ShiftsTypeOK' /\ now' \in Times /\ OthersRest(r)
      /\ UNCHANGED <<now, rows, overlap, failures, cutShort>>
  BY <1>1, KeepingKeeps, AloneAtWork
<1>3. CASE NextEmployee(r)
  <2>1. ~overlap => \A who \in Staff : marks'[who] <= work[r].through
    BY <1>1 DEF LeaveInv, StillSo, Accruing, tables
  <2>. QED  BY <1>1, <1>2, <1>3, <2>1, NextEmployeeOK, LeaveQuiet DEF Telling
<1>. DEFINE picked == Uncredited(work[r].who, work[r].since, work[r].through)
            delta == Accrued(SumFunction([s \in picked |-> shifts[s].minutes]))
            mine == [work[r] EXCEPT !.picked = picked, !.delta = delta]
<1>4. CASE work' = [work EXCEPT ![r].picked = picked, ![r].delta = delta] /\ Goto(r, "insertAccrual")
  <2>1. picked \in SUBSET Shifts
    BY DEF Uncredited
  <2>2. delta \in Int
    <3>. HIDE DEF picked
    <3>. QED  BY <1>1, <2>1, AccruedNumber
  <2>3. work' = [work EXCEPT ![r] = mine]
    <3>. HIDE DEF picked, delta
    <3>. QED  BY <1>1, <1>4 DEF LeaveTypeOK
  <2>4. /\ mine \in Locals /\ mine.kind = work[r].kind /\ mine.through = work[r].through
        /\ mine.who = work[r].who /\ mine.since = work[r].since /\ mine.picked = picked
    <3>. HIDE DEF picked, delta
    <3>. QED  BY <1>1, <2>1, <2>2 DEF Locals
  <2>. HIDE DEF picked, delta, mine
  <2>5. /\ OthersKeep(r) /\ pc'[r] = "insertAccrual" /\ work'[r] = mine
        /\ work' \in [Requests -> Locals]
    BY <1>4, <2>3, <2>4, GoesWith
  <2>6. HandOK(r)'
    BY <1>1, <1>2, <2>4, <2>5 DEF HandOK, ForLeave, Accruing, ForOne
  <2>7. ASSUME ~overlap PROVE StillSo(r)'
    <3>1. StillSo(r) /\ marks' = marks
      BY <1>1, <2>7 DEF LeaveInv, tables
    <3>2. picked = Uncredited(mine.who, mine.since, mine.through)
      BY <2>4 DEF picked
    <3>3. Uncredited(work[r].who, work[r].since, work[r].through)' = picked
      BY <1>2, <2>5, <3>2 DEF Uncredited, rows
    <3>. QED  BY <1>1, <2>4, <2>5, <3>1, <3>3 DEF StillSo, Accruing
  <2>. QED  BY <1>1, <1>2, <2>5, <2>6, <2>7, LeaveQuiet DEF Telling
<1>. QED  BY <1>3, <1>4 DEF SelectShifts

-----------------------------------------------------------------------------
(* Requests arrive, and statements fail *)

LEMMA LeaveArrivesStep ==
  ASSUME LeaveInv, NEW r \in Requests, LeaveArrives(r)
  PROVE  LeaveInv'
<1>1. PICK mine, stage : /\ ArriveWith(r, mine, stage)
        /\ \/ /\ stage \in {"readBalance", "insertLeave"}
              /\ \E who \in Staff, sort \in {"annual", "unpaid"}, hours \in LeaveHours :
                   /\ mine = [NoWork EXCEPT !.kind = "request", !.delta = hours,
                                !.row = [NoLeave EXCEPT !.who = who, !.type = sort]]
                   /\ stage = "insertLeave" => sort = "unpaid"
           \/ stage = "readLeave" /\ \E l \in LeaveIds, kind \in Reviews :
                mine = [NoWork EXCEPT !.kind = kind, !.leave = l]
           \/ stage = "insertAdjustment" /\ \E who \in Staff, delta \in Adjustments :
                mine = [NoWork EXCEPT !.kind = "adjust", !.who = who, !.delta = delta]
           \/ stage = "listStaff" /\ mine = [NoWork EXCEPT !.kind = "accrue"]
  <2>1. CASE \E who \in Staff, sort \in {"annual", "unpaid"}, hours \in LeaveHours :
               ArriveWith(r, [NoWork EXCEPT !.kind = "request", !.delta = hours,
                                !.row = [NoLeave EXCEPT !.who = who, !.type = sort]],
                          IF sort = "unpaid" THEN "insertLeave" ELSE "readBalance")
    BY <2>1
  <2>2. CASE \E l \in LeaveIds, kind \in {"approve", "reject"} :
               ArriveWith(r, [NoWork EXCEPT !.kind = kind, !.leave = l], "readLeave")
    BY <2>2 DEF Reviews
  <2>3. CASE \E who \in Staff, delta \in Adjustments :
               ArriveWith(r, [NoWork EXCEPT !.kind = "adjust", !.who = who, !.delta = delta],
                          "insertAdjustment")
    BY <2>3
  <2>4. CASE ArriveWith(r, [NoWork EXCEPT !.kind = "accrue"], "listStaff")
    BY <2>4
  <2>. QED  BY <2>1, <2>2, <2>3, <2>4 DEF LeaveArrives
<1>2. LeaveTypeOK /\ ShiftsTypeOK /\ UNCHANGED <<tables, history>>
  BY DEF LeaveInv, LeaveShapeOK, LeaveArrives
<1>3. /\ pc[r] = "idle" /\ (overlap \/ Idle) /\ Goto(r, stage) /\ work' = [work EXCEPT ![r] = mine]
      /\ requests < (IF overlap THEN MaxOverlapping ELSE MaxRequests) /\ requests' = requests + 1
      /\ UNCHANGED <<now, rows, overlap, changes, failures, cutShort>>
  BY <1>1 DEF ArriveWith, Arrive, At
<1>4. ShiftsTypeOK' /\ OthersRest(r)
  <2>1. requests' \in 0..MaxRequests
    BY <1>2, <1>3, BoundsAssumption DEF ShiftsTypeOK
  <2>2. ShiftsTypeOK'
    BY <1>2, <1>3, <2>1 DEF ShiftsTypeOK, rows
  <2>. QED  BY <1>3, <2>2 DEF OthersRest, Idle
<1>5. PICK none \in Locals : none = NoWork
  BY NoWorkFits
<1>6. none.through = 0 /\ now \in Times
  BY <1>2, <1>5 DEF NoWork, ShiftsTypeOK
<1>7. /\ mine \in Locals /\ mine.through = 0
      /\ stage \in {"readBalance", "insertLeave"} =>
           /\ mine.kind = "request" /\ mine.row.who \in Staff /\ mine.delta \in Nat
           /\ stage = "insertLeave" => mine.row.type = "unpaid"
      /\ stage = "readLeave" => mine.leave \in LeaveIds /\ mine.kind \in Reviews
      /\ stage = "insertAdjustment" => mine.who \in Staff /\ mine.kind = "adjust"
      /\ stage = "listStaff" => mine.kind = "accrue"
      /\ stage \in {"readBalance", "insertLeave", "readLeave", "insertAdjustment", "listStaff"}
  <2>1. CASE stage \in {"readBalance", "insertLeave"}
             /\ \E who \in Staff, sort \in {"annual", "unpaid"}, hours \in LeaveHours :
                  /\ mine = [NoWork EXCEPT !.kind = "request", !.delta = hours,
                               !.row = [NoLeave EXCEPT !.who = who, !.type = sort]]
                  /\ stage = "insertLeave" => sort = "unpaid"
    <3>1. PICK who \in Staff, sort \in {"annual", "unpaid"}, hours \in LeaveHours :
            /\ mine = [NoWork EXCEPT !.kind = "request", !.delta = hours,
                         !.row = [NoLeave EXCEPT !.who = who, !.type = sort]]
            /\ stage = "insertLeave" => sort = "unpaid"
      BY <2>1
    <3>. PICK blank \in LeaveRow : blank = NoLeave
      BY DEF NoLeave, LeaveRow, Statuses
    <3>. PICK row : row = [blank EXCEPT !.who = who, !.type = sort]
      OBVIOUS
    <3>2. row \in LeaveRow /\ row.who = who /\ row.type = sort
      BY DEF LeaveRow
    <3>3. mine = [none EXCEPT !.kind = "request", !.delta = hours, !.row = row]
      BY <1>5, <3>1
    <3>4. /\ mine \in Locals /\ mine.kind = "request" /\ mine.row = row
          /\ mine.through = none.through /\ mine.delta = hours
      <4>1. hours \in Int
        BY LeaveAssumption
      <4>. QED  BY <3>2, <3>3, <4>1 DEF Locals
    <3>5. hours \in Nat
      BY LeaveAssumption
    <3>. QED  BY <1>6, <2>1, <3>1, <3>2, <3>4, <3>5
  <2>2. CASE stage = "readLeave" /\ \E l \in LeaveIds, kind \in Reviews :
               mine = [NoWork EXCEPT !.kind = kind, !.leave = l]
    <3>1. PICK l \in LeaveIds, kind \in Reviews : mine = [none EXCEPT !.kind = kind, !.leave = l]
      BY <1>5, <2>2
    <3>2. mine \in Locals /\ mine.leave = l /\ mine.kind = kind /\ mine.through = none.through
      BY <3>1 DEF Locals
    <3>. QED  BY <1>6, <2>2, <3>2
  <2>3. CASE stage = "insertAdjustment" /\ \E who \in Staff, delta \in Adjustments :
               mine = [NoWork EXCEPT !.kind = "adjust", !.who = who, !.delta = delta]
    <3>1. PICK who \in Staff, delta \in Adjustments :
            mine = [none EXCEPT !.kind = "adjust", !.who = who, !.delta = delta]
      BY <1>5, <2>3
    <3>2. delta \in Int
      BY LeaveAssumption
    <3>3. mine \in Locals /\ mine.who = who /\ mine.kind = "adjust" /\ mine.through = none.through
      BY <3>1, <3>2 DEF Locals
    <3>. QED  BY <1>6, <2>3, <3>3
  <2>4. CASE stage = "listStaff" /\ mine = [NoWork EXCEPT !.kind = "accrue"]
    <3>1. mine = [none EXCEPT !.kind = "accrue"]
      BY <1>5, <2>4
    <3>2. mine \in Locals /\ mine.kind = "accrue" /\ mine.through = none.through
      BY <3>1 DEF Locals
    <3>. QED  BY <1>6, <2>4, <3>2
  <2>. QED  BY <1>1, <2>1, <2>2, <2>3, <2>4
<1>8. /\ OthersKeep(r) /\ pc'[r] = stage /\ work'[r] = mine /\ work' \in [Requests -> Locals]
  BY <1>3, <1>7, GoesWith
<1>9. HandOK(r)'
  BY <1>3, <1>6, <1>7, <1>8 DEF HandOK, ForLeave, Accruing, ForOne, Times
<1>10. StillSo(r)'
  BY <1>7, <1>8 DEF StillSo, Accruing
<1>. QED  BY <1>2, <1>3, <1>4, <1>7, <1>8, <1>9, <1>10, LeaveQuiet DEF Telling

LEMMA LeaveFailsStep ==
  ASSUME LeaveInv, NEW r \in Requests, LeaveFails(r)
  PROVE  LeaveInv'
<1>1. /\ pc[r] # "idle" /\ ~overlap /\ failures' = failures + 1 /\ failures < MaxFailures
      /\ cutShort' = cutShort \cup ({work[r].leave, work[r].who} \ {Null})
      /\ Respond(r) /\ UNCHANGED <<now, rows, overlap, requests, changes>>
      /\ UNCHANGED <<tables, history>>
  BY DEF LeaveFails, FailOver, Respond
<1>2. LeaveTypeOK /\ ShiftsTypeOK
  BY DEF LeaveInv, LeaveShapeOK
<1>3. ShiftsTypeOK' /\ failures' # 0
  <2>1. failures' \in 0..MaxFailures /\ failures' # 0
    BY <1>1, <1>2, BoundsAssumption DEF ShiftsTypeOK
  <2>. QED  BY <1>1, <1>2, <2>1 DEF ShiftsTypeOK, rows
<1>4. OthersRest(r)
  BY <1>1, AloneAtWork
<1>5. /\ OthersKeep(r) /\ pc'[r] = "idle" /\ work' \in [Requests -> Locals]
      /\ HandOK(r)' /\ StillSo(r)'
  BY <1>1, <1>3, DoneOK DEF ShiftsTypeOK
<1>6. LeaveTypeOK'
  BY <1>1, <1>2, <1>5 DEF LeaveTypeOK, tables, history
<1>7. LeavesKeep /\ \A l \in LeaveIds : UnmadeOK(l)'
  <2>1. \A l \in LeaveIds : leaves[l].status # "none" =>
          leaves'[l] = [leaves[l] EXCEPT !.status = leaves[l].status]
    BY <1>1, <1>2 DEF LeaveTypeOK, LeaveRow, tables
  <2>2. \A l \in LeaveIds : leaves[l].status \in Statuses
    BY <1>2 DEF LeaveTypeOK, LeaveRow
  <2>. QED  BY <1>1, <2>1, <2>2 DEF LeavesKeep, LeaveInv, UnmadeOK, tables, history
<1>8. /\ \A who : Balance(who)' = Balance(who)
      /\ \A s : CreditsOf(s)' = CreditsOf(s)
      /\ \A l : Deductions(l)' = Deductions(l)
  BY <1>1, LedgerSame DEF tables
<1>9. \A who \in Staff : marks'[who] <= now
  BY <1>1 DEF LeaveInv, tables
<1>10. ASSUME NEW l \in LeaveIds PROVE Covered(l)'
  <2>1. Covered(l) /\ ~Deducting(r, l)'
    BY <1>1, <1>5 DEF LeaveInv, Deducting
  <2>. QED  BY <1>1, <1>5, <1>8, <2>1, CoveredKept DEF tables, history
<1>11. ASSUME NEW l \in LeaveIds \ cutShort' PROVE LeaveFits(l)'
  <2>1. LeaveFits(l) /\ ~Reviewing(r, l) /\ ~Reviewing(r, l)'
    BY <1>1, <1>5, LeaveAssumption DEF LeaveInv, Reviewing
  <2>. QED  BY <1>1, <1>5, <1>8, <2>1, LeaveFitsKept DEF tables, history
<1>12. ASSUME NEW s \in Shifts, Owner[s] \notin cutShort' PROVE CreditFits(s)'
  <2>1. Owner[s] \in Staff
    BY OwnerAssumption
  <2>2. CreditFits(s) /\ ~Crediting(r, Owner[s]) /\ ~Crediting(r, Owner[s])'
    BY <1>1, <1>5, <1>12, <2>1, LeaveAssumption DEF LeaveInv, Crediting
  <2>. QED  BY <1>1, <1>5, <1>8, <2>2, CreditFitsKept DEF tables, history
<1>. QED  BY <1>1, <1>3, <1>4, <1>5, <1>6, <1>7, <1>9, <1>10, <1>11, <1>12, LeaveStepKeeps

-----------------------------------------------------------------------------
(* The statements about a leave *)

\* What is due by the others stays; a step changes what is due by its own request.
LEMMA DueStep ==
  ASSUME LeaveInv, NEW r \in Requests, OthersKeep(r), LeavesKeep, LeaveTypeOK', NEW who
  PROVE  /\ DueTo(who) \in Int /\ Due(r, who) \in Int /\ Due(r, who)' \in Int
         /\ DueTo(who)' = DueTo(who) + (Due(r, who)' - Due(r, who))
<1>1. LeaveTypeOK
  BY DEF LeaveInv, LeaveShapeOK
<1>2. ASSUME NEW q \in Requests \ {r} PROVE Due(q, who)' = Due(q, who)
  <2>1. pc'[q] = pc[q] /\ work'[q] = work[q] /\ HandOK(q)
    BY DEF OthersKeep, LeaveInv
  <2>2. ASSUME pc[q] = "auditLeave"
        PROVE  /\ (work[q].leave \in Tracked(who))' <=> work[q].leave \in Tracked(who)
               /\ leaves'[work[q].leave].hours = leaves[work[q].leave].hours
    <3>. DEFINE l == work[q].leave
    <3>1. l \in LeaveIds /\ leaves[l].status # "none" /\ leaves[l] \in LeaveRow
      BY <1>1, <2>1, <2>2 DEF HandOK, ForLeave, LeaveTypeOK
    <3>2. PICK status : leaves'[l] = [leaves[l] EXCEPT !.status = status]
      BY <3>1 DEF LeavesKeep
    <3>3. /\ leaves'[l].who = leaves[l].who /\ leaves'[l].type = leaves[l].type
          /\ leaves'[l].hours = leaves[l].hours
      BY <3>1, <3>2 DEF LeaveRow
    <3>. QED  BY <2>1, <3>1, <3>3 DEF Tracked
  <2>. QED  BY <2>1, <2>2 DEF Due
<1>. QED  BY <1>1, <1>2, DueMoves, DueTyped

LEMMA InsertLeaveStep ==
  ASSUME LeaveInv, NEW r \in Requests, InsertLeave(r)
  PROVE  LeaveInv'
<1>1. /\ HandOK(r) /\ pc[r] = "insertLeave" /\ LeaveTypeOK /\ work[r] \in Locals
      /\ Keeping /\ UNCHANGED <<ledger, marks, history>>
  BY DEF LeaveInv, LeaveShapeOK, LeaveTypeOK, InsertLeave, At
<1>2. /\ ShiftsTypeOK' /\ now' \in Times /\ OthersRest(r)
      /\ UNCHANGED <<now, rows, overlap, failures, cutShort>>
  BY <1>1, KeepingKeeps, AloneAtWork
<1>3. PICK l \in LeaveIds :
        /\ leaves[l].status = "none"
        /\ leaves' = [leaves EXCEPT ![l] = [work[r].row EXCEPT !.status = "pending",
                                                             !.hours = Stored(work[r].delta)]]
        /\ work' = [work EXCEPT ![r].leave = l]
  BY DEF InsertLeave
<1>. DEFINE row == [work[r].row EXCEPT !.status = "pending", !.hours = Stored(work[r].delta)]
            mine == [work[r] EXCEPT !.leave = l]
<1>4. /\ row \in LeaveRow /\ row.who = work[r].row.who /\ row.type = work[r].row.type
      /\ row.hours = Stored(work[r].delta) /\ row.status = "pending" /\ row.who \in Staff
  <2>1. work[r].row \in LeaveRow /\ work[r].row.who \in Staff /\ Stored(work[r].delta) \in Nat
    BY <1>1, StoredAmount DEF Locals, HandOK
  <2>. QED  BY <2>1 DEF LeaveRow, Statuses
<1>5. /\ mine \in Locals /\ mine.leave = l /\ mine.kind = "request" /\ mine.through <= now
      /\ work' = [work EXCEPT ![r] = mine]
  BY <1>1, <1>3 DEF Locals, HandOK, LeaveTypeOK
<1>6. leaves[l] = NoLeave /\ reviews[l] = <<>>
  BY <1>3 DEF LeaveInv, UnmadeOK
<1>. HIDE DEF mine, row
<1>7. /\ OthersKeep(r) /\ pc'[r] = "auditLeave" /\ work'[r] = mine
      /\ work' \in [Requests -> Locals]
  BY <1>5, GoesWith DEF InsertLeave
<1>8. leaves' = [leaves EXCEPT ![l] = row]
  BY <1>3 DEF row
<1>9. LeaveTypeOK' /\ leaves'[l] = row /\ \A m \in LeaveIds \ {l} : leaves'[m] = leaves[m]
  BY <1>1, <1>4, <1>7, <1>8 DEF LeaveTypeOK, history
<1>10. LeavesKeep /\ \A m \in LeaveIds : UnmadeOK(m)'
  <2>1. ASSUME NEW m \in LeaveIds \ {l}
        PROVE  /\ leaves'[m] = [leaves[m] EXCEPT !.status = leaves[m].status]
               /\ leaves[m].status \in Statuses /\ UnmadeOK(m)'
    BY <1>1, <1>9 DEF LeaveInv, UnmadeOK, LeaveTypeOK, LeaveRow, history
  <2>2. UnmadeOK(l)'
    BY <1>4, <1>9 DEF UnmadeOK
  <2>. QED  BY <1>3, <2>1, <2>2 DEF LeavesKeep
<1>11. HandOK(r)'
  BY <1>2, <1>4, <1>5, <1>7, <1>9 DEF HandOK, ForLeave, Accruing, ForOne
<1>12. /\ \A who : Balance(who)' = Balance(who)
       /\ \A s : CreditsOf(s)' = CreditsOf(s)
       /\ \A m : Deductions(m)' = Deductions(m)
  BY <1>1, LedgerSame
<1>13. ASSUME failures' = 0, NEW who \in Staff PROVE BalanceFits(who)'
  <2>1. BalanceFits(who) /\ Balance(who) \in Int
    BY <1>1, <1>2, <1>13, BalanceNumber DEF LeaveInv
  <2>2. Due(r, who) = 0 /\ Due(r, who)' = 0
    BY <1>1, <1>5, <1>7 DEF Due
  <2>3. DueTo(who) \in Int /\ DueTo(who)' = DueTo(who) + 0
    BY <1>7, <1>9, <1>10, <2>2, DueStep
  <2>4. l \notin TrackedIn(leaves, who) /\ Part(leaves', reviews', l) = 0
    <3>1. Approved(reviews'[l]) = {} /\ leaves'[l].hours \in Nat
      BY <1>1, <1>4, <1>6, <1>9 DEF Approved, history, LeaveRow
    <3>2. Cardinality(Approved(reviews'[l])) = 0
      BY <3>1, FS_EmptySet
    <3>. QED  BY <1>6, <3>1, <3>2 DEF TrackedIn, NoLeave, Part
  <2>5. Spent(who) \in Int /\ Spent(who)' = Spent(who) + 0
    BY <1>1, <1>9, <2>4, SpentMoves DEF history
  <2>6. /\ Logged(who) \in Int /\ Logged(who)' = Logged(who) + 0
        /\ Balance(who)' = Balance(who) + 0
    BY <1>1, <1>12, <2>1, LoggedSame DEF history
  <2>7. 0 \in Int /\ 0 = (0 - 0) + 0
    OBVIOUS
  <2>. QED  BY <1>1, <1>9, <2>1, <2>3, <2>5, <2>6, <2>7, BalanceMoves
<1>14. ASSUME ~overlap
       PROVE  /\ StillSo(r)'
              /\ \A who \in Staff : marks'[who] <= now
              /\ \A m \in LeaveIds : Covered(m)'
              /\ \A m \in LeaveIds \ cutShort' : LeaveFits(m)'
              /\ \A s \in Shifts : Owner[s] \notin cutShort' => CreditFits(s)'
  <2>1. StillSo(r)'
    BY <1>4, <1>5, <1>7, <1>9 DEF StillSo, Accruing
  <2>2. \A who \in Staff : marks'[who] <= now
    BY <1>1, <1>14 DEF LeaveInv
  <2>3. \A q \in Requests \ {r} : pc'[q] = "idle" /\ pc[q] = "idle"
    BY <1>2, <1>7, <1>14 DEF OthersRest, OthersKeep
  <2>4. ASSUME NEW m \in LeaveIds \ {l} PROVE Covered(m)'
    <3>1. Covered(m) /\ ~Deducting(r, m)'
      BY <1>7, <1>14 DEF LeaveInv, Deducting
    <3>. QED  BY <1>1, <1>7, <1>9, <1>12, <3>1, CoveredKept DEF history
  <2>5. Covered(l)'
    <3>1. PICK who : who = row.who
      OBVIOUS
    <3>2. row.type # "unpaid" => Balance(who) >= row.hours
      BY <1>1, <1>4, <1>14, <3>1 DEF LeaveInv, StillSo
    <3>3. Balance(leaves[l].who)' = Balance(who)'
      BY <1>9, <3>1 DEF Balance
    <3>. QED  BY <1>9, <1>12, <3>2, <3>3 DEF Covered
  <2>6. ASSUME NEW m \in LeaveIds \ cutShort', m # l PROVE LeaveFits(m)'
    <3>1. LeaveFits(m) /\ ~Reviewing(r, m) /\ ~Reviewing(r, m)'
      BY <1>1, <1>2, <1>5, <1>7, <1>14, <2>6 DEF LeaveInv, Reviewing
    <3>. QED  BY <1>1, <1>7, <1>9, <1>12, <2>6, <3>1, LeaveFitsKept DEF history
  <2>7. ASSUME l \notin cutShort' PROVE LeaveFits(l)'
    <3>1. LeaveFits(l) /\ \A q \in Requests : ~Deducting(q, l)
      BY <1>1, <1>2, <1>14, <2>3, <2>7 DEF LeaveInv, Deducting
    <3>2. Deductions(l) = {}
      BY <1>3, <3>1 DEF LeaveFits, Deducted
    <3>3. Reviewing(r, l)' /\ \A q \in Requests : ~Deducting(q, l)'
      BY <1>5, <1>7, <2>3 DEF Reviewing, Deducting
    <3>4. \A q \in Requests : Reviewing(q, l)' =>
            reviews'[l] = IF Is(q, {"request"})' THEN <<>> ELSE <<"request">>
      BY <1>1, <1>5, <1>6, <1>7, <2>3 DEF Reviewing, Is, history
    <3>5. Deducted(l)'
      BY <1>4, <1>9, <1>12, <3>2 DEF Deducted
    <3>. QED  BY <3>3, <3>4, <3>5 DEF LeaveFits
  <2>8. ASSUME NEW s \in Shifts, Owner[s] \notin cutShort' PROVE CreditFits(s)'
    <3>1. CreditFits(s) /\ ~Crediting(r, Owner[s]) /\ ~Crediting(r, Owner[s])'
      BY <1>1, <1>2, <1>7, <1>14, <2>8 DEF LeaveInv, Crediting
    <3>. QED  BY <1>1, <1>2, <1>7, <1>12, <3>1, CreditFitsKept DEF history
  <2>. QED  BY <2>1, <2>2, <2>4, <2>5, <2>6, <2>7, <2>8
<1>. QED  BY <1>2, <1>7, <1>9, <1>10, <1>11, <1>13, <1>14, LeaveStepKeeps

\* A review's row comes second.
LEMMA SecondTold == \A kind : Append(<<"request">>, kind) = <<"request", kind>>
<1>. SUFFICES ASSUME NEW kind PROVE Append(<<"request">>, kind) = <<"request", kind>>
  OBVIOUS
<1>. DEFINE two == <<"request", kind>>
            more == Append(<<"request">>, kind)
<1>1. /\ more \in Seq({"request", kind}) /\ two \in Seq({"request", kind})
      /\ Len(more) = 2 /\ Len(two) = 2 /\ more[1] = two[1] /\ more[2] = two[2]
  OBVIOUS
<1>. HIDE DEF two, more
<1>2. more = two
  BY <1>1, SeqEqual
<1>. QED  BY <1>2 DEF two, more

LEMMA AuditLeaveStep ==
  ASSUME LeaveInv, NEW r \in Requests, AuditLeave(r)
  PROVE  LeaveInv'
<1>. PICK l, kind : l = work[r].leave /\ kind = work[r].kind
  OBVIOUS
<1>1. /\ HandOK(r) /\ pc[r] = "auditLeave" /\ LeaveTypeOK /\ Respond(r)
      /\ Keeping /\ UNCHANGED <<tables, audited, late, stale>>
      /\ reviews' = [reviews EXCEPT ![l] = Append(@, kind)]
  BY DEF LeaveInv, LeaveShapeOK, LeaveTypeOK, AuditLeave, At
<1>2. /\ ShiftsTypeOK' /\ now' \in Times /\ OthersRest(r)
      /\ UNCHANGED <<now, rows, overlap, failures, cutShort>>
  BY <1>1, KeepingKeeps, AloneAtWork
<1>3. /\ l \in LeaveIds /\ kind \in {"request"} \cup Reviews /\ leaves[l].status # "none"
      /\ leaves[l] \in LeaveRow
  BY <1>1 DEF HandOK, ForLeave, LeaveTypeOK
<1>4. /\ OthersKeep(r) /\ pc'[r] = "idle" /\ work'[r] = NoWork
      /\ work' \in [Requests -> Locals] /\ HandOK(r)' /\ StillSo(r)'
  BY <1>1, <1>2, DoneOK
<1>5. /\ reviews'[l] = Append(reviews[l], kind)
      /\ \A m \in LeaveIds \ {l} : reviews'[m] = reviews[m]
      /\ LeaveTypeOK'
  BY <1>1, <1>3, <1>4 DEF LeaveTypeOK, tables
<1>6. LeavesKeep /\ \A m \in LeaveIds : UnmadeOK(m)'
  <2>1. ASSUME NEW m \in LeaveIds
        PROVE  /\ leaves'[m] = [leaves[m] EXCEPT !.status = leaves[m].status]
               /\ leaves[m].status \in Statuses
    BY <1>1 DEF LeaveTypeOK, LeaveRow, tables
  <2>2. ASSUME NEW m \in LeaveIds PROVE UnmadeOK(m)'
    BY <1>1, <1>3, <1>5 DEF LeaveInv, UnmadeOK, tables
  <2>. QED  BY <2>1, <2>2 DEF LeavesKeep
<1>7. /\ \A who : Balance(who)' = Balance(who)
      /\ \A s : CreditsOf(s)' = CreditsOf(s)
      /\ \A m : Deductions(m)' = Deductions(m)
  BY <1>1, LedgerSame DEF tables
<1>8. ASSUME failures' = 0, NEW who \in Staff PROVE BalanceFits(who)'
  <2>. DEFINE t == IF kind = "approve" /\ l \in Tracked(who) THEN leaves[l].hours ELSE 0
  <2>1. BalanceFits(who) /\ Balance(who) \in Int
    BY <1>1, <1>2, <1>8, BalanceNumber DEF LeaveInv
  <2>2. t \in Int
    BY <1>3 DEF LeaveRow
  <2>3. Due(r, who) = -t /\ Due(r, who)' = 0
    BY <1>1, <1>4 DEF Due
  <2>. HIDE DEF t
  <2>4. DueTo(who) \in Int /\ DueTo(who)' = DueTo(who) + t
    <3>1. DueTo(who) \in Int /\ DueTo(who)' = DueTo(who) + (0 - (-t))
      BY <1>4, <1>5, <1>6, <2>3, DueStep
    <3>. QED  BY <2>2, <3>1
  <2>5. Spent(who) \in Int /\ Spent(who)' = Spent(who) + t
    <3>1. TrackedIn(leaves', who) = TrackedIn(leaves, who)
          /\ (l \in Tracked(who) <=> l \in TrackedIn(leaves, who))
      BY <1>1 DEF TrackedIn, Tracked, tables
    <3>2. /\ Cardinality(Approved(reviews[l])) \in Nat
          /\ Cardinality(Approved(reviews'[l])) =
                Cardinality(Approved(reviews[l])) + (IF kind = "approve" THEN 1 ELSE 0)
      BY <1>1, <1>3, <1>5, ApprovedAppend DEF LeaveTypeOK
    <3>3. ASSUME l \in TrackedIn(leaves, who)
          PROVE  Part(leaves', reviews', l) = Part(leaves, reviews, l) + t
      <4>1. leaves[l].hours \in Int /\ leaves' = leaves
        BY <1>1, <1>3 DEF LeaveRow, tables
      <4>2. \A a, b \in Int : (a + 1) * b = a * b + b /\ (a + 0) * b = a * b + 0
        OBVIOUS
      <4>. QED  BY <3>1, <3>2, <3>3, <4>1, <4>2 DEF Part, t
    <3>4. l \notin TrackedIn(leaves, who) => t = 0
      BY <3>1 DEF t
    <3>5. \A m \in LeaveIds \ {l} : leaves'[m] = leaves[m] /\ reviews'[m] = reviews[m]
      BY <1>1, <1>5 DEF tables
    <3>. QED  BY <1>1, <1>3, <1>5, <2>2, <3>1, <3>3, <3>4, <3>5, SpentMoves
  <2>6. /\ Logged(who) \in Int /\ Logged(who)' = Logged(who) + 0
        /\ Balance(who)' = Balance(who) + 0
    BY <1>1, <1>7, <2>1, LoggedSame
  <2>7. 0 \in Int /\ 0 = (0 - t) + t
    BY <2>2
  <2>. QED  BY <1>1, <1>5, <2>1, <2>2, <2>4, <2>5, <2>6, <2>7, BalanceMoves
<1>9. ASSUME ~overlap
      PROVE  /\ \A who \in Staff : marks'[who] <= now
             /\ \A m \in LeaveIds : Covered(m)'
             /\ \A m \in LeaveIds \ cutShort' : LeaveFits(m)'
             /\ \A s \in Shifts : Owner[s] \notin cutShort' => CreditFits(s)'
  <2>1. \A who \in Staff : marks'[who] <= now
    BY <1>1, <1>9 DEF LeaveInv, tables
  <2>2. \A q \in Requests \ {r} : pc'[q] = "idle" /\ pc[q] = "idle"
    BY <1>2, <1>4, <1>9 DEF OthersRest, OthersKeep
  <2>3. ASSUME NEW m \in LeaveIds PROVE Covered(m)'
    <3>1. Covered(m) /\ ~Deducting(r, m)'
      BY <1>4, <1>9 DEF LeaveInv, Deducting
    <3>. QED  BY <1>1, <1>4, <1>7, <3>1, CoveredKept DEF tables
  <2>4. ASSUME NEW m \in LeaveIds \ cutShort', m # l PROVE LeaveFits(m)'
    <3>1. LeaveFits(m) /\ ~Reviewing(r, m) /\ ~Reviewing(r, m)'
      BY <1>1, <1>2, <1>4, <1>9, <2>4 DEF LeaveInv, Reviewing
    <3>. QED  BY <1>1, <1>4, <1>5, <1>7, <2>4, <3>1, LeaveFitsKept DEF tables
  <2>5. ASSUME l \notin cutShort' PROVE LeaveFits(l)'
    <3>1. LeaveFits(l) /\ StillSo(r) /\ Reviewing(r, l)
      BY <1>1, <1>2, <1>3, <1>9, <2>5 DEF LeaveInv, Reviewing
    <3>2. \A q \in Requests : ~Deducting(q, l) /\ ~Deducting(q, l)' /\ ~Reviewing(q, l)'
      BY <1>1, <1>4, <2>2 DEF Deducting, Reviewing
    <3>3. Deducted(l)'
      <4>1. Deducted(l)
        BY <3>1, <3>2 DEF LeaveFits
      <4>. QED  BY <1>1, <1>7, <4>1 DEF Deducted, tables
    <3>4. reviews[l] = IF kind = "request" THEN <<>> ELSE <<"request">>
      BY <3>1 DEF LeaveFits, Is
    <3>5. leaves[l].status = CASE kind = "request" -> "pending"
                               [] kind = "approve" -> "approved"
                               [] OTHER            -> "rejected"
      BY <1>1, <3>1 DEF StillSo
    <3>6. Told(l)'
      <4>1. /\ Append(<<>>, "request") = <<"request">>
            /\ Append(<<"request">>, "approve") = <<"request", "approve">>
            /\ Append(<<"request">>, "reject") = <<"request", "reject">>
        BY SecondTold
      <4>2. leaves'[l] = leaves[l]
        BY <1>1 DEF tables
      <4>3. CASE kind = "request"
        BY <1>5, <3>4, <3>5, <4>1, <4>2, <4>3 DEF Told
      <4>4. CASE kind = "approve"
        BY <1>5, <3>4, <3>5, <4>1, <4>2, <4>4 DEF Told
      <4>5. CASE kind = "reject"
        BY <1>5, <3>4, <3>5, <4>1, <4>2, <4>5 DEF Told
      <4>. QED  BY <1>3, <4>3, <4>4, <4>5 DEF Reviews
    <3>. QED  BY <3>2, <3>3, <3>6 DEF LeaveFits
  <2>6. ASSUME NEW s \in Shifts, Owner[s] \notin cutShort' PROVE CreditFits(s)'
    <3>1. CreditFits(s) /\ ~Crediting(r, Owner[s]) /\ ~Crediting(r, Owner[s])'
      BY <1>1, <1>2, <1>4, <1>9, <2>6 DEF LeaveInv, Crediting
    <3>. QED  BY <1>1, <1>2, <1>4, <1>7, <3>1, CreditFitsKept DEF tables
  <2>. QED  BY <2>1, <2>3, <2>4, <2>5, <2>6
<1>. QED  BY <1>2, <1>4, <1>5, <1>6, <1>8, <1>9, LeaveStepKeeps

LEMMA SetReviewedStep ==
  ASSUME LeaveInv, NEW r \in Requests, SetReviewed(r)
  PROVE  LeaveInv'
<1>. PICK l, verdict, stage :
        /\ l = work[r].leave
        /\ verdict = IF Is(r, {"approve"}) THEN "approved" ELSE "rejected"
        /\ stage = IF Is(r, {"approve"}) /\ work[r].row.type # "unpaid"
                   THEN "insertDeduction" ELSE "auditLeave"
  OBVIOUS
<1>1. /\ HandOK(r) /\ pc[r] = "setReviewed" /\ LeaveTypeOK /\ work[r] \in Locals
      /\ Keeping /\ UNCHANGED <<ledger, marks, history, work>>
      /\ leaves' = [leaves EXCEPT ![l].status = verdict] /\ Goto(r, stage)
  BY DEF LeaveInv, LeaveShapeOK, LeaveTypeOK, SetReviewed, At
<1>2. /\ ShiftsTypeOK' /\ now' \in Times /\ OthersRest(r)
      /\ UNCHANGED <<now, rows, overlap, failures, cutShort>>
  BY <1>1, KeepingKeeps, AloneAtWork
<1>3. /\ l \in LeaveIds /\ work[r].kind \in Reviews /\ leaves[l].status # "none"
      /\ leaves[l] \in LeaveRow /\ work[r].row = [leaves[l] EXCEPT !.status = "pending"]
      /\ work[r].through <= now
  BY <1>1 DEF HandOK, ForLeave, LeaveTypeOK
<1>4. /\ OthersKeep(r) /\ pc'[r] = stage /\ work'[r] = work[r]
      /\ work' \in [Requests -> Locals]
  BY <1>1, GoesOn
<1>5. /\ leaves'[l] = [leaves[l] EXCEPT !.status = verdict]
      /\ \A m \in LeaveIds \ {l} : leaves'[m] = leaves[m]
  BY <1>1, <1>3 DEF LeaveTypeOK
<1>6. /\ leaves'[l].who = leaves[l].who /\ leaves'[l].type = leaves[l].type
      /\ leaves'[l].hours = leaves[l].hours /\ leaves'[l].status = verdict
      /\ work[r].row.type = leaves[l].type
      /\ [leaves'[l] EXCEPT !.status = "pending"] = [leaves[l] EXCEPT !.status = "pending"]
      /\ verdict \in Statuses \ {"none", "pending"} /\ leaves'[l] \in LeaveRow
  BY <1>3, <1>5 DEF LeaveRow, Statuses
<1>7. /\ verdict = IF work[r].kind = "approve" THEN "approved" ELSE "rejected"
      /\ stage = IF work[r].kind = "approve" /\ leaves[l].type # "unpaid"
                 THEN "insertDeduction" ELSE "auditLeave"
  BY <1>6 DEF Is
<1>8. LeaveTypeOK'
  BY <1>1, <1>4, <1>5, <1>6 DEF LeaveTypeOK, history
<1>9. LeavesKeep /\ \A m \in LeaveIds : UnmadeOK(m)'
  <2>1. ASSUME NEW m \in LeaveIds \ {l}
        PROVE  /\ leaves'[m] = [leaves[m] EXCEPT !.status = leaves[m].status]
               /\ leaves[m].status \in Statuses /\ UnmadeOK(m)'
    BY <1>1, <1>5 DEF LeaveInv, UnmadeOK, LeaveTypeOK, LeaveRow, history
  <2>2. UnmadeOK(l)'
    BY <1>3, <1>6 DEF LeaveInv, UnmadeOK
  <2>. QED  BY <1>5, <1>6, <2>1, <2>2 DEF LeavesKeep
<1>10. HandOK(r)'
  BY <1>1, <1>2, <1>3, <1>4, <1>6, <1>7 DEF HandOK, ForLeave, Accruing, ForOne, Reviews
<1>11. /\ \A who : Balance(who)' = Balance(who)
       /\ \A s : CreditsOf(s)' = CreditsOf(s)
       /\ \A m : Deductions(m)' = Deductions(m)
  BY <1>1, LedgerSame
<1>12. ASSUME failures' = 0, NEW who \in Staff PROVE BalanceFits(who)'
  <2>1. BalanceFits(who) /\ Balance(who) \in Int
    BY <1>1, <1>2, <1>12, BalanceNumber DEF LeaveInv
  <2>2. Due(r, who) = 0 /\ Due(r, who)' = 0
    <3>1. Due(r, who) = 0
      BY <1>1 DEF Due
    <3>2. stage = "auditLeave" /\ work[r].kind = "approve" => (l \notin Tracked(who))'
      BY <1>4, <1>6, <1>7 DEF Tracked
    <3>. QED  BY <1>4, <1>7, <3>1, <3>2 DEF Due
  <2>3. DueTo(who) \in Int /\ DueTo(who)' = DueTo(who)
    <3>1. DueTo(who) \in Int /\ DueTo(who)' = DueTo(who) + (0 - 0)
      BY <1>4, <1>8, <1>9, <2>2, DueStep
    <3>. QED  BY <3>1
  <2>4. Spent(who)' = Spent(who)
    <3>1. \A m \in LeaveIds : /\ leaves'[m].who = leaves[m].who
                             /\ leaves'[m].type = leaves[m].type
                             /\ leaves'[m].hours = leaves[m].hours
      BY <1>5, <1>6
    <3>. QED  BY <1>1, <3>1, SpentSame DEF history
  <2>5. Logged(who)' = Logged(who)
    BY <1>1, LoggedSame DEF history
  <2>. QED  BY <1>11, <2>1, <2>3, <2>4, <2>5 DEF BalanceFits
<1>13. ASSUME ~overlap
       PROVE  /\ StillSo(r)'
              /\ \A who \in Staff : marks'[who] <= now
              /\ \A m \in LeaveIds : Covered(m)'
              /\ \A m \in LeaveIds \ cutShort' : LeaveFits(m)'
              /\ \A s \in Shifts : Owner[s] \notin cutShort' => CreditFits(s)'
  <2>1. StillSo(r)'
    BY <1>3, <1>4, <1>6, <1>7 DEF StillSo, Accruing, Reviews
  <2>2. \A who \in Staff : marks'[who] <= now
    BY <1>1, <1>13 DEF LeaveInv
  <2>3. \A q \in Requests \ {r} : pc'[q] = "idle" /\ pc[q] = "idle"
    BY <1>2, <1>4, <1>13 DEF OthersRest, OthersKeep
  <2>4. ASSUME NEW m \in LeaveIds \ {l} PROVE Covered(m)'
    <3>1. Covered(m) /\ ~Deducting(r, m)'
      BY <1>4, <1>13 DEF LeaveInv, Deducting
    <3>. QED  BY <1>1, <1>4, <1>5, <1>11, <3>1, CoveredKept DEF history
  <2>5. StillSo(r) /\ leaves[l].status = "pending"
    BY <1>1, <1>13 DEF LeaveInv, StillSo
  <2>6. Covered(l)'
    <3>1. PICK who : who = leaves[l].who
      OBVIOUS
    <3>2. leaves[l].type # "unpaid" /\ l \notin stale => Balance(who) >= leaves[l].hours
      BY <1>3, <1>13, <2>5, <3>1 DEF LeaveInv, Covered
    <3>3. Balance(leaves[l].who)' = Balance(who)'
      BY <1>6, <3>1 DEF Balance
    <3>. QED  BY <1>1, <1>6, <1>11, <3>2, <3>3 DEF Covered, history
  <2>7. ASSUME NEW m \in LeaveIds \ cutShort', m # l PROVE LeaveFits(m)'
    <3>1. LeaveFits(m) /\ ~Reviewing(r, m) /\ ~Reviewing(r, m)'
      BY <1>1, <1>2, <1>4, <1>13, <2>7 DEF LeaveInv, Reviewing
    <3>. QED  BY <1>1, <1>4, <1>5, <1>11, <2>7, <3>1, LeaveFitsKept DEF history
  <2>8. ASSUME l \notin cutShort' PROVE LeaveFits(l)'
    <3>1. LeaveFits(l) /\ \A q \in Requests : ~Deducting(q, l) /\ ~Reviewing(q, l)
      BY <1>1, <1>2, <1>3, <1>13, <2>3, <2>8 DEF LeaveInv, Deducting, Reviewing
    <3>2. Deductions(l) = {} /\ reviews[l] = <<"request">>
      BY <2>5, <3>1 DEF LeaveFits, Deducted, Told
    <3>3. Reviewing(r, l)' /\ \A q \in Requests : Reviewing(q, l)' => q = r
      BY <1>4, <1>7, <2>3 DEF Reviewing
    <3>4. ~Is(r, {"request"})'
      BY <1>3, <1>4 DEF Is, Reviews
    <3>5. (\A q \in Requests : ~Deducting(q, l)') => Deducted(l)'
      <4>1. ~Deducting(r, l)' => verdict # "approved" \/ leaves'[l].type = "unpaid"
        BY <1>4, <1>6, <1>7 DEF Deducting
      <4>. QED  BY <1>6, <1>11, <3>2, <4>1 DEF Deducted
    <3>. QED  BY <1>1, <1>11, <3>2, <3>3, <3>4, <3>5 DEF LeaveFits, history
  <2>9. ASSUME NEW s \in Shifts, Owner[s] \notin cutShort' PROVE CreditFits(s)'
    <3>1. CreditFits(s) /\ ~Crediting(r, Owner[s]) /\ ~Crediting(r, Owner[s])'
      BY <1>1, <1>2, <1>4, <1>7, <1>13, <2>9 DEF LeaveInv, Crediting
    <3>. QED  BY <1>1, <1>2, <1>4, <1>11, <3>1, CreditFitsKept DEF history
  <2>. QED  BY <2>1, <2>2, <2>4, <2>6, <2>7, <2>8, <2>9
<1>. QED  BY <1>2, <1>4, <1>8, <1>9, <1>10, <1>12, <1>13, LeaveStepKeeps

-----------------------------------------------------------------------------
(* The statements that insert into the ledger *)

\* What is drawn from a balance makes the requests that counted on it stale.
LEMMA CoveredOnInsert ==
  ASSUME LeaveTypeOK, NEW row \in LedgerRow, Insert(row), leaves' = leaves,
         NEW m \in LeaveIds, Covered(m), \A q \in Requests : ~Deducting(q, m)',
         row.ref = m => leaves[m].status # "pending"
  PROVE  Covered(m)'
<1>1. SUFFICES ASSUME leaves[m].type # "unpaid", m \notin stale', leaves[m].status = "pending"
               PROVE  Balance(leaves[m].who)' >= leaves[m].hours
  <2>1. PICK who : who = leaves[m].who
    OBVIOUS
  <2>2. leaves'[m].who = who
    BY <2>1
  <2>3. Balance(leaves[m].who)' = Balance(who)'
    BY <2>2 DEF Balance
  <2>. QED  BY <2>3 DEF Covered
<1>2. stale' = IF row.delta >= 0 THEN stale
               ELSE stale \cup {l \in LeaveIds : /\ leaves[l].status = "pending"
                                                 /\ leaves[l].who = row.who /\ l # row.ref}
  BY DEF Insert
<1>3. PICK who : who = leaves[m].who
  OBVIOUS
<1>4. Balance(who) \in Int /\ Balance(who) >= leaves[m].hours /\ leaves[m].hours \in Int
  BY <1>1, <1>2, <1>3, BalanceNumber DEF Covered, LeaveTypeOK, LeaveRow
<1>5. Balance(who)' = Balance(who) + (IF row.who = who THEN row.delta ELSE 0)
  BY InsertEffect
<1>6. row.who = who => row.delta >= 0
  BY <1>1, <1>2, <1>3
<1>7. Balance(who)' >= leaves[m].hours
  <2>1. row.delta \in Int
    BY DEF LedgerRow
  <2>. QED  BY <1>4, <1>5, <1>6, <2>1
<1>8. leaves'[m].who = who
  BY <1>3
<1>9. Balance(leaves[m].who)' = Balance(who)'
  BY <1>8 DEF Balance
<1>. QED  BY <1>7, <1>9

\* A row that is inserted for something else leaves a leave's story as it was.
LEMMA LeaveFitsOnInsert ==
  ASSUME LeaveTypeOK, NEW row \in LedgerRow, Insert(row), leaves' = leaves, reviews' = reviews,
         NEW r \in Requests, OthersKeep(r), NEW m \in LeaveIds,
         row.source # "request" \/ row.ref # m,
         ~Reviewing(r, m), ~Reviewing(r, m)', LeaveFits(m)
  PROVE  LeaveFits(m)'
<1>1. Deductions(m)' = Deductions(m) /\ \A x \in Deductions(m) : x \in DOMAIN ledger \ {row}
  BY InsertEffect DEF Deductions, BagToSet
<1>2. \A x \in Deductions(m) : ledger'[x] = ledger[x]
  BY <1>1, InsertEffect
<1>. QED  BY <1>1, <1>2, LeaveFitsKept

LEMMA RowFits ==
  ASSUME NEW who \in Staff, NEW delta \in Int, NEW source \in {"adjustment", "request", "accrual"},
         NEW ref \in LeaveIds \cup {Null}, NEW of \in SUBSET Shifts
  PROVE  /\ Row(who, delta, source, ref, of) \in LedgerRow
         /\ Row(who, delta, source, ref, of).who = who
         /\ Row(who, delta, source, ref, of).delta = delta
         /\ Row(who, delta, source, ref, of).source = source
         /\ Row(who, delta, source, ref, of).ref = ref
         /\ Row(who, delta, source, ref, of).of = of
BY DEF Row, LedgerRow

\* What these statements have in common: no leave changes, and a row is typed.
LEMMA InsertKeeps ==
  ASSUME LeaveInv, NEW row \in LedgerRow, Insert(row),
         UNCHANGED <<leaves, marks, reviews, audited, late, work>>
  PROVE  LeaveTypeOK' /\ LeavesKeep /\ \A m \in LeaveIds : UnmadeOK(m)'
<1>1. LeaveTypeOK
  BY DEF LeaveInv, LeaveShapeOK
<1>2. IsLedger(ledger')
  BY <1>1, InsertEffect
<1>3. LeaveTypeOK'
  BY <1>1, <1>2 DEF LeaveTypeOK, IsLedger
<1>4. ASSUME NEW m \in LeaveIds
      PROVE  /\ leaves'[m] = [leaves[m] EXCEPT !.status = leaves[m].status]
             /\ leaves[m].status \in Statuses /\ UnmadeOK(m)'
  BY <1>1 DEF LeaveInv, UnmadeOK, LeaveTypeOK, LeaveRow
<1>. QED  BY <1>3, <1>4 DEF LeavesKeep

LEMMA InsertDeductionStep ==
  ASSUME LeaveInv, NEW r \in Requests, InsertDeduction(r)
  PROVE  LeaveInv'
<1>1. PICK l, row : /\ l = work[r].leave
                    /\ row = Row(work[r].row.who, -work[r].row.hours, "request", l, {})
  OBVIOUS
<1>2. /\ HandOK(r) /\ pc[r] = "insertDeduction" /\ LeaveTypeOK /\ work[r] \in Locals
      /\ Keeping /\ UNCHANGED <<leaves, marks, reviews, audited, late, work>>
      /\ Insert(row) /\ Goto(r, "auditLeave")
  BY <1>1 DEF LeaveInv, LeaveShapeOK, LeaveTypeOK, InsertDeduction, At
<1>3. /\ ShiftsTypeOK' /\ now' \in Times /\ OthersRest(r)
      /\ UNCHANGED <<now, rows, overlap, failures, cutShort>>
  BY <1>2, KeepingKeeps, AloneAtWork
<1>4. /\ l \in LeaveIds /\ work[r].kind = "approve" /\ leaves[l].status # "none"
      /\ leaves[l] \in LeaveRow /\ work[r].row = [leaves[l] EXCEPT !.status = "pending"]
      /\ work[r].row.type # "unpaid" /\ work[r].through <= now
  BY <1>1, <1>2 DEF HandOK, ForLeave, LeaveTypeOK
<1>5. /\ work[r].row.who = leaves[l].who /\ work[r].row.hours = leaves[l].hours
      /\ leaves[l].type # "unpaid" /\ leaves[l].hours \in Nat /\ leaves[l].who \in Staff
  BY <1>4 DEF LeaveInv, UnmadeOK, LeaveRow
<1>6. row = Row(leaves[l].who, -leaves[l].hours, "request", l, {})
  BY <1>1, <1>5
<1>7. /\ row \in LedgerRow /\ row.who = leaves[l].who /\ row.delta = -leaves[l].hours
      /\ row.source = "request" /\ row.ref = l
  <2>1. -leaves[l].hours \in Int
    BY <1>5
  <2>. QED  BY <1>4, <1>5, <1>6, <2>1, RowFits
<1>8. /\ OthersKeep(r) /\ pc'[r] = "auditLeave" /\ work'[r] = work[r]
      /\ work' \in [Requests -> Locals]
  BY <1>2, GoesOn
<1>9. LeaveTypeOK' /\ LeavesKeep /\ \A m \in LeaveIds : UnmadeOK(m)'
  BY <1>2, <1>7, InsertKeeps
<1>10. HandOK(r)'
  BY <1>1, <1>2, <1>3, <1>4, <1>8 DEF HandOK, ForLeave, Accruing, ForOne, Reviews
<1>11. ASSUME failures' = 0, NEW who \in Staff PROVE BalanceFits(who)'
  <2>. DEFINE b == IF row.who = who THEN row.delta ELSE 0
  <2>1. /\ BalanceFits(who) /\ Balance(who) \in Int /\ Balance(who)' = Balance(who) + b
        /\ b \in Int
    BY <1>2, <1>3, <1>5, <1>7, <1>11, InsertEffect DEF LeaveInv
  <2>2. l \in Tracked(who) <=> row.who = who
    BY <1>4, <1>5, <1>7 DEF Tracked
  <2>3. Due(r, who) = 0 /\ Due(r, who)' = b
    BY <1>1, <1>2, <1>4, <1>7, <1>8, <2>2 DEF Due, Tracked
  <2>. HIDE DEF b
  <2>4. DueTo(who) \in Int /\ DueTo(who)' = DueTo(who) + b
    <3>1. DueTo(who) \in Int /\ DueTo(who)' = DueTo(who) + (b - 0)
      BY <1>8, <1>9, <2>3, DueStep
    <3>. QED  BY <2>1, <3>1
  <2>5. Spent(who) \in Int /\ Spent(who)' = Spent(who) + 0
    <3>1. Spent(who) \in Int /\ Spent(who)' = Spent(who)
      BY <1>2, SpentSame
    <3>. QED  BY <3>1
  <2>6. Logged(who) \in Int /\ Logged(who)' = Logged(who) + 0
    BY <1>2, LoggedSame
  <2>7. 0 \in Int /\ b = (0 - 0) + b
    BY <2>1
  <2>. QED  BY <1>2, <1>9, <2>1, <2>4, <2>5, <2>6, <2>7, BalanceMoves
<1>12. ASSUME ~overlap
       PROVE  /\ StillSo(r)'
              /\ \A who \in Staff : marks'[who] <= now
              /\ \A m \in LeaveIds : Covered(m)'
              /\ \A m \in LeaveIds \ cutShort' : LeaveFits(m)'
              /\ \A s \in Shifts : Owner[s] \notin cutShort' => CreditFits(s)'
  <2>1. leaves[l].status = "approved"
    BY <1>1, <1>2, <1>12 DEF LeaveInv, StillSo
  <2>2. StillSo(r)'
    BY <1>1, <1>2, <1>4, <1>8, <2>1 DEF StillSo, Accruing
  <2>3. \A who \in Staff : marks'[who] <= now
    BY <1>2, <1>12 DEF LeaveInv
  <2>4. \A q \in Requests \ {r} : pc'[q] = "idle" /\ pc[q] = "idle"
    BY <1>3, <1>8, <1>12 DEF OthersRest, OthersKeep
  <2>5. ASSUME NEW m \in LeaveIds PROVE Covered(m)'
    <3>1. Covered(m) /\ \A q \in Requests : ~Deducting(q, m)'
      BY <1>8, <1>12, <2>4 DEF LeaveInv, Deducting
    <3>. QED  BY <1>2, <1>7, <2>1, <3>1, CoveredOnInsert
  <2>6. ASSUME NEW m \in LeaveIds \ cutShort', m # l PROVE LeaveFits(m)'
    <3>1. LeaveFits(m) /\ ~Reviewing(r, m) /\ ~Reviewing(r, m)'
      BY <1>1, <1>3, <1>8, <1>12, <2>6 DEF LeaveInv, Reviewing
    <3>. QED  BY <1>2, <1>7, <1>8, <2>6, <3>1, LeaveFitsOnInsert
  <2>7. ASSUME l \notin cutShort' PROVE LeaveFits(l)'
    <3>1. LeaveFits(l) /\ Deducting(r, l) /\ Reviewing(r, l)
      BY <1>1, <1>2, <1>3, <1>4, <1>12, <2>7 DEF LeaveInv, Deducting, Reviewing
    <3>2. Deductions(l) = {} /\ reviews'[l] = <<"request">>
      BY <1>2, <1>4, <3>1 DEF LeaveFits, Is
    <3>3. Reviewing(r, l)' /\ \A q \in Requests : ~Deducting(q, l)'
      BY <1>1, <1>8, <2>4 DEF Reviewing, Deducting
    <3>4. \A q \in Requests : Reviewing(q, l)' => ~Is(q, {"request"})'
      BY <1>4, <1>8, <2>4 DEF Reviewing, Is
    <3>5. Deductions(l)' = {row} /\ ledger'[row] = 1
      <4>1. row \notin DOMAIN ledger
        BY <1>7, <3>2 DEF Deductions, BagToSet
      <4>. QED  BY <1>2, <1>7, <3>2, <4>1, InsertEffect
    <3>6. Deducted(l)'
      BY <1>2, <1>5, <1>6, <2>1, <3>5 DEF Deducted
    <3>. QED  BY <3>2, <3>3, <3>4, <3>6 DEF LeaveFits
  <2>8. ASSUME NEW s \in Shifts, Owner[s] \notin cutShort' PROVE CreditFits(s)'
    <3>1. CreditFits(s) /\ ~Crediting(r, Owner[s]) /\ ~Crediting(r, Owner[s])'
      BY <1>2, <1>3, <1>8, <1>12, <2>8 DEF LeaveInv, Crediting
    <3>2. CreditsOf(s)' = CreditsOf(s)
      <4>1. CreditsOf(s)' = CreditsOf(s) + 0 /\ CreditsOf(s) \in Int
        BY <1>2, <1>7, InsertEffect
      <4>. QED  BY <4>1
    <3>. QED  BY <1>2, <1>3, <1>8, <3>1, <3>2, CreditFitsKept
  <2>. QED  BY <2>2, <2>3, <2>5, <2>6, <2>7, <2>8
<1>. QED  BY <1>3, <1>8, <1>9, <1>10, <1>11, <1>12, LeaveStepKeeps

LEMMA InsertAdjustmentStep ==
  ASSUME LeaveInv, NEW r \in Requests, InsertAdjustment(r)
  PROVE  LeaveInv'
<1>1. PICK row : row = Row(work[r].who, Stored(work[r].delta), "adjustment", Null, {})
  OBVIOUS
<1>2. /\ HandOK(r) /\ pc[r] = "insertAdjustment" /\ LeaveTypeOK /\ work[r] \in Locals
      /\ Keeping /\ UNCHANGED <<leaves, marks, reviews, audited, late, work>>
      /\ Insert(row) /\ Goto(r, "auditCredit")
  BY <1>1 DEF LeaveInv, LeaveShapeOK, LeaveTypeOK, InsertAdjustment, At
<1>3. /\ ShiftsTypeOK' /\ now' \in Times /\ OthersRest(r)
      /\ UNCHANGED <<now, rows, overlap, failures, cutShort>>
  BY <1>2, KeepingKeeps, AloneAtWork
<1>4. /\ work[r].who \in Staff /\ work[r].kind = "adjust" /\ work[r].through <= now
      /\ Stored(work[r].delta) \in Int
  BY <1>2, StoredAmount DEF HandOK, ForOne, Locals
<1>5. /\ row \in LedgerRow /\ row.who = work[r].who /\ row.delta = Stored(work[r].delta)
      /\ row.source = "adjustment" /\ row.ref \notin LeaveIds
  BY <1>1, <1>4, RowFits, LeaveAssumption
<1>6. /\ OthersKeep(r) /\ pc'[r] = "auditCredit" /\ work'[r] = work[r]
      /\ work' \in [Requests -> Locals]
  BY <1>2, GoesOn
<1>7. LeaveTypeOK' /\ LeavesKeep /\ \A m \in LeaveIds : UnmadeOK(m)'
  BY <1>2, <1>5, InsertKeeps
<1>8. HandOK(r)' /\ StillSo(r)'
  BY <1>2, <1>3, <1>4, <1>6 DEF HandOK, StillSo, ForLeave, Accruing, ForOne
<1>9. ASSUME failures' = 0, NEW who \in Staff PROVE BalanceFits(who)'
  <2>. DEFINE b == IF row.who = who THEN row.delta ELSE 0
  <2>1. /\ BalanceFits(who) /\ Balance(who) \in Int /\ Balance(who)' = Balance(who) + b
        /\ b \in Int
    BY <1>2, <1>3, <1>4, <1>5, <1>9, InsertEffect DEF LeaveInv
  <2>2. Due(r, who) = 0 /\ Due(r, who)' = b
    BY <1>2, <1>5, <1>6 DEF Due
  <2>. HIDE DEF b
  <2>3. DueTo(who) \in Int /\ DueTo(who)' = DueTo(who) + b
    <3>1. DueTo(who) \in Int /\ DueTo(who)' = DueTo(who) + (b - 0)
      BY <1>6, <1>7, <2>2, DueStep
    <3>. QED  BY <2>1, <3>1
  <2>4. Spent(who) \in Int /\ Spent(who)' = Spent(who) + 0
    <3>1. Spent(who) \in Int /\ Spent(who)' = Spent(who)
      BY <1>2, SpentSame
    <3>. QED  BY <3>1
  <2>5. Logged(who) \in Int /\ Logged(who)' = Logged(who) + 0
    BY <1>2, LoggedSame
  <2>6. 0 \in Int /\ b = (0 - 0) + b
    BY <2>1
  <2>. QED  BY <1>2, <1>7, <2>1, <2>3, <2>4, <2>5, <2>6, BalanceMoves
<1>10. ASSUME ~overlap
       PROVE  /\ \A who \in Staff : marks'[who] <= now
              /\ \A m \in LeaveIds : Covered(m)'
              /\ \A m \in LeaveIds \ cutShort' : LeaveFits(m)'
              /\ \A s \in Shifts : Owner[s] \notin cutShort' => CreditFits(s)'
  <2>1. \A who \in Staff : marks'[who] <= now
    BY <1>2, <1>10 DEF LeaveInv
  <2>2. \A q \in Requests \ {r} : pc'[q] = "idle" /\ pc[q] = "idle"
    BY <1>3, <1>6, <1>10 DEF OthersRest, OthersKeep
  <2>3. ASSUME NEW m \in LeaveIds PROVE Covered(m)'
    <3>1. Covered(m) /\ \A q \in Requests : ~Deducting(q, m)'
      BY <1>6, <1>10, <2>2 DEF LeaveInv, Deducting
    <3>. QED  BY <1>2, <1>5, <3>1, CoveredOnInsert
  <2>4. ASSUME NEW m \in LeaveIds \ cutShort' PROVE LeaveFits(m)'
    <3>1. LeaveFits(m) /\ ~Reviewing(r, m) /\ ~Reviewing(r, m)'
      BY <1>2, <1>3, <1>6, <1>10 DEF LeaveInv, Reviewing
    <3>. QED  BY <1>2, <1>5, <1>6, <3>1, LeaveFitsOnInsert
  <2>5. ASSUME NEW s \in Shifts, Owner[s] \notin cutShort' PROVE CreditFits(s)'
    <3>1. CreditFits(s) /\ ~Crediting(r, Owner[s]) /\ ~Crediting(r, Owner[s])'
      BY <1>2, <1>3, <1>6, <1>10, <2>5 DEF LeaveInv, Crediting
    <3>2. CreditsOf(s)' = CreditsOf(s)
      <4>1. CreditsOf(s)' = CreditsOf(s) + 0 /\ CreditsOf(s) \in Int
        BY <1>2, <1>5, InsertEffect
      <4>. QED  BY <4>1
    <3>. QED  BY <1>2, <1>3, <1>6, <3>1, <3>2, CreditFitsKept
  <2>. QED  BY <2>1, <2>3, <2>4, <2>5
<1>. QED  BY <1>3, <1>6, <1>7, <1>8, <1>9, <1>10, LeaveStepKeeps

LEMMA InsertAccrualStep ==
  ASSUME LeaveInv, NEW r \in Requests, InsertAccrual(r)
  PROVE  LeaveInv'
<1>1. PICK row : row = Row(work[r].who, Stored(work[r].delta), "accrual", Null, work[r].picked)
  OBVIOUS
<1>2. /\ HandOK(r) /\ pc[r] = "insertAccrual" /\ LeaveTypeOK /\ work[r] \in Locals
      /\ ShiftsTypeOK /\ Keeping /\ UNCHANGED <<leaves, marks, reviews, audited, late, work>>
      /\ Insert(row) /\ Goto(r, "setMark")
  BY <1>1 DEF LeaveInv, LeaveShapeOK, LeaveTypeOK, InsertAccrual, At
<1>3. /\ ShiftsTypeOK' /\ now' \in Times /\ OthersRest(r)
      /\ UNCHANGED <<now, rows, overlap, failures, cutShort>>
  BY <1>2, KeepingKeeps, AloneAtWork
<1>4. /\ work[r].who \in Staff /\ work[r].kind = "accrue" /\ work[r].through <= now
      /\ Stored(work[r].delta) \in Int /\ work[r].picked \in SUBSET Shifts
      /\ work[r].through \in Int
  BY <1>2, StoredAmount DEF HandOK, ForOne, Accruing, Locals
<1>5. /\ row \in LedgerRow /\ row.who = work[r].who /\ row.delta = Stored(work[r].delta)
      /\ row.source = "accrual" /\ row.ref \notin LeaveIds /\ row.of = work[r].picked
  BY <1>1, <1>4, RowFits, LeaveAssumption
<1>6. /\ OthersKeep(r) /\ pc'[r] = "setMark" /\ work'[r] = work[r]
      /\ work' \in [Requests -> Locals]
  BY <1>2, GoesOn
<1>7. LeaveTypeOK' /\ LeavesKeep /\ \A m \in LeaveIds : UnmadeOK(m)'
  BY <1>2, <1>5, InsertKeeps
<1>8. HandOK(r)'
  BY <1>2, <1>3, <1>4, <1>6 DEF HandOK, ForLeave, Accruing, ForOne
<1>9. ASSUME failures' = 0, NEW who \in Staff PROVE BalanceFits(who)'
  <2>. DEFINE b == IF row.who = who THEN row.delta ELSE 0
  <2>1. /\ BalanceFits(who) /\ Balance(who) \in Int /\ Balance(who)' = Balance(who) + b
        /\ b \in Int
    BY <1>2, <1>3, <1>4, <1>5, <1>9, InsertEffect DEF LeaveInv
  <2>2. Due(r, who) = 0 /\ Due(r, who)' = b
    BY <1>2, <1>5, <1>6 DEF Due
  <2>. HIDE DEF b
  <2>3. DueTo(who) \in Int /\ DueTo(who)' = DueTo(who) + b
    <3>1. DueTo(who) \in Int /\ DueTo(who)' = DueTo(who) + (b - 0)
      BY <1>6, <1>7, <2>2, DueStep
    <3>. QED  BY <2>1, <3>1
  <2>4. Spent(who) \in Int /\ Spent(who)' = Spent(who) + 0
    <3>1. Spent(who) \in Int /\ Spent(who)' = Spent(who)
      BY <1>2, SpentSame
    <3>. QED  BY <3>1
  <2>5. Logged(who) \in Int /\ Logged(who)' = Logged(who) + 0
    BY <1>2, LoggedSame
  <2>6. 0 \in Int /\ b = (0 - 0) + b
    BY <2>1
  <2>. QED  BY <1>2, <1>7, <2>1, <2>3, <2>4, <2>5, <2>6, BalanceMoves
<1>10. ASSUME ~overlap
       PROVE  /\ StillSo(r)'
              /\ \A who \in Staff : marks'[who] <= now
              /\ \A m \in LeaveIds : Covered(m)'
              /\ \A m \in LeaveIds \ cutShort' : LeaveFits(m)'
              /\ \A s \in Shifts : Owner[s] \notin cutShort' => CreditFits(s)'
  <2>1. \A who \in Staff : marks'[who] <= now
    BY <1>2, <1>10 DEF LeaveInv
  <2>2. \A q \in Requests \ {r} : pc'[q] = "idle" /\ pc[q] = "idle"
    BY <1>3, <1>6, <1>10 DEF OthersRest, OthersKeep
  <2>3. ASSUME NEW m \in LeaveIds PROVE Covered(m)'
    <3>1. Covered(m) /\ \A q \in Requests : ~Deducting(q, m)'
      BY <1>6, <1>10, <2>2 DEF LeaveInv, Deducting
    <3>. QED  BY <1>2, <1>5, <3>1, CoveredOnInsert
  <2>4. ASSUME NEW m \in LeaveIds \ cutShort' PROVE LeaveFits(m)'
    <3>1. LeaveFits(m) /\ ~Reviewing(r, m) /\ ~Reviewing(r, m)'
      BY <1>2, <1>3, <1>6, <1>10 DEF LeaveInv, Reviewing
    <3>. QED  BY <1>2, <1>5, <1>6, <3>1, LeaveFitsOnInsert
  <2>5. StillSo(r)
    BY <1>10 DEF LeaveInv
  <2>6. /\ work[r].since = marks[work[r].who]
        /\ work[r].picked = Uncredited(work[r].who, work[r].since, work[r].through)
        /\ \A who \in Staff : marks[who] <= work[r].through
    BY <1>2, <2>5 DEF StillSo, Accruing
  <2>7. StillSo(r)'
    <3>1. Uncredited(work[r].who, work[r].since, work[r].through)' = work[r].picked
      BY <1>2, <1>3, <2>6 DEF Uncredited, rows
    <3>. QED  BY <1>2, <1>4, <1>6, <2>6, <3>1 DEF StillSo, Accruing
  <2>8. ASSUME NEW s \in Shifts, Owner[s] \notin cutShort' PROVE CreditFits(s)'
    <3>1. /\ CreditFits(s) /\ ~Crediting(r, Owner[s]) /\ CreditsOf(s) \in Int
          /\ CreditsOf(s)' = CreditsOf(s) + (IF s \in work[r].picked THEN 1 ELSE 0)
      BY <1>2, <1>3, <1>5, <1>10, <2>8, InsertEffect DEF LeaveInv, Crediting
    <3>2. CASE Owner[s] = work[r].who
      <4>1. SUFFICES ASSUME ~shifts[s].edited, s \notin late
                     PROVE  CreditedUpTo(s, work[r].through)'
        <5>1. Crediting(r, Owner[s])' /\ \A q \in Requests : Crediting(q, Owner[s])' => q = r
          BY <1>6, <2>2, <3>2 DEF Crediting
        <5>. QED  BY <1>2, <1>3, <1>6, <5>1 DEF CreditFits, rows
      <4>2. \A q \in Requests : ~Crediting(q, Owner[s])
        BY <2>2, <3>1 DEF Crediting
      <4>3. CreditedUpTo(s, marks[Owner[s]])
        BY <3>1, <4>1, <4>2 DEF CreditFits
      <4>4. s \in work[r].picked <=> /\ shifts[s].out # Null /\ shifts[s].out > marks[Owner[s]]
                                    /\ shifts[s].out <= work[r].through
        BY <2>6, <3>2 DEF Uncredited
      <4>5. /\ shifts[s].out \in Int /\ marks[Owner[s]] \in Int
            /\ marks[Owner[s]] <= work[r].through
        BY <1>2, <1>4, <2>6, <3>2 DEF ShiftsTypeOK, LeaveTypeOK, Times, Null
      <4>6. CreditsOf(s)' =
              IF shifts[s].out # Null /\ shifts[s].out <= work[r].through THEN 1 ELSE 0
        BY <1>4, <3>1, <4>3, <4>4, <4>5 DEF CreditedUpTo
      <4>. QED  BY <1>3, <1>6, <4>6 DEF CreditedUpTo, rows
    <3>3. CASE Owner[s] # work[r].who
      <4>1. ~Crediting(r, Owner[s])' /\ s \notin work[r].picked
        BY <1>6, <2>6, <3>3 DEF Crediting, Uncredited
      <4>2. CreditsOf(s)' = CreditsOf(s)
        BY <3>1, <4>1
      <4>. QED  BY <1>2, <1>3, <1>6, <3>1, <4>1, <4>2, CreditFitsKept
    <3>. QED  BY <3>2, <3>3
  <2>. QED  BY <2>1, <2>3, <2>4, <2>7, <2>8
<1>. QED  BY <1>3, <1>6, <1>7, <1>8, <1>9, <1>10, LeaveStepKeeps

-----------------------------------------------------------------------------
(* The statements after a credit *)

LEMMA SetMarkStep ==
  ASSUME LeaveInv, NEW r \in Requests, SetMark(r)
  PROVE  LeaveInv'
<1>1. PICK whose, through : whose = work[r].who /\ through = work[r].through
  OBVIOUS
<1>2. /\ HandOK(r) /\ pc[r] = "setMark" /\ LeaveTypeOK /\ work[r] \in Locals
      /\ Keeping /\ UNCHANGED <<leaves, ledger, history, work>>
      /\ marks' = [marks EXCEPT ![whose] = through] /\ Goto(r, "auditCredit")
  BY <1>1 DEF LeaveInv, LeaveShapeOK, LeaveTypeOK, SetMark, At
<1>3. /\ ShiftsTypeOK' /\ now' \in Times /\ OthersRest(r)
      /\ UNCHANGED <<now, rows, overlap, failures, cutShort>>
  BY <1>2, KeepingKeeps, AloneAtWork
<1>4. whose \in Staff /\ work[r].kind = "accrue" /\ through <= now /\ through \in Int
  BY <1>1, <1>2 DEF HandOK, ForOne, Accruing, Locals
<1>5. /\ OthersKeep(r) /\ pc'[r] = "auditCredit" /\ work'[r] = work[r]
      /\ work' \in [Requests -> Locals]
  BY <1>2, GoesOn
<1>6. /\ LeaveTypeOK' /\ marks'[whose] = through
      /\ \A who \in Staff \ {whose} : marks'[who] = marks[who]
  BY <1>2, <1>4 DEF LeaveTypeOK, history
<1>7. LeavesKeep /\ \A m \in LeaveIds : UnmadeOK(m)'
  <2>1. ASSUME NEW m \in LeaveIds
        PROVE  /\ leaves'[m] = [leaves[m] EXCEPT !.status = leaves[m].status]
               /\ leaves[m].status \in Statuses /\ UnmadeOK(m)'
    BY <1>2 DEF LeaveInv, UnmadeOK, LeaveTypeOK, LeaveRow, history
  <2>. QED  BY <2>1 DEF LeavesKeep
<1>8. HandOK(r)'
  BY <1>1, <1>2, <1>3, <1>4, <1>5 DEF HandOK, ForLeave, Accruing, ForOne
<1>9. /\ \A who : Balance(who)' = Balance(who)
      /\ \A s : CreditsOf(s)' = CreditsOf(s)
      /\ \A m : Deductions(m)' = Deductions(m)
  BY <1>2, LedgerSame
<1>10. ASSUME failures' = 0, NEW who \in Staff PROVE BalanceFits(who)'
  <2>1. BalanceFits(who) /\ Due(r, who) = Due(r, who)'
    BY <1>2, <1>3, <1>5, <1>10 DEF LeaveInv, Due
  <2>2. DueTo(who)' = DueTo(who)
    <3>1. /\ DueTo(who) \in Int /\ Due(r, who) \in Int
          /\ DueTo(who)' = DueTo(who) + (Due(r, who)' - Due(r, who))
      BY <1>5, <1>6, <1>7, DueStep
    <3>. QED  BY <2>1, <3>1
  <2>3. Spent(who)' = Spent(who)
    BY <1>2, SpentSame DEF history
  <2>4. Logged(who)' = Logged(who)
    BY <1>2, LoggedSame DEF history
  <2>. QED  BY <1>9, <2>1, <2>2, <2>3, <2>4 DEF BalanceFits
<1>11. ASSUME ~overlap
       PROVE  /\ StillSo(r)'
              /\ \A who \in Staff : marks'[who] <= now
              /\ \A m \in LeaveIds : Covered(m)'
              /\ \A m \in LeaveIds \ cutShort' : LeaveFits(m)'
              /\ \A s \in Shifts : Owner[s] \notin cutShort' => CreditFits(s)'
  <2>1. \A who \in Staff : marks'[who] <= now
    BY <1>4, <1>6, <1>11 DEF LeaveInv
  <2>2. \A q \in Requests \ {r} : pc'[q] = "idle" /\ pc[q] = "idle"
    BY <1>3, <1>5, <1>11 DEF OthersRest, OthersKeep
  <2>3. ASSUME NEW m \in LeaveIds PROVE Covered(m)'
    <3>1. Covered(m) /\ ~Deducting(r, m)'
      BY <1>5, <1>11 DEF LeaveInv, Deducting
    <3>. QED  BY <1>2, <1>5, <1>9, <3>1, CoveredKept DEF history
  <2>4. ASSUME NEW m \in LeaveIds \ cutShort' PROVE LeaveFits(m)'
    <3>1. LeaveFits(m) /\ ~Reviewing(r, m) /\ ~Reviewing(r, m)'
      BY <1>2, <1>3, <1>5, <1>11 DEF LeaveInv, Reviewing
    <3>. QED  BY <1>2, <1>5, <1>9, <3>1, LeaveFitsKept DEF history
  <2>5. \A who \in Staff : marks'[who] <= through
    <3>1. \A who \in Staff : marks[who] <= through
      BY <1>1, <1>2, <1>11 DEF LeaveInv, StillSo, Accruing
    <3>. QED  BY <1>4, <1>6, <3>1
  <2>6. StillSo(r)'
    BY <1>1, <1>5, <2>5 DEF StillSo, Accruing
  <2>7. ASSUME NEW s \in Shifts, Owner[s] \notin cutShort' PROVE CreditFits(s)'
    <3>1. CreditFits(s) /\ ~Crediting(r, Owner[s])' /\ Owner[s] \in Staff
      BY <1>3, <1>5, <1>11, <2>7, OwnerAssumption DEF LeaveInv, Crediting
    <3>2. CASE Owner[s] = whose
      <4>1. Crediting(r, Owner[s]) /\ \A q \in Requests : ~Crediting(q, Owner[s])'
        BY <1>1, <1>2, <1>5, <2>2, <3>2 DEF Crediting
      <4>2. ~shifts[s].edited /\ s \notin late => CreditedUpTo(s, through)
        BY <1>1, <3>1, <4>1 DEF CreditFits
      <4>. QED  BY <1>2, <1>3, <1>6, <1>9, <3>2, <4>1, <4>2
                DEF CreditFits, CreditedUpTo, history, rows
    <3>3. CASE Owner[s] # whose
      <4>1. ~Crediting(r, Owner[s]) /\ marks'[Owner[s]] = marks[Owner[s]]
        BY <1>1, <1>6, <3>1, <3>3 DEF Crediting
      <4>. QED  BY <1>2, <1>3, <1>5, <1>9, <3>1, <4>1, CreditFitsKept DEF history
    <3>. QED  BY <3>2, <3>3
  <2>. QED  BY <2>1, <2>3, <2>4, <2>6, <2>7
<1>. QED  BY <1>3, <1>5, <1>6, <1>7, <1>8, <1>10, <1>11, LeaveStepKeeps

LEMMA AuditCreditStep ==
  ASSUME LeaveInv, NEW r \in Requests, AuditCredit(r)
  PROVE  LeaveInv'
<1>1. PICK whose, delta : whose = work[r].who /\ delta = work[r].delta
  OBVIOUS
<1>2. /\ HandOK(r) /\ pc[r] = "auditCredit" /\ LeaveTypeOK /\ work[r] \in Locals
      /\ Keeping /\ UNCHANGED <<tables, reviews, late, stale>>
      /\ audited' = [audited EXCEPT ![whose] = With(@, delta)]
      /\ IF work[r].kind = "accrue" THEN NextEmployee(r) ELSE Respond(r)
  BY <1>1 DEF LeaveInv, LeaveShapeOK, LeaveTypeOK, AuditCredit, At, Is, With
<1>3. /\ ShiftsTypeOK' /\ now' \in Times /\ OthersRest(r)
      /\ UNCHANGED <<now, rows, overlap, failures, cutShort>>
  BY <1>2, KeepingKeeps, AloneAtWork
<1>4. whose \in Staff /\ delta \in Int
  BY <1>1, <1>2 DEF HandOK, ForOne, Locals
<1>5. /\ OthersKeep(r) /\ pc'[r] \in {"idle", "readMark"} /\ work' \in [Requests -> Locals]
      /\ HandOK(r)'
      /\ ~overlap => StillSo(r)'
  <2>1. CASE work[r].kind = "accrue"
    <3>1. ~overlap => \A who \in Staff : marks'[who] <= work[r].through
      BY <1>2, <2>1 DEF LeaveInv, StillSo, tables
    <3>. QED  BY <1>2, <1>3, <2>1, <3>1, NextEmployeeOK
  <2>2. CASE work[r].kind # "accrue"
    BY <1>2, <1>3, <2>2, DoneOK
  <2>. QED  BY <2>1, <2>2
<1>6. /\ LeaveTypeOK'
      /\ \A who \in Staff :
           audited'[who] = IF who = whose THEN With(audited[who], delta) ELSE audited[who]
  <2>1. DOMAIN audited = Staff /\ \A who \in Staff : IsLog(audited[who])
    BY <1>2 DEF LeaveTypeOK
  <2>2. /\ DOMAIN audited' = Staff
        /\ \A who \in Staff :
             audited'[who] = IF who = whose THEN With(audited[who], delta) ELSE audited[who]
    BY <1>2, <1>4, <2>1
  <2>3. \A who \in Staff : IsLog(audited'[who])
    BY <1>4, <2>1, <2>2, LogGrows
  <2>. QED  BY <1>2, <1>5, <2>2, <2>3 DEF LeaveTypeOK, tables
<1>7. LeavesKeep /\ \A m \in LeaveIds : UnmadeOK(m)'
  <2>1. ASSUME NEW m \in LeaveIds
        PROVE  /\ leaves'[m] = [leaves[m] EXCEPT !.status = leaves[m].status]
               /\ leaves[m].status \in Statuses /\ UnmadeOK(m)'
    BY <1>2 DEF LeaveInv, UnmadeOK, LeaveTypeOK, LeaveRow, tables
  <2>. QED  BY <2>1 DEF LeavesKeep
<1>8. /\ \A who : Balance(who)' = Balance(who)
      /\ \A s : CreditsOf(s)' = CreditsOf(s)
      /\ \A m : Deductions(m)' = Deductions(m)
  BY <1>2, LedgerSame DEF tables
<1>9. ASSUME failures' = 0, NEW who \in Staff PROVE BalanceFits(who)'
  <2>. DEFINE a == IF who = whose THEN Stored(delta) ELSE 0
  <2>1. BalanceFits(who) /\ Balance(who) \in Int /\ a \in Int
    BY <1>2, <1>3, <1>4, <1>9, BalanceNumber, StoredAmount DEF LeaveInv
  <2>2. Due(r, who) = a /\ Due(r, who)' = 0
    BY <1>1, <1>2, <1>5 DEF Due
  <2>3. Logged(who) \in Int /\ Logged(who)' = Logged(who) + a
    <3>1. CASE who = whose
      <4>1. IsLog(audited[who]) /\ audited'[who] = With(audited[who], delta)
        BY <1>2, <1>4, <1>6, <3>1 DEF LeaveTypeOK
      <4>. QED  BY <1>4, <3>1, <4>1, AmountsTyped, LogGrows, LoggedIsTotal
    <3>2. CASE who # whose
      BY <1>2, <1>6, <3>2, LoggedSame
    <3>. QED  BY <3>1, <3>2
  <2>. HIDE DEF a
  <2>4. DueTo(who) \in Int /\ DueTo(who)' = DueTo(who) + (0 - a)
    BY <1>5, <1>6, <1>7, <2>2, DueStep
  <2>5. Spent(who) \in Int /\ Spent(who)' = Spent(who) + 0
    <3>1. Spent(who) \in Int /\ Spent(who)' = Spent(who)
      BY <1>2, SpentSame DEF tables
    <3>. QED  BY <3>1
  <2>6. Balance(who)' = Balance(who) + 0
    BY <1>8, <2>1
  <2>7. 0 \in Int /\ 0 - a \in Int /\ 0 = (a - 0) + (0 - a)
    BY <2>1
  <2>. QED  BY <1>2, <1>6, <2>1, <2>3, <2>4, <2>5, <2>6, <2>7, BalanceMoves
<1>10. ASSUME ~overlap
       PROVE  /\ \A who \in Staff : marks'[who] <= now
              /\ \A m \in LeaveIds : Covered(m)'
              /\ \A m \in LeaveIds \ cutShort' : LeaveFits(m)'
              /\ \A s \in Shifts : Owner[s] \notin cutShort' => CreditFits(s)'
  <2>1. \A who \in Staff : marks'[who] <= now
    BY <1>2, <1>10 DEF LeaveInv, tables
  <2>2. ASSUME NEW m \in LeaveIds PROVE Covered(m)'
    <3>1. Covered(m) /\ ~Deducting(r, m)'
      BY <1>5, <1>10 DEF LeaveInv, Deducting
    <3>. QED  BY <1>2, <1>5, <1>8, <3>1, CoveredKept DEF tables
  <2>3. ASSUME NEW m \in LeaveIds \ cutShort' PROVE LeaveFits(m)'
    <3>1. LeaveFits(m) /\ ~Reviewing(r, m) /\ ~Reviewing(r, m)'
      BY <1>2, <1>3, <1>5, <1>10 DEF LeaveInv, Reviewing
    <3>. QED  BY <1>2, <1>5, <1>8, <3>1, LeaveFitsKept DEF tables
  <2>4. ASSUME NEW s \in Shifts, Owner[s] \notin cutShort' PROVE CreditFits(s)'
    <3>1. CreditFits(s) /\ ~Crediting(r, Owner[s]) /\ ~Crediting(r, Owner[s])'
      BY <1>2, <1>3, <1>5, <1>10, <2>4 DEF LeaveInv, Crediting
    <3>. QED  BY <1>2, <1>3, <1>5, <1>8, <3>1, CreditFitsKept DEF tables
  <2>. QED  BY <2>1, <2>2, <2>3, <2>4
<1>. QED  BY <1>3, <1>5, <1>6, <1>7, <1>9, <1>10, LeaveStepKeeps

LEMMA LooksOnStep ==
  ASSUME LeaveInv, LeaveLooksOn, ShiftsTypeOK', now <= now',
         UNCHANGED <<pc, overlap, failures, cutShort>>, overlap \/ Idle \/ UNCHANGED rows,
         ShiftsMove
  PROVE  LeaveInv'
<1>1. /\ late' = late \cup {s \in Shifts : /\ shifts[s].out = Null /\ shifts'[s].out # Null
                                            /\ shifts'[s].out <= marks[Owner[s]]}
      /\ UNCHANGED <<leaves, ledger, marks, reviews, audited, stale, work>>
  BY DEF LeaveLooksOn, tables
<1>2. LeaveTypeOK /\ ShiftsTypeOK
  BY DEF LeaveInv, LeaveShapeOK
<1>3. LeaveShapeOK'
  BY <1>1 DEF LeaveInv, LeaveShapeOK, LeaveTypeOK
<1>4. \A l \in LeaveIds : UnmadeOK(l)'
  BY <1>1 DEF LeaveInv, UnmadeOK
<1>5. \A s \in Shifts : shifts'[s].out = Null => ~shifts'[s].edited
  BY DEF LeaveInv, ShiftsMove
<1>6. ASSUME NEW r \in Requests PROVE HandOK(r)'
  <2>1. HandOK(r) /\ work[r].through \in Int /\ now \in Int /\ now' \in Int
    BY <1>2 DEF LeaveInv, LeaveTypeOK, Locals, ShiftsTypeOK, Times
  <2>2. work'[r].through <= now'
    BY <1>1, <2>1 DEF HandOK
  <2>. QED  BY <1>1, <2>1, <2>2 DEF HandOK
<1>7. /\ \A who : Balance(who)' = Balance(who)
      /\ \A s : CreditsOf(s)' = CreditsOf(s)
      /\ \A l : Deductions(l)' = Deductions(l)
  BY <1>1, LedgerSame
<1>8. ASSUME failures' = 0, NEW who \in Staff PROVE BalanceFits(who)'
  <2>1. BalanceFits(who)
    BY <1>8 DEF LeaveInv
  <2>2. Spent(who)' = Spent(who)
    BY <1>1, <1>2, SpentSame
  <2>3. \A r \in Requests : Due(r, who)' = Due(r, who)
    BY <1>1 DEF Due, Tracked
  <2>4. Dues(who)' = Dues(who)
    BY <2>3 DEF Dues
  <2>5. DueTo(who)' = DueTo(who)
    BY <2>4, DueIsTotal
  <2>6. Logged(who)' = Logged(who)
    BY <1>1, <1>2, LoggedSame
  <2>. QED  BY <1>7, <2>1, <2>2, <2>5, <2>6 DEF BalanceFits
<1>9. ASSUME ~overlap
      PROVE  /\ OneAtATime'
             /\ \A who \in Staff : marks'[who] <= now'
             /\ \A r \in Requests : StillSo(r)'
             /\ \A l \in LeaveIds : Covered(l)' /\ (l \notin cutShort => LeaveFits(l)')
             /\ \A s \in Shifts : Owner[s] \notin cutShort => CreditFits(s)'
  <2>1. OneAtATime'
    BY <1>9 DEF LeaveInv, OneAtATime
  <2>2. ASSUME NEW who \in Staff PROVE marks'[who] <= now'
    <3>1. marks[who] <= now /\ marks[who] \in Int /\ now \in Int /\ now' \in Int
      BY <1>2, <1>9 DEF LeaveInv, LeaveTypeOK, ShiftsTypeOK, Times
    <3>. QED  BY <1>1, <3>1
  <2>3. ASSUME NEW r \in Requests PROVE StillSo(r)'
    <3>1. StillSo(r) /\ (pc[r] = "idle" \/ UNCHANGED rows)
      BY <1>9 DEF LeaveInv, Idle
    <3>2. CASE pc[r] = "idle"
      BY <3>2 DEF StillSo, Accruing
    <3>3. CASE UNCHANGED rows
      <4>1. PICK mine : mine = work[r]
        OBVIOUS
      <4>2. Balance(work[r].row.who)' = Balance(mine.row.who)'
        BY <1>1, <4>1 DEF Balance
      <4>3. Balance(work[r].row.who)' = Balance(work[r].row.who)
        BY <1>7, <4>1, <4>2
      <4>4. Uncredited(work[r].who, work[r].since, work[r].through)'
              = Uncredited(work[r].who, work[r].since, work[r].through)
        BY <1>1, <3>3 DEF Uncredited, rows
      <4>. QED  BY <1>1, <3>1, <4>3, <4>4 DEF StillSo, Accruing
    <3>. QED  BY <3>1, <3>2, <3>3
  <2>4. ASSUME NEW l \in LeaveIds PROVE Covered(l)' /\ (l \notin cutShort => LeaveFits(l)')
    <3>1. Covered(l) /\ (l \notin cutShort => LeaveFits(l))
      BY <1>9 DEF LeaveInv
    <3>2. \A r \in Requests : /\ Deducting(r, l)' <=> Deducting(r, l)
                              /\ Reviewing(r, l)' <=> Reviewing(r, l)
                              /\ Is(r, {"request"})' <=> Is(r, {"request"})
      BY <1>1 DEF Deducting, Reviewing, Is
    <3>3. PICK who : who = leaves[l].who
      OBVIOUS
    <3>4. Balance(leaves[l].who)' = Balance(who)'
      BY <1>1, <3>3 DEF Balance
    <3>5. Balance(leaves[l].who)' = Balance(leaves[l].who)
      BY <1>7, <3>3, <3>4
    <3>6. Covered(l)'
      BY <1>1, <3>1, <3>2, <3>5 DEF Covered
    <3>7. (Told(l)' <=> Told(l)) /\ (Deducted(l)' <=> Deducted(l))
      BY <1>1, <1>7 DEF Told, Deducted
    <3>8. LeaveFits(l) => LeaveFits(l)'
      BY <1>1, <1>7, <3>2, <3>7 DEF LeaveFits
    <3>. QED  BY <3>1, <3>6, <3>8
  <2>5. ASSUME NEW s \in Shifts, Owner[s] \notin cutShort PROVE CreditFits(s)'
    <3>1. CreditFits(s) /\ Owner[s] \in Staff
      BY <1>9, <2>5, OwnerAssumption DEF LeaveInv
    <3>2. \A r \in Requests : /\ Crediting(r, Owner[s])' <=> Crediting(r, Owner[s])
                              /\ work'[r] = work[r]
      BY <1>1 DEF Crediting
    <3>3. CASE shifts'[s] = shifts[s]
      <4>1. \A mark : CreditedUpTo(s, mark)' <=> CreditedUpTo(s, mark)
        BY <1>7, <3>3 DEF CreditedUpTo
      <4>. QED  BY <1>1, <1>7, <3>1, <3>2, <3>3 DEF CreditFits, CreditedUpTo
    <3>4. CASE shifts'[s] # shifts[s]
      <4>1. SUFFICES ASSUME ~shifts'[s].edited, s \notin late'
                     PROVE  /\ \A r \in Requests : ~Crediting(r, Owner[s])'
                            /\ CreditedUpTo(s, marks[Owner[s]])'
        BY DEF CreditFits
      <4>2. shifts'[s].out # Null /\ shifts[s].out = Null
        BY <3>4, <4>1 DEF ShiftsMove
      <4>3. ~shifts[s].edited /\ s \notin late
        BY <1>1, <4>1, <4>2 DEF LeaveInv
      <4>4. Idle /\ \A r \in Requests : ~Crediting(r, Owner[s])
        BY <1>9, <3>4 DEF rows, Idle, Crediting
      <4>5. CreditsOf(s) = 0
        BY <3>1, <4>2, <4>3, <4>4 DEF CreditFits, CreditedUpTo
      <4>6. ~(shifts'[s].out <= marks[Owner[s]])
        BY <1>1, <4>1, <4>2
      <4>7. CreditedUpTo(s, marks[Owner[s]])'
        BY <1>1, <1>7, <4>5, <4>6 DEF CreditedUpTo
      <4>. QED  BY <3>2, <4>4, <4>7
    <3>. QED  BY <3>3, <3>4
  <2>. QED  BY <2>1, <2>2, <2>3, <2>4, <2>5
<1>. QED  BY <1>3, <1>4, <1>5, <1>6, <1>8, <1>9 DEF LeaveInv

-----------------------------------------------------------------------------
(* The start, and every step *)

\* Everyone starts with what they were granted, and nothing else.
LEMMA LedgerStarts ==
  ASSUME ledger = SetToBag({Row(who, Opening, "adjustment", Null, {}) : who \in Staff})
  PROVE  /\ DOMAIN ledger \subseteq LedgerRow /\ IsFiniteSet(DOMAIN ledger)
         /\ ledger \in [DOMAIN ledger -> Nat \ {0}]
         /\ \A who \in Staff : Balance(who) = Opening
         /\ \A s : CreditsOf(s) = 0
         /\ \A l : Deductions(l) = {}
<1>. DEFINE grant(who) == Row(who, Opening, "adjustment", Null, {})
            grants == {grant(who) : who \in Staff}
<1>1. DOMAIN ledger = grants /\ \A row \in grants : ledger[row] = 1
  BY DEF SetToBag
<1>2. ledger = [row \in grants |-> 1]
  BY DEF SetToBag
<1>3. \A who \in Staff : /\ grant(who) \in LedgerRow /\ grant(who).who = who
                         /\ grant(who).delta = Opening /\ grant(who).source = "adjustment"
  BY RowFits, LeaveAssumption
<1>. HIDE DEF grant
<1>4. IsFiniteSet(grants)
  <2>. DEFINE granting == [who \in Staff |-> grant(who)]
  <2>1. granting \in Surjection(Staff, grants)
    BY DEF Surjection
  <2>2. IsFiniteSet(Staff)
    BY FiniteAssumption
  <2>. QED  BY <2>1, <2>2, FS_Surjection
<1>5. grants \subseteq LedgerRow /\ \A row \in grants : row.source = "adjustment"
  BY <1>3
<1>6. ledger \in [DOMAIN ledger -> Nat \ {0}]
  BY <1>1, <1>2
<1>7. ASSUME NEW who \in Staff PROVE Balance(who) = Opening
  <2>. DEFINE f == Weighed(ledger, who)
  <2>1. Own(ledger, who) = {grant(who)}
    BY <1>1, <1>3 DEF Own
  <2>2. f[grant(who)] = Opening /\ Opening \in Int
    <3>1. f[grant(who)] = 1 * Opening
      BY <1>1, <1>3, <2>1 DEF Weighed
    <3>. QED  BY <3>1, LeaveAssumption
  <2>3. f \in [{grant(who)} -> Int]
    BY <2>1, <2>2 DEF Weighed
  <2>. HIDE DEF f
  <2>4. Total(f) = Opening
    <3>1. PICK none : none = [y \in {} |-> 0]
      OBVIOUS
    <3>2. none \in [{} -> Int] /\ Total(none) = 0 /\ IsFiniteSet({})
      BY <3>1, TotalOfNone, FS_EmptySet
    <3>3. f \in [{} \cup {grant(who)} -> Int]
      BY <2>3
    <3>4. Total(f) = Total(none) + f[grant(who)]
      BY <3>2, <3>3, TotalOneMore
    <3>. QED  BY <2>2, <3>2, <3>4
  <2>. QED  BY <2>4, BalanceIsTotal DEF f
<1>8. ASSUME NEW s PROVE CreditsOf(s) = 0
  <2>1. CreditRows(ledger) = {}
    BY <1>1, <1>5 DEF CreditRows
  <2>2. DOMAIN Counted(ledger, s) = {}
    BY <2>1 DEF Counted
  <2>. QED  BY <2>2, TotalOfNone, CreditsAreTotal
<1>9. ASSUME NEW l PROVE Deductions(l) = {}
  BY <1>1, <1>5 DEF Deductions, BagToSet
<1>. QED  BY <1>1, <1>4, <1>5, <1>6, <1>7, <1>8, <1>9

LEMMA LogStarts ==
  ASSUME NEW who, audited[who] = SetToBag({10 * Opening})
  PROVE  IsLog(audited[who]) /\ Logged(who) = Opening
<1>1. PICK none : none = [x \in {} |-> 0]
  OBVIOUS
<1>2. /\ IsLog(none) /\ Total(Amounts(none)) = 0
  <2>1. DOMAIN none = {} /\ none \in [DOMAIN none -> Nat \ {0}] /\ DOMAIN Amounts(none) = {}
    BY <1>1 DEF Amounts
  <2>. QED  BY <2>1, FS_EmptySet, TotalOfNone DEF IsLog
<1>3. With(none, 10 * Opening) = SetToBag({10 * Opening})
  BY <1>1 DEF With, (+), SetToBag
<1>4. 10 * Opening \in Int /\ Stored(10 * Opening) = Opening /\ Opening \in Int
  BY LeaveAssumption, StoredAmount
<1>5. IsLog(audited[who]) /\ Total(Amounts(audited[who])) = 0 + Stored(10 * Opening)
  BY <1>2, <1>3, <1>4, LogGrows
<1>. QED  BY <1>4, <1>5, LoggedIsTotal

LEMMA LeaveStarts ==
  ASSUME Init
  PROVE  LeaveBlank /\ LeaveInv
<1>1. ShiftsInit /\ LeaveInit
  BY DEF Init
<1>2. /\ \A l \in LeaveIds : leaves[l] = NoLeave /\ reviews[l] = <<>>
      /\ \A s \in Shifts : shifts[s].out = Null /\ ~shifts[s].edited
      /\ \A who \in Staff : marks[who] = 0 /\ audited[who] = SetToBag({10 * Opening})
      /\ \A r \in Requests : pc[r] = "idle" /\ work[r] = NoWork
  BY <1>1 DEF ShiftsInit, LeaveInit
<1>3. NoLeave.status = "none" /\ NoLeave.type = "unpaid" /\ NoWork.through = 0
  BY DEF NoLeave, NoWork
<1>4. ShiftsTypeOK
  BY <1>1, ShiftsStart
<1>5. /\ DOMAIN ledger \subseteq LedgerRow /\ IsFiniteSet(DOMAIN ledger)
      /\ ledger \in [DOMAIN ledger -> Nat \ {0}]
      /\ \A who \in Staff : Balance(who) = Opening
      /\ \A s : CreditsOf(s) = 0
      /\ \A l : Deductions(l) = {}
  BY <1>1, LedgerStarts DEF LeaveInit
<1>6. LeaveTypeOK
  <2>1. NoLeave \in LeaveRow
    BY DEF NoLeave, LeaveRow, Statuses
  <2>2. /\ leaves \in [LeaveIds -> LeaveRow] /\ work \in [Requests -> Locals]
        /\ marks \in [Staff -> Int] /\ DOMAIN audited = Staff
    BY <1>1, <2>1, NoWorkFits DEF LeaveInit
  <2>3. reviews \in [LeaveIds -> Seq({"request"} \cup Reviews)]
    BY <1>1 DEF LeaveInit
  <2>. QED  BY <1>2, <1>5, <2>2, <2>3, LogStarts DEF LeaveTypeOK
<1>7. LeaveShapeOK
  BY <1>1, <1>4, <1>6 DEF LeaveShapeOK, ShiftsInit
<1>8. \A l \in LeaveIds : UnmadeOK(l)
  BY <1>2, <1>3 DEF UnmadeOK
<1>9. ASSUME NEW r \in Requests PROVE HandOK(r) /\ StillSo(r)
  <2>1. NoWork.through <= now
    BY <1>3, <1>4 DEF ShiftsTypeOK, Times
  <2>. QED  BY <1>2, <2>1 DEF HandOK, StillSo, ForLeave, Accruing, ForOne
<1>10. ASSUME NEW who \in Staff PROVE BalanceFits(who)
  <2>1. Spent(who) = 0
    <3>1. DOMAIN Parts(leaves, reviews, who) = {}
      BY <1>2, <1>3 DEF Parts, TrackedIn
    <3>. QED  BY <3>1, TotalOfNone, SpentIsTotal
  <2>2. DueTo(who) = 0
    <3>1. \A r \in Requests : Due(r, who) = 0
      BY <1>2 DEF Due
    <3>2. Dues(who) = [r \in Requests |-> 0]
      BY <3>1 DEF Dues
    <3>. QED  BY <3>2, TotalOfZeros, DueIsTotal, FiniteAssumption
  <2>3. Balance(who) = Opening /\ Logged(who) = Opening /\ Opening \in Int
    BY <1>2, <1>5, LogStarts, LeaveAssumption
  <2>. QED  BY <2>1, <2>2, <2>3 DEF BalanceFits
<1>11. ASSUME NEW l \in LeaveIds PROVE Covered(l) /\ LeaveFits(l)
  <2>1. /\ leaves[l].status = "none" /\ leaves[l].type = "unpaid" /\ reviews[l] = <<>>
        /\ Deductions(l) = {}
    BY <1>2, <1>3, <1>5
  <2>2. \A r \in Requests : ~Reviewing(r, l) /\ ~Deducting(r, l)
    BY <1>2 DEF Reviewing, Deducting
  <2>3. Told(l) /\ Deducted(l)
    BY <2>1 DEF Told, Deducted
  <2>. QED  BY <2>1, <2>2, <2>3 DEF Covered, LeaveFits
<1>12. ASSUME NEW s \in Shifts PROVE CreditFits(s)
  BY <1>2, <1>5 DEF CreditFits, CreditedUpTo, Crediting
<1>13. \A who \in Staff : marks[who] <= now
  BY <1>2, <1>4 DEF ShiftsTypeOK, Times
<1>14. OneAtATime
  BY <1>2 DEF OneAtATime
<1>15. LeaveBlank
  BY <1>1, <1>2 DEF LeaveBlank, LeaveInit
<1>. QED  BY <1>2, <1>7, <1>8, <1>9, <1>10, <1>11, <1>12, <1>13, <1>14, <1>15 DEF LeaveInv

LEMMA LeaveNextStep ==
  ASSUME LeaveInv, LeaveNext
  PROVE  LeaveInv'
<1>1. PICK r \in Requests : LeaveArrives(r) \/ LeaveStep(r) \/ LeaveFails(r)
  BY DEF LeaveNext
<1>2. CASE LeaveStep(r)
  BY <1>2, ReadBalanceStep, InsertLeaveStep, AuditLeaveStep, ReadLeaveStep, SetReviewedStep,
     InsertDeductionStep, InsertAdjustmentStep, ListStaffStep, ReadMarkStep, SelectShiftsStep,
     InsertAccrualStep, SetMarkStep, AuditCreditStep DEF LeaveStep
<1>. QED  BY <1>1, <1>2, LeaveArrivesStep, LeaveFailsStep

\* Whatever the desk.
LEMMA LeaveKeeps ==
  ASSUME LeaveDeskInv, [Next]_vars
  PROVE  LeaveDeskInv'
<1>1. desk' = desk
  BY DEF Next, vars
<1>2. CASE desk = "leave"
  <2>1. LeaveInv /\ ShiftsTypeOK
    BY <1>2 DEF LeaveDeskInv, LeaveInv, LeaveShapeOK
  <2>2. CASE Elsewhere /\ LeaveLooksOn
    <3>1. LeaveInv'
      BY <2>1, <2>2, ElsewhereShifts, LooksOnStep
    <3>. QED  BY <1>1, <1>2, <3>1 DEF LeaveDeskInv
  <2>3. CASE LeaveNext
    BY <1>1, <1>2, <2>1, <2>3, LeaveNextStep DEF LeaveDeskInv
  <2>4. CASE UNCHANGED vars
    <3>1. UNCHANGED <<shiftVars, leaveVars>>
      BY <2>4 DEF vars
    <3>2. UNCHANGED <<now, shifts, people, pc, overlap, requests, changes, failures, cutShort>>
      BY <3>1 DEF shiftVars, rows, bounds
    <3>3. ShiftsTypeOK' /\ now <= now' /\ ShiftsMove /\ UNCHANGED rows
      BY <2>1, <3>2 DEF ShiftsTypeOK, ShiftsMove, Times, rows
    <3>4. LeaveLooksOn
      BY <3>1, <3>2 DEF LeaveLooksOn, leaveVars, history
    <3>5. LeaveInv'
      BY <2>1, <3>2, <3>3, <3>4, LooksOnStep
    <3>. QED  BY <1>1, <1>2, <3>5 DEF LeaveDeskInv
  <2>. QED  BY <1>2, <2>2, <2>3, <2>4 DEF Next
<1>3. CASE desk # "leave"
  <2>1. UNCHANGED <<leaves, ledger, marks, reviews, audited>> /\ (desk # "pay" => UNCHANGED shifts)
    BY <1>3 DEF Next, vars, shiftVars, rows, leaveVars, tables, history, LeaveLooksOn
  <2>. QED  BY <1>1, <1>3, <2>1 DEF LeaveDeskInv, LeaveBlank
<1>. QED  BY <1>2, <1>3

-----------------------------------------------------------------------------
(* What follows for leave *)

\* A row nobody is working on, and nobody has failed over, is at rest.
LEMMA WholeRests ==
  ASSUME NEW x, Whole(x)
  PROVE  /\ x \notin cutShort
         /\ \A r \in Requests : ~Reviewing(r, x) /\ ~Deducting(r, x) /\ ~Crediting(r, x)
BY DEF Whole, InProgress, Reviewing, Deducting, Crediting

LEMMA LeaveIsSettled ==
  ASSUME LeaveDeskInv
  PROVE  LeaveSettled
<1>1. CASE desk = "leave"
  <2>1. SUFFICES ASSUME ~overlap, NEW l \in LeaveIds, Whole(l) PROVE Deducted(l) /\ Told(l)
    BY DEF LeaveSettled, Deducted, Told
  <2>2. LeaveFits(l) /\ \A r \in Requests : ~Reviewing(r, l) /\ ~Deducting(r, l)
    BY <1>1, <2>1, WholeRests DEF LeaveDeskInv, LeaveInv
  <2>. QED  BY <2>2 DEF LeaveFits
<1>2. CASE desk # "leave"
  <2>1. \A l : Deductions(l) = {}
    BY <1>2, LedgerStarts DEF LeaveDeskInv, LeaveBlank
  <2>2. \A l \in LeaveIds : leaves[l] = NoLeave /\ reviews[l] = <<>>
    BY <1>2 DEF LeaveDeskInv, LeaveBlank
  <2>. QED  BY <2>1, <2>2 DEF LeaveSettled, NoLeave
<1>. QED  BY <1>1, <1>2

LEMMA BalanceIsOnRecord ==
  ASSUME LeaveDeskInv
  PROVE  BalanceOnRecord
<1>1. SUFFICES ASSUME Idle, failures = 0, NEW who \in Staff
               PROVE  Balance(who) = Logged(who) - Spent(who)
  BY DEF BalanceOnRecord, Spent
<1>2. CASE desk = "leave"
  <2>1. BalanceFits(who) /\ LeaveTypeOK
    BY <1>1, <1>2 DEF LeaveDeskInv, LeaveInv, LeaveShapeOK
  <2>2. DueTo(who) = 0
    <3>1. \A r \in Requests : Due(r, who) = 0
      BY <1>1 DEF Due, Idle
    <3>2. Dues(who) = [r \in Requests |-> 0]
      BY <3>1 DEF Dues
    <3>. QED  BY <3>2, TotalOfZeros, DueIsTotal, FiniteAssumption
  <2>3. Logged(who) \in Int
    BY <2>1, AmountsTyped, LoggedIsTotal DEF LeaveTypeOK
  <2>4. Spent(who) \in Int
    <3>1. Total(Parts(leaves, reviews, who)) \in Int
      BY <2>1, PartsTyped DEF LeaveTypeOK
    <3>. QED  BY <3>1, SpentIsTotal
  <2>. QED  BY <2>1, <2>2, <2>3, <2>4 DEF BalanceFits
<1>3. CASE desk # "leave"
  <2>1. Balance(who) = Opening /\ Logged(who) = Opening /\ Opening \in Int
    <3>1. audited[who] = SetToBag({10 * Opening})
      BY <1>3 DEF LeaveDeskInv, LeaveBlank
    <3>. QED  BY <1>3, <3>1, LedgerStarts, LogStarts, LeaveAssumption DEF LeaveDeskInv, LeaveBlank
  <2>2. Spent(who) = 0
    <3>1. \A l \in LeaveIds : leaves[l].type = "unpaid"
      BY <1>3 DEF LeaveDeskInv, LeaveBlank, NoLeave
    <3>2. DOMAIN Parts(leaves, reviews, who) = {}
      BY <3>1 DEF Parts, TrackedIn
    <3>. QED  BY <3>2, TotalOfNone, SpentIsTotal
  <2>. QED  BY <2>1, <2>2
<1>. QED  BY <1>2, <1>3

LEMMA CreditIsOnce ==
  ASSUME LeaveDeskInv, PayDeskInv
  PROVE  CreditedOnce
<1>1. SUFFICES ASSUME ~overlap, NEW s \in Shifts, Whole(Owner[s]), ~shifts[s].edited, s \notin late
               PROVE  CreditedUpTo(s, marks[Owner[s]])
  BY DEF CreditedOnce, CreditedUpTo
<1>2. CASE desk = "leave"
  <2>1. CreditFits(s) /\ \A r \in Requests : ~Crediting(r, Owner[s])
    BY <1>1, <1>2, WholeRests DEF LeaveDeskInv, LeaveInv
  <2>. QED  BY <1>1, <2>1 DEF CreditFits
<1>3. CASE desk # "leave"
  <2>1. CreditsOf(s) = 0 /\ marks[Owner[s]] = 0
    BY <1>3, LedgerStarts, OwnerAssumption DEF LeaveDeskInv, LeaveBlank
  <2>2. shifts[s].out = Null \/ shifts[s].out \in Times
    BY <1>3 DEF LeaveDeskInv, LeaveBlank, PayDeskInv, PayInv, ShapeOK, ShiftsTypeOK
  <2>. QED  BY <2>1, <2>2 DEF CreditedUpTo, Times
<1>. QED  BY <1>2, <1>3

\* Only the deduction of an approved leave changes what is deducted.
LEMMA ApprovalWithin ==
  ASSUME LeaveDeskInv, Next, ~overlap, NEW l \in LeaveIds,
         Deductions(l)' # Deductions(l), l \notin stale
  PROVE  Balance(leaves[l].who)' >= 0
<1>1. ledger' # ledger
  BY DEF Deductions
<1>2. desk = "leave" /\ LeaveInv
  BY <1>1 DEF Next, LeaveLooksOn, leaveVars, tables, LeaveDeskInv
<1>3. PICK r \in Requests : InsertDeduction(r) \/ InsertAdjustment(r) \/ InsertAccrual(r)
  <2>1. LeaveNext
    BY <1>1, <1>2 DEF Next, LeaveLooksOn, leaveVars, tables
  <2>2. PICK r \in Requests : LeaveArrives(r) \/ LeaveStep(r) \/ LeaveFails(r)
    BY <2>1 DEF LeaveNext
  <2>3. LeaveStep(r)
    BY <1>1, <2>2 DEF LeaveArrives, LeaveFails, tables
  <2>4. CASE ReadBalance(r) \/ InsertLeave(r) \/ AuditLeave(r) \/ ReadLeave(r) \/ SetReviewed(r)
    BY <1>1, <2>4 DEF ReadBalance, InsertLeave, AuditLeave, ReadLeave, SetReviewed, tables
  <2>5. CASE ListStaff(r) \/ ReadMark(r) \/ SelectShifts(r) \/ SetMark(r) \/ AuditCredit(r)
    BY <1>1, <2>5 DEF ListStaff, ReadMark, SelectShifts, SetMark, AuditCredit, tables
  <2>. QED  BY <2>3, <2>4, <2>5 DEF LeaveStep
<1>4. HandOK(r) /\ StillSo(r) /\ Covered(l) /\ LeaveTypeOK /\ work[r] \in Locals
  BY <1>2 DEF LeaveInv, LeaveShapeOK, LeaveTypeOK
<1>5. CASE InsertAdjustment(r)
  <2>1. PICK row : row = Row(work[r].who, Stored(work[r].delta), "adjustment", Null, {})
    OBVIOUS
  <2>2. /\ work[r].who \in Staff /\ Stored(work[r].delta) \in Int /\ Insert(row)
    BY <1>4, <1>5, <2>1, StoredAmount DEF InsertAdjustment, At, HandOK, ForOne, Locals
  <2>3. row \in LedgerRow /\ row.source = "adjustment"
    BY <2>1, <2>2 DEF Row, LedgerRow
  <2>. QED  BY <1>4, <2>2, <2>3, InsertEffect
<1>6. CASE InsertAccrual(r)
  <2>1. PICK row : row = Row(work[r].who, Stored(work[r].delta), "accrual", Null, work[r].picked)
    OBVIOUS
  <2>2. /\ work[r].who \in Staff /\ Stored(work[r].delta) \in Int /\ Insert(row)
        /\ work[r].picked \in SUBSET Shifts
    BY <1>4, <1>6, <2>1, StoredAmount DEF InsertAccrual, At, HandOK, ForOne, Locals
  <2>3. row \in LedgerRow /\ row.source = "accrual"
    BY <2>1, <2>2 DEF Row, LedgerRow
  <2>. QED  BY <1>4, <2>2, <2>3, InsertEffect
<1>7. CASE InsertDeduction(r)
  <2>1. PICK m, row : /\ m = work[r].leave
                      /\ row = Row(work[r].row.who, -work[r].row.hours, "request", m, {})
    OBVIOUS
  <2>2. /\ pc[r] = "insertDeduction" /\ Insert(row) /\ leaves' = leaves
    BY <1>7, <2>1 DEF InsertDeduction, At
  <2>3. /\ m \in LeaveIds /\ leaves[m] \in LeaveRow /\ leaves[m].status # "none"
        /\ work[r].row = [leaves[m] EXCEPT !.status = "pending"]
        /\ work[r].row.type # "unpaid"
    BY <1>4, <2>1, <2>2 DEF HandOK, ForLeave, LeaveTypeOK
  <2>4. /\ work[r].row.who = leaves[m].who /\ work[r].row.hours = leaves[m].hours
        /\ leaves[m].type # "unpaid" /\ leaves[m].hours \in Nat /\ leaves[m].who \in Staff
    BY <1>2, <2>3 DEF LeaveInv, UnmadeOK, LeaveRow
  <2>5. /\ row \in LedgerRow /\ row.who = leaves[m].who /\ row.delta = -leaves[m].hours
        /\ row.ref = m
    <3>1. -leaves[m].hours \in Int
      BY <2>4
    <3>. QED  BY <2>1, <2>3, <2>4, <3>1, RowFits
  <2>6. l = m
    BY <1>4, <2>2, <2>5, InsertEffect
  <2>7. PICK who : who = leaves[m].who
    OBVIOUS
  <2>8. Balance(who) >= leaves[m].hours /\ Balance(who) \in Int
    <3>1. Deducting(r, l)
      BY <2>1, <2>2, <2>6 DEF Deducting
    <3>2. Balance(leaves[l].who) >= leaves[l].hours
      BY <1>4, <2>4, <2>6, <3>1 DEF Covered
    <3>. QED  BY <1>4, <2>6, <2>7, <3>2, BalanceNumber
  <2>9. Balance(who)' = Balance(who) + (-leaves[m].hours)
    BY <1>4, <2>2, <2>5, <2>7, InsertEffect
  <2>10. Balance(who)' >= 0
    BY <2>4, <2>8, <2>9
  <2>11. leaves'[l].who = who
    BY <2>2, <2>6, <2>7
  <2>12. Balance(leaves[l].who)' = Balance(who)'
    BY <2>11 DEF Balance
  <2>. QED  BY <2>10, <2>12
<1>. QED  BY <1>3, <1>5, <1>6, <1>7

-----------------------------------------------------------------------------
(* The pay periods *)

\* There is a function that goes on from each point to the next until it may stop.
LEMMA TailRecursion ==
  ASSUME NEW S, NEW Stop, NEW g \in [S -> S]
  PROVE  \E f : f = [s \in S |-> IF s \in Stop THEN s ELSE f[g[s]]]
<1>. DEFINE Closed(X) == /\ \A s \in S \cap Stop : <<s, s>> \in X
                         /\ \A s \in S \ Stop, v \in S : <<g[s], v>> \in X => <<s, v>> \in X
            Reached == {p \in S \X S : \A X \in SUBSET (S \X S) : Closed(X) => p \in X}
<1>1. Closed(Reached)
  OBVIOUS
<1>2. ASSUME NEW X \in SUBSET (S \X S), Closed(X) PROVE Reached \subseteq X
  BY <1>2
<1>3. ASSUME NEW s \in S \cap Stop, NEW v \in S, <<s, v>> \in Reached PROVE v = s
  <2>. DEFINE X == Reached \ {<<s, v>>}
  <2>1. SUFFICES ASSUME v # s PROVE FALSE
    OBVIOUS
  <2>2. X \in SUBSET (S \X S)
    OBVIOUS
  <2>3. Closed(X)
    <3>1. \A t \in S \cap Stop : <<t, t>> \in X
      BY <1>1, <2>1
    <3>2. ASSUME NEW t \in S \ Stop, NEW w \in S, <<g[t], w>> \in X PROVE <<t, w>> \in X
      BY <1>1, <3>2
    <3>. QED  BY <3>1, <3>2
  <2>. QED  BY <1>2, <1>3, <2>2, <2>3
<1>4. ASSUME NEW s \in S \ Stop, NEW v \in S, <<s, v>> \in Reached PROVE <<g[s], v>> \in Reached
  <2>. DEFINE X == Reached \ {<<s, v>>}
  <2>1. SUFFICES ASSUME <<g[s], v>> \notin Reached PROVE FALSE
    OBVIOUS
  <2>2. X \in SUBSET (S \X S)
    OBVIOUS
  <2>3. Closed(X)
    <3>1. \A t \in S \cap Stop : <<t, t>> \in X
      BY <1>1
    <3>2. ASSUME NEW t \in S \ Stop, NEW w \in S, <<g[t], w>> \in X PROVE <<t, w>> \in X
      BY <1>1, <2>1, <3>2
    <3>. QED  BY <3>1, <3>2
  <2>. QED  BY <1>2, <1>4, <2>2, <2>3
<1>. DEFINE One == {p \in Reached : \A v \in S : <<p[1], v>> \in Reached => v = p[2]}
<1>5. One \in SUBSET (S \X S) /\ Closed(One)
  <2>1. ASSUME NEW s \in S \cap Stop PROVE <<s, s>> \in One
    BY <1>1, <1>3
  <2>2. ASSUME NEW s \in S \ Stop, NEW v \in S, <<g[s], v>> \in One PROVE <<s, v>> \in One
    BY <1>1, <1>4, <2>2
  <2>. QED  BY <2>1, <2>2
<1>6. \A s, v, w \in S : <<s, v>> \in Reached /\ <<s, w>> \in Reached => v = w
  BY <1>2, <1>5
<1>. DEFINE Ends(s) == \E v \in S : <<s, v>> \in Reached
            End(s) == IF Ends(s) THEN CHOOSE v \in S : <<s, v>> \in Reached ELSE S
            f == [s \in S |-> End(s)]
<1>. HIDE DEF Reached
<1>7. ASSUME NEW s \in S PROVE f[s] = IF s \in Stop THEN s ELSE f[g[s]]
  <2>1. CASE s \in Stop
    BY <1>1, <1>6, <2>1
  <2>2. CASE s \notin Stop
    <3>1. g[s] \in S /\ \A v \in S : <<s, v>> \in Reached <=> <<g[s], v>> \in Reached
      BY <1>1, <1>4, <2>2
    <3>2. End(s) = End(g[s])
      BY <1>6, <3>1
    <3>. QED  BY <2>2, <3>1, <3>2
  <2>. QED  BY <2>1, <2>2
<1>8. f = [s \in S |-> IF s \in Stop THEN s ELSE f[g[s]]]
  <2>. DEFINE h == [s \in S |-> IF s \in Stop THEN s ELSE f[g[s]]]
  <2>1. \A s \in S : f[s] = h[s]
    BY <1>7
  <2>. HIDE DEF End
  <2>. QED  BY <2>1
<1>. QED  BY <1>8

\* The guess corrected twice is midnight of the day, by the offset of that moment.
LEMMA MidnightIs ==
  ASSUME NEW day \in Int
  PROVE  /\ Midnight(day) \in Int
         /\ Midnight(day) = IF 24 * day - Before < ClocksChange THEN 24 * day - Before
                            ELSE 24 * day - After
         /\ Shown(Midnight(day)) = 24 * day
         /\ NzDateOf(Midnight(day)) = day
         /\ 24 * day - Before < ClocksChange <=> 24 * day - After < ClocksChange
<1>. DEFINE wall == 24 * day
<1>1. wall \in Int /\ wall % 24 = 0 /\ Before \in Int /\ After \in Int /\ ClocksChange \in Int
  BY PeriodsAssumption
<1>2. wall - Before < ClocksChange <=> wall - After < ClocksChange
  <2>1. CASE wall - Before < ClocksChange /\ ~(wall - After < ClocksChange)
    <3>1. wall \in (ClocksChange + After)..(ClocksChange + Before - 1)
      BY <1>1, <2>1
    <3>. QED  BY <1>1, <3>1, ClocksAssumption
  <2>2. CASE wall - After < ClocksChange /\ ~(wall - Before < ClocksChange)
    <3>1. wall \in (ClocksChange + Before)..(ClocksChange + After - 1)
      BY <1>1, <2>2
    <3>. QED  BY <1>1, <3>1, ClocksAssumption
  <2>. QED  BY <2>1, <2>2
<1>. HIDE DEF wall
<1>3. NzWallToInstant(wall) = IF wall - Before < ClocksChange THEN wall - Before ELSE wall - After
  BY <1>1, <1>2 DEF NzWallToInstant, Shown, Offset
<1>4. Shown(NzWallToInstant(wall)) = wall /\ NzWallToInstant(wall) \in Int
  BY <1>1, <1>2, <1>3 DEF Shown, Offset
<1>5. wall \div 24 = day
  BY DEF wall
<1>. QED  BY <1>2, <1>3, <1>4, <1>5 DEF wall, Midnight, NzDateOf

\* A later day begins no earlier.
LEMMA MidnightsInOrder ==
  ASSUME NEW day \in Int, NEW later \in Int
  PROVE  day <= later => Midnight(day) <= Midnight(later)
<1>1. /\ Before \in Int /\ After \in Int /\ ClocksChange \in Int /\ After - Before \in {-1, 0, 1}
  BY PeriodsAssumption, ClocksAssumption
<1>2. CASE day = later
  BY <1>2, MidnightIs
<1>3. CASE day < later
  <2>1. 24 * later >= 24 * day + 24
    BY <1>3
  <2>. QED  BY <1>1, <2>1, MidnightIs
<1>. QED  BY <1>2, <1>3

\* Where the period ends that begins at an instant: a length of days of 24 hours on, and an
\* hour more.
NextStart(start) == Midnight(NzDateOf(start + 24 * LengthDays + 1))

\* It is midnight a length of days later, though the clocks be set in between.
LEMMA StepToNext ==
  ASSUME NEW day \in Int, 24 * day - Before < ClocksChange, LengthDays \in {7, 14}
  PROVE  NextStart(Midnight(day)) = Midnight(day + LengthDays)
<1>. DEFINE start == 24 * day - Before
            there == start + 24 * LengthDays + 1
            onward == day + LengthDays
<1>1. /\ Before \in Int /\ After \in Int /\ ClocksChange \in Int /\ After - Before \in {-1, 0, 1}
  BY PeriodsAssumption, ClocksAssumption
<1>2. Midnight(day) = start /\ there \in Int /\ onward \in Int /\ there = 24 * onward - Before + 1
  BY <1>1, MidnightIs
<1>3. Shown(there) - 24 * onward \in 0..2
  <2>. HIDE DEF there, onward
  <2>. QED  BY <1>1, <1>2 DEF Shown, Offset
<1>4. NzDateOf(there) = onward
  <2>. HIDE DEF there, onward
  <2>1. PICK n \in 0..2 : Shown(there) = 24 * onward + n
    <3>1. Shown(there) \in Int
      BY <1>1, <1>2 DEF Shown, Offset
    <3>. QED  BY <1>2, <1>3, <3>1
  <2>2. (24 * onward + n) \div 24 = onward
    BY <1>2
  <2>. QED  BY <2>1, <2>2 DEF NzDateOf
<1>. QED  BY <1>2, <1>4 DEF NextStart

\* The period that is k periods from the anchor.
Window(k) ==
  [start |-> Midnight(AnchorDay + LengthDays * k),
   end |-> Midnight(AnchorDay + LengthDays * (k + 1))]

LEMMA DayIsInt ==
  ASSUME NEW t \in Int
  PROVE  NzDateOf(t) \in Int /\ Midnight(NzDateOf(t)) \in Int
<1>1. Shown(t) \in Int
  BY PeriodsAssumption DEF Shown, Offset
<1>2. NzDateOf(t) \in Int
  BY <1>1 DEF NzDateOf
<1>. QED  BY <1>2, MidnightIs

\* Stepping back from an instant that is not too onward stays there ...
LEMMA StepsBackEnd ==
  ASSUME NEW at \in Int, NEW length \in Int, NEW from \in Int, from <= at
  PROVE  LET back[start \in Int] ==
               IF start > at THEN back[Midnight(NzDateOf(start - length))] ELSE start
         IN back[from] = from
<1>. DEFINE Steps(f) == f = [start \in Int |->
                            IF start > at THEN f[Midnight(NzDateOf(start - length))] ELSE start]
            back == CHOOSE f : Steps(f)
            g == [start \in Int |-> Midnight(NzDateOf(start - length))]
            Stop == {start \in Int : start <= at}
<1>1. g \in [Int -> Int]
  BY DayIsInt
<1>2. PICK f : f = [start \in Int |-> IF start \in Stop THEN start ELSE f[g[start]]]
  <2>. HIDE DEF g, Stop
  <2>. QED  BY <1>1, TailRecursion
<1>3. \A start \in Int : (IF start \in Stop THEN start ELSE f[g[start]]) =
        (IF start > at THEN f[Midnight(NzDateOf(start - length))] ELSE start)
  OBVIOUS
<1>4. Steps(f)
  BY <1>2, <1>3
<1>5. Steps(back)
  <2>. HIDE DEF Steps
  <2>. QED  BY <1>4
<1>6. back = [start \in Int |->
                IF start > at THEN back[Midnight(NzDateOf(start - length))] ELSE start]
  BY <1>5
<1>7. back[from] = from
  <2>. HIDE DEF back
  <2>. QED  BY <1>6
<1>. QED  BY <1>7

\* ... and stepping forward from a period that has not ended.
LEMMA StepsForwardEnd ==
  ASSUME NEW at \in Int, NEW from \in Int, LengthDays \in Int, NextStart(from) > at
  PROVE  LET length == 24 * LengthDays
             Following(start) == Midnight(NzDateOf(start + length + 1))
             forward[start \in Int] ==
               IF Following(start) <= at THEN forward[Following(start)] ELSE start
         IN forward[from] = from
<1>. DEFINE Steps(f) == f = [start \in Int |->
                            IF NextStart(start) <= at THEN f[NextStart(start)] ELSE start]
            forward == CHOOSE f : Steps(f)
            g == [start \in Int |-> NextStart(start)]
            Stop == {start \in Int : ~(NextStart(start) <= at)}
<1>1. g \in [Int -> Int]
  BY DayIsInt DEF NextStart
<1>2. PICK f : f = [start \in Int |-> IF start \in Stop THEN start ELSE f[g[start]]]
  <2>. HIDE DEF g, Stop
  <2>. QED  BY <1>1, TailRecursion
<1>3. \A start \in Int : (IF start \in Stop THEN start ELSE f[g[start]]) =
        (IF NextStart(start) <= at THEN f[NextStart(start)] ELSE start)
  OBVIOUS
<1>4. Steps(f)
  BY <1>2, <1>3
<1>5. Steps(forward)
  <2>. HIDE DEF Steps
  <2>. QED  BY <1>4
<1>6. forward = [start \in Int |->
                   IF NextStart(start) <= at THEN forward[NextStart(start)] ELSE start]
  BY <1>5
<1>7. ~(NextStart(from) <= at)
  <2>1. NextStart(from) \in Int
    BY DayIsInt DEF NextStart
  <2>. QED  BY <2>1
<1>8. forward[from] = from
  <2>. HIDE DEF forward
  <2>. QED  BY <1>6, <1>7
<1>. QED  BY <1>8 DEF NextStart

\* Before the clocks are set, the window of an instant is one of the anchor's.
LEMMA WindowFound ==
  ASSUME NEW at \in Int, Midnight(AnchorDay) <= at, at < ClocksChange, LengthDays \in {7, 14}
  PROVE  \E k \in Int : /\ PeriodWindowContaining(at) = Window(k)
                        /\ Window(k).start <= at /\ at < Window(k).end
<1>. DEFINE length == 24 * LengthDays
            anchor == Midnight(AnchorDay)
            k == (at - anchor) \div length
            day == AnchorDay + LengthDays * k
            cursor == anchor + k * length
            Following(start) == Midnight(NzDateOf(start + length + 1))
            back[start \in Int] ==
              IF start > at THEN back[Midnight(NzDateOf(start - length))] ELSE start
            forward[start \in Int] ==
              IF Following(start) <= at THEN forward[Following(start)] ELSE start
            found == forward[back[Midnight(NzDateOf(cursor))]]
<1>1. /\ AnchorDay \in Int /\ Before \in Int /\ After \in Int /\ ClocksChange \in Int
      /\ After - Before \in {-1, 0, 1} /\ anchor \in Int
  BY PeriodsAssumption, ClocksAssumption, MidnightIs
<1>2. anchor = 24 * AnchorDay - Before
  BY <1>1, MidnightIs
<1>3. k \in Int /\ k * length <= at - anchor /\ at - anchor < k * length + length
  <2>1. CASE LengthDays = 7
    BY <1>1, <2>1
  <2>2. CASE LengthDays = 14
    BY <1>1, <2>2
  <2>. QED  BY <2>1, <2>2
<1>4. /\ day \in Int /\ cursor \in Int /\ cursor = 24 * day - Before
      /\ day + LengthDays = AnchorDay + LengthDays * (k + 1) /\ day + LengthDays \in Int
      /\ cursor + length = 24 * (day + LengthDays) - Before
  <2>. HIDE DEF k, anchor
  <2>1. CASE LengthDays = 7
    BY <1>1, <1>2, <1>3, <2>1
  <2>2. CASE LengthDays = 14
    BY <1>1, <1>2, <1>3, <2>2
  <2>. QED  BY <2>1, <2>2
<1>5. cursor <= at /\ at < cursor + length
  <2>. HIDE DEF k, anchor
  <2>. QED  BY <1>1, <1>3
<1>6. /\ Midnight(day) = cursor /\ NzDateOf(cursor) = day
      /\ Following(cursor) = Midnight(day + LengthDays)
  <2>1. 24 * day - Before < ClocksChange
    <3>. HIDE DEF cursor, day
    <3>. QED  BY <1>1, <1>4, <1>5
  <2>2. Midnight(day) = cursor
    <3>. HIDE DEF cursor, day
    <3>. QED  BY <1>4, <2>1, MidnightIs
  <2>3. NzDateOf(cursor) = day
    <3>. HIDE DEF cursor, day
    <3>. QED  BY <1>4, <2>2, MidnightIs
  <2>4. NextStart(Midnight(day)) = Midnight(day + LengthDays)
    <3>. HIDE DEF cursor, day
    <3>. QED  BY <1>4, <2>1, StepToNext
  <2>. HIDE DEF cursor, day
  <2>. QED  BY <2>2, <2>3, <2>4 DEF NextStart
<1>7. Following(cursor) > at
  <2>. HIDE DEF cursor, day
  <2>1. Midnight(day + LengthDays) > at
    <3>1. PICK onward \in Int : onward = day + LengthDays
      BY <1>4
    <3>2. at < 24 * onward - Before
      BY <1>4, <1>5, <3>1
    <3>3. Midnight(onward) > at
      <4>. HIDE DEF length, anchor
      <4>1. CASE 24 * onward - Before < ClocksChange
        BY <1>1, <3>2, <4>1, MidnightIs
      <4>2. CASE ~(24 * onward - Before < ClocksChange)
        <5>1. ~(24 * onward - After < ClocksChange) /\ Midnight(onward) = 24 * onward - After
          BY <4>2, MidnightIs
        <5>. QED  BY <1>1, <5>1
      <4>. QED  BY <4>1, <4>2
    <3>. QED  BY <3>1, <3>3
  <2>. QED  BY <1>6, <2>1
<1>8. back[cursor] = cursor
  <2>. HIDE DEF cursor
  <2>1. length \in Int
    OBVIOUS
  <2>. HIDE DEF length
  <2>. QED  BY <1>4, <1>5, <2>1, StepsBackEnd
<1>9. forward[cursor] = cursor
  <2>1. NextStart(cursor) > at /\ LengthDays \in Int
    BY <1>7 DEF NextStart
  <2>. HIDE DEF cursor
  <2>. QED  BY <1>4, <2>1, StepsForwardEnd
<1>10. found = cursor
  <2>1. Midnight(NzDateOf(cursor)) = cursor
    <3>. HIDE DEF cursor, day
    <3>. QED  BY <1>6
  <2>. HIDE DEF cursor, back, forward
  <2>. QED  BY <1>8, <1>9, <2>1
<1>11. PeriodWindowContaining(at) = [start |-> found, end |-> Following(found)]
  BY DEF PeriodWindowContaining
<1>12. PeriodWindowContaining(at) = Window(k)
  <2>1. Window(k) = [start |-> Midnight(day), end |-> Midnight(day + LengthDays)]
    <3>1. Window(k) = [start |-> Midnight(AnchorDay + LengthDays * k),
                       end |-> Midnight(AnchorDay + LengthDays * (k + 1))]
      BY DEF Window
    <3>. HIDE DEF k
    <3>. QED  BY <1>4, <3>1
  <2>2. found = Midnight(day) /\ Following(found) = Midnight(day + LengthDays)
    <3>. HIDE DEF day, cursor, found, Following
    <3>. QED  BY <1>6, <1>10
  <2>. HIDE DEF day, found, Following
  <2>. QED  BY <1>11, <2>1, <2>2
<1>13. Window(k).start <= at /\ at < Window(k).end
  <2>1. Window(k).start = cursor /\ Window(k).end = Following(cursor)
    <3>. HIDE DEF k, day, cursor, found, Following
    <3>. QED  BY <1>10, <1>11, <1>12
  <2>2. Following(cursor) \in Int
    BY <1>4, <1>6, MidnightIs
  <2>. HIDE DEF cursor, Following
  <2>. QED  BY <1>4, <1>5, <1>7, <2>1, <2>2
<1>. QED  BY <1>3, <1>12, <1>13

\* Pay periods: as long as nothing was set, every row and every row about to be inserted is
\* a window of the anchor's tiling.
PeriodsInv ==
  /\ retilings \in Nat /\ hour \in Int /\ Midnight(AnchorDay) <= hour
  /\ type \in {"weekly", "fortnightly"}
  /\ visit = [v \in Visits |-> visit[v]]
  /\ retilings = 0 /\ hour < ClocksChange =>
       /\ \A p \in periods : \E k \in Int : p = Window(k)
       /\ \A v \in Visits : visit[v] # Nowhere => \E k \in Int : visit[v] = Window(k)

LEMMA PeriodsStart ==
  ASSUME PeriodsInit
  PROVE  PeriodsInv
<1>1. Midnight(AnchorDay) \in Int /\ Midnight(AnchorDay) <= hour
  <2>1. Midnight(AnchorDay) \in Int
    BY PeriodsAssumption, MidnightIs
  <2>. QED  BY <2>1 DEF PeriodsInit
<1>. QED  BY <1>1 DEF PeriodsInit, PeriodsInv

LEMMA PeriodsKeep ==
  ASSUME PeriodsInv, PeriodsNext
  PROVE  PeriodsInv'
<1>1. LengthDays \in {7, 14}
  BY DEF LengthDays
<1>2. ASSUME type' = type PROVE \A k \in Int : Window(k)' = Window(k)
  BY <1>2 DEF Window, LengthDays
<1>3. ASSUME NEW v \in Visits, OpenPeriods(v) PROVE PeriodsInv'
  <2>1. ASSUME retilings = 0, hour < ClocksChange
        PROVE  \E k \in Int : PeriodWindowContaining(hour) = Window(k)
    BY <1>1, <2>1, WindowFound DEF PeriodsInv
  <2>. QED  BY <1>2, <1>3, <2>1 DEF PeriodsInv, OpenPeriods
<1>4. ASSUME NEW v \in Visits, InsertPeriod(v) PROVE PeriodsInv'
  BY <1>2, <1>4 DEF PeriodsInv, InsertPeriod
<1>5. ASSUME Retile PROVE PeriodsInv'
  BY <1>5 DEF PeriodsInv, Retile
<1>6. ASSUME PeriodsTick PROVE PeriodsInv'
  <2>1. hour' \in Int /\ hour < hour'
    BY <1>6, PeriodsAssumption DEF PeriodsInv, PeriodsTick
  <2>2. Midnight(AnchorDay) \in Int /\ ClocksChange \in Int
    BY PeriodsAssumption, MidnightIs
  <2>3. Midnight(AnchorDay) <= hour' /\ (hour' < ClocksChange => hour < ClocksChange)
    BY <2>1, <2>2 DEF PeriodsInv
  <2>. QED  BY <1>2, <1>6, <2>1, <2>3 DEF PeriodsInv, PeriodsTick
<1>. QED  BY <1>3, <1>4, <1>5, <1>6 DEF PeriodsNext

LEMMA PeriodsStay ==
  ASSUME PeriodsInv, UNCHANGED periodVars
  PROVE  PeriodsInv'
BY DEF PeriodsInv, periodVars, Window, LengthDays

\* Two of the anchor's periods have no instant in common.
LEMMA WindowsApart ==
  ASSUME NEW k \in Int, NEW n \in Int, LengthDays \in {7, 14}
  PROVE  /\ Window(k) # Window(n) => Apart(Window(k), Window(n))
         /\ \A at \in Int : Holds(Window(k), at) /\ Holds(Window(n), at) => Window(k) = Window(n)
<1>. DEFINE From(i) == Midnight(AnchorDay + LengthDays * i)
<1>1. \A i \in Int : /\ From(i) \in Int /\ AnchorDay + LengthDays * i \in Int
                     /\ Window(i) = [start |-> From(i), end |-> From(i + 1)]
  <2>1. ASSUME NEW i \in Int PROVE AnchorDay + LengthDays * i \in Int
    BY PeriodsAssumption
  <2>2. ASSUME NEW i \in Int PROVE Window(i) = [start |-> From(i), end |-> From(i + 1)]
    BY DEF Window
  <2>. QED  BY <2>1, <2>2, MidnightIs
<1>2. \A i, j \in Int : i <= j => From(i) <= From(j)
  <2>1. ASSUME NEW i \in Int, NEW j \in Int, i <= j
        PROVE  AnchorDay + LengthDays * i <= AnchorDay + LengthDays * j
    <3>1. CASE LengthDays = 7
      BY <2>1, <3>1, PeriodsAssumption
    <3>2. CASE LengthDays = 14
      BY <2>1, <3>2, PeriodsAssumption
    <3>. QED  BY <3>1, <3>2
  <2>. QED  BY <1>1, <2>1, MidnightsInOrder
<1>3. ASSUME k # n PROVE From(k + 1) <= From(n) \/ From(n + 1) <= From(k)
  <2>. HIDE DEF From
  <2>. QED  BY <1>2, <1>3
<1>4. k # n => /\ Apart(Window(k), Window(n))
               /\ \A at \in Int : ~(Holds(Window(k), at) /\ Holds(Window(n), at))
  <2>. HIDE DEF From
  <2>1. \A i \in Int : /\ From(i) \in Int /\ From(i + 1) \in Int
                       /\ Window(i).start = From(i) /\ Window(i).end = From(i + 1)
    BY <1>1
  <2>2. k # n => Apart(Window(k), Window(n))
    BY <1>3, <2>1 DEF Apart
  <2>3. ASSUME k # n, NEW at \in Int
        PROVE  ~(Holds(Window(k), at) /\ Holds(Window(n), at))
    <3>1. PICK a, b, c, d \in Int : a = From(k) /\ b = From(k + 1) /\ c = From(n) /\ d = From(n + 1)
      BY <2>1
    <3>2. b <= c \/ d <= a
      BY <1>3, <2>3, <3>1
    <3>3. Holds(Window(k), at) <=> a <= at /\ at < b
      BY <2>1, <3>1 DEF Holds
    <3>4. Holds(Window(n), at) <=> c <= at /\ at < d
      BY <2>1, <3>1 DEF Holds
    <3>. QED  BY <3>2, <3>3, <3>4
  <2>. QED  BY <2>2, <2>3
<1>. QED  BY <1>4

\* Rows that are the anchor's periods tile time.
LEMMA PeriodsDoTile ==
  ASSUME PeriodsInv
  PROVE  PeriodsTile
<1>. SUFFICES ASSUME retilings = 0, hour < ClocksChange
              PROVE  /\ \A p \in periods : /\ Shown(p.start) % 24 = 0
                                           /\ (NzDateOf(p.start) - AnchorDay) % LengthDays = 0
                     /\ \A p, q \in periods : p # q => Apart(p, q)
                     /\ \A p \in FindPeriodContaining(hour) : p = PeriodWindowContaining(hour)
  BY DEF PeriodsTile
<1>1. LengthDays \in {7, 14}
  BY DEF LengthDays
<1>2. \A p \in periods : \E k \in Int : p = Window(k)
  BY DEF PeriodsInv
<1>3. ASSUME NEW p \in periods
      PROVE  Shown(p.start) % 24 = 0 /\ (NzDateOf(p.start) - AnchorDay) % LengthDays = 0
  <2>1. PICK k \in Int : p = Window(k)
    BY <1>2
  <2>2. PICK day \in Int : day = AnchorDay + LengthDays * k
    BY <1>1, PeriodsAssumption
  <2>3. Shown(p.start) = 24 * day /\ NzDateOf(p.start) = day
    BY <2>1, <2>2, MidnightIs DEF Window
  <2>4. (day - AnchorDay) % LengthDays = 0
    <3>1. CASE LengthDays = 7
      BY <2>2, <3>1, PeriodsAssumption
    <3>2. CASE LengthDays = 14
      BY <2>2, <3>2, PeriodsAssumption
    <3>. QED  BY <1>1, <3>1, <3>2
  <2>. QED  BY <2>3, <2>4
<1>4. ASSUME NEW p \in periods, NEW q \in periods, p # q PROVE Apart(p, q)
  BY <1>1, <1>2, <1>4, WindowsApart
<1>5. ASSUME NEW p \in FindPeriodContaining(hour) PROVE p = PeriodWindowContaining(hour)
  <2>1. PICK k \in Int : /\ PeriodWindowContaining(hour) = Window(k)
                         /\ Window(k).start <= hour /\ hour < Window(k).end
    BY <1>1, WindowFound DEF PeriodsInv
  <2>2. PICK n \in Int : p = Window(n)
    BY <1>2 DEF FindPeriodContaining
  <2>3. Holds(Window(n), hour) /\ Holds(Window(k), hour) /\ hour \in Int
    BY <2>1, <2>2 DEF FindPeriodContaining, Holds, PeriodsInv
  <2>4. Window(k) = Window(n)
    BY <1>1, <2>3, WindowsApart
  <2>. QED  BY <2>1, <2>2, <2>4
<1>. QED  BY <1>3, <1>4, <1>5

LEMMA PeriodsDesk ==
  ASSUME PeriodsInv, [Next]_vars
  PROVE  PeriodsInv'
<1>1. CASE UNCHANGED periodVars
  BY <1>1, PeriodsStay
<1>2. CASE PeriodsNext
  BY <1>2, PeriodsKeep
<1>3. PeriodsNext \/ UNCHANGED periodVars
  BY DEF Next, vars
<1>. QED  BY <1>1, <1>2, <1>3

-----------------------------------------------------------------------------
(* The payroll rules *)

\* A number is its quotient and its remainder.
LEMMA DivMod ==
  ASSUME NEW s \in Nat \ {0}, NEW t \in Int
  PROVE  /\ t \div s \in Int /\ t % s \in Int /\ 0 <= t % s /\ t % s < s
         /\ t = s * (t \div s) + (t % s)
OBVIOUS

\* The quotient is the one multiple that a number is less than a unit above.
LEMMA DivIs ==
  ASSUME NEW s \in Nat \ {0}, NEW t \in Int, NEW q \in Int, s * q <= t, t < s * q + s
  PROVE  t \div s = q
<1>1. PICK d, m \in Int : d = t \div s /\ 0 <= m /\ m < s /\ t = s * d + m
  BY DivMod
<1>2. s * q - s * d = s * (q - d)
  OBVIOUS
<1>3. q - d < 1
  <2>1. s * (q - d) < s
    BY <1>1, <1>2
  <2>2. \A k \in Int : k >= 1 => s * k >= s
    OBVIOUS
  <2>. QED BY <2>1, <2>2
<1>4. q - d > -1
  <2>1. s * (q - d) > -s
    BY <1>1, <1>2
  <2>2. \A k \in Int : k <= -1 => s * k <= -s
    OBVIOUS
  <2>. QED BY <2>1, <2>2
<1>. QED BY <1>1, <1>3, <1>4

\* Larger numbers have no smaller quotients.
LEMMA DivInOrder ==
  ASSUME NEW s \in Nat \ {0}, NEW t \in Int, NEW u \in Int, t <= u
  PROVE  t \div s <= u \div s
<1>1. PICK d, m \in Int : d = t \div s /\ 0 <= m /\ m < s /\ t = s * d + m
  BY DivMod
<1>2. PICK e, n \in Int : e = u \div s /\ 0 <= n /\ n < s /\ u = s * e + n
  BY DivMod
<1>3. s * d - s * e = s * (d - e)
  OBVIOUS
<1>4. s * (d - e) < s
  BY <1>1, <1>2, <1>3
<1>5. \A k \in Int : k >= 1 => s * k >= s
  OBVIOUS
<1>. QED BY <1>1, <1>2, <1>4, <1>5

\* The nearest number of units is at most half a unit away.
LEMMA NearestIs ==
  ASSUME NEW s \in Nat \ {0}, NEW t \in Int
  PROVE  /\ Nearest(t, s) \in Int
         /\ 2 * (s * Nearest(t, s)) <= 2 * t + s /\ 2 * t < 2 * (s * Nearest(t, s)) + s
<1>1. 2 * s \in Nat \ {0} /\ 2 * t + s \in Int
  OBVIOUS
<1>2. PICK d, m \in Int : d = Nearest(t, s) /\ 0 <= m /\ m < 2 * s /\ 2 * t + s = (2 * s) * d + m
  BY <1>1, DivMod DEF Nearest
<1>3. (2 * s) * d = 2 * (s * d)
  OBVIOUS
<1>. QED BY <1>2, <1>3

\* Larger numbers are no nearer to fewer units.
LEMMA NearestInOrder ==
  ASSUME NEW s \in Nat \ {0}, NEW t \in Int, NEW u \in Int, t <= u
  PROVE  Nearest(t, s) <= Nearest(u, s)
<1>1. 2 * s \in Nat \ {0} /\ 2 * t + s \in Int /\ 2 * u + s \in Int /\ 2 * t + s <= 2 * u + s
  OBVIOUS
<1>. QED BY <1>1, DivInOrder DEF Nearest
\* A multiple has its factor as quotient, and no remainder.
LEMMA MultipleIs ==
  ASSUME NEW s \in Nat \ {0}, NEW q \in Int
  PROVE  (s * q) \div s = q /\ (s * q) % s = 0
<1>1. PICK t \in Int : t = s * q
  OBVIOUS
<1>2. t \div s = q
  BY <1>1, DivIs
<1>3. t = s * (t \div s) + (t % s) /\ t % s \in Int
  BY DivMod
<1>. QED  BY <1>1, <1>2, <1>3

\* A larger factor makes a product no smaller.
LEMMA TimesInOrder ==
  ASSUME NEW s \in Nat, NEW d \in Int, NEW e \in Int, d <= e
  PROVE  s * d <= s * e /\ s * d \in Int /\ s * e \in Int
<1>1. s * e - s * d = s * (e - d)
  OBVIOUS
<1>2. \A k \in Nat : s * k >= 0
  OBVIOUS
<1>3. e - d \in Nat
  OBVIOUS
<1>. QED  BY <1>1, <1>2, <1>3

\* Units of units: their quotient, and the quotient of what is left of them.
LEMMA DivOfDiv ==
  ASSUME NEW s \in Nat \ {0}, NEW k \in Nat \ {0}, NEW t \in Int
  PROVE  /\ k * s \in Nat \ {0} /\ t \div (k * s) = (t \div s) \div k
         /\ (t % (k * s)) \div s = (t \div s) % k
<1>1. PICK d, m \in Int : d = t \div s /\ 0 <= m /\ m < s /\ t = s * d + m
  BY DivMod
<1>2. PICK e, n \in Int : e = d \div k /\ n = d % k /\ 0 <= n /\ n < k /\ d = k * e + n
  BY DivMod
<1>3. PICK u \in Nat \ {0} : u = k * s
  OBVIOUS
<1>4. s * n <= s * (k - 1) /\ s * 0 <= s * n /\ s * n \in Int
  BY <1>2, TimesInOrder
<1>5. s * (k - 1) = u - s /\ s * 0 = 0
  BY <1>3
<1>6. PICK r \in Int : r = s * n + m /\ 0 <= r /\ r < u
  BY <1>1, <1>4, <1>5
<1>7. t = u * e + r
  <2>1. s * (k * e + n) = (k * s) * e + s * n
    BY <1>2
  <2>3. s * d = s * (k * e + n) /\ u * e = (k * s) * e
    BY <1>2, <1>3, Zenon
  <2>4. u * e \in Int /\ s * d \in Int
    OBVIOUS
  <2>2. s * d = u * e + s * n /\ u * e \in Int /\ s * d \in Int
    BY ONLY <2>1, <2>3, <2>4
  <2>. QED  BY ONLY <1>1, <1>4, <1>6, <2>2
<1>8. t \div u = e
  BY <1>6, <1>7, DivIs
<1>9. t % u = r
  <2>1. t = u * (t \div u) + (t % u) /\ t % u \in Int
    BY DivMod
  <2>. QED  BY <1>6, <1>7, <1>8, <2>1
<1>10. r \div s = n
  BY <1>1, <1>6, DivIs
<1>. QED  BY <1>1, <1>2, <1>3, <1>8, <1>9, <1>10

\* The units of time are numbers of ticks.
LEMMA UnitsAre == Minute \in Nat \ {0} /\ Hour \in Nat \ {0} /\ Day \in Nat \ {0}
BY MinuteAssumption DEF Hour, Day

LEMMA DayNumber == ASSUME NEW t \in Int PROVE DayOfInstant(t) \in Int
BY UnitsAre, DivMod DEF DayOfInstant

\* Rounded minutes are a number, no smaller for more ticks, and exact for whole minutes.
LEMMA MinutesAre ==
  ASSUME NEW t \in Int
  PROVE  /\ RoundMinutes(t) \in Int /\ (t >= 0 => RoundMinutes(t) >= 0)
         /\ RoundMinutes(Minute * t) = t
<1>1. RoundMinutes(t) \in Int
  BY UnitsAre, NearestIs DEF RoundMinutes
<1>2. ASSUME t >= 0 PROVE RoundMinutes(t) >= 0
  <2>1. Nearest(0, Minute) <= Nearest(t, Minute)
    BY <1>2, UnitsAre, NearestInOrder
  <2>2. 2 * Minute \in Nat \ {0} /\ Minute \in Int /\ (2 * Minute) * 0 = 0 /\ 2 * 0 + Minute = Minute
    BY UnitsAre
  <2>3. Minute \div (2 * Minute) = 0
    BY <2>2, UnitsAre, DivIs
  <2>4. Nearest(0, Minute) = 0
    BY <2>2, <2>3 DEF Nearest
  <2>. QED  BY <1>1, <2>1, <2>4 DEF RoundMinutes
<1>3. RoundMinutes(Minute * t) = t
  <2>1. PICK s \in Nat \ {0} : s = Minute
    BY UnitsAre
  <2>2. PICK u \in Int : u = 2 * (s * t) + s
    OBVIOUS
  <2>3. (2 * s) * t = 2 * (s * t) /\ 2 * s \in Nat \ {0}
    OBVIOUS
  <2>4. u \div (2 * s) = t
    BY <2>2, <2>3, DivIs
  <2>. QED  BY <2>1, <2>2, <2>4 DEF RoundMinutes, Nearest
<1>. QED  BY <1>1, <1>2, <1>3

\* An increment is a number of ticks.
LEMMA IncrementIs ==
  ASSUME NEW rule \in RoundingRules
  PROVE  /\ rule.increment \in Nat \ {0} /\ rule.increment * Minute \in Nat \ {0}
         /\ rule.mode \in {"up", "down", "nearest"}
<1>1. rule.increment \in {1, 5, 10, 15} /\ rule.mode \in {"up", "down", "nearest"}
  BY DEF RoundingRules
<1>. QED  BY <1>1, UnitsAre

\* A rounded instant is less than an increment away, and a multiple of it unless the
\* increment is a minute.
LEMMA RoundedNear ==
  ASSUME NEW rule \in RoundingRules, NEW t \in Int, NEW inc, inc = rule.increment * Minute
  PROVE  LET moved == RoundInstant(t, rule) - t
         IN /\ RoundInstant(t, rule) \in Int
            /\ -inc < moved /\ moved < inc
            /\ rule.mode = "nearest" => 2 * moved <= inc /\ -2 * moved < inc
            /\ rule.increment # 1 => \E q \in Int : RoundInstant(t, rule) = inc * q
<1>1. inc \in Nat \ {0} /\ rule.mode \in {"up", "down", "nearest"}
  BY IncrementIs
<1>2. CASE rule.increment = 1
  BY <1>1, <1>2 DEF RoundInstant
<1>3. CASE rule.increment # 1 /\ rule.mode = "up"
  <2>1. PICK u \in Int : u = t + inc - 1
    BY <1>1
  <2>2. PICK q, m \in Int : q = u \div inc /\ 0 <= m /\ m < inc /\ u = inc * q + m
    BY <1>1, DivMod
  <2>3. RoundInstant(t, rule) = inc * q
    BY <1>3, <2>1, <2>2 DEF RoundInstant
  <2>. QED  BY <1>1, <1>3, <2>1, <2>2, <2>3
<1>4. CASE rule.increment # 1 /\ rule.mode = "down"
  <2>1. PICK q, m \in Int : q = t \div inc /\ 0 <= m /\ m < inc /\ t = inc * q + m
    BY <1>1, DivMod
  <2>2. RoundInstant(t, rule) = inc * q
    BY <1>4, <2>1 DEF RoundInstant
  <2>. QED  BY <1>1, <1>4, <2>1, <2>2
<1>5. CASE rule.increment # 1 /\ rule.mode = "nearest"
  <2>1. PICK q \in Int : /\ q = Nearest(t, inc)
                         /\ 2 * (inc * q) <= 2 * t + inc /\ 2 * t < 2 * (inc * q) + inc
    BY <1>1, NearestIs
  <2>2. RoundInstant(t, rule) = inc * q
    BY <1>5, <2>1 DEF RoundInstant
  <2>3. PICK r \in Int : r = inc * q
    BY <1>1
  <2>. QED  BY <1>1, <1>5, <2>1, <2>2, <2>3
<1>. QED  BY <1>1, <1>2, <1>3, <1>4, <1>5

\* A later instant is rounded no earlier.
LEMMA RoundedInOrder ==
  ASSUME NEW rule \in RoundingRules, NEW t \in Int, NEW u \in Int, t <= u
  PROVE  RoundInstant(t, rule) <= RoundInstant(u, rule)
<1>1. PICK inc \in Nat \ {0} : inc = rule.increment * Minute
  BY IncrementIs
<1>2. rule.mode \in {"up", "down", "nearest"}
  BY IncrementIs
<1>3. CASE rule.increment = 1
  BY <1>3 DEF RoundInstant
<1>4. ASSUME NEW d \in Int, NEW e \in Int, d <= e PROVE inc * d <= inc * e
  BY <1>4, TimesInOrder
<1>5. CASE rule.increment # 1 /\ rule.mode = "up"
  <2>1. PICK v, w \in Int : v = t + inc - 1 /\ w = u + inc - 1 /\ v <= w
    OBVIOUS
  <2>2. v \div inc <= w \div inc /\ v \div inc \in Int /\ w \div inc \in Int
    BY <2>1, DivInOrder, DivMod
  <2>3. inc * (v \div inc) <= inc * (w \div inc)
    BY <1>4, <2>2
  <2>. QED  BY <1>1, <1>5, <2>1, <2>3 DEF RoundInstant
<1>6. CASE rule.increment # 1 /\ rule.mode = "down"
  <2>1. t \div inc <= u \div inc /\ t \div inc \in Int /\ u \div inc \in Int
    BY DivInOrder, DivMod
  <2>2. inc * (t \div inc) <= inc * (u \div inc)
    BY <1>4, <2>1
  <2>. QED  BY <1>1, <1>6, <2>2 DEF RoundInstant
<1>7. CASE rule.increment # 1 /\ rule.mode = "nearest"
  <2>1. Nearest(t, inc) <= Nearest(u, inc) /\ Nearest(t, inc) \in Int /\ Nearest(u, inc) \in Int
    BY NearestInOrder, NearestIs
  <2>2. inc * Nearest(t, inc) <= inc * Nearest(u, inc)
    BY <1>4, <2>1
  <2>. QED  BY <1>1, <1>7, <2>2 DEF RoundInstant
<1>. QED  BY <1>2, <1>3, <1>5, <1>6, <1>7

\* So a job switch makes or loses no rounded time, or a minute at most.
LEMMA RoundingIsFair ==
  ASSUME sheet.rule \in RoundingRules, sheet.in \in Int, sheet.switch \in Int, sheet.out \in Int,
         sheet.in <= sheet.switch, sheet.switch <= sheet.out
  PROVE  RoundingFair
<1>1. PICK rule \in RoundingRules : rule = sheet.rule
  OBVIOUS
<1>2. PICK a, b, c \in Int : /\ a = sheet.in /\ b = sheet.switch /\ c = sheet.out
                             /\ a <= b /\ b <= c
  OBVIOUS
<1>3. PICK x, y, z \in Int : /\ x = RoundInstant(a, rule) /\ y = RoundInstant(b, rule)
                             /\ z = RoundInstant(c, rule)
  BY RoundedNear
<1>4. x <= y /\ y <= z
  BY <1>2, <1>3, RoundedInOrder
<1>5. PICK k, n, p \in Nat : /\ k = RoundMinutes(y - x) /\ n = RoundMinutes(z - y)
                             /\ p = RoundMinutes(z - x)
  <2>1. \A t \in Nat : RoundMinutes(t) \in Nat
    BY MinutesAre
  <2>2. y - x \in Nat /\ z - y \in Nat /\ z - x \in Nat
    BY <1>4
  <2>. QED  BY <2>1, <2>2
<1>6. /\ RoundedSpanMinutes(a, b, rule) = k /\ RoundedSpanMinutes(b, c, rule) = n
      /\ RoundedSpanMinutes(a, c, rule) = p
  BY <1>3, <1>5 DEF RoundedSpanMinutes, AtLeast0
<1>7. rule.increment = 1 => k + n - p \in -1..1
  <2>1. PICK s \in Nat \ {0} : s = Minute
    BY UnitsAre
  <2>2. PICK u, v, w \in Int : u = y - x /\ v = z - y /\ w = z - x /\ w = u + v
    OBVIOUS
  <2>3. /\ 2 * (s * k) <= 2 * u + s /\ 2 * u < 2 * (s * k) + s
        /\ 2 * (s * n) <= 2 * v + s /\ 2 * v < 2 * (s * n) + s
        /\ 2 * (s * p) <= 2 * w + s /\ 2 * w < 2 * (s * p) + s
    BY <1>5, <2>1, <2>2, NearestIs DEF RoundMinutes
  <2>4. PICK d \in Int : d = k + n - p
    OBVIOUS
  <2>5. s * d = s * k + s * n - s * p
    BY <2>4
  <2>6. 2 * (s * d) < 3 * s /\ -3 * s < 2 * (s * d)
    BY <2>2, <2>3, <2>5
  <2>7. d >= 2 => s * d >= s * 2
    BY TimesInOrder
  <2>8. d <= -2 => s * d <= s * (-2)
    BY TimesInOrder
  <2>9. s * 2 = 2 * s /\ s * (-2) = -2 * s
    OBVIOUS
  <2>10. PICK e \in Int : e = s * d
    OBVIOUS
  <2>11. d < 2 /\ -2 < d
    <3>1. 2 * e < 3 * s /\ -3 * s < 2 * e
      BY ONLY <2>6, <2>10
    <3>2. d >= 2 => e >= 2 * s
      BY ONLY <2>7, <2>9, <2>10
    <3>3. d <= -2 => e <= -2 * s
      BY ONLY <2>8, <2>9, <2>10
    <3>4. s \in Nat \ {0}
      OBVIOUS
    <3>. QED  BY ONLY <2>4, <2>10, <3>1, <3>2, <3>3, <3>4
  <2>. QED  BY <2>4, <2>11
<1>8. ASSUME rule.increment # 1 PROVE k + n = p
  <2>1. PICK inc : inc = rule.increment * Minute
    OBVIOUS
  <2>2. PICK q, r, t \in Int : x = inc * q /\ y = inc * r /\ z = inc * t
    BY <1>3, <1>8, <2>1, RoundedNear
  <2>3. PICK e, m \in Nat : e = rule.increment /\ m = Minute
    BY IncrementIs, UnitsAre
  <2>8. e * (r - q) \in Int /\ e * (t - r) \in Int /\ e * (t - q) \in Int
    OBVIOUS
  <2>4. PICK f, g, h \in Int : f = e * (r - q) /\ g = e * (t - r) /\ h = e * (t - q)
    BY <2>8, Zenon
  <2>5. f + g = h
    BY <2>2, <2>3, <2>4
  <2>6. y - x = m * f /\ z - y = m * g /\ z - x = m * h
    BY <2>1, <2>2, <2>3, <2>4
  <2>7. k = f /\ n = g /\ p = h
    BY <1>5, <2>3, <2>6, MinutesAre
  <2>. QED  BY <2>5, <2>7
<1>9. LET inc == rule.increment * Minute
          moved == RoundInstant(a, rule) - a
      IN /\ -inc < moved /\ moved < inc
         /\ rule.mode = "nearest" => 2 * moved <= inc /\ -2 * moved < inc
  BY RoundedNear
<1>. QED  BY <1>1, <1>2, <1>6, <1>7, <1>8, <1>9 DEF RoundingFair

\* The verdict on a shift only moves on, and stands once a punch is found for it.
LEMMA VerdictsDoLast ==
  ASSUME sheet.shift.start \in Int, sheet.shift.end \in Int, sheet.at \in Int, sheet.longer \in Nat,
         \A e \in sheet.punches : e.in \in Int /\ e.out \in Int
  PROVE  VerdictsLast
<1>. DEFINE Stage(c) == CHOOSE k \in 0..2 : c.status = <<"upcoming", "late", "no_show">>[k + 1]
            shift == sheet.shift
            first == MatchFor(shift, sheet.punches)
            early == CompareShift(shift, sheet.punches, sheet.at)
            later == CompareShift(shift, sheet.punches, sheet.at + sheet.longer)
            M(at) == (at - shift.start) \div Minute
<1>1. ASSUME first = {} PROVE Stage(early) <= Stage(later)
  <2>1. \A c : /\ c.status = "upcoming" => Stage(c) = 0
               /\ c.status = "late" => Stage(c) = 1
               /\ c.status = "no_show" => Stage(c) = 2
    <3>1. \A k \in 0..2 : <<"upcoming", "late", "no_show">>[k + 1] =
            IF k = 0 THEN "upcoming" ELSE IF k = 1 THEN "late" ELSE "no_show"
      OBVIOUS
    <3>2. ASSUME NEW c, NEW n \in 0..2, c.status = <<"upcoming", "late", "no_show">>[n + 1]
          PROVE  Stage(c) = n
      <4>1. \A k \in 0..2 : c.status = <<"upcoming", "late", "no_show">>[k + 1] => k = n
        BY <3>1, <3>2
      <4>. QED  BY <3>2, <4>1
    <3>. HIDE DEF Stage
    <3>. QED  BY <3>1, <3>2
  <2>2. \A at \in Int :
          LET c == CompareShift(shift, sheet.punches, at)
          IN c.status = IF at < shift.start THEN "upcoming" ELSE IF at >= shift.end THEN "no_show"
                        ELSE IF M(at) > LateGraceMin THEN "late" ELSE "upcoming"
    BY <1>1 DEF CompareShift
  <2>. DEFINE S(at) == IF at < shift.start THEN 0 ELSE IF at >= shift.end THEN 2
                        ELSE IF M(at) > LateGraceMin THEN 1 ELSE 0
  <2>3. \A at \in Int : Stage(CompareShift(shift, sheet.punches, at)) = S(at)
    <3>. HIDE DEF Stage
    <3>. QED  BY <2>1, <2>2
  <2>4. /\ M(sheet.at) \in Int /\ M(sheet.at + sheet.longer) \in Int
        /\ M(sheet.at) <= M(sheet.at + sheet.longer)
    <3>1. PICK t, u \in Int : /\ t = sheet.at - shift.start /\ t <= u
                             /\ u = sheet.at + sheet.longer - shift.start
      OBVIOUS
    <3>2. Minute \in Nat \ {0}
      BY UnitsAre
    <3>3. t \div Minute \in Int /\ u \div Minute \in Int
      BY ONLY <3>2, t \in Int, u \in Int, DivMod
    <3>4. t \div Minute <= u \div Minute
      BY ONLY <3>1, <3>2, t \in Int, u \in Int, DivInOrder
    <3>5. M(sheet.at) = t \div Minute /\ M(sheet.at + sheet.longer) = u \div Minute
      BY <3>1
    <3>. HIDE DEF M
    <3>. QED  BY <3>3, <3>4, <3>5, Zenon
  <2>. HIDE DEF Stage, M
  <2>. QED  BY <2>3, <2>4 DEF LateGraceMin
<1>2. ASSUME first # {}
      PROVE  /\ early.status \in {"in_progress", later.status}
             /\ early = CompareShift(shift, first, sheet.at)
             /\ early.late = later.late
  <2>1. MatchFor(shift, first) = first
    BY DEF MatchFor
  <2>2. early = CompareShift(shift, first, sheet.at)
    <3>. HIDE DEF first
    <3>1. MatchFor(shift, sheet.punches) = first
      BY DEF first
    <3>. QED  BY <2>1, <3>1 DEF CompareShift
  <2>. DEFINE lateness == AtLeast0(((CHOOSE e \in first : TRUE).in - shift.start) \div Minute)
              open == (CHOOSE e \in first : TRUE).out = Open
  <2>3. \A at \in Int : CompareShift(shift, sheet.punches, at) =
          [status |-> IF open /\ at < shift.end THEN "in_progress"
                      ELSE IF lateness > LateGraceMin THEN "late" ELSE "ok",
           late |-> IF lateness > LateGraceMin THEN lateness ELSE 0]
    <3>. HIDE DEF first
    <3>1. MatchFor(shift, sheet.punches) = first
      BY DEF first
    <3>. QED  BY <1>2, <3>1 DEF CompareShift
  <2>. DEFINE Now(at) ==
                [status |-> IF open /\ at < shift.end THEN "in_progress"
                            ELSE IF lateness > LateGraceMin THEN "late" ELSE "ok",
                 late |-> IF lateness > LateGraceMin THEN lateness ELSE 0]
  <2>. HIDE DEF first, lateness, open
  <2>4. early = Now(sheet.at) /\ later = Now(sheet.at + sheet.longer)
    BY <2>3
  <2>5. sheet.at + sheet.longer < shift.end => sheet.at < shift.end
    OBVIOUS
  <2>6. /\ Now(sheet.at).status \in {"in_progress", Now(sheet.at + sheet.longer).status}
        /\ Now(sheet.at).late = Now(sheet.at + sheet.longer).late
    BY <2>5
  <2>. HIDE DEF early, later, Now
  <2>. QED  BY <2>2, <2>4, <2>6
<1>. HIDE DEF Stage, early, later, first
<1>. QED  BY <1>1, <1>2 DEF VerdictsLast, Stage, early, later, first

\* Finitely many breaks, none of which ends before it starts.
BreaksTaken(taken) ==
  /\ IsFiniteSet(taken)
  /\ \A b \in taken : b.start \in Int /\ b.end \in Int /\ (b.end # Open => b.start <= b.end)

\* Fewer breaks and longer work leave every flag that was there.
LEMMA EntitlementsDoGrow ==
  ASSUME BreaksTaken(sheet.taken), sheet.worked \in Int, sheet.longer \in Nat
  PROVE  EntitlementsGrow
<1>. DEFINE Ended(taken) == {b \in taken : b.end # Open}
            Rests(taken) == Cardinality({b \in Ended(taken) : b.paid})
            Meals(taken) == {b \in Ended(taken) : ~b.paid}
            Meal(taken) == SumOver(LAMBDA b : b.end - b.start, Meals(taken))
            Lengths(taken) == [b \in Meals(taken) |-> b.end - b.start]
<1>. SUFFICES ASSUME NEW fewer \in SUBSET sheet.taken
              PROVE  BreakComplianceFlags(sheet.worked, sheet.taken)
                       \subseteq BreakComplianceFlags(sheet.worked + sheet.longer, fewer)
  BY DEF EntitlementsGrow
<1>. DEFINE taken == sheet.taken
<1>1. \A s : Meal(s) = Total(Lengths(s))
  BY FunctionSumIsTotal DEF SumOver
<1>2. /\ Rests(fewer) \in Nat /\ Rests(taken) \in Nat /\ Rests(fewer) <= Rests(taken)
  <2>1. IsFiniteSet({b \in Ended(taken) : b.paid})
    BY FS_Subset DEF BreaksTaken
  <2>2. {b \in Ended(fewer) : b.paid} \subseteq {b \in Ended(taken) : b.paid}
    OBVIOUS
  <2>. QED  BY <2>1, <2>2, FS_Subset, FS_CardinalityType
<1>3. /\ Meal(fewer) \in Nat /\ Meal(taken) \in Nat /\ Meal(fewer) <= Meal(taken)
  <2>1. IsFiniteSet(Meals(taken)) /\ IsFiniteSet(Meals(fewer))
    BY FS_Subset DEF BreaksTaken
  <2>2. /\ Meals(fewer) \in SUBSET Meals(taken)
        /\ Lengths(fewer) \in [Meals(fewer) -> Nat] /\ Lengths(taken) \in [Meals(taken) -> Nat]
        /\ \A b \in Meals(fewer) : Lengths(fewer)[b] <= Lengths(taken)[b]
    BY DEF BreaksTaken
  <2>. HIDE DEF Meals, Lengths, Meal
  <2>3. Total(Lengths(fewer)) <= Total(Lengths(taken))
    BY <2>1, <2>2, TotalGrows
  <2>4. Total(Lengths(fewer)) \in Nat /\ Total(Lengths(taken)) \in Nat
    BY <2>1, <2>2, TotalNumber
  <2>. QED  BY <1>1, <2>3, <2>4
<1>4. PICK w, v \in Int : w = sheet.worked /\ v = sheet.worked + sheet.longer /\ w <= v
  OBVIOUS
<1>5. RestDue(w) <= RestDue(v) /\ RestDue(w) \in Int /\ RestDue(v) \in Int
  <2>. DEFINE More(n) == (n - 600) \div 240
  <2>1. \A n \in Int : n > 600 => More(n) \in Nat
    OBVIOUS
  <2>2. w > 600 => More(w) <= More(v)
    BY <1>4
  <2>3. \A n \in Int : RestDue(n) = IF n > 600 THEN 3 + More(n) ELSE IF n > 360 THEN 2 ELSE 1
    BY DEF RestDue
  <2>. HIDE DEF More
  <2>. QED  BY <1>4, <2>1, <2>2, <2>3
<1>6. \A s, n : BreakComplianceFlags(n, s) =
        IF n < 120 THEN {}
        ELSE {f \in {"missing_rest_break"} : Rests(s) < RestDue(n)}
               \cup {f \in {"missing_meal_break"} : n > 240 /\ Meal(s) < 30 * Minute}
  BY DEF BreakComplianceFlags
<1>7. PICK least \in Int : least = 30 * Minute
  BY UnitsAre
<1>. HIDE DEF Rests, Meal
<1>. QED  BY <1>2, <1>3, <1>4, <1>5, <1>6, <1>7

\* The total over the days of a week.
LEMMA WeekTotal ==
  ASSUME NEW f \in [WeekDays -> Int]
  PROVE  Total(f) = f[0] + f[1] + f[2] + f[3] + f[4] + f[5] + f[6]
<1>. DEFINE g(k) == [d \in 0..k |-> f[d]]
<1>1. ASSUME NEW k \in -1..5 PROVE Total(g(k + 1)) = Total(g(k)) + f[k + 1]
  <2>1. /\ IsFiniteSet(0..k) /\ k + 1 \notin 0..k /\ (0..k) \cup {k + 1} = 0..(k + 1)
    <3>1. k \in Int /\ 0 \in Int
      OBVIOUS
    <3>2. IsFiniteSet(0..k)
      BY <3>1, FS_Interval
    <3>. QED  BY <3>2
  <2>2. /\ g(k) \in [0..k -> Int] /\ g(k + 1) \in [(0..k) \cup {k + 1} -> Int]
        /\ g(k + 1)[k + 1] = f[k + 1]
        /\ \A d \in 0..k : g(k)[d] = g(k + 1)[d]
    BY <2>1 DEF WeekDays
  <2>. HIDE DEF g
  <2>3. PICK S, x, G, H : S = 0..k /\ x = k + 1 /\ G = g(k) /\ H = g(k + 1)
    OBVIOUS
  <2>4. /\ IsFiniteSet(S) /\ x \notin S /\ G \in [S -> Int] /\ H \in [S \cup {x} -> Int]
        /\ \A d \in S : G[d] = H[d]
    BY <2>1, <2>2, <2>3
  <2>5. Total(H) = Total(G) + H[x]
    BY <2>4, TotalOneMore
  <2>. QED  BY <2>2, <2>3, <2>5
<1>2. Total(g(-1)) = 0
  BY TotalOfNone
<1>3. f = g(6)
  BY DEF WeekDays
<1>4. /\ Total(g(0)) = Total(g(-1)) + f[0] /\ Total(g(1)) = Total(g(0)) + f[1]
      /\ Total(g(2)) = Total(g(1)) + f[2] /\ Total(g(3)) = Total(g(2)) + f[3]
      /\ Total(g(4)) = Total(g(3)) + f[4] /\ Total(g(5)) = Total(g(4)) + f[5]
      /\ Total(g(6)) = Total(g(5)) + f[6]
  <2>. HIDE DEF g
  <2>1. \A k \in -1..5 : Total(g(k + 1)) = Total(g(k)) + f[k + 1]
    BY <1>1
  <2>. QED  BY <2>1
<1>5. \A d \in 0..6 : f[d] \in Int
  BY DEF WeekDays
<1>. HIDE DEF g
<1>6. Total(g(6)) = f[0] + f[1] + f[2] + f[3] + f[4] + f[5] + f[6]
  BY <1>2, <1>4, <1>5
<1>. QED  BY <1>3, <1>6

\* The ordinary minutes of the days of a week; what the days of a week have.
OrdinaryOf(p) == SumOver(LAMBDA d : p[d].ordinary, WeekDays)
MinutesOf(u) == SumOver(LAMBDA d : u[d], WeekDays)

LEMMA WeekSum ==
  ASSUME NEW p, \A d \in WeekDays : p[d].ordinary \in Int
  PROVE  OrdinaryOf(p) =
           p[0].ordinary + p[1].ordinary + p[2].ordinary + p[3].ordinary + p[4].ordinary
             + p[5].ordinary + p[6].ordinary
<1>. DEFINE c == [d \in WeekDays |-> p[d].ordinary]
<1>5. OrdinaryOf(p) = Total(c)
  BY FunctionSumIsTotal DEF OrdinaryOf, SumOver
<1>6. Total(c) = c[0] + c[1] + c[2] + c[3] + c[4] + c[5] + c[6]
  <2>1. c \in [WeekDays -> Int]
    OBVIOUS
  <2>. HIDE DEF c
  <2>. QED  BY <2>1, WeekTotal
<1>7. \A d \in 0..6 : c[d] = p[d].ordinary
  BY DEF WeekDays
<1>. HIDE DEF c
<1>. QED  BY <1>5, <1>6, <1>7

LEMMA WeekSumOf ==
  ASSUME NEW u \in [WeekDays -> Int]
  PROVE  MinutesOf(u) = u[0] + u[1] + u[2] + u[3] + u[4] + u[5] + u[6]
<1>1. MinutesOf(u) = Total(u)
  <2>1. u = [d \in WeekDays |-> u[d]]
    OBVIOUS
  <2>. QED  BY <2>1, FunctionSumIsTotal DEF MinutesOf, SumOver
<1>. QED  BY <1>1, WeekTotal

\* What each day gives up: left[d] is still to be reassigned once the days from d on have
\* been through.
Reassigned(carved, left, worked, rules) ==
  /\ left[7] = AtLeast0(carved[0].ordinary + carved[1].ordinary + carved[2].ordinary
                 + carved[3].ordinary + carved[4].ordinary + carved[5].ordinary
                 + carved[6].ordinary - rules.weekly)
  /\ \A d \in 0..6 : left[d] = left[d + 1] - AtMost(carved[d].ordinary, left[d + 1])
  /\ \A d \in WeekDays :
       LET due == ComputeWeekOvertime(worked, rules)[d]
       IN /\ due.ordinary = carved[d].ordinary - (left[d + 1] - left[d])
          /\ due.ot1 = carved[d].ot1 + (left[d + 1] - left[d])
          /\ due.ot2 = carved[d].ot2

\* The days are gone through from the last one, whatever the week.
LEMMA WeekOvertimeIs ==
  ASSUME NEW worked \in [WeekDays -> Nat], NEW rules, rules.daily \in Nat, rules.weekly \in Nat,
         rules.daily2 \in Nat \cup {Off},
         NEW carved, carved = [d \in WeekDays |-> DayOvertime(worked[d], rules)]
  PROVE  \E left \in [0..7 -> Nat] : Reassigned(carved, left, worked, rules)
<1>. DEFINE c == [d \in WeekDays |-> carved[d].ordinary]
            weekly == AtLeast0(OrdinaryOf(carved) - rules.weekly)
            Passes(f) == f = [d \in 0..7 |->
                                IF d = 7 THEN weekly
                                ELSE f[d + 1] - AtMost(carved[d].ordinary, f[d + 1])]
            left == CHOOSE f : Passes(f)
<1>1. c \in [WeekDays -> Nat] /\ \A d \in WeekDays : c[d] = carved[d].ordinary
  BY DEF DayOvertime, AtMost
<1>2. OrdinaryOf(carved) =
        carved[0].ordinary + carved[1].ordinary + carved[2].ordinary + carved[3].ordinary
          + carved[4].ordinary + carved[5].ordinary + carved[6].ordinary
  <2>1. \A d \in WeekDays : carved[d].ordinary \in Int
    <3>. HIDE DEF c
    <3>. QED  BY <1>1
  <2>. QED  BY <2>1, WeekSum
<1>3. \A d \in 0..6 : c[d] \in Nat /\ c[d] = carved[d].ordinary
  <2>. HIDE DEF c
  <2>. QED  BY <1>1 DEF WeekDays
<1>4. weekly \in Nat
  <2>. HIDE DEF c
  <2>. QED  BY <1>2, <1>3 DEF AtLeast0
<1>5. \E f : Passes(f)
  <2>. DEFINE Pass(d, n) == n - AtMost(c[d], n)
              n7 == weekly       n6 == Pass(6, n7)  n5 == Pass(5, n6)  n4 == Pass(4, n5)
              n3 == Pass(3, n4)  n2 == Pass(2, n3)  n1 == Pass(1, n2)  n0 == Pass(0, n1)
              f == [d \in 0..7 |-> CASE d = 7 -> n7 [] d = 6 -> n6 [] d = 5 -> n5 [] d = 4 -> n4
                                     [] d = 3 -> n3 [] d = 2 -> n2 [] d = 1 -> n1 [] d = 0 -> n0]
  <2>1. \A d \in 0..6 : c[d] = carved[d].ordinary
    BY <1>1 DEF WeekDays
  <2>. HIDE DEF c, weekly
  <2>2. /\ f[7] = n7 /\ f[6] = n6 /\ f[5] = n5 /\ f[4] = n4
        /\ f[3] = n3 /\ f[2] = n2 /\ f[1] = n1 /\ f[0] = n0
    <3>. HIDE DEF n6, n5, n4, n3, n2, n1, n0
    <3>. QED  OBVIOUS
  <2>3. f[7] = weekly /\ \A d \in 0..6 : f[d] = f[d + 1] - AtMost(c[d], f[d + 1])
    <3>1. /\ f[6] = Pass(6, f[7]) /\ f[5] = Pass(5, f[6]) /\ f[4] = Pass(4, f[5])
          /\ f[3] = Pass(3, f[4]) /\ f[2] = Pass(2, f[3]) /\ f[1] = Pass(1, f[2])
          /\ f[0] = Pass(0, f[1])
      <4>. HIDE DEF f, Pass
      <4>. QED  BY <2>2
    <3>2. f[7] = weekly
      <4>. HIDE DEF f
      <4>. QED  BY <2>2
    <3>. HIDE DEF f
    <3>. QED  BY <3>1, <3>2
  <2>4. f = [d \in 0..7 |-> f[d]]
    OBVIOUS
  <2>. HIDE DEF f
  <2>5. Passes(f)
    <3>1. \A d \in 0..7 : f[d] = IF d = 7 THEN weekly
                                 ELSE f[d + 1] - AtMost(carved[d].ordinary, f[d + 1])
      BY <2>1, <2>3
    <3>. QED  BY <2>4, <3>1
  <2>. QED  BY <2>5
<1>6. Passes(left)
  <2>. HIDE DEF Passes
  <2>. QED  BY <1>5
<1>7. /\ left[7] = weekly /\ left = [d \in 0..7 |-> left[d]]
      /\ \A d \in 0..6 : left[d] = left[d + 1] - AtMost(c[d], left[d + 1])
  <2>1. left = [d \in 0..7 |-> IF d = 7 THEN weekly
                               ELSE left[d + 1] - AtMost(carved[d].ordinary, left[d + 1])]
    BY <1>6
  <2>2. \A d \in 0..6 : c[d] = carved[d].ordinary
    BY <1>1 DEF WeekDays
  <2>. HIDE DEF left, c, weekly
  <2>. QED  BY <2>1, <2>2
<1>8. left \in [0..7 -> Nat]
  <2>. HIDE DEF left, c, weekly
  <2>1. \A d \in 0..6 : left[d + 1] \in Nat => left[d] \in Nat
    BY <1>3, <1>7 DEF AtMost
  <2>2. left[7] \in Nat /\ left[6] \in Nat /\ left[5] \in Nat /\ left[4] \in Nat
        /\ left[3] \in Nat /\ left[2] \in Nat /\ left[1] \in Nat /\ left[0] \in Nat
    BY <1>4, <1>7, <2>1
  <2>3. \A d \in 0..7 : left[d] \in Nat
    BY <2>2
  <2>. QED  BY <1>7, <2>3
<1>9. ComputeWeekOvertime(worked, rules) = [d \in WeekDays |->
                   [carved[d] EXCEPT !.ordinary = @ - (left[d + 1] - left[d]),
                                     !.ot1 = @ + (left[d + 1] - left[d])]]
  BY DEF ComputeWeekOvertime, OrdinaryOf
<1>10. weekly = AtLeast0(c[0] + c[1] + c[2] + c[3] + c[4] + c[5] + c[6] - rules.weekly)
  <2>. HIDE DEF c
  <2>. QED  BY <1>2, <1>3
<1>11. /\ weekly = AtLeast0(carved[0].ordinary + carved[1].ordinary + carved[2].ordinary
                      + carved[3].ordinary + carved[4].ordinary + carved[5].ordinary
                      + carved[6].ordinary - rules.weekly)
       /\ \A d \in 0..6 : left[d] = left[d + 1] - AtMost(carved[d].ordinary, left[d + 1])
       /\ \A d \in WeekDays : carved[d].ordinary \in Nat
  <2>. HIDE DEF left, c, weekly
  <2>. QED  BY <1>1, <1>7, <1>10 DEF WeekDays
<1>12. left[7] = weekly
  BY <1>7
<1>. HIDE DEF left, weekly
<1>13. \A d \in WeekDays :
         LET due == ComputeWeekOvertime(worked, rules)[d]
         IN /\ due.ordinary = carved[d].ordinary - (left[d + 1] - left[d])
            /\ due.ot1 = carved[d].ot1 + (left[d + 1] - left[d])
            /\ due.ot2 = carved[d].ot2
  <2>1. ASSUME NEW d \in WeekDays
        PROVE  carved[d] = [ordinary |-> carved[d].ordinary, ot1 |-> carved[d].ot1,
                            ot2 |-> carved[d].ot2]
    BY DEF DayOvertime
  <2>2. ASSUME NEW d \in WeekDays
        PROVE  LET due == ComputeWeekOvertime(worked, rules)[d]
               IN /\ due.ordinary = carved[d].ordinary - (left[d + 1] - left[d])
                  /\ due.ot1 = carved[d].ot1 + (left[d + 1] - left[d])
                  /\ due.ot2 = carved[d].ot2
    <3>1. PICK day : day = carved[d]
      OBVIOUS
    <3>2. day = [ordinary |-> day.ordinary, ot1 |-> day.ot1, ot2 |-> day.ot2]
      BY <2>1, <3>1
    <3>3. PICK take : take = left[d + 1] - left[d]
      OBVIOUS
    <3>4. ComputeWeekOvertime(worked, rules)[d] =
            [day EXCEPT !.ordinary = @ - take, !.ot1 = @ + take]
      BY <1>9, <3>1, <3>3
    <3>5. /\ [day EXCEPT !.ordinary = @ - take, !.ot1 = @ + take].ordinary = day.ordinary - take
          /\ [day EXCEPT !.ordinary = @ - take, !.ot1 = @ + take].ot1 = day.ot1 + take
          /\ [day EXCEPT !.ordinary = @ - take, !.ot1 = @ + take].ot2 = day.ot2
      BY <3>2
    <3>. QED  BY <3>1, <3>3, <3>4, <3>5
  <2>. QED  BY <2>2
<1>. QED  BY <1>8, <1>11, <1>12, <1>13 DEF Reassigned

\* What is left to reassign is what the days it has been through do not hold.
LEMMA DayCarries ==
  ASSUME NEW x \in Nat, NEW u \in Nat, NEW y, y = x - AtMost(u, x)
  PROVE  y = AtLeast0(x - u) /\ y \in Nat /\ y <= x
BY DEF AtMost, AtLeast0

LEMMA WeekCarries ==
  ASSUME NEW u, \A d \in 0..6 : u[d] \in Nat, NEW left \in [0..7 -> Nat],
         \A d \in 0..6 : left[d] = left[d + 1] - AtMost(u[d], left[d + 1])
  PROVE  /\ left[0] = AtLeast0(left[7] - (u[0] + u[1] + u[2] + u[3] + u[4] + u[5] + u[6]))
         /\ \A d, e \in 0..7 : d <= e => left[d] <= left[e]
<1>1. ASSUME NEW d \in 0..6 PROVE left[d] = AtLeast0(left[d + 1] - u[d]) /\ left[d] <= left[d + 1]
  <2>1. left[d + 1] \in Nat /\ u[d] \in Nat
    OBVIOUS
  <2>. QED  BY <2>1, DayCarries
<1>2. /\ left[0] \in Nat /\ left[1] \in Nat /\ left[2] \in Nat /\ left[3] \in Nat
      /\ left[4] \in Nat /\ left[5] \in Nat /\ left[6] \in Nat /\ left[7] \in Nat
  OBVIOUS
<1>3. /\ u[0] \in Nat /\ u[1] \in Nat /\ u[2] \in Nat /\ u[3] \in Nat
      /\ u[4] \in Nat /\ u[5] \in Nat /\ u[6] \in Nat
  OBVIOUS
<1>4. /\ left[0] = AtLeast0(left[1] - u[0]) /\ left[1] = AtLeast0(left[2] - u[1])
      /\ left[2] = AtLeast0(left[3] - u[2]) /\ left[3] = AtLeast0(left[4] - u[3])
      /\ left[4] = AtLeast0(left[5] - u[4]) /\ left[5] = AtLeast0(left[6] - u[5])
      /\ left[6] = AtLeast0(left[7] - u[6])
  BY <1>1
<1>5. left[4] = AtLeast0(left[7] - (u[4] + u[5] + u[6]))
  BY <1>2, <1>3, <1>4 DEF AtLeast0
<1>6. left[2] = AtLeast0(left[7] - (u[2] + u[3] + u[4] + u[5] + u[6]))
  BY <1>2, <1>3, <1>4, <1>5 DEF AtLeast0
<1>7. left[0] = AtLeast0(left[7] - (u[0] + u[1] + u[2] + u[3] + u[4] + u[5] + u[6]))
  <2>1. PICK rest \in Nat : rest = u[2] + u[3] + u[4] + u[5] + u[6]
    BY <1>3
  <2>2. left[0] = AtLeast0(left[7] - (u[0] + u[1] + rest))
    BY <1>2, <1>3, <1>4, <1>6, <2>1 DEF AtLeast0
  <2>. QED  BY <1>3, <2>1, <2>2
<1>8. /\ left[0] <= left[1] /\ left[1] <= left[2] /\ left[2] <= left[3] /\ left[3] <= left[4]
      /\ left[4] <= left[5] /\ left[5] <= left[6] /\ left[6] <= left[7]
  BY <1>2, <1>3, <1>4 DEF AtLeast0
<1>9. \A d, e \in 0..7 : d <= e => left[d] <= left[e]
  BY <1>2, <1>8
<1>. QED  BY <1>7, <1>9

\* No minute is lost or counted twice, and a day gives up ordinary minutes only when the
\* later ones have none left.
WeekExact(worked, rules) ==
  LET due == ComputeWeekOvertime(worked, rules)
      under == [d \in WeekDays |-> AtMost(worked[d], rules.daily)]
  IN /\ Sane(rules) => \A d \in WeekDays :
          due[d].ordinary + due[d].ot1 + due[d].ot2 = worked[d]
     /\ OrdinaryOf(due) = AtMost(MinutesOf(under), rules.weekly)
     /\ \A d, e \in WeekDays : d < e /\ due[d].ordinary < under[d] => due[e].ordinary = 0
     /\ \A d \in WeekDays : due[d].ot2 = DayOvertime(worked[d], rules).ot2
     /\ \A d \in WeekDays : {due[d].ordinary, due[d].ot1, due[d].ot2} \subseteq Int

LEMMA WeekIsExact ==
  ASSUME NEW rules, rules.daily \in Nat, rules.weekly \in Nat, rules.daily2 \in Nat \cup {Off},
         NEW worked \in [WeekDays -> Nat]
  PROVE  WeekExact(worked, rules)
<1>. DEFINE due == ComputeWeekOvertime(worked, rules)
            under == [d \in WeekDays |-> AtMost(worked[d], rules.daily)]
            Give(left, d) == left[d + 1] - left[d]
<1>0. PICK carved : carved = [d \in WeekDays |-> DayOvertime(worked[d], rules)]
  OBVIOUS
<1>1. PICK left \in [0..7 -> Nat] : Reassigned(carved, left, worked, rules)
  BY <1>0, WeekOvertimeIs
<1>2. ASSUME NEW d \in WeekDays
      PROVE  /\ carved[d] = DayOvertime(worked[d], rules) /\ worked[d] \in Nat
             /\ carved[d].ordinary = under[d] /\ under[d] \in Nat /\ carved[d].ot1 \in Nat
             /\ carved[d].ot2 \in Nat /\ carved[d].ot2 = DayOvertime(worked[d], rules).ot2
             /\ Sane(rules) => carved[d].ordinary + carved[d].ot1 + carved[d].ot2 = worked[d]
  BY <1>0 DEF DayOvertime, AtMost, AtLeast0, Sane, Off
<1>3. ASSUME NEW d \in WeekDays
      PROVE  /\ due[d].ordinary = under[d] - Give(left, d)
             /\ due[d].ot1 = carved[d].ot1 + Give(left, d) /\ due[d].ot2 = carved[d].ot2
  <2>. HIDE DEF due, under, Give
  <2>. QED  BY <1>1, <1>2 DEF Reassigned, due, Give
<1>. DEFINE excess == AtLeast0(under[0] + under[1] + under[2] + under[3] + under[4] + under[5]
                               + under[6] - rules.weekly)
<1>4. /\ left[7] = excess
      /\ \A d \in 0..6 : left[d] = left[d + 1] - AtMost(under[d], left[d + 1])
      /\ \A d \in 0..6 : under[d] \in Nat /\ left[d] \in Nat /\ left[d + 1] \in Nat
  <2>. HIDE DEF due, under
  <2>. QED  BY <1>1, <1>2 DEF Reassigned, excess, WeekDays
<1>10. /\ under[0] \in Nat /\ under[1] \in Nat /\ under[2] \in Nat /\ under[3] \in Nat
       /\ under[4] \in Nat /\ under[5] \in Nat /\ under[6] \in Nat
  <2>. HIDE DEF under
  <2>. QED  BY <1>4
<1>9. /\ left[0] = AtLeast0(left[7] - (under[0] + under[1] + under[2] + under[3] + under[4]
                                          + under[5] + under[6]))
      /\ \A d, e \in 0..7 : d <= e => left[d] <= left[e]
  <2>. HIDE DEF due, under, excess
  <2>1. /\ \A d \in 0..6 : under[d] \in Nat
        /\ \A d \in 0..6 : left[d] = left[d + 1] - AtMost(under[d], left[d + 1])
    BY <1>4
  <2>. QED  BY <2>1, WeekCarries
<1>5. Sane(rules) => \A d \in WeekDays :
        due[d].ordinary + due[d].ot1 + due[d].ot2 = worked[d]
  <2>. HIDE DEF due, under
  <2>. QED  BY <1>2, <1>3, <1>4 DEF WeekDays
<1>6. OrdinaryOf(due) = AtMost(MinutesOf(under), rules.weekly)
  <2>1. \A d \in 0..6 : due[d].ordinary \in Int /\ due[d].ordinary = under[d] - Give(left, d)
    <3>. HIDE DEF due, under
    <3>. QED  BY <1>3, <1>4 DEF WeekDays
  <2>2. OrdinaryOf(due) =
          due[0].ordinary + due[1].ordinary + due[2].ordinary + due[3].ordinary
            + due[4].ordinary + due[5].ordinary + due[6].ordinary
    <3>. HIDE DEF due
    <3>. QED  BY <2>1, WeekSum DEF WeekDays
  <2>3. MinutesOf(under) =
          under[0] + under[1] + under[2] + under[3] + under[4] + under[5] + under[6]
    <3>1. under \in [WeekDays -> Int]
      BY <1>2
    <3>. HIDE DEF under
    <3>. QED  BY <3>1, WeekSumOf
  <2>4. due[0].ordinary + due[1].ordinary + due[2].ordinary + due[3].ordinary
            + due[4].ordinary + due[5].ordinary + due[6].ordinary =
          under[0] + under[1] + under[2] + under[3] + under[4] + under[5] + under[6]
            - left[7] + left[0]
    <3>. HIDE DEF due, under
    <3>. QED  BY <2>1, <1>4
  <2>. HIDE DEF due, under
  <2>5. PICK all \in Nat : all = under[0] + under[1] + under[2] + under[3] + under[4] + under[5]
                                   + under[6]
    BY <1>4
  <2>6. left[7] = AtLeast0(all - rules.weekly) /\ left[0] = AtLeast0(left[7] - all)
    BY <2>5, <1>4, <1>9, <1>10 DEF excess
  <2>7. all - left[7] + left[0] = AtMost(all, rules.weekly)
    BY <2>6 DEF AtMost, AtLeast0
  <2>8. OrdinaryOf(due) = all - left[7] + left[0] /\ MinutesOf(under) = all
    BY <2>2, <2>3, <2>4, <2>5, <1>10
  <2>. QED  BY <2>7, <2>8
<1>7. \A d, e \in WeekDays : d < e /\ due[d].ordinary < under[d] => due[e].ordinary = 0
  <2>2. \A d \in 0..7, e \in 0..7 : d <= e => left[d] <= left[e]
    BY <1>9
  <2>3. ASSUME NEW d \in WeekDays, NEW e \in WeekDays, d < e, due[d].ordinary < under[d]
        PROVE  due[e].ordinary = 0
    <3>. HIDE DEF due, under, excess
    <3>1. left[d + 1] # left[d] /\ left[d + 1] \in Nat /\ left[d] \in Nat
      BY <1>3, <1>4, <2>3 DEF WeekDays
    <3>2. left[d + 1] > 0 /\ left[e] >= left[d + 1]
      BY <2>2, <2>3, <3>1 DEF WeekDays
    <3>3. AtMost(under[e], left[e + 1]) = under[e]
      BY <1>4, <3>1, <3>2 DEF AtMost, WeekDays
    <3>. QED  BY <1>3, <1>4, <3>3 DEF WeekDays
  <2>. QED  BY <2>3
<1>8. \A d \in WeekDays : due[d].ot2 = DayOvertime(worked[d], rules).ot2
  <2>. HIDE DEF due, under
  <2>. QED  BY <1>2, <1>3
<1>11. \A d \in WeekDays : {due[d].ordinary, due[d].ot1, due[d].ot2} \subseteq Int
  <2>. HIDE DEF due, under
  <2>. QED  BY <1>2, <1>3, <1>4 DEF WeekDays
<1>. HIDE DEF due, under
<1>. QED  BY <1>5, <1>6, <1>7, <1>8, <1>11 DEF WeekExact, due, under

LEMMA OvertimeIsExact ==
  ASSUME sheet.rules.daily \in Nat, sheet.rules.weekly \in Nat,
         sheet.rules.daily2 \in Nat \cup {Off}, sheet.worked \in [WeekDays -> Nat]
  PROVE  OvertimeExact
<1>1. WeekExact(sheet.worked, sheet.rules)
  BY WeekIsExact
<1>. QED  BY <1>1 DEF WeekExact, OvertimeExact, OrdinaryOf, MinutesOf

-----------------------------------------------------------------------------
(* The timesheet *)

\* What the days of a week have, of a function on days.
WeekHours(v, w) == [k \in WeekDays |-> IF 7 * w + k \in DOMAIN v THEN v[7 * w + k] ELSE 0]
WeeksOf(days) == {d \div 7 : d \in days}

\* Days and weeks are finitely many.
LEMMA WeekDaysFinite == IsFiniteSet(WeekDays)
<1>1. 0 \in Int /\ 6 \in Int
  OBVIOUS
<1>2. IsFiniteSet(0..6)
  BY <1>1, FS_Interval
<1>. QED  BY <1>2 DEF WeekDays

\* Minutes by the day are minutes by the week.
LEMMA TotalByWeeks ==
  ASSUME NEW D \in SUBSET Int, IsFiniteSet(D), NEW v \in [D -> Int],
         NEW W \in SUBSET Int, IsFiniteSet(W), WeeksOf(D) \subseteq W
  PROVE  Total(v) = Total([w \in W |-> Total(WeekHours(v, w))])
<1>. DEFINE Hours(s) == [w \in W |-> Total(WeekHours(Portion(v, s), w))]
            Good == {s \in SUBSET D : Total(Portion(v, s)) = Total(Hours(s))}
<1>1. ASSUME NEW s \in SUBSET D, NEW w \in W
      PROVE  /\ WeekHours(Portion(v, s), w) \in [WeekDays -> Int]
             /\ \A k \in WeekDays : WeekHours(Portion(v, s), w)[k] =
                                      IF 7 * w + k \in s THEN v[7 * w + k] ELSE 0
             /\ Total(WeekHours(Portion(v, s), w)) \in Int
  <2>2. \A k \in WeekDays : WeekHours(Portion(v, s), w)[k] =
                              IF 7 * w + k \in s THEN v[7 * w + k] ELSE 0
    BY DEF WeekHours, Portion
  <2>4. \A x \in s : v[x] \in Int
    OBVIOUS
  <2>5. ASSUME NEW k \in WeekDays
        PROVE  (IF 7 * w + k \in s THEN v[7 * w + k] ELSE 0) \in Int
    <3>1. PICK d : d = 7 * w + k
      OBVIOUS
    <3>2. CASE d \in s
      BY <2>4, <3>1, <3>2
    <3>3. CASE d \notin s
      BY <3>1, <3>3
    <3>. QED  BY <3>2, <3>3
  <2>6. WeekHours(Portion(v, s), w) = [k \in WeekDays |-> WeekHours(Portion(v, s), w)[k]]
    BY DEF WeekHours
  <2>1. WeekHours(Portion(v, s), w) \in [WeekDays -> Int]
    BY <2>2, <2>5, <2>6
  <2>3. Total(WeekHours(Portion(v, s), w)) \in Int
    BY <2>1, WeekDaysFinite, TotalNumber
  <2>. QED  BY <2>1, <2>2, <2>3
<1>2. ASSUME NEW s \in SUBSET D PROVE Hours(s) \in [W -> Int]
  BY <1>1
<1>3. ASSUME NEW s \in SUBSET D, \A x \in s : s \ {x} \in Good
      PROVE  s \in Good
  <2>1. CASE s = {}
    <3>1. Total(Portion(v, s)) = 0
      BY <2>1, TotalOfNone DEF Portion
    <3>2. ASSUME NEW w \in W PROVE Total(WeekHours(Portion(v, s), w)) = 0
      <4>1. WeekHours(Portion(v, s), w) = [k \in WeekDays |-> 0]
        BY <2>1 DEF WeekHours, Portion
      <4>. QED  BY <4>1, WeekDaysFinite, TotalOfZeros
    <3>3. Hours(s) = [w \in W |-> 0]
      BY <3>2
    <3>4. Total(Hours(s)) = 0
      <4>. HIDE DEF Hours
      <4>. QED  BY <3>3, TotalOfZeros
    <3>5. Total(Portion(v, s)) = Total(Hours(s))
      <4>. HIDE DEF Hours
      <4>. QED  BY <3>1, <3>4
    <3>. QED  BY <3>5
  <2>2. ASSUME NEW x \in s PROVE s \in Good
    <3>1. PICK t : t = s \ {x}
      OBVIOUS
    <3>2. /\ t \in SUBSET D /\ IsFiniteSet(t) /\ x \notin t /\ t \cup {x} = s
          /\ Total(Portion(v, t)) = Total(Hours(t)) /\ v[x] \in Int /\ x \in Int
      BY <1>3, <2>2, <3>1, FS_Subset
    <3>3. Total(Portion(v, s)) = Total(Portion(v, t)) + v[x]
      <4>1. \A y \in t \cup {x} : v[y] \in Int
        BY <3>2
      <4>. QED  BY <3>2, <4>1, TotalExtended
    <3>4. PICK w \in W, k \in WeekDays : x = 7 * w + k
      <4>1. x \div 7 \in W /\ x \div 7 \in Int
        BY <2>2 DEF WeeksOf
      <4>2. x - 7 * (x \div 7) \in WeekDays /\ x = 7 * (x \div 7) + (x - 7 * (x \div 7))
        BY <3>2 DEF WeekDays
      <4>. QED  BY <4>1, <4>2
    <3>5. ASSUME NEW other \in W, other # w
          PROVE  Hours(s)[other] = Hours(t)[other]
      <4>1. \A j \in WeekDays : 7 * other + j # x
        BY <3>4, <3>5 DEF WeekDays
      <4>2. WeekHours(Portion(v, s), other) = WeekHours(Portion(v, t), other)
        BY <3>2, <4>1 DEF WeekHours, Portion
      <4>. QED  BY <4>2
    <3>6. Hours(s)[w] = Hours(t)[w] + v[x]
      <4>1. PICK a, b : a = WeekHours(Portion(v, t), w) /\ b = WeekHours(Portion(v, s), w)
        OBVIOUS
      <4>2. a \in [WeekDays -> Int] /\ b \in [WeekDays -> Int] /\ b[k] = v[x] /\ a[k] = 0
        BY <1>1, <3>2, <3>4, <4>1
      <4>3. \A j \in WeekDays \ {k} : a[j] = b[j]
        <5>1. ASSUME NEW j \in WeekDays, j # k PROVE 7 * w + j # x
          BY <3>4, <5>1 DEF WeekDays
        <5>. QED  BY <1>1, <3>2, <4>1, <5>1
      <4>4. Total(b) = Total(a) + (b[k] - a[k])
        BY <4>2, <4>3, WeekDaysFinite, TotalOneChanged
      <4>5. Total(a) \in Int
        BY <4>2, WeekDaysFinite, TotalNumber
      <4>. QED  BY <3>2, <4>1, <4>2, <4>4, <4>5
    <3>7. Total(Hours(s)) = Total(Hours(t)) + v[x]
      <4>1. PICK a, b : a = Hours(t) /\ b = Hours(s)
        OBVIOUS
      <4>2. /\ a \in [W -> Int] /\ b \in [W -> Int] /\ b[w] = a[w] + v[x]
            /\ \A other \in W \ {w} : a[other] = b[other]
        <5>. HIDE DEF Hours
        <5>. QED  BY <1>2, <3>2, <3>5, <3>6, <4>1
      <4>3. Total(b) = Total(a) + (b[w] - a[w])
        BY <4>2, TotalOneChanged
      <4>4. Total(a) \in Int
        BY <4>2, TotalNumber
      <4>5. Total(b) = Total(a) + v[x]
        BY <3>2, <4>2, <4>3, <4>4
      <4>. QED  BY <4>1, <4>5
    <3>8. Total(Portion(v, s)) = Total(Hours(s))
      <4>. HIDE DEF Hours
      <4>. QED  BY <3>2, <3>3, <3>7
    <3>. QED  BY <3>8
  <2>. QED  BY <2>1, <2>2
<1>4. D \in Good
  <2>1. \A s \in SUBSET D : (\A x \in s : s \ {x} \in Good) => s \in Good
    BY <1>3
  <2>. HIDE DEF Good
  <2>2. \A s \in SUBSET D : s \in Good
    BY <2>1, BySize
  <2>. QED  BY <2>2
<1>5. Portion(v, D) = v
  BY DEF Portion
<1>. QED  BY <1>4, <1>5

\* The ordinary minutes of some weeks, of those that the days may have.
WeeksPay(v, weeks, limit) == [w \in weeks |-> AtMost(Total(WeekHours(v, w)), limit)]
Ordinary(v, weeks, limit) == Total(WeeksPay(v, weeks, limit))

\* The weeks of some days are finitely many.
LEMMA WeeksFinite ==
  ASSUME NEW D \in SUBSET Int, IsFiniteSet(D)
  PROVE  WeeksOf(D) \in SUBSET Int /\ IsFiniteSet(WeeksOf(D))
<1>. DEFINE f == [d \in D |-> d \div 7]
<1>1. \A d \in D : d \div 7 \in Int
  OBVIOUS
<1>3. f \in Surjection(D, WeeksOf(D))
  BY DEF WeeksOf, Surjection
<1>. QED  BY <1>1, <1>3, FS_Surjection DEF WeeksOf

\* The minutes of a week are naturals.
LEMMA WeekHoursNat ==
  ASSUME NEW D \in SUBSET Int, NEW v \in [D -> Nat], NEW w \in Int
  PROVE  /\ WeekHours(v, w) \in [WeekDays -> Nat] /\ Total(WeekHours(v, w)) \in Nat
         /\ \A k \in WeekDays : WeekHours(v, w)[k] = IF 7 * w + k \in D THEN v[7 * w + k] ELSE 0
<1>1. \A k \in WeekDays : WeekHours(v, w)[k] = IF 7 * w + k \in D THEN v[7 * w + k] ELSE 0
  BY DEF WeekHours
<1>2. ASSUME NEW k \in WeekDays PROVE WeekHours(v, w)[k] \in Nat
  <2>1. PICK d : d = 7 * w + k
    OBVIOUS
  <2>2. CASE d \in D
    <3>1. v[d] \in Nat
      BY <2>2
    <3>. QED  BY <1>1, <2>1, <2>2, <3>1
  <2>3. CASE d \notin D
    BY <1>1, <2>1, <2>3
  <2>. QED  BY <2>2, <2>3
<1>3. WeekHours(v, w) = [k \in WeekDays |-> WeekHours(v, w)[k]]
  BY DEF WeekHours
<1>4. WeekHours(v, w) \in [WeekDays -> Nat]
  BY <1>2, <1>3
<1>5. Total(WeekHours(v, w)) \in Nat
  BY <1>4, WeekDaysFinite, TotalNumber
<1>. QED  BY <1>1, <1>4, <1>5

\* A week no day of which is among them has nothing.
LEMMA WeekHoursNone ==
  ASSUME NEW D \in SUBSET Int, NEW v \in [D -> Nat], NEW w \in Int, w \notin WeeksOf(D)
  PROVE  Total(WeekHours(v, w)) = 0
<1>1. ASSUME NEW k \in WeekDays PROVE WeekHours(v, w)[k] = 0
  <2>1. (7 * w + k) \div 7 = w
    BY DEF WeekDays
  <2>2. 7 * w + k \notin D
    BY <2>1 DEF WeeksOf
  <2>. QED  BY <2>2, WeekHoursNat
<1>2. WeekHours(v, w) = [k \in WeekDays |-> 0]
  BY <1>1 DEF WeekHours
<1>. QED  BY <1>2, WeekDaysFinite, TotalOfZeros

\* Weeks without such days add no ordinary minutes.
LEMMA OrdinaryPadded ==
  ASSUME NEW D \in SUBSET Int, IsFiniteSet(D), NEW v \in [D -> Nat], NEW limit \in Nat,
         NEW W \in SUBSET Int, IsFiniteSet(W), WeeksOf(D) \subseteq W
  PROVE  /\ Ordinary(v, WeeksOf(D), limit) = Ordinary(v, W, limit)
         /\ WeeksPay(v, W, limit) \in [W -> Nat] /\ Ordinary(v, W, limit) \in Nat
<1>1. PICK f : f = WeeksPay(v, W, limit)
  OBVIOUS
<1>2. ASSUME NEW w \in W
      PROVE f[w] = AtMost(Total(WeekHours(v, w)), limit) /\ f[w] \in Nat
  <2>1. f[w] = AtMost(Total(WeekHours(v, w)), limit)
    BY <1>1 DEF WeeksPay
  <2>2. Total(WeekHours(v, w)) \in Nat
    BY WeekHoursNat
  <2>. QED  BY <2>1, <2>2 DEF AtMost
<1>3. f \in [W -> Nat] /\ f \in [W -> Int]
  BY <1>1, <1>2 DEF WeeksPay
<1>4. ASSUME NEW w \in W \ WeeksOf(D) PROVE f[w] = 0
  <2>1. Total(WeekHours(v, w)) = 0
    BY WeekHoursNone
  <2>. QED  BY <1>2, <2>1 DEF AtMost
<1>5. Total(f) = Total(Portion(f, WeeksOf(D)))
  BY <1>3, <1>4, TotalPadded
<1>6. Portion(f, WeeksOf(D)) = WeeksPay(v, WeeksOf(D), limit)
  BY <1>1 DEF Portion, WeeksPay
<1>7. Total(f) \in Nat
  BY <1>3, TotalNumber
<1>. QED  BY <1>1, <1>3, <1>5, <1>6, <1>7 DEF Ordinary

\* Cut in two, the days have as many ordinary minutes or more: as many if no week is cut.
LEMMA OrdinaryCut ==
  ASSUME NEW D \in SUBSET Int, IsFiniteSet(D), NEW v \in [D -> Nat], NEW limit \in Nat,
         NEW T \in SUBSET D
  PROVE  LET both == Ordinary(Portion(v, T), WeeksOf(T), limit)
                       + Ordinary(Portion(v, D \ T), WeeksOf(D \ T), limit)
             whole == Ordinary(v, WeeksOf(D), limit)
         IN /\ whole <= both
            /\ WeeksOf(T) \cap WeeksOf(D \ T) = {} => both = whole
<1>0. PICK U : U = D \ T
  OBVIOUS
<1>1. PICK a, b : a = Portion(v, T) /\ b = Portion(v, U)
  OBVIOUS
<1>2. /\ a \in [T -> Nat] /\ b \in [U -> Nat] /\ IsFiniteSet(T) /\ IsFiniteSet(U)
      /\ U \in SUBSET D /\ T \cup U = D /\ T \cap U = {}
      /\ (\A d \in T : a[d] = v[d]) /\ (\A d \in U : b[d] = v[d])
  BY <1>0, <1>1, FS_Subset DEF Portion
<1>3. PICK W : W = WeeksOf(D)
  OBVIOUS
<1>4. /\ W \in SUBSET Int /\ IsFiniteSet(W) /\ WeeksOf(T) \subseteq W /\ WeeksOf(U) \subseteq W
  <2>1. W \in SUBSET Int /\ IsFiniteSet(W)
    BY <1>3, WeeksFinite
  <2>. QED  BY <1>2, <1>3, <2>1 DEF WeeksOf
<1>5. PICK f, g, h : /\ f = WeeksPay(v, W, limit) /\ g = WeeksPay(a, W, limit)
                     /\ h = WeeksPay(b, W, limit)
  OBVIOUS
<1>6. /\ f \in [W -> Nat] /\ g \in [W -> Nat] /\ h \in [W -> Nat]
      /\ Ordinary(a, WeeksOf(T), limit) = Total(g)
      /\ Ordinary(b, WeeksOf(U), limit) = Total(h)
      /\ Ordinary(v, WeeksOf(D), limit) = Total(f)
  <2>1. T \in SUBSET Int /\ U \in SUBSET Int
    BY <1>2
  <2>2. f \in [W -> Nat] /\ Ordinary(v, WeeksOf(D), limit) = Total(f)
    BY <1>3, <1>4, <1>5, OrdinaryPadded DEF Ordinary
  <2>3. g \in [W -> Nat] /\ Ordinary(a, WeeksOf(T), limit) = Total(g)
    BY <1>2, <1>4, <1>5, <2>1, OrdinaryPadded DEF Ordinary
  <2>4. h \in [W -> Nat] /\ Ordinary(b, WeeksOf(U), limit) = Total(h)
    BY <1>2, <1>4, <1>5, <2>1, OrdinaryPadded DEF Ordinary
  <2>. QED  BY <2>2, <2>3, <2>4
<1>7. ASSUME NEW w \in W
      PROVE  /\ f[w] <= g[w] + h[w]
             /\ w \notin WeeksOf(T) \/ w \notin WeeksOf(U) => f[w] = g[w] + h[w]
  <2>1. PICK x, y, z : x = WeekHours(v, w) /\ y = WeekHours(a, w) /\ z = WeekHours(b, w)
    OBVIOUS
  <2>0. w \in Int /\ T \in SUBSET Int /\ U \in SUBSET Int
    BY <1>2, <1>4
  <2>11. a \in [T -> Nat] /\ b \in [U -> Nat]
    BY <1>2
  <2>2. /\ x \in [WeekDays -> Nat] /\ Total(x) \in Nat
        /\ \A k \in WeekDays : x[k] = IF 7 * w + k \in D THEN v[7 * w + k] ELSE 0
    BY <2>0, <2>1, WeekHoursNat
  <2>3. /\ y \in [WeekDays -> Nat] /\ Total(y) \in Nat
        /\ \A k \in WeekDays : y[k] = IF 7 * w + k \in T THEN a[7 * w + k] ELSE 0
    BY <2>0, <2>1, <2>11, WeekHoursNat
  <2>4. /\ z \in [WeekDays -> Nat] /\ Total(z) \in Nat
        /\ \A k \in WeekDays : z[k] = IF 7 * w + k \in U THEN b[7 * w + k] ELSE 0
    BY <2>0, <2>1, <2>11, WeekHoursNat
  <2>5. ASSUME NEW k \in WeekDays PROVE x[k] = y[k] + z[k]
    <3>1. PICK d : d = 7 * w + k
      OBVIOUS
    <3>2. x[k] \in Nat /\ y[k] \in Nat /\ z[k] \in Nat
      BY <2>2, <2>3, <2>4
    <3>3. CASE d \in T
      <4>1. x[k] = v[d] /\ y[k] = v[d] /\ z[k] = 0
        BY <1>2, <2>2, <2>3, <2>4, <3>1, <3>3
      <4>. QED  BY <3>2, <4>1
    <3>4. CASE d \in U
      <4>1. x[k] = v[d] /\ z[k] = v[d] /\ y[k] = 0
        BY <1>2, <2>2, <2>3, <2>4, <3>1, <3>4
      <4>. QED  BY <3>2, <4>1
    <3>5. CASE d \notin D
      <4>0. d \notin T /\ d \notin U
        BY <1>2, <3>5
      <4>1. x[k] = 0 /\ z[k] = 0 /\ y[k] = 0
        BY <2>2, <2>3, <2>4, <3>1, <3>5, <4>0
      <4>. QED  BY <3>2, <4>1
    <3>6. d \in T \/ d \in U \/ d \notin D
      BY <1>2
    <3>. QED  BY <3>3, <3>4, <3>5, <3>6
  <2>6. Total(x) = Total(y) + Total(z)
    <3>1. x \in [WeekDays -> Int] /\ y \in [WeekDays -> Int] /\ z \in [WeekDays -> Int]
      BY <2>2, <2>3, <2>4
    <3>. QED  BY <2>5, <3>1, WeekDaysFinite, TotalOfSums
  <2>7. /\ f[w] = AtMost(Total(x), limit) /\ g[w] = AtMost(Total(y), limit)
        /\ h[w] = AtMost(Total(z), limit)
    BY <1>5, <2>1 DEF WeeksPay
  <2>8. f[w] <= g[w] + h[w]
    BY <2>2, <2>3, <2>4, <2>6, <2>7 DEF AtMost
  <2>9. ASSUME w \notin WeeksOf(T) PROVE f[w] = g[w] + h[w]
    <3>1. Total(y) = 0
      BY <1>2, <2>0, <2>1, <2>9, WeekHoursNone
    <3>. QED  BY <2>2, <2>3, <2>4, <2>6, <2>7, <3>1 DEF AtMost
  <2>10. ASSUME w \notin WeeksOf(U) PROVE f[w] = g[w] + h[w]
    <3>1. Total(z) = 0
      BY <1>2, <2>0, <2>1, <2>10, WeekHoursNone
    <3>. QED  BY <2>2, <2>3, <2>4, <2>6, <2>7, <3>1 DEF AtMost
  <2>. QED  BY <2>8, <2>9, <2>10
<1>8. PICK s : s = [w \in W |-> g[w] + h[w]]
  OBVIOUS
<1>9. /\ s \in [W -> Nat] /\ s \in [W -> Int] /\ g \in [W -> Int] /\ h \in [W -> Int]
      /\ \A w \in W : s[w] = g[w] + h[w]
  BY <1>6, <1>8
<1>10. Total(s) = Total(g) + Total(h)
  <2>1. IsFiniteSet(W)
    BY <1>4
  <2>. QED  BY <1>9, <2>1, TotalOfSums
<1>11. Total(f) <= Total(s)
  <2>1. \A w \in W : f[w] <= s[w]
    BY <1>7, <1>9
  <2>. QED  BY <1>4, <1>6, <1>9, <2>1, TotalGrows
<1>12. ASSUME WeeksOf(T) \cap WeeksOf(U) = {} PROVE Total(f) = Total(s)
  <2>1. \A w \in W : f[w] = s[w]
    BY <1>7, <1>9, <1>12
  <2>2. f = s
    BY <1>6, <1>9, <2>1
  <2>. QED  BY <2>2
<1>. QED  BY <1>0, <1>1, <1>6, <1>10, <1>11, <1>12

\* What the days of a week are paid, of one kind.
KindOf(p, f) == Total([k \in WeekDays |-> p[k][f]])

\* A week of the timesheet.
LEMMA WeekPays ==
  ASSUME NEW rules, OvertimeRules(rules), NEW D \in SUBSET Int, NEW v \in [D -> Nat], NEW w \in Int,
         NEW under, under = [d \in D |-> AtMost(v[d], rules.daily)]
  PROVE  \A due : due = ComputeWeekOvertime(WeekHours(v, w), rules) =>
            /\ KindOf(due, "ordinary") = AtMost(Total(WeekHours(under, w)), rules.weekly)
            /\ {KindOf(due, "ordinary"), KindOf(due, "ot1"), KindOf(due, "ot2")} \subseteq Int
            /\ Sane(rules) => KindOf(due, "ordinary") + KindOf(due, "ot1") + KindOf(due, "ot2")
                                = Total(WeekHours(v, w))
<1>1. PICK x : x = WeekHours(v, w)
  OBVIOUS
<1>2. /\ x \in [WeekDays -> Nat]
      /\ \A k \in WeekDays : x[k] = IF 7 * w + k \in D THEN v[7 * w + k] ELSE 0
  BY <1>1, WeekHoursNat
<1>3. PICK due : due = ComputeWeekOvertime(x, rules)
  OBVIOUS
<1>4. PICK u : u = [k \in WeekDays |-> AtMost(x[k], rules.daily)]
  OBVIOUS
<1>5. /\ Sane(rules) => \A k \in WeekDays : due[k].ordinary + due[k].ot1 + due[k].ot2 = x[k]
      /\ OrdinaryOf(due) = AtMost(MinutesOf(u), rules.weekly)
      /\ \A k \in WeekDays : {due[k].ordinary, due[k].ot1, due[k].ot2} \subseteq Int
  BY <1>2, <1>3, <1>4, WeekIsExact DEF WeekExact, OvertimeRules
<1>6. PICK a, b, c : /\ a = [k \in WeekDays |-> due[k].ordinary]
                     /\ b = [k \in WeekDays |-> due[k].ot1] /\ c = [k \in WeekDays |-> due[k].ot2]
  OBVIOUS
<1>7. /\ a \in [WeekDays -> Int] /\ b \in [WeekDays -> Int] /\ c \in [WeekDays -> Int]
      /\ Sane(rules) => \A k \in WeekDays : a[k] + b[k] + c[k] = x[k]
  BY <1>5, <1>6
<1>8. Total(a) \in Int /\ Total(b) \in Int /\ Total(c) \in Int
  BY <1>7, WeekDaysFinite, TotalNumber
<1>9. /\ KindOf(due, "ordinary") = Total(a) /\ KindOf(due, "ot1") = Total(b)
      /\ KindOf(due, "ot2") = Total(c)
  BY <1>6 DEF KindOf
<1>10. OrdinaryOf(due) = Total(a)
  BY <1>6, FunctionSumIsTotal DEF OrdinaryOf, SumOver
<1>11. u = WeekHours(under, w)
  <2>1. \A d \in D : v[d] \in Nat /\ under[d] = AtMost(v[d], rules.daily)
    OBVIOUS
  <2>2. DOMAIN under = D
    OBVIOUS
  <2>3. AtMost(0, rules.daily) = 0
    BY DEF AtMost, OvertimeRules
  <2>4. ASSUME NEW k \in WeekDays
        PROVE  u[k] = IF 7 * w + k \in DOMAIN under THEN under[7 * w + k] ELSE 0
    <3>1. PICK d : d = 7 * w + k
      OBVIOUS
    <3>2. CASE d \in D
      BY <1>2, <1>4, <2>1, <2>2, <3>1, <3>2
    <3>3. CASE d \notin D
      BY <1>2, <1>4, <2>2, <2>3, <3>1, <3>3
    <3>. QED  BY <3>2, <3>3
  <2>. QED  BY <1>4, <2>4 DEF WeekHours
<1>12. MinutesOf(u) = Total(u)
  <2>1. u = [k \in WeekDays |-> u[k]]
    BY <1>4
  <2>. QED  BY <2>1, FunctionSumIsTotal DEF MinutesOf, SumOver
<1>13. Sane(rules) => Total(a) + Total(b) + Total(c) = Total(x)
  <2>. SUFFICES ASSUME Sane(rules) PROVE Total(a) + Total(b) + Total(c) = Total(x)
    OBVIOUS
  <2>1. PICK s : s = [k \in WeekDays |-> a[k] + b[k]]
    OBVIOUS
  <2>2. /\ s \in [WeekDays -> Int] /\ x \in [WeekDays -> Int]
        /\ (\A k \in WeekDays : s[k] = a[k] + b[k])
        /\ (\A k \in WeekDays : x[k] = s[k] + c[k])
    BY <1>2, <1>7, <2>1
  <2>6. /\ a \in [WeekDays -> Int] /\ b \in [WeekDays -> Int]
        /\ c \in [WeekDays -> Int] /\ x \in [WeekDays -> Int]
    BY <1>2, <1>7
  <2>3. Total(s) = Total(a) + Total(b)
    BY <2>2, <2>6, WeekDaysFinite, TotalOfSums
  <2>4. Total(x) = Total(s) + Total(c)
    BY <2>2, <2>6, WeekDaysFinite, TotalOfSums
  <2>. QED  BY <2>3, <2>4
<1>14. /\ KindOf(due, "ordinary") = AtMost(Total(WeekHours(under, w)), rules.weekly)
       /\ {KindOf(due, "ordinary"), KindOf(due, "ot1"), KindOf(due, "ot2")} \subseteq Int
       /\ Sane(rules) => KindOf(due, "ordinary") + KindOf(due, "ot1") + KindOf(due, "ot2")
                           = Total(WeekHours(v, w))
  BY <1>1, <1>5, <1>8, <1>9, <1>10, <1>11, <1>12, <1>13
<1>. QED  BY <1>1, <1>3, <1>14

\* The timesheet's totals, of days that have naturals of minutes.
LEMMA SheetTotals ==
  ASSUME NEW rules, OvertimeRules(rules), NEW D \in SUBSET Int, IsFiniteSet(D),
         NEW days, DOMAIN days = D, NEW v \in [D -> Nat], \A d \in D : v[d] = days[d].worked,
         NEW under, under = [d \in D |-> AtMost(v[d], rules.daily)],
         NEW t, t = TimesheetTotals(days, OvertimeOfWeeks(days, rules), rules)
  PROVE  /\ t.days = days
         /\ t.worked = Total(v)
         /\ t.extra = Total([d \in D |-> days[d].extra])
         /\ t.lieu = {d \in D : days[d].lieu}
         /\ t.ordinary = Ordinary(under, WeeksOf(D), rules.weekly)
         /\ Sane(rules) => t.ordinary + t.ot1 + t.ot2 = t.worked
<1>1. PICK W : W = WeeksOf(D)
  OBVIOUS
<1>2. W \in SUBSET Int /\ IsFiniteSet(W)
  BY <1>1, WeeksFinite
<1>3. PICK overtime : overtime = OvertimeOfWeeks(days, rules)
  OBVIOUS
<1>4. DOMAIN overtime = W /\ \A w \in W : overtime[w] = ComputeWeekOvertime(WeekHours(v, w), rules)
  <2>1. ASSUME NEW w \in W
        PROVE  [k \in WeekDays |-> IF 7 * w + k \in DOMAIN days THEN days[7 * w + k].worked ELSE 0]
                 = WeekHours(v, w)
    <3>1. DOMAIN v = D
      OBVIOUS
    <3>. QED  BY <3>1 DEF WeekHours
  <2>2. overtime = [w \in W |->
          ComputeWeekOvertime([k \in WeekDays |-> IF 7 * w + k \in DOMAIN days
                                                  THEN days[7 * w + k].worked ELSE 0], rules)]
    BY <1>1, <1>3 DEF OvertimeOfWeeks, WeeksOf
  <2>. QED  BY <2>1, <2>2
<1>. DEFINE Kinds(f) == [w \in W |-> KindOf(overtime[w], f)]
<1>5. /\ t.days = days
      /\ t.worked = SumOver(LAMBDA d : days[d].worked, D)
      /\ t.extra = SumOver(LAMBDA d : days[d].extra, D)
      /\ t.lieu = {d \in D : days[d].lieu}
  BY <1>3 DEF TimesheetTotals
<1>6. ASSUME NEW f
      PROVE  SumOver(LAMBDA w : SumOver(LAMBDA k : overtime[w][k][f], WeekDays), W) = Total(Kinds(f))
  BY FunctionSumIsTotal DEF SumOver, KindOf
<1>7. /\ t.ordinary = Total(Kinds("ordinary")) /\ t.ot1 = Total(Kinds("ot1"))
      /\ t.ot2 = Total(Kinds("ot2"))
  <2>1. /\ t.ordinary = SumOver(LAMBDA w : SumOver(LAMBDA k : overtime[w][k]["ordinary"], WeekDays), W)
        /\ t.ot1 = SumOver(LAMBDA w : SumOver(LAMBDA k : overtime[w][k]["ot1"], WeekDays), W)
        /\ t.ot2 = SumOver(LAMBDA w : SumOver(LAMBDA k : overtime[w][k]["ot2"], WeekDays), W)
    BY <1>3, <1>4 DEF TimesheetTotals
  <2>. HIDE DEF Kinds
  <2>. QED  BY <1>6, <2>1
<1>8. t.worked = Total(v) /\ t.extra = Total([d \in D |-> days[d].extra])
  <2>1. [d \in D |-> days[d].worked] = v
    OBVIOUS
  <2>. QED  BY <1>5, <2>1, FunctionSumIsTotal DEF SumOver
<1>9. PICK a, b, c, x : /\ a = Kinds("ordinary") /\ b = Kinds("ot1") /\ c = Kinds("ot2")
                        /\ x = [w \in W |-> Total(WeekHours(v, w))]
  OBVIOUS
<1>10. /\ a \in [W -> Int] /\ b \in [W -> Int] /\ c \in [W -> Int] /\ x \in [W -> Int]
       /\ a = WeeksPay(under, W, rules.weekly)
       /\ Sane(rules) => \A w \in W : a[w] + b[w] + c[w] = x[w]
  <2>1. ASSUME NEW w \in W
        PROVE  /\ a[w] \in Int /\ b[w] \in Int /\ c[w] \in Int /\ x[w] \in Int
               /\ a[w] = AtMost(Total(WeekHours(under, w)), rules.weekly)
               /\ Sane(rules) => a[w] + b[w] + c[w] = x[w]
    <3>1. PICK due : due = ComputeWeekOvertime(WeekHours(v, w), rules)
      OBVIOUS
    <3>2. w \in Int
      BY <1>2
    <3>3. /\ KindOf(due, "ordinary") = AtMost(Total(WeekHours(under, w)), rules.weekly)
          /\ {KindOf(due, "ordinary"), KindOf(due, "ot1"), KindOf(due, "ot2")} \subseteq Int
          /\ Sane(rules) => KindOf(due, "ordinary") + KindOf(due, "ot1") + KindOf(due, "ot2")
                              = Total(WeekHours(v, w))
      BY <3>1, <3>2, WeekPays
    <3>4. Total(WeekHours(v, w)) \in Nat
      BY <3>2, WeekHoursNat
    <3>5. /\ a[w] = KindOf(due, "ordinary") /\ b[w] = KindOf(due, "ot1") /\ c[w] = KindOf(due, "ot2")
          /\ x[w] = Total(WeekHours(v, w))
      BY <1>4, <1>9, <3>1
    <3>. QED  BY <3>3, <3>4, <3>5
  <2>2. /\ a = [w \in W |-> a[w]] /\ b = [w \in W |-> b[w]] /\ c = [w \in W |-> c[w]]
        /\ x = [w \in W |-> x[w]]
    BY <1>9
  <2>. QED  BY <2>1, <2>2 DEF WeeksPay
<1>11. t.ordinary = Ordinary(under, WeeksOf(D), rules.weekly)
  BY <1>1, <1>7, <1>9, <1>10 DEF Ordinary
<1>12. Sane(rules) => t.ordinary + t.ot1 + t.ot2 = t.worked
  <2>. SUFFICES ASSUME Sane(rules) PROVE Total(a) + Total(b) + Total(c) = Total(v)
    BY <1>7, <1>8, <1>9
  <2>1. PICK s : s = [w \in W |-> a[w] + b[w]]
    OBVIOUS
  <2>2. /\ s \in [W -> Int]
        /\ (\A w \in W : s[w] = a[w] + b[w])
        /\ (\A w \in W : x[w] = s[w] + c[w])
    BY <1>10, <2>1
  <2>6. a \in [W -> Int] /\ b \in [W -> Int] /\ c \in [W -> Int] /\ x \in [W -> Int]
    BY <1>10
  <2>7. IsFiniteSet(W)
    BY <1>2
  <2>3. Total(s) = Total(a) + Total(b)
    BY <2>2, <2>6, <2>7, TotalOfSums
  <2>4. Total(x) = Total(s) + Total(c)
    BY <2>2, <2>6, <2>7, TotalOfSums
  <2>5. Total(x) = Total(v)
    <3>1. v \in [D -> Int]
      OBVIOUS
    <3>. QED  BY <1>1, <1>2, <1>9, <3>1, TotalByWeeks
  <2>. QED  BY <2>3, <2>4, <2>5
<1>. QED  BY <1>5, <1>8, <1>11, <1>12

Today(mine, day) == {e \in mine : DayOfInstant(e.in) = day}
DaysOf(mine) == {DayOfInstant(e.in) : e \in mine}

\* The minutes that a day's entries round to, and what a holiday adds to them.
WorkedOn(today, rules) ==
  AtLeast0(SumOver(LAMBDA e : RoundedSpanMinutes(e.in, e.out, rules.rounding)
                                - UnpaidBreakMinutes(e.breaks, e.out), today))
ExtraOn(day, worked, holidays, rules) ==
  IF day \notin holidays THEN 0
  ELSE IF rules.country = "NZ" THEN worked
  ELSE (worked * AtLeast0(rules.holidayTimes - 10) + 5) \div 10

\* Whether a day is one in lieu.
LieuOn(day, mine, rostered, holidays, rules) ==
  /\ day \in holidays /\ rules.country = "NZ"
  /\ WorkedOn(Today(mine, day), rules) > 0 /\ OtherwiseWorkingDay(day, mine, rostered)

\* Unpaid breaks are a number of minutes.
LEMMA UnpaidNumber ==
  ASSUME NEW taken, IsFiniteSet(taken), \A b \in taken : {b.start, b.end} \subseteq Int,
         NEW at \in Int
  PROVE  UnpaidBreakMinutes(taken, at) \in Int
<1>. DEFINE unpaid == {b \in taken : ~b.paid}
            f == [b \in unpaid |-> AtLeast0((IF b.end = Open THEN at ELSE b.end) - b.start)]
<1>1. UnpaidBreakMinutes(taken, at) = RoundMinutes(Total(f))
  BY FunctionSumIsTotal DEF UnpaidBreakMinutes, SumOver
<1>2. IsFiniteSet(unpaid)
  BY FS_Subset
<1>3. \A b \in unpaid : AtLeast0((IF b.end = Open THEN at ELSE b.end) - b.start) \in Int
  BY DEF AtLeast0
<1>4. f \in [unpaid -> Int]
  BY <1>3
<1>. HIDE DEF f, unpaid
<1>5. Total(f) \in Int
  BY <1>2, <1>4, TotalNumber
<1>. QED  BY <1>1, <1>5, MinutesAre

\* The minutes of a day are a number.
LEMMA WorkedNumber ==
  ASSUME NEW today, EntriesToPay(today), NEW rules, PayRulesSet(rules)
  PROVE  WorkedOn(today, rules) \in Nat
<1>. DEFINE f == [e \in today |-> RoundedSpanMinutes(e.in, e.out, rules.rounding)
                                    - UnpaidBreakMinutes(e.breaks, e.out)]
<1>1. WorkedOn(today, rules) = AtLeast0(Total(f))
  BY FunctionSumIsTotal DEF WorkedOn, SumOver
<1>2. ASSUME NEW e \in today
      PROVE  RoundedSpanMinutes(e.in, e.out, rules.rounding)
               - UnpaidBreakMinutes(e.breaks, e.out) \in Int
  <2>1. e.in \in Int /\ e.out \in Int
    BY DEF EntriesToPay
  <2>2. UnpaidBreakMinutes(e.breaks, e.out) \in Int
    BY <2>1, UnpaidNumber DEF EntriesToPay
  <2>3. RoundInstant(e.in, rules.rounding) \in Int /\ RoundInstant(e.out, rules.rounding) \in Int
    BY <2>1, RoundedNear DEF PayRulesSet
  <2>4. RoundMinutes(RoundInstant(e.out, rules.rounding) - RoundInstant(e.in, rules.rounding)) \in Int
    BY <2>3, MinutesAre
  <2>. QED  BY <2>2, <2>4 DEF RoundedSpanMinutes, AtLeast0
<1>3. f \in [today -> Int]
  BY <1>2
<1>. HIDE DEF f
<1>4. Total(f) \in Int
  BY <1>3, TotalNumber DEF EntriesToPay
<1>. QED  BY <1>1, <1>4 DEF AtLeast0

\* A day of the timesheet.
LEMMA DayIs ==
  ASSUME NEW mine, EntriesToPay(mine), NEW rules, PayRulesSet(rules), NEW rostered, NEW holidays,
         NEW day, NEW d, d = TimesheetDay(day, mine, rostered, holidays, rules)
  PROVE  /\ d.worked = WorkedOn(Today(mine, day), rules) /\ d.worked \in Nat
         /\ d.extra = ExtraOn(day, d.worked, holidays, rules) /\ d.extra \in Int
         /\ d.entries = Today(mine, day)
         /\ d.lieu <=> LieuOn(day, mine, rostered, holidays, rules)
<1>1. PICK today : today = Today(mine, day)
  OBVIOUS
<1>2. EntriesToPay(today)
  BY <1>1, FS_Subset DEF EntriesToPay, Today
<1>3. PICK worked : worked = WorkedOn(today, rules)
  OBVIOUS
<1>4. worked \in Nat
  BY <1>2, <1>3, WorkedNumber
<1>5. PICK otherwise : otherwise = OtherwiseWorkingDay(day, mine, rostered)
  OBVIOUS
<1>6. PICK pay : pay = HolidayPay(day, worked, otherwise, holidays, rules)
  OBVIOUS
<1>7. d.worked = worked /\ d.extra = pay.extra /\ d.lieu = pay.lieu /\ d.entries = today
  BY <1>1, <1>3, <1>5, <1>6 DEF TimesheetDay, Today, WorkedOn
<1>8. pay.extra = ExtraOn(day, worked, holidays, rules)
      /\ (pay.lieu <=> day \in holidays /\ rules.country = "NZ" /\ worked > 0 /\ otherwise)
  <2>1. CASE day \notin holidays
    BY <1>6, <2>1 DEF HolidayPay, ExtraOn
  <2>2. CASE day \in holidays /\ rules.country = "NZ"
    BY <1>6, <2>2 DEF HolidayPay, ExtraOn, AssessStatDay
  <2>3. CASE day \in holidays /\ rules.country # "NZ"
    BY <1>6, <2>3 DEF HolidayPay, ExtraOn
  <2>. QED  BY <2>1, <2>2, <2>3
<1>9. ExtraOn(day, worked, holidays, rules) \in Int
  <2>1. PICK times \in Int : times = AtLeast0(rules.holidayTimes - 10)
    BY DEF PayRulesSet, AtLeast0
  <2>2. PICK product \in Int : product = worked * times
    BY <1>4, <2>1
  <2>. QED  BY <1>4, <2>1, <2>2 DEF ExtraOn
<1>. QED  BY <1>1, <1>3, <1>4, <1>5, <1>7, <1>8, <1>9 DEF LieuOn

\* What the days of some entries have, of worked minutes, of those that may be ordinary, and
\* of holiday pay.
WorkedBy(mine, rules) == [d \in DaysOf(mine) |-> WorkedOn(Today(mine, d), rules)]
UnderBy(mine, rules) ==
  [d \in DaysOf(mine) |-> AtMost(WorkedOn(Today(mine, d), rules), rules.daily)]
ExtraBy(mine, holidays, rules) ==
  [d \in DaysOf(mine) |-> ExtraOn(d, WorkedOn(Today(mine, d), rules), holidays, rules)]

SheetOf(mine, rostered, holidays, rules) ==
  [d \in DaysOf(mine) |-> TimesheetDay(d, mine, rostered, holidays, rules)]
PaidFor(mine, rostered, holidays, rules) ==
  TimesheetTotals(SheetOf(mine, rostered, holidays, rules),
                  OvertimeOfWeeks(SheetOf(mine, rostered, holidays, rules), rules), rules)

\* The days of some entries are finitely many.
LEMMA DaysFinite ==
  ASSUME NEW mine, EntriesToPay(mine)
  PROVE  DaysOf(mine) \in SUBSET Int /\ IsFiniteSet(DaysOf(mine))
<1>. DEFINE f == [e \in mine |-> DayOfInstant(e.in)]
<1>1. \A e \in mine : DayOfInstant(e.in) \in Int
  BY DayNumber DEF EntriesToPay
<1>3. f \in Surjection(mine, DaysOf(mine))
  BY DEF DaysOf, Surjection
<1>4. IsFiniteSet(mine)
  BY DEF EntriesToPay
<1>. HIDE DEF f
<1>5. IsFiniteSet(DaysOf(mine))
  BY <1>3, <1>4, FS_Surjection
<1>. QED  BY <1>1, <1>5 DEF DaysOf

\* A timesheet of some entries.
LEMMA SheetIs ==
  ASSUME NEW mine, EntriesToPay(mine), NEW rules, PayRulesSet(rules), NEW rostered, NEW holidays,
         NEW t, t = PaidFor(mine, rostered, holidays, rules)
  PROVE  /\ WorkedBy(mine, rules) \in [DaysOf(mine) -> Nat]
         /\ UnderBy(mine, rules) \in [DaysOf(mine) -> Nat]
         /\ ExtraBy(mine, holidays, rules) \in [DaysOf(mine) -> Int]
         /\ t.worked = Total(WorkedBy(mine, rules))
         /\ t.extra = Total(ExtraBy(mine, holidays, rules))
         /\ t.ordinary = Ordinary(UnderBy(mine, rules), WeeksOf(DaysOf(mine)), rules.weekly)
         /\ Sane(rules) => t.ordinary + t.ot1 + t.ot2 = t.worked
         /\ UNION {t.days[d].entries : d \in DOMAIN t.days} = mine
         /\ t.lieu = {d \in DaysOf(mine) : LieuOn(d, mine, rostered, holidays, rules)}
<1>1. PICK D : D = DaysOf(mine)
  OBVIOUS
<1>2. D \in SUBSET Int /\ IsFiniteSet(D)
  BY <1>1, DaysFinite
<1>3. PICK days : days = SheetOf(mine, rostered, holidays, rules)
  OBVIOUS
<1>4. DOMAIN days = D /\ \A d \in D : days[d] = TimesheetDay(d, mine, rostered, holidays, rules)
  BY <1>1, <1>3 DEF SheetOf
<1>5. ASSUME NEW d \in D
      PROVE  /\ days[d].worked = WorkedOn(Today(mine, d), rules) /\ days[d].worked \in Nat
             /\ days[d].extra = ExtraOn(d, days[d].worked, holidays, rules) /\ days[d].extra \in Int
             /\ days[d].entries = Today(mine, d)
             /\ days[d].lieu <=> LieuOn(d, mine, rostered, holidays, rules)
  BY <1>4, DayIs
<1>6. PICK v, u, x : /\ v = WorkedBy(mine, rules) /\ u = UnderBy(mine, rules)
                     /\ x = ExtraBy(mine, holidays, rules)
  OBVIOUS
<1>7. /\ v \in [D -> Nat] /\ \A d \in D : v[d] = days[d].worked
  BY <1>1, <1>5, <1>6 DEF WorkedBy
<1>8. u = [d \in D |-> AtMost(v[d], rules.daily)] /\ u \in [D -> Nat]
  <2>1. u = [d \in D |-> AtMost(v[d], rules.daily)]
    BY <1>1, <1>6 DEF WorkedBy, UnderBy
  <2>2. \A d \in D : AtMost(v[d], rules.daily) \in Nat
    BY <1>7 DEF AtMost, PayRulesSet, OvertimeRules
  <2>. QED  BY <2>1, <2>2
<1>9. x = [d \in D |-> days[d].extra] /\ x \in [D -> Int]
  <2>1. \A d \in D : ExtraOn(d, WorkedOn(Today(mine, d), rules), holidays, rules) = days[d].extra
    BY <1>5
  <2>2. x = [d \in D |-> days[d].extra]
    BY <1>1, <1>6, <2>1 DEF ExtraBy
  <2>. QED  BY <1>5, <2>2
<1>10. t = TimesheetTotals(days, OvertimeOfWeeks(days, rules), rules)
  BY <1>3 DEF PaidFor
<1>11. /\ t.days = days
       /\ t.worked = Total(v)
       /\ t.extra = Total([d \in D |-> days[d].extra])
       /\ t.lieu = {d \in D : days[d].lieu}
       /\ t.ordinary = Ordinary(u, WeeksOf(D), rules.weekly)
       /\ Sane(rules) => t.ordinary + t.ot1 + t.ot2 = t.worked
  <2>1. OvertimeRules(rules)
    BY DEF PayRulesSet
  <2>. QED  BY <1>2, <1>4, <1>7, <1>8, <1>10, <2>1, SheetTotals
<1>12. UNION {days[d].entries : d \in D} = mine
  <2>1. \A e \in mine : DayOfInstant(e.in) \in D
    BY <1>1 DEF DaysOf
  <2>2. \A d \in D : days[d].entries = {e \in mine : DayOfInstant(e.in) = d}
    BY <1>5 DEF Today
  <2>. QED  BY <2>1, <2>2
<1>13. t.lieu = {d \in D : LieuOn(d, mine, rostered, holidays, rules)}
  BY <1>5, <1>11
<1>. QED  BY <1>1, <1>4, <1>6, <1>7, <1>8, <1>9, <1>11, <1>12, <1>13

\* The entries that start in a part of the period have the same days' minutes there.
LEMMA PartOfDays ==
  ASSUME NEW mine, EntriesToPay(mine), NEW rules, NEW holidays, NEW T \in SUBSET DaysOf(mine),
         NEW some \in SUBSET mine, \A e \in mine : (e \in some <=> DayOfInstant(e.in) \in T)
  PROVE  /\ DaysOf(some) = T /\ EntriesToPay(some)
         /\ WorkedBy(some, rules) = Portion(WorkedBy(mine, rules), T)
         /\ UnderBy(some, rules) = Portion(UnderBy(mine, rules), T)
         /\ ExtraBy(some, holidays, rules) = Portion(ExtraBy(mine, holidays, rules), T)
<1>1. DaysOf(some) = T
  BY DEF DaysOf
<1>2. EntriesToPay(some)
  BY FS_Subset DEF EntriesToPay
<1>3. \A d \in T : Today(some, d) = Today(mine, d) /\ d \in DaysOf(mine)
  BY DEF Today
<1>4. WorkedBy(some, rules) = Portion(WorkedBy(mine, rules), T)
  BY <1>1, <1>3 DEF WorkedBy, Portion
<1>5. UnderBy(some, rules) = Portion(UnderBy(mine, rules), T)
  BY <1>1, <1>3 DEF UnderBy, Portion
<1>6. ExtraBy(some, holidays, rules) = Portion(ExtraBy(mine, holidays, rules), T)
  BY <1>1, <1>3 DEF ExtraBy, Portion
<1>. QED  BY <1>1, <1>2, <1>4, <1>5, <1>6

\* More entries leave a day one that is otherwise worked.
LEMMA HistoryGrows ==
  ASSUME NEW some, NEW mine, some \subseteq mine, NEW day, NEW rostered,
         OtherwiseWorkingDay(day, some, rostered)
  PROVE  OtherwiseWorkingDay(day, mine, rostered)
<1>. DEFINE Weeks(set) == {w \in 1..4 : \E e \in set : DayOfInstant(e.in) = day - 7 * w}
<1>1. IsFiniteSet(1..4)
  <2>1. 1 \in Int /\ 4 \in Int
    OBVIOUS
  <2>. QED  BY <2>1, FS_Interval
<1>2. Weeks(some) \subseteq Weeks(mine) /\ Weeks(mine) \subseteq 1..4
  OBVIOUS
<1>3. day \in rostered \/ Cardinality(Weeks(some)) >= 2
  BY DEF OtherwiseWorkingDay
<1>4. OtherwiseWorkingDay(day, mine, rostered)
        <=> day \in rostered \/ Cardinality(Weeks(mine)) >= 2
  BY DEF OtherwiseWorkingDay
<1>. HIDE DEF Weeks
<1>5. /\ Cardinality(Weeks(some)) <= Cardinality(Weeks(mine))
      /\ Cardinality(Weeks(some)) \in Nat /\ Cardinality(Weeks(mine)) \in Nat
  BY <1>1, <1>2, FS_Subset, FS_CardinalityType
<1>. QED  BY <1>3, <1>4, <1>5

\* A part of the period has no day in lieu that the whole has not.
LEMMA PartOfLieu ==
  ASSUME NEW mine, NEW rules, NEW holidays, NEW rostered, NEW T \in SUBSET DaysOf(mine),
         NEW some \in SUBSET mine, \A e \in mine : (e \in some <=> DayOfInstant(e.in) \in T)
  PROVE  {d \in T : LieuOn(d, some, rostered, holidays, rules)}
           \subseteq {d \in DaysOf(mine) : LieuOn(d, mine, rostered, holidays, rules)}
<1>. SUFFICES ASSUME NEW d \in T, LieuOn(d, some, rostered, holidays, rules)
              PROVE  LieuOn(d, mine, rostered, holidays, rules)
  OBVIOUS
<1>1. Today(some, d) = Today(mine, d)
  BY DEF Today
<1>2. OtherwiseWorkingDay(d, mine, rostered)
  BY HistoryGrows DEF LieuOn
<1>. QED  BY <1>1, <1>2 DEF LieuOn

\* Instants before a midnight are those of the days before it.
LEMMA MidnightParts ==
  ASSUME NEW t \in Int, NEW c \in Int, c % Day = 0
  PROVE  t < c <=> DayOfInstant(t) < DayOfInstant(c)
<1>1. PICK s \in Nat \ {0} : s = Day
  BY UnitsAre
<1>2. PICK d, m \in Int : d = t \div s /\ 0 <= m /\ m < s /\ t = s * d + m
  BY DivMod
<1>3. PICK e \in Int : e = c \div s /\ c = s * e
  <2>1. c % s = 0
    BY <1>1
  <2>2. c \div s \in Int /\ c = s * (c \div s) + (c % s)
    BY DivMod
  <2>. QED  BY <2>1, <2>2
<1>4. d >= e => s * e <= s * d
  BY TimesInOrder
<1>5. d + 1 <= e => s * (d + 1) <= s * e
  BY TimesInOrder
<1>6. s * (d + 1) = s * d + s /\ s * d \in Int /\ s * e \in Int
  OBVIOUS
<1>7. t < c <=> d < e
  BY <1>2, <1>3, <1>4, <1>5, <1>6
<1>. QED  BY <1>1, <1>2, <1>3, <1>7 DEF DayOfInstant

\* The ended entries that start in a span of time; the days from a day on, and those before.
StartIn(mine, entries, from, to) ==
  \A e : e \in mine <=> e \in entries /\ from <= e.in /\ e.in < to /\ e.out # Open
CutAt(day, D, T, U) ==
  /\ T \in SUBSET D /\ U \in SUBSET D
  /\ \A d \in D : (d \in T <=> d < day) /\ (d \in U <=> d \notin T)

\* The days of a period, and those before a midnight in it.
LEMMA DaysCut ==
  ASSUME NEW entries, EntriesToPay(entries), NEW from \in Int, NEW cut \in Int, NEW to \in Int,
         from % Day = 0, cut % Day = 0, to % Day = 0, from <= cut, cut <= to,
         NEW mine, StartIn(mine, entries, from, to), NEW one, StartIn(one, entries, from, cut),
         NEW two, StartIn(two, entries, cut, to),
         NEW D, D = DaysOf(mine), NEW T, NEW U, CutAt(DayOfInstant(cut), D, T, U)
  PROVE  /\ EntriesToPay(mine)
         /\ one \in SUBSET mine /\ \A e \in mine : (e \in one <=> DayOfInstant(e.in) \in T)
         /\ two \in SUBSET mine /\ \A e \in mine : (e \in two <=> DayOfInstant(e.in) \in U)
         /\ \A d \in D : DayOfInstant(from) <= d /\ d < DayOfInstant(to)
<1>1. EntriesToPay(mine)
  <2>1. mine \subseteq entries
    BY DEF StartIn
  <2>. QED  BY <2>1, FS_Subset DEF EntriesToPay
<1>2. \A t \in Int : (t < cut <=> DayOfInstant(t) < DayOfInstant(cut))
  BY MidnightParts
<1>3. \A t \in Int : (t < to <=> DayOfInstant(t) < DayOfInstant(to))
  BY MidnightParts
<1>4. \A t \in Int : (from <= t <=> DayOfInstant(from) <= DayOfInstant(t))
  <2>1. ASSUME NEW t \in Int PROVE from <= t <=> DayOfInstant(from) <= DayOfInstant(t)
    <3>1. t < from <=> DayOfInstant(t) < DayOfInstant(from)
      BY MidnightParts
    <3>2. DayOfInstant(t) \in Int /\ DayOfInstant(from) \in Int
      BY DayNumber
    <3>. QED  BY <3>1, <3>2
  <2>. QED  BY <2>1
<1>5. \A e \in entries : e.in \in Int
  BY DEF EntriesToPay
<1>6. \A e \in mine : e \in entries /\ from <= e.in /\ e.in < to /\ e.out # Open
  BY DEF StartIn
<1>12. /\ T \in SUBSET D /\ U \in SUBSET D
       /\ (\A d \in D : (d \in T <=> d < DayOfInstant(cut)))
       /\ (\A d \in D : (d \in U <=> d \notin T))
  BY DEF CutAt
<1>7. \A e \in mine : DayOfInstant(e.in) \in D
  BY DEF DaysOf
<1>8. \A e \in mine : (DayOfInstant(e.in) \in T <=> e.in < cut)
  BY <1>2, <1>5, <1>6, <1>7, <1>12
<1>9. one \in SUBSET mine /\ \A e \in mine : (e \in one <=> DayOfInstant(e.in) \in T)
  <2>1. ASSUME NEW e \in one PROVE e \in mine /\ e.in < cut
    <3>1. e \in entries /\ from <= e.in /\ e.in < cut /\ e.out # Open
      BY DEF StartIn
    <3>2. PICK t \in Int : t = e.in
      BY <1>5, <3>1
    <3>3. t < cut => t < to
      OBVIOUS
    <3>. QED  BY <3>1, <3>2, <3>3 DEF StartIn
  <2>2. ASSUME NEW e \in mine, e.in < cut PROVE e \in one
    <3>1. e \in entries /\ from <= e.in /\ e.out # Open
      BY <1>6
    <3>. QED  BY <2>2, <3>1 DEF StartIn
  <2>. QED  BY <1>8, <2>1, <2>2
<1>10. two \in SUBSET mine /\ \A e \in mine : (e \in two <=> DayOfInstant(e.in) \in U)
  <2>1. ASSUME NEW e \in two PROVE e \in mine /\ ~(e.in < cut)
    <3>1. e \in entries /\ cut <= e.in /\ e.in < to /\ e.out # Open
      BY DEF StartIn
    <3>2. PICK t \in Int : t = e.in
      BY <1>5, <3>1
    <3>3. cut <= t => from <= t /\ ~(t < cut)
      OBVIOUS
    <3>. QED  BY <3>1, <3>2, <3>3 DEF StartIn
  <2>2. ASSUME NEW e \in mine, ~(e.in < cut) PROVE e \in two
    <3>1. e \in entries /\ e.in < to /\ e.out # Open
      BY <1>6
    <3>2. PICK t \in Int : t = e.in
      BY <1>5, <3>1
    <3>. QED  BY <2>2, <3>1, <3>2 DEF StartIn
  <2>. QED  BY <1>7, <1>8, <1>12, <2>1, <2>2
<1>11. \A d \in D : DayOfInstant(from) <= d /\ d < DayOfInstant(to)
  <2>1. ASSUME NEW e \in mine
        PROVE  DayOfInstant(from) <= DayOfInstant(e.in) /\ DayOfInstant(e.in) < DayOfInstant(to)
    <3>1. e \in entries /\ from <= e.in /\ e.in < to
      BY <1>6
    <3>2. PICK t \in Int : t = e.in
      BY <1>5, <3>1
    <3>. QED  BY <1>3, <1>4, <3>1, <3>2
  <2>. QED  BY <2>1 DEF DaysOf
<1>. QED  BY <1>1, <1>9, <1>10, <1>11

\* A timesheet adds up.
LEMMA TimesheetDoesAddUp ==
  ASSUME EntriesToPay(sheet.entries), PayRulesSet(sheet.rules),
         {sheet.from, sheet.cut, sheet.to} \subseteq Int, sheet.from % Day = 0,
         sheet.cut % Day = 0, sheet.to % Day = 0, sheet.from <= sheet.cut, sheet.cut <= sheet.to
  PROVE  TimesheetAddsUp
<1>1. PICK entries, rules, rostered, holidays, from, cut, to :
        /\ entries = sheet.entries /\ rules = sheet.rules /\ rostered = sheet.rostered
        /\ holidays = sheet.holidays /\ from = sheet.from /\ cut = sheet.cut /\ to = sheet.to
  OBVIOUS
<1>2. /\ EntriesToPay(entries) /\ PayRulesSet(rules) /\ from \in Int /\ cut \in Int /\ to \in Int
      /\ from % Day = 0 /\ cut % Day = 0 /\ to % Day = 0 /\ from <= cut /\ cut <= to
  BY <1>1
<1>3. PICK mine, one, two : /\ mine = EntriesOfPeriod(entries, [start |-> from, end |-> to])
                            /\ one = EntriesOfPeriod(entries, [start |-> from, end |-> cut])
                            /\ two = EntriesOfPeriod(entries, [start |-> cut, end |-> to])
  OBVIOUS
<1>. DEFINE D == DaysOf(mine)
            T == {d \in D : d < DayOfInstant(cut)}
            U == D \ T
<1>4. /\ D = DaysOf(mine) /\ U = D \ T
      /\ T \in SUBSET DaysOf(mine) /\ U \in SUBSET DaysOf(mine)
      /\ T \in SUBSET D /\ U \in SUBSET D
      /\ (\A d \in D : (d \in T <=> d < DayOfInstant(cut)))
      /\ (\A d \in D : (d \in U <=> d \notin T))
  OBVIOUS
<1>. HIDE DEF D, T, U
<1>5. /\ EntriesToPay(mine)
      /\ one \in SUBSET mine /\ \A e \in mine : (e \in one <=> DayOfInstant(e.in) \in T)
      /\ two \in SUBSET mine /\ \A e \in mine : (e \in two <=> DayOfInstant(e.in) \in U)
      /\ \A d \in D : DayOfInstant(from) <= d /\ d < DayOfInstant(to)
  <2>1. StartIn(mine, entries, from, to) /\ StartIn(one, entries, from, cut)
          /\ StartIn(two, entries, cut, to)
    BY <1>3 DEF EntriesOfPeriod, StartIn
  <2>2. D = DaysOf(mine) /\ CutAt(DayOfInstant(cut), D, T, U)
    BY <1>4 DEF CutAt
  <2>3. /\ EntriesToPay(entries) /\ from \in Int /\ cut \in Int /\ to \in Int
        /\ from % Day = 0 /\ cut % Day = 0 /\ to % Day = 0 /\ from <= cut /\ cut <= to
    BY <1>2
  <2>. QED  BY <2>1, <2>2, <2>3, DaysCut
<1>6. PICK whole, first, second : /\ whole = PaidFor(mine, rostered, holidays, rules)
                                  /\ first = PaidFor(one, rostered, holidays, rules)
                                  /\ second = PaidFor(two, rostered, holidays, rules)
  OBVIOUS
<1>7. PICK v, u, x : /\ v = WorkedBy(mine, rules) /\ u = UnderBy(mine, rules)
                     /\ x = ExtraBy(mine, holidays, rules)
  OBVIOUS
<1>8. /\ D \in SUBSET Int /\ IsFiniteSet(D) /\ T \in SUBSET D /\ U \in SUBSET D
  BY <1>4, <1>5, DaysFinite
<1>9. /\ v \in [D -> Nat] /\ u \in [D -> Nat] /\ x \in [D -> Int] /\ v \in [D -> Int]
      /\ whole.worked = Total(v) /\ whole.extra = Total(x)
      /\ whole.ordinary = Ordinary(u, WeeksOf(D), rules.weekly)
      /\ Sane(rules) => whole.ordinary + whole.ot1 + whole.ot2 = whole.worked
      /\ UNION {whole.days[d].entries : d \in DOMAIN whole.days} = mine
      /\ whole.lieu = {d \in D : LieuOn(d, mine, rostered, holidays, rules)}
  BY <1>2, <1>4, <1>5, <1>6, <1>7, SheetIs
<1>10. /\ first.worked = Total(Portion(v, T)) /\ first.extra = Total(Portion(x, T))
       /\ first.ordinary = Ordinary(Portion(u, T), WeeksOf(T), rules.weekly)
       /\ first.lieu = {d \in T : LieuOn(d, one, rostered, holidays, rules)}
  <2>3. T \in SUBSET DaysOf(mine)
    BY <1>4
  <2>1. /\ DaysOf(one) = T /\ EntriesToPay(one) /\ WorkedBy(one, rules) = Portion(v, T)
        /\ UnderBy(one, rules) = Portion(u, T) /\ ExtraBy(one, holidays, rules) = Portion(x, T)
    BY <1>5, <1>7, <2>3, PartOfDays
  <2>2. /\ first.worked = Total(WorkedBy(one, rules))
        /\ first.extra = Total(ExtraBy(one, holidays, rules))
        /\ first.ordinary = Ordinary(UnderBy(one, rules), WeeksOf(DaysOf(one)), rules.weekly)
        /\ first.lieu = {d \in DaysOf(one) : LieuOn(d, one, rostered, holidays, rules)}
    BY <1>2, <1>6, <2>1, SheetIs
  <2>. QED  BY <2>1, <2>2
<1>11. /\ second.worked = Total(Portion(v, U)) /\ second.extra = Total(Portion(x, U))
       /\ second.ordinary = Ordinary(Portion(u, U), WeeksOf(U), rules.weekly)
       /\ second.lieu = {d \in U : LieuOn(d, two, rostered, holidays, rules)}
  <2>3. U \in SUBSET DaysOf(mine)
    BY <1>4
  <2>1. /\ DaysOf(two) = U /\ EntriesToPay(two) /\ WorkedBy(two, rules) = Portion(v, U)
        /\ UnderBy(two, rules) = Portion(u, U) /\ ExtraBy(two, holidays, rules) = Portion(x, U)
    BY <1>5, <1>7, <2>3, PartOfDays
  <2>2. /\ second.worked = Total(WorkedBy(two, rules))
        /\ second.extra = Total(ExtraBy(two, holidays, rules))
        /\ second.ordinary = Ordinary(UnderBy(two, rules), WeeksOf(DaysOf(two)), rules.weekly)
        /\ second.lieu = {d \in DaysOf(two) : LieuOn(d, two, rostered, holidays, rules)}
    BY <1>2, <1>6, <2>1, SheetIs
  <2>. QED  BY <2>1, <2>2
<1>12. first.worked + second.worked = whole.worked
  <2>2. IsFiniteSet(D) /\ T \in SUBSET D /\ v \in [D -> Int]
    BY <1>8, <1>9
  <2>1. Total(v) = Total(Portion(v, T)) + Total(Portion(v, D \ T))
    BY <2>2, TotalSplit
  <2>. QED  BY <1>4, <1>9, <1>10, <1>11, <2>1
<1>13. first.extra + second.extra = whole.extra
  <2>2. IsFiniteSet(D) /\ T \in SUBSET D /\ x \in [D -> Int]
    BY <1>8, <1>9
  <2>1. Total(x) = Total(Portion(x, T)) + Total(Portion(x, D \ T))
    BY <2>2, TotalSplit
  <2>. QED  BY <1>4, <1>9, <1>10, <1>11, <2>1
<1>14. /\ whole.ordinary <= first.ordinary + second.ordinary
       /\ WeeksOf(T) \cap WeeksOf(U) = {} => first.ordinary + second.ordinary = whole.ordinary
  <2>1. rules.weekly \in Nat
    BY <1>2 DEF PayRulesSet, OvertimeRules
  <2>. QED  BY <1>4, <1>8, <1>9, <1>10, <1>11, <2>1, OrdinaryCut
<1>15. first.ordinary + second.ordinary >= whole.ordinary
  BY <1>14
<1>16. ASSUME DayOfInstant(cut) % 7 = 0 PROVE WeeksOf(T) \cap WeeksOf(U) = {}
  <2>1. PICK c \in Int : c = DayOfInstant(cut)
    BY <1>2, DayNumber
  <2>2. c % 7 = 0
    BY <1>16, <2>1
  <2>3. ASSUME NEW d \in T, NEW e \in U PROVE d \div 7 # e \div 7
    <3>1. d \in Int /\ e \in Int /\ d < c /\ c <= e
      BY <1>4, <1>8, <2>1
    <3>. QED  BY <2>2, <3>1
  <2>. QED  BY <2>3 DEF WeeksOf
<1>17. /\ first.lieu \cup second.lieu \subseteq whole.lieu
       /\ \A day \in whole.lieu : day \in holidays /\ UsuallyWorked(day)
  <2>1. first.lieu \subseteq whole.lieu
    <3>1. T \in SUBSET DaysOf(mine)
      BY <1>4
    <3>2. {d \in T : LieuOn(d, one, rostered, holidays, rules)}
            \subseteq {d \in DaysOf(mine) : LieuOn(d, mine, rostered, holidays, rules)}
      BY <1>5, <3>1, PartOfLieu
    <3>. QED  BY <1>4, <1>9, <1>10, <3>2
  <2>2. second.lieu \subseteq whole.lieu
    <3>1. U \in SUBSET DaysOf(mine)
      BY <1>4
    <3>2. {d \in U : LieuOn(d, two, rostered, holidays, rules)}
            \subseteq {d \in DaysOf(mine) : LieuOn(d, mine, rostered, holidays, rules)}
      BY <1>5, <3>1, PartOfLieu
    <3>. QED  BY <1>4, <1>9, <1>11, <3>2
  <2>3. ASSUME NEW day \in whole.lieu PROVE day \in holidays /\ UsuallyWorked(day)
    <3>1. LieuOn(day, mine, rostered, holidays, rules)
      BY <1>9
    <3>2. day \in holidays /\ OtherwiseWorkingDay(day, mine, rostered)
      BY <3>1 DEF LieuOn
    <3>3. mine \subseteq entries
      BY <1>3 DEF EntriesOfPeriod
    <3>4. OtherwiseWorkingDay(day, entries, rostered)
      BY <3>2, <3>3, HistoryGrows
    <3>. QED  BY <1>1, <3>2, <3>4 DEF UsuallyWorked, OtherwiseWorkingDay
  <2>. QED  BY <2>1, <2>2, <2>3
<1>18. /\ whole = BuildTimesheet(entries, [start |-> from, end |-> to], rostered, holidays, rules)
       /\ first = BuildTimesheet(entries, [start |-> from, end |-> cut], rostered, holidays, rules)
       /\ second = BuildTimesheet(entries, [start |-> cut, end |-> to], rostered, holidays, rules)
  BY <1>3, <1>6 DEF BuildTimesheet, PaidFor, SheetOf, DaysOf
<1>19. CutAddsUp(whole, first, second)
  BY <1>1, <1>3, <1>9, <1>12, <1>13, <1>14, <1>15, <1>16, <1>17 DEF CutAddsUp
<1>. QED  BY <1>1, <1>18, <1>19 DEF TimesheetAddsUp

-----------------------------------------------------------------------------
(* The dashboard *)

\* Minutes by the worker and by the day and worker are the minutes of the slice.
LEMMA TilesAddUp ==
  ASSUME NEW slice, IsFiniteSet(slice),
         \A e \in slice : e.worked \in Int /\ DayOfInstant(e.in) \in 0..13,
         NEW starts, NEW total, total = DashboardTotals(WorkerStats(slice, starts)),
         NEW daily, daily = DailyMinutes(slice, 0..13)
  PROVE  /\ total.minutes = ByDay(daily)
         /\ total.shifts = Cardinality(slice)
<1>1. PICK worked, who, day : /\ worked = [e \in slice |-> e.worked]
                              /\ who = [e \in slice |-> e.who]
                              /\ day = [e \in slice |-> DayOfInstant(e.in)]
  OBVIOUS
<1>2. PICK crew : crew = {e.who : e \in slice}
  OBVIOUS
<1>3. /\ worked \in [slice -> Int] /\ who \in [slice -> crew] /\ day \in [slice -> 0..13]
      /\ \A e \in slice : worked[e] = e.worked /\ who[e] = e.who /\ day[e] = DayOfInstant(e.in)
  BY <1>1, <1>2
<1>4. who \in Surjection(slice, crew)
  BY <1>1, <1>2 DEF Surjection
<1>5. IsFiniteSet(crew)
  BY <1>4, FS_Surjection
<1>6. PICK stats : stats = WorkerStats(slice, starts)
  OBVIOUS
<1>7. ASSUME NEW w \in crew
      PROVE  /\ stats[w].minutes = Total(Portion(worked, InGroup(who, slice, w)))
             /\ stats[w].shifts = Cardinality(InGroup(who, slice, w))
  <2>1. PICK es : es = {e \in slice : e.who = w}
    OBVIOUS
  <2>2. stats[w].minutes = SumOver(LAMBDA e : e.worked, es) /\ stats[w].shifts = Cardinality(es)
    BY <1>2, <1>6, <2>1 DEF WorkerStats
  <2>3. InGroup(who, slice, w) = es
    BY <1>3, <2>1 DEF InGroup
  <2>4. Portion(worked, es) = [e \in es |-> e.worked]
    BY <1>3, <2>1 DEF Portion
  <2>5. SumOver(LAMBDA e : e.worked, es) = Total([e \in es |-> e.worked])
    BY FunctionSumIsTotal DEF SumOver
  <2>. QED  BY <2>2, <2>3, <2>4, <2>5
<1>8. DOMAIN stats = crew
  BY <1>2, <1>6 DEF WorkerStats
<1>9. total.minutes = Total(worked)
  <2>1. total.minutes = Total([w \in crew |-> stats[w].minutes])
    BY <1>6, <1>8, FunctionSumIsTotal DEF DashboardTotals, SumOver
  <2>2. [w \in crew |-> stats[w].minutes] = ByGroup(worked, who, slice, crew)
    BY <1>7 DEF ByGroup
  <2>. QED  BY <1>3, <1>5, <2>1, <2>2, TotalByGroups
<1>10. total.shifts = Cardinality(slice)
  <2>1. total.shifts = Total([w \in crew |-> stats[w].shifts])
    BY <1>6, <1>8, FunctionSumIsTotal DEF DashboardTotals, SumOver
  <2>2. PICK ones : ones = Ones(slice)
    OBVIOUS
  <2>3. ASSUME NEW w \in crew
        PROVE  stats[w].shifts = Total(Portion(ones, InGroup(who, slice, w)))
    <3>1. PICK es : es = InGroup(who, slice, w)
      OBVIOUS
    <3>2. Portion(ones, es) = Ones(es) /\ IsFiniteSet(es)
      BY <2>2, <3>1, FS_Subset DEF InGroup, Ones, Portion
    <3>. QED  BY <1>7, <3>1, <3>2, TotalOfOnes
  <2>4. [w \in crew |-> stats[w].shifts] = ByGroup(ones, who, slice, crew)
    BY <2>3 DEF ByGroup
  <2>5. ones \in [slice -> Int]
    BY <2>2 DEF Ones
  <2>. QED  BY <1>3, <1>5, <2>1, <2>2, <2>4, <2>5, TotalByGroups, TotalOfOnes
<1>11. ASSUME NEW d \in 0..13
       PROVE  SumOver(LAMBDA w : daily[d][w], DOMAIN daily[d])
                = Total(Portion(worked, InGroup(day, slice, d)))
  <2>1. PICK es : es = InGroup(day, slice, d)
    OBVIOUS
  <2>2. PICK some : some = {e.who : e \in es}
    OBVIOUS
  <2>3. PICK mine, key : mine = Portion(worked, es) /\ key = Portion(who, es)
    OBVIOUS
  <2>4. /\ es \subseteq slice /\ es = {e \in slice : DayOfInstant(e.in) = d} /\ IsFiniteSet(es)
        /\ mine \in [es -> Int] /\ key \in [es -> some] /\ some \subseteq crew
        /\ \A e \in es : mine[e] = e.worked /\ key[e] = e.who
    <3>1. es \subseteq slice /\ es = {e \in slice : DayOfInstant(e.in) = d}
      BY <1>3, <2>1 DEF InGroup
    <3>2. some \subseteq crew
      BY <1>2, <2>2, <3>1
    <3>3. \A e \in es : mine[e] = e.worked /\ key[e] = e.who
      BY <1>3, <2>3, <3>1 DEF Portion
    <3>4. mine \in [es -> Int] /\ key \in [es -> some]
      BY <1>3, <2>2, <2>3, <3>1 DEF Portion
    <3>. QED  BY <3>1, <3>2, <3>3, <3>4, FS_Subset
  <2>5. IsFiniteSet(some)
    BY <1>5, <2>4, FS_Subset
  <2>6. /\ DOMAIN daily[d] = some
        /\ \A w \in some : daily[d][w] =
             SumOver(LAMBDA e : e.worked, {e \in slice : e.who = w /\ DayOfInstant(e.in) = d})
    <3>1. es = {f \in slice : DayOfInstant(f.in) = d}
      BY <2>4
    <3>. QED  BY <2>2, <3>1 DEF DailyMinutes
  <2>7. ASSUME NEW w \in some
        PROVE  daily[d][w] = Total(Portion(mine, InGroup(key, es, w)))
    <3>1. PICK fs : fs = {e \in slice : e.who = w /\ DayOfInstant(e.in) = d}
      OBVIOUS
    <3>2. InGroup(key, es, w) = fs
      BY <2>4, <3>1 DEF InGroup
    <3>3. Portion(mine, fs) = [e \in fs |-> e.worked]
      BY <2>4, <3>1 DEF Portion
    <3>4. SumOver(LAMBDA e : e.worked, fs) = Total([e \in fs |-> e.worked])
      BY FunctionSumIsTotal DEF SumOver
    <3>. QED  BY <2>6, <3>1, <3>2, <3>3, <3>4
  <2>8. SumOver(LAMBDA w : daily[d][w], DOMAIN daily[d]) = Total([w \in some |-> daily[d][w]])
    BY <2>6, FunctionSumIsTotal DEF SumOver
  <2>9. [w \in some |-> daily[d][w]] = ByGroup(mine, key, es, some)
    BY <2>7 DEF ByGroup
  <2>. QED  BY <2>1, <2>3, <2>4, <2>5, <2>8, <2>9, TotalByGroups
<1>12. SumOver(LAMBDA d : SumOver(LAMBDA w : daily[d][w], DOMAIN daily[d]), 0..13) = Total(worked)
  <2>1. SumOver(LAMBDA d : SumOver(LAMBDA w : daily[d][w], DOMAIN daily[d]), 0..13)
          = Total([d \in 0..13 |-> SumOver(LAMBDA w : daily[d][w], DOMAIN daily[d])])
    BY FunctionSumIsTotal DEF SumOver
  <2>2. [d \in 0..13 |-> SumOver(LAMBDA w : daily[d][w], DOMAIN daily[d])]
          = ByGroup(worked, day, slice, 0..13)
    BY <1>11 DEF ByGroup
  <2>3. IsFiniteSet(0..13)
    <3>1. 0 \in Int /\ 13 \in Int
      OBVIOUS
    <3>. QED  BY <3>1, FS_Interval
  <2>. QED  BY <1>3, <2>1, <2>2, <2>3, TotalByGroups
<1>13. ByDay(daily) = Total(worked)
  BY <1>12 DEF ByDay, SumOver
<1>. QED  BY <1>9, <1>10, <1>13

\* A span of time is cut where an hour ends; its pieces by their starts.
HourEnd(t, end) == AtMost(Hour * (t \div Hour) + Hour, end)
Starts(t, end) == {s \in t .. end - 1 : s = t \/ s % Hour = 0}
PiecesOf(t, end) == {<<s, HourEnd(s, end) - s>> : s \in Starts(t, end)}

Cuts(f, end) ==
  f = [t \in Int |-> IF t >= end THEN {}
                     ELSE {<<t, HourEnd(t, end) - t>>} \cup f[HourEnd(t, end)]]

\* An hour ends after any instant in it, and at the latest where the span does.
LEMMA HourEndIs ==
  ASSUME NEW t \in Int, NEW end \in Int, t < end
  PROVE  /\ HourEnd(t, end) \in Int /\ t < HourEnd(t, end) /\ HourEnd(t, end) <= end
         /\ \A s \in t + 1 .. end - 1 : s % Hour = 0 => HourEnd(t, end) <= s
         /\ HourEnd(t, end) < end => HourEnd(t, end) % Hour = 0
<1>1. PICK k \in Nat \ {0} : k = Hour
  BY UnitsAre
<1>2. PICK q, m \in Int : q = t \div k /\ 0 <= m /\ m < k /\ t = k * q + m
  BY DivMod
<1>8. PICK n \in Int : n = k * q + k
  OBVIOUS
<1>3. n = k * q + k /\ t < n
  BY <1>2, <1>8
<1>4. HourEnd(t, end) = AtMost(n, end)
  BY <1>1, <1>2, <1>3 DEF HourEnd
<1>5. n = k * (q + 1) /\ q + 1 \in Int
  BY <1>3
<1>6. n % Hour = 0
  BY <1>1, <1>5, MultipleIs
<1>7. ASSUME NEW s \in t + 1 .. end - 1, s % Hour = 0 PROVE n <= s
  <2>1. PICK e \in Int : s = k * e
    <3>1. s \in Int /\ s % k = 0
      BY <1>1, <1>7
    <3>2. s = k * (s \div k) + (s % k) /\ s \div k \in Int
      BY <3>1, DivMod
    <3>. QED  BY <3>1, <3>2
  <2>2. e <= q => k * e <= k * q
    BY TimesInOrder
  <2>3. q + 1 <= e => k * (q + 1) <= k * e
    BY TimesInOrder
  <2>4. k * q < k * e /\ k * q \in Int /\ k * e \in Int
    BY <1>2, <2>1
  <2>. QED  BY <1>5, <2>1, <2>2, <2>3, <2>4
<1>. QED  BY <1>3, <1>4, <1>6, <1>7 DEF AtMost

\* The pieces of a span are its first piece and those of the rest.
LEMMA PiecesCut ==
  ASSUME NEW t \in Int, NEW end \in Int
  PROVE  PiecesOf(t, end) =
           IF t >= end THEN {}
           ELSE {<<t, HourEnd(t, end) - t>>} \cup PiecesOf(HourEnd(t, end), end)
<1>1. CASE t >= end
  <2>1. Starts(t, end) = {}
    BY <1>1 DEF Starts
  <2>. QED  BY <1>1, <2>1 DEF PiecesOf
<1>2. CASE t < end
  <2>1. PICK next \in Int : next = HourEnd(t, end)
    BY <1>2, HourEndIs
  <2>2. /\ t < next /\ next <= end /\ (\A s \in t + 1 .. end - 1 : s % Hour = 0 => next <= s)
        /\ (next < end => next % Hour = 0)
    BY <1>2, <2>1, HourEndIs
  <2>3. Starts(t, end) = {t} \cup Starts(next, end)
    BY <1>2, <2>2 DEF Starts
  <2>4. PiecesOf(t, end) = {<<t, next - t>>} \cup PiecesOf(next, end)
    BY <2>1, <2>3 DEF PiecesOf
  <2>. QED  BY <1>2, <2>1, <2>4
<1>. QED  BY <1>1, <1>2

\* There is a function that cuts spans as SpanPieces does.
LEMMA CutsExist == ASSUME NEW end \in Int PROVE \E f : Cuts(f, end)
<1>. DEFINE f == [t \in Int |-> PiecesOf(t, end)]
<1>1. \A t \in Int : f[t] = PiecesOf(t, end)
  OBVIOUS
<1>2. \A t \in Int : t < end => HourEnd(t, end) \in Int
  BY HourEndIs
<1>3. \A t \in Int :
        f[t] = IF t >= end THEN {} ELSE {<<t, HourEnd(t, end) - t>>} \cup f[HourEnd(t, end)]
  <2>. SUFFICES ASSUME NEW t \in Int
                PROVE  f[t] = IF t >= end THEN {}
                              ELSE {<<t, HourEnd(t, end) - t>>} \cup f[HourEnd(t, end)]
    OBVIOUS
  <2>. HIDE DEF f
  <2>1. CASE t >= end
    BY <1>1, <2>1, PiecesCut
  <2>2. CASE ~(t >= end)
    <3>1. PICK next \in Int : next = HourEnd(t, end)
      BY <1>2, <2>2
    <3>2. f[t] = PiecesOf(t, end) /\ f[next] = PiecesOf(next, end)
      BY <1>1
    <3>3. PiecesOf(t, end) = {<<t, HourEnd(t, end) - t>>} \cup PiecesOf(HourEnd(t, end), end)
      BY <2>2, PiecesCut
    <3>. QED  BY <2>2, <3>1, <3>2, <3>3
  <2>. QED  BY <2>1, <2>2
<1>4. f = [t \in Int |-> f[t]]
  OBVIOUS
<1>5. Cuts(f, end)
  <2>. HIDE DEF f
  <2>. QED  BY <1>3, <1>4 DEF Cuts
<1>. HIDE DEF f
<1>. QED  BY <1>5

\* It cuts them at the ends of the hours.
LEMMA CutsAre ==
  ASSUME NEW end \in Int, NEW f, Cuts(f, end)
  PROVE  \A t \in Int : f[t] = PiecesOf(t, end)
<1>1. ASSUME NEW t \in Int
      PROVE  f[t] = IF t >= end THEN {} ELSE {<<t, HourEnd(t, end) - t>>} \cup f[HourEnd(t, end)]
  BY DEF Cuts
<1>. DEFINE Wrong == {n \in Nat : \E t \in Int : n = end - t /\ f[t] # PiecesOf(t, end)}
<1>2. Wrong = {}
  <2>. SUFFICES ASSUME Wrong # {} PROVE FALSE
    OBVIOUS
  <2>1. PICK n \in Wrong : \A m \in Wrong : n <= m
    <3>1. Wrong \subseteq Nat
      OBVIOUS
    <3>. HIDE DEF Wrong
    <3>. QED  BY <3>1, NatLeast
  <2>2. PICK t \in Int : n = end - t /\ f[t] # PiecesOf(t, end)
    OBVIOUS
  <2>3. t < end
    <3>1. CASE t >= end
      BY <1>1, <2>2, <3>1, PiecesCut
    <3>. QED  BY <2>2, <3>1
  <2>4. PICK next \in Int : next = HourEnd(t, end) /\ t < next /\ next <= end
    BY <2>3, HourEndIs
  <2>5. f[next] # PiecesOf(next, end)
    <3>1. f[t] = {<<t, next - t>>} \cup f[next]
      <4>1. ~(t >= end)
        BY <2>3
      <4>2. f[t] = {<<t, HourEnd(t, end) - t>>} \cup f[HourEnd(t, end)]
        BY <1>1, <4>1
      <4>. QED  BY <2>4, <4>2
    <3>2. PiecesOf(t, end) = {<<t, next - t>>} \cup PiecesOf(next, end)
      BY <2>3, <2>4, PiecesCut
    <3>. QED  BY <2>2, <3>1, <3>2
  <2>6. end - next \in Wrong
    BY <2>4, <2>5
  <2>7. n <= end - next
    <3>. HIDE DEF Wrong
    <3>. QED  BY <2>1, <2>6
  <2>. QED  BY <2>2, <2>4, <2>7
<1>3. ASSUME NEW t \in Int PROVE f[t] = PiecesOf(t, end)
  <2>1. CASE t >= end
    BY <1>1, <2>1, PiecesCut
  <2>2. CASE t < end
    <3>1. end - t \notin Wrong /\ end - t \in Nat
      <4>. HIDE DEF Wrong
      <4>. QED  BY <1>2, <2>2
    <3>. QED  BY <3>1
  <2>. QED  BY <2>1, <2>2
<1>. QED  BY <1>3

\* So SpanPieces gives the pieces between the ends of the hours.
LEMMA SpanIsCut ==
  ASSUME NEW start \in Int, NEW end \in Int
  PROVE  SpanPieces(start, end) = PiecesOf(start, end)
<1>. DEFINE cut == CHOOSE f : Cuts(f, end)
<1>1. SpanPieces(start, end) = cut[start]
  BY DEF SpanPieces, Cuts, HourEnd
<1>2. Cuts(cut, end)
  BY CutsExist
<1>. HIDE DEF cut
<1>. QED  BY <1>1, <1>2, CutsAre

\* The start of the piece that an instant of a span is in.
StartOf(in, t) == IF Hour * (t \div Hour) > in THEN Hour * (t \div Hour) ELSE in

\* The hour of a day, by its minutes and by the hours.
LEMMA HourOfDay ==
  ASSUME NEW t \in Int
  PROVE  /\ (t % Day) \div Hour = (t \div Hour) % 24 /\ DayOfInstant(t) = (t \div Hour) \div 24
         /\ MinuteOfDay(t) \div 60 = (t % Day) \div Hour
<1>1. PICK n, k \in Nat \ {0} : n = 24 /\ k = 60
  OBVIOUS
<1>2. Day = n * Hour /\ Hour = k * Minute
  BY <1>1 DEF Day, Hour
<1>3. t \div Day = (t \div Hour) \div 24 /\ (t % Day) \div Hour = (t \div Hour) % 24
  <2>1. Hour \in Nat \ {0}
    BY UnitsAre
  <2>2. t \div (n * Hour) = (t \div Hour) \div n /\ (t % (n * Hour)) \div Hour = (t \div Hour) % n
    BY ONLY <2>1, t \in Int, n \in Nat \ {0}, DivOfDiv
  <2>. QED  BY <1>1, <1>2, <2>2, Zenon
<1>4. PICK m \in Int : m = t % Day
  <2>1. Day \in Nat \ {0}
    BY UnitsAre
  <2>. QED  BY ONLY <2>1, t \in Int, DivMod
<1>5. (t % Day) \div Hour = ((t % Day) \div Minute) \div 60
  <2>1. Minute \in Nat \ {0}
    BY UnitsAre
  <2>2. m \div (k * Minute) = (m \div Minute) \div k
    BY ONLY <2>1, m \in Int, k \in Nat \ {0}, DivOfDiv
  <2>. QED  BY <1>1, <1>2, <1>4, <2>2, Zenon
<1>. QED  BY <1>3, <1>5 DEF DayOfInstant, MinuteOfDay

\* A piece stays within one hour.
LEMMA SameHour ==
  ASSUME NEW s \in Int, NEW t \in Int, NEW end \in Int, s <= t, t < HourEnd(s, end),
         NEW day, NEW h
  PROVE  WithinHour(s, day, h) <=> WithinHour(t, day, h)
<1>1. PICK k \in Nat \ {0} : k = Hour
  BY UnitsAre
<1>2. PICK q, m \in Int : q = s \div k /\ 0 <= m /\ m < k /\ s = k * q + m
  BY DivMod
<1>3. PICK n \in Int : n = k * q
  OBVIOUS
<1>4. t < n + k
  BY <1>1, <1>2, <1>3 DEF HourEnd, AtMost
<1>5. n <= t
  BY <1>2, <1>3
<1>6. t \div k = q
  BY <1>3, <1>4, <1>5, DivIs
<1>7. s \div Hour = t \div Hour
  BY <1>1, <1>2, <1>6
<1>8. DayOfInstant(s) = DayOfInstant(t) /\ (s % Day) \div Hour = (t % Day) \div Hour
  BY <1>7, HourOfDay
<1>. QED  BY <1>8 DEF WithinHour

\* The start of an instant's hour.
LEMMA HourStart ==
  ASSUME NEW t \in Int, NEW n, n = Hour * (t \div Hour)
  PROVE  /\ n \in Int /\ n <= t /\ t < n + Hour /\ n % Hour = 0 /\ (t % Hour = 0 => n = t)
         /\ \A u \in Int : (n <= u /\ u < n + Hour => Hour * (u \div Hour) = n)
<1>1. PICK k \in Nat \ {0} : k = Hour
  BY UnitsAre
<1>2. PICK q, m \in Int : q = t \div k /\ m = t % k /\ 0 <= m /\ m < k /\ t = k * q + m
  BY DivMod
<1>3. n = k * q /\ n \in Int
  BY <1>1, <1>2
<1>4. n % k = 0
  BY <1>3, MultipleIs
<1>5. ASSUME NEW u \in Int, n <= u, u < n + k PROVE k * (u \div k) = n
  <2>1. u \div k = q
    BY <1>3, <1>5, DivIs
  <2>. QED  BY <1>3, <2>1
<1>. QED  BY <1>1, <1>2, <1>3, <1>4, <1>5

\* An instant of a span is in the piece that starts where its hour does, or the span.
LEMMA PieceOfInstant ==
  ASSUME NEW in \in Int, NEW end \in Int, NEW t \in Int, in <= t, t < end
  PROVE  StartOf(in, t) \in Starts(in, end)
<1>1. PICK n \in Int : n = Hour * (t \div Hour) /\ n <= t /\ n % Hour = 0
  BY HourStart
<1>. QED  BY <1>1 DEF StartOf, Starts

\* A piece has the instants that are in it.
LEMMA InstantsOfPiece ==
  ASSUME NEW in \in Int, NEW end \in Int, NEW s \in Starts(in, end), NEW t \in Int
  PROVE  (s <= t /\ t < HourEnd(s, end)) <=> (in <= t /\ t < end /\ StartOf(in, t) = s)
<1>1. s \in Int /\ in <= s /\ s < end /\ (s = in \/ s % Hour = 0)
  BY DEF Starts
<1>2. PICK k \in Nat \ {0} : k = Hour
  BY UnitsAre
<1>3. PICK n \in Int : /\ n = Hour * (s \div Hour) /\ n <= s /\ s < n + k /\ n % Hour = 0
                       /\ (s % Hour = 0 => n = s)
                       /\ \A u \in Int : (n <= u /\ u < n + k => Hour * (u \div Hour) = n)
  BY <1>1, <1>2, HourStart
<1>4. PICK p \in Int : /\ p = Hour * (t \div Hour) /\ p <= t /\ t < p + k
                       /\ \A u \in Int : (p <= u /\ u < p + k => Hour * (u \div Hour) = p)
  BY <1>2, HourStart
<1>5. HourEnd(s, end) = (IF n + k < end THEN n + k ELSE end)
  BY <1>2, <1>3 DEF HourEnd, AtMost
<1>6. StartOf(in, t) = (IF p > in THEN p ELSE in)
  BY <1>4 DEF StartOf
<1>7. ASSUME s <= t, t < HourEnd(s, end)
      PROVE  in <= t /\ t < end /\ StartOf(in, t) = s
  <2>1. t < n + k /\ t < end
    BY <1>1, <1>5, <1>7
  <2>2. p = n
    BY <1>1, <1>3, <1>4, <1>7, <2>1
  <2>. QED  BY <1>1, <1>3, <1>6, <1>7, <2>1, <2>2
<1>8. ASSUME in <= t, t < end, StartOf(in, t) = s
      PROVE  s <= t /\ t < HourEnd(s, end)
  <2>1. s <= t /\ p <= s
    BY <1>1, <1>4, <1>6, <1>8
  <2>2. s < p + k
    BY <1>1, <1>4, <2>1
  <2>3. p = n
    BY <1>1, <1>3, <1>4, <2>1, <2>2
  <2>. QED  BY <1>4, <1>5, <1>8, <2>1, <2>3
<1>. QED  BY <1>7, <1>8

\* Pairs with one first part are as many as their second parts.
LEMMA Tagged ==
  ASSUME NEW S, IsFiniteSet(S), NEW e
  PROVE  LET T == {<<e, t>> : t \in S} IN IsFiniteSet(T) /\ Cardinality(T) = Cardinality(S)
<1>. DEFINE T == {<<e, t>> : t \in S}
            f == [t \in S |-> <<e, t>>]
<1>1. f \in Surjection(S, T)
  BY DEF Surjection
<1>2. f \in Injection(S, T)
  BY DEF Injection, IsInjective
<1>. HIDE DEF f, T
<1>3. IsFiniteSet(T) /\ Cardinality(T) = Cardinality(S)
  BY <1>1, <1>2, FS_Surjection
<1>. QED  BY <1>3 DEF T

\* The ticks of the shifts of a slice in an hour of the week, and the pieces in it.
TicksOn(e, at, day, h) == {<<e, t>> : t \in TicksAt(e, at, day, h)}
AllTicks(slice, at, day, h) == UNION {TicksOn(e, at, day, h) : e \in slice}
PieceIn(e, s, at) == <<e, <<s, HourEnd(s, StopOf(e, at)) - s>>>>
PiecesAt(slice, at, day, h) ==
  UNION {{PieceIn(e, s, at) : s \in {u \in Starts(e.in, StopOf(e, at)) : WithinHour(u, day, h)}} :
         e \in slice}

\* A slice of shifts at instants.
ShiftsKnown(slice, at) ==
  IsFiniteSet(slice) /\ at \in Int /\ \A e \in slice : e.in \in Int /\ e.out \in Int

\* The ticks on site are finitely many.
LEMMA TicksFinite ==
  ASSUME NEW slice, NEW at, ShiftsKnown(slice, at), NEW day, NEW h
  PROVE  /\ \A e \in slice : /\ IsFiniteSet(TicksAt(e, at, day, h))
                             /\ IsFiniteSet(TicksOn(e, at, day, h))
                             /\ Cardinality(TicksOn(e, at, day, h))
                                  = Cardinality(TicksAt(e, at, day, h))
         /\ IsFiniteSet(AllTicks(slice, at, day, h))
<1>1. ASSUME NEW e \in slice
      PROVE  /\ IsFiniteSet(TicksAt(e, at, day, h)) /\ IsFiniteSet(TicksOn(e, at, day, h))
             /\ Cardinality(TicksOn(e, at, day, h)) = Cardinality(TicksAt(e, at, day, h))
  <2>1. PICK first, last \in Int : first = e.in /\ last = StopOf(e, at) - 1
    BY DEF ShiftsKnown, StopOf
  <2>2. IsFiniteSet(first .. last)
    BY FS_Interval
  <2>3. TicksAt(e, at, day, h) \subseteq first .. last
    BY <2>1 DEF TicksAt
  <2>4. IsFiniteSet(TicksAt(e, at, day, h))
    BY <2>2, <2>3, FS_Subset
  <2>. QED  BY <2>4, Tagged DEF TicksOn
<1>2. PICK all : all = {TicksOn(e, at, day, h) : e \in slice}
  OBVIOUS
<1>3. IsFiniteSet(all)
  <2>. DEFINE f == [e \in slice |-> TicksOn(e, at, day, h)]
  <2>1. f \in Surjection(slice, all)
    BY <1>2 DEF Surjection
  <2>. HIDE DEF f
  <2>. QED  BY <2>1, FS_Surjection DEF ShiftsKnown
<1>4. \A T \in all : IsFiniteSet(T)
  BY <1>1, <1>2
<1>5. IsFiniteSet(UNION all)
  BY <1>3, <1>4, FS_UNION
<1>. QED  BY <1>1, <1>2, <1>5 DEF AllTicks

\* The heat map has a cell's pieces.
LEMMA HeatmapIs ==
  ASSUME NEW slice, NEW at, ShiftsKnown(slice, at), NEW day \in WeekDays, NEW h \in 0..23
  PROVE  Heatmap(slice, at)[day][h] = Total([x \in PiecesAt(slice, at, day, h) |-> x[2][2]])
<1>. DEFINE pieces == UNION {{<<e, p>> : p \in SpanPieces(e.in, StopOf(e, at))} : e \in slice}
            cell == {x \in pieces : /\ DayOfInstant(x[2][1]) % 7 = day
                                    /\ MinuteOfDay(x[2][1]) \div 60 = h}
<1>1. Heatmap(slice, at)[day][h] = SumOver(LAMBDA x : x[2][2], cell)
  BY DEF Heatmap, StopOf
<1>2. SumOver(LAMBDA x : x[2][2], cell) = Total([x \in cell |-> x[2][2]])
  <2>. HIDE DEF cell
  <2>. QED  BY FunctionSumIsTotal DEF SumOver
<1>3. ASSUME NEW e \in slice
      PROVE  {<<e, p>> : p \in SpanPieces(e.in, StopOf(e, at))}
               = {PieceIn(e, s, at) : s \in Starts(e.in, StopOf(e, at))}
  <2>1. e.in \in Int /\ StopOf(e, at) \in Int
    BY DEF ShiftsKnown, StopOf
  <2>2. SpanPieces(e.in, StopOf(e, at)) = PiecesOf(e.in, StopOf(e, at))
    BY <2>1, SpanIsCut
  <2>. QED  BY <2>2 DEF PiecesOf, PieceIn
<1>4. pieces = UNION {{PieceIn(e, s, at) : s \in Starts(e.in, StopOf(e, at))} : e \in slice}
  BY <1>3
<1>5. ASSUME NEW e, NEW s \in Int
      PROVE  LET x == PieceIn(e, s, at)
             IN x[2][1] = s /\ (WithinHour(s, day, h) <=>
                  DayOfInstant(x[2][1]) % 7 = day /\ MinuteOfDay(x[2][1]) \div 60 = h)
  <2>1. PieceIn(e, s, at)[2][1] = s
    BY DEF PieceIn
  <2>2. WithinHour(s, day, h) <=> DayOfInstant(s) % 7 = day /\ MinuteOfDay(s) \div 60 = h
    BY HourOfDay DEF WithinHour
  <2>. QED  BY <2>1, <2>2
<1>7. \A e \in slice : \A s \in Starts(e.in, StopOf(e, at)) : s \in Int
  BY DEF ShiftsKnown, StopOf, Starts
<1>6. cell = PiecesAt(slice, at, day, h)
  <2>1. ASSUME NEW x \in cell PROVE x \in PiecesAt(slice, at, day, h)
    <3>1. PICK e \in slice : \E s \in Starts(e.in, StopOf(e, at)) : x = PieceIn(e, s, at)
      BY <1>4
    <3>2. PICK s \in Starts(e.in, StopOf(e, at)) : x = PieceIn(e, s, at)
      BY <3>1
    <3>3. WithinHour(s, day, h)
      BY <1>5, <1>7, <3>2
    <3>. QED  BY <3>2, <3>3 DEF PiecesAt
  <2>2. ASSUME NEW x \in PiecesAt(slice, at, day, h) PROVE x \in cell
    <3>1. PICK e \in slice : \E s \in Starts(e.in, StopOf(e, at)) :
                               x = PieceIn(e, s, at) /\ WithinHour(s, day, h)
      BY DEF PiecesAt
    <3>2. PICK s \in Starts(e.in, StopOf(e, at)) : x = PieceIn(e, s, at) /\ WithinHour(s, day, h)
      BY <3>1
    <3>3. x \in pieces
      BY <1>4, <3>2
    <3>4. DayOfInstant(x[2][1]) % 7 = day /\ MinuteOfDay(x[2][1]) \div 60 = h
      BY <1>5, <1>7, <3>2
    <3>. HIDE DEF pieces
    <3>. QED  BY <3>3, <3>4
  <2>. HIDE DEF cell
  <2>. QED  BY <2>1, <2>2
<1>. HIDE DEF cell
<1>. QED  BY <1>1, <1>2, <1>6

\* The time on site in an hour of the week, by its ticks and by its pieces.
LEMMA TimeByTicks ==
  ASSUME NEW slice, NEW at, ShiftsKnown(slice, at), NEW day, NEW h
  PROVE  Cardinality(AllTicks(slice, at, day, h))
           = Total([e \in slice |-> Cardinality(TicksAt(e, at, day, h))])
<1>1. PICK M : M = AllTicks(slice, at, day, h)
  OBVIOUS
<1>2. PICK ones, key : ones = Ones(M) /\ key = [m \in M |-> m[1]]
  OBVIOUS
<1>3. \A m \in M : m[1] \in slice
  BY <1>1 DEF AllTicks, TicksOn
<1>4. ones \in [M -> Int] /\ key \in [M -> slice] /\ IsFiniteSet(M) /\ IsFiniteSet(slice)
  BY <1>1, <1>2, <1>3, TicksFinite DEF Ones, ShiftsKnown
<1>5. ASSUME NEW e \in slice
      PROVE  Total(Portion(ones, InGroup(key, M, e))) = Cardinality(TicksAt(e, at, day, h))
  <2>1. InGroup(key, M, e) = TicksOn(e, at, day, h)
    <3>1. \A m \in M : m[1] = e => m \in TicksOn(e, at, day, h)
      BY <1>1 DEF AllTicks, TicksOn
    <3>2. \A m \in TicksOn(e, at, day, h) : m \in M /\ m[1] = e
      BY <1>1 DEF AllTicks, TicksOn
    <3>. QED  BY <1>2, <3>1, <3>2 DEF InGroup
  <2>2. PICK g : g = TicksOn(e, at, day, h)
    OBVIOUS
  <2>3. g \subseteq M /\ IsFiniteSet(g) /\ Cardinality(g) = Cardinality(TicksAt(e, at, day, h))
    BY <1>1, <2>2, TicksFinite DEF AllTicks
  <2>4. Portion(ones, g) = Ones(g)
    BY <1>2, <2>3 DEF Portion, Ones
  <2>. QED  BY <2>1, <2>2, <2>3, <2>4, TotalOfOnes
<1>6. ByGroup(ones, key, M, slice) = [e \in slice |-> Cardinality(TicksAt(e, at, day, h))]
  BY <1>5 DEF ByGroup
<1>7. Total(ones) = Total(ByGroup(ones, key, M, slice))
  BY <1>4, TotalByGroups
<1>8. Total(ones) = Cardinality(M)
  BY <1>2, <1>4, TotalOfOnes
<1>. QED  BY <1>1, <1>6, <1>7, <1>8

\* The same time is that of the pieces in the hour.
LEMMA TimeByPieces ==
  ASSUME NEW slice, NEW at, ShiftsKnown(slice, at), NEW day, NEW h
  PROVE  Cardinality(AllTicks(slice, at, day, h))
           = Total([x \in PiecesAt(slice, at, day, h) |-> x[2][2]])
<1>1. PICK M : M = AllTicks(slice, at, day, h)
  OBVIOUS
<1>2. PICK P : P = PiecesAt(slice, at, day, h)
  OBVIOUS
<1>3. PICK ones, key : /\ ones = Ones(M)
                       /\ key = [m \in M |-> PieceIn(m[1], StartOf(m[1].in, m[2]), at)]
  OBVIOUS
<1>4. ASSUME NEW e \in slice
      PROVE  e.in \in Int /\ StopOf(e, at) \in Int
  BY DEF ShiftsKnown, StopOf
<1>5. /\ \A m : m \in M <=> \E e \in slice : \E t \in TicksAt(e, at, day, h) : m = <<e, t>>
      /\ \A e, t : t \in TicksAt(e, at, day, h) <=>
           t \in e.in .. StopOf(e, at) - 1 /\ WithinHour(t, day, h)
      /\ \A x : x \in P <=> \E e \in slice : \E s \in Starts(e.in, StopOf(e, at)) :
                              WithinHour(s, day, h) /\ x = PieceIn(e, s, at)
  BY <1>1, <1>2 DEF AllTicks, TicksOn, PiecesAt, TicksAt
<1>6. ASSUME NEW e \in slice, NEW s \in Starts(e.in, StopOf(e, at)), WithinHour(s, day, h)
      PROVE  /\ s \in Int /\ HourEnd(s, StopOf(e, at)) \in Int /\ s < HourEnd(s, StopOf(e, at))
             /\ \A t \in Int : (s <= t /\ t < HourEnd(s, StopOf(e, at))) <=>
                  (t \in TicksAt(e, at, day, h) /\ StartOf(e.in, t) = s)
  <2>1. PICK in, end \in Int : in = e.in /\ end = StopOf(e, at)
    BY <1>4
  <2>2. s \in Int /\ s < end
    BY <1>6, <2>1 DEF Starts
  <2>3. HourEnd(s, end) \in Int /\ s < HourEnd(s, end)
    BY <2>1, <2>2, HourEndIs
  <2>4. ASSUME NEW t \in Int
        PROVE  (s <= t /\ t < HourEnd(s, end)) <=>
                  (t \in TicksAt(e, at, day, h) /\ StartOf(in, t) = s)
    <3>1. (s <= t /\ t < HourEnd(s, end)) <=> (in <= t /\ t < end /\ StartOf(in, t) = s)
      BY <1>6, <2>1, InstantsOfPiece
    <3>2. s <= t /\ t < HourEnd(s, end) => WithinHour(t, day, h)
      BY <1>6, <2>1, <2>2, SameHour
    <3>3. t \in TicksAt(e, at, day, h) <=> in <= t /\ t < end /\ WithinHour(t, day, h)
      BY <2>1, <1>5
    <3>. QED  BY <3>1, <3>2, <3>3
  <2>. QED  BY <2>1, <2>2, <2>3, <2>4
<1>7. ASSUME NEW e \in slice, NEW t \in TicksAt(e, at, day, h)
      PROVE  /\ t \in Int /\ StartOf(e.in, t) \in Starts(e.in, StopOf(e, at))
             /\ WithinHour(StartOf(e.in, t), day, h)
  <2>1. PICK in, end \in Int : in = e.in /\ end = StopOf(e, at)
    BY <1>4
  <2>2. t \in Int /\ in <= t /\ t < end /\ WithinHour(t, day, h)
    BY <1>5, <2>1
  <2>3. PICK s : s = StartOf(in, t)
    OBVIOUS
  <2>4. s \in Starts(in, end) /\ s \in Int
    BY <2>2, <2>3, PieceOfInstant DEF Starts
  <2>5. s <= t /\ t < HourEnd(s, end)
    BY <2>2, <2>3, <2>4, InstantsOfPiece
  <2>6. WithinHour(s, day, h)
    BY <2>1, <2>2, <2>4, <2>5, SameHour
  <2>. QED  BY <2>1, <2>2, <2>3, <2>4, <2>6
<1>8. \A e, t : <<e, t>> \in M => key[<<e, t>>] = PieceIn(e, StartOf(e.in, t), at)
  BY <1>3
<1>9. \A m \in M : key[m] \in P
  BY <1>5, <1>7, <1>8
<1>10. key \in Surjection(M, P)
  <2>1. ASSUME NEW x \in P PROVE \E m \in M : key[m] = x
    <3>1. PICK e \in slice : \E s \in Starts(e.in, StopOf(e, at)) :
                               WithinHour(s, day, h) /\ x = PieceIn(e, s, at)
      BY <1>5
    <3>2. PICK s \in Starts(e.in, StopOf(e, at)) : WithinHour(s, day, h) /\ x = PieceIn(e, s, at)
      BY <3>1
    <3>3. s \in TicksAt(e, at, day, h) /\ StartOf(e.in, s) = s
      BY <1>6, <3>2
    <3>4. <<e, s>> \in M
      BY <1>5, <3>3
    <3>5. key[<<e, s>>] = x
      BY <1>8, <3>2, <3>3, <3>4
    <3>. QED  BY <3>4, <3>5
  <2>2. key \in [M -> P]
    BY <1>3, <1>9
  <2>. QED  BY <2>1, <2>2 DEF Surjection
<1>11. IsFiniteSet(M) /\ IsFiniteSet(P) /\ key \in [M -> P] /\ ones \in [M -> Int]
  <2>1. IsFiniteSet(M)
    BY <1>1, TicksFinite
  <2>. QED  BY <1>3, <1>9, <1>10, <2>1, FS_Surjection DEF Ones
<1>12. ASSUME NEW x \in P PROVE Total(Portion(ones, InGroup(key, M, x))) = x[2][2]
  <2>1. PICK e \in slice : \E s \in Starts(e.in, StopOf(e, at)) :
                             WithinHour(s, day, h) /\ x = PieceIn(e, s, at)
    BY <1>5
  <2>2. PICK s \in Starts(e.in, StopOf(e, at)) : WithinHour(s, day, h) /\ x = PieceIn(e, s, at)
    BY <2>1
  <2>3. PICK next \in Int : next = HourEnd(s, StopOf(e, at)) /\ s < next /\ s \in Int
    BY <1>6, <2>2
  <2>4. PICK span : span = s .. next - 1
    OBVIOUS
  <2>5. IsFiniteSet(span) /\ Cardinality(span) = next - s
    <3>1. next - 1 \in Int /\ ~(s > next - 1) /\ next - 1 - s + 1 = next - s
      BY <2>3
    <3>. QED  BY <2>3, <2>4, <3>1, FS_Interval
  <2>6. PICK g : g = {<<e, t>> : t \in span}
    OBVIOUS
  <2>7. IsFiniteSet(g) /\ Cardinality(g) = next - s
    BY <2>5, <2>6, Tagged
  <2>8. \A t : t \in span <=> t \in TicksAt(e, at, day, h) /\ StartOf(e.in, t) = s
    <3>1. \A t : t \in span <=> t \in Int /\ s <= t /\ t < next
      BY <2>3, <2>4
    <3>2. \A t \in TicksAt(e, at, day, h) : t \in Int
      BY <1>7
    <3>. QED  BY <1>6, <2>2, <2>3, <3>1, <3>2
  <2>9. InGroup(key, M, x) = g
    <3>1. ASSUME NEW m \in g PROVE m \in M /\ key[m] = x
      <4>1. PICK t \in span : m = <<e, t>>
        BY <2>6
      <4>. QED  BY <1>5, <1>8, <2>2, <2>8, <4>1
    <3>2. ASSUME NEW m \in M, key[m] = x PROVE m \in g
      <4>1. PICK f \in slice : \E t \in TicksAt(f, at, day, h) : m = <<f, t>>
        BY <1>5
      <4>2. PICK t \in TicksAt(f, at, day, h) : m = <<f, t>>
        BY <4>1
      <4>3. PieceIn(f, StartOf(f.in, t), at) = PieceIn(e, s, at)
        BY <1>8, <2>2, <3>2, <4>2
      <4>4. f = e /\ StartOf(f.in, t) = s
        BY <4>3 DEF PieceIn
      <4>. QED  BY <2>6, <2>8, <4>2, <4>4
    <3>. QED  BY <3>1, <3>2 DEF InGroup
  <2>10. Portion(ones, g) = Ones(g)
    <3>1. g \subseteq M
      BY <2>9 DEF InGroup
    <3>. QED  BY <1>3, <3>1 DEF Portion, Ones
  <2>11. x[2][2] = next - s
    BY <2>2, <2>3 DEF PieceIn
  <2>. QED  BY <2>7, <2>9, <2>10, <2>11, TotalOfOnes
<1>13. ByGroup(ones, key, M, P) = [x \in P |-> x[2][2]]
  BY <1>12 DEF ByGroup
<1>14. Total(ones) = Total(ByGroup(ones, key, M, P))
  BY <1>11, TotalByGroups
<1>15. Total(ones) = Cardinality(M)
  BY <1>3, <1>11, TotalOfOnes
<1>. QED  BY <1>1, <1>2, <1>13, <1>14, <1>15

\* The time on site in an hour of the week, shift by shift.
TimeIn(slice, at, day, h) == [e \in slice |-> Cardinality(TicksAt(e, at, day, h))]

\* So the heat map has the time on site.
LEMMA HeatIsTime ==
  ASSUME NEW slice, NEW at, ShiftsKnown(slice, at), NEW day \in WeekDays, NEW h \in 0..23
  PROVE  Heatmap(slice, at)[day][h] = SumFunction(TimeIn(slice, at, day, h))
<1>1. Cardinality(AllTicks(slice, at, day, h)) = Total(TimeIn(slice, at, day, h))
  BY TimeByTicks DEF TimeIn
<1>2. Cardinality(AllTicks(slice, at, day, h))
        = Total([x \in PiecesAt(slice, at, day, h) |-> x[2][2]])
  BY TimeByPieces
<1>3. Heatmap(slice, at)[day][h] = Total([x \in PiecesAt(slice, at, day, h) |-> x[2][2]])
  BY HeatmapIs
<1>. QED  BY <1>1, <1>2, <1>3, FunctionSumIsTotal

\* The dashboard's slice is a finite set of shifts of the fortnight.
LEMMA SliceKnown ==
  ASSUME NEW entries, EntriesToPay(entries), NEW rates, NEW at \in Int,
         NEW slice, slice = InsightsSlice(entries, 0, 14 * Day, rates, at)
  PROVE  /\ ShiftsKnown(slice, at)
         /\ \A e \in slice : e.worked \in Int /\ DayOfInstant(e.in) \in 0..13
<1>1. PICK inside : inside = {f \in entries : 0 <= f.in /\ f.in < 14 * Day}
  OBVIOUS
<1>2. PICK show : show = [e \in inside |-> SliceEntry(e, rates[e.who], at)]
  OBVIOUS
<1>3. slice = {SliceEntry(e, rates[e.who], at) : e \in inside}
  BY <1>1 DEF InsightsSlice
<1>4. show \in Surjection(inside, slice)
  BY <1>2, <1>3 DEF Surjection
<1>5. IsFiniteSet(slice)
  BY <1>1, <1>4, FS_Subset, FS_Surjection DEF EntriesToPay
<1>6. ASSUME NEW x \in slice
      PROVE  x.in \in Int /\ x.out \in Int /\ x.worked \in Int /\ DayOfInstant(x.in) \in 0..13
  <2>1. PICK e \in inside : x = SliceEntry(e, rates[e.who], at)
    BY <1>3
  <2>2. e.in \in Int /\ e.out \in Int /\ 0 <= e.in /\ e.in < 14 * Day
    BY <1>1 DEF EntriesToPay
  <2>3. PICK end \in Int : end = IF e.out = Open THEN at ELSE e.out
    BY <2>2
  <2>4. x.in = e.in /\ x.out = e.out /\ x.worked = WorkedBetween(e.in, end, e.breaks)
    BY <2>1, <2>3 DEF SliceEntry
  <2>5. UnpaidBreakMinutes(e.breaks, end) \in Int
    BY <1>1, UnpaidNumber DEF EntriesToPay
  <2>6. WorkedBetween(e.in, end, e.breaks) \in Int
    <3>1. RoundMinutes(end - e.in) \in Int
      BY <2>2, MinutesAre
    <3>. QED  BY <2>5, <3>1 DEF WorkedBetween, AtLeast0
  <2>7. DayOfInstant(e.in) \in 0..13
    <3>1. PICK k \in Nat \ {0}, t \in Int : k = Day /\ t = e.in /\ 0 <= t /\ t < 14 * k
      BY <2>2, UnitsAre
    <3>2. PICK d, m \in Int : d = t \div k /\ 0 <= m /\ m < k /\ t = k * d + m
      BY DivMod
    <3>3. d >= 14 => k * 14 <= k * d
      BY TimesInOrder
    <3>4. d <= -1 => k * d <= k * (-1)
      BY TimesInOrder
    <3>5. k * 14 = 14 * k /\ k * (-1) = -k /\ k * d \in Int
      OBVIOUS
    <3>6. 0 <= d /\ d < 14
      BY <3>1, <3>2, <3>3, <3>4, <3>5
    <3>7. DayOfInstant(e.in) = d
      BY <3>1, <3>2, Zenon DEF DayOfInstant
    <3>. QED  BY <3>2, <3>6, <3>7
  <2>. QED  BY <2>2, <2>4, <2>6, <2>7
<1>. QED  BY <1>5, <1>6 DEF ShiftsKnown

\* The dashboard's tiles, table, calendar and heat map agree.
LEMMA DashboardDoesAgree ==
  ASSUME EntriesToPay(sheet.entries), sheet.at \in Int
  PROVE  DashboardAgrees
<1>. DEFINE slice == InsightsSlice(sheet.entries, 0, 14 * Day, sheet.rates, sheet.at)
            total == DashboardTotals(WorkerStats(slice, sheet.starts))
            daily == DailyMinutes(slice, 0..13)
<1>1. /\ ShiftsKnown(slice, sheet.at)
      /\ \A e \in slice : e.worked \in Int /\ DayOfInstant(e.in) \in 0..13
  BY SliceKnown
<1>. HIDE DEF slice
<1>2. total.minutes = ByDay(daily) /\ total.shifts = Cardinality(slice)
  <2>1. IsFiniteSet(slice)
    BY <1>1 DEF ShiftsKnown
  <2>. QED  BY <1>1, <2>1, TilesAddUp
<1>3. ASSUME NEW day \in WeekDays, NEW h \in 0..23
      PROVE  Heatmap(slice, sheet.at)[day][h] = OnSite(slice, sheet.at, day, h)
  <2>1. Heatmap(slice, sheet.at)[day][h] = SumFunction(TimeIn(slice, sheet.at, day, h))
    BY <1>1, HeatIsTime
  <2>. QED  BY <2>1 DEF TimeIn, OnSite, SumOver
<1>. USE DEF slice
<1>. QED  BY <1>2, <1>3 DEF DashboardAgrees

-----------------------------------------------------------------------------
(* The holiday calendar *)

\* The days from 1 March of a year, and those of its months, as numbers.
MarchFirst(y) == 365 * y + y \div 4 - y \div 100 + y \div 400

\* 1 March is a number of days.
LEMMA MarchFirstIs ==
  ASSUME NEW y \in Int
  PROVE  MarchFirst(y) \in Int
BY DEF MarchFirst

\* From one 1 March to the next is a year.
LEMMA YearLength ==
  ASSUME NEW y \in Int
  PROVE  MarchFirst(y) - MarchFirst(y - 1) \in {365, 366}
<1>1. PICK q, r \in Int : q = y \div 400 /\ r = y % 400
  OBVIOUS
<1>2. y = 400 * q + r /\ 0 <= r /\ r < 400
  BY <1>1
<1>. QED  BY <1>2 DEF MarchFirst

\* The days of a month by its first.
LEMMA DatesOfYear ==
  ASSUME NEW y \in Int, NEW d \in Int
  PROVE  /\ Date(y, 1, d) = MarchFirst(y - 1) + 306 + d - 1
         /\ Date(y, 2, d) = MarchFirst(y - 1) + 337 + d - 1
         /\ Date(y, 3, d) = MarchFirst(y) + d - 1
         /\ Date(y, 4, d) = MarchFirst(y) + 31 + d - 1
         /\ Date(y, 6, d) = MarchFirst(y) + 92 + d - 1
         /\ Date(y, 7, d) = MarchFirst(y) + 122 + d - 1
         /\ Date(y, 10, d) = MarchFirst(y) + 214 + d - 1
         /\ Date(y, 12, d) = MarchFirst(y) + 275 + d - 1
BY DEF MarchFirst, Date

\* The parts of the computus.
Golden(y) == y % 19
Epact(a) == (19 * a + 24) % 30
Days(y, h) == (32 + 2 * ((y \div 100) % 4) + 2 * ((y % 100) \div 4) - h - ((y % 100) % 4)) % 7
Correction(a, h, l) == (a + 11 * h + 22 * l) \div 451

MonthAndDay(a, h, l) == h + l - 7 * Correction(a, h, l) + 114

\* The correction of the computus is one or none.
LEMMA LateIs ==
  ASSUME NEW a \in 0..18, NEW h \in 0..29, NEW l \in 0..6
  PROVE  Correction(a, h, l) \in {0, 1}
<1>1. PICK x \in Int : x = a + 11 * h + 22 * l /\ 0 <= x /\ x < 902
  OBVIOUS
<1>. QED  BY <1>1 DEF Correction

\* Its month and day are of March or April.
LEMMA MonthAndDayIs ==
  ASSUME NEW a \in 0..18, NEW h \in 0..29, NEW l \in 0..6
  PROVE  MonthAndDay(a, h, l) \in 93..154
<1>1. PICK x \in Int : x = a + 11 * h + 22 * l /\ 0 <= x /\ x < 902
  OBVIOUS
<1>2. PICK m \in Int : m = Correction(a, h, l) /\ m \in {0, 1}
  BY <1>1 DEF Correction
<1>3. PICK n : n = MonthAndDay(a, h, l)
  OBVIOUS
<1>4. m = 0 \/ m = 1
  BY <1>2
<1>5. n = h + l - 7 * m + 114
  BY <1>2, <1>3 DEF MonthAndDay
<1>. QED  BY <1>3, <1>4, <1>5

\* The date the computus gives.
LEMMA EasterIs ==
  ASSUME NEW y \in TabledYears, NEW a, a = Golden(y), NEW h, h = Epact(a), NEW l, l = Days(y, h)
  PROVE  /\ a \in 0..18 /\ h \in 0..29 /\ l \in 0..6
         /\ EasterSunday(y) = MarchFirst(y) + h + l - 7 * Correction(a, h, l) + 21
<1>1. a \in 0..18 /\ h \in 0..29
  BY DEF Golden, Epact, TabledYears
<1>2. l \in 0..6
  <2>1. PICK x \in Int : x = 32 + 2 * ((y \div 100) % 4) + 2 * ((y % 100) \div 4)
                               - h - ((y % 100) % 4)
    BY <1>1 DEF TabledYears
  <2>. QED  BY <2>1 DEF Days
<1>3. PICK b : b = y \div 100 /\ b \in {19, 20, 21}
  BY DEF TabledYears
<1>4. (19 * a + b - b \div 4 - (b - (b + 8) \div 25 + 1) \div 3 + 15) % 30 = h
  <2>1. b - b \div 4 - (b - (b + 8) \div 25 + 1) \div 3 + 15 = 24
    <3>1. CASE b = 19
      BY <3>1
    <3>2. CASE b = 20
      BY <3>2
    <3>3. CASE b = 21
      BY <3>3
    <3>. QED  BY <1>3, <3>1, <3>2, <3>3
  <2>2. PICK g, p, r \in Int : /\ g = (b - (b + 8) \div 25 + 1) \div 3 /\ p = b \div 4
                              /\ r = 19 * a
    BY <1>1, <1>3
  <2>3. b - p - g + 15 = 24 /\ b \in Int
    BY <1>3, <2>1, <2>2
  <2>4. r + b - p - g + 15 = r + 24
    BY <2>2, <2>3
  <2>. QED  BY <2>2, <2>4 DEF Epact
<1>5. PICK m : m = Correction(a, h, l)
  OBVIOUS
<1>6. PICK n : n = MonthAndDay(a, h, l)
  OBVIOUS
<1>7. /\ m \in {0, 1} /\ n \in Int /\ n \div 31 \in {3, 4} /\ n % 31 \in Int
      /\ n % 31 = n - 31 * (n \div 31) /\ n = h + l - 7 * m + 114
  <2>1. m \in {0, 1}
    BY ONLY <1>1, <1>2, <1>5, LateIs
  <2>2. n \in 93..154
    <3>1. MonthAndDay(a, h, l) \in 93..154
      BY ONLY <1>1, <1>2, MonthAndDayIs
    <3>. QED  BY ONLY <1>6, <3>1
  <2>3. n = h + l - 7 * m + 114
    BY ONLY <1>5, <1>6 DEF MonthAndDay
  <2>4. n \div 31 \in {3, 4} /\ n % 31 \in Int /\ n % 31 = n - 31 * (n \div 31)
    BY ONLY <2>2
  <2>. QED  BY ONLY <2>1, <2>2, <2>3, <2>4
<1>8. EasterSunday(y) = Date(y, n \div 31, (n % 31) + 1)
  BY <1>3, <1>4, <1>5, <1>7 DEF EasterSunday, Golden, Days, Correction
<1>9. PICK k, d \in Int : k = n \div 31 /\ d = (n % 31) + 1 /\ k \in {3, 4} /\ d = n - 31 * k + 1
  BY <1>7
<1>10. PICK first \in Int : first = MarchFirst(y)
  BY MarchFirstIs DEF TabledYears
<1>11. Date(y, 3, d) = first + d - 1 /\ Date(y, 4, d) = first + 31 + d - 1
  <2>1. y \in Int /\ d \in Int
    BY <1>9 DEF TabledYears
  <2>2. Date(y, 3, d) = first + d - 1
    BY ONLY <2>1, <1>10, DatesOfYear
  <2>3. Date(y, 4, d) = first + 31 + d - 1
    BY ONLY <2>1, <1>10, DatesOfYear
  <2>. QED  BY ONLY <2>2, <2>3
<1>12. Date(y, k, d) = first + n - 93
  BY <1>7, <1>9, <1>11
<1>13. first + n - 93 = first + h + l - 7 * m + 21
  <2>1. h \in Int /\ l \in Int /\ m \in Int
    BY <1>1, <1>2, <1>7
  <2>. QED  BY <1>7, <2>1
<1>. QED  BY <1>1, <1>2, <1>5, <1>8, <1>9, <1>10, <1>12, <1>13

\* The full moon of the table, and Easter after it.
LEMMA MoonIs ==
  ASSUME NEW a \in 0..18, NEW h, h = Epact(a), NEW l \in 0..6
  PROVE  /\ FullMoon[a + 1] \in 22..49
         /\ h + l - 7 * Correction(a, h, l) + 22 - FullMoon[a + 1] \in 1..7
<1>. DEFINE Follows(k) == /\ FullMoon[k + 1] \in 22..49
                          /\ Epact(k) + l - 7 * Correction(k, Epact(k), l) + 22 - FullMoon[k + 1] \in 1..7
<1>1. Follows(0) /\ Follows(1) /\ Follows(2) /\ Follows(3) /\ Follows(4)
  BY DEF Correction, Epact, FullMoon
<1>2. Follows(5) /\ Follows(6) /\ Follows(7) /\ Follows(8) /\ Follows(9)
  BY DEF Correction, Epact, FullMoon
<1>3. Follows(10) /\ Follows(11) /\ Follows(12) /\ Follows(13) /\ Follows(14)
  BY DEF Correction, Epact, FullMoon
<1>4. Follows(15) /\ Follows(16) /\ Follows(17) /\ Follows(18)
  BY DEF Correction, Epact, FullMoon
<1>5. a \in {0, 1, 2, 3, 4, 5, 6, 7, 8, 9, 10, 11, 12, 13, 14, 15, 16, 17, 18}
  OBVIOUS
<1>6. Follows(a)
  <2>. HIDE DEF Follows
  <2>. QED  BY <1>1, <1>2, <1>3, <1>4, <1>5
<1>. QED  BY <1>6

\* Easter falls on a Sunday.
LEMMA EasterOnSunday ==
  ASSUME NEW y \in TabledYears, NEW h \in 0..29, NEW l, l = Days(y, h)
  PROVE  (MarchFirst(y) + h + l + 24) % 7 = 0
<1>1. PICK b, c \in Int : b = y \div 100 /\ c = y % 100
  BY DEF TabledYears
<1>2. b \in {19, 20, 21} /\ y = 100 * b + c /\ 0 <= c /\ c < 100
  BY <1>1 DEF TabledYears
<1>3. PICK q, r \in Int : q = c \div 4 /\ r = c % 4
  OBVIOUS
<1>4. c = 4 * q + r /\ 0 <= r /\ r < 4
  BY <1>3
<1>5. PICK v \in Int : v = (IF b = 19 THEN 4 ELSE 5)
  OBVIOUS
<1>6. MarchFirst(y) = 36524 * b + 1461 * q + 365 * r + v
  <2>1. y \div 4 = 25 * b + q
    BY <1>2, <1>4
  <2>2. y \div 400 = v
    BY <1>2, <1>5
  <2>. QED  BY <1>1, <1>2, <1>4, <2>1, <2>2 DEF MarchFirst
<1>7. PICK f \in Int : f = 32 + 2 * (b % 4) + 2 * q - h - r
  BY <1>2
<1>8. l = f % 7
  BY <1>1, <1>3, <1>7 DEF Days
<1>9. PICK g \in Int : g = f \div 7
  BY <1>7
<1>10. f = 7 * g + l /\ l \in Int
  BY <1>7, <1>8, <1>9
<1>11. PICK w, k \in Int : w = 2 * (b % 4) /\ 36524 * b + v + 56 + w = 7 * k
  <2>1. CASE b = 19
    <3>1. 36524 * b + v + 56 + 2 * (b % 4) = 7 * 99146
      BY <2>1, <1>5
    <3>. QED  BY <1>2, <3>1
  <2>2. CASE b = 20
    <3>1. 36524 * b + v + 56 + 2 * (b % 4) = 7 * 104363
      BY <2>2, <1>5
    <3>. QED  BY <1>2, <3>1
  <2>3. CASE b = 21
    <3>1. 36524 * b + v + 56 + 2 * (b % 4) = 7 * 109581
      BY <2>3, <1>5
    <3>. QED  BY <1>2, <3>1
  <2>. QED  BY <1>2, <2>1, <2>2, <2>3
<1>12. PICK x \in Int : x = k + 209 * q + 52 * r - g
  OBVIOUS
<1>13. MarchFirst(y) + h + l + 24 = 7 * x
  <2>1. l = 32 + w + 2 * q - h - r - 7 * g /\ h \in Int
    BY <1>7, <1>10, <1>11
  <2>. QED  BY ONLY <1>6, <1>11, <1>12, <2>1
<1>14. (7 * x) % 7 = 0
  OBVIOUS
<1>. QED  BY <1>13, <1>14

\* So Easter is the Sunday after the table's full moon.
LEMMA EasterAsTabled ==
  ASSUME NEW y \in TabledYears
  PROVE  /\ EasterSunday(y) = EasterOfTable(y) /\ Dow(EasterSunday(y)) = Sunday
         /\ EasterSunday(y) \in Int /\ EasterSunday(y) - MarchFirst(y) \in 21..55
<1>1. PICK a, h : a = Golden(y) /\ h = Epact(a)
  OBVIOUS
<1>2. PICK l : l = Days(y, h)
  OBVIOUS
<1>3. PICK first \in Int : first = MarchFirst(y)
  BY MarchFirstIs DEF TabledYears
<1>4. PICK m : m = Correction(a, h, l)
  OBVIOUS
<1>5. a \in 0..18 /\ h \in 0..29 /\ l \in 0..6
  BY <1>1, <1>2, EasterIs
<1>6. EasterSunday(y) = first + h + l - 7 * m + 21
  BY <1>1, <1>2, <1>3, <1>4, EasterIs
<1>7. m \in {0, 1}
  BY <1>4, <1>5, LateIs
<1>8. PICK easter \in Int : easter = EasterSunday(y) /\ easter = first + h + l - 7 * m + 21
  BY <1>5, <1>6, <1>7
<1>9. Dow(easter) = Sunday
  <2>1. (first + h + l + 24) % 7 = 0
    BY <1>2, <1>3, <1>5, EasterOnSunday
  <2>2. PICK x \in Int : x = first + h + l + 24
    BY <1>5
  <2>3. easter + 3 = x - 7 * m /\ (m = 0 \/ m = 1)
    BY <1>5, <1>7, <1>8, <2>2
  <2>4. PICK g \in Int : g = x \div 7
    OBVIOUS
  <2>5. PICK z \in Int : easter + 3 = 7 * z
    <3>1. x = 7 * g
      BY <2>1, <2>2, <2>4
    <3>2. CASE m = 0
      <4>1. easter + 3 = 7 * g
        BY <2>3, <3>1, <3>2
      <4>. QED  BY <4>1
    <3>3. CASE m = 1
      <4>1. easter + 3 = 7 * (g - 1) /\ g - 1 \in Int
        BY <2>3, <3>1, <3>3
      <4>. QED  BY <4>1
    <3>. QED  BY <2>3, <3>2, <3>3
  <2>6. (7 * z) % 7 = 0
    OBVIOUS
  <2>. QED  BY <2>5, <2>6 DEF Dow, Sunday
<1>10. PICK full \in 22..49 : full = FullMoon[a + 1] /\ h + l - 7 * m + 22 - full \in 1..7
  BY <1>1, <1>4, <1>5, MoonIs
<1>11. PICK moon \in Int : moon = Date(y, 3, full) /\ moon = first + full - 1
  <2>1. y \in Int /\ full \in Int
    BY <1>10 DEF TabledYears
  <2>2. Date(y, 3, full) = first + full - 1
    BY ONLY <1>3, <2>1, DatesOfYear
  <2>. QED  BY <2>2
<1>12. easter \in moon + 1 .. moon + 7
  BY <1>5, <1>7, <1>8, <1>10, <1>11
<1>13. ASSUME NEW d \in moon + 1 .. moon + 7, Dow(d) = Sunday PROVE d = easter
  BY <1>9, <1>12, <1>13 DEF Dow, Sunday
<1>14. EasterOfTable(y) = easter
  BY <1>1, <1>9, <1>10, <1>11, <1>12, <1>13 DEF EasterOfTable, Golden
<1>15. easter - first \in 21..55
  BY <1>10, <1>11, <1>12
<1>. QED  BY <1>3, <1>8, <1>9, <1>14, <1>15

Workday(d) == Dow(d) \notin {Saturday, Sunday}

\* A moved holiday lands on a working day within two days, or three for the second of a pair.
LEMMA MovedIs ==
  ASSUME NEW d \in Int
  PROVE  /\ Mondayise(d, 0) \in Int /\ Workday(Mondayise(d, 0))
         /\ Mondayise(d, 0) - d \in 0..2
<1>1. PICK w \in 0..6 : w = (d + 3) % 7
  OBVIOUS
<1>. QED  BY <1>1 DEF Mondayise, Workday, Dow, Saturday, Sunday

Second(d) == Mondayise(d + 1, IF Dow(d) \in {Saturday, Sunday} THEN 1 ELSE 0)

\* The second of a pair lands after the first, unless that is a Sunday.
LEMMA SecondIs ==
  ASSUME NEW d \in Int
  PROVE  /\ Second(d) \in Int /\ Workday(Second(d)) /\ Second(d) - (d + 1) \in 0..3
         /\ Dow(d) # Sunday => Mondayise(d, 0) < Second(d)
<1>1. PICK w \in 0..6 : w = (d + 3) % 7
  OBVIOUS
<1>2. PICK v \in 0..6 : v = (d + 1 + 3) % 7 /\ v = (IF w = 6 THEN 0 ELSE w + 1)
  BY <1>1
<1>3. PICK b \in {0, 1} : b = (IF w \in {6, 0} THEN 1 ELSE 0)
  OBVIOUS
<1>4. PICK x \in Int : /\ x = Second(d)
                       /\ x = (IF v = 6 THEN d + 3 + b ELSE IF v = 0 THEN d + 2 + b ELSE d + 1)
  BY <1>1, <1>2, <1>3 DEF Second, Mondayise, Dow, Saturday, Sunday
<1>5. PICK z \in Int : /\ z = Mondayise(d, 0)
                       /\ z = (IF w = 6 THEN d + 2 ELSE IF w = 0 THEN d + 1 ELSE d)
  BY <1>1 DEF Mondayise, Dow, Saturday, Sunday
<1>6. x - (d + 1) \in 0..3 /\ (w # 0 => z < x)
  BY <1>2, <1>3, <1>4, <1>5
<1>7. (x + 3) % 7 \notin {6, 0}
  BY <1>1, <1>2, <1>3, <1>4
<1>. QED  BY <1>1, <1>4, <1>5, <1>6, <1>7 DEF Workday, Dow, Saturday, Sunday

\* The Monday nearest a date.
LEMMA ClosestMondayIs ==
  ASSUME NEW d \in Int
  PROVE  ClosestMonday(d) \in Int /\ Workday(ClosestMonday(d)) /\ ClosestMonday(d) - d \in -3..3
<1>1. PICK w \in 0..6 : w = (d + 3) % 7
  OBVIOUS
<1>. QED  BY <1>1 DEF ClosestMonday, Workday, Dow, Saturday, Sunday, Monday

\* The nth Monday of a month.
LEMMA NthMondayIs ==
  ASSUME NEW y, NEW m, NEW n \in Int, NEW d \in Int, Date(y, m, 1) = d
  PROVE  /\ NthWeekday(y, m, Monday, n) \in Int /\ Workday(NthWeekday(y, m, Monday, n))
         /\ NthWeekday(y, m, Monday, n) - (d + 7 * (n - 1)) \in 0..6
<1>1. PICK w \in 0..6 : w = (d + 3) % 7
  OBVIOUS
<1>2. PICK g \in Int : d + 3 = 7 * g + w
  <2>1. d + 3 = 7 * ((d + 3) \div 7) + w
    BY <1>1
  <2>. QED  BY <2>1
<1>3. PICK x \in Int : x = NthWeekday(y, m, Monday, n) /\ x = d + ((1 - w) % 7) + 7 * (n - 1)
  BY <1>1 DEF NthWeekday, Dow, Monday
<1>4. (x + 3) % 7 = 1
  BY <1>1, <1>2, <1>3
<1>. QED  BY <1>1, <1>3, <1>4 DEF Workday, Dow, Saturday, Sunday

\* The years whose Matariki is set by law.
LEMMA MatarikiIs ==
  ASSUME NEW y \in DOMAIN Matariki
  PROVE  /\ Matariki[y] \in Int /\ Workday(Matariki[y])
         /\ Matariki[y] - MarchFirst(y) \in 111..135
<1>. DEFINE Set(z, d) == d \in Int /\ Workday(d) /\ d - MarchFirst(z) \in 111..135
<1>1. /\ Set(2024, Date(2024, 6, 28)) /\ Set(2025, Date(2025, 6, 20))
      /\ Set(2026, Date(2026, 7, 10)) /\ Set(2027, Date(2027, 6, 25)) /\ Set(2028, Date(2028, 7, 14)) /\ Set(2029, Date(2029, 7, 6))
      /\ Set(2030, Date(2030, 6, 21)) /\ Set(2031, Date(2031, 7, 11))
  BY DEF Date, Workday, Dow, Saturday, Sunday, MarchFirst
<1>2. y \in {2024, 2025, 2026, 2027, 2028, 2029, 2030, 2031}
  BY DEF Matariki
<1>. HIDE DEF Set
<1>3. Set(y, Matariki[y])
  BY <1>1, <1>2 DEF Matariki
<1>. USE DEF Set
<1>. QED  BY <1>3

Numbered(S, n) == IsFiniteSet(S) /\ Cardinality(S) = n

\* A set with one more.
LEMMA OneMore ==
  ASSUME NEW S, NEW n \in Int, Numbered(S, n), NEW d, d \notin S
  PROVE  Numbered(S \cup {d}, n + 1)
BY FS_AddElement DEF Numbered

\* Dates in order are as many as they are.
LEMMA DatesInOrder ==
  ASSUME NEW d1 \in Int, NEW d2 \in Int, NEW d3 \in Int, NEW d4 \in Int, NEW d5 \in Int,
         NEW d6 \in Int, NEW d7 \in Int, NEW d8 \in Int, NEW d9 \in Int, NEW d10 \in Int,
         NEW d11 \in Int, d1 < d2, d2 < d3, d3 < d4, d4 < d5, d5 < d6, d6 < d7, d7 < d8,
         d8 < d9, d9 < d10, d10 < d11
  PROVE  Numbered({d1, d2, d3, d4, d5, d6, d7, d8, d9, d10, d11}, 11)
<1>1. Numbered({}, 0)
  BY FS_EmptySet DEF Numbered
<1>2. Numbered({d1}, 1)
  <2>1. Numbered({} \cup {d1}, 0 + 1)
    BY <1>1, OneMore
  <2>. QED  BY <2>1
<1>3. Numbered({d1, d2}, 2)
  <2>1. d2 \notin {d1} /\ {d1} \cup {d2} = {d1, d2} /\ 1 + 1 = 2
    OBVIOUS
  <2>. QED  BY <1>2, <2>1, OneMore
<1>4. Numbered({d1, d2, d3}, 3)
  <2>1. d3 \notin {d1, d2} /\ {d1, d2} \cup {d3} = {d1, d2, d3} /\ 2 + 1 = 3
    OBVIOUS
  <2>. QED  BY <1>3, <2>1, OneMore
<1>5. Numbered({d1, d2, d3, d4}, 4)
  <2>1. d4 \notin {d1, d2, d3} /\ {d1, d2, d3} \cup {d4} = {d1, d2, d3, d4} /\ 3 + 1 = 4
    OBVIOUS
  <2>. QED  BY <1>4, <2>1, OneMore
<1>6. Numbered({d1, d2, d3, d4, d5}, 5)
  <2>1. /\ d5 \notin {d1, d2, d3, d4} /\ {d1, d2, d3, d4} \cup {d5} = {d1, d2, d3, d4, d5}
        /\ 4 + 1 = 5
    OBVIOUS
  <2>. QED  BY <1>5, <2>1, OneMore
<1>7. Numbered({d1, d2, d3, d4, d5, d6}, 6)
  <2>1. /\ d6 \notin {d1, d2, d3, d4, d5}
        /\ {d1, d2, d3, d4, d5} \cup {d6} = {d1, d2, d3, d4, d5, d6} /\ 5 + 1 = 6
    OBVIOUS
  <2>. QED  BY <1>6, <2>1, OneMore
<1>8. Numbered({d1, d2, d3, d4, d5, d6, d7}, 7)
  <2>1. /\ d7 \notin {d1, d2, d3, d4, d5, d6}
        /\ {d1, d2, d3, d4, d5, d6} \cup {d7} = {d1, d2, d3, d4, d5, d6, d7} /\ 6 + 1 = 7
    OBVIOUS
  <2>. QED  BY <1>7, <2>1, OneMore
<1>9. Numbered({d1, d2, d3, d4, d5, d6, d7, d8}, 8)
  <2>1. /\ d8 \notin {d1, d2, d3, d4, d5, d6, d7}
        /\ {d1, d2, d3, d4, d5, d6, d7} \cup {d8} = {d1, d2, d3, d4, d5, d6, d7, d8} /\ 7 + 1 = 8
    OBVIOUS
  <2>. QED  BY <1>8, <2>1, OneMore
<1>10. Numbered({d1, d2, d3, d4, d5, d6, d7, d8, d9}, 9)
  <2>1. /\ d9 \notin {d1, d2, d3, d4, d5, d6, d7, d8} /\ 8 + 1 = 9
        /\ {d1, d2, d3, d4, d5, d6, d7, d8} \cup {d9} = {d1, d2, d3, d4, d5, d6, d7, d8, d9}
    OBVIOUS
  <2>. QED  BY <1>9, <2>1, OneMore
<1>11. Numbered({d1, d2, d3, d4, d5, d6, d7, d8, d9, d10}, 10)
  <2>1. /\ d10 \notin {d1, d2, d3, d4, d5, d6, d7, d8, d9} /\ 9 + 1 = 10
        /\ {d1, d2, d3, d4, d5, d6, d7, d8, d9} \cup {d10}
             = {d1, d2, d3, d4, d5, d6, d7, d8, d9, d10}
    OBVIOUS
  <2>. QED  BY <1>10, <2>1, OneMore
<1>12. /\ d11 \notin {d1, d2, d3, d4, d5, d6, d7, d8, d9, d10} /\ 10 + 1 = 11
       /\ {d1, d2, d3, d4, d5, d6, d7, d8, d9, d10} \cup {d11}
            = {d1, d2, d3, d4, d5, d6, d7, d8, d9, d10, d11}
  OBVIOUS
<1>. QED  BY <1>11, <1>12, OneMore

\* The year's dates in their order.
LEMMA YearIs ==
  ASSUME NEW y \in TabledYears, NEW j, j = MarchFirst(y - 1), NEW f, f = MarchFirst(y),
         NEW easter, easter = EasterSunday(y)
  PROVE  /\ j \in Int /\ f \in Int /\ f - j \in {365, 366}
         /\ Date(y, 1, 1) = j + 306 /\ Date(y, 1, 29) = j + 334 /\ Date(y, 2, 6) = j + 342
         /\ Date(y, 4, 24) = f + 54 /\ Date(y, 4, 25) = f + 55
         /\ Date(y, 6, 1) = f + 92 /\ Date(y, 10, 1) = f + 214 /\ Date(y, 12, 25) = f + 299
         /\ easter \in Int /\ easter - f \in 21..55
         /\ Workday(easter - 2) /\ Workday(easter + 1)
<1>1. y \in Int /\ y - 1 \in Int
  BY DEF TabledYears
<1>2. j \in Int /\ f \in Int
  BY <1>1, MarchFirstIs
<1>3. f - j \in {365, 366}
  BY <1>1, YearLength
<1>4. 1 \in Int /\ 29 \in Int /\ 6 \in Int /\ 24 \in Int /\ 25 \in Int
  OBVIOUS
<1>5. Date(y, 1, 1) = j + 306 + 1 - 1 /\ Date(y, 1, 29) = j + 306 + 29 - 1
  BY <1>1, <1>4, DatesOfYear
<1>6. Date(y, 2, 6) = j + 337 + 6 - 1
  BY <1>1, <1>4, DatesOfYear
<1>7. Date(y, 4, 24) = f + 31 + 24 - 1 /\ Date(y, 4, 25) = f + 31 + 25 - 1
  BY <1>1, <1>4, DatesOfYear
<1>8. Date(y, 6, 1) = f + 92 + 1 - 1 /\ Date(y, 10, 1) = f + 214 + 1 - 1
  BY <1>1, <1>4, DatesOfYear
<1>9. Date(y, 12, 25) = f + 275 + 25 - 1
  BY <1>1, <1>4, DatesOfYear
<1>10. easter - f \in 21..55 /\ Dow(easter) = Sunday
  BY EasterAsTabled
<1>11. easter \in Int
  BY EasterAsTabled
<1>12. Workday(easter - 2) /\ Workday(easter + 1)
  BY <1>10, <1>11 DEF Workday, Dow, Sunday, Saturday
<1>. QED  BY <1>2, <1>3, <1>5, <1>6, <1>7, <1>8, <1>9, <1>10, <1>11, <1>12

On(date, actual) == [date |-> date, actual |-> actual]

\* A year's holidays keep to what they are for.
LEMMA CalendarDoesFit ==
  ASSUME NEW y \in TabledYears
  PROVE  CalendarRight(y)
<1>1. PICK j, f, easter : j = MarchFirst(y - 1) /\ f = MarchFirst(y) /\ easter = EasterSunday(y)
  OBVIOUS
<1>2. /\ j \in Int /\ f \in Int /\ f - j \in {365, 366}
      /\ Date(y, 1, 1) = j + 306 /\ Date(y, 1, 29) = j + 334 /\ Date(y, 2, 6) = j + 342
      /\ Date(y, 4, 24) = f + 54 /\ Date(y, 4, 25) = f + 55
      /\ Date(y, 6, 1) = f + 92 /\ Date(y, 10, 1) = f + 214 /\ Date(y, 12, 25) = f + 299
      /\ easter \in Int /\ easter - f \in 21..55
      /\ Workday(easter - 2) /\ Workday(easter + 1)
  BY <1>1, YearIs
<1>3. PICK d1, d2, d3, d4, d7, d8, d9, d10, d11 \in Int :
        /\ d1 = Mondayise(j + 306, 0) /\ d2 = Second(j + 306)
        /\ d3 = ClosestMonday(j + 334) /\ d4 = Mondayise(j + 342, 0)
        /\ d7 = Mondayise(f + 55, 0) /\ d8 = NthWeekday(y, 6, Monday, 1)
        /\ d9 = NthWeekday(y, 10, Monday, 4)
        /\ d10 = Mondayise(f + 299, 0) /\ d11 = Second(f + 299)
  <2>1. j + 306 \in Int /\ j + 334 \in Int /\ j + 342 \in Int /\ f + 55 \in Int /\ f + 299 \in Int
        /\ f + 92 \in Int /\ f + 214 \in Int /\ 1 \in Int /\ 4 \in Int
    BY <1>2
  <2>2. /\ Mondayise(j + 306, 0) \in Int /\ Mondayise(j + 342, 0) \in Int
        /\ Mondayise(f + 55, 0) \in Int /\ Mondayise(f + 299, 0) \in Int
    BY <2>1, MovedIs
  <2>3. Second(j + 306) \in Int /\ Second(f + 299) \in Int
    BY <2>1, SecondIs
  <2>4. ClosestMonday(j + 334) \in Int
    BY <2>1, ClosestMondayIs
  <2>5. NthWeekday(y, 6, Monday, 1) \in Int /\ NthWeekday(y, 10, Monday, 4) \in Int
    BY <1>2, <2>1, NthMondayIs
  <2>. QED  BY <2>2, <2>3, <2>4, <2>5
<1>4. /\ Workday(d1) /\ d1 - (j + 306) \in 0..2
      /\ Workday(d2) /\ d2 - (j + 307) \in 0..3
      /\ Workday(d3) /\ d3 - (j + 334) \in -3..3
      /\ Workday(d4) /\ d4 - (j + 342) \in 0..2
  BY <1>2, <1>3, MovedIs, SecondIs, ClosestMondayIs
<1>5. /\ Workday(d7) /\ d7 - (f + 55) \in 0..2
      /\ Workday(d10) /\ d10 - (f + 299) \in 0..2
      /\ Workday(d11) /\ d11 - (f + 300) \in 0..3
  BY <1>2, <1>3, MovedIs, SecondIs
<1>6. Workday(d8) /\ d8 - (f + 92) \in 0..6
  <2>1. f + 92 \in Int /\ 1 \in Int /\ f + 92 + 7 * (1 - 1) = f + 92
    BY <1>2
  <2>. QED  BY <1>2, <1>3, <2>1, NthMondayIs
<1>7. Workday(d9) /\ d9 - (f + 235) \in 0..6
  <2>1. f + 214 \in Int /\ 4 \in Int /\ f + 214 + 7 * (4 - 1) = f + 235
    BY <1>2
  <2>. QED  BY <1>2, <1>3, <2>1, NthMondayIs
<1>8. PICK set : set = {Matariki[z] : z \in DOMAIN Matariki \cap {y}}
  OBVIOUS
<1>9. /\ \A d \in set : d \in Int /\ Workday(d) /\ d - f \in 111..135
      /\ y \in DOMAIN Matariki => set = {Matariki[y]}
      /\ y \notin DOMAIN Matariki => set = {}
  BY <1>1, <1>8, MatarikiIs
<1>10. NzPublicHolidays(y)
         = {On(d1, j + 306), On(d2, j + 306 + 1), On(d10, f + 299), On(d11, f + 299 + 1)}
             \cup {On(d4, j + 342), On(d7, f + 55)}
             \cup {On(d, d) : d \in {d3, easter - 2, easter + 1, d8, d9} \cup set}
  <2>1. \A d : Pair(d) = {On(Mondayise(d, 0), d), On(Second(d), d + 1)}
    BY DEF Pair, Second, On
  <2>2. NzPublicHolidays(y)
          = Pair(Date(y, 1, 1)) \cup Pair(Date(y, 12, 25))
              \cup {On(Mondayise(Date(y, 2, 6), 0), Date(y, 2, 6)),
                    On(Mondayise(Date(y, 4, 25), 0), Date(y, 4, 25))}
              \cup {On(d, d) : d \in {ClosestMonday(Date(y, 1, 29)), easter - 2, easter + 1,
                                     NthWeekday(y, 6, Monday, 1), NthWeekday(y, 10, Monday, 4)}}
              \cup {On(Matariki[z], Matariki[z]) : z \in DOMAIN Matariki \cap {y}}
    BY <1>1 DEF NzPublicHolidays, On
  <2>3. {On(Matariki[z], Matariki[z]) : z \in DOMAIN Matariki \cap {y}} = {On(d, d) : d \in set}
    BY <1>8
  <2>4. NzPublicHolidays(y)
          = {On(d1, j + 306), On(d2, j + 306 + 1)} \cup {On(d10, f + 299), On(d11, f + 299 + 1)}
              \cup {On(d4, j + 342), On(d7, f + 55)}
              \cup {On(d, d) : d \in {d3, easter - 2, easter + 1, d8, d9}}
              \cup {On(d, d) : d \in set}
    BY <1>2, <1>3, <2>1, <2>2, <2>3
  <2>5. {On(d, d) : d \in {d3, easter - 2, easter + 1, d8, d9}} \cup {On(d, d) : d \in set}
          = {On(d, d) : d \in {d3, easter - 2, easter + 1, d8, d9} \cup set}
    OBVIOUS
  <2>. QED  BY <2>4, <2>5
<1>11. ASSUME NEW h \in NzPublicHolidays(y)
       PROVE  Workday(h.date) /\ h.date - h.actual \in 0..3
  <2>1. /\ d1 - (j + 306) \in 0..3 /\ d2 - (j + 306 + 1) \in 0..3 /\ d4 - (j + 342) \in 0..3
        /\ d7 - (f + 55) \in 0..3 /\ d10 - (f + 299) \in 0..3 /\ d11 - (f + 299 + 1) \in 0..3
    BY <1>2, <1>4, <1>5
  <2>2. ASSUME NEW d \in {d3, easter - 2, easter + 1, d8, d9} \cup set
        PROVE  Workday(d) /\ d - d \in 0..3
    BY <1>2, <1>4, <1>6, <1>7, <1>9
  <2>3. /\ Workday(d1) /\ Workday(d2) /\ Workday(d4) /\ Workday(d7) /\ Workday(d10)
        /\ Workday(d11)
    BY <1>4, <1>5
  <2>. QED  BY <1>10, <2>1, <2>2, <2>3 DEF On
<1>12. PICK some : some = {d1, d2, d3, d4, easter - 2, easter + 1, d7, d8, d9, d10, d11}
  OBVIOUS
<1>13. PublicHolidays(y, "NZ", <<>>) = some \cup set
  <2>1. PublicHolidays(y, "NZ", <<>>) = {h.date : h \in NzPublicHolidays(y)}
    BY DEF PublicHolidays
  <2>2. ASSUME NEW h \in NzPublicHolidays(y) PROVE h.date \in some \cup set
    BY <1>10, <1>12 DEF On
  <2>3. \A d, actual : On(d, actual).date = d
    BY DEF On
  <2>4. ASSUME NEW d \in some \cup set PROVE \E h \in NzPublicHolidays(y) : h.date = d
    <3>1. CASE d \in {d3, easter - 2, easter + 1, d8, d9} \cup set
      <4>1. On(d, d) \in NzPublicHolidays(y)
        BY <1>10, <3>1
      <4>. QED  BY <2>3, <4>1
    <3>2. CASE d \in {d1, d2, d10, d11, d4, d7}
      <4>1. \E actual : On(d, actual) \in NzPublicHolidays(y)
        BY <1>10, <3>2
      <4>. QED  BY <2>3, <4>1
    <3>. QED  BY <1>12, <2>4, <3>1, <3>2
  <2>. QED  BY <2>1, <2>2, <2>4
<1>14. ASSUME Dow(j + 306) # Sunday, Dow(f + 299) # Sunday, easter \notin {f + 54, f + 55}
       PROVE  Cardinality(some \cup set) = (IF y \in DOMAIN Matariki THEN 12 ELSE 11)
  <2>1. d1 < d2 /\ d10 < d11
    BY <1>2, <1>3, <1>14, SecondIs
  <2>2. d2 < d3 /\ d3 < d4
    BY <1>2, <1>4
  <2>3. d4 < easter - 2 /\ easter - 2 < easter + 1
    BY <1>2, <1>4
  <2>4. easter + 1 < d7 /\ d7 < d8 /\ d8 < d9 /\ d9 < d10
    BY <1>2, <1>5, <1>6, <1>7, <1>14
  <2>5. Numbered(some, 11)
    <3>1. easter - 2 \in Int /\ easter + 1 \in Int
      BY <1>2
    <3>. QED  BY <1>12, <2>1, <2>2, <2>3, <2>4, <3>1, DatesInOrder
  <2>6. CASE y \in DOMAIN Matariki
    <3>1. PICK d \in Int : d = Matariki[y] /\ set = {d} /\ d - f \in 111..135
      BY <1>9, <2>6
    <3>2. d8 < d /\ d < d9
      BY <1>2, <1>6, <1>7, <3>1
    <3>3. d \notin some
      BY <1>2, <1>12, <2>1, <2>2, <2>3, <2>4, <3>2
    <3>4. Numbered(some \cup {d}, 12)
      <4>1. 11 \in Int /\ 11 + 1 = 12
        OBVIOUS
      <4>. QED  BY <2>5, <3>3, <4>1, OneMore
    <3>. QED  BY <2>6, <3>1, <3>4 DEF Numbered
  <2>7. CASE y \notin DOMAIN Matariki
    BY <1>9, <2>5, <2>7 DEF Numbered
  <2>. QED  BY <2>6, <2>7
<1>15. EasterSunday(y) = EasterOfTable(y)
  BY EasterAsTabled
<1>16. \A h \in NzPublicHolidays(y) :
         Dow(h.date) \notin {Saturday, Sunday} /\ h.date - h.actual \in 0..3
  BY <1>11 DEF Workday
<1>. QED  BY <1>1, <1>2, <1>13, <1>14, <1>15, <1>16 DEF CalendarRight

\* Each kind of question keeps to its rules.
LEMMA RulesAreExact ==
  ASSUME sheet \in Questions \cup {NoQuestion}
  PROVE  PayRulesExact
<1>1. ASSUME sheet.kind # "none" PROVE sheet \in Questions
  BY <1>1 DEF NoQuestion
<1>2. ASSUME Asked("rounding") PROVE RoundingFair
  BY <1>1, <1>2, QuestionsAssumption, RoundingIsFair DEF Asked
<1>3. ASSUME Asked("overtime") PROVE OvertimeExact
  BY <1>1, <1>3, QuestionsAssumption, OvertimeIsExact DEF Asked, OvertimeRules
<1>4. ASSUME Asked("breaks") PROVE EntitlementsGrow
  BY <1>1, <1>4, QuestionsAssumption, EntitlementsDoGrow DEF Asked, BreaksTaken
<1>5. ASSUME Asked("roster") PROVE VerdictsLast
  BY <1>1, <1>5, QuestionsAssumption, VerdictsDoLast DEF Asked
<1>6. ASSUME Asked("timesheet") PROVE TimesheetAddsUp
  BY <1>1, <1>6, QuestionsAssumption, TimesheetDoesAddUp DEF Asked
<1>7. ASSUME Asked("dashboard") PROVE DashboardAgrees
  BY <1>1, <1>7, QuestionsAssumption, DashboardDoesAgree DEF Asked
<1>8. ASSUME Asked("calendar") PROVE CalendarRight(sheet.year)
  BY <1>1, <1>8, QuestionsAssumption, CalendarDoesFit DEF Asked
<1>. QED  BY <1>2, <1>3, <1>4, <1>5, <1>6, <1>7, <1>8 DEF PayRulesExact

-----------------------------------------------------------------------------
(* The theorems *)

\* The inductive invariant holds for any employees, shifts, bonuses, requests and amounts,
\* whether or not requests overlap, and wherever a statement fails.
THEOREM PayInvariant == Spec => []PayDeskInv
<1>1. Init => PayDeskInv
  BY PayStarts
<1>2. PayDeskInv /\ [Next]_vars => PayDeskInv'
  BY PayKeeps
<1>. QED  BY <1>1, <1>2, PTL DEF Spec

\* Marks, bonuses and their audit rows keep their types; a paid amount is a whole number.
THEOREM PayTypesKept == Spec => []PayTypeOK
<1>1. PayDeskInv => PayTypeOK
  BY InvTypes
<1>. QED  BY <1>1, PayInvariant, PTL

\* However batches overlap, what a shift was paid is in the audit log as soon as its request
\* is past it; with one batch at a time the log also tells, at its end, whether the shift
\* is paid (markPaid).
THEOREM PaidAlwaysOnRecord == Spec => []PaidOnRecord
<1>1. PayDeskInv => PaidOnRecord
  BY InvOnRecord
<1>. QED  BY <1>1, PayInvariant, PTL

\* With one request at a time a voided bonus is never paid, and the last audit row of a bonus
\* says what it is (POST /pay/bonuses, its void, and markPaid).
THEOREM VoidedStayUnpaid == Spec => []VoidNotPaid
<1>1. PayDeskInv => VoidNotPaid
  BY InvVoid
<1>. QED  BY <1>1, PayInvariant, PTL

\* With one batch at a time a shift is marked with its minutes at the rate of the moment,
\* and "later rate changes never rewrite history".
THEOREM AmountsAreKept == Spec => PaidAmountsKept
<1>1. PayDeskInv /\ [Next]_vars =>
        [~overlap => \A s \in Shifts :
           /\ paid[s] # Unpaid => paid'[s] \in {paid[s], Unpaid}
           /\ paid[s] = Unpaid /\ paid'[s] # Unpaid =>
                LET rate == people[Owner[s]].rate
                IN paid'[s] = [rate |-> rate, cents |-> Amount(shifts[s].minutes, rate)]]_vars
  BY AmountsStay
<1>. QED  BY <1>1, PayInvariant, PTL DEF Spec, PaidAmountsKept

\* The inductive invariant of leave holds for any employees, shifts, leave requests, requests,
\* hours and adjustments, whether or not requests overlap, and wherever a statement fails.
THEOREM LeaveInvariant == Spec => []LeaveDeskInv
<1>1. Init => LeaveDeskInv
  BY LeaveStarts DEF LeaveDeskInv
<1>2. LeaveDeskInv /\ [Next]_vars => LeaveDeskInv'
  BY LeaveKeeps
<1>. QED  BY <1>1, <1>2, PTL DEF Spec

\* With one request at a time a leave is decided once: if approved, one row deducts its hours,
\* and the audit log has its request and its review (POST /leave and its review).
THEOREM LeaveAlwaysSettled == Spec => []LeaveSettled
<1>1. LeaveDeskInv => LeaveSettled
  BY LeaveIsSettled
<1>. QED  BY <1>1, LeaveInvariant, PTL

\* However requests overlap: when all are done and none has failed, the amounts in the audit
\* log, each rounded as its ledger row stores it, add up to every balance (leaveBalances).
THEOREM BalanceAlwaysOnRecord == Spec => []BalanceOnRecord
<1>1. LeaveDeskInv => BalanceOnRecord
  BY BalanceIsOnRecord
<1>. QED  BY <1>1, LeaveInvariant, PTL

\* With one request at a time a shift is credited once, as soon as its owner's mark has
\* passed its end (runAccrual).
THEOREM ShiftsCreditedOnce == Spec => []CreditedOnce
<1>1. LeaveDeskInv /\ PayDeskInv => CreditedOnce
  BY CreditIsOnce
<1>. QED  BY <1>1, LeaveInvariant, PayInvariant, PTL

\* With one request at a time an approval takes a balance below zero only if something else
\* was drawn from it since the request was checked (POST /leave, POST /leave/:id/approve).
THEOREM ApprovalsWithinBalance == Spec => ApprovedWithinBalance
<1>1. LeaveDeskInv /\ [Next]_vars =>
        [~overlap => \A l \in LeaveIds :
           Deductions(l)' # Deductions(l) /\ l \notin stale => Balance(leaves[l].who)' >= 0]_vars
  BY ApprovalWithin
<1>. QED  BY <1>1, LeaveInvariant, PTL DEF Spec, ApprovedWithinBalance

\* However many visits meet: until the clocks are set or the type is changed, every row is a
\* whole number of periods from the anchor.
THEOREM PeriodsInvariant == Spec => []PeriodsInv
<1>1. Init => PeriodsInv
  BY PeriodsStart DEF Init
<1>2. PeriodsInv /\ [Next]_vars => PeriodsInv'
  BY PeriodsDesk
<1>. QED  BY <1>1, <1>2, PTL DEF Spec

\* So rows never have an instant in common, begin at midnight on the anchor's weekday, and
\* the row found for now is the one the settings make (GET /pay-periods).
THEOREM PeriodsAlwaysTile == Spec => []PeriodsTile
<1>1. PeriodsInv => PeriodsTile
  BY PeriodsDoTile
<1>. QED  BY <1>1, PeriodsInvariant, PTL

\* The rules keep to what they are for, for any question of the kinds and any number of ticks
\* in a minute: rounding to an increment of minutes neither makes nor loses time at a job
\* switch, and to the default one at most a minute; a week's overtime counts no minute twice
\* and comes off the latest hours; longer work and fewer breaks keep every flag; a verdict on
\* a shift stands; a timesheet counts every minute once, adds up when it is cut and gives a day
\* in lieu only for a day rostered or usually worked; the dashboard's tiles, table, calendar
\* and heat map agree; and each year's holidays are where they belong (roundInstant,
\* computeWeekOvertime, breakComplianceFlags, compareShift, buildTimesheet, heatmap,
\* nzPublicHolidays).
THEOREM RulesAlwaysExact == Spec => []PayRulesExact
<1>1. Init => sheet \in Questions \cup {NoQuestion}
  BY DEF Init, SheetInit
<1>2. sheet \in Questions \cup {NoQuestion} /\ [Next]_vars
        => (sheet \in Questions \cup {NoQuestion})'
  BY DEF Next, vars
<1>3. sheet \in Questions \cup {NoQuestion} => PayRulesExact
  BY RulesAreExact
<1>. QED  BY <1>1, <1>2, <1>3, PTL DEF Spec
=============================================================================
