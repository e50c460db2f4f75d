------------------------------- MODULE PayMarks -------------------------------
(***************************************************************************)
(* Marking shifts and bonuses paid or unpaid in one batch (markPaid of     *)
(* server/domain/pay/pay.ts), and granting and voiding bonuses             *)
(* (server/routes/pay.ts).                                                 *)
(*                                                                         *)
(* A batch reads all its rows, then goes through them one by one with what *)
(* it read.  The amount of a bonus never changes and is left out; ids that *)
(* name nothing end a batch before it starts and are left out too.         *)
(***************************************************************************)
EXTENDS ShiftRows, Sequences, FiniteSetsExt

CONSTANTS BonusIds    \* bound: bonuses that can be granted

ASSUME IdsAssumption == Null \notin Shifts \cup BonusIds

VARIABLES
  paid,           \* paid_at, paid_rate_cents and paid_amount_cents of each shift
  bonuses,        \* bonuses, by id
  shiftTrail,     \* audit rows of each shift's pay marks
  bonusTrail,     \* audit rows of each bonus
  batch           \* the locals of each request's handler

payVars == <<paid, bonuses, shiftTrail, bonusTrail, batch>>

Unpaid == [rate |-> Null, cents |-> Null]
NoBonus == [who |-> Null, paid |-> FALSE, voided |-> FALSE]
NoBatch == [kind |-> "none", shifts |-> {}, bonuses |-> {}, read |-> <<>>, people |-> <<>>,
            paidThen |-> <<>>, item |-> Null, cents |-> Null, who |-> Null]

For(r, kinds) == batch[r].kind \in kinds
Done(r) == Goto(r, "idle") /\ batch' = [batch EXCEPT ![r] = NoBatch]
Undisturbed == UNCHANGED <<now, rows, bounds>>

\* entryAmountCents: rounded half up.
Amount(minutes, rate) == (2 * minutes * rate + 60) \div 120

PayInit ==
  /\ paid = [s \in Shifts |-> Unpaid]
  /\ bonuses = [b \in BonusIds |-> NoBonus]
  /\ shiftTrail = [s \in Shifts |-> <<>>]
  /\ bonusTrail = [b \in BonusIds |-> <<>>]
  /\ batch = [r \in Requests |-> NoBatch]

-----------------------------------------------------------------------------
(* POST /pay/mark *)

\* The shifts of the batch with their breaks and paid marks.
ReadBatch(r) ==
  /\ At(r, "readBatch")
  /\ batch' = [batch EXCEPT ![r].read = [s \in batch[r].shifts |-> shifts[s]],
                            ![r].paidThen = [s \in batch[r].shifts |-> paid[s]]]
  /\ Goto(r, "readPeople")
  /\ Undisturbed /\ UNCHANGED <<paid, bonuses, shiftTrail, bonusTrail>>

\* Their employees.
ReadPeople(r) ==
  /\ At(r, "readPeople")
  /\ batch' = [batch EXCEPT ![r].people = [who \in {Owner[s] : s \in batch[r].shifts} |->
                                            people[who]]]
  /\ Goto(r, "markShift")
  /\ Undisturbed /\ UNCHANGED <<paid, bonuses, shiftTrail, bonusTrail>>

\* pay_tracking_off, entry_still_open, no_hourly_rate
Refused(r, s) ==
  LET emp == batch[r].people[Owner[s]] IN
  \/ ~emp.tracked
  \/ batch[r].read[s].out = Null
  \/ For(r, {"pay"}) /\ batch[r].paidThen[s] = Unpaid /\ emp.rate = Null

\* Mutation: what was read before the batch does not matter.
SkippedNever(r, s) == FALSE

\* Already in that state.
Skipped(r, s) == For(r, {"pay"}) = (batch[r].paidThen[s] # Unpaid)

\* The next shift of the batch: a refusal ends the batch where it is; else the UPDATE.
MarkShift(r) ==
  /\ At(r, "markShift")
  /\ \E s \in batch[r].shifts :
       LET rate == batch[r].people[Owner[s]].rate
           cents == Amount(batch[r].read[s].minutes, rate)
           rest == [batch EXCEPT ![r].shifts = @ \ {s}]
       IN IF Refused(r, s) THEN Done(r) /\ UNCHANGED paid
          ELSE IF Skipped(r, s) THEN batch' = rest /\ UNCHANGED <<pc, paid>>
          ELSE /\ paid' = [paid EXCEPT ![s] = IF For(r, {"pay"})
                                              THEN [rate |-> rate, cents |-> cents] ELSE Unpaid]
               /\ batch' = [rest EXCEPT ![r].item = s,
                              ![r].cents = IF For(r, {"pay"}) THEN cents
                                           ELSE batch[r].paidThen[s].cents]
               /\ Goto(r, "auditShift")
  /\ Undisturbed /\ UNCHANGED <<bonuses, shiftTrail, bonusTrail>>

\* Mutation: only a paid mark is audited.
AuditShiftPaid(r) ==
  /\ At(r, "auditShift")
  /\ IF For(r, {"pay"})
     THEN shiftTrail' = [shiftTrail EXCEPT ![batch[r].item] =
                           Append(@, [action |-> "pay", cents |-> batch[r].cents])]
     ELSE UNCHANGED shiftTrail
  /\ batch' = [batch EXCEPT ![r].item = Null, ![r].cents = Null]
  /\ Goto(r, "markShift")
  /\ Undisturbed /\ UNCHANGED <<paid, bonuses, bonusTrail>>

\* The audit row carries the amount marked, or the one unmarked.
AuditShift(r) ==
  /\ At(r, "auditShift")
  /\ shiftTrail' = [shiftTrail EXCEPT ![batch[r].item] =
                      Append(@, [action |-> batch[r].kind, cents |-> batch[r].cents])]
  /\ batch' = [batch EXCEPT ![r].item = Null, ![r].cents = Null]
  /\ Goto(r, "markShift")
  /\ Undisturbed /\ UNCHANGED <<paid, bonuses, bonusTrail>>

\* No shift is left: the bonuses of the batch are read.
ReadBonuses(r) ==
  /\ At(r, "markShift") /\ batch[r].shifts = {}
  /\ IF batch[r].bonuses = {} THEN Done(r)
     ELSE /\ batch' = [batch EXCEPT ![r].read = [b \in batch[r].bonuses |-> bonuses[b]]]
          /\ Goto(r, "markBonus")
  /\ Undisturbed /\ UNCHANGED <<paid, bonuses, shiftTrail, bonusTrail>>

\* The next bonus: bonus_voided, already in that state, or the UPDATE.
MarkBonus(r) ==
  /\ At(r, "markBonus")
  /\ \E b \in batch[r].bonuses :
       LET row == batch[r].read[b]
           rest == [batch EXCEPT ![r].bonuses = @ \ {b}]
       IN IF row.voided THEN Done(r) /\ UNCHANGED bonuses
          ELSE IF row.paid = For(r, {"pay"})
          THEN /\ UNCHANGED bonuses
               /\ IF batch[r].bonuses = {b} THEN Done(r) ELSE batch' = rest /\ UNCHANGED pc
          ELSE /\ bonuses' = [bonuses EXCEPT ![b].paid = For(r, {"pay"})]
               /\ batch' = [rest EXCEPT ![r].item = b]
               /\ Goto(r, "auditBonus")
  /\ Undisturbed /\ UNCHANGED <<paid, shiftTrail, bonusTrail>>

\* The audit row of a mark, a grant or a void.
AuditBonus(r) ==
  /\ At(r, "auditBonus")
  /\ bonusTrail' = [bonusTrail EXCEPT ![batch[r].item] = Append(@, batch[r].kind)]
  /\ IF batch[r].bonuses = {} THEN Done(r)
     ELSE Goto(r, "markBonus") /\ batch' = [batch EXCEPT ![r].item = Null]
  /\ Undisturbed /\ UNCHANGED <<paid, bonuses, shiftTrail>>

-----------------------------------------------------------------------------
(* POST /pay/bonuses, POST /pay/bonuses/:id/void *)

\* pay_tracking_off
ReadGrantee(r) ==
  /\ At(r, "readGrantee")
  /\ IF people[batch[r].who].tracked THEN Goto(r, "insertBonus") /\ UNCHANGED batch ELSE Done(r)
  /\ Undisturbed /\ UNCHANGED <<paid, bonuses, shiftTrail, bonusTrail>>

InsertBonus(r) ==
  /\ At(r, "insertBonus")
  /\ \E b \in BonusIds :
       /\ bonuses[b] = NoBonus
       /\ bonuses' = [bonuses EXCEPT ![b].who = batch[r].who]
       /\ batch' = [batch EXCEPT ![r].item = b]
  /\ Goto(r, "auditBonus")
  /\ Undisturbed /\ UNCHANGED <<paid, shiftTrail, bonusTrail>>

\* Mutation: a paid bonus can be voided.
ReadBonusPaid(r) ==
  /\ At(r, "readBonus")
  /\ IF bonuses[batch[r].item].voided THEN Done(r)
     ELSE Goto(r, "setVoided") /\ UNCHANGED batch
  /\ Undisturbed /\ UNCHANGED <<paid, bonuses, shiftTrail, bonusTrail>>

\* already_voided, bonus_paid
ReadBonus(r) ==
  /\ At(r, "readBonus")
  /\ IF bonuses[batch[r].item].voided \/ bonuses[batch[r].item].paid THEN Done(r)
     ELSE Goto(r, "setVoided") /\ UNCHANGED batch
  /\ Undisturbed /\ UNCHANGED <<paid, bonuses, shiftTrail, bonusTrail>>

\* UPDATE bonuses SET voided_at WHERE id
SetVoided(r) ==
  /\ At(r, "setVoided")
  /\ bonuses' = [bonuses EXCEPT ![batch[r].item].voided = TRUE]
  /\ Goto(r, "auditBonus")
  /\ Undisturbed /\ UNCHANGED <<paid, shiftTrail, bonusTrail, batch>>

-----------------------------------------------------------------------------
ArriveFor(r, locals, stage) == Arrive(r, stage) /\ batch' = [batch EXCEPT ![r] = locals]
Granted == {b \in BonusIds : bonuses[b] # NoBonus}

PayArrives(r) ==
  /\ \/ \E kind \in {"pay", "unpay"}, some \in SUBSET Shifts, extra \in SUBSET Granted :
          /\ some \cup extra # {}
          /\ ArriveFor(r, [NoBatch EXCEPT !.kind = kind, !.shifts = some, !.bonuses = extra],
                       IF some = {} THEN "markShift" ELSE "readBatch")
     \/ \E who \in Staff : ArriveFor(r, [NoBatch EXCEPT !.kind = "grant", !.who = who],
                                     "readGrantee")
     \/ \E b \in Granted : ArriveFor(r, [NoBatch EXCEPT !.kind = "void", !.item = b], "readBonus")
  /\ UNCHANGED <<paid, bonuses, shiftTrail, bonusTrail>>

PayFails(r) ==
  /\ FailOver(r, {batch[r].item})
  /\ batch' = [batch EXCEPT ![r] = NoBatch]
  /\ UNCHANGED <<paid, bonuses, shiftTrail, bonusTrail>>

PayStep(r) ==
  \/ ReadBatch(r) \/ ReadPeople(r) \/ MarkShift(r) \/ AuditShift(r)
  \/ ReadBonuses(r) \/ MarkBonus(r) \/ AuditBonus(r)
  \/ ReadGrantee(r) \/ InsertBonus(r)
  \/ ReadBonus(r) \/ SetVoided(r)

PayNext == \E r \in Requests : PayArrives(r) \/ PayStep(r) \/ PayFails(r)
=============================================================================
