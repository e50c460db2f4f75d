----------------------------- MODULE LeaveLedger -----------------------------
(***************************************************************************)
(* Leave: requests and their review (server/routes/leave.ts), the ledger   *)
(* whose sum is the balance, and the accrual over ended shifts             *)
(* (server/domain/leave/accrual.ts), run by cron or by a manager.          *)
(*                                                                         *)
(* One balance-tracked type stands for the four: accrual is annual leave,  *)
(* the others differ in having none.  The tables keep hours in hundredths; *)
(* what a request asks for has any number of decimals, and three stand for *)
(* them: hours in hand count in thousandths.                               *)
(***************************************************************************)
EXTENDS ShiftRows, Sequences, Bags, Functions

CONSTANTS
  LeaveIds,        \* bound: leave_requests that can be made
  LeaveHours,      \* bound: thousandths of an hour a request asks for
  Adjustments,     \* bound: thousandths of an hour of a manual adjustment
  Opening          \* hundredths each employee was granted before the behaviour starts

ASSUME LeaveAssumption ==
  /\ Null \notin LeaveIds \cup Staff
  /\ LeaveHours \subseteq Nat /\ Adjustments \subseteq Int /\ Opening \in Int
ASSUME FiniteAssumption == \A set \in {Staff, Shifts, LeaveIds, Requests} : IsFiniteSet(set)

VARIABLES
  leaves,         \* leave_requests, by id
  ledger,         \* leave_ledger, a bag of rows
  marks,          \* leave_accrual_marks, by employee
  reviews,        \* audit rows of each leave request
  audited,        \* bags of the amounts in the audit rows of each employee's credits
                  \* and adjustments, in thousandths
  late,           \* shifts that ended at or before their owner's mark of the time
  stale,          \* pending requests whose balance was drawn on since they were made
  work            \* the locals of each request's handler

tables == <<leaves, ledger, marks>>
history == <<reviews, audited, late, stale>>
leaveVars == <<tables, history, work>>

NoLeave == [who |-> Null, type |-> "unpaid", hours |-> 0, status |-> "none"]
NoWork == [kind |-> "none", leave |-> Null, row |-> NoLeave, who |-> Null, todo |-> {},
           since |-> 0, through |-> 0, picked |-> {}, delta |-> 0]

Is(r, kinds) == work[r].kind \in kinds
Respond(r) == Goto(r, "idle") /\ work' = [work EXCEPT ![r] = NoWork]
Keeping == UNCHANGED <<now, rows, bounds>>

-----------------------------------------------------------------------------
\* 4/52 of the hours worked, rounded half up to hundredths.
Accrued(minutes) == 10 * ((10 * minutes + 39) \div 78)

\* What a column of two decimals keeps of an amount: PostgreSQL rounds half away from 0.
Stored(amount) == IF amount >= 0 THEN (amount + 5) \div 10 ELSE -((5 - amount) \div 10)

\* leaveBalances
Balance(who) ==
  LET own == {row \in BagToSet(ledger) : row.who = who}
  IN SumFunction([row \in own |-> ledger[row] * row.delta])

Insert(row) ==
  /\ ledger' = ledger (+) SetToBag({row})
  /\ stale' = IF row.delta >= 0 THEN stale
              ELSE stale \cup {l \in LeaveIds : /\ leaves[l].status = "pending"
                                                /\ leaves[l].who = row.who /\ l # row.ref}

\* A deduction, the source's "request"; a credit names the shifts it is for.
Row(who, delta, source, ref, of) ==
  [who |-> who, delta |-> delta, source |-> source, ref |-> ref, of |-> of]

LeaveInit ==
  /\ leaves = [l \in LeaveIds |-> NoLeave]
  /\ ledger = SetToBag({Row(who, Opening, "adjustment", Null, {}) : who \in Staff})
  /\ marks = [who \in Staff |-> 0]
  /\ reviews = [l \in LeaveIds |-> <<>>]
  /\ audited = [who \in Staff |-> SetToBag({10 * Opening})]
  /\ late = {} /\ stale = {}
  /\ work = [r \in Requests |-> NoWork]

-----------------------------------------------------------------------------
(* POST /leave *)

\* Mutation: the balance is not asked.
ReadBalanceUnasked(r) ==
  /\ At(r, "readBalance")
  /\ Goto(r, "insertLeave") /\ UNCHANGED work
  /\ Keeping /\ UNCHANGED <<tables, history>>

\* insufficient_balance: the hours are compared as the body has them.
ReadBalance(r) ==
  /\ At(r, "readBalance")
  /\ IF 10 * Balance(work[r].row.who) < work[r].delta THEN Respond(r)
     ELSE Goto(r, "insertLeave") /\ UNCHANGED work
  /\ Keeping /\ UNCHANGED <<tables, history>>

InsertLeave(r) ==
  /\ At(r, "insertLeave")
  /\ \E l \in LeaveIds :
       /\ leaves[l].status = "none"
       /\ leaves' = [leaves EXCEPT ![l] = [work[r].row EXCEPT !.status = "pending",
                                                            !.hours = Stored(work[r].delta)]]
       /\ work' = [work EXCEPT ![r].leave = l]
  /\ Goto(r, "auditLeave")
  /\ Keeping /\ UNCHANGED <<ledger, marks, history>>

\* The audit row of a request or of its review.
AuditLeave(r) ==
  /\ At(r, "auditLeave")
  /\ reviews' = [reviews EXCEPT ![work[r].leave] = Append(@, work[r].kind)]
  /\ Respond(r)
  /\ Keeping /\ UNCHANGED <<tables, audited, late, stale>>

-----------------------------------------------------------------------------
(* POST /leave/:id/approve, POST /leave/:id/reject *)

\* Mutation: a reviewed request can be reviewed again.
ReadLeaveAny(r) ==
  LET row == leaves[work[r].leave] IN
  /\ At(r, "readLeave")
  /\ IF row.status = "none" THEN Respond(r)
     ELSE Goto(r, "setReviewed") /\ work' = [work EXCEPT ![r].row = row]
  /\ Keeping /\ UNCHANGED <<tables, history>>

\* SELECT the request WHERE status = 'pending': not_found_or_reviewed
ReadLeave(r) ==
  LET row == leaves[work[r].leave] IN
  /\ At(r, "readLeave")
  /\ IF row.status # "pending" THEN Respond(r)
     ELSE Goto(r, "setReviewed") /\ work' = [work EXCEPT ![r].row = row]
  /\ Keeping /\ UNCHANGED <<tables, history>>

\* UPDATE leave_requests SET status WHERE id
SetReviewed(r) ==
  /\ At(r, "setReviewed")
  /\ leaves' = [leaves EXCEPT ![work[r].leave].status =
                  IF Is(r, {"approve"}) THEN "approved" ELSE "rejected"]
  /\ Goto(r, IF Is(r, {"approve"}) /\ work[r].row.type # "unpaid"
             THEN "insertDeduction" ELSE "auditLeave")
  /\ Keeping /\ UNCHANGED <<ledger, marks, history, work>>

\* Mutation: the hours are added.
InsertDeductionAdded(r) ==
  /\ At(r, "insertDeduction")
  /\ Insert(Row(work[r].row.who, work[r].row.hours, "request", work[r].leave, {}))
  /\ Goto(r, "auditLeave")
  /\ Keeping /\ UNCHANGED <<leaves, marks, reviews, audited, late, work>>

InsertDeduction(r) ==
  /\ At(r, "insertDeduction")
  /\ Insert(Row(work[r].row.who, -work[r].row.hours, "request", work[r].leave, {}))
  /\ Goto(r, "auditLeave")
  /\ Keeping /\ UNCHANGED <<leaves, marks, reviews, audited, late, work>>

-----------------------------------------------------------------------------
(* POST /leave/adjust *)

InsertAdjustment(r) ==
  /\ At(r, "insertAdjustment")
  /\ Insert(Row(work[r].who, Stored(work[r].delta), "adjustment", Null, {}))
  /\ Goto(r, "auditCredit")
  /\ Keeping /\ UNCHANGED <<leaves, marks, reviews, audited, late, work>>

-----------------------------------------------------------------------------
(* runAccrual *)

\* The employee is done: on to the next.
NextEmployee(r) ==
  IF work[r].todo = {} THEN Respond(r)
  ELSE /\ Goto(r, "readMark")
       /\ work' = [work EXCEPT ![r] = [NoWork EXCEPT !.kind = "accrue", !.todo = work[r].todo,
                                                      !.through = work[r].through]]

\* SELECT the active employees, and the instant the run is for.
ListStaff(r) ==
  LET active == {who \in Staff : people[who].active} IN
  /\ At(r, "listStaff")
  /\ IF active = {} THEN Respond(r)
     ELSE /\ work' = [work EXCEPT ![r].todo = active, ![r].through = now]
          /\ Goto(r, "readMark")
  /\ Keeping /\ UNCHANGED <<tables, history>>

\* The mark, then the shifts that ended after it: two SELECTs.
ReadMark(r) ==
  /\ At(r, "readMark")
  /\ \E who \in work[r].todo :
       work' = [work EXCEPT ![r].who = who, ![r].todo = @ \ {who}, ![r].since = marks[who]]
  /\ Goto(r, "selectShifts")
  /\ Keeping /\ UNCHANGED <<tables, history>>

Uncredited(who, since, through) ==
  {s \in Shifts : /\ Owner[s] = who /\ shifts[s].out # Null
                  /\ shifts[s].out > since /\ shifts[s].out <= through}

\* Mutation: the mark moves on over hours too few to credit.
SelectShiftsAndMoveOn(r) ==
  LET picked == Uncredited(work[r].who, work[r].since, work[r].through)
      delta == Accrued(SumFunction([s \in picked |-> shifts[s].minutes]))
  IN /\ At(r, "selectShifts")
     /\ work' = [work EXCEPT ![r].picked = picked, ![r].delta = delta]
     /\ Goto(r, IF delta <= 0 THEN "setMark" ELSE "insertAccrual")
     /\ Keeping /\ UNCHANGED <<tables, history>>

\* Shifts that add up to hours too few to credit stay ahead of the mark.
SelectShifts(r) ==
  LET picked == Uncredited(work[r].who, work[r].since, work[r].through)
      delta == Accrued(SumFunction([s \in picked |-> shifts[s].minutes]))
  IN /\ At(r, "selectShifts")
     /\ IF delta <= 0 THEN NextEmployee(r)
        ELSE /\ work' = [work EXCEPT ![r].picked = picked, ![r].delta = delta]
             /\ Goto(r, "insertAccrual")
     /\ Keeping /\ UNCHANGED <<tables, history>>

InsertAccrual(r) ==
  /\ At(r, "insertAccrual")
  /\ Insert(Row(work[r].who, Stored(work[r].delta), "accrual", Null, work[r].picked))
  /\ Goto(r, "setMark")
  /\ Keeping /\ UNCHANGED <<leaves, marks, reviews, audited, late, work>>

\* INSERT ... ON CONFLICT DO UPDATE, also when the mark is further by now.
SetMark(r) ==
  /\ At(r, "setMark")
  /\ marks' = [marks EXCEPT ![work[r].who] = work[r].through]
  /\ Goto(r, "auditCredit")
  /\ Keeping /\ UNCHANGED <<leaves, ledger, history, work>>

\* The audit row of an adjustment, which has the amount of the body and not the ledger's,
\* or of one employee's accrual.
AuditCredit(r) ==
  /\ At(r, "auditCredit")
  /\ audited' = [audited EXCEPT ![work[r].who] = @ (+) SetToBag({work[r].delta})]
  /\ IF Is(r, {"accrue"}) THEN NextEmployee(r) ELSE Respond(r)
  /\ Keeping /\ UNCHANGED <<tables, reviews, late, stale>>

-----------------------------------------------------------------------------
ArriveWith(r, locals, stage) == Arrive(r, stage) /\ work' = [work EXCEPT ![r] = locals]

LeaveArrives(r) ==
  /\ \/ \E who \in Staff, type \in {"annual", "unpaid"}, hours \in LeaveHours :
          ArriveWith(r, [NoWork EXCEPT !.kind = "request", !.delta = hours,
                           !.row = [NoLeave EXCEPT !.who = who, !.type = type]],
                     IF type = "unpaid" THEN "insertLeave" ELSE "readBalance")
     \/ \E l \in LeaveIds, kind \in {"approve", "reject"} :
          ArriveWith(r, [NoWork EXCEPT !.kind = kind, !.leave = l], "readLeave")
     \/ \E who \in Staff, delta \in Adjustments :
          ArriveWith(r, [NoWork EXCEPT !.kind = "adjust", !.who = who, !.delta = delta],
                     "insertAdjustment")
     \/ ArriveWith(r, [NoWork EXCEPT !.kind = "accrue"], "listStaff")
  /\ UNCHANGED <<tables, history>>

LeaveFails(r) ==
  /\ FailOver(r, {work[r].leave, work[r].who})
  /\ work' = [work EXCEPT ![r] = NoWork]
  /\ UNCHANGED <<tables, history>>

LeaveStep(r) ==
  \/ ReadBalance(r) \/ InsertLeave(r) \/ AuditLeave(r)
  \/ ReadLeave(r) \/ SetReviewed(r) \/ InsertDeduction(r)
  \/ InsertAdjustment(r)
  \/ ListStaff(r) \/ ReadMark(r) \/ SelectShifts(r) \/ InsertAccrual(r) \/ SetMark(r)
  \/ AuditCredit(r)

LeaveNext == \E r \in Requests : LeaveArrives(r) \/ LeaveStep(r) \/ LeaveFails(r)

\* What the rest of the program does is seen by the leave tables only as lateness.
LeaveLooksOn ==
  /\ late' = late \cup {s \in Shifts : /\ shifts[s].out = Null /\ shifts'[s].out # Null
                                       /\ shifts'[s].out <= marks[Owner[s]]}
  /\ UNCHANGED <<tables, reviews, audited, stale, work>>
=============================================================================
