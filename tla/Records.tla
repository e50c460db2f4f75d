------------------------------- MODULE Records --------------------------------
(***************************************************************************)
(* The office: leave and pay side by side over the shifts they are earned  *)
(* with, the pay periods those shifts are cut into, the rules of a         *)
(* timesheet, and what has to hold of them.  With one request in progress  *)
(* at a time, and shifts that change between requests (~overlap), the      *)
(* handlers are as good as transactions.                                   *)
(***************************************************************************)
EXTENDS LeaveLedger, PayMarks, PayPeriods, Timesheets

VARIABLE desk     \* bound: what the requests of a behaviour are about

vars == <<shiftVars, leaveVars, payVars, periodVars, sheet, desk>>

Init ==
  /\ ShiftsInit /\ LeaveInit /\ PayInit /\ PeriodsInit /\ SheetInit
  /\ desk \in {"leave", "pay", "periods", "timesheet"}
  /\ desk \in {"periods", "timesheet"} => people = CHOOSE p \in Hired : TRUE
  /\ desk \in {"periods", "timesheet"} => ~overlap
  /\ desk # "periods" => type = "weekly"
  /\ (desk = "timesheet") = (sheet # NoQuestion)

Next ==
  /\ \/ /\ desk \in {"leave", "pay"} /\ Elsewhere /\ LeaveLooksOn
        /\ UNCHANGED <<payVars, periodVars>>
     \/ desk = "leave" /\ LeaveNext /\ UNCHANGED <<payVars, periodVars>>
     \/ desk = "pay" /\ PayNext /\ UNCHANGED <<leaveVars, periodVars>>
     \/ desk = "periods" /\ PeriodsNext /\ UNCHANGED <<shiftVars, leaveVars, payVars>>
  /\ UNCHANGED <<sheet, desk>>

Spec == Init /\ [][Next]_vars

Credits == {row \in BagToSet(ledger) : row.source = "accrual"}
Deductions(l) == {row \in BagToSet(ledger) : row.source = "request" /\ row.ref = l}
InProgress(x) == \E r \in Requests :
                   x \in {work[r].leave, work[r].who, batch[r].item} \cup work[r].todo
Whole(x) == ~InProgress(x) /\ x \notin cutShort

-----------------------------------------------------------------------------
(* Leave *)

\* A leave request is decided once: approved, it is deducted once with its hours
\* (nothing, if unpaid) and reviewed once; else nothing is deducted.
LeaveSettled ==
  ~overlap => \A l \in LeaveIds : Whole(l) =>
    /\ IF leaves[l].status = "approved" /\ leaves[l].type # "unpaid"
       THEN LET row == Row(leaves[l].who, -leaves[l].hours, "request", l, {})
            IN Deductions(l) = {row} /\ ledger[row] = 1
       ELSE Deductions(l) = {}
    /\ reviews[l] = CASE leaves[l].status = "none"     -> <<>>
                      [] leaves[l].status = "pending"  -> <<"request">>
                      [] leaves[l].status = "approved" -> <<"request", "approve">>
                      [] OTHER                         -> <<"request", "reject">>

Approvals(l) == Cardinality({k \in DOMAIN reviews[l] : reviews[l][k] = "approve"})
Tracked(who) == {l \in LeaveIds : leaves[l].who = who /\ leaves[l].type # "unpaid"}

Logged(who) ==
  SumFunction([amount \in BagToSet(audited[who]) |-> audited[who][amount] * Stored(amount)])

\* "The LEDGER is the balance truth ... history is inspectable": when nothing is in
\* progress and nothing has failed, the audit log adds up to the balance, however
\* requests overlapped, if each amount in it is rounded to the ledger's decimals: the
\* log has an adjustment as it was asked for.
BalanceOnRecord ==
  Idle /\ failures = 0 => \A who \in Staff :
    Balance(who) =
      Logged(who) - SumFunction([l \in Tracked(who) |-> Approvals(l) * leaves[l].hours])

\* An approval takes a balance below zero only if something else was drawn from it since
\* the request was made and checked.
ApprovedWithinBalance ==
  [][~overlap => \A l \in LeaveIds :
       Deductions(l)' # Deductions(l) /\ l \notin stale => Balance(leaves[l].who)' >= 0]_vars

CreditsOf(s) == SumFunction([row \in Credits |-> IF s \in row.of THEN ledger[row] ELSE 0])

\* "Runs idempotently: ... only entries closed after it are accrued": a shift is credited
\* once, as soon as the mark has passed it.  Not so for a shift that ended behind the
\* mark, one that was edited, and after a run that failed.
CreditedOnce ==
  ~overlap => \A s \in Shifts : Whole(Owner[s]) /\ ~shifts[s].edited /\ s \notin late =>
    CreditsOf(s) = IF shifts[s].out # Null /\ shifts[s].out <= marks[Owner[s]] THEN 1 ELSE 0

-----------------------------------------------------------------------------
(* Pay *)

\* A shift is marked paid with its worked minutes at its owner's rate of the moment, and
\* "later rate changes never rewrite history": the amount stays until it is unmarked.
PaidAmountsKept ==
  [][~overlap => \A s \in Shifts :
       /\ paid[s] # Unpaid => paid'[s] \in {paid[s], Unpaid}
       /\ paid[s] = Unpaid /\ paid'[s] # Unpaid =>
            LET rate == people[Owner[s]].rate
            IN paid'[s] = [rate |-> rate, cents |-> Amount(shifts[s].minutes, rate)]]_vars

AboutToRecord(s) == \E r \in Requests : batch[r].item = s

\* The amount of a paid shift is in the audit log (or about to be, or its request
\* failed), however batches overlap; with one at a time the last mark in the log is the
\* shift's, with the amount it has or had.
PaidOnRecord ==
  \A s \in Shifts : ~AboutToRecord(s) /\ s \notin cutShort =>
    LET trail == shiftTrail[s]
        marked == {k \in DOMAIN trail : trail[k].action = "pay"}
    IN /\ paid[s] # Unpaid => \E k \in marked : trail[k].cents = paid[s].cents
       /\ ~overlap =>
            /\ (paid[s] # Unpaid) = (trail # <<>> /\ Len(trail) \in marked)
            /\ \A k \in DOMAIN trail \ marked :
                 k > 1 /\ trail[k - 1] = [action |-> "pay", cents |-> trail[k].cents]

\* A voided bonus is not paid, and the audit log ends with what the bonus is.
VoidNotPaid ==
  ~overlap => \A b \in BonusIds : Whole(b) /\ bonuses[b] # NoBonus =>
    LET trail == bonusTrail[b] IN
    trail # <<>> /\
    trail[Len(trail)] \in
      IF bonuses[b].voided THEN IF bonuses[b].paid THEN {} ELSE {"void"}
      ELSE IF bonuses[b].paid THEN {"pay"} ELSE {"grant", "unpay"}
=============================================================================
