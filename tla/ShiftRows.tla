------------------------------ MODULE ShiftRows ------------------------------
(***************************************************************************)
(* What leave accrual and pay marks share: the employees and the shifts    *)
(* they read, what the rest of the program does to those meanwhile, and    *)
(* the requests in progress.  One action per awaited statement, and a      *)
(* statement can fail, as in PunchClock and EntryEdits.                    *)
(*                                                                         *)
(* A shift's minutes are those worked, breaks taken off; a statement that  *)
(* reads the shift reads its breaks with it.                               *)
(***************************************************************************)
EXTENDS Integers, FiniteSets

CONSTANTS
  Staff,           \* employees
  Shifts,          \* time_entries
  Owner,           \* whose each shift is
  Minutes,         \* bound: the worked minutes of a shift
  Rates,           \* bound: hourly rates, in cents
  Requests,        \* requests the server can be working on at one time
  MaxTime,         \* bound: the clock stops here
  MaxRequests,     \* bound: requests made in a behaviour, one at a time
  MaxOverlapping,  \* bound: requests made in a behaviour if they may overlap
  MaxChanges,      \* bound: changes made to shifts and employees by the rest of the program
  MaxFailures      \* bound: statements that fail in a behaviour

ASSUME OwnerAssumption == Owner \in [Shifts -> Staff]
ASSUME AmountsAssumption == Minutes \subseteq Nat /\ Rates \subseteq Nat
ASSUME BoundsAssumption ==
  /\ MaxTime \in Nat \ {0} /\ MaxRequests \in Nat /\ MaxOverlapping \in 0..MaxRequests
  /\ MaxChanges \in Nat /\ MaxFailures \in Nat

VARIABLES
  now,            \* the wall clock
  shifts,         \* time_entries, by id
  people,         \* employees, by id
  pc,             \* the statement each request is about to run
  overlap,        \* whether a request may arrive, or a shift change, while one is in progress
  requests,       \* requests made so far
  changes,        \* changes so far
  failures,       \* failures so far
  cutShort        \* rows whose handler failed half-way

rows == <<shifts, people>>
bounds == <<overlap, requests, changes, failures, cutShort>>
shiftVars == <<now, rows, pc, bounds>>

Null == -1
Times == 1..MaxTime

Idle == \A r \in Requests : pc[r] = "idle"
At(r, stage) == pc[r] = stage
Goto(r, stage) == pc' = [pc EXCEPT ![r] = stage]

Hired == [Staff -> [active : {TRUE}, tracked : {TRUE}, rate : {Null} \cup Rates]]

ShiftsInit ==
  /\ now = 1
  /\ overlap \in BOOLEAN
  /\ shifts = [s \in Shifts |-> [out |-> Null, minutes |-> 0, edited |-> FALSE]]
  /\ people \in Hired
  /\ pc = [r \in Requests |-> "idle"]
  /\ requests = 0 /\ changes = 0 /\ failures = 0 /\ cutShort = {}

\* A request arrives and runs up to its first statement.
Arrive(r, stage) ==
  /\ At(r, "idle")
  /\ overlap \/ Idle
  /\ requests < (IF overlap THEN MaxOverlapping ELSE MaxRequests)
  /\ requests' = requests + 1
  /\ Goto(r, stage)
  /\ UNCHANGED <<now, rows, overlap, changes, failures, cutShort>>

\* A statement throws, or the server is stopped, over some rows (bound: not while
\* requests may overlap).
FailOver(r, touched) ==
  /\ pc[r] # "idle"
  /\ ~overlap
  /\ failures < MaxFailures
  /\ failures' = failures + 1
  /\ cutShort' = cutShort \cup (touched \ {Null})
  /\ Goto(r, "idle")
  /\ UNCHANGED <<now, rows, overlap, requests, changes>>

-----------------------------------------------------------------------------
(* The rest of the program *)

\* Bound: while requests may overlap the clock stands still.
Tick ==
  /\ now < MaxTime /\ ~overlap
  /\ now' = now + 1
  /\ UNCHANGED <<rows, pc, bounds>>

Change ==
  /\ overlap \/ Idle
  /\ changes < MaxChanges
  /\ changes' = changes + 1
  /\ UNCHANGED <<now, pc, overlap, requests, failures, cutShort>>

\* A shift ends: clock-out at an instant that is past when it is replayed, or when the
\* sweep stamps the time it started at.
EndShift(s, out, minutes) ==
  /\ shifts[s].out = Null
  /\ shifts' = [shifts EXCEPT ![s] = [out |-> out, minutes |-> minutes, edited |-> FALSE]]
  /\ Change /\ UNCHANGED people

\* applyEntryEdit, on an ended shift.
EditShift(s, out, minutes) ==
  /\ shifts[s].out # Null
  /\ shifts' = [shifts EXCEPT ![s] = [out |-> out, minutes |-> minutes, edited |-> TRUE]]
  /\ Change /\ UNCHANGED people

\* PATCH /admin/employees/:id
ChangeEmployee(who, row) ==
  /\ people[who] # row
  /\ people' = [people EXCEPT ![who] = row]
  /\ Change /\ UNCHANGED shifts

Elsewhere ==
  \/ Tick
  \/ \E s \in Shifts, out \in 1..now, minutes \in Minutes :
       EndShift(s, out, minutes) \/ EditShift(s, out, minutes)
  \/ \E who \in Staff :
     \E row \in [active : BOOLEAN, tracked : BOOLEAN, rate : {Null} \cup Rates] :
       ChangeEmployee(who, row)

\* The types of the rows, which the proofs about pay start from.
ShiftsTypeOK ==
  /\ now \in Times
  /\ shifts \in [Shifts -> [out : {Null} \cup Times, minutes : {0} \cup Minutes,
                            edited : BOOLEAN]]
  /\ people \in [Staff -> [active : BOOLEAN, tracked : BOOLEAN, rate : {Null} \cup Rates]]
  /\ requests \in 0..MaxRequests /\ changes \in 0..MaxChanges /\ failures \in 0..MaxFailures
=============================================================================
