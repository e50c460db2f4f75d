------------------------ MODULE EntryEditsProperties -------------------------
(***************************************************************************)
(* What edits, corrections and pay-period locks have to guarantee.  With   *)
(* one request in progress at a time (~overlap) the handlers are as good   *)
(* as transactions; the second part is what is left when they overlap.     *)
(***************************************************************************)
EXTENDS EntryEdits

\* A request that works on the row is in progress.
Busy(x) == \E r \in Requests : x \in {loc[r].entry, loc[r].correction, loc[r].period}
Whole(x) == ~Busy(x) /\ x \notin cutShort

EntryRows == [in : Times, out : {Null} \cup Times, edited : BOOLEAN, paid : BOOLEAN]
BreakRows == [in : {Null} \cup Times, out : {Null} \cup Times]
CorrectionRows == [entry : Entries, wish : Wishes, status : {"pending", "approved", "rejected"}]
Locals == [kind : {"none", "edit", "break", "request", "approve", "reject", "lock", "unlock", "pay", "unpay"},
           source : Sources, entry : Entries \cup {None}, edit : Edits,
           row : EntryRows \cup {NoRow}, after : EntryRows \cup {NoRow},
           brk : BreakRows, correction : CorrectionIds \cup {None}, period : Periods \cup {None}]

\* Type invariant.
TypeOK ==
  /\ now \in Times
  /\ entries \in [Entries -> EntryRows]
  /\ breaks \in [Entries -> BreakRows]
  /\ corrections \in [CorrectionIds -> CorrectionRows \cup {NoCorrection}]
  /\ periods \in [Periods -> {"none", "open", "locked"}]
  /\ pc \in [Requests -> Stages]
  /\ loc \in [Requests -> Locals]
  /\ requests \in 0..MaxRequests
  /\ overlap \in BOOLEAN
  /\ failures \in 0..MaxFailures

-----------------------------------------------------------------------------
(* With one request in progress *)

Recorded(e) == <<View(entries[e]), breaks[e]>>

\* An entry that lies in a locked pay period keeps its times and its break for as long as
\* the lock lasts, also against corrections requested before and approved after it.
LockedEntriesKept ==
  [][~overlap => \A e \in Entries :
       LET p == PeriodOf(entries[e].in) IN
       periods[p] = "locked" /\ periods'[p] = "locked" =>
         Recorded(e)' = Recorded(e)]_vars

\* No shift that is still running is signed off: at the moment a period is locked,
\* all entries in it have ended.
NothingOpenIsLocked ==
  [][~overlap => \A p \in Periods :
       periods[p] # "locked" /\ periods'[p] = "locked" => OpenIn(p) = {}]_vars

\* "Paid time is settled: staff can't change it (a manager still can)": the times of
\* a paid entry and of its break only change in a manager's edit or an approved correction.
PaidIsSettled ==
  [][~overlap => \A e \in Entries :
       entries[e].paid /\ Recorded(e)' # Recorded(e) =>
         \E r \in Requests : loc[r].entry = e /\ loc[r].source # "self_edit"]_vars

EditRows(e) == {k \in DOMAIN entryTrail[e] : entryTrail[e][k].action \in Sources}
PaidRows(e) == DOMAIN entryTrail[e] \ EditRows(e)
IsLast(k, rows) == k \in rows /\ \A j \in rows : j <= k

\* Each edit starts from the times the one before it left ...
EditsLinked(e) ==
  \A j, k \in EditRows(e) :
    (j < k /\ \A i \in EditRows(e) : i <= j \/ k <= i) =>
      entryTrail[e][k].old = entryTrail[e][j].new

\* ... and the last one left these.
EditsEnd(e, times) ==
  \A k \in EditRows(e) : IsLast(k, EditRows(e)) => entryTrail[e][k].new = times

MarkedPaid(e) ==
  \E k \in PaidRows(e) : IsLast(k, PaidRows(e)) /\ entryTrail[e][k].action = "mark_paid"

BreaksLinked(e) ==
  \A k \in 1..(Len(breakTrail[e]) - 1) : breakTrail[e][k + 1].old = breakTrail[e][k].new

BreakOnRecord(e) ==
  IF breakTrail[e] = <<>> THEN NoBreak ELSE breakTrail[e][Len(breakTrail[e])].new

LockOnRecord(p) == periodTrail[p] # <<>> /\ periodTrail[p][Len(periodTrail[p])] = "lock"

\* The audit trail tells the whole history: each edit starts from the times the one
\* before it left, the last one left what the entry and its break say now, and paid marks and
\* locks are those the trail ends with -- except for rows a failure cut short.
TrailReconstructs ==
  ~overlap =>
  /\ \A e \in Entries : Whole(e) =>
       /\ EditsLinked(e) /\ EditsEnd(e, View(entries[e]))
       /\ entries[e].edited = (EditRows(e) # {} \/ breakTrail[e] # <<>>)
       /\ entries[e].paid = MarkedPaid(e)
       /\ BreaksLinked(e) /\ breaks[e] = BreakOnRecord(e)
  /\ \A p \in Periods : Whole(p) => (periods[p] = "locked") = LockOnRecord(p)

Applied(c) == {k \in DOMAIN entryTrail[corrections[c].entry] :
                 entryTrail[corrections[c].entry][k].reason = c}

\* A correction is decided once: it is applied once if approved, never if rejected,
\* and the trail holds that one review.
ReviewedOnce ==
  ~overlap => \A c \in CorrectionIds : Whole(c) =>
    CASE corrections[c].status = "approved" ->
           Cardinality(Applied(c)) = 1 /\ reviewTrail[c] = <<"request", "approve">>
      [] corrections[c].status = "rejected" ->
           Applied(c) = {} /\ reviewTrail[c] = <<"request", "reject">>
      [] OTHER -> reviewTrail[c] \in {<<>>, <<"request">>}

-----------------------------------------------------------------------------
(* With any number of requests in progress *)

\* A correction that reads "approved" has an edit of its entry in the audit log that
\* was made for it, however reviews race, and wherever one fails.
ApprovedWasApplied ==
  \A c \in CorrectionIds : corrections[c].status = "approved" => Applied(c) # {}

-----------------------------------------------------------------------------
(* What is said of the program *)

EntriesIn(p) == {<<e, entries[e].in, entries[e].out>> :
                   e \in {f \in Entries : PeriodOf(entries[f].in) = p}}

\* admin-guide.md: "A locked period is immutable", manager.ts: "Locked periods are
\* immutable (guard on edits)" -- no entry in it changes, leaves it, or is moved into it.
LockedPeriodFrozen ==
  [][\A p \in Periods :
       periods[p] = "locked" /\ periods'[p] = "locked" => EntriesIn(p)' = EntriesIn(p)]_vars
=============================================================================
