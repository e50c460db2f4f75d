-------------------------- MODULE EntryEditsProofs ---------------------------
(***************************************************************************)
(* Edits, reviews, locks and paid marks, for any number of entries,        *)
(* corrections, periods and requests: an approved correction was applied,  *)
(* however requests overlap; and with one request at a time, locked        *)
(* periods, finished shifts and paid entries are kept, the trail tells the *)
(* whole history, and a correction is decided once.                        *)
(***************************************************************************)
EXTENDS EntryEditsProperties, FiniteSetTheorems, SequenceTheorems, TLAPS

-----------------------------------------------------------------------------
(* Numbers of periods *)

\* Later times lie in later periods.
LEMMA DivMonotone ==
  ASSUME NEW l \in Nat \ {0}, NEW a \in Nat, NEW b \in Nat, a <= b
  PROVE  a \div l \in 0..(b \div l)
<1>. DEFINE p == a \div l
            q == b \div l
<1>1. p \in Nat /\ q \in Nat
  OBVIOUS
<1>2. l * p <= a /\ b < l * (q + 1)
  OBVIOUS
<1>. HIDE DEF p, q
<1>3. l * p < l * (q + 1)
  BY <1>1, <1>2
<1>4. p < q + 1
  <2>1. SUFFICES ASSUME p >= q + 1 PROVE FALSE
    BY <1>1
  <2>2. l * p >= l * (q + 1)
    BY <1>1, <2>1
  <2>. QED  BY <1>1, <1>3, <2>2
<1>5. p \in 0..q
  BY <1>1, <1>4
<1>. QED  BY <1>5 DEF p, q

\* Every time lies in one of the periods.
LEMMA PeriodOfTimes == \A t \in Times : PeriodOf(t) \in Periods
<1>. SUFFICES ASSUME NEW t \in Times PROVE PeriodOf(t) \in Periods
  OBVIOUS
<1>1. t \in Nat /\ MaxTime \in Nat /\ t <= MaxTime /\ PeriodLength \in Nat \ {0}
  BY LengthsAssumption, BoundsAssumption DEF Times
<1>. QED  BY <1>1, DivMonotone DEF PeriodOf, Periods

-----------------------------------------------------------------------------
(* The inductive invariant *)

\* The tables as far as the argument looks into them.
ShapeOK ==
  /\ DOMAIN entries = Entries /\ DOMAIN breaks = Entries
  /\ \A e \in Entries : DOMAIN entries[e] = DOMAIN NoRow /\ entries[e].in \in Times
  /\ DOMAIN corrections = CorrectionIds
  /\ \A c \in CorrectionIds :
       /\ DOMAIN corrections[c] = DOMAIN NoCorrection
       /\ corrections[c].status # "none" =>
            corrections[c].entry \in Entries /\ corrections[c].wish.in \in {Keep} \cup Times
  /\ DOMAIN periods = Periods
  /\ \E S : entryTrail \in [Entries -> Seq(S)]
  /\ DOMAIN pc = Requests /\ DOMAIN loc = Requests

\* What a handler has in hand at its statements.
OnEntry == {"readEntry", "guard", "updateEntry", "auditEdit", "setPaid", "guardBreak",
            "writeBreak", "flagEntry", "auditPaid", "insertCorrection"}
OnTimes == {"readEntry", "guard", "updateEntry", "insertCorrection"}
Deciding == {"readEntry", "guard", "updateEntry", "auditEdit", "setStatus"}

WorkOK(r) ==
  /\ DOMAIN loc[r] = DOMAIN NoWork
  /\ pc[r] \in OnEntry => loc[r].entry \in Entries
  /\ pc[r] \in OnTimes => loc[r].edit.in \in {Keep} \cup Times
  /\ loc[r].kind = "approve" => loc[r].source = "correction_approved"
  /\ loc[r].kind \in {"approve", "reject"} => loc[r].correction \in CorrectionIds
  /\ pc[r] \in {"readCorrection", "setStatus"} => loc[r].kind \in {"approve", "reject"}
  /\ loc[r].kind \in {"approve", "reject"} /\ pc[r] \in Deciding =>
       /\ corrections[loc[r].correction].status # "none"
       /\ corrections[loc[r].correction].entry = loc[r].entry
       /\ loc[r].kind = "approve" /\ pc[r] = "setStatus" => Applied(loc[r].correction) # {}

\* With one request in progress, what it has read is still so.
Deciders == {"guard", "guardBreak", "updateEntry", "writeBreak"}

FreshOK(r) ==
  /\ pc[r] \in {"guard", "guardBreak", "updateEntry"} => loc[r].row = entries[loc[r].entry]
  /\ pc[r] \in {"updateEntry", "writeBreak"} =>
       periods[PeriodOf(entries[loc[r].entry].in)] # "locked"
  /\ pc[r] \in Deciders /\ loc[r].source = "self_edit" => ~entries[loc[r].entry].paid
  /\ pc[r] = "setLock" /\ loc[r].kind = "lock" => OpenIn(loc[r].period) = {}

AloneOK == \A r, s \in Requests : pc[r] # "idle" /\ pc[s] # "idle" => r = s

EditInv ==
  /\ ShapeOK
  /\ \A r \in Requests : WorkOK(r)
  /\ ApprovedWasApplied
  /\ ~overlap => AloneOK /\ \A r \in Requests : FreshOK(r)

-----------------------------------------------------------------------------
(* What steps have in common *)

OthersAlone(r) ==
  /\ DOMAIN pc' = Requests /\ DOMAIN loc' = Requests
  /\ \A s \in Requests \ {r} : pc'[s] = pc[s] /\ loc'[s] = loc[s]

\* A correction stays that of its entry, and audit rows are only added.
Grows ==
  /\ \A c \in CorrectionIds : corrections[c].status # "none" =>
       corrections'[c].status # "none" /\ corrections'[c].entry = corrections[c].entry
  /\ \A e \in Entries :
       /\ DOMAIN entryTrail[e] \subseteq DOMAIN entryTrail'[e]
       /\ \A k \in DOMAIN entryTrail[e] : entryTrail'[e][k] = entryTrail[e][k]

\* What has been applied to an entry stays on its trail.
LEMMA AppliedStays ==
  ASSUME ShapeOK, Grows, NEW c \in CorrectionIds, corrections[c].status # "none", Applied(c) # {}
  PROVE  Applied(c)' # {}
BY DEF ShapeOK, Grows, Applied

\* What a step leaves of the other requests' business.
LEMMA OthersKeep ==
  ASSUME EditInv, Grows, NEW s \in Requests, pc'[s] = pc[s], loc'[s] = loc[s]
  PROVE  WorkOK(s)'
<1>1. WorkOK(s)
  BY DEF EditInv
<1>2. ASSUME loc[s].kind \in {"approve", "reject"}, pc[s] \in Deciding
      PROVE  /\ corrections'[loc[s].correction].status # "none"
             /\ corrections'[loc[s].correction].entry = loc[s].entry
             /\ loc[s].kind = "approve" /\ pc[s] = "setStatus" => Applied(loc[s].correction)' # {}
  <2>1. loc[s].correction \in CorrectionIds
    BY <1>1, <1>2 DEF WorkOK
  <2>2. PICK c \in CorrectionIds : c = loc[s].correction
    BY <2>1
  <2>3. corrections[c].status # "none" /\ corrections[c].entry = loc[s].entry
    BY <1>1, <1>2, <2>2 DEF WorkOK
  <2>4. loc[s].kind = "approve" /\ pc[s] = "setStatus" => Applied(c) # {}
    BY <1>1, <1>2, <2>2 DEF WorkOK
  <2>5. loc[s].kind = "approve" /\ pc[s] = "setStatus" => Applied(c)' # {}
    BY <2>3, <2>4, AppliedStays DEF EditInv
  <2>6. loc'[s].correction = c
    BY <2>2
  <2>7. loc[s].kind = "approve" /\ pc[s] = "setStatus" => Applied(loc[s].correction)' # {}
    BY <2>5, <2>6
  <2>. QED  BY <2>2, <2>3, <2>7 DEF Grows
<1>. QED  BY <1>1, <1>2 DEF WorkOK

\* A request that is in progress, or may arrive, is the only one without overlap.
Alone(r) == overlap \/ \A s \in Requests \ {r} : pc[s] = "idle"

\* A request in progress is the only one, when none overlap.
LEMMA InProgressAlone ==
  ASSUME EditInv, NEW r \in Requests, pc[r] # "idle"
  PROVE  Alone(r)
BY DEF EditInv, AloneOK, Alone

\* A step of one request has to look after that request and what it writes.
LEMMA StepPreserves ==
  ASSUME EditInv, NEW r \in Requests, Alone(r), OthersAlone(r), Grows, UNCHANGED overlap,
         ShapeOK', WorkOK(r)', ~overlap => FreshOK(r)',
         \A c \in CorrectionIds : corrections'[c].status = "approved" =>
           corrections[c].status = "approved" \/ Applied(c)' # {}
  PROVE  EditInv'
<1>1. ASSUME NEW s \in Requests PROVE WorkOK(s)'
  BY OthersKeep DEF OthersAlone
<1>2. ApprovedWasApplied'
  <2>1. ASSUME NEW c \in CorrectionIds, corrections'[c].status = "approved" PROVE Applied(c)' # {}
    BY <2>1, AppliedStays DEF EditInv, ApprovedWasApplied
  <2>. QED  BY <2>1 DEF ApprovedWasApplied
<1>3. ASSUME ~overlap PROVE AloneOK' /\ \A s \in Requests : FreshOK(s)'
  <2>1. \A s \in Requests \ {r} : pc'[s] = "idle"
    BY <1>3 DEF Alone, OthersAlone
  <2>2. \A s \in Requests \ {r} : FreshOK(s)'
    BY <2>1 DEF FreshOK, Deciders
  <2>. QED  BY <1>3, <2>1, <2>2 DEF AloneOK
<1>. QED  BY <1>1, <1>2, <1>3 DEF EditInv

\* A step that leaves alone what the argument looks at.
Quiet == UNCHANGED <<entries, breaks, corrections, periods, entryTrail, overlap>>

\* A step that leaves the tables alone has to look after its request only.
LEMMA QuietPreserves ==
  ASSUME EditInv, NEW r \in Requests, Alone(r), OthersAlone(r), Quiet,
         WorkOK(r)', ~overlap => FreshOK(r)'
  PROVE  EditInv'
<1>1. Grows
  BY DEF Quiet, Grows
<1>2. ShapeOK'
  BY DEF Quiet, EditInv, ShapeOK, OthersAlone
<1>. QED  BY <1>1, <1>2, StepPreserves DEF Quiet

\* A request that is answered leaves nothing behind ...
LEMMA RespondOK ==
  ASSUME EditInv, NEW r \in Requests, Respond(r)
  PROVE  OthersAlone(r) /\ WorkOK(r)' /\ FreshOK(r)' /\ pc'[r] = "idle" /\ loc'[r] = NoWork
<1>1. OthersAlone(r) /\ pc'[r] = "idle" /\ loc'[r] = NoWork
  BY DEF Respond, Goto, EditInv, ShapeOK, OthersAlone
<1>. QED  BY <1>1 DEF WorkOK, FreshOK, NoWork, OnEntry, OnTimes, Deciding, Deciders

\* ... and disturbs nobody.
LEMMA RespondPreserves ==
  ASSUME EditInv, NEW r \in Requests, Alone(r), Respond(r), Quiet
  PROVE  EditInv'
BY RespondOK, QuietPreserves

-----------------------------------------------------------------------------
(* The steps that read and decide *)

\* An arriving request has read nothing.
LEMMA ArriveStep ==
  ASSUME EditInv, NEW r \in Requests, ArriveAny(r)
  PROVE  EditInv'
<1>1. PICK work, stage :
        /\ Arrive(r, work, stage)
        /\ DOMAIN work = DOMAIN NoWork
        /\ \/ /\ stage = "readEntry" /\ work.entry \in Entries
              /\ work.edit.in \in {Keep} \cup Times
              /\ work.kind \notin {"approve", "reject"}
           \/ /\ stage = "readCorrection" /\ work.source = "correction_approved"
              /\ work.correction \in CorrectionIds /\ work.kind \in {"approve", "reject"}
           \/ /\ stage = "readPeriod" /\ work.kind \notin {"approve", "reject"}
  <2>. DEFINE Case(work, stage) ==
         /\ Arrive(r, work, stage)
         /\ DOMAIN work = DOMAIN NoWork
         /\ \/ /\ stage = "readEntry" /\ work.entry \in Entries
               /\ work.edit.in \in {Keep} \cup Times
               /\ work.kind \notin {"approve", "reject"}
            \/ /\ stage = "readCorrection" /\ work.source = "correction_approved"
               /\ work.correction \in CorrectionIds /\ work.kind \in {"approve", "reject"}
            \/ /\ stage = "readPeriod" /\ work.kind \notin {"approve", "reject"}
  <2>1. ASSUME NEW e \in Entries, NEW kind \in {"edit", "break"},
               NEW source, NEW edit, edit.in \in {Keep} \cup Times,
               Arrive(r, [NoWork EXCEPT !.kind = kind, !.source = source, !.entry = e,
                                        !.edit = edit], "readEntry")
        PROVE  \E work, stage : Case(work, stage)
    <3>. DEFINE work == [NoWork EXCEPT !.kind = kind, !.source = source, !.entry = e, !.edit = edit]
    <3>1. DOMAIN work = DOMAIN NoWork /\ work.entry = e /\ work.edit = edit /\ work.kind = kind
      BY DEF NoWork
    <3>2. Case(work, "readEntry")
      BY <2>1, <3>1
    <3>. QED  BY <3>2
  <2>2. ASSUME NEW e \in Entries, NEW kind \in {"pay", "unpay"},
               Arrive(r, [NoWork EXCEPT !.kind = kind, !.entry = e], "readEntry")
        PROVE  \E work, stage : Case(work, stage)
    <3>. DEFINE work == [NoWork EXCEPT !.kind = kind, !.entry = e]
    <3>1. DOMAIN work = DOMAIN NoWork /\ work.entry = e /\ work.edit = NoEdit /\ work.kind = kind
      BY DEF NoWork
    <3>2. Case(work, "readEntry")
      BY <2>2, <3>1 DEF NoEdit
    <3>. QED  BY <3>2
  <2>3. ASSUME NEW c \in CorrectionIds, NEW kind \in {"approve", "reject"},
               Arrive(r, [NoWork EXCEPT !.kind = kind, !.source = "correction_approved",
                                        !.correction = c], "readCorrection")
        PROVE  \E work, stage : Case(work, stage)
    <3>. DEFINE work == [NoWork EXCEPT !.kind = kind, !.source = "correction_approved", !.correction = c]
    <3>1. /\ DOMAIN work = DOMAIN NoWork /\ work.source = "correction_approved"
          /\ work.correction = c /\ work.kind = kind
      BY DEF NoWork
    <3>2. Case(work, "readCorrection")
      BY <2>3, <3>1
    <3>. QED  BY <3>2
  <2>4. ASSUME NEW q, NEW kind \in {"lock", "unlock"},
               Arrive(r, [NoWork EXCEPT !.kind = kind, !.period = q], "readPeriod")
        PROVE  \E work, stage : Case(work, stage)
    <3>. DEFINE work == [NoWork EXCEPT !.kind = kind, !.period = q]
    <3>1. DOMAIN work = DOMAIN NoWork /\ work.kind = kind
      BY DEF NoWork
    <3>2. Case(work, "readPeriod")
      BY <2>4, <3>1
    <3>. QED  BY <3>2
  <2>5. \A b \in Edits : b.in \in {Keep} \cup Times
    BY DEF Edits
  <2>6. \A w \in Wishes : w.in \in {Keep} \cup Times
    BY DEF Wishes
  <2>7. ArriveWith(r)
    BY DEF ArriveAny
  <2>8. ASSUME NEW wish \in Wishes, NEW e \in Entries,
               Arrive(r, [NoWork EXCEPT !.kind = "request", !.entry = e, !.edit = wish], "readEntry")
        PROVE  \E work, stage : Case(work, stage)
    <3>. DEFINE work == [NoWork EXCEPT !.kind = "request", !.entry = e, !.edit = wish]
    <3>1. DOMAIN work = DOMAIN NoWork /\ work.entry = e /\ work.edit = wish /\ work.kind = "request"
      BY DEF NoWork
    <3>2. Case(work, "readEntry")
      BY <2>6, <2>8, <3>1
    <3>. QED  BY <3>2
  <2>9. \E work, stage : Case(work, stage)
    <3>. HIDE DEF Case
    <3>. QED  BY <2>1, <2>2, <2>3, <2>4, <2>5, <2>7, <2>8 DEF ArriveWith
  <2>. QED  BY <2>9
<1>2. Alone(r)
  BY DEF ArriveAny, MayArrive, At, Alone
<1>3. OthersAlone(r) /\ pc'[r] = stage /\ loc'[r] = work /\ Quiet
  BY <1>1 DEF Arrive, Goto, OthersAlone, EditInv, ShapeOK, Quiet, tables, trails
<1>4. WorkOK(r)' /\ FreshOK(r)'
  BY <1>1, <1>3 DEF WorkOK, FreshOK, OnEntry, OnTimes, Deciding, Deciders
<1>. QED  BY <1>2, <1>3, <1>4, QuietPreserves

\* The entry is kept as it was read, and a self-edit goes on only with an unpaid one.
LEMMA ReadEntryStep ==
  ASSUME EditInv, NEW r \in Requests, ReadEntry(r)
  PROVE  EditInv'
<1>1. pc[r] = "readEntry" /\ Quiet
  BY DEF ReadEntry, At, Quiet, tables, trails, bounds
<1>2. Alone(r) /\ WorkOK(r) /\ loc[r].entry \in Entries /\ loc[r].edit.in \in {Keep} \cup Times
  BY <1>1, InProgressAlone DEF EditInv, WorkOK, OnEntry, OnTimes
<1>3. CASE Respond(r)
  BY <1>1, <1>2, <1>3, RespondPreserves
<1>4. CASE ~Respond(r)
  <2>1. PICK stage, brk :
          /\ Goto(r, stage)
          /\ loc' = [loc EXCEPT ![r].row = entries[loc[r].entry], ![r].brk = brk]
          /\ \/ /\ stage = "guard" /\ loc[r].kind = "edit"
                /\ EditAccess(loc[r].source, entries[loc[r].entry], loc[r].edit)
             \/ /\ stage = "guardBreak" /\ loc[r].kind = "break"
                /\ EditAccess(loc[r].source, entries[loc[r].entry], NoEdit)
             \/ stage = "guard" /\ loc[r].kind = "approve"
             \/ stage = "insertCorrection" /\ loc[r].kind = "request"
             \/ stage = "setPaid" /\ loc[r].kind \in {"pay", "unpay"}
    <3>1. DOMAIN loc[r] = DOMAIN NoWork /\ DOMAIN loc = Requests
      BY <1>2 DEF WorkOK, EditInv, ShapeOK
    <3>2. [loc EXCEPT ![r].row = entries[loc[r].entry]]
            = [loc EXCEPT ![r].row = entries[loc[r].entry], ![r].brk = loc[r].brk]
      BY <3>1 DEF NoWork
    <3>. QED  BY <1>4, <3>2 DEF ReadEntry, Is
  <2>2. /\ OthersAlone(r) /\ pc'[r] = stage
        /\ DOMAIN loc'[r] = DOMAIN NoWork /\ loc'[r].row = entries[loc[r].entry]
        /\ loc'[r].kind = loc[r].kind /\ loc'[r].source = loc[r].source
        /\ loc'[r].entry = loc[r].entry /\ loc'[r].edit = loc[r].edit
        /\ loc'[r].correction = loc[r].correction
    BY <1>2, <2>1 DEF OthersAlone, Goto, EditInv, ShapeOK, WorkOK, NoWork
  <2>3. stage \in {"guard", "guardBreak"} /\ loc[r].source = "self_edit" =>
          ~entries[loc[r].entry].paid
    <3>1. loc[r].kind = "approve" => loc[r].source # "self_edit"
      BY <1>2 DEF WorkOK
    <3>. QED  BY <2>1, <3>1 DEF EditAccess
  <2>4. WorkOK(r)'
    BY <1>1, <1>2, <2>1, <2>2 DEF WorkOK, OnEntry, OnTimes, Deciding, Quiet
  <2>5. FreshOK(r)'
    BY <1>1, <2>1, <2>2, <2>3 DEF FreshOK, Deciders, Quiet
  <2>. QED  BY <1>1, <1>2, <2>2, <2>4, <2>5, QuietPreserves
<1>. QED  BY <1>3, <1>4

\* The guard asks the period of the entry as read.
LEMMA GuardStep ==
  ASSUME EditInv, NEW r \in Requests, Guard(r)
  PROVE  EditInv'
<1>1. pc[r] = "guard" /\ Quiet
  BY DEF Guard, At, Quiet, tables, trails, bounds
<1>2. Alone(r) /\ WorkOK(r)
  BY <1>1, InProgressAlone DEF EditInv
<1>3. CASE Respond(r)
  BY <1>1, <1>2, <1>3, RespondPreserves
<1>4. CASE ~Respond(r)
  <2>1. Goto(r, "updateEntry") /\ UNCHANGED loc /\ periods[PeriodOf(loc[r].row.in)] # "locked"
    BY <1>4 DEF Guard, Editable
  <2>2. OthersAlone(r) /\ pc'[r] = "updateEntry"
    BY <2>1 DEF OthersAlone, Goto, EditInv, ShapeOK
  <2>3. WorkOK(r)'
    BY <1>1, <1>2, <2>1, <2>2 DEF WorkOK, OnEntry, OnTimes, Deciding, Quiet
  <2>4. ~overlap => FreshOK(r)'
    <3>1. ~overlap => FreshOK(r)
      BY DEF EditInv
    <3>. QED  BY <1>1, <2>1, <2>2, <3>1 DEF FreshOK, Deciders, Quiet
  <2>. QED  BY <1>1, <1>2, <2>2, <2>3, <2>4, QuietPreserves
<1>. QED  BY <1>3, <1>4

\* So does the guard of a break edit.
LEMMA GuardBreakStep ==
  ASSUME EditInv, NEW r \in Requests, GuardBreak(r)
  PROVE  EditInv'
<1>1. pc[r] = "guardBreak" /\ Quiet
  BY DEF GuardBreak, At, Quiet, tables, trails, bounds
<1>2. Alone(r) /\ WorkOK(r)
  BY <1>1, InProgressAlone DEF EditInv
<1>3. CASE Respond(r)
  BY <1>1, <1>2, <1>3, RespondPreserves
<1>4. CASE ~Respond(r)
  <2>1. Goto(r, "writeBreak") /\ ToWrite(r) /\ periods[PeriodOf(loc[r].row.in)] # "locked"
    BY <1>4 DEF GuardBreak, Editable
  <2>2. /\ OthersAlone(r) /\ pc'[r] = "writeBreak" /\ DOMAIN loc'[r] = DOMAIN NoWork
        /\ loc'[r].kind = loc[r].kind /\ loc'[r].source = loc[r].source
        /\ loc'[r].entry = loc[r].entry /\ loc'[r].correction = loc[r].correction
    BY <1>2, <2>1 DEF OthersAlone, Goto, ToWrite, EditInv, ShapeOK, WorkOK, NoWork
  <2>3. WorkOK(r)'
    BY <1>1, <1>2, <2>2 DEF WorkOK, OnEntry, OnTimes, Deciding, Quiet
  <2>4. ~overlap => FreshOK(r)'
    <3>1. ~overlap => FreshOK(r)
      BY DEF EditInv
    <3>. QED  BY <1>1, <2>1, <2>2, <3>1 DEF FreshOK, Deciders, Quiet
  <2>. QED  BY <1>1, <1>2, <2>2, <2>3, <2>4, QuietPreserves
<1>. QED  BY <1>3, <1>4

\* A review goes on only with a correction that has been requested.
LEMMA ReadCorrectionStep ==
  ASSUME EditInv, NEW r \in Requests, ReadCorrection(r)
  PROVE  EditInv'
<1>1. pc[r] = "readCorrection" /\ Quiet
  BY DEF ReadCorrection, At, Quiet, tables, trails, bounds
<1>2. Alone(r) /\ WorkOK(r)
  BY <1>1, InProgressAlone DEF EditInv
<1>3. CASE Respond(r)
  BY <1>1, <1>2, <1>3, RespondPreserves
<1>4. CASE ~Respond(r)
  <2>1. PICK row : row = corrections[loc[r].correction]
    OBVIOUS
  <2>2. /\ row.status = "pending"
        /\ loc' = [loc EXCEPT ![r].entry = row.entry, ![r].edit = row.wish]
        /\ Goto(r, IF loc[r].kind = "approve" THEN "readEntry" ELSE "setStatus")
    BY <1>4, <2>1 DEF ReadCorrection, Is
  <2>3. /\ OthersAlone(r) /\ DOMAIN loc'[r] = DOMAIN NoWork
        /\ pc'[r] = IF loc[r].kind = "approve" THEN "readEntry" ELSE "setStatus"
        /\ loc'[r].entry = row.entry /\ loc'[r].edit = row.wish
        /\ loc'[r].kind = loc[r].kind /\ loc'[r].source = loc[r].source
        /\ loc'[r].correction = loc[r].correction
    BY <1>2, <2>2 DEF OthersAlone, Goto, EditInv, ShapeOK, WorkOK, NoWork
  <2>4. /\ loc[r].kind \in {"approve", "reject"}
        /\ row.entry \in Entries /\ row.wish.in \in {Keep} \cup Times
    BY <1>1, <1>2, <2>1, <2>2 DEF WorkOK, EditInv, ShapeOK
  <2>5. WorkOK(r)'
    BY <1>1, <1>2, <2>1, <2>2, <2>3, <2>4 DEF WorkOK, OnEntry, OnTimes, Deciding, Quiet
  <2>6. FreshOK(r)'
    BY <2>3 DEF FreshOK, Deciders
  <2>. QED  BY <1>1, <1>2, <2>3, <2>5, <2>6, QuietPreserves
<1>. QED  BY <1>3, <1>4

\* A lock goes on only when it counted no open entry.
LEMMA PeriodSteps ==
  ASSUME EditInv, NEW r \in Requests, ReadPeriod(r) \/ CountOpen(r)
  PROVE  EditInv'
<1>1. pc[r] \in {"readPeriod", "countOpen"} /\ Quiet
  BY DEF ReadPeriod, CountOpen, At, Quiet, tables, trails, bounds
<1>2. Alone(r) /\ WorkOK(r)
  BY <1>1, InProgressAlone DEF EditInv
<1>3. CASE Respond(r)
  BY <1>1, <1>2, <1>3, RespondPreserves
<1>4. CASE ~Respond(r)
  <2>1. PICK stage : /\ Goto(r, stage) /\ UNCHANGED loc
                     /\ \/ stage = "countOpen"
                        \/ stage = "setLock" /\ loc[r].kind = "unlock"
                        \/ stage = "setLock" /\ OpenIn(loc[r].period) = {}
    BY <1>4 DEF ReadPeriod, CountOpen, Is
  <2>2. OthersAlone(r) /\ pc'[r] = stage
    BY <2>1 DEF OthersAlone, Goto, EditInv, ShapeOK
  <2>3. WorkOK(r)'
    BY <1>2, <2>1, <2>2 DEF WorkOK, OnEntry, OnTimes, Deciding
  <2>4. OpenIn(loc[r].period)' = OpenIn(loc[r].period)
    BY <1>1, <2>1 DEF OpenIn, Quiet
  <2>5. FreshOK(r)'
    BY <2>1, <2>2, <2>4 DEF FreshOK, Deciders
  <2>. QED  BY <1>1, <1>2, <2>2, <2>3, <2>5, QuietPreserves
<1>. QED  BY <1>3, <1>4

\* The audit rows nothing depends on, and failures, end a handler.
LEMMA EndingSteps ==
  ASSUME EditInv, NEW r \in Requests,
         AuditBreak(r) \/ AuditRequest(r) \/ AuditReview(r) \/ AuditLock(r) \/ Fail(r)
  PROVE  EditInv'
<1>1. pc[r] # "idle" /\ Quiet /\ Respond(r)
  BY DEF AuditBreak, AuditRequest, AuditReview, AuditLock, Fail, At, Quiet, tables, trails, bounds
<1>. QED  BY <1>1, InProgressAlone, RespondPreserves

-----------------------------------------------------------------------------
(* The steps that write *)

\* Columns of an entry are written.
LEMMA EntryWritten ==
  ASSUME EditInv, NEW r \in Requests, OthersAlone(r), NEW e \in Entries, NEW row,
         DOMAIN row = DOMAIN NoRow, row.in \in Times, entries' = [entries EXCEPT ![e] = row],
         UNCHANGED <<breaks, corrections, periods, entryTrail>>
  PROVE  ShapeOK' /\ Grows
<1>1. /\ DOMAIN entries' = Entries /\ entries'[e] = row
      /\ \A f \in Entries \ {e} : entries'[f] = entries[f]
  BY DEF EditInv, ShapeOK
<1>2. \A f \in Entries : DOMAIN entries'[f] = DOMAIN NoRow /\ entries'[f].in \in Times
  BY <1>1 DEF EditInv, ShapeOK
<1>3. ShapeOK'
  BY <1>1, <1>2 DEF EditInv, ShapeOK, OthersAlone
<1>. QED  BY <1>3 DEF Grows

\* The update writes the entry whose guard has passed.
LEMMA UpdateEntryStep ==
  ASSUME EditInv, NEW r \in Requests, UpdateEntry(r)
  PROVE  EditInv'
<1>1. PICK e, row :
        /\ e = loc[r].entry
        /\ row = [entries[e] EXCEPT !.in = NewIn(entries[e], loc[r].edit),
                                    !.out = NewOut(entries[e], loc[r].edit),
                                    !.edited = TRUE]
        /\ pc[r] = "updateEntry" /\ entries' = [entries EXCEPT ![e] = row]
        /\ loc' = [loc EXCEPT ![r].after = row] /\ Goto(r, "auditEdit")
  BY DEF UpdateEntry, At
<1>2. UNCHANGED <<breaks, corrections, periods, entryTrail, overlap>>
  BY DEF UpdateEntry, trails, bounds
<1>3. Alone(r) /\ WorkOK(r) /\ e \in Entries /\ loc[r].edit.in \in {Keep} \cup Times
  BY <1>1, InProgressAlone DEF EditInv, WorkOK, OnEntry, OnTimes
<1>4. DOMAIN row = DOMAIN NoRow /\ row.in = NewIn(entries[e], loc[r].edit)
  BY <1>1, <1>3 DEF EditInv, ShapeOK, NoRow
<1>5. row.in \in Times
  BY <1>3, <1>4 DEF NewIn, EditInv, ShapeOK
<1>6. /\ OthersAlone(r) /\ pc'[r] = "auditEdit" /\ DOMAIN loc'[r] = DOMAIN NoWork
      /\ loc'[r].kind = loc[r].kind /\ loc'[r].source = loc[r].source
      /\ loc'[r].entry = loc[r].entry /\ loc'[r].correction = loc[r].correction
  BY <1>1, <1>3 DEF OthersAlone, Goto, EditInv, ShapeOK, WorkOK, NoWork
<1>7. ShapeOK' /\ Grows
  BY <1>1, <1>2, <1>3, <1>4, <1>5, <1>6, EntryWritten
<1>8. WorkOK(r)'
  BY <1>1, <1>2, <1>3, <1>6 DEF WorkOK, OnEntry, OnTimes, Deciding
<1>9. FreshOK(r)'
  BY <1>6 DEF FreshOK, Deciders
<1>. QED  BY <1>2, <1>3, <1>6, <1>7, <1>8, <1>9, StepPreserves

\* The edited flag and the paid mark are written where nothing has been decided.
LEMMA MarkSteps ==
  ASSUME EditInv, NEW r \in Requests, FlagEntry(r) \/ SetPaid(r)
  PROVE  EditInv'
<1>1. PICK e, row, stage :
        /\ e = loc[r].entry
        /\ \/ row = [entries[e] EXCEPT !.edited = TRUE]
           \/ row = [entries[e] EXCEPT !.paid = Is(r, {"pay"})]
        /\ entries' = [entries EXCEPT ![e] = row] /\ UNCHANGED loc /\ Goto(r, stage)
        /\ stage \in {"auditBreak", "auditPaid"} /\ pc[r] \in {"flagEntry", "setPaid"}
  BY DEF FlagEntry, SetPaid, At
<1>2. UNCHANGED <<breaks, corrections, periods, entryTrail, overlap>>
  BY DEF FlagEntry, SetPaid, trails, bounds
<1>3. Alone(r) /\ WorkOK(r) /\ e \in Entries
  BY <1>1, InProgressAlone DEF EditInv, WorkOK, OnEntry
<1>4. DOMAIN row = DOMAIN NoRow /\ row.in \in Times
  BY <1>1, <1>3 DEF EditInv, ShapeOK, NoRow
<1>5. OthersAlone(r) /\ pc'[r] = stage
  BY <1>1 DEF OthersAlone, Goto, EditInv, ShapeOK
<1>6. ShapeOK' /\ Grows
  BY <1>1, <1>2, <1>3, <1>4, <1>5, EntryWritten
<1>7. WorkOK(r)'
  BY <1>1, <1>3, <1>5 DEF WorkOK, OnEntry, OnTimes, Deciding
<1>8. FreshOK(r)'
  BY <1>1, <1>5 DEF FreshOK, Deciders
<1>. QED  BY <1>2, <1>3, <1>5, <1>6, <1>7, <1>8, StepPreserves

\* The break is written on the entry whose guard has passed.
LEMMA WriteBreakStep ==
  ASSUME EditInv, NEW r \in Requests, WriteBreak(r)
  PROVE  EditInv'
<1>1. /\ pc[r] = "writeBreak" /\ UNCHANGED <<entries, corrections, periods, entryTrail, overlap, loc>>
      /\ Goto(r, "flagEntry") /\ breaks' = [breaks EXCEPT ![loc[r].entry] = loc[r].edit]
  BY DEF WriteBreak, At, trails, bounds
<1>2. Alone(r) /\ WorkOK(r)
  BY <1>1, InProgressAlone DEF EditInv
<1>3. OthersAlone(r) /\ pc'[r] = "flagEntry"
  BY <1>1 DEF OthersAlone, Goto, EditInv, ShapeOK
<1>4. Grows
  BY <1>1 DEF Grows
<1>5. ShapeOK'
  BY <1>1, <1>3 DEF EditInv, ShapeOK, OthersAlone
<1>6. WorkOK(r)'
  BY <1>1, <1>2, <1>3 DEF WorkOK, OnEntry, OnTimes, Deciding
<1>7. FreshOK(r)'
  BY <1>3 DEF FreshOK, Deciders
<1>. QED  BY <1>1, <1>2, <1>3, <1>4, <1>5, <1>6, <1>7, StepPreserves

\* An audit row of an entry.
LEMMA RowWritten ==
  ASSUME EditInv, NEW r \in Requests, OthersAlone(r), NEW e \in Entries, NEW action, NEW reason,
         NEW old, NEW new, AuditEntry(e, action, reason, old, new),
         UNCHANGED <<entries, breaks, corrections, periods>>
  PROVE  /\ ShapeOK' /\ Grows
         /\ \E k \in DOMAIN entryTrail'[e] : entryTrail'[e][k].reason = reason
<1>a. PICK row : row = [action |-> action, reason |-> reason, old |-> old, new |-> new]
  OBVIOUS
<1>1. PICK S : entryTrail \in [Entries -> Seq(S)]
  BY DEF EditInv, ShapeOK
<1>2. entryTrail[e] \in Seq(S \cup {row})
  BY <1>1
<1>3. entryTrail' = [entryTrail EXCEPT ![e] = Append(entryTrail[e], row)]
  BY <1>a DEF AuditEntry
<1>4. /\ entryTrail'[e] = Append(entryTrail[e], row)
      /\ \A f \in Entries \ {e} : entryTrail'[f] = entryTrail[f]
  BY <1>1, <1>3
<1>5. /\ Len(entryTrail[e]) \in Nat /\ DOMAIN entryTrail[e] = 1..Len(entryTrail[e])
      /\ DOMAIN entryTrail'[e] = 1..(Len(entryTrail[e]) + 1)
      /\ entryTrail'[e][Len(entryTrail[e]) + 1] = row
      /\ \A k \in 1..Len(entryTrail[e]) : entryTrail'[e][k] = entryTrail[e][k]
      /\ entryTrail'[e] \in Seq(S \cup {row})
  BY <1>2, <1>4
<1>6. entryTrail' \in [Entries -> Seq(S \cup {row})]
  <2>1. \A f \in Entries : entryTrail'[f] \in Seq(S \cup {row})
    BY <1>1, <1>4, <1>5
  <2>. QED  BY <1>1, <1>3, <2>1
<1>7. ShapeOK'
  BY <1>6 DEF EditInv, ShapeOK, OthersAlone
<1>8. Grows
  BY <1>4, <1>5 DEF Grows
<1>9. entryTrail'[e][Len(entryTrail[e]) + 1].reason = reason
  BY <1>5, <1>a
<1>. QED  BY <1>5, <1>7, <1>8, <1>9

\* An approval is recorded on its entry before the correction reads approved.
LEMMA AuditEditStep ==
  ASSUME EditInv, NEW r \in Requests, AuditEdit(r)
  PROVE  EditInv'
<1>1. PICK e, c, source, old, new :
        /\ e = loc[r].entry /\ c = loc[r].correction /\ AuditEntry(e, source, c, old, new)
  BY DEF AuditEdit
<1>2. pc[r] = "auditEdit" /\ UNCHANGED <<entries, breaks, corrections, periods, overlap>>
  BY DEF AuditEdit, At, tables, bounds
<1>3. Alone(r) /\ WorkOK(r) /\ e \in Entries
  BY <1>1, <1>2, InProgressAlone DEF EditInv, WorkOK, OnEntry
<1>4. \A d \in CorrectionIds : corrections'[d].status = "approved" => corrections[d].status = "approved"
  BY <1>2
<1>5. CASE Respond(r)
  <2>1. OthersAlone(r) /\ WorkOK(r)' /\ FreshOK(r)'
    BY <1>5, RespondOK
  <2>2. ShapeOK' /\ Grows
    BY <1>1, <1>2, <1>3, <2>1, RowWritten
  <2>. QED  BY <1>2, <1>3, <1>4, <2>1, <2>2, StepPreserves
<1>6. CASE loc[r].kind = "approve" /\ Goto(r, "setStatus") /\ UNCHANGED loc
  <2>1. OthersAlone(r) /\ pc'[r] = "setStatus"
    BY <1>6 DEF OthersAlone, Goto, EditInv, ShapeOK
  <2>2. /\ ShapeOK' /\ Grows
        /\ \E k \in DOMAIN entryTrail'[e] : entryTrail'[e][k].reason = c
    BY <1>1, <1>2, <1>3, <2>1, RowWritten
  <2>3. corrections[c].entry = e /\ c \in CorrectionIds
    BY <1>1, <1>2, <1>3, <1>6 DEF WorkOK, Deciding
  <2>4. Applied(c)' # {}
    BY <1>2, <2>2, <2>3 DEF Applied
  <2>5. loc'[r].correction = c
    BY <1>1, <1>6
  <2>6. Applied(loc[r].correction)' # {}
    BY <2>4, <2>5
  <2>7. WorkOK(r)'
    BY <1>2, <1>3, <1>6, <2>1, <2>6 DEF WorkOK, OnEntry, OnTimes, Deciding
  <2>8. FreshOK(r)'
    BY <2>1 DEF FreshOK, Deciders
  <2>. QED  BY <1>2, <1>3, <1>4, <2>1, <2>2, <2>7, <2>8, StepPreserves
<1>. QED  BY <1>5, <1>6 DEF AuditEdit, Is

\* So is a paid mark.
LEMMA AuditPaidStep ==
  ASSUME EditInv, NEW r \in Requests, AuditPaid(r)
  PROVE  EditInv'
<1>1. PICK e, action, old, new : e = loc[r].entry /\ AuditEntry(e, action, None, old, new)
  BY DEF AuditPaid
<1>2. /\ pc[r] = "auditPaid" /\ UNCHANGED <<entries, breaks, corrections, periods, overlap>>
      /\ Respond(r)
  BY DEF AuditPaid, At, tables, bounds
<1>3. Alone(r) /\ OthersAlone(r) /\ WorkOK(r)' /\ FreshOK(r)'
  BY <1>2, InProgressAlone, RespondOK
<1>4. e \in Entries
  BY <1>1, <1>2 DEF EditInv, WorkOK, OnEntry
<1>5. ShapeOK' /\ Grows
  BY <1>1, <1>2, <1>3, <1>4, RowWritten
<1>. QED  BY <1>2, <1>3, <1>5, StepPreserves

\* A requested correction gets a number that is free.
LEMMA InsertCorrectionStep ==
  ASSUME EditInv, NEW r \in Requests, InsertCorrection(r)
  PROVE  EditInv'
<1>1. PICK c \in CorrectionIds,
           row \in {[entry |-> loc[r].entry, wish |-> loc[r].edit, status |-> "pending"]} :
        /\ corrections[c].status = "none"
        /\ corrections' = [corrections EXCEPT ![c] = row]
        /\ loc' = [loc EXCEPT ![r].correction = c]
  BY DEF InsertCorrection
<1>2. /\ pc[r] = "insertCorrection" /\ Goto(r, "auditRequest")
      /\ UNCHANGED <<entries, breaks, periods, entryTrail, overlap>>
  BY DEF InsertCorrection, At, trails, bounds
<1>3. Alone(r) /\ WorkOK(r) /\ loc[r].entry \in Entries /\ loc[r].edit.in \in {Keep} \cup Times
  BY <1>2, InProgressAlone DEF EditInv, WorkOK, OnEntry, OnTimes
<1>4. /\ OthersAlone(r) /\ pc'[r] = "auditRequest" /\ DOMAIN loc'[r] = DOMAIN NoWork
      /\ loc'[r].kind = loc[r].kind /\ loc'[r].source = loc[r].source
      /\ loc'[r].correction = c
  BY <1>1, <1>2, <1>3 DEF OthersAlone, Goto, EditInv, ShapeOK, WorkOK, NoWork
<1>5. /\ DOMAIN corrections' = CorrectionIds /\ corrections'[c] = row
      /\ \A d \in CorrectionIds \ {c} : corrections'[d] = corrections[d]
  BY <1>1 DEF EditInv, ShapeOK
<1>6. /\ DOMAIN row = DOMAIN NoCorrection /\ row.status = "pending"
      /\ row.entry \in Entries /\ row.wish.in \in {Keep} \cup Times
  BY <1>1, <1>3 DEF NoCorrection
<1>7. ShapeOK'
  BY <1>2, <1>4, <1>5, <1>6 DEF EditInv, ShapeOK, OthersAlone
<1>8. Grows
  BY <1>1, <1>2, <1>5 DEF Grows
<1>9. WorkOK(r)'
  BY <1>3, <1>4 DEF WorkOK, OnEntry, OnTimes, Deciding
<1>10. FreshOK(r)'
  BY <1>4 DEF FreshOK, Deciders
<1>11. \A d \in CorrectionIds : corrections'[d].status = "approved" => corrections[d].status = "approved"
  BY <1>5, <1>6
<1>. QED  BY <1>2, <1>3, <1>4, <1>7, <1>8, <1>9, <1>10, <1>11, StepPreserves

\* Whoever writes "approved" has applied the correction before.
LEMMA SetStatusStep ==
  ASSUME EditInv, NEW r \in Requests, SetStatus(r)
  PROVE  EditInv'
<1>1. PICK c, status :
        /\ c = loc[r].correction /\ status = IF loc[r].kind = "approve" THEN "approved" ELSE "rejected"
        /\ corrections' = [corrections EXCEPT ![c].status = status]
  BY DEF SetStatus, Is
<1>2. /\ pc[r] = "setStatus" /\ Goto(r, "auditReview") /\ UNCHANGED loc
      /\ UNCHANGED <<entries, breaks, periods, entryTrail, overlap>>
  BY DEF SetStatus, At, trails, bounds
<1>3. Alone(r) /\ WorkOK(r)
  BY <1>2, InProgressAlone DEF EditInv
<1>4. OthersAlone(r) /\ pc'[r] = "auditReview"
  BY <1>2 DEF OthersAlone, Goto, EditInv, ShapeOK
<1>5. /\ DOMAIN corrections' = CorrectionIds
      /\ \A d \in CorrectionIds : /\ DOMAIN corrections'[d] = DOMAIN NoCorrection
                                  /\ corrections'[d].entry = corrections[d].entry
                                  /\ corrections'[d].wish = corrections[d].wish
                                  /\ d # c => corrections'[d] = corrections[d]
                                  /\ d = c => corrections'[d].status = status
  BY <1>1 DEF EditInv, ShapeOK, NoCorrection
<1>6. c \in CorrectionIds /\ corrections[c].status # "none"
  BY <1>1, <1>2, <1>3 DEF WorkOK, Deciding
<1>7. status # "none" /\ \A d \in CorrectionIds :
        corrections'[d].status # "none" <=> corrections[d].status # "none"
  BY <1>1, <1>5, <1>6
<1>8. ShapeOK'
  BY <1>2, <1>4, <1>5, <1>7 DEF EditInv, ShapeOK, OthersAlone
<1>9. Grows
  BY <1>2, <1>5, <1>7 DEF Grows
<1>10. WorkOK(r)'
  BY <1>2, <1>3, <1>4 DEF WorkOK, OnEntry, OnTimes, Deciding
<1>11. FreshOK(r)'
  BY <1>4 DEF FreshOK, Deciders
<1>12. ASSUME NEW d \in CorrectionIds, corrections'[d].status = "approved"
       PROVE  corrections[d].status = "approved" \/ Applied(d)' # {}
  <2>1. CASE d # c
    BY <1>5, <1>12, <2>1
  <2>2. CASE d = c
    <3>1. loc[r].kind = "approve"
      BY <1>1, <1>5, <1>12, <2>2
    <3>2. Applied(d) # {}
      BY <1>1, <1>2, <1>3, <2>2, <3>1 DEF WorkOK, Deciding
    <3>3. Applied(d)' # {}
      BY <1>6, <1>9, <2>2, <3>2, AppliedStays DEF EditInv
    <3>. QED  BY <3>3
  <2>. QED  BY <2>1, <2>2
<1>. QED  BY <1>2, <1>3, <1>4, <1>8, <1>9, <1>10, <1>11, <1>12, StepPreserves

\* A period is locked, or opened, by the handler that counted its open entries.
LEMMA SetLockStep ==
  ASSUME EditInv, NEW r \in Requests, SetLock(r)
  PROVE  EditInv'
<1>1. /\ pc[r] = "setLock" /\ Goto(r, "auditLock") /\ UNCHANGED loc
      /\ UNCHANGED <<entries, breaks, corrections, entryTrail, overlap>>
      /\ DOMAIN periods' = DOMAIN periods
  BY DEF SetLock, At, trails, bounds
<1>2. Alone(r) /\ WorkOK(r)
  BY <1>1, InProgressAlone DEF EditInv
<1>3. OthersAlone(r) /\ pc'[r] = "auditLock"
  BY <1>1 DEF OthersAlone, Goto, EditInv, ShapeOK
<1>4. Grows
  BY <1>1 DEF Grows
<1>5. ShapeOK'
  BY <1>1, <1>3 DEF EditInv, ShapeOK, OthersAlone
<1>6. WorkOK(r)'
  BY <1>1, <1>2, <1>3 DEF WorkOK, OnEntry, OnTimes, Deciding
<1>7. FreshOK(r)'
  BY <1>3 DEF FreshOK, Deciders
<1>. QED  BY <1>1, <1>2, <1>3, <1>4, <1>5, <1>6, <1>7, StepPreserves

-----------------------------------------------------------------------------
(* The steps of nobody's request *)

\* The clock, and a period that comes to be, disturb no request: it is not a locked one.
LEMMA BackgroundSteps ==
  ASSUME EditInv, UNCHANGED <<entries, breaks, corrections, entryTrail, pc, loc, overlap>>,
         \/ UNCHANGED periods
         \/ periods' = [periods EXCEPT ![PeriodOf(now)] = "open"]
  PROVE  EditInv'
<1>1. Grows
  BY DEF Grows
<1>2. ShapeOK'
  BY DEF EditInv, ShapeOK
<1>3. \A s \in Requests : WorkOK(s)'
  BY <1>1, OthersKeep
<1>4. ApprovedWasApplied'
  BY DEF EditInv, ApprovedWasApplied, Applied
<1>5. \A p \in Periods : periods'[p] = "locked" => periods[p] = "locked"
  BY DEF EditInv, ShapeOK
<1>6. ASSUME ~overlap, NEW s \in Requests PROVE FreshOK(s)'
  <2>1. FreshOK(s) /\ WorkOK(s)
    BY <1>6 DEF EditInv
  <2>2. ASSUME pc[s] \in {"updateEntry", "writeBreak"}
        PROVE  periods'[PeriodOf(entries[loc[s].entry].in)] # "locked"
    <3>1. loc[s].entry \in Entries
      BY <2>1, <2>2 DEF WorkOK, OnEntry
    <3>2. PeriodOf(entries[loc[s].entry].in) \in Periods
      BY <3>1, PeriodOfTimes DEF EditInv, ShapeOK
    <3>. QED  BY <1>5, <2>1, <2>2, <3>2 DEF FreshOK
  <2>3. OpenIn(loc[s].period)' = OpenIn(loc[s].period)
    BY DEF OpenIn
  <2>. QED  BY <2>1, <2>2, <2>3 DEF FreshOK
<1>7. ~overlap => AloneOK'
  BY DEF EditInv, AloneOK
<1>. QED  BY <1>2, <1>3, <1>4, <1>6, <1>7 DEF EditInv

-----------------------------------------------------------------------------
(* The theorems *)

\* Nothing is in progress in the beginning ...
LEMMA EditInit == Init => EditInv
<1>. SUFFICES ASSUME Init PROVE EditInv
  OBVIOUS
<1>1. \A e \in Entries : DOMAIN entries[e] = DOMAIN NoRow /\ entries[e].in \in 1..StartTime
  BY DEF Init, NoRow
<1>2. 1..StartTime \subseteq Times
  BY BoundsAssumption DEF Times
<1>3. ShapeOK
  BY <1>1, <1>2 DEF Init, ShapeOK, NoCorrection
<1>4. \A r \in Requests : WorkOK(r) /\ FreshOK(r)
  BY DEF Init, WorkOK, FreshOK, NoWork, OnEntry, OnTimes, Deciding, Deciders
<1>5. ApprovedWasApplied
  BY DEF Init, ApprovedWasApplied, NoCorrection
<1>6. AloneOK
  BY DEF Init, AloneOK
<1>. QED  BY <1>3, <1>4, <1>5, <1>6 DEF EditInv

\* ... and every step of every handler keeps the invariant.
LEMMA EditNext == EditInv /\ [Next]_vars => EditInv'
<1>. SUFFICES ASSUME EditInv, [Next]_vars PROVE EditInv'
  OBVIOUS
<1>1. CASE Tick
  BY <1>1, BackgroundSteps DEF Tick, tables, trails, bounds
<1>2. CASE OpenPeriods
  BY <1>2, BackgroundSteps DEF OpenPeriods, trails, bounds
<1>3. ASSUME NEW r \in Requests, HandlerStep(r) PROVE EditInv'
  BY <1>3, ReadEntryStep, GuardStep, UpdateEntryStep, AuditEditStep, GuardBreakStep,
     WriteBreakStep, MarkSteps, AuditPaidStep, InsertCorrectionStep, ReadCorrectionStep,
     SetStatusStep, PeriodSteps, SetLockStep, EndingSteps DEF HandlerStep
<1>4. ASSUME NEW r \in Requests, ArriveAny(r) \/ Fail(r) PROVE EditInv'
  BY <1>4, ArriveStep, EndingSteps
<1>5. CASE UNCHANGED vars
  BY <1>5, BackgroundSteps DEF vars, tables, trails, bounds
<1>. QED  BY <1>1, <1>2, <1>3, <1>4, <1>5 DEF Next

\* The shape of the tables, what each request has in hand, and, with one request in
\* progress at a time, that what it read before it decided is still so when it writes.
THEOREM EditInvariant == Spec => []EditInv
BY EditInit, EditNext, PTL DEF Spec

\* A correction that reads "approved" has an edit of its entry on record that was made for it,
\* however many reviews and edits overlap and wherever one is cut short.
THEOREM ApprovedAlwaysApplied == Spec => []ApprovedWasApplied
<1>1. EditInv => ApprovedWasApplied
  BY DEF EditInv
<1>. QED  BY <1>1, EditInvariant, PTL

\* Which statements write the times of an entry or its break.
LEMMA WhoWrites ==
  ASSUME EditInv, [Next]_vars, NEW e \in Entries, Recorded(e)' # Recorded(e)
  PROVE  \E r \in Requests : /\ UpdateEntry(r) \/ WriteBreak(r)
                             /\ loc[r].entry = e
<1>1. ~(UNCHANGED <<entries, breaks>>)
  BY DEF Recorded, View
<1>2. PICK r \in Requests : UpdateEntry(r) \/ WriteBreak(r) \/ FlagEntry(r) \/ SetPaid(r)
  BY <1>1 DEF Next, Tick, OpenPeriods, ArriveAny, ArriveWith, Arrive, HandlerStep, ReadEntry, Guard,
     AuditEdit, GuardBreak, AuditBreak, AuditPaid, InsertCorrection, AuditRequest, ReadCorrection,
     SetStatus, AuditReview, ReadPeriod, CountOpen, SetLock, AuditLock, Fail, tables, trails, bounds, vars
<1>3. WorkOK(r)
  BY DEF EditInv
<1>4. CASE UpdateEntry(r) \/ WriteBreak(r)
  <2>1. ASSUME loc[r].entry # e PROVE UNCHANGED <<entries[e], breaks[e]>>
    BY <1>4, <2>1 DEF UpdateEntry, WriteBreak, EditInv, ShapeOK
  <2>. QED  BY <1>4, <2>1 DEF Recorded, View
<1>5. CASE FlagEntry(r) \/ SetPaid(r)
  <2>1. UNCHANGED breaks
    BY <1>5 DEF FlagEntry, SetPaid
  <2>2. entries'[e].in = entries[e].in /\ entries'[e].out = entries[e].out
    <3>1. PICK f, row : /\ f = loc[r].entry /\ entries' = [entries EXCEPT ![f] = row]
                        /\ \/ row = [entries[f] EXCEPT !.edited = TRUE]
                           \/ row = [entries[f] EXCEPT !.paid = Is(r, {"pay"})]
      BY <1>5 DEF FlagEntry, SetPaid
    <3>2. DOMAIN entries = Entries /\ DOMAIN entries[e] = DOMAIN NoRow
      BY DEF EditInv, ShapeOK
    <3>3. CASE e # f
      BY <3>1, <3>2, <3>3
    <3>4. CASE e = f
      <4>1. entries'[e] = row
        BY <3>1, <3>2, <3>4
      <4>2. row.in = entries[e].in /\ row.out = entries[e].out
        BY <3>1, <3>2, <3>4 DEF NoRow
      <4>. QED  BY <4>1, <4>2
    <3>. QED  BY <3>3, <3>4
  <2>. QED  BY <2>1, <2>2 DEF Recorded, View
<1>. QED  BY <1>2, <1>4, <1>5

\* With one request in progress at a time, an entry in a period that is and stays locked
\* keeps its times and its break.
THEOREM LocksHold == Spec => LockedEntriesKept
<1>1. EditInv /\ [Next]_vars =>
        [~overlap => \A e \in Entries :
           LET p == PeriodOf(entries[e].in) IN
           periods[p] = "locked" /\ periods'[p] = "locked" => Recorded(e)' = Recorded(e)]_vars
  <2>1. SUFFICES ASSUME EditInv, [Next]_vars, ~overlap, NEW e \in Entries,
                        periods[PeriodOf(entries[e].in)] = "locked", Recorded(e)' # Recorded(e)
                 PROVE  FALSE
    OBVIOUS
  <2>2. PICK r \in Requests : (UpdateEntry(r) \/ WriteBreak(r)) /\ loc[r].entry = e
    BY <2>1, WhoWrites
  <2>3. FreshOK(r) /\ pc[r] \in {"updateEntry", "writeBreak"}
    BY <2>1, <2>2 DEF EditInv, UpdateEntry, WriteBreak, At
  <2>. QED  BY <2>1, <2>2, <2>3 DEF FreshOK
<1>. QED  BY <1>1, EditInvariant, PTL DEF Spec, LockedEntriesKept

\* With one request in progress at a time, only a manager's edit or an approved correction
\* changes a paid entry.
THEOREM PaidStaysSettled == Spec => PaidIsSettled
<1>1. EditInv /\ [Next]_vars =>
        [~overlap => \A e \in Entries :
           entries[e].paid /\ Recorded(e)' # Recorded(e) =>
             \E r \in Requests : loc[r].entry = e /\ loc[r].source # "self_edit"]_vars
  <2>1. SUFFICES ASSUME EditInv, [Next]_vars, ~overlap, NEW e \in Entries,
                        entries[e].paid, Recorded(e)' # Recorded(e)
                 PROVE  \E r \in Requests : loc[r].entry = e /\ loc[r].source # "self_edit"
    OBVIOUS
  <2>2. PICK r \in Requests : (UpdateEntry(r) \/ WriteBreak(r)) /\ loc[r].entry = e
    BY <2>1, WhoWrites
  <2>3. FreshOK(r) /\ pc[r] \in {"updateEntry", "writeBreak"}
    BY <2>1, <2>2 DEF EditInv, UpdateEntry, WriteBreak, At
  <2>. QED  BY <2>1, <2>2, <2>3 DEF FreshOK, Deciders
<1>. QED  BY <1>1, EditInvariant, PTL DEF Spec, PaidIsSettled

\* With one request in progress at a time, all entries of a period have ended when it is
\* locked.
THEOREM LockedHaveEnded == Spec => NothingOpenIsLocked
<1>1. EditInv /\ [Next]_vars =>
        [~overlap => \A p \in Periods :
           periods[p] # "locked" /\ periods'[p] = "locked" => OpenIn(p) = {}]_vars
  <2>1. SUFFICES ASSUME EditInv, [Next]_vars, ~overlap, NEW p \in Periods,
                        periods[p] # "locked", periods'[p] = "locked"
                 PROVE  OpenIn(p) = {}
    OBVIOUS
  <2>2. ~OpenPeriods
    BY <2>1 DEF OpenPeriods, EditInv, ShapeOK
  <2>3. PICK r \in Requests : SetLock(r)
    BY <2>1, <2>2 DEF Next, Tick, ArriveAny, ArriveWith, Arrive, HandlerStep, ReadEntry, Guard,
       UpdateEntry, WriteBreak, FlagEntry, SetPaid,
       AuditEdit, GuardBreak, AuditBreak, AuditPaid, InsertCorrection, AuditRequest, ReadCorrection,
       SetStatus, AuditReview, ReadPeriod, CountOpen, AuditLock, Fail, tables, trails, bounds, vars
  <2>4. loc[r].period = p /\ loc[r].kind = "lock"
    BY <2>1, <2>3 DEF SetLock, Is, EditInv, ShapeOK
  <2>5. FreshOK(r) /\ pc[r] = "setLock"
    BY <2>1, <2>3 DEF EditInv, SetLock, At
  <2>. QED  BY <2>4, <2>5 DEF FreshOK
<1>. QED  BY <1>1, EditInvariant, PTL DEF Spec, NothingOpenIsLocked

-----------------------------------------------------------------------------
(* Types *)

\* What a break is written with has been completed, and a correction asks for times.
Typed(r) ==
  /\ pc[r] = "writeBreak" => loc[r].edit \in BreakRows
  /\ pc[r] = "insertCorrection" => loc[r].kind = "request"
  /\ pc[r] = "guardBreak" => loc[r].kind = "break"
  /\ loc[r].kind = "request" => loc[r].edit \in Wishes

TypeInv == TypeOK /\ \A r \in Requests : Typed(r)

TablesOK ==
  /\ entries \in [Entries -> EntryRows] /\ breaks \in [Entries -> BreakRows]
  /\ corrections \in [CorrectionIds -> CorrectionRows \cup {NoCorrection}]
  /\ periods \in [Periods -> {"none", "open", "locked"}]

LEMMA NoWorkTyped == NoWork \in Locals
BY DEF NoWork, Locals, Sources, Edits, NoEdit, Keep, NoBreak, BreakRows, Null

\* Locals of which one field changes.
LEMMA LocalsExcept ==
  ASSUME NEW w \in Locals
  PROVE  /\ \A x \in EntryRows : [w EXCEPT !.row = x] \in Locals /\ [w EXCEPT !.after = x] \in Locals
         /\ \A x \in BreakRows : [w EXCEPT !.brk = x] \in Locals
         /\ \A x \in Edits : [w EXCEPT !.edit = x] \in Locals
         /\ \A x \in Entries : [w EXCEPT !.entry = x] \in Locals
         /\ \A x \in CorrectionIds : [w EXCEPT !.correction = x] \in Locals
         /\ [w EXCEPT !.row = NoRow] \in Locals
BY DEF Locals

\* A request goes to a stage with locals of the right type, and the tables keep theirs.
LEMMA TypeStep ==
  ASSUME TypeInv, NEW r \in Requests, NEW stage \in Stages, NEW w \in Locals,
         Goto(r, stage), loc' = [loc EXCEPT ![r] = w],
         stage = "writeBreak" => w.edit \in BreakRows,
         stage = "insertCorrection" => w.kind = "request",
         stage = "guardBreak" => w.kind = "break",
         w.kind = "request" => w.edit \in Wishes,
         TablesOK', UNCHANGED <<now, overlap>>,
         requests' \in 0..MaxRequests, failures' \in 0..MaxFailures
  PROVE  TypeInv'
<1>1. pc \in [Requests -> Stages] /\ loc \in [Requests -> Locals]
  BY DEF TypeInv, TypeOK
<1>2. pc' \in [Requests -> Stages] /\ loc' \in [Requests -> Locals]
  BY <1>1 DEF Goto
<1>3. TypeOK'
  BY <1>2 DEF TypeInv, TypeOK, TablesOK
<1>4. ASSUME NEW q \in Requests PROVE Typed(q)'
  <2>1. CASE q = r
    BY <1>1, <2>1 DEF Goto, Typed
  <2>2. CASE q # r
    <3>1. Typed(q) /\ pc'[q] = pc[q] /\ loc'[q] = loc[q]
      BY <1>1, <2>2 DEF Goto, TypeInv
    <3>. QED  BY <3>1 DEF Typed
  <2>. QED  BY <2>1, <2>2
<1>. QED  BY <1>3, <1>4 DEF TypeInv

\* A request that is answered.
LEMMA TypeRespond ==
  ASSUME TypeInv, NEW r \in Requests, Respond(r), TablesOK', UNCHANGED <<now, overlap>>,
         requests' \in 0..MaxRequests, failures' \in 0..MaxFailures
  PROVE  TypeInv'
<1>1. NoWork.kind # "request" /\ "idle" \in Stages
  BY DEF NoWork, Stages
<1>. QED  BY <1>1, NoWorkTyped, TypeStep DEF Respond

\* A request that goes on with what it has.
LEMMA TypeGoOn ==
  ASSUME TypeInv, NEW r \in Requests, NEW stage \in Stages, Goto(r, stage), UNCHANGED loc,
         stage \notin {"writeBreak", "insertCorrection", "guardBreak"},
         TablesOK', UNCHANGED <<now, overlap, requests, failures>>
  PROVE  TypeInv'
<1>1. loc \in [Requests -> Locals] /\ loc' = [loc EXCEPT ![r] = loc[r]] /\ Typed(r)
      /\ requests \in 0..MaxRequests /\ failures \in 0..MaxFailures
  BY DEF TypeInv, TypeOK
<1>2. loc[r] \in Locals /\ (loc[r].kind = "request" => loc[r].edit \in Wishes)
  BY <1>1 DEF Typed
<1>. QED  BY <1>1, <1>2, TypeStep

\* Edited times are times.
LEMMA EditedTimes ==
  ASSUME NEW row, row.in \in {Null} \cup Times, row.out \in {Null} \cup Times,
         NEW edit \in Edits
  PROVE  /\ NewIn(row, edit) \in {Null} \cup Times /\ NewOut(row, edit) \in {Null} \cup Times
         /\ row.in \in Times => NewIn(row, edit) \in Times
BY DEF NewIn, NewOut, Edits

LEMMA TypesOfReading ==
  ASSUME EditInv, TypeInv, NEW r \in Requests,
         ReadEntry(r) \/ ReadCorrection(r) \/ Guard(r) \/ GuardBreak(r)
  PROVE  TypeInv'
<1>1. /\ TablesOK' /\ UNCHANGED <<now, overlap, requests, failures>>
      /\ requests' \in 0..MaxRequests /\ failures' \in 0..MaxFailures
  BY DEF TypeInv, TypeOK, TablesOK, ReadEntry, ReadCorrection, Guard, GuardBreak, tables, bounds
<1>2. /\ loc \in [Requests -> Locals] /\ loc[r] \in Locals /\ Typed(r)
      /\ entries \in [Entries -> EntryRows] /\ breaks \in [Entries -> BreakRows]
  BY DEF TypeInv, TypeOK
<1>3. CASE Respond(r)
  BY <1>1, <1>3, TypeRespond
<1>4. CASE ReadEntry(r) /\ ~Respond(r)
  <2>1. loc[r].entry \in Entries
    BY <1>4 DEF ReadEntry, At, EditInv, WorkOK, OnEntry
  <2>2. entries[loc[r].entry] \in EntryRows /\ breaks[loc[r].entry] \in BreakRows
    BY <1>2, <2>1
  <2>3. PICK row \in EntryRows : row = entries[loc[r].entry]
    BY <2>2
  <2>4. PICK brk \in BreakRows : brk = breaks[loc[r].entry]
    BY <2>2
  <2>5. \/ /\ \/ Goto(r, "guard") \/ Goto(r, "setPaid")
              \/ Goto(r, "insertCorrection") /\ loc[r].kind = "request"
           /\ loc' = [loc EXCEPT ![r] = [loc[r] EXCEPT !.row = row]]
        \/ /\ Goto(r, "guardBreak") /\ loc[r].kind = "break"
           /\ loc' = [loc EXCEPT ![r] = [[loc[r] EXCEPT !.row = row] EXCEPT !.brk = brk]]
    BY <1>2, <1>4, <2>3, <2>4 DEF ReadEntry, Is
  <2>6. /\ [loc[r] EXCEPT !.row = row] \in Locals
        /\ [[loc[r] EXCEPT !.row = row] EXCEPT !.brk = brk] \in Locals
    BY <1>2, LocalsExcept
  <2>7. /\ [loc[r] EXCEPT !.row = row].kind = loc[r].kind
        /\ [loc[r] EXCEPT !.row = row].edit = loc[r].edit
        /\ [[loc[r] EXCEPT !.row = row] EXCEPT !.brk = brk].kind = loc[r].kind
        /\ [[loc[r] EXCEPT !.row = row] EXCEPT !.brk = brk].edit = loc[r].edit
    BY <1>2 DEF Locals
  <2>8. loc[r].kind = "request" => loc[r].edit \in Wishes
    BY <1>2 DEF Typed
  <2>9. {"guard", "setPaid", "insertCorrection", "guardBreak"} \subseteq Stages
    BY DEF Stages
  <2>10. CASE loc' = [loc EXCEPT ![r] = [loc[r] EXCEPT !.row = row]] /\ ~Goto(r, "guardBreak")
    <3>1. PICK stage \in {"guard", "setPaid", "insertCorrection"} :
            Goto(r, stage) /\ (stage = "insertCorrection" => loc[r].kind = "request")
      BY <2>5, <2>10
    <3>. QED  BY <1>1, <2>6, <2>7, <2>8, <2>9, <2>10, <3>1, TypeStep
  <2>11. CASE /\ Goto(r, "guardBreak") /\ loc[r].kind = "break"
              /\ loc' = [loc EXCEPT ![r] = [[loc[r] EXCEPT !.row = row] EXCEPT !.brk = brk]]
    BY <1>1, <2>6, <2>7, <2>8, <2>9, <2>11, TypeStep
  <2>12. "guardBreak" \notin {"guard", "setPaid", "insertCorrection"} /\ pc \in [Requests -> Stages]
    BY DEF TypeInv, TypeOK
  <2>13. Goto(r, "guardBreak") => pc'[r] = "guardBreak"
    BY <2>12 DEF Goto
  <2>. QED  BY <2>5, <2>10, <2>11, <2>12, <2>13 DEF Goto
<1>5. CASE ReadCorrection(r) /\ ~Respond(r)
  <2>1. loc[r].correction \in CorrectionIds /\ loc[r].kind \in {"approve", "reject"}
    BY <1>5 DEF ReadCorrection, At, EditInv, WorkOK
  <2>2. corrections[loc[r].correction] \in CorrectionRows \cup {NoCorrection}
    BY <2>1 DEF TypeInv, TypeOK
  <2>3. PICK row \in CorrectionRows : row = corrections[loc[r].correction]
    BY <1>5, <2>2 DEF ReadCorrection, NoCorrection
  <2>4. row.entry \in Entries /\ row.wish \in Edits
    BY DEF CorrectionRows, Wishes, Edits
  <2>. DEFINE w == [[loc[r] EXCEPT !.entry = row.entry] EXCEPT !.edit = row.wish]
  <2>5. w \in Locals
    BY <1>2, <2>4, LocalsExcept
  <2>6. w.kind = loc[r].kind
    BY <1>2 DEF Locals
  <2>7. PICK stage \in {"readEntry", "setStatus"} : Goto(r, stage) /\ loc' = [loc EXCEPT ![r] = w]
    BY <1>2, <1>5, <2>3 DEF ReadCorrection
  <2>8. {"readEntry", "setStatus"} \subseteq Stages
    BY DEF Stages
  <2>. HIDE DEF w
  <2>. QED  BY <1>1, <2>1, <2>5, <2>6, <2>7, <2>8, TypeStep
<1>6. CASE Guard(r) /\ ~Respond(r)
  <2>1. Goto(r, "updateEntry") /\ UNCHANGED loc /\ "updateEntry" \in Stages
    BY <1>6 DEF Guard, Stages
  <2>. QED  BY <1>1, <2>1, TypeGoOn
<1>7. CASE GuardBreak(r) /\ ~Respond(r)
  <2>. DEFINE edit == [in |-> NewIn(loc[r].brk, loc[r].edit), out |-> NewOut(loc[r].brk, loc[r].edit)]
              w == [[loc[r] EXCEPT !.row = NoRow] EXCEPT !.edit = edit]
  <2>1. /\ BreakAccepted(loc[r].row, loc[r].brk, loc[r].edit)
        /\ Goto(r, "writeBreak") /\ ToWrite(r)
    BY <1>7 DEF GuardBreak
  <2>2. loc' = [loc EXCEPT ![r] = w]
    BY <1>2, <2>1 DEF ToWrite, Locals
  <2>3. loc[r].brk \in BreakRows /\ loc[r].edit \in Edits
    BY <1>2 DEF Locals
  <2>4. edit.in \in {Null} \cup Times /\ edit.out \in {Null} \cup Times /\ edit.in # Null
    BY <2>1, <2>3, EditedTimes DEF BreakRows, BreakAccepted
  <2>5. edit \in BreakRows /\ edit \in Edits
    BY <2>4 DEF BreakRows, Edits
  <2>6. w \in Locals
    BY <1>2, <2>5, LocalsExcept
  <2>7. w.edit = edit /\ w.kind = loc[r].kind
    BY <1>2 DEF Locals
  <2>8. loc[r].kind = "break"
    BY <1>2, <1>7 DEF GuardBreak, At, Typed
  <2>. QED  BY <1>1, <2>1, <2>2, <2>5, <2>6, <2>7, <2>8, TypeStep DEF Stages
<1>. QED  BY <1>3, <1>4, <1>5, <1>6, <1>7

\* Statements that leave the tables alone.
LEMMA TypesOfEnding ==
  ASSUME TypeInv, NEW r \in Requests,
         \/ AuditEdit(r) \/ AuditBreak(r) \/ AuditPaid(r) \/ AuditRequest(r) \/ AuditReview(r)
         \/ AuditLock(r) \/ ReadPeriod(r) \/ CountOpen(r)
  PROVE  TypeInv'
<1>1. /\ TablesOK' /\ UNCHANGED <<now, overlap, requests, failures>>
      /\ requests' \in 0..MaxRequests /\ failures' \in 0..MaxFailures
  BY DEF TypeInv, TypeOK, TablesOK, AuditEdit, AuditBreak, AuditPaid, AuditRequest, AuditReview,
         AuditLock, ReadPeriod, CountOpen, tables, bounds
<1>2. \/ Respond(r)
      \/ \E stage \in {"setStatus", "countOpen", "setLock"} : Goto(r, stage) /\ UNCHANGED loc
  BY DEF AuditEdit, AuditBreak, AuditPaid, AuditRequest, AuditReview, AuditLock, ReadPeriod,
         CountOpen
<1>3. {"setStatus", "countOpen", "setLock"} \subseteq Stages
  BY DEF Stages
<1>. QED  BY <1>1, <1>2, <1>3, TypeRespond, TypeGoOn

\* Statements that write a table.
LEMMA TypesOfWriting ==
  ASSUME EditInv, TypeInv, NEW r \in Requests,
         \/ UpdateEntry(r) \/ WriteBreak(r) \/ FlagEntry(r) \/ SetPaid(r)
         \/ InsertCorrection(r) \/ SetStatus(r) \/ SetLock(r)
  PROVE  TypeInv'
<1>1. /\ UNCHANGED <<now, overlap, requests, failures>>
      /\ requests' \in 0..MaxRequests /\ failures' \in 0..MaxFailures
  BY DEF TypeInv, TypeOK, UpdateEntry, WriteBreak, FlagEntry, SetPaid, InsertCorrection,
         SetStatus, SetLock, bounds
<1>2. TablesOK /\ loc[r] \in Locals /\ loc \in [Requests -> Locals] /\ Typed(r)
  BY DEF TypeInv, TypeOK, TablesOK
<1>3. /\ entries \in [Entries -> EntryRows] /\ breaks \in [Entries -> BreakRows]
      /\ corrections \in [CorrectionIds -> CorrectionRows \cup {NoCorrection}]
      /\ periods \in [Periods -> {"none", "open", "locked"}]
  BY <1>2 DEF TablesOK
<1>4. {"auditEdit", "flagEntry", "auditBreak", "auditPaid", "auditRequest", "auditReview",
       "auditLock"} \subseteq Stages
  BY DEF Stages
<1>5. CASE UpdateEntry(r)
  <2>1. loc[r].entry \in Entries
    BY <1>5 DEF UpdateEntry, At, EditInv, WorkOK, OnEntry
  <2>2. PICK e \in Entries : e = loc[r].entry
    BY <2>1
  <2>3. PICK edit \in Edits : edit = loc[r].edit
    BY <1>2 DEF Locals
  <2>4. PICK row \in EntryRows : row = entries[e]
    BY <1>3
  <2>. DEFINE after == [row EXCEPT !.in = NewIn(row, edit), !.out = NewOut(row, edit),
                                   !.edited = TRUE]
  <2>5. /\ row.in \in {Null} \cup Times /\ row.out \in {Null} \cup Times /\ row.in \in Times
    BY DEF EntryRows
  <2>6. NewIn(row, edit) \in Times /\ NewOut(row, edit) \in {Null} \cup Times
    BY <2>5, EditedTimes
  <2>7. after \in EntryRows
    BY <2>6 DEF EntryRows
  <2>8. entries' = [entries EXCEPT ![e] = after] /\ loc' = [loc EXCEPT ![r].after = after]
    BY <1>5, <2>2, <2>3, <2>4 DEF UpdateEntry
  <2>. HIDE DEF after
  <2>. DEFINE w == [loc[r] EXCEPT !.after = after]
  <2>9. loc' = [loc EXCEPT ![r] = w]
    BY <1>2, <2>8
  <2>10. w \in Locals
    BY <1>2, <2>7, LocalsExcept
  <2>11. w.kind = loc[r].kind /\ w.edit = loc[r].edit
    BY <1>2 DEF Locals
  <2>12. Goto(r, "auditEdit") /\ UNCHANGED <<breaks, corrections, periods>>
    BY <1>5 DEF UpdateEntry
  <2>13. entries' \in [Entries -> EntryRows]
    BY <1>3, <2>7, <2>8
  <2>14. TablesOK'
    BY <1>3, <2>12, <2>13 DEF TablesOK
  <2>15. w.kind = "request" => w.edit \in Wishes
    BY <1>2, <2>11 DEF Typed
  <2>. HIDE DEF w
  <2>. QED  BY <1>1, <1>4, <2>9, <2>10, <2>12, <2>14, <2>15, TypeStep
<1>6. CASE WriteBreak(r)
  <2>1. loc[r].entry \in Entries /\ loc[r].edit \in BreakRows
    BY <1>2, <1>6 DEF WriteBreak, At, EditInv, WorkOK, OnEntry, Typed
  <2>2. breaks' = [breaks EXCEPT ![loc[r].entry] = loc[r].edit]
    BY <1>6 DEF WriteBreak
  <2>3. Goto(r, "flagEntry") /\ UNCHANGED <<entries, corrections, periods, loc>>
    BY <1>6 DEF WriteBreak
  <2>4. breaks' \in [Entries -> BreakRows]
    BY <1>3, <2>1, <2>2
  <2>5. TablesOK'
    BY <1>3, <2>3, <2>4 DEF TablesOK
  <2>. QED  BY <1>1, <1>4, <2>3, <2>5, TypeGoOn
<1>7. CASE FlagEntry(r) \/ SetPaid(r)
  <2>1. loc[r].entry \in Entries
    BY <1>7 DEF FlagEntry, SetPaid, At, EditInv, WorkOK, OnEntry
  <2>2. PICK e \in Entries : e = loc[r].entry
    BY <2>1
  <2>3. PICK row \in EntryRows : row = entries[e]
    BY <1>3
  <2>. DEFINE x == Is(r, {"pay"})
  <2>4. x \in BOOLEAN
    BY DEF Is
  <2>5. \/ entries' = [entries EXCEPT ![e] = [row EXCEPT !.edited = TRUE]]
        \/ entries' = [entries EXCEPT ![e] = [row EXCEPT !.paid = x]]
    BY <1>3, <1>7, <2>2, <2>3 DEF FlagEntry, SetPaid
  <2>6. [row EXCEPT !.edited = TRUE] \in EntryRows /\ [row EXCEPT !.paid = x] \in EntryRows
    BY <2>4 DEF EntryRows
  <2>7. entries' \in [Entries -> EntryRows]
    BY <1>3, <2>5, <2>6
  <2>8. PICK stage \in {"auditBreak", "auditPaid"} :
          Goto(r, stage) /\ UNCHANGED <<breaks, corrections, periods, loc>>
    BY <1>7 DEF FlagEntry, SetPaid
  <2>9. TablesOK'
    BY <1>3, <2>7, <2>8 DEF TablesOK
  <2>. QED  BY <1>1, <1>4, <2>8, <2>9, TypeGoOn
<1>8. CASE InsertCorrection(r)
  <2>1. loc[r].entry \in Entries /\ loc[r].edit \in Wishes
    BY <1>2, <1>8 DEF InsertCorrection, At, EditInv, WorkOK, OnEntry, Typed
  <2>. DEFINE row == [entry |-> loc[r].entry, wish |-> loc[r].edit, status |-> "pending"]
  <2>2. PICK c \in CorrectionIds : /\ corrections' = [corrections EXCEPT ![c] = row]
                                   /\ loc' = [loc EXCEPT ![r].correction = c]
    BY <1>8 DEF InsertCorrection
  <2>3. row \in CorrectionRows
    BY <2>1 DEF CorrectionRows
  <2>. HIDE DEF row
  <2>4. corrections' \in [CorrectionIds -> CorrectionRows \cup {NoCorrection}]
    BY <1>3, <2>2, <2>3
  <2>5. Goto(r, "auditRequest") /\ UNCHANGED <<entries, breaks, periods>>
    BY <1>8 DEF InsertCorrection
  <2>6. TablesOK'
    BY <1>3, <2>4, <2>5 DEF TablesOK
  <2>. DEFINE w == [loc[r] EXCEPT !.correction = c]
  <2>7. w \in Locals
    BY <1>2, LocalsExcept
  <2>8. w.edit = loc[r].edit
    BY <1>2 DEF Locals
  <2>9. loc' = [loc EXCEPT ![r] = w]
    BY <1>2, <2>2
  <2>. HIDE DEF w
  <2>. QED  BY <1>1, <1>4, <2>1, <2>5, <2>6, <2>7, <2>8, <2>9, TypeStep
<1>9. CASE SetStatus(r)
  <2>1. PICK c \in CorrectionIds : c = loc[r].correction /\ corrections[c].status # "none"
    BY <1>9 DEF SetStatus, At, EditInv, WorkOK, Deciding
  <2>2. corrections[c] \in CorrectionRows
    BY <1>3, <2>1 DEF NoCorrection
  <2>3. PICK row \in CorrectionRows : row = corrections[c]
    BY <2>2
  <2>4. PICK status \in {"approved", "rejected"} :
          corrections' = [corrections EXCEPT ![c] = [row EXCEPT !.status = status]]
    BY <1>3, <1>9, <2>1, <2>3 DEF SetStatus
  <2>5. [row EXCEPT !.status = status] \in CorrectionRows
    BY DEF CorrectionRows
  <2>6. corrections' \in [CorrectionIds -> CorrectionRows \cup {NoCorrection}]
    BY <1>3, <2>4, <2>5
  <2>7. Goto(r, "auditReview") /\ UNCHANGED <<entries, breaks, periods, loc>>
    BY <1>9 DEF SetStatus
  <2>8. TablesOK'
    BY <1>3, <2>6, <2>7 DEF TablesOK
  <2>. QED  BY <1>1, <1>4, <2>7, <2>8, TypeGoOn
<1>10. CASE SetLock(r)
  <2>1. Goto(r, "auditLock") /\ UNCHANGED <<entries, breaks, corrections, loc>>
    BY <1>10 DEF SetLock
  <2>2. PICK s \in {"locked", "open"} : periods' = [periods EXCEPT ![loc[r].period] = s]
    BY <1>10 DEF SetLock
  <2>3. periods' \in [Periods -> {"none", "open", "locked"}]
    BY <1>3, <2>2
  <2>4. TablesOK'
    BY <1>3, <2>1, <2>3 DEF TablesOK
  <2>. QED  BY <1>1, <1>4, <2>1, <2>4, TypeGoOn
<1>. QED  BY <1>5, <1>6, <1>7, <1>8, <1>9, <1>10

\* What a request brings along.
LEMMA WorkTyped ==
  ASSUME NEW w \in Locals
  PROVE  /\ \A k \in {"edit", "break", "request", "approve", "reject", "lock", "unlock", "pay",
                      "unpay"} : [w EXCEPT !.kind = k] \in Locals
         /\ \A x \in Sources : [w EXCEPT !.source = x] \in Locals
         /\ \A x \in Periods : [w EXCEPT !.period = x] \in Locals
BY DEF Locals

LEMMA TypesOfArriving ==
  ASSUME TypeInv, NEW r \in Requests, ArriveAny(r)
  PROVE  TypeInv'
<1>1. PICK w \in Locals, stage \in {"readEntry", "readCorrection", "readPeriod"} :
        /\ Arrive(r, w, stage)
        /\ w.kind = "request" => w.edit \in Wishes
  <2>1. NoWork \in Locals
    BY NoWorkTyped
  <2>2. Wishes \subseteq Edits /\ {"self_edit", "manager_edit", "correction_approved"} \subseteq Sources
    BY DEF Wishes, Edits, Sources
  <2>3. CASE \E e \in Entries, kind \in {"edit", "break"}, source \in Sources, edit \in Edits :
               Arrive(r, [[[[NoWork EXCEPT !.kind = kind] EXCEPT !.source = source]
                            EXCEPT !.entry = e] EXCEPT !.edit = edit], "readEntry")
    <3>1. PICK e \in Entries, kind \in {"edit", "break"}, source \in Sources, edit \in Edits :
               Arrive(r, [[[[NoWork EXCEPT !.kind = kind] EXCEPT !.source = source]
                            EXCEPT !.entry = e] EXCEPT !.edit = edit], "readEntry")
      BY <2>3
    <3>2. [NoWork EXCEPT !.kind = kind] \in Locals
      BY <2>1, WorkTyped
    <3>3. [[NoWork EXCEPT !.kind = kind] EXCEPT !.source = source] \in Locals
      BY <3>2, WorkTyped
    <3>4. [[[NoWork EXCEPT !.kind = kind] EXCEPT !.source = source] EXCEPT !.entry = e] \in Locals
      BY <3>3, LocalsExcept
    <3>5. [[[[NoWork EXCEPT !.kind = kind] EXCEPT !.source = source] EXCEPT !.entry = e]
             EXCEPT !.edit = edit] \in Locals
      BY <3>4, LocalsExcept
    <3>6. [[[[NoWork EXCEPT !.kind = kind] EXCEPT !.source = source] EXCEPT !.entry = e]
             EXCEPT !.edit = edit].kind = kind
      BY DEF NoWork
    <3>. QED  BY <3>1, <3>5, <3>6
  <2>4. CASE \E e \in Entries, wish \in Wishes :
               Arrive(r, [[[NoWork EXCEPT !.kind = "request"] EXCEPT !.entry = e]
                            EXCEPT !.edit = wish], "readEntry")
    <3>1. PICK e \in Entries, wish \in Wishes :
               Arrive(r, [[[NoWork EXCEPT !.kind = "request"] EXCEPT !.entry = e]
                            EXCEPT !.edit = wish], "readEntry")
      BY <2>4
    <3>2. [NoWork EXCEPT !.kind = "request"] \in Locals
      BY <2>1, WorkTyped
    <3>3. [[NoWork EXCEPT !.kind = "request"] EXCEPT !.entry = e] \in Locals
      BY <3>2, LocalsExcept
    <3>4. [[[NoWork EXCEPT !.kind = "request"] EXCEPT !.entry = e] EXCEPT !.edit = wish] \in Locals
      BY <2>2, <3>3, LocalsExcept
    <3>5. [[[NoWork EXCEPT !.kind = "request"] EXCEPT !.entry = e] EXCEPT !.edit = wish].edit = wish
      BY DEF NoWork
    <3>. QED  BY <3>1, <3>4, <3>5
  <2>5. CASE \E e \in Entries, kind \in {"pay", "unpay"} :
               Arrive(r, [[NoWork EXCEPT !.kind = kind] EXCEPT !.entry = e], "readEntry")
    <3>1. PICK e \in Entries, kind \in {"pay", "unpay"} :
               Arrive(r, [[NoWork EXCEPT !.kind = kind] EXCEPT !.entry = e], "readEntry")
      BY <2>5
    <3>2. [NoWork EXCEPT !.kind = kind] \in Locals
      BY <2>1, WorkTyped
    <3>3. [[NoWork EXCEPT !.kind = kind] EXCEPT !.entry = e] \in Locals
      BY <3>2, LocalsExcept
    <3>4. [[NoWork EXCEPT !.kind = kind] EXCEPT !.entry = e].kind # "request"
      BY DEF NoWork
    <3>. QED  BY <3>1, <3>3, <3>4
  <2>6. CASE \E c \in CorrectionIds, kind \in {"approve", "reject"} :
               Arrive(r, [[[NoWork EXCEPT !.kind = kind] EXCEPT !.source = "correction_approved"]
                            EXCEPT !.correction = c], "readCorrection")
    <3>1. PICK c \in CorrectionIds, kind \in {"approve", "reject"} :
               Arrive(r, [[[NoWork EXCEPT !.kind = kind] EXCEPT !.source = "correction_approved"]
                            EXCEPT !.correction = c], "readCorrection")
      BY <2>6
    <3>2. [NoWork EXCEPT !.kind = kind] \in Locals
      BY <2>1, WorkTyped
    <3>3. [[NoWork EXCEPT !.kind = kind] EXCEPT !.source = "correction_approved"] \in Locals
      BY <2>2, <3>2, WorkTyped
    <3>4. [[[NoWork EXCEPT !.kind = kind] EXCEPT !.source = "correction_approved"]
             EXCEPT !.correction = c] \in Locals
      BY <3>3, LocalsExcept
    <3>5. [[[NoWork EXCEPT !.kind = kind] EXCEPT !.source = "correction_approved"]
             EXCEPT !.correction = c].kind # "request"
      BY DEF NoWork
    <3>. QED  BY <3>1, <3>4, <3>5
  <2>7. CASE \E p \in Periods, kind \in {"lock", "unlock"} :
               Arrive(r, [[NoWork EXCEPT !.kind = kind] EXCEPT !.period = p], "readPeriod")
    <3>1. PICK p \in Periods, kind \in {"lock", "unlock"} :
               Arrive(r, [[NoWork EXCEPT !.kind = kind] EXCEPT !.period = p], "readPeriod")
      BY <2>7
    <3>2. [NoWork EXCEPT !.kind = kind] \in Locals
      BY <2>1, WorkTyped
    <3>3. [[NoWork EXCEPT !.kind = kind] EXCEPT !.period = p] \in Locals
      BY <3>2, WorkTyped
    <3>4. [[NoWork EXCEPT !.kind = kind] EXCEPT !.period = p].kind # "request"
      BY DEF NoWork
    <3>. QED  BY <3>1, <3>3, <3>4
  <2>. QED  BY <2>2, <2>3, <2>4, <2>5, <2>6, <2>7 DEF ArriveAny, ArriveWith
<1>2. Goto(r, stage) /\ loc' = [loc EXCEPT ![r] = w] /\ UNCHANGED <<tables, now, overlap, failures>>
  BY <1>1 DEF Arrive
<1>3. requests' \in 0..MaxRequests /\ failures' \in 0..MaxFailures
  BY <1>1, BoundsAssumption DEF ArriveAny, MayArrive, Arrive, TypeInv, TypeOK
<1>4. TablesOK'
  BY <1>2 DEF TypeInv, TypeOK, TablesOK, tables
<1>5. stage \in Stages
  BY DEF Stages
<1>. QED  BY <1>1, <1>2, <1>3, <1>4, <1>5, TypeStep

LEMMA TypesOfTheRest ==
  ASSUME TypeInv, Tick \/ OpenPeriods \/ (\E r \in Requests : Fail(r)) \/ UNCHANGED vars
  PROVE  TypeInv'
<1>1. TypeOK /\ \A r \in Requests : Typed(r)
  BY DEF TypeInv
<1>2. CASE Tick
  <2>1. now' \in Times
    BY <1>1, <1>2, BoundsAssumption DEF Tick, Horizon, TypeOK, Times
  <2>2. UNCHANGED <<entries, breaks, corrections, periods, pc, loc, requests, overlap, failures>>
    BY <1>2 DEF Tick, tables, bounds
  <2>. QED  BY <1>1, <2>1, <2>2 DEF TypeInv, TypeOK, Typed
<1>3. CASE OpenPeriods
  <2>1. periods' \in [Periods -> {"none", "open", "locked"}]
    BY <1>1, <1>3 DEF OpenPeriods, TypeOK
  <2>2. UNCHANGED <<now, entries, breaks, corrections, pc, loc, requests, overlap, failures>>
    BY <1>3 DEF OpenPeriods, bounds
  <2>. QED  BY <1>1, <2>1, <2>2 DEF TypeInv, TypeOK, Typed
<1>4. CASE \E r \in Requests : Fail(r)
  <2>1. PICK r \in Requests : Fail(r)
    BY <1>4
  <2>2. Respond(r) /\ UNCHANGED <<now, overlap, requests>>
    BY <2>1 DEF Fail
  <2>3. requests' \in 0..MaxRequests /\ failures' \in 0..MaxFailures
    BY <1>1, <2>1, BoundsAssumption DEF Fail, TypeOK
  <2>4. TablesOK'
    BY <1>1, <2>1 DEF Fail, TypeOK, TablesOK, tables
  <2>. QED  BY <2>2, <2>3, <2>4, TypeRespond
<1>5. CASE UNCHANGED vars
  <2>1. UNCHANGED <<now, entries, breaks, corrections, periods, pc, loc, requests, overlap, failures>>
    BY <1>5 DEF vars, tables, bounds
  <2>. QED  BY <1>1, <2>1 DEF TypeInv, TypeOK, Typed
<1>. QED  BY <1>2, <1>3, <1>4, <1>5

LEMMA TypeInit == Init => TypeInv
<1>. SUFFICES ASSUME Init PROVE TypeInv
  OBVIOUS
<1>1. 1..StartTime \subseteq Times /\ 0..StartTime \subseteq {Null} \cup Times /\ StartTime \in Times
  BY BoundsAssumption DEF Times, Null
<1>2. entries \in [Entries -> EntryRows]
  BY <1>1 DEF Init, EntryRows
<1>3. breaks \in [Entries -> BreakRows] /\ loc \in [Requests -> Locals]
  BY NoWorkTyped DEF Init, NoBreak, BreakRows
<1>4. corrections \in [CorrectionIds -> CorrectionRows \cup {NoCorrection}]
  BY DEF Init
<1>5. periods \in [Periods -> {"none", "open", "locked"}] /\ pc \in [Requests -> Stages]
  BY DEF Init, Stages
<1>6. requests \in 0..MaxRequests /\ failures \in 0..MaxFailures
  BY BoundsAssumption DEF Init
<1>7. \A r \in Requests : Typed(r)
  BY DEF Init, Typed, NoWork
<1>. QED  BY <1>1, <1>2, <1>3, <1>4, <1>5, <1>6, <1>7 DEF Init, TypeInv, TypeOK

LEMMA TypeNext == EditInv /\ TypeInv /\ [Next]_vars => TypeInv'
<1>. SUFFICES ASSUME EditInv, TypeInv, [Next]_vars PROVE TypeInv'
  OBVIOUS
<1>1. CASE Tick \/ OpenPeriods \/ (\E r \in Requests : Fail(r)) \/ UNCHANGED vars
  BY <1>1, TypesOfTheRest
<1>2. CASE \E r \in Requests : ArriveAny(r)
  BY <1>2, TypesOfArriving
<1>3. CASE \E r \in Requests : HandlerStep(r)
  BY <1>3, TypesOfReading, TypesOfWriting, TypesOfEnding DEF HandlerStep
<1>. QED  BY <1>1, <1>2, <1>3 DEF Next

\* Every row, every pay period and everything a handler has in hand has its type at all
\* times: a break that is written has a start, a correction asks for times.
THEOREM EditTypes == Spec => []TypeOK
<1>1. TypeInv => TypeOK
  BY DEF TypeInv
<1>. QED  BY <1>1, TypeInit, TypeNext, EditInvariant, PTL DEF Spec

-----------------------------------------------------------------------------
(***************************************************************************)
(* With one request at a time the audit trail tells the whole history      *)
(* (TrailReconstructs) and a correction is decided once (ReviewedOnce),    *)
(* for any number of entries, corrections, periods and failures.           *)
(*                                                                         *)
(* The argument: between two requests the trails say what the tables say;  *)
(* while a handler is at work they differ in what it has written and not   *)
(* yet recorded, which is in its locals; and a handler that fails leaves   *)
(* its rows among those cut short.                                         *)
(***************************************************************************)

\* A correction's review, at rest ...
Once(c) == \E k \in Applied(c) : Applied(c) = {k}
AtRest(c) ==
  \/ corrections[c].status = "none" /\ reviewTrail[c] = <<>>
  \/ corrections[c].status = "pending" /\ Applied(c) = {} /\ reviewTrail[c] = <<"request">>
  \/ corrections[c].status = "approved" /\ Once(c) /\ reviewTrail[c] = <<"request", "approve">>
  \/ corrections[c].status = "rejected" /\ Applied(c) = {} /\ reviewTrail[c] = <<"request", "reject">>

\* ... and between the statements of a handler.
InHand(r, c) == pc[r] \in {"auditRequest", "setStatus", "auditReview"} /\ loc[r].correction = c
Executed(r, c) == IF loc[r].kind = "approve" THEN Once(c) ELSE Applied(c) = {}
UnderWay(r, c) ==
  \/ /\ pc[r] = "auditRequest" /\ corrections[c].status = "pending"
     /\ Applied(c) = {} /\ reviewTrail[c] = <<>>
  \/ /\ pc[r] = "setStatus" /\ corrections[c].status = "pending"
     /\ Executed(r, c) /\ reviewTrail[c] = <<"request">>
  \/ /\ pc[r] = "auditReview" /\ Executed(r, c) /\ reviewTrail[c] = <<"request">>
     /\ corrections[c].status = IF loc[r].kind = "approve" THEN "approved" ELSE "rejected"
ReviewAt(r, c) == IF InHand(r, c) THEN UnderWay(r, c) ELSE AtRest(c)

\* An audit row that names a correction is of one that was requested.
ReasonsKnown ==
  \A e \in Entries : \A k \in DOMAIN entryTrail[e] : \A c \in CorrectionIds :
    entryTrail[e][k].reason = c => corrections[c].status # "none"

\* What the trails say of an entry and its break, and of a period, when a handler
\* may have changed them and not yet written its audit row.
Holds(r, stages, e) == pc[r] \in stages /\ loc[r].entry = e
EditsAt(r, e) ==
  IF Holds(r, {"auditEdit"}, e)
  THEN EditsEnd(e, View(loc[r].row)) /\ loc[r].after = entries[e]
  ELSE EditsEnd(e, View(entries[e]))
EditedAt(r, e) ==
  IF Holds(r, {"auditEdit", "auditBreak"}, e) THEN entries[e].edited
  ELSE entries[e].edited = (EditRows(e) # {} \/ breakTrail[e] # <<>>)
PaidAt(r, e) ==
  IF Holds(r, {"auditPaid"}, e) THEN entries[e].paid = (loc[r].kind = "pay")
  ELSE entries[e].paid = MarkedPaid(e)
BreakAt(r, e) ==
  IF Holds(r, {"flagEntry", "auditBreak"}, e)
  THEN loc[r].brk = BreakOnRecord(e) /\ breaks[e] = loc[r].edit
  ELSE breaks[e] = BreakOnRecord(e)
TrailAt(r, e) ==
  /\ EditsLinked(e) /\ BreaksLinked(e)
  /\ EditsAt(r, e) /\ EditedAt(r, e) /\ PaidAt(r, e) /\ BreakAt(r, e)
LockAt(r, p) ==
  IF pc[r] = "auditLock" /\ loc[r].period = p THEN (periods[p] = "locked") = (loc[r].kind = "lock")
  ELSE (periods[p] = "locked") = LockOnRecord(p)

\* Which requests come to which statements, and what they have in hand there.
KindOK(r) ==
  /\ pc[r] \in {"readEntry", "guard", "updateEntry", "auditEdit"} =>
       \/ loc[r].kind \in {"edit", "break", "pay", "unpay", "request"} /\ loc[r].correction = None
       \/ /\ loc[r].kind = "approve" /\ loc[r].correction \in CorrectionIds
          /\ corrections[loc[r].correction].status = "pending"
  /\ pc[r] \in {"guard", "updateEntry", "auditEdit"} => loc[r].kind \in {"edit", "approve"}
  /\ pc[r] \in {"setPaid", "auditPaid"} => loc[r].kind \in {"pay", "unpay"}
  /\ pc[r] \in {"auditEdit", "flagEntry", "auditBreak", "auditPaid"} => loc[r].entry \in Entries
  /\ pc[r] = "auditRequest" => loc[r].correction \in CorrectionIds
  /\ pc[r] = "auditReview" =>
       loc[r].kind \in {"approve", "reject"} /\ loc[r].correction \in CorrectionIds
  /\ pc[r] \in {"readPeriod", "countOpen", "setLock", "auditLock"} =>
       loc[r].kind \in {"lock", "unlock"} /\ loc[r].period \in Periods
  /\ pc[r] \in {"guardBreak", "writeBreak"} => loc[r].brk = breaks[loc[r].entry]

Story(r) ==
  /\ KindOK(r)
  /\ \A c \in CorrectionIds \ cutShort : ReviewAt(r, c)
  /\ ReasonsKnown
  /\ \A e \in Entries \ cutShort : TrailAt(r, e)
  /\ \A p \in Periods \ cutShort : LockAt(r, p)

RestStory ==
  /\ \A c \in CorrectionIds \ cutShort : AtRest(c)
  /\ ReasonsKnown
  /\ \A e \in Entries \ cutShort :
       /\ EditsLinked(e) /\ BreaksLinked(e) /\ EditsEnd(e, View(entries[e]))
       /\ entries[e].edited = (EditRows(e) # {} \/ breakTrail[e] # <<>>)
       /\ entries[e].paid = MarkedPaid(e) /\ breaks[e] = BreakOnRecord(e)
  /\ \A p \in Periods \ cutShort : (periods[p] = "locked") = LockOnRecord(p)

TrailShapes ==
  /\ \E S : breakTrail \in [Entries -> Seq(S)]
  /\ \E S : reviewTrail \in [CorrectionIds -> Seq(S)]
  /\ \E S : periodTrail \in [Periods -> Seq(S)]

Only(r) == \A s \in Requests \ {r} : pc[s] = "idle"

SoloInv ==
  ~overlap =>
    /\ TrailShapes
    /\ \A r \in Requests : Only(r) => Story(r)
    /\ (\A r \in Requests : pc[r] = "idle") => RestStory

-----------------------------------------------------------------------------
(* What steps have in common *)

\* A request that is idle leaves the story at rest.
LEMMA IdleStory ==
  ASSUME NEW r \in Requests, pc[r] = "idle"
  PROVE  Story(r) <=> RestStory
<1>1. KindOK(r)
  BY DEF KindOK
<1>2. \A c : ReviewAt(r, c) <=> AtRest(c)
  BY DEF ReviewAt, InHand
<1>3. \A e : TrailAt(r, e) <=>
        /\ EditsLinked(e) /\ BreaksLinked(e) /\ EditsEnd(e, View(entries[e]))
        /\ entries[e].edited = (EditRows(e) # {} \/ breakTrail[e] # <<>>)
        /\ entries[e].paid = MarkedPaid(e) /\ breaks[e] = BreakOnRecord(e)
  BY DEF TrailAt, EditsAt, EditedAt, PaidAt, BreakAt, Holds
<1>4. \A p : LockAt(r, p) <=> ((periods[p] = "locked") = LockOnRecord(p))
  BY DEF LockAt
<1>. QED  BY <1>1, <1>2, <1>3, <1>4 DEF Story, RestStory

LEMMA IdleStoryNext ==
  ASSUME NEW r \in Requests, pc'[r] = "idle"
  PROVE  Story(r)' <=> RestStory'
<1>1. KindOK(r)'
  BY DEF KindOK
<1>2. \A c : ReviewAt(r, c)' <=> AtRest(c)'
  BY DEF ReviewAt, InHand
<1>3. \A e : TrailAt(r, e)' <=>
        /\ EditsLinked(e)' /\ BreaksLinked(e)' /\ EditsEnd(e, View(entries[e]))'
        /\ entries'[e].edited = (EditRows(e)' # {} \/ breakTrail'[e] # <<>>)
        /\ entries'[e].paid = MarkedPaid(e)' /\ breaks'[e] = BreakOnRecord(e)'
  BY DEF TrailAt, EditsAt, EditedAt, PaidAt, BreakAt, Holds
<1>4. \A p : LockAt(r, p)' <=> ((periods'[p] = "locked") = LockOnRecord(p)')
  BY DEF LockAt
<1>. QED  BY <1>1, <1>2, <1>3, <1>4 DEF Story, RestStory

\* A step of the one request at work has to tell its own story.
LEMMA SoloStep ==
  ASSUME NEW r \in Requests, Only(r), OthersAlone(r), Story(r)', TrailShapes'
  PROVE  SoloInv'
<1>1. ASSUME NEW s \in Requests, Only(s)' PROVE Story(s)'
  <2>1. CASE s = r
    BY <2>1
  <2>2. CASE s # r
    <3>1. pc'[r] = "idle" /\ pc'[s] = "idle"
      BY <1>1, <2>2 DEF Only, OthersAlone
    <3>. QED  BY <3>1, IdleStoryNext
  <2>. QED  BY <2>1, <2>2
<1>2. ASSUME pc'[r] = "idle" PROVE RestStory'
  BY <1>2, IdleStoryNext
<1>. QED  BY <1>1, <1>2 DEF SoloInv

\* What a step leaves alone it leaves told: of corrections, ...
LEMMA ReviewsFrame ==
  ASSUME NEW r \in Requests, Story(r), UNCHANGED <<corrections, reviewTrail, entryTrail>>,
         cutShort \subseteq cutShort',
         \A c \in CorrectionIds \ cutShort' : ~InHand(r, c) /\ ~InHand(r, c)'
  PROVE  (\A c \in CorrectionIds \ cutShort : ReviewAt(r, c))' /\ ReasonsKnown'
<1>1. \A c : AtRest(c)' <=> AtRest(c)
  BY DEF AtRest, Once, Applied
<1>2. \A c \in CorrectionIds \ cutShort' : ReviewAt(r, c)'
  BY <1>1 DEF Story, ReviewAt
<1>3. ReasonsKnown'
  BY DEF Story, ReasonsKnown
<1>. QED  BY <1>2, <1>3

\* ... of an entry, ...
Noted == {"auditEdit", "flagEntry", "auditBreak", "auditPaid"}

LEMMA TrailFrame ==
  ASSUME NEW r \in Requests, NEW e, TrailAt(r, e),
         entries'[e] = entries[e], breaks'[e] = breaks[e],
         entryTrail'[e] = entryTrail[e], breakTrail'[e] = breakTrail[e],
         ~Holds(r, Noted, e), ~Holds(r, Noted, e)'
  PROVE  TrailAt(r, e)'
<1>1. EditRows(e)' = EditRows(e) /\ PaidRows(e)' = PaidRows(e)
  BY DEF EditRows, PaidRows
<1>2. /\ EditsLinked(e)' <=> EditsLinked(e)
      /\ \A times : EditsEnd(e, times)' <=> EditsEnd(e, times)
      /\ MarkedPaid(e)' = MarkedPaid(e)
  BY <1>1 DEF EditsLinked, EditsEnd, MarkedPaid, IsLast
<1>3. /\ BreaksLinked(e)' <=> BreaksLinked(e)
      /\ BreakOnRecord(e)' = BreakOnRecord(e)
  BY DEF BreaksLinked, BreakOnRecord
<1>4. EditsEnd(e, View(entries[e]))' <=> EditsEnd(e, View(entries[e]))
  BY <1>1 DEF EditsEnd, IsLast, View
<1>5. /\ ~Holds(r, {"auditEdit"}, e) /\ ~Holds(r, {"auditEdit", "auditBreak"}, e)
      /\ ~Holds(r, {"auditPaid"}, e) /\ ~Holds(r, {"flagEntry", "auditBreak"}, e)
  BY DEF Holds, Noted
<1>6. /\ ~Holds(r, {"auditEdit"}, e)' /\ ~Holds(r, {"auditEdit", "auditBreak"}, e)'
      /\ ~Holds(r, {"auditPaid"}, e)' /\ ~Holds(r, {"flagEntry", "auditBreak"}, e)'
  BY DEF Holds, Noted
<1>7. EditsAt(r, e)'
  BY <1>4, <1>5, <1>6 DEF TrailAt, EditsAt
<1>8. EditedAt(r, e)'
  BY <1>1, <1>5, <1>6 DEF TrailAt, EditedAt
<1>9. PaidAt(r, e)'
  BY <1>2, <1>5, <1>6 DEF TrailAt, PaidAt
<1>10. BreakAt(r, e)'
  BY <1>3, <1>5, <1>6 DEF TrailAt, BreakAt
<1>. QED  BY <1>2, <1>3, <1>7, <1>8, <1>9, <1>10 DEF TrailAt

LEMMA TrailsFrame ==
  ASSUME NEW r \in Requests, Story(r), UNCHANGED <<entries, breaks, entryTrail, breakTrail>>,
         cutShort \subseteq cutShort',
         \A e \in Entries \ cutShort' : ~Holds(r, Noted, e) /\ ~Holds(r, Noted, e)'
  PROVE  (\A e \in Entries \ cutShort : TrailAt(r, e))'
<1>1. ASSUME NEW e \in Entries \ cutShort' PROVE TrailAt(r, e)'
  BY <1>1, TrailFrame DEF Story
<1>. QED  BY <1>1

\* ... and of a period.
LEMMA LocksFrame ==
  ASSUME NEW r \in Requests, Story(r), UNCHANGED periodTrail,
         \A p \in Periods : (periods'[p] = "locked") = (periods[p] = "locked"),
         cutShort \subseteq cutShort',
         \A p \in Periods \ cutShort' : /\ ~(pc[r] = "auditLock" /\ loc[r].period = p)
                                        /\ ~(pc'[r] = "auditLock" /\ loc'[r].period = p)
  PROVE  (\A p \in Periods \ cutShort : LockAt(r, p))'
BY DEF Story, LockAt, LockOnRecord

\* A step that writes nothing.
Unwritten == UNCHANGED <<entries, breaks, corrections, periods, entryTrail, breakTrail, reviewTrail,
                         periodTrail, cutShort>>
AuditStages == Noted \cup {"auditRequest", "setStatus", "auditReview", "auditLock"}

LEMMA QuietStory ==
  ASSUME NEW r \in Requests, Story(r), Unwritten, TrailShapes,
         pc[r] \notin AuditStages, pc'[r] \notin AuditStages, KindOK(r)'
  PROVE  Story(r)' /\ TrailShapes'
<1>1. (\A c \in CorrectionIds \ cutShort : ReviewAt(r, c))' /\ ReasonsKnown'
  BY ReviewsFrame DEF Unwritten, AuditStages, InHand
<1>2. (\A e \in Entries \ cutShort : TrailAt(r, e))'
  BY TrailsFrame DEF Unwritten, AuditStages, Holds
<1>3. (\A p \in Periods \ cutShort : LockAt(r, p))'
  BY LocksFrame DEF Unwritten, AuditStages
<1>4. TrailShapes'
  BY DEF TrailShapes, Unwritten
<1>. QED  BY <1>1, <1>2, <1>3, <1>4 DEF Story

-----------------------------------------------------------------------------
(* The steps that read and decide *)

\* One request at a time, and what is known of it.
Solo(r) == EditInv /\ TypeInv /\ ~overlap /\ TrailShapes /\ Story(r)

\* A handler that is answered before it wrote anything.
LEMMA AnsweredStory ==
  ASSUME NEW r \in Requests, Solo(r), Respond(r), Unwritten, pc[r] \notin AuditStages
  PROVE  Story(r)' /\ TrailShapes'
<1>1. pc'[r] = "idle"
  BY RespondOK DEF Solo
<1>2. KindOK(r)' /\ pc'[r] \notin AuditStages
  BY <1>1 DEF KindOK, AuditStages, Noted
<1>. QED  BY <1>2, QuietStory DEF Solo

LEMMA StoryOfReadEntry ==
  ASSUME NEW r \in Requests, Solo(r), ReadEntry(r)
  PROVE  Story(r)' /\ TrailShapes'
<1>1. pc[r] = "readEntry" /\ Unwritten
  BY DEF ReadEntry, At, Unwritten, tables, trails, bounds
<1>2. pc[r] \notin AuditStages
  BY <1>1 DEF AuditStages, Noted
<1>3. CASE Respond(r)
  BY <1>1, <1>2, <1>3, AnsweredStory
<1>4. CASE ~Respond(r)
  <2>1. KindOK(r) /\ DOMAIN loc[r] = DOMAIN NoWork /\ DOMAIN loc = Requests /\ DOMAIN pc = Requests
    BY DEF Solo, Story, EditInv, WorkOK, ShapeOK
  <2>2. PICK stage, brk :
          /\ Goto(r, stage)
          /\ loc' = [loc EXCEPT ![r].row = entries[loc[r].entry], ![r].brk = brk]
          /\ \/ stage = "guard" /\ loc[r].kind = "edit"
             \/ stage = "guardBreak" /\ brk = breaks[loc[r].entry]
             \/ stage = "guard" /\ loc[r].kind = "approve"
             \/ stage = "insertCorrection"
             \/ stage = "setPaid" /\ loc[r].kind \in {"pay", "unpay"}
    <3>1. [loc EXCEPT ![r].row = entries[loc[r].entry]]
            = [loc EXCEPT ![r].row = entries[loc[r].entry], ![r].brk = loc[r].brk]
      BY <2>1 DEF NoWork
    <3>. QED  BY <1>4, <3>1 DEF ReadEntry, Is
  <2>3. /\ pc'[r] = stage /\ loc'[r].kind = loc[r].kind /\ loc'[r].entry = loc[r].entry
        /\ loc'[r].correction = loc[r].correction /\ loc'[r].brk = brk
    BY <2>1, <2>2 DEF Goto, NoWork
  <2>4. KindOK(r)'
    BY <1>1, <2>1, <2>2, <2>3 DEF KindOK, Unwritten
  <2>5. pc'[r] \notin AuditStages
    BY <2>2, <2>3 DEF AuditStages, Noted
  <2>. QED  BY <1>1, <1>2, <2>4, <2>5, QuietStory DEF Solo
<1>. QED  BY <1>3, <1>4

LEMMA StoryOfGuards ==
  ASSUME NEW r \in Requests, Solo(r), Guard(r) \/ GuardBreak(r)
  PROVE  Story(r)' /\ TrailShapes'
<1>1. pc[r] \in {"guard", "guardBreak"} /\ Unwritten
  BY DEF Guard, GuardBreak, At, Unwritten, tables, trails, bounds
<1>2. pc[r] \notin AuditStages
  BY <1>1 DEF AuditStages, Noted
<1>3. KindOK(r) /\ DOMAIN loc[r] = DOMAIN NoWork /\ DOMAIN loc = Requests /\ DOMAIN pc = Requests
  BY DEF Solo, Story, EditInv, WorkOK, ShapeOK
<1>4. CASE Respond(r)
  BY <1>1, <1>2, <1>4, AnsweredStory
<1>5. CASE pc[r] = "guard" /\ Goto(r, "updateEntry") /\ UNCHANGED loc
  <2>1. pc'[r] = "updateEntry" /\ KindOK(r)'
    BY <1>1, <1>3, <1>5 DEF KindOK, Goto, Unwritten
  <2>2. pc'[r] \notin AuditStages
    BY <2>1 DEF AuditStages, Noted
  <2>. QED  BY <1>1, <1>2, <2>1, <2>2, QuietStory DEF Solo
<1>6. CASE pc[r] = "guardBreak" /\ Goto(r, "writeBreak") /\ ToWrite(r)
  <2>1. /\ pc'[r] = "writeBreak" /\ loc'[r].kind = loc[r].kind /\ loc'[r].entry = loc[r].entry
        /\ loc'[r].brk = loc[r].brk
    BY <1>3, <1>6 DEF Goto, ToWrite, NoWork
  <2>2. KindOK(r)'
    BY <1>1, <1>3, <1>6, <2>1 DEF KindOK, Unwritten
  <2>3. pc'[r] \notin AuditStages
    BY <2>1 DEF AuditStages, Noted
  <2>. QED  BY <1>1, <1>2, <2>2, <2>3, QuietStory DEF Solo
<1>. QED  BY <1>4, <1>5, <1>6 DEF Guard, GuardBreak, At

LEMMA StoryOfPeriods ==
  ASSUME NEW r \in Requests, Solo(r), ReadPeriod(r) \/ CountOpen(r)
  PROVE  Story(r)' /\ TrailShapes'
<1>1. pc[r] \in {"readPeriod", "countOpen"} /\ Unwritten
  BY DEF ReadPeriod, CountOpen, At, Unwritten, tables, trails, bounds
<1>2. pc[r] \notin AuditStages
  BY <1>1 DEF AuditStages, Noted
<1>3. KindOK(r) /\ DOMAIN pc = Requests
  BY DEF Solo, Story, EditInv, ShapeOK
<1>4. CASE Respond(r)
  BY <1>1, <1>2, <1>4, AnsweredStory
<1>5. CASE UNCHANGED loc /\ (Goto(r, "countOpen") \/ Goto(r, "setLock"))
  <2>1. pc'[r] \in {"countOpen", "setLock"} /\ KindOK(r)'
    BY <1>1, <1>3, <1>5 DEF KindOK, Goto, Unwritten
  <2>2. pc'[r] \notin AuditStages
    BY <2>1 DEF AuditStages, Noted
  <2>. QED  BY <1>1, <1>2, <2>1, <2>2, QuietStory DEF Solo
<1>. QED  BY <1>4, <1>5 DEF ReadPeriod, CountOpen

\* A review starts with a correction whose trail is at rest.
LEMMA StoryOfReadCorrection ==
  ASSUME NEW r \in Requests, Solo(r), ReadCorrection(r)
  PROVE  Story(r)' /\ TrailShapes'
<1>1. pc[r] = "readCorrection" /\ Unwritten
  BY DEF ReadCorrection, At, Unwritten, tables, trails, bounds
<1>2. pc[r] \notin AuditStages
  BY <1>1 DEF AuditStages, Noted
<1>3. CASE Respond(r)
  BY <1>1, <1>2, <1>3, AnsweredStory
<1>4. CASE ~Respond(r)
  <2>1. /\ KindOK(r) /\ DOMAIN loc[r] = DOMAIN NoWork /\ DOMAIN loc = Requests /\ DOMAIN pc = Requests
        /\ loc[r].kind \in {"approve", "reject"} /\ loc[r].correction \in CorrectionIds
    BY <1>1 DEF Solo, Story, EditInv, WorkOK, ShapeOK
  <2>2. PICK row : row = corrections[loc[r].correction]
    OBVIOUS
  <2>3. /\ row.status = "pending"
        /\ loc' = [loc EXCEPT ![r].entry = row.entry, ![r].edit = row.wish]
        /\ Goto(r, IF loc[r].kind = "approve" THEN "readEntry" ELSE "setStatus")
    BY <1>4, <2>2 DEF ReadCorrection, Is
  <2>4. /\ pc'[r] = IF loc[r].kind = "approve" THEN "readEntry" ELSE "setStatus"
        /\ loc'[r].kind = loc[r].kind /\ loc'[r].correction = loc[r].correction
    BY <2>1, <2>3 DEF Goto, NoWork
  <2>5. corrections'[loc[r].correction].status = "pending"
    BY <1>1, <2>2, <2>3 DEF Unwritten
  <2>6. KindOK(r)'
    BY <2>1, <2>4, <2>5 DEF KindOK
  <2>7. CASE loc[r].kind = "approve"
    <3>1. pc'[r] \notin AuditStages
      BY <2>4, <2>7 DEF AuditStages, Noted
    <3>. QED  BY <1>1, <1>2, <2>6, <3>1, QuietStory DEF Solo
  <2>8. CASE loc[r].kind = "reject"
    <3>1. pc'[r] = "setStatus"
      BY <2>4, <2>8
    <3>2. \A d : AtRest(d)' <=> AtRest(d)
      BY <1>1 DEF AtRest, Once, Applied, Unwritten
    <3>3. ASSUME NEW d \in CorrectionIds \ cutShort' PROVE ReviewAt(r, d)'
      <4>1. AtRest(d)
        BY <1>1, <3>3 DEF Solo, Story, ReviewAt, InHand, Unwritten
      <4>2. CASE d # loc[r].correction
        BY <2>4, <3>2, <4>1, <4>2 DEF ReviewAt, InHand
      <4>3. CASE d = loc[r].correction
        <5>1. corrections[d].status = "pending"
          BY <2>2, <2>3, <4>3
        <5>2. corrections'[d].status = "pending" /\ Applied(d)' = {} /\ reviewTrail'[d] = <<"request">>
          BY <1>1, <4>1, <5>1 DEF AtRest, Applied, Unwritten
        <5>3. UnderWay(r, d)'
          BY <2>4, <2>8, <3>1, <5>2 DEF UnderWay, Executed
        <5>4. InHand(r, d)'
          BY <2>4, <3>1, <4>3 DEF InHand
        <5>. QED  BY <5>3, <5>4 DEF ReviewAt
      <4>. QED  BY <4>2, <4>3
    <3>4. ReasonsKnown'
      BY <1>1 DEF Solo, Story, ReasonsKnown, Unwritten
    <3>5. (\A e \in Entries \ cutShort : TrailAt(r, e))'
      BY <1>1, <3>1, TrailsFrame DEF Solo, Unwritten, Noted, Holds
    <3>6. (\A p \in Periods \ cutShort : LockAt(r, p))'
      BY <1>1, <3>1, LocksFrame DEF Solo, Unwritten
    <3>7. TrailShapes'
      BY <1>1 DEF Solo, TrailShapes, Unwritten
    <3>. QED  BY <2>6, <3>3, <3>4, <3>5, <3>6, <3>7 DEF Story
  <2>. QED  BY <2>1, <2>7, <2>8
<1>. QED  BY <1>3, <1>4

\* A request that arrives has nothing in hand yet.
LEMMA StoryOfArriving ==
  ASSUME NEW r \in Requests, Solo(r), ArriveAny(r)
  PROVE  Story(r)' /\ TrailShapes'
<1>1. PICK work, stage :
        /\ Arrive(r, work, stage)
        /\ \/ /\ stage = "readEntry" /\ work.correction = None
              /\ work.kind \in {"edit", "break", "pay", "unpay", "request"}
           \/ stage = "readCorrection"
           \/ stage = "readPeriod" /\ work.kind \in {"lock", "unlock"} /\ work.period \in Periods
  <2>. DEFINE Case(work, stage) ==
        /\ Arrive(r, work, stage)
        /\ \/ /\ stage = "readEntry" /\ work.correction = None
              /\ work.kind \in {"edit", "break", "pay", "unpay", "request"}
           \/ stage = "readCorrection"
           \/ stage = "readPeriod" /\ work.kind \in {"lock", "unlock"} /\ work.period \in Periods
  <2>1. ASSUME NEW e, NEW kind \in {"edit", "break"}, NEW source, NEW edit,
               Arrive(r, [NoWork EXCEPT !.kind = kind, !.source = source, !.entry = e,
                                        !.edit = edit], "readEntry")
        PROVE  \E work, stage : Case(work, stage)
    <3>. DEFINE work == [NoWork EXCEPT !.kind = kind, !.source = source, !.entry = e, !.edit = edit]
    <3>1. work.correction = None /\ work.kind = kind
      BY DEF NoWork
    <3>2. Case(work, "readEntry")
      BY <2>1, <3>1
    <3>. QED  BY <3>2
  <2>2. ASSUME NEW e, NEW kind \in {"pay", "unpay"},
               Arrive(r, [NoWork EXCEPT !.kind = kind, !.entry = e], "readEntry")
        PROVE  \E work, stage : Case(work, stage)
    <3>. DEFINE work == [NoWork EXCEPT !.kind = kind, !.entry = e]
    <3>1. work.correction = None /\ work.kind = kind
      BY DEF NoWork
    <3>2. Case(work, "readEntry")
      BY <2>2, <3>1
    <3>. QED  BY <3>2
  <2>3. ASSUME NEW e, NEW wish,
               Arrive(r, [NoWork EXCEPT !.kind = "request", !.entry = e, !.edit = wish], "readEntry")
        PROVE  \E work, stage : Case(work, stage)
    <3>. DEFINE work == [NoWork EXCEPT !.kind = "request", !.entry = e, !.edit = wish]
    <3>1. work.correction = None /\ work.kind = "request"
      BY DEF NoWork
    <3>2. Case(work, "readEntry")
      BY <2>3, <3>1
    <3>. QED  BY <3>2
  <2>4. ASSUME NEW c, NEW kind,
               Arrive(r, [NoWork EXCEPT !.kind = kind, !.source = "correction_approved",
                                        !.correction = c], "readCorrection")
        PROVE  \E work, stage : Case(work, stage)
    BY <2>4
  <2>5. ASSUME NEW q \in Periods, NEW kind \in {"lock", "unlock"},
               Arrive(r, [NoWork EXCEPT !.kind = kind, !.period = q], "readPeriod")
        PROVE  \E work, stage : Case(work, stage)
    <3>. DEFINE work == [NoWork EXCEPT !.kind = kind, !.period = q]
    <3>1. work.period = q /\ work.kind = kind
      BY DEF NoWork
    <3>2. Case(work, "readPeriod")
      BY <2>5, <3>1
    <3>. QED  BY <3>2
  <2>6. \E work, stage : Case(work, stage)
    <3>. HIDE DEF Case
    <3>. QED  BY <2>1, <2>2, <2>3, <2>4, <2>5 DEF ArriveAny, ArriveWith
  <2>. QED  BY <2>6
<1>2. pc[r] = "idle" /\ Unwritten /\ pc'[r] = stage /\ loc'[r] = work
  BY <1>1 DEF ArriveAny, MayArrive, At, Arrive, Goto, Unwritten, tables, trails, Solo, EditInv, ShapeOK
<1>3. pc[r] \notin AuditStages /\ pc'[r] \notin AuditStages
  BY <1>1, <1>2 DEF AuditStages, Noted
<1>4. KindOK(r)'
  BY <1>1, <1>2 DEF KindOK
<1>. QED  BY <1>2, <1>3, <1>4, QuietStory DEF Solo
-----------------------------------------------------------------------------
(* The steps that change an entry *)

\* What a step that writes no row of an entry leaves on its trail.
LEMMA EditsSame ==
  ASSUME NEW e, entryTrail'[e] = entryTrail[e]
  PROVE  /\ EditRows(e)' = EditRows(e) /\ PaidRows(e)' = PaidRows(e)
         /\ EditsLinked(e)' <=> EditsLinked(e)
         /\ MarkedPaid(e)' = MarkedPaid(e)
<1>1. EditRows(e)' = EditRows(e) /\ PaidRows(e)' = PaidRows(e)
  BY DEF EditRows, PaidRows
<1>. QED  BY <1>1 DEF EditsLinked, MarkedPaid, IsLast

LEMMA BreaksSame ==
  ASSUME NEW e, breakTrail'[e] = breakTrail[e]
  PROVE  (BreaksLinked(e)' <=> BreaksLinked(e)) /\ BreakOnRecord(e)' = BreakOnRecord(e)
BY DEF BreaksLinked, BreakOnRecord

\* A step on one entry has to tell of that one.
LEMMA OneEntry ==
  ASSUME NEW r \in Requests, Solo(r), NEW e \in Entries, loc[r].entry = e, loc'[r].entry = e,
         \A f \in Entries \ {e} : entries'[f] = entries[f] /\ breaks'[f] = breaks[f],
         UNCHANGED <<entryTrail, breakTrail, cutShort>>, e \notin cutShort => TrailAt(r, e)'
  PROVE  (\A f \in Entries \ cutShort : TrailAt(r, f))'
<1>1. ASSUME NEW f \in Entries \ cutShort, f # e PROVE TrailAt(r, f)'
  <2>1. ~Holds(r, Noted, f) /\ ~Holds(r, Noted, f)'
    BY <1>1 DEF Holds
  <2>. QED  BY <1>1, <2>1, TrailFrame DEF Solo, Story
<1>. QED  BY <1>1

LEMMA StoryOfUpdate ==
  ASSUME NEW r \in Requests, Solo(r), UpdateEntry(r)
  PROVE  Story(r)' /\ TrailShapes'
<1>1. PICK e, row :
        /\ e = loc[r].entry
        /\ row = [entries[e] EXCEPT !.in = NewIn(entries[e], loc[r].edit),
                                    !.out = NewOut(entries[e], loc[r].edit),
                                    !.edited = TRUE]
        /\ entries' = [entries EXCEPT ![e] = row]
        /\ loc' = [loc EXCEPT ![r].after = row]
  BY DEF UpdateEntry
<1>2. /\ pc[r] = "updateEntry" /\ Goto(r, "auditEdit")
      /\ UNCHANGED <<breaks, corrections, periods, entryTrail, breakTrail, reviewTrail,
                     periodTrail, cutShort>>
  BY DEF UpdateEntry, At, trails, bounds
<1>3. /\ KindOK(r) /\ DOMAIN loc[r] = DOMAIN NoWork /\ DOMAIN loc = Requests /\ DOMAIN pc = Requests
      /\ e \in Entries /\ DOMAIN entries = Entries /\ DOMAIN entries[e] = DOMAIN NoRow
      /\ loc[r].row = entries[e]
  BY <1>1, <1>2 DEF Solo, Story, EditInv, WorkOK, OnEntry, ShapeOK, FreshOK
<1>4. /\ row.edited = TRUE /\ row.paid = entries[e].paid
      /\ entries'[e] = row /\ \A f \in Entries \ {e} : entries'[f] = entries[f]
  BY <1>1, <1>3 DEF NoRow
<1>5. /\ pc'[r] = "auditEdit" /\ loc'[r].kind = loc[r].kind /\ loc'[r].entry = e
      /\ loc'[r].correction = loc[r].correction /\ loc'[r].row = loc[r].row /\ loc'[r].after = row
  BY <1>1, <1>2, <1>3 DEF Goto, NoWork
<1>6. KindOK(r)'
  BY <1>2, <1>3, <1>5 DEF KindOK
<1>7. (\A c \in CorrectionIds \ cutShort : ReviewAt(r, c))' /\ ReasonsKnown'
  BY <1>2, <1>5, ReviewsFrame DEF Solo, InHand
<1>8. (\A p \in Periods \ cutShort : LockAt(r, p))'
  BY <1>2, <1>5, LocksFrame DEF Solo
<1>9. TrailShapes'
  BY <1>2 DEF Solo, TrailShapes
<1>10. ASSUME e \notin cutShort PROVE TrailAt(r, e)'
  <2>1. TrailAt(r, e)
    BY <1>3, <1>10 DEF Solo, Story
  <2>2. EditsAt(r, e)'
    <3>1. EditsEnd(e, View(loc[r].row))
      BY <1>2, <1>3, <2>1 DEF TrailAt, EditsAt, Holds
    <3>2. EditsEnd(e, View(loc[r].row))'
      BY <1>2, <1>5, <3>1, EditsSame DEF EditsEnd, IsLast, View
    <3>. QED  BY <1>4, <1>5, <3>2 DEF EditsAt, Holds
  <2>3. EditedAt(r, e)'
    BY <1>4, <1>5 DEF EditedAt, Holds
  <2>4. PaidAt(r, e)'
    BY <1>2, <1>4, <1>5, <2>1, EditsSame DEF TrailAt, PaidAt, Holds
  <2>5. BreakAt(r, e)'
    BY <1>2, <1>5, <2>1, BreaksSame DEF TrailAt, BreakAt, Holds
  <2>. QED  BY <1>2, <2>1, <2>2, <2>3, <2>4, <2>5, EditsSame, BreaksSame DEF TrailAt
<1>11. (\A f \in Entries \ cutShort : TrailAt(r, f))'
  BY <1>1, <1>2, <1>3, <1>4, <1>5, <1>10, OneEntry
<1>. QED  BY <1>6, <1>7, <1>8, <1>9, <1>11 DEF Story

LEMMA StoryOfSetPaid ==
  ASSUME NEW r \in Requests, Solo(r), SetPaid(r)
  PROVE  Story(r)' /\ TrailShapes'
<1>1. /\ pc[r] = "setPaid" /\ Goto(r, "auditPaid")
      /\ entries' = [entries EXCEPT ![loc[r].entry].paid = (loc[r].kind \in {"pay"})]
      /\ UNCHANGED <<loc, breaks, corrections, periods, entryTrail, breakTrail, reviewTrail,
                     periodTrail, cutShort>>
  BY DEF SetPaid, At, Is, trails, bounds
<1>2. PICK e \in Entries : e = loc[r].entry
  BY <1>1 DEF Solo, EditInv, WorkOK, OnEntry
<1>3. KindOK(r) /\ DOMAIN entries = Entries /\ DOMAIN entries[e] = DOMAIN NoRow /\ DOMAIN pc = Requests
  BY DEF Solo, Story, EditInv, ShapeOK
<1>4. /\ entries'[e].edited = entries[e].edited
      /\ entries'[e].in = entries[e].in /\ entries'[e].out = entries[e].out
      /\ entries'[e].paid = (loc[r].kind = "pay")
      /\ \A f \in Entries \ {e} : entries'[f] = entries[f]
  BY <1>1, <1>2, <1>3 DEF NoRow
<1>5. pc'[r] = "auditPaid"
  BY <1>1, <1>3 DEF Goto
<1>6. KindOK(r)'
  BY <1>1, <1>2, <1>3, <1>5 DEF KindOK
<1>7. (\A c \in CorrectionIds \ cutShort : ReviewAt(r, c))' /\ ReasonsKnown'
  BY <1>1, <1>5, ReviewsFrame DEF Solo, InHand
<1>8. (\A p \in Periods \ cutShort : LockAt(r, p))'
  BY <1>1, <1>5, LocksFrame DEF Solo
<1>9. TrailShapes'
  BY <1>1 DEF Solo, TrailShapes
<1>10. ASSUME e \notin cutShort PROVE TrailAt(r, e)'
  <2>1. TrailAt(r, e)
    BY <1>3, <1>10 DEF Solo, Story
  <2>2. EditsAt(r, e)'
    <3>1. EditsEnd(e, View(entries[e]))
      BY <1>1, <2>1 DEF TrailAt, EditsAt, Holds
    <3>2. EditsEnd(e, View(entries[e]))'
      BY <1>1, <1>4, <3>1, EditsSame DEF EditsEnd, IsLast, View
    <3>. QED  BY <1>5, <3>2 DEF EditsAt, Holds
  <2>3. EditedAt(r, e)'
    BY <1>1, <1>4, <1>5, <2>1, EditsSame DEF TrailAt, EditedAt, Holds
  <2>4. PaidAt(r, e)'
    BY <1>1, <1>2, <1>4, <1>5 DEF PaidAt, Holds
  <2>5. BreakAt(r, e)'
    BY <1>1, <1>5, <2>1, BreaksSame DEF TrailAt, BreakAt, Holds
  <2>. QED  BY <1>1, <2>1, <2>2, <2>3, <2>4, <2>5, EditsSame, BreaksSame DEF TrailAt
<1>11. (\A f \in Entries \ cutShort : TrailAt(r, f))'
  BY <1>1, <1>2, <1>3, <1>4, <1>5, <1>10, OneEntry
<1>. QED  BY <1>6, <1>7, <1>8, <1>9, <1>11 DEF Story

LEMMA StoryOfWriteBreak ==
  ASSUME NEW r \in Requests, Solo(r), WriteBreak(r)
  PROVE  Story(r)' /\ TrailShapes'
<1>1. /\ pc[r] = "writeBreak" /\ Goto(r, "flagEntry")
      /\ breaks' = [breaks EXCEPT ![loc[r].entry] = loc[r].edit]
      /\ UNCHANGED <<loc, entries, corrections, periods, entryTrail, breakTrail, reviewTrail,
                     periodTrail, cutShort>>
  BY DEF WriteBreak, At, trails, bounds
<1>2. PICK e \in Entries : e = loc[r].entry
  BY <1>1 DEF Solo, EditInv, WorkOK, OnEntry
<1>3. /\ KindOK(r) /\ pc'[r] = "flagEntry" /\ loc[r].brk = breaks[e]
      /\ breaks'[e] = loc[r].edit /\ \A f \in Entries \ {e} : breaks'[f] = breaks[f]
  BY <1>1, <1>2 DEF Solo, Story, KindOK, EditInv, ShapeOK, Goto
<1>4. KindOK(r)'
  BY <1>1, <1>2, <1>3 DEF KindOK
<1>5. (\A c \in CorrectionIds \ cutShort : ReviewAt(r, c))' /\ ReasonsKnown'
  BY <1>1, <1>3, ReviewsFrame DEF Solo, InHand
<1>6. (\A p \in Periods \ cutShort : LockAt(r, p))'
  BY <1>1, <1>3, LocksFrame DEF Solo
<1>7. TrailShapes'
  BY <1>1 DEF Solo, TrailShapes
<1>8. ASSUME e \notin cutShort PROVE TrailAt(r, e)'
  <2>1. TrailAt(r, e)
    BY <1>8 DEF Solo, Story
  <2>2. EditsAt(r, e)'
    <3>1. EditsEnd(e, View(entries[e]))
      BY <1>1, <2>1 DEF TrailAt, EditsAt, Holds
    <3>2. EditsEnd(e, View(entries[e]))'
      BY <1>1, <3>1, EditsSame DEF EditsEnd, IsLast, View
    <3>. QED  BY <1>3, <3>2 DEF EditsAt, Holds
  <2>3. EditedAt(r, e)'
    BY <1>1, <1>3, <2>1, EditsSame DEF TrailAt, EditedAt, Holds
  <2>4. PaidAt(r, e)'
    BY <1>1, <1>3, <2>1, EditsSame DEF TrailAt, PaidAt, Holds
  <2>5. BreakAt(r, e)'
    <3>1. breaks[e] = BreakOnRecord(e)
      BY <1>1, <2>1 DEF TrailAt, BreakAt, Holds
    <3>. QED  BY <1>1, <1>2, <1>3, <3>1, BreaksSame DEF BreakAt, Holds
  <2>. QED  BY <1>1, <2>1, <2>2, <2>3, <2>4, <2>5, EditsSame, BreaksSame DEF TrailAt
<1>9. (\A f \in Entries \ cutShort : TrailAt(r, f))'
  BY <1>1, <1>2, <1>3, <1>8, OneEntry
<1>. QED  BY <1>4, <1>5, <1>6, <1>7, <1>9 DEF Story

LEMMA StoryOfFlag ==
  ASSUME NEW r \in Requests, Solo(r), FlagEntry(r)
  PROVE  Story(r)' /\ TrailShapes'
<1>1. /\ pc[r] = "flagEntry" /\ Goto(r, "auditBreak")
      /\ entries' = [entries EXCEPT ![loc[r].entry].edited = TRUE]
      /\ UNCHANGED <<loc, breaks, corrections, periods, entryTrail, breakTrail, reviewTrail,
                     periodTrail, cutShort>>
  BY DEF FlagEntry, At, trails, bounds
<1>2. PICK e \in Entries : e = loc[r].entry
  BY <1>1 DEF Solo, EditInv, WorkOK, OnEntry
<1>3. KindOK(r) /\ DOMAIN entries = Entries /\ DOMAIN entries[e] = DOMAIN NoRow /\ DOMAIN pc = Requests
  BY DEF Solo, Story, EditInv, ShapeOK
<1>4. /\ pc'[r] = "auditBreak" /\ entries'[e].edited = TRUE
      /\ entries'[e].in = entries[e].in /\ entries'[e].out = entries[e].out
      /\ entries'[e].paid = entries[e].paid
      /\ \A f \in Entries \ {e} : entries'[f] = entries[f]
  BY <1>1, <1>2, <1>3 DEF Goto, NoRow
<1>5. KindOK(r)'
  BY <1>1, <1>2, <1>3, <1>4 DEF KindOK
<1>6. (\A c \in CorrectionIds \ cutShort : ReviewAt(r, c))' /\ ReasonsKnown'
  BY <1>1, <1>4, ReviewsFrame DEF Solo, InHand
<1>7. (\A p \in Periods \ cutShort : LockAt(r, p))'
  BY <1>1, <1>4, LocksFrame DEF Solo
<1>8. TrailShapes'
  BY <1>1 DEF Solo, TrailShapes
<1>9. ASSUME e \notin cutShort PROVE TrailAt(r, e)'
  <2>1. TrailAt(r, e)
    BY <1>9 DEF Solo, Story
  <2>2. EditsAt(r, e)'
    <3>1. EditsEnd(e, View(entries[e]))
      BY <1>1, <2>1 DEF TrailAt, EditsAt, Holds
    <3>2. EditsEnd(e, View(entries[e]))'
      BY <1>1, <1>4, <3>1, EditsSame DEF EditsEnd, IsLast, View
    <3>. QED  BY <1>4, <3>2 DEF EditsAt, Holds
  <2>3. EditedAt(r, e)'
    BY <1>1, <1>2, <1>4 DEF EditedAt, Holds
  <2>4. PaidAt(r, e)'
    BY <1>1, <1>4, <2>1, EditsSame DEF TrailAt, PaidAt, Holds
  <2>5. BreakAt(r, e)'
    BY <1>1, <1>2, <1>4, <2>1, BreaksSame DEF TrailAt, BreakAt, Holds
  <2>. QED  BY <1>1, <2>1, <2>2, <2>3, <2>4, <2>5, EditsSame, BreaksSame DEF TrailAt
<1>10. (\A f \in Entries \ cutShort : TrailAt(r, f))'
  BY <1>1, <1>2, <1>4, <1>9, OneEntry
<1>. QED  BY <1>5, <1>6, <1>7, <1>8, <1>10 DEF Story
-----------------------------------------------------------------------------
(* The steps that write an audit row *)

\* Row is the new last of the n + 1 audit rows of entry e.
Noting(e, n, row) ==
  /\ n \in Nat /\ DOMAIN entryTrail[e] = 1..n /\ DOMAIN entryTrail'[e] = 1..(n + 1)
  /\ entryTrail'[e][n + 1] = row
  /\ \A k \in 1..n : entryTrail'[e][k] = entryTrail[e][k]
  /\ \A f \in Entries \ {e} : entryTrail'[f] = entryTrail[f]

LEMMA RowNoted ==
  ASSUME EditInv, NEW e \in Entries, NEW action, NEW reason, NEW old, NEW new,
         AuditEntry(e, action, reason, old, new)
  PROVE  \E n, row : /\ row.action = action /\ row.reason = reason /\ row.old = old /\ row.new = new
                     /\ Noting(e, n, row)
<1>1. PICK row : row = [action |-> action, reason |-> reason, old |-> old, new |-> new]
  OBVIOUS
<1>2. PICK S : entryTrail \in [Entries -> Seq(S)]
  BY DEF EditInv, ShapeOK
<1>3. entryTrail' = [entryTrail EXCEPT ![e] = Append(entryTrail[e], row)]
  BY <1>1 DEF AuditEntry
<1>4. /\ entryTrail'[e] = Append(entryTrail[e], row) /\ entryTrail[e] \in Seq(S \cup {row})
      /\ \A f \in Entries \ {e} : entryTrail'[f] = entryTrail[f]
  BY <1>2, <1>3
<1>5. Noting(e, Len(entryTrail[e]), row)
  BY <1>4 DEF Noting
<1>. QED  BY <1>1, <1>5

\* The row of an edit starts from the times the one before it left.
LEMMA EditNoted ==
  ASSUME NEW e, NEW n, NEW row, Noting(e, n, row), row.action \in Sources,
         EditsLinked(e), EditsEnd(e, row.old)
  PROVE  /\ EditRows(e)' = EditRows(e) \cup {n + 1} /\ EditsLinked(e)'
         /\ \A k \in EditRows(e)' : IsLast(k, EditRows(e)') => entryTrail'[e][k].new = row.new
         /\ MarkedPaid(e)' = MarkedPaid(e)
<1>1. EditRows(e)' = EditRows(e) \cup {n + 1} /\ EditRows(e) \subseteq 1..n
  BY DEF Noting, EditRows
<1>2. PaidRows(e)' = PaidRows(e) /\ PaidRows(e) \subseteq 1..n
  BY <1>1 DEF PaidRows, Noting
<1>3. ASSUME NEW j \in EditRows(e)', NEW k \in EditRows(e)', j < k,
             \A i \in EditRows(e)' : i <= j \/ k <= i
      PROVE  entryTrail'[e][k].old = entryTrail'[e][j].new
  <2>1. j \in EditRows(e) /\ j \in 1..n
    BY <1>1, <1>3 DEF Noting
  <2>2. CASE k = n + 1
    <3>1. \A i \in EditRows(e) : i <= j
      BY <1>1, <1>3, <2>2 DEF Noting
    <3>2. entryTrail[e][j].new = row.old
      BY <2>1, <3>1 DEF EditsEnd, IsLast
    <3>. QED  BY <2>1, <2>2, <3>2 DEF Noting
  <2>3. CASE k \in EditRows(e)
    <3>1. entryTrail[e][k].old = entryTrail[e][j].new
      BY <1>1, <1>3, <2>1, <2>3 DEF EditsLinked
    <3>. QED  BY <1>1, <2>1, <2>3, <3>1 DEF Noting
  <2>. QED  BY <1>1, <1>3, <2>2, <2>3
<1>4. EditsLinked(e)'
  BY <1>3 DEF EditsLinked
<1>5. ASSUME NEW k \in EditRows(e)', IsLast(k, EditRows(e)') PROVE entryTrail'[e][k].new = row.new
  <2>1. k = n + 1
    BY <1>1, <1>5 DEF IsLast, Noting
  <2>. QED  BY <2>1 DEF Noting
<1>6. \A k \in PaidRows(e) : entryTrail'[e][k] = entryTrail[e][k]
  BY <1>2 DEF Noting
<1>7. MarkedPaid(e)' = MarkedPaid(e)
  BY <1>2, <1>6 DEF MarkedPaid, IsLast
<1>. QED  BY <1>1, <1>4, <1>5, <1>7

\* The row of a paid mark says whether the entry is paid.
LEMMA MarkNoted ==
  ASSUME NEW e, NEW n, NEW row, Noting(e, n, row), row.action \notin Sources
  PROVE  /\ EditRows(e)' = EditRows(e) /\ (EditsLinked(e)' <=> EditsLinked(e))
         /\ \A k \in EditRows(e) : entryTrail'[e][k] = entryTrail[e][k]
         /\ MarkedPaid(e)' = (row.action = "mark_paid")
<1>1. EditRows(e)' = EditRows(e) /\ EditRows(e) \subseteq 1..n
  BY DEF Noting, EditRows
<1>2. PaidRows(e)' = PaidRows(e) \cup {n + 1} /\ PaidRows(e) \subseteq 1..n
  BY <1>1 DEF PaidRows, Noting
<1>3. \A k \in EditRows(e) : entryTrail'[e][k] = entryTrail[e][k]
  BY <1>1 DEF Noting
<1>4. EditsLinked(e)' <=> EditsLinked(e)
  BY <1>1, <1>3 DEF EditsLinked
<1>5. IsLast(n + 1, PaidRows(e)') /\ \A k \in PaidRows(e)' : IsLast(k, PaidRows(e)') => k = n + 1
  <2>1. n \in Nat /\ n + 1 \in PaidRows(e)' /\ \A k \in PaidRows(e)' : k \in 1..(n + 1)
    BY <1>2 DEF Noting
  <2>. QED  BY <2>1 DEF IsLast
<1>6. MarkedPaid(e)' <=> (row.action = "mark_paid")
  BY <1>5 DEF MarkedPaid, IsLast, Noting
<1>. QED  BY <1>1, <1>3, <1>4, <1>6 DEF MarkedPaid

\* What a row changes of what has been applied.
LEMMA ReasonNoted ==
  ASSUME EditInv, NEW e \in Entries, NEW n, NEW row, Noting(e, n, row), UNCHANGED corrections,
         NEW c \in CorrectionIds, corrections[c].status # "none"
  PROVE  Applied(c)' = IF corrections[c].entry = e /\ row.reason = c THEN Applied(c) \cup {n + 1}
                       ELSE Applied(c)
<1>1. PICK f \in Entries : f = corrections[c].entry
  BY DEF EditInv, ShapeOK
<1>2. Applied(c) = {k \in DOMAIN entryTrail[f] : entryTrail[f][k].reason = c}
  BY <1>1 DEF Applied
<1>3. Applied(c)' = {k \in DOMAIN entryTrail'[f] : entryTrail'[f][k].reason = c}
  BY <1>1 DEF Applied
<1>4. CASE f # e
  BY <1>1, <1>2, <1>3, <1>4 DEF Noting
<1>5. CASE f = e
  <2>1. DOMAIN entryTrail'[e] = DOMAIN entryTrail[e] \cup {n + 1}
    BY DEF Noting
  <2>2. /\ entryTrail'[e][n + 1] = row
        /\ \A k \in DOMAIN entryTrail[e] : entryTrail'[e][k] = entryTrail[e][k]
    BY DEF Noting
  <2>. QED  BY <1>1, <1>2, <1>3, <1>5, <2>1, <2>2
<1>. QED  BY <1>4, <1>5

\* A row that names no correction.
LEMMA NoReason ==
  ASSUME EditInv, NEW e \in Entries, NEW n, NEW row, Noting(e, n, row), row.reason = None,
         UNCHANGED <<corrections, reviewTrail>>
  PROVE  /\ \A c \in CorrectionIds : AtRest(c) => AtRest(c)'
         /\ ReasonsKnown => ReasonsKnown'
<1>1. \A c \in CorrectionIds : row.reason # c
  BY IdsAssumption
<1>2. \A c \in CorrectionIds : corrections[c].status # "none" => Applied(c)' = Applied(c)
  BY <1>1, ReasonNoted
<1>3. ASSUME NEW c \in CorrectionIds, AtRest(c) PROVE AtRest(c)'
  BY <1>2, <1>3 DEF AtRest, Once
<1>4. ASSUME ReasonsKnown, NEW f \in Entries, NEW k \in DOMAIN entryTrail'[f],
             NEW c \in CorrectionIds, entryTrail'[f][k].reason = c
      PROVE  corrections'[c].status # "none"
  <2>1. k \in DOMAIN entryTrail[f] /\ entryTrail'[f][k] = entryTrail[f][k]
    BY <1>1, <1>4 DEF Noting
  <2>. QED  BY <1>4, <2>1 DEF ReasonsKnown
<1>. QED  BY <1>3, <1>4 DEF ReasonsKnown

\* The other entries have nothing in hand.
LEMMA OtherEntries ==
  ASSUME NEW r \in Requests, Solo(r), NEW e \in Entries, loc[r].entry = e,
         pc'[r] \notin Noted \/ loc'[r].entry = e,
         \A f \in Entries \ {e} : entryTrail'[f] = entryTrail[f] /\ breakTrail'[f] = breakTrail[f],
         UNCHANGED <<entries, breaks, cutShort>>, e \notin cutShort => TrailAt(r, e)'
  PROVE  (\A f \in Entries \ cutShort : TrailAt(r, f))'
<1>1. ASSUME NEW f \in Entries \ cutShort, f # e PROVE TrailAt(r, f)'
  <2>1. ~Holds(r, Noted, f) /\ ~Holds(r, Noted, f)'
    BY <1>1 DEF Holds
  <2>. QED  BY <1>1, <2>1, TrailFrame DEF Solo, Story
<1>. QED  BY <1>1

LEMMA StoryOfAuditPaid ==
  ASSUME NEW r \in Requests, Solo(r), AuditPaid(r)
  PROVE  Story(r)' /\ TrailShapes'
<1>1. /\ pc[r] = "auditPaid" /\ Respond(r)
      /\ AuditEntry(loc[r].entry, IF loc[r].kind = "pay" THEN "mark_paid" ELSE "mark_unpaid", None,
                    NoView, NoView)
      /\ UNCHANGED <<entries, breaks, corrections, periods, breakTrail, reviewTrail, periodTrail,
                     cutShort>>
  BY DEF AuditPaid, At, Is, tables, bounds
<1>2. PICK e \in Entries : e = loc[r].entry
  BY <1>1 DEF Solo, EditInv, WorkOK, OnEntry
<1>3. PICK n, row : /\ row.action = IF loc[r].kind = "pay" THEN "mark_paid" ELSE "mark_unpaid"
                    /\ row.reason = None /\ Noting(e, n, row)
  BY <1>1, <1>2, RowNoted DEF Solo
<1>4. pc'[r] = "idle"
  BY <1>1, RespondOK DEF Solo
<1>5. KindOK(r)'
  BY <1>4 DEF KindOK
<1>6. (\A c \in CorrectionIds \ cutShort : ReviewAt(r, c))' /\ ReasonsKnown'
  <2>1. \A c \in CorrectionIds \ cutShort : AtRest(c)
    BY <1>1 DEF Solo, Story, ReviewAt, InHand
  <2>2. \A c \in CorrectionIds \ cutShort : AtRest(c)'
    BY <1>1, <1>3, <2>1, NoReason DEF Solo
  <2>3. ReasonsKnown'
    BY <1>1, <1>3, NoReason DEF Solo, Story
  <2>. QED  BY <1>1, <1>4, <2>2, <2>3 DEF ReviewAt, InHand
<1>7. (\A p \in Periods \ cutShort : LockAt(r, p))'
  BY <1>1, <1>4, LocksFrame DEF Solo
<1>8. TrailShapes'
  BY <1>1 DEF Solo, TrailShapes
<1>9. ASSUME e \notin cutShort PROVE TrailAt(r, e)'
  <2>1. TrailAt(r, e)
    BY <1>9 DEF Solo, Story
  <2>2. row.action \notin Sources
    BY <1>3 DEF Sources
  <2>3. /\ EditRows(e)' = EditRows(e) /\ (EditsLinked(e)' <=> EditsLinked(e))
        /\ \A k \in EditRows(e) : entryTrail'[e][k] = entryTrail[e][k]
        /\ MarkedPaid(e)' = (row.action = "mark_paid")
    BY <1>3, <2>2, MarkNoted
  <2>4. EditsAt(r, e)'
    <3>1. EditsEnd(e, View(entries[e]))
      BY <1>1, <2>1 DEF TrailAt, EditsAt, Holds
    <3>2. EditsEnd(e, View(entries[e]))'
      BY <1>1, <2>3, <3>1 DEF EditsEnd, IsLast, View
    <3>. QED  BY <1>4, <3>2 DEF EditsAt, Holds
  <2>5. EditedAt(r, e)'
    BY <1>1, <1>4, <2>1, <2>3 DEF TrailAt, EditedAt, Holds
  <2>6. PaidAt(r, e)'
    <3>1. entries[e].paid = (loc[r].kind = "pay")
      BY <1>1, <1>2, <2>1 DEF TrailAt, PaidAt, Holds
    <3>2. (row.action = "mark_paid") = (loc[r].kind = "pay")
      BY <1>3
    <3>. QED  BY <1>1, <1>4, <2>3, <3>1, <3>2 DEF PaidAt, Holds
  <2>7. BreakAt(r, e)'
    BY <1>1, <1>4, <2>1, BreaksSame DEF TrailAt, BreakAt, Holds
  <2>. QED  BY <1>1, <2>1, <2>3, <2>4, <2>5, <2>6, <2>7, BreaksSame DEF TrailAt
<1>10. (\A f \in Entries \ cutShort : TrailAt(r, f))'
  <2>1. pc'[r] \notin Noted
    BY <1>4 DEF Noted
  <2>2. \A f \in Entries \ {e} : entryTrail'[f] = entryTrail[f]
    BY <1>3 DEF Noting
  <2>. QED  BY <1>1, <1>2, <1>9, <2>1, <2>2, OtherEntries
<1>. QED  BY <1>5, <1>6, <1>7, <1>8, <1>10 DEF Story

\* The row of an edit: of an approval it is the one that applies the correction.
LEMMA StoryOfAuditEdit ==
  ASSUME NEW r \in Requests, Solo(r), AuditEdit(r)
  PROVE  Story(r)' /\ TrailShapes'
<1>1. /\ pc[r] = "auditEdit"
      /\ AuditEntry(loc[r].entry, loc[r].source, loc[r].correction, View(loc[r].row),
                    View(loc[r].after))
      /\ UNCHANGED <<entries, breaks, corrections, periods, breakTrail, reviewTrail, periodTrail,
                     cutShort>>
      /\ IF loc[r].kind = "approve" THEN Goto(r, "setStatus") /\ UNCHANGED loc ELSE Respond(r)
  BY DEF AuditEdit, At, Is, tables, bounds
<1>2. PICK e \in Entries : e = loc[r].entry
  BY <1>1 DEF Solo, EditInv, WorkOK, OnEntry
<1>3. PICK n, row : /\ row.action = loc[r].source /\ row.reason = loc[r].correction
                    /\ row.old = View(loc[r].row) /\ row.new = View(loc[r].after)
                    /\ Noting(e, n, row)
  BY <1>1, <1>2, RowNoted DEF Solo
<1>4. KindOK(r) /\ WorkOK(r) /\ DOMAIN pc = Requests /\ loc[r].source \in Sources
  BY DEF Solo, Story, EditInv, ShapeOK, TypeInv, TypeOK, Locals
<1>5. /\ loc[r].kind # "approve" => pc'[r] = "idle"
      /\ loc[r].kind = "approve" => pc'[r] = "setStatus" /\ loc'[r] = loc[r]
  BY <1>1, <1>4, RespondOK DEF Solo, Goto
<1>6. KindOK(r)'
  BY <1>1, <1>4, <1>5 DEF KindOK
<1>7. \A c \in CorrectionIds \ cutShort : AtRest(c)
  BY <1>1 DEF Solo, Story, ReviewAt, InHand
<1>8. (\A c \in CorrectionIds \ cutShort : ReviewAt(r, c))' /\ ReasonsKnown'
  <2>1. CASE loc[r].kind # "approve"
    <3>1. row.reason = None
      BY <1>1, <1>3, <1>4, <2>1 DEF KindOK
    <3>2. \A c \in CorrectionIds \ cutShort : AtRest(c)'
      BY <1>1, <1>3, <1>7, <3>1, NoReason DEF Solo
    <3>3. ReasonsKnown'
      BY <1>1, <1>3, <3>1, NoReason DEF Solo, Story
    <3>. QED  BY <1>1, <1>5, <2>1, <3>2, <3>3 DEF ReviewAt, InHand
  <2>2. CASE loc[r].kind = "approve"
    <3>1. PICK c \in CorrectionIds : c = loc[r].correction
      BY <2>2, <1>4 DEF WorkOK
    <3>2. corrections[c].status = "pending" /\ corrections[c].entry = e
      BY <1>1, <1>2, <1>4, <2>2, <3>1, IdsAssumption DEF KindOK, WorkOK, Deciding
    <3>3. Applied(c)' = Applied(c) \cup {n + 1}
      BY <1>1, <1>3, <3>1, <3>2, ReasonNoted DEF Solo
    <3>4. ASSUME NEW d \in CorrectionIds \ cutShort' PROVE ReviewAt(r, d)'
      <4>1. CASE d # c
        <5>1. corrections[d].status # "none" => Applied(d)' = Applied(d)
          BY <1>1, <1>3, <3>1, <4>1, ReasonNoted DEF Solo
        <5>2. AtRest(d)'
          BY <1>1, <1>7, <3>4, <5>1 DEF AtRest, Once
        <5>. QED  BY <1>5, <2>2, <3>1, <4>1, <5>2 DEF ReviewAt, InHand
      <4>2. CASE d = c
        <5>1. Applied(c) = {} /\ reviewTrail[c] = <<"request">>
          BY <1>1, <1>7, <3>2, <3>4, <4>2 DEF AtRest
        <5>2. Applied(c)' = {n + 1}
          BY <3>3, <5>1
        <5>3. Once(c)'
          BY <5>2 DEF Once
        <5>4. UnderWay(r, c)'
          BY <1>1, <1>5, <2>2, <3>2, <5>1, <5>3 DEF UnderWay, Executed
        <5>. QED  BY <1>5, <2>2, <3>1, <4>2, <5>4 DEF ReviewAt, InHand
      <4>. QED  BY <4>1, <4>2
    <3>5. ReasonsKnown'
      <4>1. ASSUME NEW f \in Entries, NEW k \in DOMAIN entryTrail'[f],
                   NEW d \in CorrectionIds, entryTrail'[f][k].reason = d
            PROVE  corrections'[d].status # "none"
        <5>1. CASE k \in DOMAIN entryTrail[f] /\ entryTrail'[f][k] = entryTrail[f][k]
          BY <1>1, <4>1, <5>1 DEF Solo, Story, ReasonsKnown
        <5>2. CASE f = e /\ k = n + 1
          BY <1>1, <1>3, <3>1, <3>2, <4>1, <5>2 DEF Noting
        <5>3. CASE f = e /\ k # n + 1
          <6>1. k \in 1..n
            BY <1>3, <4>1, <5>3 DEF Noting
          <6>. QED  BY <1>3, <5>1, <5>3, <6>1 DEF Noting
        <5>4. CASE f # e
          BY <1>3, <4>1, <5>1, <5>4 DEF Noting
        <5>. QED  BY <5>2, <5>3, <5>4
      <4>. QED  BY <4>1 DEF ReasonsKnown
    <3>. QED  BY <3>4, <3>5
  <2>. QED  BY <2>1, <2>2
<1>9. pc'[r] \in {"idle", "setStatus"}
  BY <1>5
<1>10. (\A p \in Periods \ cutShort : LockAt(r, p))'
  BY <1>1, <1>9, LocksFrame DEF Solo
<1>11. TrailShapes'
  BY <1>1 DEF Solo, TrailShapes
<1>12. ASSUME e \notin cutShort PROVE TrailAt(r, e)'
  <2>1. TrailAt(r, e)
    BY <1>12 DEF Solo, Story
  <2>2. /\ EditsLinked(e) /\ EditsEnd(e, row.old) /\ row.new = View(entries[e]) /\ entries[e].edited
    BY <1>1, <1>2, <1>3, <2>1 DEF TrailAt, EditsAt, EditedAt, Holds
  <2>3. /\ EditRows(e)' = EditRows(e) \cup {n + 1} /\ EditsLinked(e)'
        /\ \A k \in EditRows(e)' : IsLast(k, EditRows(e)') => entryTrail'[e][k].new = row.new
        /\ MarkedPaid(e)' = MarkedPaid(e)
    BY <1>3, <1>4, <2>2, EditNoted
  <2>4. EditsAt(r, e)'
    <3>1. EditsEnd(e, View(entries[e]))'
      BY <1>1, <2>2, <2>3 DEF EditsEnd, View
    <3>. QED  BY <1>9, <3>1 DEF EditsAt, Holds
  <2>5. EditedAt(r, e)'
    BY <1>1, <1>4, <1>9, <2>2, <2>3 DEF EditedAt, Holds
  <2>6. PaidAt(r, e)'
    BY <1>1, <1>9, <2>1, <2>3 DEF TrailAt, PaidAt, Holds
  <2>7. BreakAt(r, e)'
    BY <1>1, <1>9, <2>1, BreaksSame DEF TrailAt, BreakAt, Holds
  <2>. QED  BY <1>1, <2>1, <2>3, <2>4, <2>5, <2>6, <2>7, BreaksSame DEF TrailAt
<1>13. (\A f \in Entries \ cutShort : TrailAt(r, f))'
  <2>1. pc'[r] \notin Noted
    BY <1>9 DEF Noted
  <2>2. \A f \in Entries \ {e} : entryTrail'[f] = entryTrail[f]
    BY <1>3 DEF Noting
  <2>. QED  BY <1>1, <1>2, <1>12, <2>1, <2>2, OtherEntries
<1>. QED  BY <1>6, <1>8, <1>10, <1>11, <1>13 DEF Story

\* The row of a break edit.
LEMMA StoryOfAuditBreak ==
  ASSUME NEW r \in Requests, Solo(r), AuditBreak(r)
  PROVE  Story(r)' /\ TrailShapes'
<1>1. PICK e, row :
        /\ e = loc[r].entry /\ row = [old |-> loc[r].brk, new |-> loc[r].edit]
        /\ breakTrail' = [breakTrail EXCEPT ![e] = Append(breakTrail[e], row)]
  BY DEF AuditBreak
<1>2. /\ pc[r] = "auditBreak" /\ Respond(r) /\ row.old = loc[r].brk /\ row.new = loc[r].edit
      /\ UNCHANGED <<entries, breaks, corrections, periods, entryTrail, reviewTrail, periodTrail,
                     cutShort>>
  BY <1>1 DEF AuditBreak, At, tables, bounds
<1>3. e \in Entries
  BY <1>1, <1>2 DEF Solo, Story, KindOK
<1>4. pc'[r] = "idle"
  BY <1>2, RespondOK DEF Solo
<1>5. KindOK(r)'
  BY <1>4 DEF KindOK
<1>6. (\A c \in CorrectionIds \ cutShort : ReviewAt(r, c))' /\ ReasonsKnown'
  BY <1>2, <1>4, ReviewsFrame DEF Solo, InHand
<1>7. (\A p \in Periods \ cutShort : LockAt(r, p))'
  BY <1>2, <1>4, LocksFrame DEF Solo
<1>8. PICK S : breakTrail \in [Entries -> Seq(S)]
  BY DEF Solo, TrailShapes
<1>9. /\ breakTrail'[e] = Append(breakTrail[e], row) /\ breakTrail[e] \in Seq(S \cup {row})
      /\ \A f \in Entries \ {e} : breakTrail'[f] = breakTrail[f]
  BY <1>1, <1>3, <1>8
<1>10. PICK n \in Nat :
         /\ n = Len(breakTrail[e]) /\ Len(breakTrail'[e]) = n + 1
         /\ breakTrail'[e][n + 1] = row /\ \A k \in 1..n : breakTrail'[e][k] = breakTrail[e][k]
         /\ breakTrail'[e] \in Seq(S \cup {row}) /\ breakTrail'[e] # <<>>
         /\ n = 0 <=> breakTrail[e] = <<>>
  BY <1>9
<1>11. TrailShapes'
  <2>1. breakTrail' \in [Entries -> Seq(S \cup {row})]
    <3>1. \A f \in Entries : breakTrail'[f] \in Seq(S \cup {row})
      BY <1>8, <1>9, <1>10
    <3>. QED  BY <1>1, <1>8, <3>1
  <2>. QED  BY <1>2, <2>1 DEF Solo, TrailShapes
<1>12. ASSUME e \notin cutShort PROVE TrailAt(r, e)'
  <2>1. TrailAt(r, e)
    BY <1>3, <1>12 DEF Solo, Story
  <2>2. EditsAt(r, e)'
    <3>1. EditsEnd(e, View(entries[e]))
      BY <1>2, <2>1 DEF TrailAt, EditsAt, Holds
    <3>2. EditsEnd(e, View(entries[e]))'
      BY <1>2, <3>1, EditsSame DEF EditsEnd, IsLast, View
    <3>. QED  BY <1>4, <3>2 DEF EditsAt, Holds
  <2>3. entries[e].edited /\ entries[e].edited \in BOOLEAN
    BY <1>1, <1>2, <1>3, <2>1 DEF TrailAt, EditedAt, Holds, Solo, TypeInv, TypeOK, EntryRows
  <2>4. EditedAt(r, e)'
    BY <1>2, <1>4, <1>10, <2>3 DEF EditedAt, Holds
  <2>5. PaidAt(r, e)'
    BY <1>2, <1>4, <2>1, EditsSame DEF TrailAt, PaidAt, Holds
  <2>6. loc[r].brk = BreakOnRecord(e) /\ breaks[e] = loc[r].edit
    BY <1>1, <1>2, <2>1 DEF TrailAt, BreakAt, Holds
  <2>7. BreakAt(r, e)'
    BY <1>2, <1>4, <1>10, <2>6 DEF BreakAt, Holds, BreakOnRecord
  <2>8. BreaksLinked(e)'
    <3>1. ASSUME NEW k \in 1..n PROVE breakTrail'[e][k + 1].old = breakTrail'[e][k].new
      <4>1. CASE k = n
        BY <1>2, <1>10, <2>6, <3>1, <4>1 DEF BreakOnRecord
      <4>2. CASE k # n
        <5>1. k \in 1..(n - 1) /\ k + 1 \in 1..n
          BY <1>10, <3>1, <4>2
        <5>. QED  BY <1>10, <2>1, <5>1 DEF TrailAt, BreaksLinked
      <4>. QED  BY <4>1, <4>2
    <3>2. 1..(Len(breakTrail'[e]) - 1) = 1..n
      BY <1>10
    <3>. QED  BY <3>1, <3>2 DEF BreaksLinked
  <2>. QED  BY <1>2, <2>1, <2>2, <2>4, <2>5, <2>7, <2>8, EditsSame DEF TrailAt
<1>13. (\A f \in Entries \ cutShort : TrailAt(r, f))'
  <2>1. pc'[r] \notin Noted
    BY <1>4 DEF Noted
  <2>. QED  BY <1>1, <1>2, <1>3, <1>9, <1>12, <2>1, OtherEntries
<1>. QED  BY <1>5, <1>6, <1>7, <1>11, <1>13 DEF Story
-----------------------------------------------------------------------------
(* The steps of a correction *)

\* A step on one correction has to tell of that one.
LEMMA OneCorrection ==
  ASSUME NEW r \in Requests, Solo(r), NEW c \in CorrectionIds,
         \A d \in CorrectionIds : InHand(r, d) \/ InHand(r, d)' => d = c,
         \A d \in CorrectionIds \ {c} :
           corrections'[d] = corrections[d] /\ reviewTrail'[d] = reviewTrail[d],
         UNCHANGED <<entryTrail, cutShort>>, c \notin cutShort => ReviewAt(r, c)'
  PROVE  (\A d \in CorrectionIds \ cutShort : ReviewAt(r, d))'
<1>1. ASSUME NEW d \in CorrectionIds \ cutShort, d # c PROVE ReviewAt(r, d)'
  <2>1. AtRest(d)
    BY <1>1 DEF Solo, Story, ReviewAt
  <2>2. Applied(d)' = Applied(d)
    BY <1>1 DEF Applied
  <2>3. AtRest(d)'
    BY <1>1, <2>1, <2>2 DEF AtRest, Once
  <2>. QED  BY <1>1, <2>3 DEF ReviewAt
<1>. QED  BY <1>1

LEMMA StoryOfInsert ==
  ASSUME NEW r \in Requests, Solo(r), InsertCorrection(r)
  PROVE  Story(r)' /\ TrailShapes'
<1>1. PICK c \in CorrectionIds,
           row \in {[entry |-> loc[r].entry, wish |-> loc[r].edit, status |-> "pending"]} :
        /\ corrections[c].status = "none"
        /\ corrections' = [corrections EXCEPT ![c] = row]
        /\ loc' = [loc EXCEPT ![r].correction = c]
  BY DEF InsertCorrection
<1>2. /\ pc[r] = "insertCorrection" /\ Goto(r, "auditRequest")
      /\ UNCHANGED <<entries, breaks, periods, entryTrail, breakTrail, reviewTrail, periodTrail,
                     cutShort>>
  BY DEF InsertCorrection, At, trails, bounds
<1>3. /\ DOMAIN loc[r] = DOMAIN NoWork /\ DOMAIN loc = Requests /\ DOMAIN pc = Requests
      /\ loc[r].entry \in Entries /\ DOMAIN corrections = CorrectionIds
  BY <1>2 DEF Solo, EditInv, WorkOK, OnEntry, ShapeOK
<1>4. /\ pc'[r] = "auditRequest" /\ loc'[r].correction = c
      /\ corrections'[c].status = "pending" /\ corrections'[c].entry = loc[r].entry
      /\ \A d \in CorrectionIds \ {c} : corrections'[d] = corrections[d]
  BY <1>1, <1>2, <1>3 DEF Goto, NoWork
<1>5. KindOK(r)'
  BY <1>4 DEF KindOK
<1>6. ASSUME c \notin cutShort PROVE ReviewAt(r, c)'
  <2>1. reviewTrail[c] = <<>>
    BY <1>1, <1>2, <1>6 DEF Solo, Story, ReviewAt, InHand, AtRest
  <2>2. Applied(c)' = {}
    BY <1>1, <1>2, <1>3, <1>4 DEF Applied, Solo, Story, ReasonsKnown
  <2>3. UnderWay(r, c)'
    BY <1>2, <1>4, <2>1, <2>2 DEF UnderWay
  <2>. QED  BY <1>4, <2>3 DEF ReviewAt, InHand
<1>7. (\A d \in CorrectionIds \ cutShort : ReviewAt(r, d))'
  <2>1. \A d \in CorrectionIds : InHand(r, d) \/ InHand(r, d)' => d = c
    BY <1>2, <1>4 DEF InHand
  <2>. QED  BY <1>2, <1>4, <1>6, <2>1, OneCorrection
<1>8. ReasonsKnown'
  BY <1>2, <1>4 DEF Solo, Story, ReasonsKnown
<1>9. (\A e \in Entries \ cutShort : TrailAt(r, e))'
  BY <1>2, <1>4, TrailsFrame DEF Solo, Noted, Holds
<1>10. (\A p \in Periods \ cutShort : LockAt(r, p))'
  BY <1>2, <1>4, LocksFrame DEF Solo
<1>11. TrailShapes'
  BY <1>2 DEF Solo, TrailShapes
<1>. QED  BY <1>5, <1>7, <1>8, <1>9, <1>10, <1>11 DEF Story

\* The correction's status, and nothing else of it.
LEMMA StoryOfSetStatus ==
  ASSUME NEW r \in Requests, Solo(r), SetStatus(r)
  PROVE  Story(r)' /\ TrailShapes'
<1>1. /\ pc[r] = "setStatus" /\ Goto(r, "auditReview")
      /\ corrections' = [corrections EXCEPT ![loc[r].correction].status =
                           IF loc[r].kind = "approve" THEN "approved" ELSE "rejected"]
      /\ UNCHANGED <<loc, entries, breaks, periods, entryTrail, breakTrail, reviewTrail,
                     periodTrail, cutShort>>
  BY DEF SetStatus, At, Is, trails, bounds
<1>2. PICK c \in CorrectionIds : c = loc[r].correction
  BY <1>1 DEF Solo, EditInv, WorkOK
<1>3. /\ loc[r].kind \in {"approve", "reject"} /\ DOMAIN pc = Requests
      /\ DOMAIN corrections = CorrectionIds /\ DOMAIN corrections[c] = DOMAIN NoCorrection
  BY <1>1 DEF Solo, EditInv, WorkOK, ShapeOK
<1>4. /\ pc'[r] = "auditReview" /\ corrections'[c].entry = corrections[c].entry
      /\ corrections'[c].status = (IF loc[r].kind = "approve" THEN "approved" ELSE "rejected")
      /\ \A d \in CorrectionIds \ {c} : corrections'[d] = corrections[d]
  BY <1>1, <1>2, <1>3 DEF Goto, NoCorrection
<1>5. KindOK(r)'
  BY <1>1, <1>2, <1>3, <1>4 DEF KindOK
<1>6. ASSUME c \notin cutShort PROVE ReviewAt(r, c)'
  <2>1. UnderWay(r, c)
    BY <1>1, <1>2, <1>6 DEF Solo, Story, ReviewAt, InHand
  <2>2. Executed(r, c) /\ reviewTrail[c] = <<"request">>
    BY <1>1, <2>1 DEF UnderWay
  <2>3. Applied(c)' = Applied(c)
    BY <1>1, <1>4 DEF Applied
  <2>4. Executed(r, c)'
    BY <1>1, <2>2, <2>3 DEF Executed, Once
  <2>5. UnderWay(r, c)'
    BY <1>1, <1>4, <2>2, <2>4 DEF UnderWay
  <2>. QED  BY <1>1, <1>2, <1>4, <2>5 DEF ReviewAt, InHand
<1>7. (\A d \in CorrectionIds \ cutShort : ReviewAt(r, d))'
  <2>1. \A d \in CorrectionIds : InHand(r, d) \/ InHand(r, d)' => d = c
    BY <1>1, <1>2 DEF InHand
  <2>. QED  BY <1>1, <1>4, <1>6, <2>1, OneCorrection
<1>8. ReasonsKnown'
  <2>1. \A d \in CorrectionIds : corrections[d].status # "none" => corrections'[d].status # "none"
    BY <1>4
  <2>. QED  BY <1>1, <2>1 DEF Solo, Story, ReasonsKnown
<1>9. (\A e \in Entries \ cutShort : TrailAt(r, e))'
  BY <1>1, <1>4, TrailsFrame DEF Solo, Noted, Holds
<1>10. (\A p \in Periods \ cutShort : LockAt(r, p))'
  BY <1>1, <1>4, LocksFrame DEF Solo
<1>11. TrailShapes'
  BY <1>1 DEF Solo, TrailShapes
<1>. QED  BY <1>5, <1>7, <1>8, <1>9, <1>10, <1>11 DEF Story

\* What a correction's trail is after its second row.
LEMMA SecondRow == \A a : Append(<<"request">>, a) = <<"request", a>>
<1>. SUFFICES ASSUME NEW a PROVE Append(<<"request">>, a) = <<"request", a>>
  OBVIOUS
<1>. DEFINE T == {"request", a}
            s == Append(<<"request">>, a)
            t == <<"request", a>>
<1>1. s \in Seq(T) /\ t \in Seq(T) /\ Len(s) = 2 /\ Len(t) = 2
  OBVIOUS
<1>2. s[1] = t[1] /\ s[2] = t[2]
  OBVIOUS
<1>. HIDE DEF s, t
<1>3. \A i \in 1..Len(s) : s[i] = t[i]
  BY <1>1, <1>2
<1>4. s = t
  BY <1>1, <1>3, SeqEqual
<1>. QED  BY <1>4 DEF s, t

\* The rows of a correction, and with the second one it is at rest.
LEMMA StoryOfReviewRows ==
  ASSUME NEW r \in Requests, Solo(r), AuditRequest(r) \/ AuditReview(r)
  PROVE  Story(r)' /\ TrailShapes'
<1>1. PICK action :
        /\ reviewTrail' = [reviewTrail EXCEPT ![loc[r].correction] = Append(@, action)]
        /\ \/ pc[r] = "auditRequest" /\ action = "request"
           \/ pc[r] = "auditReview" /\ action = IF loc[r].kind = "approve" THEN "approve" ELSE "reject"
  BY DEF AuditRequest, AuditReview, AuditReviewAs, At, Is
<1>2. /\ Respond(r) /\ UNCHANGED <<entries, breaks, corrections, periods, entryTrail, breakTrail,
                                   periodTrail, cutShort>>
  BY DEF AuditRequest, AuditReview, tables, bounds
<1>3. PICK c \in CorrectionIds : c = loc[r].correction
  BY <1>1 DEF Solo, Story, KindOK
<1>4. pc'[r] = "idle"
  BY <1>2, RespondOK DEF Solo
<1>5. KindOK(r)'
  BY <1>4 DEF KindOK
<1>6. PICK S : reviewTrail \in [CorrectionIds -> Seq(S)]
  BY DEF Solo, TrailShapes
<1>7. /\ reviewTrail'[c] = Append(reviewTrail[c], action) /\ reviewTrail[c] \in Seq(S \cup {action})
      /\ \A d \in CorrectionIds \ {c} : reviewTrail'[d] = reviewTrail[d]
  BY <1>1, <1>3, <1>6
<1>8. TrailShapes'
  <2>1. reviewTrail'[c] \in Seq(S \cup {action})
    BY <1>7
  <2>2. ASSUME NEW d \in CorrectionIds \ {c} PROVE reviewTrail'[d] \in Seq(S \cup {action})
    <3>1. reviewTrail'[d] \in Seq(S)
      BY <1>6, <1>7, <2>2
    <3>. QED  BY <3>1, SeqMonotonic
  <2>3. reviewTrail' \in [CorrectionIds -> Seq(S \cup {action})]
    BY <1>1, <1>6, <2>1, <2>2
  <2>. QED  BY <1>2, <2>3 DEF Solo, TrailShapes
<1>9. ASSUME c \notin cutShort PROVE ReviewAt(r, c)'
  <2>1. UnderWay(r, c)
    BY <1>1, <1>3, <1>9 DEF Solo, Story, ReviewAt, InHand
  <2>2. Applied(c)' = Applied(c) /\ (Once(c)' <=> Once(c))
    BY <1>2 DEF Applied, Once
  <2>3. AtRest(c)'
    <3>1. CASE pc[r] = "auditRequest"
      <4>1. corrections[c].status = "pending" /\ Applied(c) = {} /\ reviewTrail[c] = <<>>
        BY <2>1, <3>1 DEF UnderWay
      <4>2. reviewTrail'[c] = <<"request">>
        BY <1>1, <1>7, <3>1, <4>1
      <4>. QED  BY <1>2, <2>2, <4>1, <4>2 DEF AtRest
    <3>2. CASE pc[r] = "auditReview"
      <4>1. /\ Executed(r, c) /\ reviewTrail[c] = <<"request">>
            /\ corrections[c].status = IF loc[r].kind = "approve" THEN "approved" ELSE "rejected"
        BY <2>1, <3>2 DEF UnderWay
      <4>2. reviewTrail'[c] = <<"request", action>>
        BY <1>7, <4>1, SecondRow
      <4>. QED  BY <1>1, <1>2, <2>2, <3>2, <4>1, <4>2 DEF AtRest, Executed
    <3>. QED  BY <1>1, <3>1, <3>2
  <2>. QED  BY <1>4, <2>3 DEF ReviewAt, InHand
<1>10. (\A d \in CorrectionIds \ cutShort : ReviewAt(r, d))'
  <2>1. \A d \in CorrectionIds : InHand(r, d) \/ InHand(r, d)' => d = c
    BY <1>3, <1>4 DEF InHand
  <2>. QED  BY <1>2, <1>7, <1>9, <2>1, OneCorrection
<1>11. ReasonsKnown'
  BY <1>2 DEF Solo, Story, ReasonsKnown
<1>12. (\A e \in Entries \ cutShort : TrailAt(r, e))'
  BY <1>1, <1>2, <1>4, TrailsFrame DEF Solo, Noted, Holds
<1>13. (\A p \in Periods \ cutShort : LockAt(r, p))'
  BY <1>1, <1>2, <1>4, LocksFrame DEF Solo
<1>. QED  BY <1>5, <1>8, <1>10, <1>11, <1>12, <1>13 DEF Story

-----------------------------------------------------------------------------
(* The steps of a lock *)

LEMMA StoryOfSetLock ==
  ASSUME NEW r \in Requests, Solo(r), SetLock(r)
  PROVE  Story(r)' /\ TrailShapes'
<1>1. /\ pc[r] = "setLock" /\ Goto(r, "auditLock")
      /\ periods' = [periods EXCEPT ![loc[r].period] = IF loc[r].kind = "lock" THEN "locked" ELSE "open"]
      /\ UNCHANGED <<loc, entries, breaks, corrections, entryTrail, breakTrail, reviewTrail,
                     periodTrail, cutShort>>
  BY DEF SetLock, At, Is, trails, bounds
<1>2. PICK q \in Periods : q = loc[r].period
  BY <1>1 DEF Solo, Story, KindOK
<1>3. /\ pc'[r] = "auditLock" /\ loc[r].kind \in {"lock", "unlock"}
      /\ (periods'[q] = "locked") = (loc[r].kind = "lock")
      /\ \A p \in Periods \ {q} : periods'[p] = periods[p]
  BY <1>1, <1>2 DEF Solo, Story, KindOK, EditInv, ShapeOK, Goto
<1>4. KindOK(r)'
  BY <1>1, <1>2, <1>3 DEF KindOK
<1>5. (\A c \in CorrectionIds \ cutShort : ReviewAt(r, c))' /\ ReasonsKnown'
  BY <1>1, <1>3, ReviewsFrame DEF Solo, InHand
<1>6. (\A e \in Entries \ cutShort : TrailAt(r, e))'
  BY <1>1, <1>3, TrailsFrame DEF Solo, Noted, Holds
<1>7. ASSUME NEW p \in Periods \ cutShort PROVE LockAt(r, p)'
  <2>1. CASE p = q
    BY <1>1, <1>2, <1>3, <2>1 DEF LockAt
  <2>2. CASE p # q
    <3>1. (periods[p] = "locked") = LockOnRecord(p)
      BY <1>1, <1>7 DEF Solo, Story, LockAt
    <3>2. LockOnRecord(p)' = LockOnRecord(p)
      BY <1>1 DEF LockOnRecord
    <3>. QED  BY <1>1, <1>2, <1>3, <2>2, <3>1, <3>2 DEF LockAt
  <2>. QED  BY <2>1, <2>2
<1>8. TrailShapes'
  BY <1>1 DEF Solo, TrailShapes
<1>. QED  BY <1>1, <1>4, <1>5, <1>6, <1>7, <1>8 DEF Story

LEMMA StoryOfAuditLock ==
  ASSUME NEW r \in Requests, Solo(r), AuditLock(r)
  PROVE  Story(r)' /\ TrailShapes'
<1>1. /\ pc[r] = "auditLock" /\ Respond(r)
      /\ periodTrail' = [periodTrail EXCEPT ![loc[r].period] = Append(@, loc[r].kind)]
      /\ UNCHANGED <<entries, breaks, corrections, periods, entryTrail, breakTrail, reviewTrail,
                     cutShort>>
  BY DEF AuditLock, At, tables, bounds
<1>2. PICK q \in Periods : q = loc[r].period
  BY <1>1 DEF Solo, Story, KindOK
<1>3. PICK kind : kind = loc[r].kind
  OBVIOUS
<1>4. pc'[r] = "idle"
  BY <1>1, RespondOK DEF Solo
<1>5. KindOK(r)'
  BY <1>4 DEF KindOK
<1>6. PICK S : periodTrail \in [Periods -> Seq(S)]
  BY DEF Solo, TrailShapes
<1>7. /\ periodTrail'[q] = Append(periodTrail[q], kind) /\ periodTrail[q] \in Seq(S \cup {kind})
      /\ \A p \in Periods \ {q} : periodTrail'[p] = periodTrail[p]
  BY <1>1, <1>2, <1>3, <1>6
<1>8. TrailShapes'
  <2>1. periodTrail'[q] \in Seq(S \cup {kind})
    BY <1>7
  <2>2. ASSUME NEW p \in Periods \ {q} PROVE periodTrail'[p] \in Seq(S \cup {kind})
    <3>1. periodTrail'[p] \in Seq(S)
      BY <1>6, <1>7, <2>2
    <3>. QED  BY <3>1, SeqMonotonic
  <2>3. periodTrail' \in [Periods -> Seq(S \cup {kind})]
    BY <1>1, <1>6, <2>1, <2>2
  <2>. QED  BY <1>1, <2>3 DEF Solo, TrailShapes
<1>9. LockOnRecord(q)' = (kind = "lock")
  <2>1. periodTrail'[q] # <<>> /\ periodTrail'[q][Len(periodTrail'[q])] = kind
    BY <1>7
  <2>. QED  BY <2>1 DEF LockOnRecord
<1>10. ASSUME NEW p \in Periods \ cutShort PROVE LockAt(r, p)'
  <2>1. LockAt(r, p)
    BY <1>10 DEF Solo, Story
  <2>2. CASE p = q
    BY <1>1, <1>2, <1>3, <1>4, <1>9, <2>1, <2>2 DEF LockAt
  <2>3. CASE p # q
    <3>1. (periods[p] = "locked") = LockOnRecord(p)
      BY <1>2, <2>1, <2>3 DEF LockAt
    <3>2. LockOnRecord(p)' = LockOnRecord(p)
      BY <1>7, <1>10, <2>3 DEF LockOnRecord
    <3>. QED  BY <1>1, <1>4, <3>1, <3>2 DEF LockAt
  <2>. QED  BY <2>2, <2>3
<1>11. (\A c \in CorrectionIds \ cutShort : ReviewAt(r, c))' /\ ReasonsKnown'
  BY <1>1, <1>4, ReviewsFrame DEF Solo, InHand
<1>12. (\A e \in Entries \ cutShort : TrailAt(r, e))'
  BY <1>1, <1>4, TrailsFrame DEF Solo, Noted, Holds
<1>. QED  BY <1>1, <1>5, <1>8, <1>10, <1>11, <1>12 DEF Story

-----------------------------------------------------------------------------
(* A failure, and the steps of nobody *)

\* What a handler had in hand when it failed is set aside.
LEMMA StoryOfFailing ==
  ASSUME NEW r \in Requests, Solo(r), Fail(r)
  PROVE  Story(r)' /\ TrailShapes'
<1>1. /\ Respond(r) /\ UNCHANGED <<entries, breaks, corrections, periods, entryTrail, breakTrail,
                                   reviewTrail, periodTrail>>
      /\ cutShort' = cutShort \cup ({loc[r].entry, loc[r].correction, loc[r].period} \ {None})
  BY DEF Fail, tables, trails
<1>2. pc'[r] = "idle"
  BY <1>1, RespondOK DEF Solo
<1>3. KindOK(r)'
  BY <1>2 DEF KindOK
<1>4. None \notin Entries \cup CorrectionIds \cup Periods
  BY IdsAssumption DEF None, Periods
<1>5. \A x \in Entries \cup CorrectionIds \cup Periods :
        x \in {loc[r].entry, loc[r].correction, loc[r].period} => x \in cutShort'
  BY <1>1, <1>4
<1>6. (\A c \in CorrectionIds \ cutShort : ReviewAt(r, c))' /\ ReasonsKnown'
  BY <1>1, <1>2, <1>5, ReviewsFrame DEF Solo, InHand
<1>7. (\A e \in Entries \ cutShort : TrailAt(r, e))'
  BY <1>1, <1>2, <1>5, TrailsFrame DEF Solo, Noted, Holds
<1>8. (\A p \in Periods \ cutShort : LockAt(r, p))'
  BY <1>1, <1>2, <1>5, LocksFrame DEF Solo
<1>9. TrailShapes'
  BY <1>1 DEF Solo, TrailShapes
<1>. QED  BY <1>3, <1>6, <1>7, <1>8, <1>9 DEF Story

\* The clock and the opening of a period change nothing the trails tell.
Elsewhere ==
  /\ UNCHANGED <<entries, breaks, corrections, entryTrail, breakTrail, reviewTrail, periodTrail,
                 pc, loc, cutShort, overlap>>
  /\ \A p \in Periods : (periods'[p] = "locked") = (periods[p] = "locked")

LEMMA StoryElsewhere ==
  ASSUME EditInv, SoloInv, Elsewhere
  PROVE  SoloInv'
<1>. SUFFICES ASSUME ~overlap PROVE SoloInv'
  BY DEF SoloInv, Elsewhere
<1>1. \A c : (AtRest(c)' <=> AtRest(c)) /\ (Once(c)' <=> Once(c)) /\ Applied(c)' = Applied(c)
  BY DEF Elsewhere, AtRest, Once, Applied
<1>2. \A e : /\ EditRows(e)' = EditRows(e) /\ (EditsLinked(e)' <=> EditsLinked(e))
             /\ MarkedPaid(e)' = MarkedPaid(e)
             /\ (BreaksLinked(e)' <=> BreaksLinked(e)) /\ BreakOnRecord(e)' = BreakOnRecord(e)
  BY EditsSame, BreaksSame DEF Elsewhere
<1>3. \A e : EditsEnd(e, View(entries[e]))' <=> EditsEnd(e, View(entries[e]))
  BY <1>2 DEF Elsewhere, EditsEnd, View, IsLast
<1>4. \A p : LockOnRecord(p)' = LockOnRecord(p)
  BY DEF Elsewhere, LockOnRecord
<1>5. TrailShapes'
  BY DEF SoloInv, TrailShapes, Elsewhere
<1>6. ReasonsKnown' <=> ReasonsKnown
  BY DEF ReasonsKnown, Elsewhere
<1>7. ASSUME NEW r \in Requests, Story(r) PROVE Story(r)'
  <2>1. KindOK(r)' /\ KindOK(r)
    BY <1>7 DEF Story, KindOK, Elsewhere
  <2>2. \A c \in CorrectionIds \ cutShort' : ReviewAt(r, c)'
    BY <1>1, <1>7 DEF Story, ReviewAt, InHand, UnderWay, Executed, Elsewhere
  <2>3. ASSUME NEW e \in Entries \ cutShort' PROVE TrailAt(r, e)'
    <3>1. TrailAt(r, e)
      BY <1>7, <2>3 DEF Story, Elsewhere
    <3>2. EditsAt(r, e)'
      <4>1. EditsEnd(e, View(loc[r].row))' <=> EditsEnd(e, View(loc[r].row))
        BY <1>2 DEF Elsewhere, EditsEnd, View, IsLast
      <4>. QED  BY <1>3, <3>1, <4>1 DEF TrailAt, EditsAt, Holds, Elsewhere
    <3>3. EditedAt(r, e)' /\ PaidAt(r, e)' /\ BreakAt(r, e)'
      BY <1>2, <3>1 DEF TrailAt, EditedAt, PaidAt, BreakAt, Holds, Elsewhere
    <3>. QED  BY <1>2, <3>1, <3>2, <3>3 DEF TrailAt
  <2>4. \A p \in Periods \ cutShort' : LockAt(r, p)'
    BY <1>4, <1>7 DEF Story, LockAt, Elsewhere
  <2>. QED  BY <1>6, <1>7, <2>1, <2>2, <2>3, <2>4 DEF Story
<1>8. ASSUME RestStory PROVE RestStory'
  BY <1>1, <1>2, <1>3, <1>4, <1>6, <1>8 DEF RestStory, Elsewhere
<1>. QED  BY <1>5, <1>7, <1>8 DEF SoloInv, Only, Elsewhere
-----------------------------------------------------------------------------
(* Every behaviour *)

\* Whose locals a step changes.
LEMMA WhoMoves ==
  ASSUME EditInv, NEW r \in Requests, ArriveAny(r) \/ HandlerStep(r) \/ Fail(r)
  PROVE  OthersAlone(r) /\ UNCHANGED overlap
<1>1. DOMAIN pc = Requests /\ DOMAIN loc = Requests
  BY DEF EditInv, ShapeOK
<1>2. ASSUME Respond(r) PROVE OthersAlone(r)
  BY <1>2, RespondOK
<1>3. ASSUME NEW stage, Goto(r, stage), UNCHANGED loc PROVE OthersAlone(r)
  BY <1>1, <1>3 DEF OthersAlone, Goto
<1>4. ASSUME NEW stage, NEW work, Goto(r, stage), loc' = [loc EXCEPT ![r] = work] PROVE OthersAlone(r)
  BY <1>1, <1>4 DEF OthersAlone, Goto
<1>5. CASE ArriveAny(r)
  <2>1. PICK work, stage : Arrive(r, work, stage)
    BY <1>5 DEF ArriveAny, ArriveWith
  <2>. QED  BY <1>4, <2>1 DEF Arrive
<1>6. CASE ReadEntry(r)
  BY <1>1, <1>2, <1>6 DEF ReadEntry, Goto, OthersAlone, bounds
<1>7. CASE Guard(r) \/ CountOpen(r) \/ ReadPeriod(r) \/ AuditEdit(r)
  BY <1>2, <1>3, <1>7 DEF Guard, CountOpen, ReadPeriod, AuditEdit, bounds
<1>8. CASE GuardBreak(r) \/ ReadCorrection(r)
  BY <1>1, <1>2, <1>8 DEF GuardBreak, ToWrite, ReadCorrection, Goto, OthersAlone, bounds
<1>9. CASE UpdateEntry(r)
  BY <1>1, <1>9 DEF UpdateEntry, Goto, OthersAlone, bounds
<1>10. CASE InsertCorrection(r)
  BY <1>1, <1>10 DEF InsertCorrection, Goto, OthersAlone, bounds
<1>11. CASE WriteBreak(r) \/ FlagEntry(r) \/ SetPaid(r) \/ SetStatus(r) \/ SetLock(r)
  BY <1>3, <1>11 DEF WriteBreak, FlagEntry, SetPaid, SetStatus, SetLock, bounds
<1>12. CASE AuditBreak(r) \/ AuditPaid(r) \/ AuditRequest(r) \/ AuditReview(r) \/ AuditLock(r)
  BY <1>2, <1>12 DEF AuditBreak, AuditPaid, AuditRequest, AuditReview, AuditLock, bounds
<1>13. CASE Fail(r)
  BY <1>2, <1>13 DEF Fail
<1>. QED  BY <1>5, <1>6, <1>7, <1>8, <1>9, <1>10, <1>11, <1>12, <1>13 DEF HandlerStep

LEMMA SoloInit == Init => SoloInv
<1>. SUFFICES ASSUME Init PROVE SoloInv
  OBVIOUS
<1>1. TrailShapes
  <2>1. /\ breakTrail \in [Entries -> Seq({})] /\ reviewTrail \in [CorrectionIds -> Seq({})]
        /\ periodTrail \in [Periods -> Seq({})]
    BY DEF Init
  <2>. QED  BY <2>1 DEF TrailShapes
<1>2. RestStory
  <2>1. \A c \in CorrectionIds : AtRest(c)
    BY DEF Init, AtRest, NoCorrection
  <2>2. ReasonsKnown
    BY DEF Init, ReasonsKnown
  <2>3. ASSUME NEW e \in Entries
        PROVE  /\ EditsLinked(e) /\ BreaksLinked(e) /\ EditsEnd(e, View(entries[e]))
               /\ entries[e].edited = (EditRows(e) # {} \/ breakTrail[e] # <<>>)
               /\ entries[e].paid = MarkedPaid(e) /\ breaks[e] = BreakOnRecord(e)
    <3>1. EditRows(e) = {} /\ PaidRows(e) = {}
      BY DEF Init, EditRows, PaidRows
    <3>2. EditsLinked(e) /\ EditsEnd(e, View(entries[e])) /\ ~MarkedPaid(e)
      BY <3>1 DEF EditsLinked, EditsEnd, MarkedPaid
    <3>3. BreaksLinked(e) /\ breaks[e] = BreakOnRecord(e)
      BY DEF Init, BreaksLinked, BreakOnRecord
    <3>4. entries[e].edited = FALSE /\ entries[e].paid = FALSE /\ breakTrail[e] = <<>>
      BY DEF Init
    <3>5. entries[e].paid = MarkedPaid(e)
      BY <3>2, <3>4 DEF MarkedPaid
    <3>. QED  BY <3>1, <3>2, <3>3, <3>4, <3>5
  <2>4. \A p \in Periods : (periods[p] = "locked") = LockOnRecord(p)
    BY DEF Init, LockOnRecord
  <2>. QED  BY <2>1, <2>2, <2>3, <2>4 DEF RestStory
<1>3. \A r \in Requests : pc[r] = "idle"
  BY DEF Init
<1>4. \A r \in Requests : Story(r)
  BY <1>2, <1>3, IdleStory
<1>. QED  BY <1>1, <1>2, <1>4 DEF SoloInv

LEMMA SoloNext == EditInv /\ TypeInv /\ SoloInv /\ [Next]_vars => SoloInv'
<1>. SUFFICES ASSUME EditInv, TypeInv, SoloInv, [Next]_vars PROVE SoloInv'
  OBVIOUS
<1>1. CASE Tick \/ UNCHANGED vars
  <2>1. Elsewhere
    BY <1>1 DEF Tick, vars, tables, trails, bounds, Elsewhere
  <2>. QED  BY <2>1, StoryElsewhere
<1>2. CASE OpenPeriods
  <2>1. \A p \in Periods : (periods'[p] = "locked") = (periods[p] = "locked")
    BY <1>2 DEF OpenPeriods, EditInv, ShapeOK
  <2>2. Elsewhere
    BY <1>2, <2>1 DEF OpenPeriods, trails, bounds, Elsewhere
  <2>. QED  BY <2>2, StoryElsewhere
<1>3. ASSUME NEW r \in Requests, ArriveAny(r) \/ HandlerStep(r) \/ Fail(r) PROVE SoloInv'
  <2>1. OthersAlone(r) /\ UNCHANGED overlap
    BY <1>3, WhoMoves
  <2>2. CASE overlap
    BY <2>1, <2>2 DEF SoloInv
  <2>3. CASE ~overlap
    <3>1. Only(r)
      <4>1. CASE pc[r] # "idle"
        BY <2>3, <4>1, InProgressAlone DEF Alone, Only
      <4>2. CASE pc[r] = "idle"
        <5>1. ~HandlerStep(r) /\ ~Fail(r)
          BY <4>2 DEF HandlerStep, ReadEntry, Guard, UpdateEntry, AuditEdit, GuardBreak, WriteBreak,
             FlagEntry, AuditBreak, SetPaid, AuditPaid, InsertCorrection, AuditRequest, ReadCorrection,
             SetStatus, AuditReview, ReadPeriod, CountOpen, SetLock, AuditLock, Fail, At
        <5>. QED  BY <1>3, <2>3, <5>1 DEF ArriveAny, MayArrive, At, Only
      <4>. QED  BY <4>1, <4>2
    <3>2. Solo(r)
      BY <2>3, <3>1 DEF Solo, SoloInv
    <3>3. Story(r)' /\ TrailShapes'
      <4>1. CASE ArriveAny(r)
        BY <3>2, <4>1, StoryOfArriving
      <4>2. CASE HandlerStep(r)
        <5>1. CASE ReadEntry(r) \/ Guard(r) \/ GuardBreak(r) \/ ReadCorrection(r)
                     \/ ReadPeriod(r) \/ CountOpen(r)
          BY <3>2, <5>1, StoryOfReadEntry, StoryOfGuards, StoryOfReadCorrection, StoryOfPeriods
        <5>2. CASE UpdateEntry(r) \/ SetPaid(r) \/ WriteBreak(r) \/ FlagEntry(r)
          BY <3>2, <5>2, StoryOfUpdate, StoryOfSetPaid, StoryOfWriteBreak, StoryOfFlag
        <5>3. CASE AuditEdit(r) \/ AuditPaid(r) \/ AuditBreak(r)
          BY <3>2, <5>3, StoryOfAuditEdit, StoryOfAuditPaid, StoryOfAuditBreak
        <5>4. CASE InsertCorrection(r) \/ AuditRequest(r) \/ SetStatus(r) \/ AuditReview(r)
          BY <3>2, <5>4, StoryOfInsert, StoryOfSetStatus, StoryOfReviewRows
        <5>5. CASE SetLock(r) \/ AuditLock(r)
          BY <3>2, <5>5, StoryOfSetLock, StoryOfAuditLock
        <5>. QED  BY <4>2, <5>1, <5>2, <5>3, <5>4, <5>5 DEF HandlerStep
      <4>3. CASE Fail(r)
        BY <3>2, <4>3, StoryOfFailing
      <4>. QED  BY <1>3, <4>1, <4>2, <4>3
    <3>. QED  BY <2>1, <3>1, <3>3, SoloStep
  <2>. QED  BY <2>2, <2>3
<1>. QED  BY <1>1, <1>2, <1>3 DEF Next

\* What the story says of rows that nobody works on.
LEMMA WholeStory ==
  ASSUME EditInv, SoloInv, ~overlap
  PROVE  /\ \A c \in CorrectionIds : Whole(c) => AtRest(c)
         /\ \A e \in Entries : Whole(e) =>
              /\ EditsLinked(e) /\ BreaksLinked(e) /\ EditsEnd(e, View(entries[e]))
              /\ entries[e].edited = (EditRows(e) # {} \/ breakTrail[e] # <<>>)
              /\ entries[e].paid = MarkedPaid(e) /\ breaks[e] = BreakOnRecord(e)
         /\ \A p \in Periods : Whole(p) => (periods[p] = "locked") = LockOnRecord(p)
<1>1. CASE \A r \in Requests : pc[r] = "idle"
  BY <1>1 DEF SoloInv, RestStory, Whole
<1>2. ASSUME NEW r \in Requests, pc[r] # "idle"
      PROVE  /\ \A c \in CorrectionIds : Whole(c) => AtRest(c)
             /\ \A e \in Entries : Whole(e) =>
                  /\ EditsLinked(e) /\ BreaksLinked(e) /\ EditsEnd(e, View(entries[e]))
                  /\ entries[e].edited = (EditRows(e) # {} \/ breakTrail[e] # <<>>)
                  /\ entries[e].paid = MarkedPaid(e) /\ breaks[e] = BreakOnRecord(e)
             /\ \A p \in Periods : Whole(p) => (periods[p] = "locked") = LockOnRecord(p)
  <2>1. Story(r)
    BY <1>2, InProgressAlone DEF Alone, SoloInv, Only
  <2>2. \A x : Whole(x) =>
          x \notin cutShort /\ x # loc[r].entry /\ x # loc[r].correction /\ x # loc[r].period
    BY DEF Whole, Busy
  <2>3. \A c \in CorrectionIds : Whole(c) => AtRest(c)
    BY <2>1, <2>2 DEF Story, ReviewAt, InHand
  <2>4. ASSUME NEW e \in Entries, Whole(e)
        PROVE  /\ EditsLinked(e) /\ BreaksLinked(e) /\ EditsEnd(e, View(entries[e]))
               /\ entries[e].edited = (EditRows(e) # {} \/ breakTrail[e] # <<>>)
               /\ entries[e].paid = MarkedPaid(e) /\ breaks[e] = BreakOnRecord(e)
    <3>1. TrailAt(r, e) /\ \A stages : ~Holds(r, stages, e)
      BY <2>1, <2>2, <2>4 DEF Story, Holds
    <3>. QED  BY <3>1 DEF TrailAt, EditsAt, EditedAt, PaidAt, BreakAt
  <2>5. \A p \in Periods : Whole(p) => (periods[p] = "locked") = LockOnRecord(p)
    BY <2>1, <2>2 DEF Story, LockAt
  <2>. QED  BY <2>3, <2>4, <2>5
<1>. QED  BY <1>1, <1>2

LEMMA StoryHolds == Spec => [](EditInv /\ TypeInv /\ SoloInv)
BY EditInit, EditNext, TypeInit, TypeNext, SoloInit, SoloNext, PTL DEF Spec

\* The audit trail of entries, breaks, paid marks and locks tells their whole history, of
\* every row that no handler is working on and none has left half-way.
THEOREM TrailAlwaysReconstructs == Spec => []TrailReconstructs
<1>1. EditInv /\ SoloInv => TrailReconstructs
  BY WholeStory DEF TrailReconstructs
<1>. QED  BY <1>1, StoryHolds, PTL

\* A correction is applied once if it was approved and never if it was rejected, and its
\* trail is the request and that one review.
THEOREM CorrectionsReviewedOnce == Spec => []ReviewedOnce
<1>1. ASSUME EditInv, TypeInv, SoloInv, ~overlap, NEW c \in CorrectionIds, Whole(c)
      PROVE  CASE corrections[c].status = "approved" ->
                    Cardinality(Applied(c)) = 1 /\ reviewTrail[c] = <<"request", "approve">>
               [] corrections[c].status = "rejected" ->
                    Applied(c) = {} /\ reviewTrail[c] = <<"request", "reject">>
               [] OTHER -> reviewTrail[c] \in {<<>>, <<"request">>}
  <2>1. AtRest(c)
    BY <1>1, WholeStory
  <2>2. CASE corrections[c].status = "approved"
    <3>1. PICK k : Applied(c) = {k}
      BY <2>1, <2>2 DEF AtRest, Once
    <3>2. Cardinality(Applied(c)) = 1
      BY <3>1, FS_Singleton
    <3>. QED  BY <2>1, <2>2, <3>2 DEF AtRest
  <2>3. CASE corrections[c].status # "approved"
    BY <2>1, <2>3 DEF AtRest
  <2>. QED  BY <2>2, <2>3
<1>2. EditInv /\ TypeInv /\ SoloInv => ReviewedOnce
  BY <1>1 DEF ReviewedOnce
<1>. QED  BY <1>2, StoryHolds, PTL
=============================================================================
