---------------------------- MODULE TerminalsProofs ---------------------------
(***************************************************************************)
(* The theorems about what the server has to do with browsers, phones and  *)
(* Home Assistant, one component after the other: the administrators'      *)
(* pages, the reminders by presence, logging in, and the kiosk's queue.    *)
(* Every component is proved by its own specification, for any number of   *)
(* whoever uses it.                                                        *)
(***************************************************************************)
EXTENDS Administration, Reminders, KioskLogin, OfflineQueue, FiniteSetTheorems, TLAPS

-----------------------------------------------------------------------------
(***************************************************************************)
(* What administrators change is on record and takes effect, for any       *)
(* number of requests, rows and failures: SettingsTakeEffect and           *)
(* AdminOnRecord.                                                          *)
(*                                                                         *)
(* The argument has two halves.  When requests meet, a stale document can  *)
(* only come from a query that began before the document last changed, and *)
(* such a query ends in time.  When they do not meet, whatever is not yet  *)
(* as it should be is the business of the one request in progress.         *)
(***************************************************************************)
Docs == [key : Nat, other : Nat]
Rows == [name : Nat, access : Nat, notes : Nat, active : BOOLEAN, pin : BOOLEAN]
DocColumns == {"key", "other"}
RowColumns == {"name", "access", "notes", "active", "pin"}
DocPatches == [key : Nat] \cup [other : Nat]
RowPatches == [name : Nat \ {0}, access : Nat, notes : Nat] \cup [name : Nat \ {0}]
              \cup [active : BOOLEAN] \cup [pin : {TRUE}]
Versions == Docs \cup Rows \cup (SUBSET Cards) \cup {<<>>}
Tellings == {Told(v, columns) : v \in Versions, columns \in SUBSET (DocColumns \cup RowColumns)}
AuditRows == [old : Tellings, new : Tellings]
About == Cards \cup {TheDoc, Installing}
Files == [scripts : (SUBSET Cards) \cup {{"none"}}, key : Nat]

DocStages == {"readDoc", "writeDoc", "invalidate"}
CardStages == {"readCard", "writeCard"}
Querying == {"select", "fill", "selectKey", "handlers"}
Refreshing == {"staff", "scripts", "selectKey", "handlers", "reload"}
AdminStages == {"free", "audit"} \cup DocStages \cup CardStages \cup Querying \cup Refreshing

Jobs == [stage : AdminStages, about : About, patch : DocPatches \cup RowPatches \cup {<<>>},
         old : Versions, new : Versions, since : Nat, reload : SUBSET {"scripts", "key"}]

\* A patch is for a PIN, or for what an update tells and the notes.
Suits(j) == DOMAIN j.patch = {"pin"} \/ DOMAIN j.patch \subseteq Updated(j.about) \cup {"notes"}

\* What a request has read, by its next statement.
JobOK(j) ==
  /\ j.stage \in DocStages => j.about = TheDoc /\ j.patch \in DocPatches
  /\ j.stage \in {"writeDoc", "invalidate"} => j.new \in Docs /\ j.old \in Docs
  /\ j.stage \in CardStages => j.about \in Cards /\ j.patch \in RowPatches /\ Suits(j)
  /\ j.stage = "writeCard" => j.old \in Rows
  /\ j.stage \in Refreshing => j.about \in {TheDoc, Installing}
  /\ j.stage \in {"select", "fill"} => j.about = TheDoc
  /\ j.stage = "audit" /\ j.about = TheDoc => j.patch \in DocPatches /\ j.new \in Docs /\ j.old \in Docs
  /\ j.stage = "audit" /\ j.about \in Cards =>
       /\ j.new \in Rows
       /\ \/ j.patch = <<>> /\ j.old = <<>>
          \/ j.patch \in RowPatches /\ Suits(j) /\ j.old \in Rows
  /\ j.stage \in {"fill", "handlers"} => j.old \in Docs
  /\ j.stage = "scripts" => j.new \in SUBSET Cards

AdminTypeInv ==
  /\ doc \in Docs /\ wanted \in Docs
  /\ cache \in [doc : Docs, at : Nat \cup {-1}]
  /\ clock \in Nat /\ changedAt \in Nat /\ writes \in Nat /\ faults \in Nat
  /\ cards \in [Cards -> Rows]
  /\ trail \in [About -> Seq(AuditRows)]
  /\ files \in Files /\ loaded \in Files
  /\ job \in [Admins -> Jobs] /\ \A a \in Admins : JobOK(job[a])
  /\ meet \in BOOLEAN

\* What was read of the document and is not so any more was asked for before it changed.
ReadsAge ==
  /\ changedAt <= clock /\ cache.at <= clock
  /\ cache.at >= 0 /\ cache.doc # doc => cache.at - changedAt <= QueryTime
  /\ \A a \in Admins :
       /\ job[a].since <= clock
       /\ job[a].stage \in Querying => clock - job[a].since <= QueryTime
       /\ job[a].stage \in {"fill", "handlers"} /\ job[a].old # doc => job[a].since <= changedAt

\* A row that is not there was never written, and no audit row tells a row's notes.
RowsBegin ==
  \A x \in Cards :
    /\ \A k \in DOMAIN trail[x] : "notes" \notin DOMAIN trail[x][k].new
    /\ x \in Staff => cards[x] # NoRow
    /\ cards[x].name = 0 => cards[x] = NoRow
    /\ cards[x] = NoRow =>
         /\ trail[x] = <<>>
         /\ \A a \in Admins : job[a].about = x => job[a].stage \notin {"writeCard", "audit"}

\* The last version of what audit rows tell of a row or the document is on record, or a
\* request has it in hand; the rest is as it was made.
Tellable(x) == {Updated(x)} \cup {{f} : f \in ColumnsOf(x)}
InHand(b, x) == job[b].about = x /\ job[b].stage \in {"invalidate", "audit"}
Hands(x, columns) == {b \in Admins : InHand(b, x) /\ columns \subseteq Tells(job[b])}
OnFile(x, columns) == \E k \in Telling(x, columns) : Shows(x, k, columns)
AtHand(x, columns) == \E b \in Hands(x, columns) : \A f \in columns : job[b].new[f] = Now(x)[f]

Recorded(x) ==
  \/ trail[x] = <<>> /\ ~Pending(x) /\ Now(x) = Before(x)
  \/ /\ trail[x] # <<>> \/ Pending(x)
     /\ \A columns \in Tellable(x) :
          Telling(x, columns) # {} \/ Hands(x, columns) # {} => OnFile(x, columns) \/ AtHand(x, columns)
     /\ \A f \in ColumnsOf(x) \ Untold(x) :
          Telling(x, {f}) = {} /\ Hands(x, {f}) = {} => Now(x)[f] = MadeAs(x)[f]

OnRecord == \A x \in Cards \cup {TheDoc} : x \notin halfDone => Recorded(x)

\* While requests do not meet:
AdminAlone == \A a, b \in Admins : ~AtStage(a, "free") /\ ~AtStage(b, "free") => a = b

\* the audit rows of a row follow on one another, and the request in progress on the last;
LogFollows(x) ==
  \A f \in ColumnsOf(x), k, l \in DOMAIN trail[x] :
    InTurn(x, f, k, l) => trail[x][l].old[f] = trail[x][k].new[f]
LogCurrent(x) ==
  \A f \in ColumnsOf(x), k \in DOMAIN trail[x] : Latest(x, f, k) => trail[x][k].new[f] = Now(x)[f]
HandFollows(b, x) ==
  /\ job[b].new = Now(x)
  /\ job[b].old = <<>> => trail[x] = <<>>
  /\ \A f \in ColumnsOf(x), k \in DOMAIN trail[x] : Latest(x, f, k) =>
       /\ job[b].old[f] = trail[x][k].new[f]
       /\ f \notin Tells(job[b]) => job[b].new[f] = job[b].old[f]

Followed(x) ==
  /\ LogFollows(x)
  /\ ~Pending(x) => LogCurrent(x)
  /\ \A b \in Admins :
       /\ job[b].about = x /\ job[b].stage \in {"writeCard", "writeDoc"} => job[b].old = Now(x)
       /\ InHand(b, x) => HandFollows(b, x)

FollowsOn == \A x \in Cards \cup {TheDoc} : x \notin halfDone => Followed(x)

\* the document is what was asked for, and so is its copy unless it is about to be dropped;
DocCurrent ==
  TheDoc \notin halfDone =>
    /\ doc = wanted
    /\ cache.at >= 0 /\ cache.doc # doc => \E a \in Admins : AtStage(a, "invalidate")
    /\ \A a \in Admins : /\ job[a].stage \in {"fill", "handlers"} => job[a].old = doc
                         /\ AtStage(a, "writeDoc") => job[a].new = Merge(doc, job[a].patch)

\* and Home Assistant has what the tables say, or the request in progress will see to it.
Restaffing(j) ==
  \/ j.stage \in {"staff", "scripts"}
  \/ j.stage = "audit" /\ j.about \in Cards /\ KindOf[j.about] = "employee" /\ "pin" \notin DOMAIN j.patch
Rekeying(j) ==
  \/ j.stage \in {"staff", "scripts", "selectKey", "handlers"}
  \/ j.stage \in {"invalidate", "audit"} /\ j.about = TheDoc /\ "key" \in DOMAIN j.patch

ScriptsFollow ==
  "scripts" \notin halfDone =>
    /\ loaded.scripts # files.scripts =>
         \E a \in Admins : job[a].stage \in {"selectKey", "handlers", "reload"} /\ "scripts" \in job[a].reload
    /\ files # NoFiles /\ files.scripts # Active => \E a \in Admins : Restaffing(job[a])
    /\ \A a \in Admins : /\ AtStage(a, "scripts") => job[a].new = Active
                         /\ job[a].stage \in {"selectKey", "handlers"} => files.scripts = Active
KeyFollows ==
  "key" \notin halfDone =>
    /\ loaded.key # files.key => \E a \in Admins : AtStage(a, "reload") /\ "key" \in job[a].reload
    /\ files # NoFiles /\ files.key # doc.key => \E a \in Admins : Rekeying(job[a])

Halves == TheDoc \in halfDone => "key" \in halfDone

InOrder == AdminAlone /\ FollowsOn /\ DocCurrent /\ ScriptsFollow /\ KeyFollows /\ Halves

AdminIInv == AdminTypeInv /\ ReadsAge /\ RowsBegin /\ OnRecord /\ (~meet => InOrder)
-----------------------------------------------------------------------------
(* What a patch makes of a document or a row. *)

LEMMA MergeDoc ==
  ASSUME NEW d \in Docs, NEW patch \in DocPatches
  PROVE  /\ Merge(d, patch) \in Docs
         /\ "key" \notin DOMAIN patch => Merge(d, patch).key = d.key
<1>1. DOMAIN d = {"key", "other"} /\ d.key \in Nat /\ d.other \in Nat
  BY DEF Docs
<1>2. CASE patch \in [key : Nat]
  <2>1. DOMAIN patch = {"key"} /\ patch.key \in Nat
    BY <1>2
  <2>2. Merge(d, patch) = [key |-> patch.key, other |-> d.other]
    BY <1>1, <2>1 DEF Merge
  <2>. QED  BY <1>1, <2>1, <2>2 DEF Docs
<1>3. CASE patch \in [other : Nat]
  <2>1. DOMAIN patch = {"other"} /\ patch.other \in Nat
    BY <1>3
  <2>2. Merge(d, patch) = [key |-> d.key, other |-> patch.other]
    BY <1>1, <2>1 DEF Merge
  <2>. QED  BY <1>1, <2>1, <2>2 DEF Docs
<1>. QED  BY <1>2, <1>3 DEF DocPatches

LEMMA MergeRow ==
  ASSUME NEW row \in Rows, NEW patch \in RowPatches
  PROVE  /\ Merge(row, patch) \in Rows
         /\ row.name # 0 => Merge(row, patch).name # 0
         /\ "pin" \in DOMAIN patch => Merge(row, patch).active = row.active
         /\ \A f \in RowColumns \ DOMAIN patch : Merge(row, patch)[f] = row[f]
<1>1. /\ DOMAIN row = RowColumns
      /\ row.name \in Nat /\ row.access \in Nat /\ row.notes \in Nat
      /\ row.active \in BOOLEAN /\ row.pin \in BOOLEAN
  BY DEF Rows, RowColumns
<1>2. \A f \in RowColumns \ DOMAIN patch : Merge(row, patch)[f] = row[f]
  BY <1>1 DEF Merge
<1>3. CASE patch \in [name : Nat \ {0}, access : Nat, notes : Nat]
  <2>1. /\ DOMAIN patch = {"name", "access", "notes"}
        /\ patch.name \in Nat \ {0} /\ patch.access \in Nat /\ patch.notes \in Nat
    BY <1>3
  <2>2. Merge(row, patch) = [name |-> patch.name, access |-> patch.access, notes |-> patch.notes,
                             active |-> row.active, pin |-> row.pin]
    BY <1>1, <2>1 DEF Merge, RowColumns
  <2>. QED  BY <1>1, <1>2, <2>1, <2>2 DEF Rows
<1>4. CASE patch \in [name : Nat \ {0}]
  <2>1. DOMAIN patch = {"name"} /\ patch.name \in Nat \ {0}
    BY <1>4
  <2>2. Merge(row, patch) = [name |-> patch.name, access |-> row.access, notes |-> row.notes,
                             active |-> row.active, pin |-> row.pin]
    BY <1>1, <2>1 DEF Merge, RowColumns
  <2>. QED  BY <1>1, <1>2, <2>1, <2>2 DEF Rows
<1>5. CASE patch \in [active : BOOLEAN]
  <2>1. DOMAIN patch = {"active"} /\ patch.active \in BOOLEAN
    BY <1>5
  <2>2. Merge(row, patch) = [name |-> row.name, access |-> row.access, notes |-> row.notes,
                             active |-> patch.active, pin |-> row.pin]
    BY <1>1, <2>1 DEF Merge, RowColumns
  <2>. QED  BY <1>1, <1>2, <2>1, <2>2 DEF Rows
<1>6. CASE patch \in [pin : {TRUE}]
  <2>1. DOMAIN patch = {"pin"} /\ patch.pin \in BOOLEAN
    BY <1>6
  <2>2. Merge(row, patch) = [name |-> row.name, access |-> row.access, notes |-> row.notes,
                             active |-> row.active, pin |-> patch.pin]
    BY <1>1, <2>1 DEF Merge, RowColumns
  <2>. QED  BY <1>1, <1>2, <2>1, <2>2 DEF Rows
<1>. QED  BY <1>3, <1>4, <1>5, <1>6 DEF RowPatches

LEMMA RowNames == TheDoc \notin Cards /\ Installing \notin Cards /\ TheDoc # Installing
BY CardsAssumption DEF TheDoc, Installing

LEMMA Columns ==
  /\ ColumnsOf(TheDoc) = DocColumns /\ Updated(TheDoc) = DocColumns
  /\ \A x \in Cards : ColumnsOf(x) = RowColumns
  /\ \A x \in Cards : Updated(x) \in {{"name", "access", "active"}, {"name", "active"}, {"active"}}
<1>1. DOMAIN FirstDoc = DocColumns /\ DOMAIN NoRow = RowColumns
  BY DEF FirstDoc, NoCache, NoRow, DocColumns, RowColumns
<1>2. ColumnsOf(TheDoc) = DocColumns /\ Updated(TheDoc) = DocColumns
  BY <1>1, RowNames DEF ColumnsOf, Updated
<1>3. \A x \in Cards : ColumnsOf(x) = RowColumns
  BY <1>1, RowNames DEF ColumnsOf
<1>4. \A x \in Cards : Updated(x) \in {{"name", "access", "active"}, {"name", "active"}, {"active"}}
  BY RowNames DEF Updated
<1>. QED  BY <1>2, <1>3, <1>4

LEMMA NotEmpty == \A v \in Docs \cup Rows : v # <<>>
<1>1. DOMAIN <<>> = {}
  OBVIOUS
<1>2. \A v \in Docs : "key" \in DOMAIN v
  BY DEF Docs
<1>3. \A v \in Rows : "name" \in DOMAIN v
  BY DEF Rows
<1>. QED  BY <1>1, <1>2, <1>3

\* What the audit row of a request tells.
LEMMA TellsFacts ==
  ASSUME NEW j, JobOK(j), j.stage \in {"invalidate", "audit"}, j.about \in Cards \cup {TheDoc}
  PROVE  /\ Tells(j) \subseteq ColumnsOf(j.about) /\ "notes" \notin Tells(j)
         /\ DOMAIN j.new = ColumnsOf(j.about)
         /\ j.old = <<>> \/ DOMAIN j.old = ColumnsOf(j.about)
         /\ j.about = TheDoc => Tells(j) = DocColumns
<1>1. \A d \in Docs : DOMAIN d = DocColumns
  BY DEF Docs, DocColumns
<1>2. \A row \in Rows : DOMAIN row = RowColumns
  BY DEF Rows, RowColumns
<1>3. CASE j.about = TheDoc
  <2>1. j.patch \in DocPatches /\ j.new \in Docs /\ j.old \in Docs
    BY <1>3 DEF JobOK, DocStages
  <2>2. "pin" \notin DOMAIN j.patch
    BY <2>1 DEF DocPatches
  <2>3. Tells(j) = DocColumns
    BY <1>3, <2>2, RowNames, Columns DEF Tells
  <2>. QED  BY <1>1, <1>3, <2>1, <2>3, Columns DEF DocColumns
<1>4. CASE j.about \in Cards
  <2>1. j.stage = "audit"
    BY <1>4, RowNames DEF JobOK, DocStages
  <2>2. j.new \in Rows /\ (j.old = <<>> \/ j.old \in Rows)
    BY <1>4, <2>1 DEF JobOK
  <2>3. \/ Tells(j) \in {{"name", "pin"}, {"name"}, {"pin"}}
        \/ Tells(j) = Updated(j.about)
    BY DEF Tells
  <2>4. Tells(j) \subseteq RowColumns /\ "notes" \notin Tells(j)
    BY <1>4, <2>3, Columns DEF RowColumns
  <2>. QED  BY <1>2, <1>4, <2>2, <2>4, Columns, RowNames
<1>. QED  BY <1>3, <1>4

\* A step that leaves a row, its audit rows and the requests that are to audit it as they are.
Untouched(x) ==
  /\ trail'[x] = trail[x] /\ Now(x)' = Now(x)
  /\ \A b \in Admins :
       /\ InHand(b, x)' <=> InHand(b, x)
       /\ InHand(b, x) => /\ job'[b].new = job[b].new /\ job'[b].old = job[b].old
                         /\ job'[b].patch = job[b].patch

LEMMA UntouchedKeeps ==
  ASSUME NEW x, Untouched(x)
  PROVE  /\ Pending(x)' <=> Pending(x)
         /\ Recorded(x) => Recorded(x)'
         /\ /\ Followed(x)
            /\ \A b \in Admins :
                 job'[b].about = x /\ job'[b].stage \in {"writeCard", "writeDoc"} => job'[b].old = Now(x)
            => Followed(x)'
<1>1. Pending(x)' <=> Pending(x)
  BY DEF Untouched, Pending, InHand
<1>2. \A b \in Admins : InHand(b, x) => Tells(job'[b]) = Tells(job[b])
  BY DEF Untouched, Tells, InHand
<1>3. \A columns : Hands(x, columns)' = Hands(x, columns)
  BY <1>2 DEF Untouched, Hands
<1>4. \A columns : Telling(x, columns)' = Telling(x, columns)
  BY DEF Untouched, Telling
<1>5. \A columns : OnFile(x, columns) => OnFile(x, columns)'
  BY <1>4 DEF Untouched, OnFile, Shows
<1>6. \A columns : AtHand(x, columns) => AtHand(x, columns)'
  BY <1>3 DEF Untouched, AtHand, Hands
<1>7. ASSUME Recorded(x) PROVE Recorded(x)'
  <2>1. CASE trail[x] = <<>> /\ ~Pending(x) /\ Now(x) = Before(x)
    BY <1>1, <2>1 DEF Recorded, Untouched, Before
  <2>2. CASE ~(trail[x] = <<>> /\ ~Pending(x) /\ Now(x) = Before(x))
    <3>1. /\ trail[x] # <<>> \/ Pending(x)
          /\ \A columns \in Tellable(x) :
               Telling(x, columns) # {} \/ Hands(x, columns) # {} => OnFile(x, columns) \/ AtHand(x, columns)
          /\ \A f \in ColumnsOf(x) \ Untold(x) :
               Telling(x, {f}) = {} /\ Hands(x, {f}) = {} => Now(x)[f] = MadeAs(x)[f]
      BY <1>7, <2>2 DEF Recorded
    <3>2. Tellable(x)' = Tellable(x) /\ MadeAs(x)' = MadeAs(x) /\ ColumnsOf(x)' = ColumnsOf(x)
      BY DEF Tellable, MadeAs, ColumnsOf, Updated
    <3>. QED  BY <1>1, <1>3, <1>4, <1>5, <1>6, <3>1, <3>2 DEF Recorded, Untouched
  <2>. QED  BY <2>1, <2>2
<1>8. ASSUME Followed(x),
             \A b \in Admins :
               job'[b].about = x /\ job'[b].stage \in {"writeCard", "writeDoc"} => job'[b].old = Now(x)
      PROVE  Followed(x)'
  <2>1. \A f, k, l : (InTurn(x, f, k, l)' <=> InTurn(x, f, k, l)) /\ (Latest(x, f, k)' <=> Latest(x, f, k))
    BY <1>4 DEF InTurn, Latest
  <2>2. LogFollows(x)' /\ (LogCurrent(x) => LogCurrent(x)')
    <3>1. trail'[x] = trail[x] /\ Now(x)' = Now(x) /\ ColumnsOf(x)' = ColumnsOf(x)
      BY DEF Untouched, ColumnsOf
    <3>2. LogFollows(x)'
      BY <1>8, <2>1, <3>1 DEF Followed, LogFollows
    <3>3. LogCurrent(x) => LogCurrent(x)'
      BY <2>1, <3>1 DEF LogCurrent
    <3>. QED  BY <3>2, <3>3
  <2>3. ASSUME NEW b \in Admins, InHand(b, x) PROVE HandFollows(b, x)'
    <3>1. HandFollows(b, x) /\ Tells(job'[b]) = Tells(job[b])
      BY <1>2, <1>8, <2>3 DEF Followed
    <3>2. /\ job'[b].new = job[b].new /\ job'[b].old = job[b].old /\ trail'[x] = trail[x] /\ Now(x)' = Now(x)
      BY <2>3 DEF Untouched
    <3>3. ColumnsOf(x)' = ColumnsOf(x)
      BY DEF ColumnsOf
    <3>. QED  BY <2>1, <3>1, <3>2, <3>3 DEF HandFollows
  <2>4. \A b \in Admins : InHand(b, x)' => HandFollows(b, x)'
    BY <2>3 DEF Untouched
  <2>5. \A b \in Admins :
          (job[b].about = x /\ job[b].stage \in {"writeCard", "writeDoc"} => job[b].old = Now(x))'
    BY <1>8 DEF Untouched
  <2>6. ~Pending(x)' => LogCurrent(x)'
    BY <1>1, <1>8, <2>2 DEF Followed
  <2>. QED  BY <2>2, <2>4, <2>5, <2>6 DEF Followed
<1>. QED  BY <1>1, <1>7, <1>8

-----------------------------------------------------------------------------
(* A step in which a request only reads. *)

Reloading == {"selectKey", "handlers", "reload"}

Reads(a, rec) ==
  /\ job' = [job EXCEPT ![a] = rec] /\ rec \in Jobs /\ JobOK(rec)
  /\ UNCHANGED <<doc, cache, cards, trail, files, loaded, clock, meet, wanted, changedAt, faults, halfDone>>
  /\ writes' \in Nat
  /\ AtStage(a, "free") => meet \/ AllFree
  /\ rec.since <= clock /\ (rec.stage \in Querying => clock - rec.since <= QueryTime)
  /\ rec.stage \in {"fill", "handlers"} => rec.old = doc
  /\ job[a].stage \notin {"invalidate", "audit"}
  /\ rec.stage # "invalidate" /\ (rec.stage = "audit" => rec.about = Installing)
  /\ rec.stage = "writeCard" => cards[rec.about] # NoRow /\ rec.old = cards[rec.about]
  /\ rec.stage = "writeDoc" => rec.old = doc /\ rec.new = Merge(doc, rec.patch)
  /\ Restaffing(job[a]) => Restaffing(rec)
  /\ Rekeying(job[a]) => Rekeying(rec)
  /\ rec.stage = "scripts" => rec.new = Active
  /\ rec.stage \in {"selectKey", "handlers"} => job[a].stage \in {"selectKey", "handlers"}
  /\ job[a].stage \in Reloading =>
       \/ job[a].reload = {}
       \/ rec.stage \in {"selectKey", "handlers"} /\ job[a].stage # "reload" /\ rec.reload = job[a].reload

LEMMA ReadsPreserve ==
  ASSUME AdminIInv, NEW a \in Admins, NEW rec, Reads(a, rec)
  PROVE  AdminIInv'
<1>1. /\ job \in [Admins -> Jobs] /\ job'[a] = rec
      /\ \A b \in Admins \ {a} : job'[b] = job[b]
      /\ \A b \in Admins : job'[b] = IF b = a THEN rec ELSE job[b]
  BY DEF AdminIInv, AdminTypeInv, Reads
<1>2. AdminTypeInv'
  <2>1. job' \in [Admins -> Jobs]
    BY <1>1 DEF Reads
  <2>2. ASSUME NEW b \in Admins PROVE JobOK(job[b])'
    BY <1>1 DEF Reads, AdminIInv, AdminTypeInv, JobOK
  <2>. QED  BY <2>1, <2>2 DEF AdminIInv, AdminTypeInv, Reads
<1>3. ReadsAge'
  BY <1>1 DEF AdminIInv, ReadsAge, Reads
<1>4. RowsBegin'
  <2>1. rec.about \in Cards => rec.stage # "audit"
    BY RowNames DEF Reads
  <2>. QED  BY <1>1, <2>1 DEF AdminIInv, RowsBegin, Reads
<1>5. \A x \in Cards \cup {TheDoc} : Untouched(x)
  BY <1>1, RowNames DEF Untouched, InHand, Reads, Now
<1>6. OnRecord'
  BY <1>5, UntouchedKeeps DEF AdminIInv, OnRecord, Reads
<1>7. ASSUME ~meet' PROVE InOrder'
  <2>1. ~meet /\ InOrder
    BY <1>7 DEF Reads, AdminIInv
  <2>2. AdminAlone' /\ \A b \in Admins \ {a} : job[b].stage = "free"
    BY <1>1, <2>1 DEF Reads, InOrder, AdminAlone, AtStage, AllFree
  <2>3. FollowsOn'
    <3>. SUFFICES ASSUME NEW x \in Cards \cup {TheDoc}, x \notin halfDone PROVE Followed(x)'
      BY DEF FollowsOn, Reads
    <3>1. rec.about = x /\ rec.stage \in {"writeCard", "writeDoc"} => rec.old = Now(x)
      BY RowNames DEF Reads, Now, JobOK, DocStages, CardStages
    <3>2. Followed(x)
      BY <2>1 DEF InOrder, FollowsOn
    <3>3. \A b \in Admins :
            job'[b].about = x /\ job'[b].stage \in {"writeCard", "writeDoc"} => job'[b].old = Now(x)
      BY <1>1, <3>1, <3>2 DEF Followed
    <3>. QED  BY <1>5, <3>2, <3>3, UntouchedKeeps
  <2>4. DocCurrent'
    BY <1>1, <2>1 DEF InOrder, DocCurrent, Reads, AtStage
  <2>5. Active' = Active
    BY DEF Active, Reads
  <2>6. ScriptsFollow'
    BY <1>1, <2>1, <2>5 DEF InOrder, ScriptsFollow, Reads, AtStage, Reloading
  <2>7. KeyFollows'
    BY <1>1, <2>1 DEF InOrder, KeyFollows, Reads, AtStage, Reloading
  <2>. QED  BY <2>1, <2>2, <2>3, <2>4, <2>6, <2>7 DEF InOrder, Halves, Reads
<1>. QED  BY <1>2, <1>3, <1>4, <1>6, <1>7 DEF AdminIInv

-----------------------------------------------------------------------------

LEMMA FreeFacts ==
  /\ Free \in Jobs /\ JobOK(Free) /\ Free.stage = "free" /\ Free.about = TheDoc
  /\ Free.patch = <<>> /\ Free.old = <<>> /\ Free.new = <<>> /\ Free.reload = {} /\ Free.since = 0
<1>1. /\ Free.stage = "free" /\ Free.about = TheDoc
      /\ Free.patch = <<>> /\ Free.old = <<>> /\ Free.new = <<>> /\ Free.reload = {} /\ Free.since = 0
  BY DEF Free
<1>2. TheDoc \in About /\ "free" \in AdminStages
  BY DEF About, AdminStages
<1>5. <<>> \in Versions
  BY DEF Versions
<1>3. Free \in Jobs
  BY <1>2, <1>5 DEF Free, Jobs
<1>4. JobOK(Free)
  BY <1>1, RowNames DEF JobOK, Suits, DocStages, CardStages, Refreshing
<1>. QED  BY <1>1, <1>3, <1>4

\* A request that begins: rec is what it begins with.
LEMMA BeginReads ==
  ASSUME AdminIInv, NEW a \in Admins, NEW rec \in Jobs, Begin(a, rec),
         rec.stage \in {"select", "readDoc", "readCard", "staff"},
         \A t \in Nat : JobOK([rec EXCEPT !.since = t])
  PROVE  Reads(a, [rec EXCEPT !.since = clock])
<1>. DEFINE new == [rec EXCEPT !.since = clock]
<1>1. /\ new \in Jobs /\ JobOK(new) /\ new.since = clock /\ new.stage = rec.stage
      /\ new.about = rec.about /\ new.patch = rec.patch /\ new.new = rec.new
  BY DEF Jobs, AdminIInv, AdminTypeInv
<1>. HIDE DEF new
<1>2. job' = [job EXCEPT ![a] = new] /\ job[a].stage = "free" /\ (meet \/ AllFree)
  BY DEF Begin, Become, AtStage, new
<1>3. writes' \in Nat /\ clock \in Nat
  BY DEF AdminIInv, AdminTypeInv, Begin
<1>4. ~Restaffing(job[a]) /\ ~Rekeying(job[a])
  BY <1>2 DEF Restaffing, Rekeying
<1>. QED
  BY <1>1, <1>2, <1>3, <1>4, TimesAssumption DEF Reads, Begin, state, AtStage, Querying, Reloading, new

LEMMA RequestsBegin ==
  ASSUME AdminIInv, NEW a \in Admins,
         \/ AskSettings(a)
         \/ \E patch \in Patches : UpdateSettings(a, patch)
         \/ \E x \in Cards : \E patch \in CardPatches(x) : PatchCard(a, x, patch)
         \/ \E install \in BOOLEAN : RefreshFiles(a, install)
  PROVE  AdminIInv'
<1>1. CASE AskSettings(a)
  <2>. DEFINE rec == [Free EXCEPT !.stage = "select"]
  <2>1. rec \in Jobs /\ rec.stage = "select" /\ rec.about = TheDoc
    BY FreeFacts DEF Jobs, AdminStages, Querying
  <2>2. \A t \in Nat : JobOK([rec EXCEPT !.since = t])
    BY <2>1 DEF JobOK, Jobs, DocStages, CardStages, Refreshing
  <2>3. Begin(a, rec)
    BY <1>1 DEF AskSettings
  <2>. QED  BY <2>1, <2>2, <2>3, BeginReads, ReadsPreserve
<1>2. ASSUME NEW patch \in Patches, UpdateSettings(a, patch) PROVE AdminIInv'
  <2>. DEFINE rec == [Free EXCEPT !.stage = "readDoc", !.patch = patch]
  <2>1. patch \in DocPatches
    BY DEF Patches, DocPatches, AdminIInv, AdminTypeInv
  <2>2. rec \in Jobs /\ rec.stage = "readDoc" /\ rec.about = TheDoc /\ rec.patch = patch
    BY <2>1, FreeFacts DEF Jobs, AdminStages, DocStages
  <2>3. \A t \in Nat : JobOK([rec EXCEPT !.since = t])
    BY <2>1, <2>2 DEF JobOK, Jobs, DocStages, CardStages, Refreshing
  <2>4. Begin(a, rec)
    BY <1>2 DEF UpdateSettings
  <2>. QED  BY <2>2, <2>3, <2>4, BeginReads, ReadsPreserve
<1>3. ASSUME NEW x \in Cards, NEW patch \in CardPatches(x), PatchCard(a, x, patch) PROVE AdminIInv'
  <2>. DEFINE rec == [Free EXCEPT !.stage = "readCard", !.about = x, !.patch = patch]
  <2>1. patch \in RowPatches
    <3>1. [name |-> 2, access |-> 2, notes |-> 2] \in RowPatches
      BY DEF RowPatches
    <3>2. [name |-> 2] \in RowPatches
      BY DEF RowPatches
    <3>3. [active |-> FALSE] \in RowPatches /\ [pin |-> TRUE] \in RowPatches
      BY DEF RowPatches
    <3>. QED  BY <3>1, <3>2, <3>3 DEF CardPatches
  <2>2. rec \in Jobs /\ rec.stage = "readCard" /\ rec.about = x /\ rec.patch = patch
    BY <2>1, FreeFacts DEF Jobs, AdminStages, CardStages, About
  <2>5. DOMAIN patch = {"pin"} \/ DOMAIN patch \subseteq Updated(x) \cup {"notes"}
    <3>1. CASE KindOf[x] = "employee"
      BY <1>3, <3>1 DEF PatchCard, Updated
    <3>2. CASE KindOf[x] = "job"
      BY <1>3, <3>2 DEF PatchCard, Updated
    <3>3. CASE KindOf[x] = "roster"
      BY <1>3, <3>3 DEF PatchCard, Updated
    <3>4. CASE KindOf[x] = "device"
      BY <1>3, <3>4 DEF PatchCard
    <3>. QED  BY <3>1, <3>2, <3>3, <3>4, CardsAssumption
  <2>3. \A t \in Nat : JobOK([rec EXCEPT !.since = t])
    <3>. SUFFICES ASSUME NEW t \in Nat PROVE JobOK([rec EXCEPT !.since = t])
      OBVIOUS
    <3>. DEFINE dated == [rec EXCEPT !.since = t]
    <3>1. dated.stage = "readCard" /\ dated.about = x /\ dated.patch = patch
      BY <2>2 DEF Jobs
    <3>2. Suits(dated)
      BY <2>5, <3>1 DEF Suits
    <3>. HIDE DEF dated
    <3>3. JobOK(dated)
      BY <2>1, <3>1, <3>2 DEF JobOK, DocStages, CardStages, Refreshing
    <3>. QED  BY <3>3 DEF dated
  <2>4. Begin(a, rec)
    BY <1>3 DEF PatchCard
  <2>. QED  BY <2>2, <2>3, <2>4, BeginReads, ReadsPreserve
<1>4. ASSUME NEW install \in BOOLEAN, RefreshFiles(a, install) PROVE AdminIInv'
  <2>. DEFINE x == IF install THEN Installing ELSE TheDoc
              rec == [Free EXCEPT !.stage = "staff", !.about = x]
  <2>1. rec \in Jobs /\ rec.stage = "staff" /\ rec.about \in {TheDoc, Installing}
    BY FreeFacts DEF Jobs, AdminStages, Refreshing, About
  <2>2. \A t \in Nat : JobOK([rec EXCEPT !.since = t])
    BY <2>1 DEF JobOK, Jobs, DocStages, CardStages
  <2>3. Begin(a, rec)
    BY <1>4 DEF RefreshFiles
  <2>. QED  BY <2>1, <2>2, <2>3, BeginReads, ReadsPreserve
<1>. QED  BY <1>1, <1>2, <1>3, <1>4

\* The queries of the settings, a row and the staff.
LEMMA QueriesHold ==
  ASSUME AdminIInv, NEW a \in Admins,
         SelectSettings(a) \/ ReadDoc(a) \/ ReadCard(a) \/ SelectStaff(a) \/ SelectKey(a)
  PROVE  AdminIInv'
<1>1. /\ job[a] \in Jobs /\ JobOK(job[a]) /\ job[a].since \in Nat /\ clock \in Nat /\ job[a].since <= clock
      /\ job[a].stage \in Querying => clock - job[a].since <= QueryTime
      /\ doc \in Docs /\ cards \in [Cards -> Rows] /\ writes \in Nat /\ Docs \subseteq Versions /\ Rows \subseteq Versions
  BY DEF AdminIInv, AdminTypeInv, ReadsAge, Jobs, Versions
<1>2. CASE SelectSettings(a)
  <2>. DEFINE rec == [job[a] EXCEPT !.stage = "fill", !.old = doc]
  <2>1. /\ rec \in Jobs /\ rec.stage = "fill" /\ rec.old = doc /\ rec.about = job[a].about
        /\ rec.since = job[a].since
    BY <1>1 DEF Jobs, AdminStages, Querying
  <2>2. job[a].stage = "select"
    BY <1>2 DEF SelectSettings, AtStage
  <2>3. JobOK(rec)
    BY <1>1, <2>1, <2>2 DEF JobOK, Suits, DocStages, CardStages, Refreshing
  <2>4. ~Restaffing(job[a]) /\ ~Rekeying(job[a])
    BY <2>2 DEF Restaffing, Rekeying
  <2>5. Reads(a, rec)
    BY <1>1, <1>2, <2>1, <2>2, <2>3, <2>4
       DEF Reads, SelectSettings, Become, state, limits, AtStage, Querying, Reloading
  <2>. QED  BY <2>5, ReadsPreserve
<1>3. CASE ReadDoc(a)
  <2>. DEFINE merged == Merge(doc, job[a].patch)
              rec == [job[a] EXCEPT !.stage = "writeDoc", !.old = doc, !.new = merged]
  <2>2. job[a].stage = "readDoc" /\ job[a].patch \in DocPatches
    BY <1>1, <1>3 DEF ReadDoc, AtStage, JobOK, DocStages
  <2>3. merged \in Docs
    BY <1>1, <2>2, MergeDoc
  <2>. HIDE DEF merged
  <2>1. /\ rec \in Jobs /\ rec.stage = "writeDoc" /\ rec.old = doc /\ rec.about = job[a].about
        /\ rec.since = job[a].since /\ rec.new = merged /\ rec.patch = job[a].patch
    BY <1>1, <2>3 DEF Jobs, AdminStages, DocStages
  <2>4. JobOK(rec)
    BY <1>1, <2>1, <2>2, <2>3 DEF JobOK, Suits, DocStages, CardStages, Refreshing
  <2>5. ~Restaffing(job[a]) /\ ~Rekeying(job[a])
    BY <2>2 DEF Restaffing, Rekeying
  <2>6. Reads(a, rec)
    BY <1>1, <1>3, <2>1, <2>2, <2>4, <2>5
       DEF Reads, ReadDoc, Become, state, limits, AtStage, Querying, Reloading, merged
  <2>. QED  BY <2>6, ReadsPreserve
<1>4. CASE ReadCard(a)
  <2>2. job[a].stage = "readCard" /\ job[a].about \in Cards
    BY <1>1, <1>4 DEF ReadCard, AtStage, JobOK, CardStages
  <2>3. ~Restaffing(job[a]) /\ ~Rekeying(job[a])
    BY <2>2 DEF Restaffing, Rekeying
  <2>. DEFINE row == cards[job[a].about]
              rec == [job[a] EXCEPT !.stage = "writeCard", !.old = row]
  <2>4. CASE job' = [job EXCEPT ![a] = Free]
    <3>1. Reads(a, Free)
      BY <1>1, <1>4, <2>2, <2>3, <2>4, FreeFacts
         DEF Reads, ReadCard, Become, state, limits, AtStage, Querying, Reloading
    <3>. QED  BY <3>1, ReadsPreserve
  <2>5. CASE row # NoRow /\ job' = [job EXCEPT ![a] = rec]
    <3>1. /\ rec \in Jobs /\ rec.stage = "writeCard" /\ rec.old = row /\ rec.about = job[a].about
          /\ rec.since = job[a].since /\ rec.patch = job[a].patch
      BY <1>1, <2>2 DEF Jobs, AdminStages, CardStages
    <3>2. JobOK(rec)
      BY <1>1, <2>2, <3>1 DEF JobOK, Suits, DocStages, CardStages, Refreshing
    <3>3. Reads(a, rec)
      BY <1>1, <1>4, <2>2, <2>3, <2>5, <3>1, <3>2
         DEF Reads, ReadCard, state, limits, AtStage, Querying, Reloading
    <3>. QED  BY <3>3, ReadsPreserve
  <2>. QED  BY <1>4, <2>4, <2>5 DEF ReadCard, Become
<1>5. CASE SelectStaff(a)
  <2>. DEFINE rec == [job[a] EXCEPT !.stage = "scripts", !.new = Active]
  <2>1. Active \in SUBSET Cards /\ Active \in Versions
    BY DEF Active, Versions
  <2>2. job[a].stage = "staff" /\ job[a].about \in {TheDoc, Installing}
    BY <1>1, <1>5 DEF SelectStaff, AtStage, JobOK, Refreshing
  <2>3. /\ rec \in Jobs /\ rec.stage = "scripts" /\ rec.new = Active /\ rec.about = job[a].about
        /\ rec.since = job[a].since
    BY <1>1, <2>1 DEF Jobs, AdminStages, Refreshing
  <2>4. JobOK(rec)
    BY <2>1, <2>2, <2>3 DEF JobOK, Suits, DocStages, CardStages, Refreshing
  <2>5. Restaffing(rec) /\ Rekeying(rec)
    BY <2>3 DEF Restaffing, Rekeying
  <2>6. Reads(a, rec)
    BY <1>1, <1>5, <2>2, <2>3, <2>4, <2>5
       DEF Reads, SelectStaff, Become, state, limits, AtStage, Querying, Reloading
  <2>. QED  BY <2>6, ReadsPreserve
<1>6. CASE SelectKey(a)
  <2>. DEFINE rec == [job[a] EXCEPT !.stage = "handlers", !.old = doc]
  <2>2. job[a].stage = "selectKey" /\ job[a].about \in {TheDoc, Installing}
    BY <1>1, <1>6 DEF SelectKey, AtStage, JobOK, Refreshing
  <2>3. /\ rec \in Jobs /\ rec.stage = "handlers" /\ rec.old = doc /\ rec.about = job[a].about
        /\ rec.since = job[a].since /\ rec.reload = job[a].reload
    BY <1>1 DEF Jobs, AdminStages, Querying
  <2>4. JobOK(rec)
    BY <1>1, <2>2, <2>3 DEF JobOK, Suits, DocStages, CardStages, Refreshing
  <2>5. ~Restaffing(job[a]) /\ Rekeying(rec)
    BY <2>2, <2>3 DEF Restaffing, Rekeying
  <2>6. Reads(a, rec)
    BY <1>1, <1>6, <2>2, <2>3, <2>4, <2>5
       DEF Reads, SelectKey, Become, state, limits, AtStage, Querying, Reloading
  <2>. QED  BY <2>6, ReadsPreserve
<1>. QED  BY <1>2, <1>3, <1>4, <1>5, <1>6

-----------------------------------------------------------------------------
(* The other steps: one lemma each *)

\* A request's step changes that request alone.
LEMMA JobChanges ==
  ASSUME AdminTypeInv, NEW a \in Admins, NEW rec \in Jobs, JobOK(rec), job' = [job EXCEPT ![a] = rec]
  PROVE  /\ job' \in [Admins -> Jobs] /\ \A b \in Admins : JobOK(job[b])'
         /\ \A b \in Admins : job'[b] = IF b = a THEN rec ELSE job[b]
<1>1. \A b \in Admins : job'[b] = IF b = a THEN rec ELSE job[b]
  BY DEF AdminTypeInv
<1>2. ASSUME NEW b \in Admins PROVE JobOK(job[b])'
  BY <1>1 DEF AdminTypeInv, JobOK
<1>. QED  BY <1>1, <1>2 DEF AdminTypeInv

\* The request in progress is the only one, and stays it.
LEMMA AloneStays ==
  ASSUME AdminAlone, NEW a \in Admins, ~AtStage(a, "free"), NEW rec,
         \A b \in Admins : job'[b] = IF b = a THEN rec ELSE job[b]
  PROVE  AdminAlone' /\ \A b \in Admins \ {a} : job[b].stage = "free"
BY DEF AdminAlone, AtStage

LEMMA KeepReadHolds ==
  ASSUME AdminIInv, NEW a \in Admins, KeepRead(a)
  PROVE  AdminIInv'
<1>1. /\ job[a].stage = "fill" /\ job[a].old \in Docs /\ job[a].about = TheDoc
      /\ cache' = [doc |-> job[a].old, at |-> clock] /\ job' = [job EXCEPT ![a] = Free]
      /\ UNCHANGED <<doc, cards, trail, files, loaded, clock, limits>>
  BY DEF KeepRead, FillCache, Become, AtStage, AdminIInv, AdminTypeInv, JobOK
<1>2. /\ job' \in [Admins -> Jobs] /\ \A b \in Admins : JobOK(job[b])'
      /\ \A b \in Admins : job'[b] = IF b = a THEN Free ELSE job[b]
  BY <1>1, JobChanges, FreeFacts DEF AdminIInv
<1>3. AdminTypeInv'
  BY <1>1, <1>2 DEF AdminIInv, AdminTypeInv, limits
<1>4. ReadsAge'
  <2>1. /\ job[a].since \in Nat /\ clock \in Nat /\ changedAt \in Nat
        /\ clock - job[a].since <= QueryTime
        /\ job[a].old # doc => job[a].since <= changedAt
    BY <1>1 DEF AdminIInv, AdminTypeInv, ReadsAge, Querying, Jobs
  <2>2. job[a].old # doc => clock - changedAt <= QueryTime
    BY <2>1, TimesAssumption
  <2>3. cache'.doc = job[a].old /\ cache'.at = clock /\ cache'.at <= clock
    BY <1>1, <2>1
  <2>4. \A b \in Admins : job'[b] = Free \/ job'[b] = job[b]
    BY <1>2
  <2>5. /\ Free.since <= clock /\ Free.stage \notin Querying
    BY <2>1, FreeFacts DEF Querying
  <2>. QED  BY <1>1, <2>2, <2>3, <2>4, <2>5 DEF AdminIInv, ReadsAge, limits, Querying
<1>5. RowsBegin'
  BY <1>1, <1>2, FreeFacts DEF AdminIInv, RowsBegin
<1>6. \A x \in Cards \cup {TheDoc} : Untouched(x)
  BY <1>1, <1>2, FreeFacts DEF Untouched, InHand, Now
<1>7. OnRecord'
  BY <1>1, <1>6, UntouchedKeeps DEF AdminIInv, OnRecord, limits
<1>8. ASSUME ~meet' PROVE InOrder'
  <2>1. InOrder
    BY <1>1, <1>8 DEF AdminIInv, limits
  <2>2. AdminAlone' /\ \A b \in Admins \ {a} : job[b].stage = "free"
    BY <1>1, <1>2, <2>1, AloneStays DEF InOrder, AtStage
  <2>3. FollowsOn'
    <3>. SUFFICES ASSUME NEW x \in Cards \cup {TheDoc}, x \notin halfDone PROVE Followed(x)'
      BY <1>1 DEF FollowsOn, limits
    <3>1. Followed(x)
      BY <2>1 DEF InOrder, FollowsOn
    <3>2. \A b \in Admins :
            job'[b].about = x /\ job'[b].stage \in {"writeCard", "writeDoc"} => job'[b].old = Now(x)
      BY <1>2, <3>1, FreeFacts DEF Followed
    <3>. QED  BY <1>6, <3>1, <3>2, UntouchedKeeps
  <2>4. DocCurrent'
    BY <1>1, <1>2, <2>1, FreeFacts DEF InOrder, DocCurrent, AtStage, limits
  <2>5. Active' = Active
    BY <1>1 DEF Active
  <2>6. ScriptsFollow'
    BY <1>1, <1>2, <2>1, <2>5, FreeFacts DEF InOrder, ScriptsFollow, AtStage, Restaffing, limits
  <2>7. KeyFollows'
    BY <1>1, <1>2, <2>1, FreeFacts DEF InOrder, KeyFollows, AtStage, Rekeying, limits
  <2>. QED  BY <1>1, <2>1, <2>2, <2>3, <2>4, <2>6, <2>7 DEF InOrder, Halves, limits
<1>. QED  BY <1>3, <1>4, <1>5, <1>7, <1>8 DEF AdminIInv

LEMMA WriteDocHolds ==
  ASSUME AdminIInv, NEW a \in Admins, WriteDoc(a)
  PROVE  AdminIInv'
<1>. DEFINE rec == [job[a] EXCEPT !.stage = "invalidate"]
<1>1. /\ job[a].stage = "writeDoc" /\ job[a].new \in Docs /\ job[a].old \in Docs /\ job[a].about = TheDoc
      /\ job[a].patch \in DocPatches /\ job[a] \in Jobs /\ JobOK(job[a])
  BY DEF WriteDoc, AtStage, AdminIInv, AdminTypeInv, JobOK, DocStages
<1>2. /\ doc' = job[a].new /\ changedAt' = clock /\ wanted' = Merge(wanted, job[a].patch)
      /\ job' = [job EXCEPT ![a] = rec]
      /\ UNCHANGED <<cache, cards, trail, files, loaded, clock, meet, writes, faults, halfDone>>
  BY DEF WriteDoc, Proceed, Become
<1>3. /\ rec \in Jobs /\ rec.stage = "invalidate" /\ rec.about = TheDoc /\ rec.patch = job[a].patch
      /\ rec.new = job[a].new /\ rec.old = job[a].old /\ rec.since = job[a].since
  BY <1>1 DEF Jobs, AdminStages, DocStages
<1>4. JobOK(rec)
  BY <1>1, <1>3 DEF JobOK, Suits, DocStages, CardStages, Refreshing
<1>. HIDE DEF rec
<1>5. /\ job' \in [Admins -> Jobs] /\ \A b \in Admins : JobOK(job[b])'
      /\ \A b \in Admins : job'[b] = IF b = a THEN rec ELSE job[b]
  BY <1>2, <1>3, <1>4, JobChanges DEF AdminIInv
<1>6. wanted' \in Docs
  BY <1>1, <1>2, MergeDoc DEF AdminIInv, AdminTypeInv
<1>7. AdminTypeInv'
  BY <1>1, <1>2, <1>5, <1>6 DEF AdminIInv, AdminTypeInv
<1>8. ReadsAge'
  BY <1>2, <1>3, <1>5, TimesAssumption DEF AdminIInv, AdminTypeInv, ReadsAge, Querying, Jobs
<1>9. RowsBegin'
  BY <1>2, <1>3, <1>5, RowNames DEF AdminIInv, RowsBegin
<1>10. \A x \in Cards : Untouched(x)
  BY <1>1, <1>2, <1>3, <1>5, RowNames DEF Untouched, InHand, Now
<1>11. Now(TheDoc)' = rec.new /\ Pending(TheDoc)'
  BY <1>2, <1>3, <1>5 DEF Now, Pending
<1>12. OnRecord'
  <2>1. ASSUME NEW x \in Cards, x \notin halfDone PROVE Recorded(x)'
    BY <1>10, <2>1, UntouchedKeeps DEF AdminIInv, OnRecord
  <2>2. ASSUME NEW columns \in SUBSET DocColumns PROVE AtHand(TheDoc, columns)'
    <3>1. Tells(rec) = DocColumns
      BY <1>3, <1>4, TellsFacts
    <3>2. a \in Hands(TheDoc, columns)'
      BY <1>3, <1>5, <3>1 DEF Hands, InHand
    <3>. QED  BY <1>5, <1>11, <3>2 DEF AtHand
  <2>3. Recorded(TheDoc)'
    <3>1. ColumnsOf(TheDoc) = DocColumns /\ \A columns \in Tellable(TheDoc) : columns \subseteq DocColumns
      BY Columns DEF Tellable
    <3>2. Tellable(TheDoc)' = Tellable(TheDoc)
      BY DEF Tellable, ColumnsOf, Updated
    <3>3. \A f \in DocColumns : Hands(TheDoc, {f})' # {}
      BY <2>2 DEF AtHand
    <3>. QED  BY <1>11, <2>2, <3>1, <3>2, <3>3 DEF Recorded
  <2>. QED  BY <1>2, <2>1, <2>3 DEF OnRecord
<1>13. ASSUME ~meet' PROVE InOrder'
  <2>1. InOrder
    BY <1>2, <1>13 DEF AdminIInv
  <2>2. AdminAlone' /\ \A b \in Admins \ {a} : job[b].stage = "free"
    BY <1>1, <1>5, <2>1, AloneStays DEF InOrder, AtStage
  <2>3. FollowsOn'
    <3>. SUFFICES ASSUME NEW x \in Cards \cup {TheDoc}, x \notin halfDone PROVE Followed(x)'
      BY <1>2 DEF FollowsOn
    <3>1. Followed(x)
      BY <2>1 DEF InOrder, FollowsOn
    <3>2. CASE x = TheDoc
      <4>1. ~Pending(x)
        BY <1>1, <2>2, <3>2 DEF Pending
      <4>2. /\ LogFollows(x) /\ LogCurrent(x) /\ job[a].old = Now(x) /\ job[a].old # <<>>
        <5>1. job[a].old # <<>>
          BY <1>1, NotEmpty
        <5>. QED  BY <1>1, <3>1, <3>2, <4>1, <5>1 DEF Followed
      <4>3. Tells(rec) = DocColumns /\ ColumnsOf(x) = DocColumns
        BY <1>3, <1>4, <3>2, TellsFacts, Columns
      <4>4. LogFollows(x)'
        BY <1>2, <4>2 DEF LogFollows, InTurn, Telling, ColumnsOf
      <4>5. HandFollows(a, x)'
        <5>1. \A f \in ColumnsOf(x), k \in DOMAIN trail[x] :
                Latest(x, f, k)' => rec.old[f] = trail[x][k].new[f]
          BY <1>2, <1>3, <4>2 DEF LogCurrent, Latest, Telling
        <5>2. Now(x)' = rec.new /\ rec.old # <<>> /\ job'[a] = rec
          BY <1>3, <1>5, <1>11, <3>2, <4>2
        <5>. QED  BY <1>2, <4>3, <5>1, <5>2 DEF HandFollows, ColumnsOf
      <4>. QED  BY <1>1, <1>3, <1>5, <1>11, <2>2, <3>2, <4>4, <4>5 DEF Followed, InHand
    <3>3. CASE x # TheDoc
      <4>1. \A b \in Admins :
              job'[b].about = x /\ job'[b].stage \in {"writeCard", "writeDoc"} => job'[b].old = Now(x)
        BY <1>3, <1>5, <3>1, <3>3 DEF Followed
      <4>. QED  BY <1>10, <3>1, <3>3, <4>1, UntouchedKeeps
    <3>. QED  BY <3>2, <3>3
  <2>4. DocCurrent'
    BY <1>1, <1>2, <1>3, <1>5, <2>1, <2>2 DEF InOrder, DocCurrent, AtStage
  <2>5. Active' = Active
    BY <1>2 DEF Active
  <2>6. ScriptsFollow'
    BY <1>1, <1>2, <1>3, <1>5, <2>1, <2>2, <2>5 DEF InOrder, ScriptsFollow, AtStage, Restaffing
  <2>7. KeyFollows'
    <3>1. "key" \notin halfDone /\ "key" \notin DOMAIN job[a].patch => doc'.key = doc.key
      BY <1>1, <1>2, <2>1, MergeDoc DEF InOrder, Halves, DocCurrent, AtStage, AdminIInv, AdminTypeInv
    <3>2. ~Rekeying(job[a]) /\ ("key" \in DOMAIN job[a].patch => Rekeying(rec))
      BY <1>1, <1>3 DEF Rekeying
    <3>. QED  BY <1>1, <1>2, <1>3, <1>5, <2>1, <2>2, <3>1, <3>2 DEF InOrder, KeyFollows, AtStage
  <2>. QED  BY <1>2, <2>1, <2>2, <2>3, <2>4, <2>6, <2>7 DEF InOrder, Halves
<1>. QED  BY <1>7, <1>8, <1>9, <1>12, <1>13 DEF AdminIInv

LEMMA InvalidateHolds ==
  ASSUME AdminIInv, NEW a \in Admins, InvalidateSettingsCache(a)
  PROVE  AdminIInv'
<1>. DEFINE rec == [job[a] EXCEPT !.stage = "audit"]
<1>1. /\ job[a].stage = "invalidate" /\ job[a].about = TheDoc /\ job[a].patch \in DocPatches
      /\ job[a] \in Jobs /\ JobOK(job[a]) /\ job[a].new \in Docs /\ job[a].old \in Docs
  BY DEF InvalidateSettingsCache, AtStage, AdminIInv, AdminTypeInv, JobOK, DocStages
<1>2. /\ cache' = NoCache /\ job' = [job EXCEPT ![a] = rec]
      /\ UNCHANGED <<doc, cards, trail, files, loaded, clock, limits>>
  BY DEF InvalidateSettingsCache, Proceed, Become
<1>3. /\ rec \in Jobs /\ rec.stage = "audit" /\ rec.about = TheDoc /\ rec.patch = job[a].patch
      /\ rec.new = job[a].new /\ rec.old = job[a].old /\ rec.since = job[a].since
  BY <1>1 DEF Jobs, AdminStages
<1>4. JobOK(rec)
  BY <1>1, <1>3, RowNames DEF JobOK, DocStages, CardStages, Refreshing
<1>. HIDE DEF rec
<1>5. /\ job' \in [Admins -> Jobs] /\ \A b \in Admins : JobOK(job[b])'
      /\ \A b \in Admins : job'[b] = IF b = a THEN rec ELSE job[b]
  BY <1>2, <1>3, <1>4, JobChanges DEF AdminIInv
<1>6. NoCache \in [doc : Docs, at : Nat \cup {-1}] /\ NoCache.at = -1
  BY DEF NoCache, Docs
<1>7. AdminTypeInv'
  BY <1>2, <1>5, <1>6 DEF AdminIInv, AdminTypeInv, limits
<1>8. ReadsAge'
  BY <1>2, <1>3, <1>5, <1>6 DEF AdminIInv, AdminTypeInv, ReadsAge, Querying, limits
<1>9. RowsBegin'
  BY <1>2, <1>3, <1>5, RowNames DEF AdminIInv, RowsBegin
<1>10. \A x \in Cards \cup {TheDoc} : Untouched(x)
  BY <1>1, <1>2, <1>3, <1>5 DEF Untouched, InHand, Now
<1>11. OnRecord'
  BY <1>2, <1>10, UntouchedKeeps DEF AdminIInv, OnRecord, limits
<1>12. ASSUME ~meet' PROVE InOrder'
  <2>1. InOrder
    BY <1>2, <1>12 DEF AdminIInv, limits
  <2>2. AdminAlone' /\ \A b \in Admins \ {a} : job[b].stage = "free"
    BY <1>1, <1>5, <2>1, AloneStays DEF InOrder, AtStage
  <2>3. FollowsOn'
    <3>. SUFFICES ASSUME NEW x \in Cards \cup {TheDoc}, x \notin halfDone PROVE Followed(x)'
      BY <1>2 DEF FollowsOn, limits
    <3>1. Followed(x)
      BY <2>1 DEF InOrder, FollowsOn
    <3>2. \A b \in Admins :
            job'[b].about = x /\ job'[b].stage \in {"writeCard", "writeDoc"} => job'[b].old = Now(x)
      BY <1>3, <1>5, <3>1 DEF Followed
    <3>. QED  BY <1>10, <3>1, <3>2, UntouchedKeeps
  <2>4. DocCurrent'
    BY <1>2, <1>3, <1>5, <1>6, <2>1 DEF InOrder, DocCurrent, AtStage, limits
  <2>5. Active' = Active
    BY <1>2 DEF Active
  <2>6. ScriptsFollow'
    <3>1. ~Restaffing(job[a])
      BY <1>1 DEF Restaffing
    <3>. QED  BY <1>1, <1>2, <1>3, <1>5, <2>1, <2>5, <3>1 DEF InOrder, ScriptsFollow, AtStage, limits
  <2>7. KeyFollows'
    <3>1. Rekeying(job[a]) => Rekeying(rec)
      BY <1>1, <1>3 DEF Rekeying
    <3>. QED  BY <1>1, <1>2, <1>3, <1>5, <2>1, <3>1 DEF InOrder, KeyFollows, AtStage, limits
  <2>. QED  BY <1>2, <2>1, <2>2, <2>3, <2>4, <2>6, <2>7 DEF InOrder, Halves, limits
<1>. QED  BY <1>7, <1>8, <1>9, <1>11, <1>12 DEF AdminIInv

\* InsertCard and WriteCard: a new version of a row, to be audited next.
Writes(a, x, row, rec) ==
  /\ x \in Cards /\ row \in Rows /\ row.name # 0
  /\ cards' = [cards EXCEPT ![x] = row] /\ job' = [job EXCEPT ![a] = rec]
  /\ rec \in Jobs /\ JobOK(rec) /\ rec.stage = "audit" /\ rec.about = x /\ rec.new = row
  /\ rec.since <= clock
  /\ job[a].stage \in {"free", "writeCard"} /\ (AtStage(a, "free") => meet \/ AllFree)
  /\ AtStage(a, "writeCard") =>
       /\ job[a].about = x /\ rec.old = job[a].old /\ rec.old # <<>>
       /\ \A f \in RowColumns \ Tells(rec) : f # "notes" => row[f] = cards[x][f]
       /\ Updated(x) \subseteq Tells(rec) \/ Updated(x) \cap Tells(rec) = {}
  /\ AtStage(a, "free") =>
       /\ cards[x] = NoRow
       /\ \A f \in RowColumns \ (Tells(rec) \cup Untold(x)) : row[f] = NewRow[f]
  /\ row.active # cards[x].active /\ KindOf[x] = "employee" => Restaffing(rec)
  /\ UNCHANGED <<doc, cache, trail, files, loaded, clock, meet, wanted, changedAt, faults, halfDone>>
  /\ writes' \in Nat

\* No request is to audit a row that is not there, and none of its columns is told yet.
LEMMA NoRowYet ==
  ASSUME AdminIInv, NEW x \in Cards, cards[x] = NoRow
  PROVE  /\ trail[x] = <<>> /\ x \notin Staff /\ ~Pending(x)
         /\ \A columns : Telling(x, columns) = {} /\ Hands(x, columns) = {}
<1>1. trail[x] = <<>> /\ x \notin Staff /\ \A b \in Admins : job[b].about = x => job[b].stage # "audit"
  BY DEF AdminIInv, RowsBegin
<1>2. \A b \in Admins : job[b].about = x => job[b].stage # "invalidate"
  BY RowNames DEF AdminIInv, AdminTypeInv, JobOK, DocStages
<1>3. DOMAIN <<>> = {}
  OBVIOUS
<1>. QED  BY <1>1, <1>2, <1>3 DEF Telling, Hands, InHand, Pending

LEMMA WritesHold ==
  ASSUME AdminIInv, NEW a \in Admins, NEW x, NEW row, NEW rec, Writes(a, x, row, rec)
  PROVE  AdminIInv'
<1>1. /\ job' \in [Admins -> Jobs] /\ \A b \in Admins : JobOK(job[b])'
      /\ \A b \in Admins : job'[b] = IF b = a THEN rec ELSE job[b]
  BY JobChanges DEF AdminIInv, Writes
<1>2. /\ cards' \in [Cards -> Rows] /\ cards'[x] = row
      /\ \A y \in Cards \ {x} : cards'[y] = cards[y]
  BY DEF AdminIInv, AdminTypeInv, Writes
<1>3. AdminTypeInv'
  BY <1>1, <1>2 DEF AdminIInv, AdminTypeInv, Writes
<1>4. ReadsAge'
  BY <1>1 DEF AdminIInv, ReadsAge, Querying, Writes
<1>5. RowsBegin'
  <2>1. row # NoRow
    BY DEF Writes, NoRow
  <2>. QED  BY <1>1, <1>2, <2>1 DEF AdminIInv, RowsBegin, Writes
<1>6. /\ \A y \in (Cards \cup {TheDoc}) \ {x} : Untouched(y)
      /\ Now(x) = cards[x] /\ Now(x)' = rec.new /\ rec.new = row /\ Pending(x)'
  <2>1. /\ \A y \in (Cards \cup {TheDoc}) \ {x} : Now(y)' = Now(y)
        /\ Now(x) = cards[x] /\ Now(x)' = rec.new /\ rec.new = row /\ Pending(x)'
    BY <1>1, <1>2, RowNames DEF Pending, Now, Writes
  <2>. QED  BY <1>1, <2>1 DEF Untouched, InHand, Writes, AtStage
<1>7. OnRecord'
  <2>1. ASSUME NEW y \in (Cards \cup {TheDoc}) \ {x}, y \notin halfDone PROVE Recorded(y)'
    BY <1>6, <2>1, UntouchedKeeps DEF AdminIInv, OnRecord
  <2>2. ASSUME x \notin halfDone PROVE Recorded(x)'
    <3>1. /\ Recorded(x) /\ x \in Cards /\ ColumnsOf(x) = RowColumns
          /\ Tells(rec) \subseteq RowColumns /\ "notes" \notin Tells(rec)
      BY <2>2, Columns, TellsFacts DEF AdminIInv, OnRecord, Writes
    <3>2. \A columns : Telling(x, columns)' = Telling(x, columns)
      BY DEF Telling, Writes
    <3>3. \A columns : /\ columns \subseteq Tells(rec) => a \in Hands(x, columns)'
                       /\ ~(columns \subseteq Tells(rec)) => Hands(x, columns)' = Hands(x, columns)
      BY <1>1 DEF Hands, InHand, Writes
    <3>4. \A columns : columns \subseteq Tells(rec) => AtHand(x, columns)'
      BY <1>1, <1>6, <3>3 DEF AtHand
    <3>5. Telling(x, {"notes"}) = {} /\ Hands(x, {"notes"}) = {}
      <4>1. Telling(x, {"notes"}) = {}
        BY <3>1 DEF AdminIInv, RowsBegin, Telling
      <4>2. \A b \in Admins : InHand(b, x) => "notes" \notin Tells(job[b])
        BY <3>1, TellsFacts DEF InHand, AdminIInv, AdminTypeInv
      <4>. QED  BY <4>1, <4>2 DEF Hands
    <3>6. ASSUME NEW columns \in Tellable(x), ~(columns \subseteq Tells(rec)),
                 Telling(x, columns) # {} \/ Hands(x, columns) # {}
          PROVE  OnFile(x, columns)' \/ AtHand(x, columns)'
      <4>1. AtStage(a, "writeCard")
        BY <3>1, <3>6, NoRowYet DEF Writes, AtStage
      <4>2. OnFile(x, columns) \/ AtHand(x, columns)
        <5>1. DOMAIN <<>> = {}
          OBVIOUS
        <5>2. trail[x] = <<>> => Telling(x, columns) = {}
          BY <5>1 DEF Telling
        <5>3. ~Pending(x) => Hands(x, columns) = {}
          BY DEF Hands, InHand, Pending
        <5>. QED  BY <3>1, <3>6, <5>2, <5>3 DEF Recorded
      <4>3. \A f \in columns : row[f] = cards[x][f]
        <5>1. CASE columns = Updated(x)
          <6>1. columns \cap Tells(rec) = {} /\ columns \subseteq RowColumns /\ "notes" \notin columns
            BY <3>1, <3>6, <4>1, <5>1, Columns DEF Writes, RowColumns
          <6>. QED  BY <4>1, <6>1 DEF Writes
        <5>2. ASSUME NEW f \in RowColumns, columns = {f} PROVE row[f] = cards[x][f]
          BY <3>5, <3>6, <4>1, <5>2 DEF Writes
        <5>. QED  BY <3>1, <5>1, <5>2 DEF Tellable
      <4>4. OnFile(x, columns) => OnFile(x, columns)'
        <5>1. trail'[x] = trail[x]
          BY DEF Writes
        <5>. QED  BY <1>6, <3>2, <4>3, <5>1 DEF OnFile, Shows
      <4>5. AtHand(x, columns) => AtHand(x, columns)'
        <5>1. \A b \in Hands(x, columns) : b # a /\ b \in Admins /\ b \in Hands(x, columns)'
          BY <3>3, <3>6 DEF Hands, InHand, Writes
        <5>. QED  BY <1>1, <1>6, <4>3, <5>1 DEF AtHand
      <4>. QED  BY <4>2, <4>4, <4>5
    <3>7. ASSUME NEW f \in RowColumns \ Untold(x), Telling(x, {f})' = {}, Hands(x, {f})' = {}
          PROVE  row[f] = MadeAs(x)[f]
      <4>1. f \notin Tells(rec) /\ Telling(x, {f}) = {} /\ Hands(x, {f}) = {} /\ f # "notes"
        BY <3>2, <3>3, <3>7 DEF Untold
      <4>2. MadeAs(x) = NewRow
        BY <3>1, RowNames DEF MadeAs
      <4>3. CASE AtStage(a, "free")
        BY <4>1, <4>2, <4>3 DEF Writes
      <4>4. CASE AtStage(a, "writeCard")
        <5>1. row[f] = cards[x][f]
          BY <4>1, <4>4 DEF Writes
        <5>2. cards[x][f] = NewRow[f]
          <6>1. CASE trail[x] = <<>> /\ ~Pending(x) /\ Now(x) = Before(x)
            <7>1. cards[x] # NoRow
              BY <1>1, <3>1, <4>4 DEF AdminIInv, RowsBegin, Writes, AtStage
            <7>. QED  BY <1>6, <3>1, <6>1, <7>1, RowNames DEF Before, FirstRow
          <6>2. CASE ~(trail[x] = <<>> /\ ~Pending(x) /\ Now(x) = Before(x))
            BY <1>6, <3>1, <4>1, <4>2, <6>2 DEF Recorded
          <6>. QED  BY <6>1, <6>2
        <5>. QED  BY <4>2, <5>1, <5>2
      <4>. QED  BY <4>3, <4>4 DEF Writes, AtStage
    <3>8. Tellable(x)' = Tellable(x) /\ ColumnsOf(x)' = ColumnsOf(x) /\ MadeAs(x)' = MadeAs(x)
      BY DEF Tellable, ColumnsOf, Updated, MadeAs
    <3>9. ASSUME NEW columns \in Tellable(x), Telling(x, columns)' # {} \/ Hands(x, columns)' # {}
          PROVE  OnFile(x, columns)' \/ AtHand(x, columns)'
      BY <3>2, <3>3, <3>4, <3>6, <3>9
    <3>. QED  BY <1>6, <3>1, <3>7, <3>8, <3>9 DEF Recorded
  <2>. QED  BY <2>1, <2>2 DEF OnRecord, Writes
<1>8. ASSUME ~meet' PROVE InOrder'
  <2>1. InOrder /\ ~meet
    BY <1>8 DEF AdminIInv, Writes
  <2>2. AdminAlone' /\ \A b \in Admins \ {a} : job[b].stage = "free"
    BY <1>1, <2>1 DEF InOrder, AdminAlone, AtStage, AllFree, Writes
  <2>3. FollowsOn'
    <3>. SUFFICES ASSUME NEW y \in Cards \cup {TheDoc}, y \notin halfDone PROVE Followed(y)'
      BY DEF FollowsOn, Writes
    <3>1. Followed(y)
      BY <2>1 DEF InOrder, FollowsOn
    <3>2. CASE y = x
      <4>1. ~Pending(x) /\ trail'[x] = trail[x] /\ ColumnsOf(x) = RowColumns
        BY <2>2, Columns DEF Pending, Writes
      <4>2. \A f, k : Latest(x, f, k)' <=> Latest(x, f, k)
        BY <4>1 DEF Latest, Telling
      <4>3. LogFollows(x)'
        BY <3>1, <3>2, <4>1 DEF Followed, LogFollows, InTurn, Telling, ColumnsOf
      <4>4. HandFollows(a, x)'
        <5>1. CASE AtStage(a, "free")
          <6>1. trail[x] = <<>> /\ DOMAIN <<>> = {}
            BY <5>1, NoRowYet DEF Writes
          <6>. QED  BY <1>1, <1>6, <4>1, <6>1 DEF HandFollows
        <5>2. CASE AtStage(a, "writeCard")
          <6>1. rec.old = cards[x] /\ rec.old # <<>> /\ LogCurrent(x)
            BY <1>6, <3>1, <3>2, <4>1, <5>2 DEF Followed, Writes, AtStage
          <6>2. ASSUME NEW f \in RowColumns, NEW k \in DOMAIN trail[x], Latest(x, f, k)
                PROVE  /\ rec.old[f] = trail[x][k].new[f]
                       /\ f \notin Tells(rec) => rec.new[f] = rec.old[f]
            <7>1. f # "notes"
              BY <6>2 DEF Latest, Telling, AdminIInv, RowsBegin, Writes
            <7>. QED  BY <1>6, <4>1, <5>2, <6>1, <6>2, <7>1 DEF LogCurrent, Writes
          <6>3. Tells(job'[a]) = Tells(rec) /\ job'[a] = rec /\ ColumnsOf(x)' = ColumnsOf(x)
            BY <1>1 DEF ColumnsOf
          <6>. QED  BY <1>6, <4>1, <4>2, <6>1, <6>2, <6>3 DEF HandFollows
        <5>. QED  BY <5>1, <5>2 DEF Writes, AtStage
      <4>5. \A b \in Admins : job'[b].stage \in {"writeCard", "writeDoc", "invalidate", "audit"} => b = a
        BY <1>1, <2>2
      <4>. QED  BY <1>1, <1>6, <3>2, <4>3, <4>4, <4>5 DEF Followed, InHand, Writes
    <3>3. CASE y # x
      <4>1. \A b \in Admins :
              job'[b].about = y /\ job'[b].stage \in {"writeCard", "writeDoc"} => job'[b].old = Now(y)
        BY <1>1, <3>1, <3>3 DEF Followed, Writes
      <4>. QED  BY <1>6, <3>1, <3>3, <4>1, UntouchedKeeps
    <3>. QED  BY <3>2, <3>3
  <2>4. DocCurrent'
    BY <1>1, <2>1 DEF InOrder, DocCurrent, AtStage, Writes
  <2>5. Active' = Active \/ Restaffing(rec)
    <3>1. ASSUME ~Restaffing(rec) PROVE \A y \in Cards : KindOf[y] = "employee" => cards'[y].active = cards[y].active
      BY <1>2, <3>1 DEF Writes
    <3>. QED  BY <3>1 DEF Active
  <2>6. ScriptsFollow'
    <3>1. ~Restaffing(job[a])
      BY DEF Writes, Restaffing
    <3>. QED  BY <1>1, <2>1, <2>2, <2>5, <3>1 DEF InOrder, ScriptsFollow, AtStage, Writes
  <2>7. KeyFollows'
    <3>1. ~Rekeying(job[a])
      BY DEF Writes, Rekeying
    <3>. QED  BY <1>1, <2>1, <2>2, <3>1 DEF InOrder, KeyFollows, AtStage, Writes
  <2>. QED  BY <2>1, <2>2, <2>3, <2>4, <2>6, <2>7 DEF InOrder, Halves, Writes
<1>. QED  BY <1>3, <1>4, <1>5, <1>7, <1>8 DEF AdminIInv

LEMMA InsertCardHolds ==
  ASSUME AdminIInv, NEW a \in Admins, NEW x \in Cards, NEW given \in CardGivens(x), InsertCard(a, x, given)
  PROVE  AdminIInv'
<1>. DEFINE row == Merge(NewRow, given)
            rec == [Free EXCEPT !.stage = "audit", !.about = x, !.new = row, !.since = clock]
<1>1. /\ row \in Rows /\ row.name = 1 /\ row \in Versions /\ row.active = TRUE
      /\ KindOf[x] # "employee" => row.pin = FALSE
  <2>1. /\ DOMAIN NewRow = RowColumns /\ NewRow.name = 1 /\ NewRow.access = 0 /\ NewRow.notes = 0
        /\ NewRow.active = TRUE /\ NewRow.pin = FALSE /\ NewRow.active \in BOOLEAN /\ NewRow.pin \in BOOLEAN
    BY DEF NewRow, RowColumns
  <2>2. ASSUME row \in Rows PROVE row \in Versions
    BY <2>2 DEF Versions
  <2>. HIDE DEF NewRow
  <2>3. CASE KindOf[x] = "employee"
    <3>1. given = [access |-> 1, notes |-> 1, pin |-> TRUE]
      BY <2>3 DEF CardGivens
    <3>2. /\ DOMAIN given = {"access", "notes", "pin"} /\ given.access \in Nat /\ given.notes \in Nat
          /\ given.pin \in BOOLEAN
      BY <3>1
    <3>3. row = [name |-> NewRow.name, access |-> given.access, notes |-> given.notes,
                 active |-> NewRow.active, pin |-> given.pin]
      BY <2>1, <3>2 DEF Merge, RowColumns
    <3>4. row \in Rows
      BY <2>1, <3>2, <3>3 DEF Rows
    <3>5. row.name = NewRow.name /\ row.active = NewRow.active
      BY <3>3
    <3>. QED  BY <2>1, <2>2, <2>3, <3>4, <3>5
  <2>4. CASE KindOf[x] # "employee"
    <3>1. CASE given = [notes |-> 1]
      <4>1. DOMAIN given = {"notes"} /\ given.notes \in Nat
        BY <3>1
      <4>2. row = [name |-> NewRow.name, access |-> NewRow.access, notes |-> given.notes,
                   active |-> NewRow.active, pin |-> NewRow.pin]
        BY <2>1, <4>1 DEF Merge, RowColumns
      <4>3. row \in Rows
        BY <2>1, <4>1, <4>2 DEF Rows
      <4>4. row.name = NewRow.name /\ row.active = NewRow.active /\ row.pin = NewRow.pin
        BY <4>2
      <4>. QED  BY <2>1, <2>2, <4>3, <4>4
    <3>2. CASE given = <<>>
      <4>1. DOMAIN given = {}
        BY <3>2
      <4>2. row = [name |-> NewRow.name, access |-> NewRow.access, notes |-> NewRow.notes,
                   active |-> NewRow.active, pin |-> NewRow.pin]
        BY <2>1, <4>1 DEF Merge, RowColumns
      <4>3. row \in Rows
        BY <2>1, <4>2 DEF Rows
      <4>4. row.name = NewRow.name /\ row.active = NewRow.active /\ row.pin = NewRow.pin
        BY <4>2
      <4>. QED  BY <2>1, <2>2, <4>3, <4>4
    <3>. QED  BY <2>4, <3>1, <3>2 DEF CardGivens
  <2>. QED  BY <2>3, <2>4
<1>. HIDE DEF row
<1>2. /\ rec \in Jobs /\ rec.stage = "audit" /\ rec.about = x /\ rec.new = row
      /\ rec.since = clock /\ rec.patch = <<>> /\ rec.old = <<>>
  BY <1>1, FreeFacts DEF Jobs, AdminStages, About, AdminIInv, AdminTypeInv
<1>3. JobOK(rec)
  BY <1>1, <1>2, RowNames DEF JobOK, DocStages, CardStages, Refreshing
<1>. HIDE DEF rec
<1>4. KindOf[x] = "employee" => Restaffing(rec)
  BY <1>2 DEF Restaffing
<1>5. cards[x] = NoRow /\ x \notin Staff
  BY NoRowYet DEF InsertCard
<1>6. \A f \in RowColumns \ (Tells(rec) \cup Untold(x)) : row[f] = NewRow[f]
  <2>1. Tells(rec) = IF KindOf[x] = "employee" THEN {"name", "pin"} ELSE {"name"}
    BY <1>2 DEF Tells
  <2>2. Untold(x) = {"notes", "access"}
    BY <1>5 DEF Untold
  <2>3. NewRow.active = TRUE /\ NewRow.pin = FALSE
    BY DEF NewRow, NoRow
  <2>. QED  BY <1>1, <2>1, <2>2, <2>3 DEF RowColumns
<1>7. Writes(a, x, row, rec)
  BY <1>1, <1>2, <1>3, <1>4, <1>6 DEF Writes, InsertCard, Become, AtStage, AdminIInv, AdminTypeInv, rec, row
<1>. QED  BY <1>7, WritesHold

LEMMA WriteCardHolds ==
  ASSUME AdminIInv, NEW a \in Admins, WriteCard(a)
  PROVE  AdminIInv'
<1>. DEFINE x == job[a].about
            row == Merge(cards[x], job[a].patch)
            rec == [job[a] EXCEPT !.stage = "audit", !.new = row]
<1>1. /\ job[a].stage = "writeCard" /\ job[a].patch \in RowPatches /\ x \in Cards
      /\ job[a] \in Jobs /\ JobOK(job[a]) /\ cards[x] \in Rows
      /\ job[a].since <= clock /\ Suits(job[a]) /\ job[a].old \in Rows
  BY DEF WriteCard, AtStage, AdminIInv, AdminTypeInv, JobOK, CardStages, ReadsAge
<1>2. cards[x].name # 0
  BY <1>1 DEF AdminIInv, RowsBegin
<1>3. /\ row \in Rows /\ row.name # 0
      /\ "pin" \in DOMAIN job[a].patch => row.active = cards[x].active
      /\ \A f \in RowColumns \ DOMAIN job[a].patch : row[f] = cards[x][f]
  BY <1>1, <1>2, MergeRow
<1>. HIDE DEF row
<1>4. row \in Versions
  BY <1>3 DEF Versions
<1>5. /\ rec \in Jobs /\ rec.stage = "audit" /\ rec.about = x /\ rec.new = row
      /\ rec.since = job[a].since /\ rec.patch = job[a].patch /\ rec.old = job[a].old
  BY <1>1, <1>4 DEF Jobs, AdminStages
<1>6. Suits(rec)
  BY <1>1, <1>5 DEF Suits
<1>7. /\ cards' = [cards EXCEPT ![x] = row] /\ job' = [job EXCEPT ![a] = rec]
      /\ UNCHANGED <<doc, cache, trail, files, loaded, clock, limits>>
  BY DEF WriteCard, Become, row
<1>. HIDE DEF rec
<1>8. JobOK(rec)
  BY <1>1, <1>3, <1>5, <1>6, RowNames DEF JobOK, DocStages, CardStages, Refreshing
<1>9. row.active # cards[x].active /\ KindOf[x] = "employee" => Restaffing(rec)
  BY <1>1, <1>3, <1>5 DEF Restaffing
<1>10. /\ DOMAIN rec.patch \subseteq Tells(rec) \cup {"notes"}
       /\ Updated(x) \subseteq Tells(rec) \/ Updated(x) \cap Tells(rec) = {}
  <2>1. rec.patch # <<>>
    <3>1. DOMAIN <<>> = {}
      OBVIOUS
    <3>2. DOMAIN rec.patch # {}
      BY <1>1, <1>5 DEF RowPatches
    <3>. QED  BY <3>1, <3>2
  <2>2. Tells(rec) = IF "pin" \in DOMAIN rec.patch THEN {"pin"} ELSE Updated(x)
    BY <1>5, <2>1 DEF Tells
  <2>3. "pin" \notin Updated(x)
    BY <1>1, Columns
  <2>. QED  BY <1>5, <1>6, <2>2, <2>3 DEF Suits
<1>11. \A f \in RowColumns \ Tells(rec) : f # "notes" => row[f] = cards[x][f]
  BY <1>3, <1>5, <1>10
<1>12. rec.old # <<>>
  BY <1>1, <1>5, NotEmpty
<1>. HIDE DEF x
<1>13. Writes(a, x, row, rec)
  BY <1>1, <1>3, <1>5, <1>7, <1>8, <1>9, <1>10, <1>11, <1>12
     DEF Writes, AtStage, limits, AdminIInv, AdminTypeInv, x
<1>. QED  BY <1>13, WritesHold

LEMMA AppendFacts ==
  ASSUME NEW log \in Seq(AuditRows), NEW row \in AuditRows
  PROVE  /\ Append(log, row) \in Seq(AuditRows) /\ Len(log) \in Nat
         /\ Len(Append(log, row)) = Len(log) + 1 /\ DOMAIN Append(log, row) = 1..(Len(log) + 1)
         /\ Append(log, row)[Len(log) + 1] = row /\ Append(log, row) # <<>>
         /\ DOMAIN log = 1..Len(log) /\ (log = <<>> <=> Len(log) = 0)
         /\ \A k \in 1..Len(log) : Append(log, row)[k] = log[k]
OBVIOUS

\* What the audit row of a request says of the columns it tells.
LEMMA ToldFacts ==
  ASSUME NEW j \in Jobs, JobOK(j), j.stage = "audit"
  PROVE  /\ [old |-> Told(j.old, Tells(j)), new |-> Told(j.new, Tells(j))] \in AuditRows
         /\ j.about \in Cards \cup {TheDoc} =>
              /\ DOMAIN Told(j.new, Tells(j)) = Tells(j)
              /\ \A f \in Tells(j) : Told(j.new, Tells(j))[f] = j.new[f]
              /\ \A f \in Tells(j) : j.old # <<>> => Told(j.old, Tells(j))[f] = j.old[f]
<1>1. Tells(j) \in SUBSET (DocColumns \cup RowColumns)
  <2>1. CASE j.about \in Cards
    <3>1. Tells(j) \in {{"name", "pin"}, {"name"}, {"pin"}, Updated(j.about)}
      BY DEF Tells
    <3>. QED  BY <2>1, <3>1, Columns DEF RowColumns
  <2>2. CASE j.about \notin Cards
    <3>1. Updated(j.about) \in {DocColumns, {}}
      BY <2>2, Columns DEF Updated
    <3>2. Tells(j) \in {{"pin"}, Updated(j.about)}
      BY <2>2 DEF Tells
    <3>. QED  BY <3>1, <3>2 DEF RowColumns
  <2>. QED  BY <2>1, <2>2
<1>2. [old |-> Told(j.old, Tells(j)), new |-> Told(j.new, Tells(j))] \in AuditRows
  <2>1. j.old \in Versions /\ j.new \in Versions
    BY DEF Jobs
  <2>2. Told(j.old, Tells(j)) \in Tellings /\ Told(j.new, Tells(j)) \in Tellings
    BY <1>1, <2>1 DEF Tellings
  <2>. QED  BY <2>2 DEF AuditRows
<1>3. ASSUME j.about \in Cards \cup {TheDoc}
      PROVE  /\ Tells(j) \subseteq DOMAIN j.new
             /\ j.old # <<>> => Tells(j) \subseteq DOMAIN j.old
  BY <1>3, TellsFacts
<1>. QED  BY <1>2, <1>3 DEF Told

LEMMA AppendTrailHolds ==
  ASSUME AdminIInv, NEW a \in Admins, AppendTrail(a)
  PROVE  AdminIInv'
<1>0. /\ job[a].stage = "audit" /\ job[a] \in Jobs /\ JobOK(job[a]) /\ job[a].about \in About
      /\ trail[job[a].about] \in Seq(AuditRows)
  BY DEF AppendTrail, AtStage, AdminIInv, AdminTypeInv, Jobs
<1>1. PICK x \in About : /\ x = job[a].about /\ trail[x] \in Seq(AuditRows)
                        /\ job[a].stage = "audit" /\ job[a] \in Jobs /\ JobOK(job[a])
  BY <1>0
<1>. DEFINE told == Tells(job[a])
            new == [old |-> Told(job[a].old, told), new |-> Told(job[a].new, told)]
            staffing == [Free EXCEPT !.stage = "staff"]
            rec == job'[a]
<1>2. /\ new \in AuditRows
      /\ x \in Cards \cup {TheDoc} =>
           /\ DOMAIN new.new = told /\ \A f \in told : new.new[f] = job[a].new[f]
           /\ \A f \in told : job[a].old # <<>> => new.old[f] = job[a].old[f]
           /\ told \subseteq ColumnsOf(x) /\ "notes" \notin told
  <2>1. new.new = Told(job[a].new, told) /\ new.old = Told(job[a].old, told)
    OBVIOUS
  <2>. QED  BY <1>1, <2>1, ToldFacts, TellsFacts
<1>3. /\ trail' = [trail EXCEPT ![x] = Append(trail[x], new)]
      /\ UNCHANGED <<doc, cache, cards, files, loaded, clock, limits>>
      /\ job' = [job EXCEPT ![a] = Free] \/ job' = [job EXCEPT ![a] = staffing]
  BY <1>1 DEF AppendTrail, Become
<1>. HIDE DEF new
<1>4. /\ staffing \in Jobs /\ staffing.stage = "staff" /\ staffing.about = TheDoc /\ staffing.since = 0
      /\ JobOK(staffing)
  <2>1. staffing \in Jobs /\ staffing.stage = "staff" /\ staffing.about = TheDoc /\ staffing.since = 0
    BY FreeFacts DEF Jobs, AdminStages, Refreshing
  <2>. QED  BY <2>1 DEF JobOK, DocStages, CardStages, Refreshing
<1>. HIDE DEF staffing
<1>5. /\ files # NoFiles /\ Restaffing(job[a]) => rec = staffing
      /\ files # NoFiles /\ Rekeying(job[a]) => rec = staffing
  BY <1>1, <1>3, RowNames DEF AppendTrail, Become, Restaffing, Rekeying, AdminIInv, AdminTypeInv, staffing
<1>6. /\ job' \in [Admins -> Jobs] /\ \A b \in Admins : JobOK(job[b])'
      /\ \A b \in Admins : job'[b] = IF b = a THEN rec ELSE job[b]
      /\ rec \in {Free, staffing}
  BY <1>3, <1>4, JobChanges, FreeFacts DEF AdminIInv, AdminTypeInv
<1>7. /\ rec.stage \in {"free", "staff"} /\ rec.about = TheDoc /\ rec.since = 0
  BY <1>4, <1>6, FreeFacts
<1>. HIDE DEF rec
<1>8. /\ trail' \in [About -> Seq(AuditRows)] /\ trail'[x] = Append(trail[x], new)
      /\ \A y \in About \ {x} : trail'[y] = trail[y]
  BY <1>1, <1>2, <1>3, AppendFacts DEF AdminIInv, AdminTypeInv
<1>9. AdminTypeInv'
  BY <1>3, <1>6, <1>8 DEF AdminIInv, AdminTypeInv, limits
<1>10. ReadsAge'
  BY <1>3, <1>6, <1>7 DEF AdminIInv, AdminTypeInv, ReadsAge, Querying, limits
<1>17. PICK last \in Nat : last = Len(trail[x]) + 1
  BY <1>1, AppendFacts, <1>2
<1>11. /\ last \in Nat /\ last \in DOMAIN trail'[x] /\ trail'[x][last] = new /\ trail'[x] # <<>>
       /\ DOMAIN trail'[x] = DOMAIN trail[x] \cup {last} /\ last \notin DOMAIN trail[x]
       /\ \A k \in DOMAIN trail[x] : k \in Nat /\ k < last /\ trail'[x][k] = trail[x][k]
  BY <1>1, <1>2, <1>8, <1>17, AppendFacts
<1>12. RowsBegin'
  <2>. SUFFICES ASSUME NEW y \in Cards
                PROVE  /\ \A k \in DOMAIN trail'[y] : "notes" \notin DOMAIN trail'[y][k].new
                       /\ cards[y] = NoRow =>
                            /\ trail'[y] = <<>>
                            /\ \A b \in Admins : job'[b].about = y => job'[b].stage \notin {"writeCard", "audit"}
    BY <1>3 DEF RowsBegin, AdminIInv
  <2>1. cards[y] = NoRow => y # x
    BY <1>1 DEF AdminIInv, RowsBegin
  <2>2. y # x => trail'[y] = trail[y]
    BY <1>8 DEF About
  <2>3. \A b \in Admins : job'[b].stage \in {"writeCard", "audit"} => job'[b] = job[b]
    BY <1>6, <1>7
  <2>4. \A k \in DOMAIN trail'[y] : "notes" \notin DOMAIN trail'[y][k].new
    <3>1. \A k \in DOMAIN trail[y] : "notes" \notin DOMAIN trail[y][k].new
      BY DEF AdminIInv, RowsBegin
    <3>2. CASE y = x
      BY <1>2, <1>11, <3>1, <3>2
    <3>. QED  BY <2>2, <3>1, <3>2
  <2>. QED  BY <2>1, <2>2, <2>3, <2>4 DEF AdminIInv, RowsBegin
<1>13. /\ \A y \in Cards \cup {TheDoc} : Now(y)' = Now(y)
       /\ \A y \in (Cards \cup {TheDoc}) \ {x} : Untouched(y)
  <2>1. \A y \in Cards \cup {TheDoc} : Now(y)' = Now(y)
    BY <1>3 DEF Now
  <2>2. \A y \in (Cards \cup {TheDoc}) \ {x} : trail'[y] = trail[y]
    BY <1>8 DEF About
  <2>3. ASSUME NEW y \in (Cards \cup {TheDoc}) \ {x}, NEW b \in Admins
        PROVE  /\ InHand(b, y)' <=> InHand(b, y)
               /\ InHand(b, y) => job'[b] = job[b]
    BY <1>1, <1>6, <1>7 DEF InHand
  <2>. QED  BY <2>1, <2>2, <2>3 DEF Untouched
<1>14. ASSUME x \in Cards \cup {TheDoc}
       PROVE  /\ \A columns : columns \subseteq told => Telling(x, columns)' = Telling(x, columns) \cup {last}
              /\ \A columns : ~(columns \subseteq told) => Telling(x, columns)' = Telling(x, columns)
              /\ \A columns : Hands(x, columns)' = Hands(x, columns) \ {a}
              /\ \A columns : a \in Hands(x, columns) <=> columns \subseteq told
  <2>1. \A columns : last \in Telling(x, columns)' <=> columns \subseteq told
    BY <1>2, <1>11, <1>14 DEF Telling
  <2>2. \A columns, k : k \in Telling(x, columns)' /\ k # last <=> k \in Telling(x, columns)
    BY <1>11 DEF Telling
  <2>3. \A columns : Hands(x, columns)' = Hands(x, columns) \ {a}
    <3>1. \A b \in Admins : InHand(b, x)' <=> InHand(b, x) /\ b # a
      BY <1>6, <1>7 DEF InHand
    <3>2. \A b \in Admins \ {a} : Tells(job'[b]) = Tells(job[b])
      BY <1>6
    <3>. QED  BY <3>1, <3>2 DEF Hands
  <2>4. \A columns : a \in Hands(x, columns) <=> columns \subseteq told
    BY <1>1 DEF Hands, InHand
  <2>5. \A columns : columns \subseteq told => Telling(x, columns)' = Telling(x, columns) \cup {last}
    <3>. SUFFICES ASSUME NEW columns, columns \subseteq told
                  PROVE  Telling(x, columns)' = Telling(x, columns) \cup {last}
      OBVIOUS
    <3>1. \A k : k \in Telling(x, columns)' <=> k \in Telling(x, columns) \/ k = last
      BY <2>1, <2>2
    <3>. QED  BY <3>1
  <2>6. \A columns : ~(columns \subseteq told) => Telling(x, columns)' = Telling(x, columns)
    <3>. SUFFICES ASSUME NEW columns, ~(columns \subseteq told)
                  PROVE  Telling(x, columns)' = Telling(x, columns)
      OBVIOUS
    <3>1. \A k : k \in Telling(x, columns)' <=> k \in Telling(x, columns)
      BY <2>1, <2>2
    <3>. QED  BY <3>1
  <2>. QED  BY <2>3, <2>4, <2>5, <2>6
<1>15. OnRecord'
  <2>1. ASSUME NEW y \in (Cards \cup {TheDoc}) \ {x}, y \notin halfDone PROVE Recorded(y)'
    BY <1>13, <2>1, UntouchedKeeps DEF AdminIInv, OnRecord
  <2>2. ASSUME x \in Cards \cup {TheDoc}, x \notin halfDone PROVE Recorded(x)'
    <3>1. /\ Pending(x) /\ Recorded(x) /\ Now(x)' = Now(x)
      BY <1>1, <1>13, <2>2 DEF Pending, AdminIInv, OnRecord
    <3>2. \A columns : OnFile(x, columns) => OnFile(x, columns)'
      <4>. SUFFICES ASSUME NEW columns, OnFile(x, columns) PROVE OnFile(x, columns)'
        OBVIOUS
      <4>1. PICK k \in Telling(x, columns) : Shows(x, k, columns)
        BY DEF OnFile
      <4>2. k \in Telling(x, columns)' /\ trail'[x][k] = trail[x][k]
        BY <1>11, <1>14, <2>2, <4>1 DEF Telling
      <4>. QED  BY <3>1, <4>1, <4>2 DEF OnFile, Shows
    <3>3. \A columns : AtHand(x, columns) => AtHand(x, columns)' \/ OnFile(x, columns)'
      <4>. SUFFICES ASSUME NEW columns, AtHand(x, columns) PROVE AtHand(x, columns)' \/ OnFile(x, columns)'
        OBVIOUS
      <4>1. PICK b \in Hands(x, columns) : \A f \in columns : job[b].new[f] = Now(x)[f]
        BY DEF AtHand
      <4>2. CASE b = a
        <5>1. columns \subseteq told /\ last \in Telling(x, columns)'
          BY <1>14, <2>2, <4>1, <4>2
        <5>2. Shows(x, last, columns)'
          BY <1>2, <1>11, <2>2, <3>1, <4>1, <4>2, <5>1 DEF Shows
        <5>. QED  BY <5>1, <5>2 DEF OnFile
      <4>3. CASE b # a
        <5>1. b \in Hands(x, columns)' /\ job'[b] = job[b]
          BY <1>6, <1>14, <2>2, <4>1, <4>3 DEF Hands
        <5>. QED  BY <3>1, <4>1, <5>1 DEF AtHand
      <4>. QED  BY <4>2, <4>3
    <3>4. Tellable(x)' = Tellable(x) /\ ColumnsOf(x)' = ColumnsOf(x) /\ MadeAs(x)' = MadeAs(x)
      BY DEF Tellable, ColumnsOf, Updated, MadeAs
    <3>5. ASSUME NEW columns \in Tellable(x), Telling(x, columns)' # {} \/ Hands(x, columns)' # {}
          PROVE  OnFile(x, columns)' \/ AtHand(x, columns)'
      <4>1. Telling(x, columns) # {} \/ Hands(x, columns) # {}
        BY <1>14, <2>2, <3>5
      <4>2. OnFile(x, columns) \/ AtHand(x, columns)
        BY <3>1, <4>1 DEF Recorded
      <4>. QED  BY <3>2, <3>3, <4>2
    <3>6. ASSUME NEW f \in ColumnsOf(x) \ Untold(x), Telling(x, {f})' = {}, Hands(x, {f})' = {}
          PROVE  Now(x)'[f] = MadeAs(x)[f]
      <4>1. ~({f} \subseteq told)
        <5>1. {f} \subseteq told => Telling(x, {f})' = Telling(x, {f}) \cup {last}
          BY <1>14, <2>2
        <5>. QED  BY <3>6, <5>1
      <4>3. /\ Telling(x, {f})' = Telling(x, {f}) /\ Hands(x, {f})' = Hands(x, {f}) \ {a}
            /\ a \notin Hands(x, {f})
        BY <1>14, <2>2, <4>1
      <4>2. Telling(x, {f}) = {} /\ Hands(x, {f}) = {}
        BY <3>6, <4>3
      <4>. QED  BY <3>1, <4>2 DEF Recorded
    <3>. QED  BY <1>11, <3>4, <3>5, <3>6 DEF Recorded
  <2>. QED  BY <1>3, <2>1, <2>2 DEF OnRecord, limits
<1>16. ASSUME ~meet' PROVE InOrder'
  <2>1. InOrder
    BY <1>3, <1>16 DEF AdminIInv, limits
  <2>2. AdminAlone' /\ \A b \in Admins \ {a} : job[b].stage = "free"
    BY <1>1, <1>6, <2>1, AloneStays DEF InOrder, AtStage
  <2>3. FollowsOn'
    <3>. SUFFICES ASSUME NEW y \in Cards \cup {TheDoc}, y \notin halfDone PROVE Followed(y)'
      BY <1>3 DEF FollowsOn, limits
    <3>1. Followed(y)
      BY <2>1 DEF InOrder, FollowsOn
    <3>2. \A b \in Admins : job'[b].stage \notin {"writeCard", "writeDoc", "invalidate", "audit"}
      BY <1>6, <1>7, <2>2
    <3>3. CASE y # x
      BY <1>13, <3>1, <3>2, <3>3, UntouchedKeeps
    <3>4. CASE y = x
      <4>1. /\ LogFollows(x) /\ job[a].new = Now(x) /\ (job[a].old = <<>> => trail[x] = <<>>)
            /\ \A f \in ColumnsOf(x), k \in DOMAIN trail[x] : Latest(x, f, k) =>
                 /\ job[a].old[f] = trail[x][k].new[f]
                 /\ f \notin told => job[a].new[f] = job[a].old[f]
        BY <1>1, <3>1, <3>4 DEF Followed, InHand, HandFollows
      <4>2. \A f : f \in told => Telling(x, {f})' = Telling(x, {f}) \cup {last}
        BY <1>14, <3>4
      <4>3. \A f : f \notin told => Telling(x, {f})' = Telling(x, {f})
        BY <1>14, <3>4
      <4>4. \A f : Telling(x, {f}) \subseteq DOMAIN trail[x]
        BY DEF Telling
      <4>5. ASSUME NEW f \in ColumnsOf(x), NEW k \in DOMAIN trail'[x], NEW l \in DOMAIN trail'[x],
                   InTurn(x, f, k, l)'
            PROVE  trail'[x][l].old[f] = trail'[x][k].new[f]
        <5>1. /\ k \in Telling(x, {f})' /\ l \in Telling(x, {f})' /\ k < l
              /\ \A i \in Telling(x, {f})' : i <= k \/ l <= i
          BY <4>5 DEF InTurn
        <5>2. k \in Telling(x, {f}) /\ k \in DOMAIN trail[x] /\ trail'[x][k] = trail[x][k]
          <6>1. k # last
            BY <1>11, <4>5, <5>1
          <6>2. k \in Telling(x, {f})
            <7>1. CASE f \in told
              BY <4>2, <5>1, <6>1, <7>1
            <7>2. CASE f \notin told
              BY <4>3, <5>1, <7>2
            <7>. QED  BY <7>1, <7>2
          <6>. QED  BY <1>11, <4>4, <6>2
        <5>3. CASE l = last
          <6>1. f \in told
            BY <1>11, <4>3, <4>4, <5>1, <5>3
          <6>2. Latest(x, f, k)
            <7>1. \A i \in Telling(x, {f}) : i \in DOMAIN trail[x] /\ i \in Telling(x, {f})'
              BY <4>2, <4>4, <6>1
            <7>2. \A i \in Telling(x, {f}) : i < last /\ i \in Nat
              BY <1>11, <7>1
            <7>3. \A i \in Telling(x, {f}) : i <= k
              <8>. SUFFICES ASSUME NEW i \in Telling(x, {f}) PROVE i <= k
                OBVIOUS
              <8>1. i <= k \/ last <= i
                BY <5>1, <5>3, <7>1
              <8>2. last \in Nat /\ i \in Nat /\ i < last
                BY <1>11, <7>2
              <8>. QED  BY ONLY <8>1, <8>2
            <7>. QED  BY <5>2, <7>3 DEF Latest
          <6>3. job[a].old # <<>>
            <7>1. DOMAIN <<>> = {}
              OBVIOUS
            <7>. QED  BY <4>1, <5>2, <7>1
          <6>. QED  BY <1>2, <1>11, <3>4, <4>1, <5>2, <5>3, <6>1, <6>2, <6>3
        <5>4. CASE l # last
          <6>1. l \in Telling(x, {f}) /\ l \in DOMAIN trail[x] /\ trail'[x][l] = trail[x][l]
            <7>1. CASE f \in told
              BY <1>11, <4>2, <4>4, <5>1, <5>4, <7>1
            <7>2. CASE f \notin told
              BY <1>11, <4>3, <4>4, <5>1, <5>4, <7>2
            <7>. QED  BY <7>1, <7>2
          <6>2. InTurn(x, f, k, l)
            BY <4>2, <4>3, <5>1, <5>2, <6>1 DEF InTurn
          <6>. QED  BY <4>1, <5>2, <6>1, <6>2 DEF LogFollows
        <5>. QED  BY <5>3, <5>4
      <4>6. ASSUME NEW f \in ColumnsOf(x), NEW k \in DOMAIN trail'[x], Latest(x, f, k)'
            PROVE  trail'[x][k].new[f] = Now(x)[f]
        <5>1. k \in Telling(x, {f})' /\ \A l \in Telling(x, {f})' : l <= k
          BY <4>6 DEF Latest
        <5>2. CASE f \in told
          <6>1. k = last
            <7>1. last <= k
              BY <4>2, <5>1, <5>2
            <7>. QED  BY <1>11, <4>6, <7>1
          <6>. QED  BY <1>2, <1>11, <3>4, <4>1, <5>2, <6>1
        <5>3. CASE f \notin told
          <6>1. Latest(x, f, k) /\ k \in DOMAIN trail[x] /\ trail'[x][k] = trail[x][k]
            BY <1>11, <4>3, <4>4, <5>1, <5>3 DEF Latest
          <6>. QED  BY <4>1, <5>3, <6>1
        <5>. QED  BY <5>2, <5>3
      <4>7. ColumnsOf(x)' = ColumnsOf(x) /\ Now(x)' = Now(x)
        BY <1>13, <3>4 DEF ColumnsOf
      <4>8. LogFollows(x)'
        BY <4>5, <4>7 DEF LogFollows
      <4>9. LogCurrent(x)'
        BY <4>6, <4>7 DEF LogCurrent
      <4>. QED  BY <3>2, <3>4, <4>8, <4>9 DEF Followed, InHand
    <3>. QED  BY <3>3, <3>4
  <2>4. DocCurrent'
    BY <1>1, <1>3, <1>6, <1>7, <2>1 DEF InOrder, DocCurrent, AtStage, limits
  <2>5. Active' = Active
    BY <1>3 DEF Active
  <2>6. ScriptsFollow'
    <3>1. staffing.stage = "staff" => Restaffing(staffing)
      BY DEF Restaffing
    <3>. QED  BY <1>1, <1>3, <1>4, <1>5, <1>6, <1>7, <2>1, <2>2, <2>5, <3>1 DEF InOrder, ScriptsFollow, AtStage, limits
  <2>7. KeyFollows'
    <3>1. staffing.stage = "staff" => Rekeying(staffing)
      BY DEF Rekeying
    <3>. QED  BY <1>1, <1>3, <1>4, <1>5, <1>6, <1>7, <2>1, <2>2, <3>1 DEF InOrder, KeyFollows, AtStage, limits
  <2>. QED  BY <1>3, <2>1, <2>2, <2>3, <2>4, <2>6, <2>7 DEF InOrder, Halves, limits
<1>. QED  BY <1>9, <1>10, <1>12, <1>15, <1>16 DEF AdminIInv

\* Writing and reloading the files has no say in what is on record.
Refreshes(a, rec) ==
  /\ job' = [job EXCEPT ![a] = rec] /\ rec \in Jobs /\ JobOK(rec)
  /\ job[a].stage \in Refreshing
  /\ rec.stage \in Refreshing \cup {"free", "audit"} /\ (rec.stage = "audit" => rec.about = Installing)
  /\ UNCHANGED <<doc, cards, trail, clock, meet, wanted, changedAt, writes>>
  /\ halfDone \subseteq halfDone'

LEMMA RefreshesKeep ==
  ASSUME AdminIInv, NEW a \in Admins, NEW rec, Refreshes(a, rec)
  PROVE  /\ job' \in [Admins -> Jobs] /\ \A b \in Admins : JobOK(job[b])'
         /\ \A b \in Admins : job'[b] = IF b = a THEN rec ELSE job[b]
         /\ RowsBegin' /\ OnRecord' /\ Active' = Active
         /\ ~meet => /\ AdminAlone' /\ FollowsOn'
                     /\ \A b \in Admins \ {a} : job[b].stage = "free"
<1>1. /\ job' \in [Admins -> Jobs] /\ \A b \in Admins : JobOK(job[b])'
      /\ \A b \in Admins : job'[b] = IF b = a THEN rec ELSE job[b]
  BY JobChanges DEF AdminIInv, Refreshes
<1>2. /\ job[a].stage \notin {"free", "writeCard", "writeDoc", "invalidate", "audit"}
      /\ rec.stage \notin {"writeCard", "writeDoc", "invalidate"}
      /\ rec.stage = "audit" => rec.about \notin Cards \cup {TheDoc}
  BY RowNames DEF Refreshes, Refreshing
<1>3. RowsBegin'
  BY <1>1, <1>2 DEF AdminIInv, RowsBegin, Refreshes
<1>4. \A x \in Cards \cup {TheDoc} : Untouched(x)
  BY <1>1, <1>2 DEF Untouched, InHand, Now, Refreshes
<1>5. OnRecord'
  BY <1>4, UntouchedKeeps DEF AdminIInv, OnRecord, Refreshes
<1>6. Active' = Active
  BY DEF Active, Refreshes
<1>7. ASSUME ~meet PROVE AdminAlone' /\ FollowsOn' /\ \A b \in Admins \ {a} : job[b].stage = "free"
  <2>1. InOrder
    BY <1>7 DEF AdminIInv
  <2>2. AdminAlone' /\ \A b \in Admins \ {a} : job[b].stage = "free"
    BY <1>1, <1>2, <2>1, AloneStays DEF InOrder, AtStage
  <2>3. FollowsOn'
    <3>. SUFFICES ASSUME NEW x \in Cards \cup {TheDoc}, x \notin halfDone PROVE Followed(x)'
      BY DEF FollowsOn, Refreshes
    <3>1. Followed(x)
      BY <2>1 DEF InOrder, FollowsOn
    <3>2. \A b \in Admins : job'[b].stage \notin {"writeCard", "writeDoc"}
      BY <1>1, <1>2, <2>2
    <3>. QED  BY <1>4, <3>1, <3>2, UntouchedKeeps
  <2>. QED  BY <2>2, <2>3
<1>. QED  BY <1>1, <1>3, <1>5, <1>6, <1>7

LEMMA WriteScriptsHolds ==
  ASSUME AdminIInv, NEW a \in Admins, WriteScripts(a)
  PROVE  AdminIInv'
<1>. DEFINE changed == {f \in {"scripts"} : files.scripts # job[a].new}
            withKey == {f \in {"key"} : files.key # cache.doc.key}
            now == [job[a] EXCEPT !.stage = "reload", !.reload = changed \cup withKey]
            later == [job[a] EXCEPT !.stage = "selectKey", !.reload = changed, !.since = clock]
            rec == IF IsFresh THEN now ELSE later
            both == [scripts |-> job[a].new, key |-> cache.doc.key]
            one == [files EXCEPT !.scripts = job[a].new]
<1>1. /\ job[a].stage = "scripts" /\ job[a] \in Jobs /\ JobOK(job[a]) /\ job[a].new \in SUBSET Cards
      /\ job[a].about \in {TheDoc, Installing} /\ cache.doc \in Docs /\ clock \in Nat
      /\ files \in Files /\ cache.doc.key \in Nat /\ job[a].since <= clock
  BY DEF WriteScripts, AtStage, AdminIInv, AdminTypeInv, JobOK, Refreshing, Docs, ReadsAge
<1>2. /\ job' = [job EXCEPT ![a] = rec] /\ files' = IF IsFresh THEN both ELSE one
      /\ UNCHANGED <<doc, cache, cards, trail, loaded, clock, limits>>
  BY DEF WriteScripts, Become
<1>3. /\ changed \subseteq {"scripts"} /\ withKey \subseteq {"key"}
      /\ "scripts" \in changed <=> files.scripts # job[a].new
      /\ "key" \in withKey <=> files.key # cache.doc.key
  OBVIOUS
<1>. HIDE DEF changed, withKey
<1>4. /\ rec \in Jobs /\ rec.stage = (IF IsFresh THEN "reload" ELSE "selectKey")
      /\ rec.reload = (IF IsFresh THEN changed \cup withKey ELSE changed)
      /\ rec.about = job[a].about
      /\ rec.since = (IF IsFresh THEN job[a].since ELSE clock)
  <2>1. now \in Jobs /\ later \in Jobs
    BY <1>1, <1>3 DEF Jobs, AdminStages, Refreshing
  <2>. QED  BY <1>1, <2>1 DEF Jobs
<1>5. JobOK(rec)
  BY <1>1, <1>4 DEF JobOK, Suits, DocStages, CardStages, Refreshing
<1>6. /\ files' \in Files /\ files'.scripts = job[a].new
      /\ files'.key = IF IsFresh THEN cache.doc.key ELSE files.key
  BY <1>1, <1>2 DEF Files
<1>. HIDE DEF rec, both, one
<1>7. Refreshes(a, rec)
  BY <1>1, <1>2, <1>4, <1>5 DEF Refreshes, Refreshing, limits
<1>8. /\ job' \in [Admins -> Jobs] /\ \A b \in Admins : JobOK(job[b])'
      /\ \A b \in Admins : job'[b] = IF b = a THEN rec ELSE job[b]
      /\ RowsBegin' /\ OnRecord' /\ Active' = Active
      /\ ~meet => /\ AdminAlone' /\ FollowsOn'
                  /\ \A b \in Admins \ {a} : job[b].stage = "free"
  BY <1>7, RefreshesKeep
<1>9. AdminTypeInv'
  BY <1>2, <1>6, <1>8 DEF AdminIInv, AdminTypeInv, limits
<1>10. ReadsAge'
  BY <1>1, <1>2, <1>4, <1>8, TimesAssumption DEF AdminIInv, AdminTypeInv, ReadsAge, Querying, limits
<1>11. ASSUME ~meet' PROVE InOrder'
  <2>1. ~meet /\ InOrder
    BY <1>2, <1>11 DEF AdminIInv, limits
  <2>2. DocCurrent'
    BY <1>1, <1>2, <1>4, <1>8, <2>1 DEF InOrder, DocCurrent, AtStage, limits
  <2>3. ScriptsFollow'
    <3>1. "scripts" \notin halfDone => loaded.scripts = files.scripts /\ job[a].new = Active
      BY <1>1, <1>8, <2>1 DEF InOrder, ScriptsFollow, AtStage
    <3>. QED  BY <1>2, <1>3, <1>4, <1>6, <1>8, <2>1, <3>1 DEF InOrder, ScriptsFollow, AtStage, limits
  <2>4. KeyFollows'
    <3>1. "key" \notin halfDone => loaded.key = files.key
      BY <1>1, <1>8, <2>1 DEF InOrder, KeyFollows, AtStage
    <3>2. "key" \notin halfDone /\ IsFresh => cache.doc = doc
      BY <1>1, <1>8, <2>1 DEF InOrder, DocCurrent, Halves, AtStage, IsFresh
    <3>3. ~IsFresh => Rekeying(rec)
      BY <1>4 DEF Rekeying
    <3>. QED  BY <1>2, <1>3, <1>4, <1>6, <1>8, <2>1, <3>1, <3>2, <3>3 DEF InOrder, KeyFollows, AtStage, limits
  <2>. QED  BY <1>2, <1>8, <2>1, <2>2, <2>3, <2>4 DEF InOrder, Halves, limits
<1>. QED  BY <1>8, <1>9, <1>10, <1>11 DEF AdminIInv

LEMMA WriteHandlersHolds ==
  ASSUME AdminIInv, NEW a \in Admins, WriteHandlers(a)
  PROVE  AdminIInv'
<1>. DEFINE changed == {f \in {"key"} : files.key # job[a].old.key}
            rec == [job[a] EXCEPT !.stage = "reload", !.reload = job[a].reload \cup changed]
<1>1. /\ job[a].stage = "handlers" /\ job[a] \in Jobs /\ JobOK(job[a]) /\ job[a].old \in Docs
      /\ job[a].about \in {TheDoc, Installing} /\ clock \in Nat /\ job[a].old.key \in Nat
      /\ files \in Files /\ job[a].since \in Nat /\ changedAt \in Nat
      /\ clock - job[a].since <= QueryTime /\ (job[a].old # doc => job[a].since <= changedAt)
  BY DEF WriteHandlers, AtStage, AdminIInv, AdminTypeInv, JobOK, Refreshing, Docs, ReadsAge, Querying, Jobs
<1>2. /\ job' = [job EXCEPT ![a] = rec] /\ files' = [files EXCEPT !.key = job[a].old.key]
      /\ cache' = [doc |-> job[a].old, at |-> clock]
      /\ UNCHANGED <<doc, cards, trail, loaded, clock, limits>>
  BY DEF WriteHandlers, FillCache, Become
<1>3. changed \subseteq {"key"} /\ ("key" \in changed <=> files.key # job[a].old.key)
  OBVIOUS
<1>. HIDE DEF changed
<1>4. /\ rec \in Jobs /\ rec.stage = "reload" /\ rec.reload = job[a].reload \cup changed
      /\ rec.about = job[a].about /\ rec.since = job[a].since
  BY <1>1, <1>3 DEF Jobs, AdminStages, Refreshing
<1>5. JobOK(rec)
  BY <1>1, <1>4 DEF JobOK, Suits, DocStages, CardStages, Refreshing
<1>6. files' \in Files /\ files'.scripts = files.scripts /\ files'.key = job[a].old.key
  BY <1>1, <1>2 DEF Files
<1>. HIDE DEF rec
<1>7. Refreshes(a, rec)
  BY <1>1, <1>2, <1>4, <1>5 DEF Refreshes, Refreshing, limits
<1>8. /\ job' \in [Admins -> Jobs] /\ \A b \in Admins : JobOK(job[b])'
      /\ \A b \in Admins : job'[b] = IF b = a THEN rec ELSE job[b]
      /\ RowsBegin' /\ OnRecord' /\ Active' = Active
      /\ ~meet => /\ AdminAlone' /\ FollowsOn'
                  /\ \A b \in Admins \ {a} : job[b].stage = "free"
  BY <1>7, RefreshesKeep
<1>9. AdminTypeInv'
  BY <1>1, <1>2, <1>6, <1>8 DEF AdminIInv, AdminTypeInv, limits
<1>10. ReadsAge'
  <2>1. job[a].old # doc => clock - changedAt <= QueryTime
    BY <1>1, TimesAssumption
  <2>2. cache'.doc = job[a].old /\ cache'.at = clock /\ cache'.at <= clock
    BY <1>1, <1>2
  <2>. QED  BY <1>2, <1>4, <1>8, <2>1, <2>2 DEF AdminIInv, ReadsAge, Querying, limits
<1>11. ASSUME ~meet' PROVE InOrder'
  <2>1. ~meet /\ InOrder
    BY <1>2, <1>11 DEF AdminIInv, limits
  <2>2. DocCurrent'
    BY <1>1, <1>2, <1>4, <1>8, <2>1 DEF InOrder, DocCurrent, AtStage, limits
  <2>3. ScriptsFollow'
    <3>1. "scripts" \notin halfDone =>
            /\ loaded.scripts # files.scripts => "scripts" \in job[a].reload
            /\ files.scripts = Active
      BY <1>1, <1>8, <2>1 DEF InOrder, ScriptsFollow, AtStage
    <3>. QED  BY <1>2, <1>3, <1>4, <1>6, <1>8, <2>1, <3>1 DEF InOrder, ScriptsFollow, AtStage, limits
  <2>4. KeyFollows'
    <3>1. "key" \notin halfDone => loaded.key = files.key
      BY <1>1, <1>8, <2>1 DEF InOrder, KeyFollows, AtStage
    <3>2. "key" \notin halfDone => job[a].old = doc
      BY <1>1, <2>1 DEF InOrder, DocCurrent, Halves
    <3>. QED  BY <1>2, <1>3, <1>4, <1>6, <1>8, <2>1, <3>1, <3>2 DEF InOrder, KeyFollows, AtStage, limits
  <2>. QED  BY <1>2, <1>8, <2>1, <2>2, <2>3, <2>4 DEF InOrder, Halves, limits
<1>. QED  BY <1>8, <1>9, <1>10, <1>11 DEF AdminIInv

LEMMA ReloadHolds ==
  ASSUME AdminIInv, NEW a \in Admins, NEW ok \in BOOLEAN, ReloadNext(a, ok)
  PROVE  AdminIInv'
<1>1. /\ job[a].stage = "reload" /\ job[a] \in Jobs /\ JobOK(job[a])
      /\ job[a].about \in {TheDoc, Installing} /\ loaded \in Files /\ files \in Files
      /\ job[a].since \in Nat /\ job[a].since <= clock /\ job[a].reload \in SUBSET {"scripts", "key"}
      /\ clock \in Nat
  BY DEF ReloadNext, AtStage, AdminIInv, AdminTypeInv, JobOK, Refreshing, ReadsAge, Jobs
<1>2. UNCHANGED <<doc, cache, cards, trail, files, clock, meet, wanted, changedAt, writes>>
  BY DEF ReloadNext
<1>3. PICK rec : /\ Refreshes(a, rec) /\ rec.since <= clock /\ rec.stage \in {"free", "audit", "reload"}
                 /\ loaded' \in Files /\ faults' \in Nat
                 /\ TheDoc \in halfDone' => TheDoc \in halfDone
                 /\ loaded'.scripts = loaded.scripts \/ loaded'.scripts = files.scripts
                 /\ loaded'.key = loaded.key \/ loaded'.key = files.key
                 /\ "scripts" \in job[a].reload =>
                      \/ rec.stage = "reload" /\ "scripts" \in rec.reload
                      \/ loaded'.scripts = files.scripts \/ "scripts" \in halfDone'
                 /\ "key" \in job[a].reload =>
                      \/ rec.stage = "reload" /\ "key" \in rec.reload
                      \/ loaded'.key = files.key \/ "key" \in halfDone'
  <2>1. CASE job[a].reload = {}
    <3>. DEFINE over == [Free EXCEPT !.stage = "audit", !.about = Installing]
                rec == IF job[a].about = Installing THEN over ELSE Free
    <3>1. over \in Jobs /\ over.stage = "audit" /\ over.about = Installing /\ over.since = 0
      BY FreeFacts DEF Jobs, AdminStages, About
    <3>2. JobOK(over)
      BY <3>1, RowNames DEF JobOK, DocStages, CardStages, Refreshing
    <3>3. job' = [job EXCEPT ![a] = rec] /\ UNCHANGED <<loaded, faults, halfDone>>
      BY <2>1 DEF ReloadNext, Proceed, Become
    <3>. HIDE DEF over
    <3>4. /\ rec \in Jobs /\ JobOK(rec) /\ rec.stage \in {"free", "audit"} /\ rec.since <= clock
          /\ rec.stage = "audit" => rec.about = Installing
      BY <1>1, <3>1, <3>2, FreeFacts
    <3>. HIDE DEF rec
    <3>5. Refreshes(a, rec)
      BY <1>1, <1>2, <3>3, <3>4 DEF Refreshes, Refreshing
    <3>. QED  BY <1>1, <2>1, <3>3, <3>4, <3>5 DEF AdminIInv, AdminTypeInv
  <2>2. CASE job[a].reload # {}
    <3>. DEFINE f == IF "scripts" \in job[a].reload THEN "scripts" ELSE "key"
                rec == [job[a] EXCEPT !.reload = job[a].reload \ {f}]
    <3>1. /\ job' = [job EXCEPT ![a] = rec]
          /\ \/ loaded' = [loaded EXCEPT ![f] = files[f]] /\ UNCHANGED <<faults, halfDone>>
             \/ faults' = faults + 1 /\ halfDone' = halfDone \cup {f} /\ UNCHANGED loaded
      BY <2>2 DEF ReloadNext, Become
    <3>2. f \in {"scripts", "key"} /\ f # TheDoc
      BY DEF TheDoc
    <3>3. /\ rec \in Jobs /\ rec.stage = "reload" /\ rec.about = job[a].about /\ rec.since = job[a].since
          /\ rec.reload = job[a].reload \ {f}
      BY <1>1 DEF Jobs
    <3>4. JobOK(rec)
      BY <1>1, <3>3 DEF JobOK, Suits, DocStages, CardStages, Refreshing
    <3>5. /\ loaded' \in Files /\ faults' \in Nat /\ halfDone \subseteq halfDone'
          /\ f = "scripts" => loaded'.key = loaded.key
          /\ f = "key" => loaded'.scripts = loaded.scripts
          /\ \/ loaded'[f] = files[f] /\ halfDone' = halfDone
             \/ loaded'[f] = loaded[f] /\ halfDone' = halfDone \cup {f}
      <4>. HIDE DEF f
      <4>1. CASE f = "scripts"
        BY <1>1, <3>1, <4>1 DEF Files, AdminIInv, AdminTypeInv
      <4>2. CASE f = "key"
        <5>1. faults \in Nat /\ loaded = [scripts |-> loaded.scripts, key |-> loaded.key]
          BY <1>1 DEF Files, AdminIInv, AdminTypeInv
        <5>2. files.key \in Nat
          BY <1>1 DEF Files
        <5>3. CASE loaded' = [loaded EXCEPT !["key"] = files["key"]] /\ UNCHANGED <<faults, halfDone>>
          BY <1>1, <4>2, <5>1, <5>2, <5>3 DEF Files
        <5>4. CASE faults' = faults + 1 /\ halfDone' = halfDone \cup {f} /\ UNCHANGED loaded
          BY <1>1, <4>2, <5>1, <5>4 DEF Files
        <5>. QED  BY <3>1, <4>2, <5>3, <5>4
      <4>. QED  BY <3>2, <4>1, <4>2
    <3>. HIDE DEF rec
    <3>6. Refreshes(a, rec)
      BY <1>1, <1>2, <3>1, <3>3, <3>4, <3>5 DEF Refreshes, Refreshing
    <3>7. CASE f = "scripts"
      BY <1>1, <3>2, <3>3, <3>5, <3>6, <3>7
    <3>8. CASE f = "key"
      BY <1>1, <3>2, <3>3, <3>5, <3>6, <3>8
    <3>. QED  BY <3>2, <3>7, <3>8
  <2>. QED  BY <2>1, <2>2
<1>4. /\ job' \in [Admins -> Jobs] /\ \A b \in Admins : JobOK(job[b])'
      /\ \A b \in Admins : job'[b] = IF b = a THEN rec ELSE job[b]
      /\ RowsBegin' /\ OnRecord' /\ Active' = Active
      /\ ~meet => /\ AdminAlone' /\ FollowsOn'
                  /\ \A b \in Admins \ {a} : job[b].stage = "free"
  BY <1>3, RefreshesKeep
<1>5. AdminTypeInv'
  BY <1>2, <1>3, <1>4 DEF AdminIInv, AdminTypeInv
<1>6. ReadsAge'
  BY <1>2, <1>3, <1>4 DEF AdminIInv, ReadsAge, Querying
<1>7. ASSUME ~meet' PROVE InOrder'
  <2>1. ~meet /\ InOrder /\ halfDone \subseteq halfDone'
    BY <1>2, <1>3, <1>7 DEF AdminIInv, Refreshes
  <2>2. DocCurrent'
    BY <1>1, <1>2, <1>3, <1>4, <2>1 DEF InOrder, DocCurrent, AtStage
  <2>3. ScriptsFollow'
    <3>1. ~Restaffing(job[a])
      BY <1>1 DEF Restaffing
    <3>. QED  BY <1>1, <1>2, <1>3, <1>4, <2>1, <3>1 DEF InOrder, ScriptsFollow, AtStage
  <2>4. KeyFollows'
    <3>1. ~Rekeying(job[a])
      BY <1>1 DEF Rekeying
    <3>. QED  BY <1>1, <1>2, <1>3, <1>4, <2>1, <3>1 DEF InOrder, KeyFollows, AtStage
  <2>. QED  BY <1>3, <1>4, <2>1, <2>2, <2>3, <2>4 DEF InOrder, Halves
<1>. QED  BY <1>4, <1>5, <1>6, <1>7 DEF AdminIInv

\* A request that fails, or is cut short by a restart, leaves what it was about half done.
LEMMA FailureHolds ==
  ASSUME AdminIInv, NEW a \in Admins, NEW restart \in BOOLEAN, AdminFails(a, restart)
  PROVE  AdminIInv'
<1>1. /\ ~meet /\ job[a].stage # "free" /\ job' = [job EXCEPT ![a] = Free]
      /\ faults' = faults + 1 /\ halfDone' = halfDone \cup {job[a].about, "scripts", "key"}
      /\ cache' = IF restart THEN NoCache ELSE cache
      /\ UNCHANGED <<doc, cards, trail, files, loaded, clock, meet, wanted, changedAt, writes>>
      /\ job[a] \in Jobs /\ JobOK(job[a])
  BY DEF AdminFails, AtStage, Become, AdminIInv, AdminTypeInv
<1>2. /\ job' \in [Admins -> Jobs] /\ \A b \in Admins : JobOK(job[b])'
      /\ \A b \in Admins : job'[b] = IF b = a THEN Free ELSE job[b]
  BY <1>1, JobChanges, FreeFacts DEF AdminIInv
<1>3. InOrder /\ AdminAlone' /\ \A b \in Admins \ {a} : job[b].stage = "free"
  BY <1>1, <1>2, AloneStays DEF AdminIInv, InOrder, AtStage
<1>4. \A b \in Admins : job'[b].stage = "free"
  BY <1>2, <1>3, FreeFacts
<1>5. NoCache \in [doc : Docs, at : Nat \cup {-1}] /\ NoCache.at = -1
  BY DEF NoCache, Docs
<1>6. /\ cache' \in [doc : Docs, at : Nat \cup {-1}] /\ (cache' = cache \/ cache'.at = -1)
  BY <1>1, <1>5 DEF AdminIInv, AdminTypeInv
<1>7. AdminTypeInv'
  BY <1>1, <1>2, <1>6 DEF AdminIInv, AdminTypeInv
<1>8. ReadsAge'
  BY <1>1, <1>2, <1>4, <1>6, FreeFacts DEF AdminIInv, AdminTypeInv, ReadsAge, Querying
<1>9. RowsBegin'
  BY <1>1, <1>4 DEF AdminIInv, RowsBegin
<1>10. \A x \in (Cards \cup {TheDoc}) \ halfDone' : x \notin halfDone /\ Untouched(x)
  <2>1. \A x \in Cards \cup {TheDoc} : trail'[x] = trail[x] /\ Now(x)' = Now(x)
    BY <1>1 DEF Now
  <2>2. ASSUME NEW x \in (Cards \cup {TheDoc}) \ halfDone', NEW b \in Admins PROVE ~InHand(b, x) /\ ~InHand(b, x)'
    BY <1>1, <1>3, <1>4 DEF InHand
  <2>. QED  BY <1>1, <2>1, <2>2 DEF Untouched
<1>11. OnRecord'
  BY <1>10, UntouchedKeeps DEF AdminIInv, OnRecord
<1>12. FollowsOn'
  BY <1>3, <1>4, <1>10, UntouchedKeeps DEF InOrder, FollowsOn
<1>13. DocCurrent'
  <2>1. TheDoc \notin halfDone' => TheDoc \notin halfDone /\ job[a].about # TheDoc
    BY <1>1
  <2>2. TheDoc \notin halfDone' => \A b \in Admins : ~AtStage(b, "invalidate")
    BY <1>1, <1>3, <2>1 DEF JobOK, DocStages, AtStage
  <2>. QED  BY <1>1, <1>3, <1>4, <1>6, <2>1, <2>2 DEF InOrder, DocCurrent, AtStage
<1>14. ScriptsFollow' /\ KeyFollows' /\ Halves'
  BY <1>1 DEF ScriptsFollow, KeyFollows, Halves
<1>. QED  BY <1>3, <1>7, <1>8, <1>9, <1>11, <1>12, <1>13, <1>14 DEF AdminIInv, InOrder

\* A step that changes nothing but the clock.
LEMMA AllUntouched ==
  ASSUME AdminIInv, UNCHANGED <<doc, cache, cards, trail, files, loaded, job, limits>>
  PROVE  RowsBegin' /\ OnRecord' /\ (~meet => InOrder')
<1>1. \A x \in Cards \cup {TheDoc} : Untouched(x)
  BY DEF Untouched, InHand, Now
<1>2. RowsBegin'
  BY DEF AdminIInv, RowsBegin
<1>3. OnRecord'
  BY <1>1, UntouchedKeeps DEF AdminIInv, OnRecord, limits
<1>4. ASSUME ~meet PROVE InOrder'
  <2>1. InOrder
    BY <1>4 DEF AdminIInv
  <2>2. FollowsOn'
    <3>. SUFFICES ASSUME NEW x \in Cards \cup {TheDoc}, x \notin halfDone PROVE Followed(x)'
      BY DEF FollowsOn, limits
    <3>1. Followed(x)
      BY <2>1 DEF InOrder, FollowsOn
    <3>2. \A b \in Admins :
            job'[b].about = x /\ job'[b].stage \in {"writeCard", "writeDoc"} => job'[b].old = Now(x)
      BY <3>1 DEF Followed
    <3>. QED  BY <1>1, <3>1, <3>2, UntouchedKeeps
  <2>3. AdminAlone' /\ DocCurrent' /\ ScriptsFollow' /\ KeyFollows' /\ Halves'
    BY <2>1 DEF InOrder, AdminAlone, AtStage, DocCurrent, ScriptsFollow, KeyFollows, Active, Restaffing,
         Rekeying, Halves, limits
  <2>. QED  BY <2>2, <2>3 DEF InOrder
<1>. QED  BY <1>2, <1>3, <1>4

LEMMA TickHolds ==
  ASSUME AdminIInv, ClockTick
  PROVE  AdminIInv'
<1>1. /\ clock' = clock + 1 /\ UNCHANGED <<doc, cache, cards, trail, files, loaded, job, limits>>
      /\ \A a \in Admins : job[a].stage \in Querying => clock - job[a].since < QueryTime
      /\ clock \in Nat /\ changedAt \in Nat /\ cache.at \in Nat \cup {-1}
      /\ \A a \in Admins : job[a].since \in Nat
  BY DEF ClockTick, state, Querying, AdminIInv, AdminTypeInv, Jobs
<1>2. AdminTypeInv'
  BY <1>1 DEF AdminIInv, AdminTypeInv, limits, JobOK
<1>3. ReadsAge'
  BY <1>1, TimesAssumption DEF AdminIInv, ReadsAge, limits
<1>4. UNCHANGED <<doc, cache, cards, trail, files, loaded, job, limits>>
  BY <1>1
<1>. QED  BY <1>2, <1>3, <1>4, AllUntouched DEF AdminIInv, limits

LEMMA AdminInitHolds == AdminInit => AdminIInv
<1>. SUFFICES ASSUME AdminInit PROVE AdminIInv
  OBVIOUS
<1>1. /\ FirstDoc \in Docs /\ NoCache \in [doc : Docs, at : Nat \cup {-1}] /\ NoCache.at = -1
      /\ NoFiles \in Files
  BY DEF FirstDoc, NoCache, Docs, NoFiles, Files
<1>2. /\ NewRow \in Rows /\ NoRow \in Rows /\ NewRow.name = 1 /\ NoRow.name = 0
  BY DEF NewRow, NoRow, Rows
<1>3. \A x \in Cards : FirstRow(x) \in Rows
  BY <1>2 DEF FirstRow
<1>15. DOMAIN <<>> = {}
  OBVIOUS
<1>4. /\ doc = FirstDoc /\ wanted = doc /\ cache = NoCache /\ clock = 0 /\ changedAt = 0
      /\ cards = [x \in Cards |-> FirstRow(x)] /\ trail = [x \in About |-> <<>>]
      /\ files = NoFiles /\ loaded = NoFiles /\ job = [a \in Admins |-> Free]
      /\ meet \in BOOLEAN /\ writes = 0 /\ faults = 0
  BY DEF AdminInit, About
<1>5. AdminTypeInv
  <2>1. trail \in [About -> Seq(AuditRows)]
    BY <1>4
  <2>. QED  BY <1>1, <1>3, <1>4, <2>1, FreeFacts DEF AdminTypeInv
<1>6. \A a \in Admins : job[a] = Free
  BY <1>4
<1>7. \A x \in Cards \cup {TheDoc} : trail[x] = <<>> /\ ~Pending(x) /\ Now(x) = Before(x)
  BY <1>4, <1>6, FreeFacts DEF Now, Before, Pending, About
<1>8. ReadsAge
  BY <1>1, <1>4, <1>6, FreeFacts DEF ReadsAge, Querying
<1>9. RowsBegin
  <2>1. NewRow # NoRow
    BY <1>2
  <2>. QED  BY <1>2, <1>4, <1>6, <1>7, <1>15, <2>1, FreeFacts DEF RowsBegin, FirstRow
<1>10. OnRecord
  BY <1>7 DEF OnRecord, Recorded
<1>11. AdminAlone /\ FollowsOn
  <2>1. \A x \in Cards \cup {TheDoc} : LogFollows(x) /\ LogCurrent(x)
    BY <1>7, <1>15 DEF LogFollows, LogCurrent
  <2>. QED  BY <1>6, <2>1, FreeFacts DEF AdminAlone, AtStage, FollowsOn, Followed, InHand
<1>12. DocCurrent
  BY <1>1, <1>4, <1>6, FreeFacts DEF DocCurrent, AtStage
<1>13. ScriptsFollow /\ KeyFollows
  BY <1>4, <1>6, FreeFacts DEF ScriptsFollow, KeyFollows, AtStage
<1>14. Halves
  BY DEF Halves, AdminInit
<1>. QED  BY <1>5, <1>8, <1>9, <1>10, <1>11, <1>12, <1>13, <1>14 DEF AdminIInv, InOrder

LEMMA AdminStepHolds == AdminIInv /\ [AdminNext]_adminVars => AdminIInv'
<1>. SUFFICES ASSUME AdminIInv, [AdminNext]_adminVars PROVE AdminIInv'
  OBVIOUS
<1>1. CASE UNCHANGED adminVars
  <2>1. UNCHANGED <<doc, cache, cards, trail, files, loaded, job, limits>> /\ clock' = clock
    BY <1>1 DEF adminVars, limits
  <2>2. AdminTypeInv' /\ ReadsAge' /\ meet' = meet
    BY <2>1 DEF AdminIInv, AdminTypeInv, JobOK, ReadsAge, limits
  <2>. QED  BY <2>1, <2>2, AllUntouched DEF AdminIInv
<1>2. CASE ClockTick
  BY <1>2, TickHolds
<1>3. ASSUME NEW a \in Admins, AdminStep(a) PROVE AdminIInv'
  BY <1>3, QueriesHold, KeepReadHolds, WriteDocHolds, InvalidateHolds, WriteCardHolds, AppendTrailHolds,
     WriteScriptsHolds, WriteHandlersHolds, ReloadHolds DEF AdminStep
<1>4. ASSUME NEW a \in Admins,
             \/ AskSettings(a) \/ \E patch \in Patches : UpdateSettings(a, patch)
             \/ \E x \in Cards : \/ \E given \in CardGivens(x) : InsertCard(a, x, given)
                                 \/ \E patch \in CardPatches(x) : PatchCard(a, x, patch)
             \/ \E install \in BOOLEAN : RefreshFiles(a, install)
             \/ \E restart \in BOOLEAN : AdminFails(a, restart)
      PROVE  AdminIInv'
  BY <1>4, RequestsBegin, InsertCardHolds, FailureHolds
<1>. QED  BY <1>1, <1>2, <1>3, <1>4 DEF AdminNext

\* The settings, the rows, the files and the requests keep their shapes; how old what was read
\* may be, and what the request in progress still owes the audit log and Home Assistant.
THEOREM AdminInvariant == AdminSpec => []AdminIInv
BY AdminInitHolds, AdminStepHolds, PTL DEF AdminSpec

\* updateSettings(), getSettings(), writeAndReload(): what an administrator sets is what the
\* server and Home Assistant go by while requests do not meet and none failed half-way; when
\* they do meet, an old document outlives its change by a query and the cache's time, no more.
THEOREM SettingsAlwaysTakeEffect == AdminSpec => []SettingsTakeEffect
<1>1. AdminIInv => SettingsFresh
  <2>. SUFFICES ASSUME AdminIInv PROVE SettingsFresh
    OBVIOUS
  <2>1. ASSUME ~meet, AllFree, TheDoc \notin halfDone PROVE doc = wanted /\ (IsFresh => cache.doc = doc)
    BY <2>1 DEF AdminIInv, InOrder, DocCurrent, AllFree, AtStage, IsFresh
  <2>2. ASSUME IsFresh, clock - changedAt >= QueryTime + CacheTime PROVE cache.doc = doc
    <3>1. clock \in Nat /\ changedAt \in Nat /\ cache.at \in Nat \cup {-1}
      BY DEF AdminIInv, AdminTypeInv
    <3>. QED  BY <2>2, <3>1, TimesAssumption DEF AdminIInv, ReadsAge, IsFresh
  <2>. QED  BY <2>1, <2>2 DEF SettingsFresh
<1>2. AdminIInv => IntegrationCurrent
  <2>. SUFFICES ASSUME AdminIInv, ~meet, AllFree, files # NoFiles
                PROVE  /\ "scripts" \notin halfDone => files.scripts = Active /\ loaded.scripts = files.scripts
                       /\ "key" \notin halfDone => files.key = doc.key /\ loaded.key = files.key
    BY DEF IntegrationCurrent
  <2>1. \A a \in Admins : job[a].stage = "free"
    BY DEF AllFree, AtStage
  <2>2. \A a \in Admins : ~Restaffing(job[a]) /\ ~Rekeying(job[a])
    BY <2>1 DEF Restaffing, Rekeying
  <2>. QED  BY <2>1, <2>2 DEF AdminIInv, InOrder, ScriptsFollow, KeyFollows, AtStage
<1>. QED  BY <1>1, <1>2, AdminInvariant, PTL DEF SettingsTakeEffect

\* appendAudit() after every administrator's write: unless the request was cut short, what the
\* code audits of a row or of the settings is on record as it is, or about to be, however requests
\* overlap; and while they do not, the audit rows that tell a column follow on one another and
\* the last of them shows it.
THEOREM AdminAlwaysOnRecord == AdminSpec => []AdminOnRecord
<1>1. AdminIInv => AdminOnRecord
  <2>. SUFFICES ASSUME AdminIInv, NEW x \in Cards \cup {TheDoc}, ~Pending(x), x \notin halfDone
                PROVE  /\ trail[x] = <<>> => Now(x) = Before(x)
                       /\ \A columns \in {Updated(x)} \cup {{f} : f \in ColumnsOf(x)} :
                            Telling(x, columns) # {} => \E k \in Telling(x, columns) : Shows(x, k, columns)
                       /\ trail[x] # <<>> =>
                            \A f \in ColumnsOf(x) \ Untold(x) :
                              Telling(x, {f}) = {} => Now(x)[f] = MadeAs(x)[f]
                       /\ ~meet =>
                            \A f \in ColumnsOf(x), k, l \in DOMAIN trail[x] :
                              /\ Latest(x, f, k) => Shows(x, k, {f})
                              /\ InTurn(x, f, k, l) => trail[x][l].old[f] = trail[x][k].new[f]
    BY DEF AdminOnRecord
  <2>1. Recorded(x) /\ \A columns : Hands(x, columns) = {}
    BY DEF AdminIInv, OnRecord, Hands, InHand, Pending
  <2>2. trail[x] = <<>> => Now(x) = Before(x)
    BY <2>1 DEF Recorded
  <2>3. ASSUME NEW columns \in {Updated(x)} \cup {{f} : f \in ColumnsOf(x)}, Telling(x, columns) # {}
        PROVE  \E k \in Telling(x, columns) : Shows(x, k, columns)
    <3>1. DOMAIN <<>> = {}
      OBVIOUS
    <3>2. trail[x] # <<>>
      BY <2>3, <3>1 DEF Telling
    <3>3. OnFile(x, columns) \/ AtHand(x, columns)
      BY <2>1, <2>3, <3>2 DEF Recorded, Tellable
    <3>. QED  BY <2>1, <3>3 DEF OnFile, AtHand
  <2>4. ASSUME trail[x] # <<>>, NEW f \in ColumnsOf(x) \ Untold(x), Telling(x, {f}) = {}
        PROVE  Now(x)[f] = MadeAs(x)[f]
    BY <2>1, <2>4 DEF Recorded
  <2>5. ASSUME ~meet, NEW f \in ColumnsOf(x), NEW k \in DOMAIN trail[x], NEW l \in DOMAIN trail[x]
        PROVE  /\ Latest(x, f, k) => Shows(x, k, {f})
               /\ InTurn(x, f, k, l) => trail[x][l].old[f] = trail[x][k].new[f]
    <3>1. LogFollows(x) /\ LogCurrent(x)
      BY <2>5 DEF AdminIInv, InOrder, FollowsOn, Followed
    <3>. QED  BY <3>1 DEF LogFollows, LogCurrent, Shows
  <2>. QED  BY <2>2, <2>3, <2>4, <2>5
<1>. QED  BY <1>1, AdminInvariant, PTL

-----------------------------------------------------------------------------
(***************************************************************************)
(* That a reminder comes out of a lasting change of presence, and only     *)
(* once, for any number of phones, graces and sweeps that overlap.  What   *)
(* the process remembers of an employee (memory) determines what the run   *)
(* of equal readings (run) is: the present state is the run that goes on,  *)
(* or the pending candidate is.                                            *)
(***************************************************************************)
Readings == {"yes", "no"}
Signals == {"here", "away", "lost"}

Memories == [present : Readings \cup {Unseen}, candidate : Readings \cup {Unseen}, since : Nat]
Runs == [seen : Readings \cup {Unseen}, since : Nat, first : BOOLEAN, asked : BOOLEAN]
Asks == [who : Phones, verb : {"in", "out"}, from : Runs]
SweepStages == {"asleep", "states", "clocked", "each", "send"}
SweepRecords == [stage : SweepStages, at : Nat, states : [Phones -> Signals] \cup {<<>>},
                 in : SUBSET Phones, todo : SUBSET Phones, ask : Asks \cup {<<>>}]

ReminderTypeInv ==
  /\ minute \in Nat
  /\ domain \in [Phones -> {"tracker", "wifi"}]
  /\ raw \in [Phones -> Signals]
  /\ onShift \in SUBSET Phones
  /\ memory \in [Phones -> Memories]
  /\ run \in [Phones -> Runs]
  /\ poll \in [1..Sweeps -> SweepRecords]

\* What is remembered of an employee tells how their run of readings stands.
Matches(m, r) ==
  /\ m.present = Unseen => m.candidate = Unseen
  /\ r = NoRun <=> m.present = Unseen
  /\ m.present # Unseen /\ m.candidate = Unseen => r.seen = m.present
  /\ m.candidate # Unseen =>
       /\ m.candidate # m.present /\ r.seen = m.candidate /\ r.since = m.since
       /\ ~r.first /\ ~r.asked

\* A sweep that considers employees has read where their phones are.
HasRead(sweep) == sweep.stage \in {"clocked", "each", "send"} => sweep.states \in [Phones -> Signals]

\* What RemindersRight says of one sweep that is about to send.
Justified(sweep) ==
  sweep.stage = "send" =>
    /\ sweep.ask \in Asks
    /\ ~sweep.ask.from.first /\ ~sweep.ask.from.asked
    /\ sweep.ask.from.seen = Means(sweep.ask.verb)
    /\ sweep.at - sweep.ask.from.since >= GraceOf(sweep.ask.verb)
    /\ (sweep.ask.who \in sweep.in) = (sweep.ask.verb = "out")

ReminderIInv ==
  /\ ReminderTypeInv
  /\ \A e \in Phones : Matches(memory[e], run[e])
  /\ \A p \in 1..Sweeps : HasRead(poll[p]) /\ Justified(poll[p])

-----------------------------------------------------------------------------

LEMMA PresenceFacts ==
  ASSUME NEW kind \in {"tracker", "wifi"}, NEW signal \in Signals
  PROVE  IsPresent(kind, signal) \in Readings \cup {Unseen}
BY DEF IsPresent, Readings, Signals, Unseen

\* What looking at an employee makes of the memory and the run, and of a reminder.
Fits(m, r, seen, in, at) ==
  LET next == EvalPresence(m, seen, in, at)
      noted == Noted(r, seen, at)
      after == [noted EXCEPT !.asked = @ \/ next.notify # "none"]
  IN /\ next.mem \in Memories /\ next.notify \in {"none", "in", "out"}
     /\ noted \in Runs /\ after \in Runs
     /\ Matches(next.mem, after)
     /\ next.notify # "none" =>
          /\ ~noted.first /\ ~noted.asked
          /\ noted.seen = Means(next.notify)
          /\ at - noted.since >= GraceOf(next.notify)
          /\ in = (next.notify = "out")

\* Whatever is read of an employee, the memory and the run go on telling the same, and a
\* reminder comes out of a run that deserves one.
LEMMA EvalFacts ==
  ASSUME NEW m \in Memories, NEW r \in Runs, Matches(m, r),
         NEW seen \in Readings \cup {Unseen}, NEW in \in BOOLEAN, NEW at \in Nat
  PROVE  Fits(m, r, seen, in, at)
<1>. DEFINE grace == IF seen = "yes" THEN Arrive ELSE Depart
            since == IF m.candidate = seen THEN m.since ELSE at
            next == EvalPresence(m, seen, in, at)
            noted == Noted(r, seen, at)
            after == [noted EXCEPT !.asked = @ \/ next.notify # "none"]
<1>0. /\ grace \in Int /\ since \in Nat
      /\ m.present \in Readings \cup {Unseen} /\ m.candidate \in Readings \cup {Unseen}
      /\ m.since \in Nat /\ r.since \in Nat /\ r.seen \in Readings \cup {Unseen}
      /\ r.first \in BOOLEAN /\ r.asked \in BOOLEAN
  BY GraceAssumption DEF Memories, Runs
<1>1. Forgotten \in Memories /\ NoRun \in Runs
  BY DEF Forgotten, NoRun, Memories, Runs, Readings, Unseen
<1>2. noted \in Runs
  <2>1. CASE seen \in {Unseen, r.seen}
    BY <2>1 DEF Noted
  <2>2. CASE seen \notin {Unseen, r.seen}
    <3>1. noted = [seen |-> seen, since |-> at, first |-> r = NoRun, asked |-> FALSE]
      BY <2>2 DEF Noted
    <3>2. (r = NoRun) \in BOOLEAN
      OBVIOUS
    <3>. QED  BY <3>1, <3>2 DEF Runs
  <2>. QED  BY <2>1, <2>2
<1>3. /\ after \in Runs
      /\ after.seen = noted.seen /\ after.since = noted.since /\ after.first = noted.first
      /\ next.notify = "none" => after = noted
      /\ next.notify # "none" => after.asked
  <2>1. noted.asked \in BOOLEAN /\ (next.notify # "none") \in BOOLEAN
    BY <1>2 DEF Runs
  <2>2. (noted.asked \/ next.notify # "none") \in BOOLEAN
    BY <2>1
  <2>. QED  BY <1>2, <2>1, <2>2 DEF Runs
<1>. HIDE DEF after
<1>4. CASE seen = Unseen
  <2>1. next.mem = m /\ next.notify = "none" /\ noted = r
    BY <1>4 DEF EvalPresence, Quietly, Noted
  <2>. QED  BY <2>1, <1>2, <1>3 DEF after, Fits
<1>5. CASE seen # Unseen /\ m.present = Unseen
  <2>1. next.mem = [Forgotten EXCEPT !.present = seen] /\ next.notify = "none"
    BY <1>5 DEF EvalPresence, Quietly
  <2>2. /\ next.mem \in Memories /\ next.mem.present = seen /\ next.mem.candidate = Unseen
    BY <2>1, <1>1 DEF Forgotten, Memories
  <2>3. r = NoRun
    BY <1>5 DEF Matches
  <2>4. noted.seen = seen /\ noted # NoRun
    BY <1>5, <2>3 DEF Noted, NoRun
  <2>. QED  BY <1>2, <1>3, <1>5, <2>1, <2>2, <2>4 DEF Matches, after, Fits
<1>6. CASE seen # Unseen /\ m.present # Unseen
  <2>1. r # NoRun /\ seen \in Readings /\ m.present \in Readings
    BY <1>0, <1>6 DEF Matches
  <2>2. noted.seen = seen /\ noted # NoRun
    BY <1>6, <2>1 DEF Noted, NoRun
  <2>3. CASE seen = m.present
    <3>1. next.mem = [m EXCEPT !.candidate = Unseen, !.since = 0] /\ next.notify = "none"
      BY <1>6, <2>3 DEF EvalPresence, Quietly
    <3>2. next.mem \in Memories /\ next.mem.present = seen /\ next.mem.candidate = Unseen
      <4>. DEFINE back == [m EXCEPT !.candidate = Unseen]
      <4>1. back \in Memories /\ back.present = m.present /\ back.candidate = Unseen
        BY DEF Memories
      <4>2. [back EXCEPT !.since = 0] \in Memories
        BY <4>1 DEF Memories
      <4>3. next.mem = [back EXCEPT !.since = 0]
        BY <3>1
      <4>4. next.mem.present = back.present /\ next.mem.candidate = back.candidate
        BY <4>1, <4>3 DEF Memories
      <4>. QED  BY <4>1, <4>2, <4>3, <4>4, <2>3
    <3>. QED  BY <1>2, <1>3, <1>6, <2>2, <3>1, <3>2 DEF Matches, after, Fits
  <2>4. CASE seen # m.present
    <3>1. ~noted.first /\ ~noted.asked /\ noted.since = since
      <4>1. CASE m.candidate = Unseen
        <5>1. r.seen = m.present /\ since = at
          BY <4>1, <1>6 DEF Matches
        <5>. QED  BY <5>1, <1>6, <2>1, <2>4 DEF Noted
      <4>2. CASE m.candidate # Unseen
        <5>1. m.candidate = seen
          BY <4>2, <2>1, <2>4, <1>0 DEF Matches, Readings
        <5>2. r.seen = seen /\ r.since = m.since /\ ~r.first /\ ~r.asked
          BY <4>2, <5>1 DEF Matches
        <5>. QED  BY <5>1, <5>2 DEF Noted
      <4>. QED  BY <4>1, <4>2
    <3>2. CASE at - since < grace
      <4>1. next.mem = [m EXCEPT !.candidate = seen, !.since = since] /\ next.notify = "none"
        BY <1>6, <2>4, <3>2 DEF EvalPresence, Quietly
      <4>2. /\ next.mem \in Memories /\ next.mem.present = m.present
            /\ next.mem.candidate = seen /\ next.mem.since = since
        BY <4>1, <1>0 DEF Memories
      <4>. QED  BY <1>2, <1>3, <1>6, <2>2, <2>4, <3>1, <4>1, <4>2 DEF Matches, after, Fits
    <3>3. CASE ~(at - since < grace)
      <4>1. next.mem = [Forgotten EXCEPT !.present = seen] /\ next.notify = Verb(seen, in)
        BY <1>6, <2>4, <3>3 DEF EvalPresence, Quietly
      <4>2. /\ next.mem \in Memories /\ next.mem.present = seen /\ next.mem.candidate = Unseen
        BY <4>1, <1>1 DEF Forgotten, Memories
      <4>3. /\ next.notify \in {"none", "in", "out"}
            /\ next.notify = "in" => seen = "yes" /\ ~in
            /\ next.notify = "out" => seen = "no" /\ in
        BY <4>1 DEF Verb
      <4>4. at - noted.since >= grace
        BY <3>1, <3>3, <1>0
      <4>5. next.notify # "none" =>
              /\ noted.seen = Means(next.notify)
              /\ at - noted.since >= GraceOf(next.notify)
              /\ in = (next.notify = "out")
        BY <2>2, <4>3, <4>4 DEF Means, GraceOf
      <4>6. Matches(next.mem, after)
        <5>1. after # NoRun /\ after.seen = seen
          BY <2>2, <1>3, <2>1 DEF NoRun, Readings, Unseen
        <5>. QED  BY <5>1, <4>2, <1>6 DEF Matches
      <4>. QED  BY <1>2, <1>3, <3>1, <4>2, <4>3, <4>5, <4>6 DEF after, Fits
    <3>. QED  BY <3>2, <3>3
  <2>. QED  BY <2>3, <2>4
<1>. QED  BY <1>4, <1>5, <1>6

-----------------------------------------------------------------------------

\* An employee's memory and run, and the sweeps, are all that the invariant is about.
LEMMA SweepPreserves ==
  ASSUME ReminderIInv, NEW p \in 1..Sweeps, NEW sweep, poll' = [poll EXCEPT ![p] = sweep],
         sweep \in SweepRecords, HasRead(sweep), Justified(sweep),
         UNCHANGED <<minute, domain, raw, onShift>>,
         memory' \in [Phones -> Memories], run' \in [Phones -> Runs],
         \A e \in Phones : Matches(memory'[e], run'[e])
  PROVE  ReminderIInv'
<1>1. ReminderTypeInv'
  BY DEF ReminderIInv, ReminderTypeInv
<1>2. ASSUME NEW q \in 1..Sweeps PROVE HasRead(poll'[q]) /\ Justified(poll'[q])
  BY DEF ReminderIInv, ReminderTypeInv
<1>3. ASSUME NEW q \in 1..Sweeps PROVE (HasRead(poll[q]) /\ Justified(poll[q]))'
  BY <1>2 DEF HasRead, Justified, Asks, Means, GraceOf, Runs
<1>. QED  BY <1>1, <1>3 DEF ReminderIInv, Matches, NoRun, Unseen

\* The sweep after one employee: over, or with the next.
LEMMA OnwardFacts ==
  ASSUME NEW sweep \in SweepRecords, sweep.states \in [Phones -> Signals]
  PROVE  Onward(sweep) \in SweepRecords /\ HasRead(Onward(sweep)) /\ Justified(Onward(sweep))
<1>1. CASE sweep.todo = {}
  <2>1. Asleep \in SweepRecords /\ Asleep.stage = "asleep"
    BY DEF Asleep, SweepRecords, SweepStages
  <2>. QED  BY <1>1, <2>1 DEF Onward, HasRead, Justified
<1>2. CASE sweep.todo # {}
  <2>. DEFINE next == [sweep EXCEPT !.stage = "each", !.ask = <<>>]
  <2>1. /\ next \in SweepRecords /\ next.stage = "each" /\ next.states = sweep.states
    BY DEF SweepRecords, SweepStages
  <2>2. Onward(sweep) = next
    BY <1>2 DEF Onward
  <2>. QED  BY <2>1, <2>2 DEF HasRead, Justified
<1>. QED  BY <1>1, <1>2

LEMMA ReminderInitHolds == RemindersInit => ReminderIInv
<1>. SUFFICES ASSUME RemindersInit PROVE ReminderIInv
  OBVIOUS
<1>1. Forgotten \in Memories /\ NoRun \in Runs /\ Matches(Forgotten, NoRun)
  BY DEF Forgotten, NoRun, Memories, Runs, Readings, Unseen, Matches
<1>2. Asleep \in SweepRecords /\ HasRead(Asleep) /\ Justified(Asleep)
  BY DEF Asleep, SweepRecords, SweepStages, HasRead, Justified
<1>3. /\ memory \in [Phones -> Memories] /\ run \in [Phones -> Runs]
      /\ \A e \in Phones : Matches(memory[e], run[e])
  BY <1>1 DEF RemindersInit
<1>4. /\ poll \in [1..Sweeps -> SweepRecords]
      /\ \A p \in 1..Sweeps : HasRead(poll[p]) /\ Justified(poll[p])
  BY <1>2 DEF RemindersInit
<1>5. /\ minute \in Nat /\ domain \in [Phones -> {"tracker", "wifi"}]
      /\ raw \in [Phones -> Signals] /\ onShift \in SUBSET Phones
  BY DEF RemindersInit, Signals
<1>. QED  BY <1>3, <1>4, <1>5 DEF ReminderIInv, ReminderTypeInv

\* The clock, the phones and the punches leave what was read and remembered alone.
LEMMA WorldHolds ==
  ASSUME ReminderIInv,
         \/ MinutePasses
         \/ \E e \in Phones : Punches(e) \/ \E signal \in Signals : PhoneMoves(e, signal)
  PROVE  ReminderIInv'
<1>1. UNCHANGED <<memory, poll, run, domain>>
  BY DEF MinutePasses, Punches, PhoneMoves
<1>2. minute' \in Nat /\ raw' \in [Phones -> Signals] /\ onShift' \in SUBSET Phones
  BY DEF ReminderIInv, ReminderTypeInv, MinutePasses, Punches, PhoneMoves
<1>. QED
  BY <1>1, <1>2 DEF ReminderIInv, ReminderTypeInv, Matches, HasRead, Justified, Asks, Means, GraceOf, Runs, NoRun, Unseen

LEMMA RebootHolds ==
  ASSUME ReminderIInv, Reboot
  PROVE  ReminderIInv'
<1>1. Forgotten \in Memories /\ NoRun \in Runs /\ Matches(Forgotten, NoRun)
  BY DEF Forgotten, NoRun, Memories, Runs, Readings, Unseen, Matches
<1>2. Asleep \in SweepRecords /\ HasRead(Asleep) /\ Justified(Asleep)
  BY DEF Asleep, SweepRecords, SweepStages, HasRead, Justified
<1>3. /\ memory' \in [Phones -> Memories] /\ run' \in [Phones -> Runs]
      /\ \A e \in Phones : Matches(memory'[e], run'[e])
  BY <1>1 DEF Reboot
<1>4. /\ poll' \in [1..Sweeps -> SweepRecords]
      /\ \A p \in 1..Sweeps : HasRead(poll'[p]) /\ Justified(poll'[p])
  BY <1>2 DEF Reboot
<1>5. ReminderTypeInv'
  BY <1>3, <1>4 DEF ReminderIInv, ReminderTypeInv, Reboot, world
<1>. QED
  BY <1>3, <1>4, <1>5 DEF ReminderIInv, Matches, HasRead, Justified, Asks, Means, GraceOf, Runs, NoRun, Unseen

\* The statements of a sweep before it looks at anybody, and its failing.
LEMMA GatherHolds ==
  ASSUME ReminderIInv, NEW p \in 1..Sweeps,
         StartPoll(p) \/ FetchStates(p) \/ ClockedInSet(p) \/ PollFails(p)
  PROVE  ReminderIInv'
<1>1. poll[p] \in SweepRecords /\ HasRead(poll[p])
  BY DEF ReminderIInv, ReminderTypeInv
<1>2. /\ UNCHANGED <<minute, domain, raw, onShift, memory, run>>
      /\ memory' \in [Phones -> Memories] /\ run' \in [Phones -> Runs]
      /\ \A e \in Phones : Matches(memory'[e], run'[e])
  BY DEF ReminderIInv, ReminderTypeInv, StartPoll, FetchStates, ClockedInSet, PollFails, world
<1>3. PICK sweep : /\ poll' = [poll EXCEPT ![p] = sweep]
                   /\ sweep \in SweepRecords /\ HasRead(sweep) /\ sweep.stage # "send"
  <2>0. Asleep \in SweepRecords /\ Asleep.stage = "asleep"
    BY DEF Asleep, SweepRecords, SweepStages
  <2>1. CASE StartPoll(p)
    <3>. DEFINE sweep == [Asleep EXCEPT !.stage = "states", !.at = minute]
    <3>1. sweep \in SweepRecords /\ sweep.stage = "states"
      BY <2>0 DEF SweepRecords, SweepStages, ReminderIInv, ReminderTypeInv
    <3>. QED  BY <2>1, <3>1 DEF StartPoll, HasRead
  <2>2. CASE FetchStates(p)
    <3>. DEFINE sweep == [poll[p] EXCEPT !.stage = "clocked", !.states = raw]
    <3>1. sweep \in SweepRecords /\ sweep.stage = "clocked" /\ sweep.states = raw
      BY <1>1 DEF SweepRecords, SweepStages, ReminderIInv, ReminderTypeInv
    <3>2. poll' = [poll EXCEPT ![p] = sweep]
      BY <2>2, <1>1 DEF FetchStates, ReminderIInv, ReminderTypeInv, SweepRecords
    <3>. QED  BY <3>1, <3>2 DEF HasRead, ReminderIInv, ReminderTypeInv
  <2>3. CASE ClockedInSet(p)
    <3>. DEFINE sweep == [poll[p] EXCEPT !.stage = "each", !.in = onShift, !.todo = Phones]
    <3>1. sweep \in SweepRecords /\ sweep.stage = "each" /\ sweep.states = poll[p].states
      BY <1>1 DEF SweepRecords, SweepStages, ReminderIInv, ReminderTypeInv
    <3>2. poll' = [poll EXCEPT ![p] = sweep]
      BY <2>3, <1>1 DEF ClockedInSet, ReminderIInv, ReminderTypeInv, SweepRecords
    <3>3. poll[p].stage = "clocked"
      BY <2>3 DEF ClockedInSet, PollAt
    <3>. QED  BY <3>1, <3>2, <3>3, <1>1 DEF HasRead
  <2>4. CASE PollFails(p)
    BY <2>4, <2>0 DEF PollFails, HasRead
  <2>. QED  BY <2>1, <2>2, <2>3, <2>4
<1>4. Justified(sweep)
  BY <1>3 DEF Justified
<1>. QED  BY <1>2, <1>3, <1>4, SweepPreserves

LEMMA ConsiderHolds ==
  ASSUME ReminderIInv, NEW p \in 1..Sweeps, NEW e \in Phones, Consider(p, e)
  PROVE  ReminderIInv'
<1>. DEFINE seen == IsPresent(domain[e], poll[p].states[e])
            next == EvalPresence(memory[e], seen, e \in poll[p].in, poll[p].at)
            noted == Noted(run[e], seen, poll[p].at)
            after == [noted EXCEPT !.asked = @ \/ next.notify # "none"]
            rest == [poll[p] EXCEPT !.todo = @ \ {e}]
            asking == [rest EXCEPT !.stage = "send",
                                   !.ask = [who |-> e, verb |-> next.notify, from |-> noted]]
<1>1. /\ poll[p] \in SweepRecords /\ poll[p].stage = "each" /\ e \in poll[p].todo
      /\ poll[p].states \in [Phones -> Signals] /\ poll[p].at \in Nat
  BY DEF Consider, PollAt, ReminderIInv, ReminderTypeInv, HasRead, SweepRecords
<1>2. /\ memory' = [memory EXCEPT ![e] = next.mem]
      /\ run' = [run EXCEPT ![e] = after]
      /\ poll' = [poll EXCEPT ![p] = IF next.notify = "none" THEN Onward(rest) ELSE asking]
      /\ UNCHANGED <<minute, domain, raw, onShift>>
  BY DEF Consider, world
<1>3. seen \in Readings \cup {Unseen}
  BY <1>1, PresenceFacts DEF ReminderIInv, ReminderTypeInv
<1>4. /\ memory[e] \in Memories /\ run[e] \in Runs /\ Matches(memory[e], run[e])
      /\ (e \in poll[p].in) \in BOOLEAN
  BY DEF ReminderIInv, ReminderTypeInv
<1>5. /\ next.mem \in Memories /\ next.notify \in {"none", "in", "out"}
      /\ noted \in Runs /\ after \in Runs
      /\ Matches(next.mem, after)
      /\ next.notify # "none" =>
           /\ ~noted.first /\ ~noted.asked
           /\ noted.seen = Means(next.notify)
           /\ poll[p].at - noted.since >= GraceOf(next.notify)
           /\ (e \in poll[p].in) = (next.notify = "out")
  <2>1. Fits(memory[e], run[e], seen, e \in poll[p].in, poll[p].at)
    BY <1>1, <1>3, <1>4, EvalFacts
  <2>. QED  BY <2>1 DEF Fits
<1>. HIDE DEF seen, next, noted, after
<1>6. /\ rest \in SweepRecords /\ rest.states = poll[p].states /\ rest.at = poll[p].at
      /\ rest.in = poll[p].in
  BY <1>1 DEF SweepRecords
<1>7. /\ memory' \in [Phones -> Memories] /\ run' \in [Phones -> Runs]
      /\ \A f \in Phones : Matches(memory'[f], run'[f])
  BY <1>2, <1>5 DEF ReminderIInv, ReminderTypeInv
<1>8. CASE next.notify = "none"
  <2>1. Onward(rest) \in SweepRecords /\ HasRead(Onward(rest)) /\ Justified(Onward(rest))
    BY <1>1, <1>6, OnwardFacts
  <2>. QED  BY <1>2, <1>7, <1>8, <2>1, SweepPreserves
<1>9. CASE next.notify # "none"
  <2>. DEFINE ask == [who |-> e, verb |-> next.notify, from |-> noted]
  <2>1. /\ ask \in Asks /\ ask.who = e /\ ask.verb = next.notify /\ ask.from = noted
    BY <1>5, <1>9 DEF Asks
  <2>. HIDE DEF ask
  <2>2. /\ asking \in SweepRecords /\ asking.stage = "send" /\ asking.ask = ask
        /\ asking.states = rest.states /\ asking.at = rest.at /\ asking.in = rest.in
    BY <1>6, <2>1 DEF SweepRecords, SweepStages, ask
  <2>. HIDE DEF asking, rest
  <2>3. HasRead(asking) /\ Justified(asking)
    BY <1>1, <1>5, <1>6, <1>9, <2>1, <2>2 DEF HasRead, Justified
  <2>. QED  BY <1>2, <1>7, <1>9, <2>2, <2>3, SweepPreserves
<1>. QED  BY <1>8, <1>9

LEMMA SendHolds ==
  ASSUME ReminderIInv, NEW p \in 1..Sweeps, SendReminder(p)
  PROVE  ReminderIInv'
<1>1. poll[p] \in SweepRecords /\ poll[p].states \in [Phones -> Signals]
  BY DEF ReminderIInv, ReminderTypeInv, HasRead, SendReminder, PollAt
<1>2. /\ UNCHANGED <<minute, domain, raw, onShift, memory, run>>
      /\ poll' = [poll EXCEPT ![p] = Onward(poll[p])]
  BY DEF SendReminder, world
<1>3. /\ memory' \in [Phones -> Memories] /\ run' \in [Phones -> Runs]
      /\ \A e \in Phones : Matches(memory'[e], run'[e])
  BY <1>2 DEF ReminderIInv, ReminderTypeInv
<1>. QED  BY <1>1, <1>2, <1>3, OnwardFacts, SweepPreserves

-----------------------------------------------------------------------------

LEMMA ReminderStepHolds == ReminderIInv /\ [RemindersNext]_reminderVars => ReminderIInv'
<1>. SUFFICES ASSUME ReminderIInv, [RemindersNext]_reminderVars PROVE ReminderIInv'
  OBVIOUS
<1>1. CASE UNCHANGED reminderVars
  BY <1>1 DEF reminderVars, ReminderIInv, ReminderTypeInv, Matches, HasRead, Justified, Asks, Means, GraceOf, Runs, NoRun, Unseen
<1>2. CASE \/ MinutePasses
           \/ \E e \in Phones : Punches(e) \/ \E signal \in {"here", "away", "lost"} : PhoneMoves(e, signal)
  BY <1>2, WorldHolds DEF Signals
<1>3. CASE Reboot
  BY <1>3, RebootHolds
<1>4. ASSUME NEW p \in 1..Sweeps,
             \/ StartPoll(p) \/ FetchStates(p) \/ ClockedInSet(p)
             \/ \E e \in Phones : Consider(p, e)
             \/ SendReminder(p) \/ PollFails(p)
      PROVE  ReminderIInv'
  BY <1>4, GatherHolds, ConsiderHolds, SendHolds
<1>. QED  BY <1>1, <1>2, <1>3, <1>4 DEF RemindersNext

\* The readings, what is remembered of them and the sweeps have the shapes the code gives
\* them, and the memory of every employee matches the run of readings that goes on.
THEOREM MemoryMatchesRun == RemindersSpec => []ReminderIInv
BY ReminderInitHolds, ReminderStepHolds, PTL DEF RemindersSpec

\* pollPresenceOnce() and evalPresence(): a reminder comes out of a run of readings that is
\* not the first since the start, has lasted the grace and gave no reminder yet, however
\* many sweeps overlap and in whatever order they get to an employee.
THEOREM RemindersAreRight == RemindersSpec => []RemindersRight
<1>1. ReminderIInv => RemindersRight
  BY DEF ReminderIInv, Justified, RemindersRight, PollAt
<1>. QED  BY <1>1, MemoryMatchesRun, PTL

-----------------------------------------------------------------------------
(***************************************************************************)
(* LoginHolds, for any number of employees, browsers and requests in       *)
(* progress and for any limits: the lock after wrong PINs, the bootstrap   *)
(* of the first administrator and the first devices, and the sign-out that *)
(* lasts.  Each has an inductive invariant of its own on top of the types. *)
(***************************************************************************)
Requests == 1..Attempts
Ways == {"none", "pin", "sso", "out", "claim"}
PinStages == {"device", "register", "rate", "lookup"}
ClaimStages == {"anyMapped", "pick", "link"}
LoginStages == {"none", "whoami", "revoke", "session", "answer"} \cup PinStages \cup ClaimStages

Tries == [stage : LoginStages, way : Ways, on : Panels \cup {NoBody}, who : Workers \cup {NoBody},
          cookie : Nat, device : Nat, binds : BOOLEAN, optOut : BOOLEAN]
Sessions == [who : Workers, way : {"pin", "sso", "claim"}, good : BOOLEAN]
Accounts == {Account[b] : b \in Panels} \cup {NoBody}
Locks == [count : Nat, until : Nat]

\* What the stage of a request tells of it, among so many devices and sessions.
TryOK(t, devices, sessions) ==
  /\ t.device <= devices /\ t.cookie <= sessions
  /\ t.stage # "none" => t.on \in Panels
  /\ t.stage \in PinStages => t.way = "pin" /\ t.who \in Workers
  /\ t.stage = "whoami" => t.way = "sso"
  /\ t.stage = "revoke" => t.way = "out"
  /\ t.stage \in ClaimStages => t.way = "claim" /\ Account[t.on] # NoBody
  /\ t.stage = "link" => t.who \in Admin
  /\ t.stage = "session" => t.way \in {"pin", "sso", "claim"} /\ t.who \in Workers

LoginTypeInv ==
  /\ moment \in Nat /\ bound \in Nat /\ claims \in Nat
  /\ linked \in [Workers -> Accounts]
  /\ issued \in Seq(Sessions)
  /\ fails \in [Keys -> Locks]
  /\ cookie \in [Panels -> 0..Len(issued)]
  /\ deviceCookie \in [Panels -> 0..bound]
  /\ optOut \in [Panels -> BOOLEAN]
  /\ attempt \in [Requests -> Tries] /\ \A r \in Requests : TryOK(attempt[r], bound, Len(issued))
  /\ wrong \in [Keys -> Seq(Nat)]
  /\ met \in SUBSET Panels

\* Each request about to bind a device still has its share of the bound.
Registering == {r \in Requests : InStage(r, "register")}
DevicesBounded == bound + Cardinality(Registering) <= Attempts

\* Of a single administrator, the link tells whether the claim was made.
ClaimedOnce ==
  \A a : Admin = {a} => claims <= 1 /\ (linked[a] = NoBody => claims = 0)

\* The requests that passed the check of the lock of a key, and have not found out yet.
Under(k) == {r \in Requests : InStage(r, "lookup") /\ KeyOf(r) = k}

\* The j-th wrong PIN closed the lock: until it opens, as many more come as were under way.
Closed(w, f, t, u, j) ==
  /\ w[j] + WindowTime <= f.until
  /\ \A i \in DOMAIN w : i >= j + Attempts => w[i] >= w[j] + WindowTime
  /\ t < w[j] + WindowTime => Len(w) - j + u < Attempts

\* Every wrong PIN but the last count of them is followed by one that closed the lock,
\* before there are MaxFails of them.
Locked(w, f, t, u) ==
  /\ \A i \in DOMAIN w : w[i] <= t
  /\ \A i, j \in DOMAIN w : i <= j => w[i] <= w[j]
  /\ f.count < MaxFails /\ f.count <= Len(w)
  /\ \A n \in 1 .. Len(w) - f.count :
       \E j \in n .. n + MaxFails - 1 : j <= Len(w) - f.count /\ Closed(w, f, t, u, j)

LockInv == \A k \in Keys : Locked(wrong[k], fails[k], moment, Cardinality(Under(k)))

\* A panel none of whose requests met another has one request at most, which knows
\* whether the panel was signed out; and what it was answered with is known by its way.
LoginAlone ==
  \A b \in Panels \ met : \A q, r \in Requests :
    attempt[q].on = b /\ attempt[r].on = b /\ ~InStage(q, "none") /\ ~InStage(r, "none") => q = r
Informed(t, out, apart, sessions) ==
  /\ t.stage # "none" /\ t.on \in apart => t.optOut = out[t.on]
  /\ t.way = "sso" /\ t.stage \in {"session", "answer"} => ~t.optOut
  /\ t.stage = "answer" =>
       IF t.way = "out" THEN t.cookie = NoCookie
       ELSE t.cookie \in DOMAIN sessions /\ sessions[t.cookie].way = t.way
SsoInv ==
  /\ LoginAlone /\ SignedOutStays
  /\ \A r \in Requests : Informed(attempt[r], optOut, Panels \ met, issued)

LoginIInv == LoginTypeInv /\ DevicesBounded /\ ClaimedOnce /\ LockInv /\ SsoInv

-----------------------------------------------------------------------------
(* Types *)

\* A request takes the value t, and the others are what they were.
Becomes(r, t) == attempt' = [attempt EXCEPT ![r] = t]

\* The sessions and the bound devices only grow in number.
Grows == bound' \in Nat /\ bound <= bound' /\ Len(issued') \in Nat /\ Len(issued) <= Len(issued')

LEMMA OneMoves ==
  ASSUME LoginTypeInv, NEW r \in Requests, NEW t \in Tries, TryOK(t, bound', Len(issued')),
         Becomes(r, t), Grows
  PROVE  /\ attempt' \in [Requests -> Tries]
         /\ \A q \in Requests : TryOK(attempt'[q], bound', Len(issued'))
<1>1. attempt' \in [Requests -> Tries]  BY DEF LoginTypeInv, Becomes
<1>2. ASSUME NEW q \in Requests, q # r  PROVE TryOK(attempt'[q], bound', Len(issued'))
  <2>1. attempt'[q] = attempt[q] /\ attempt[q] \in Tries /\ TryOK(attempt[q], bound, Len(issued))
    BY <1>2 DEF LoginTypeInv, Becomes
  <2>2. attempt[q].device \in Nat /\ attempt[q].cookie \in Nat /\ Len(issued) \in Nat /\ bound \in Nat
    BY <2>1 DEF Tries, LoginTypeInv
  <2>  QED  BY <2>1, <2>2 DEF TryOK, Grows
<1>3. attempt'[r] = t  BY DEF LoginTypeInv, Becomes
<1>  QED  BY <1>1, <1>2, <1>3

LEMMA NoTryOK == LoginTypeInv => NoTry \in Tries /\ TryOK(NoTry, bound, Len(issued))
  BY DEF LoginTypeInv, NoTry, NoCookie, NoDevice, Tries, LoginStages, Ways, TryOK, PinStages, ClaimStages

\* The stages a request can be moved to without anything else becoming known.
LEMMA StagedOK ==
  ASSUME LoginTypeInv, NEW r \in Requests, NEW s \in LoginStages \ {"none"},
         attempt[r].stage # "none",
         s \in PinStages => attempt[r].stage \in PinStages,
         s \in ClaimStages => attempt[r].stage \in ClaimStages /\ s # "link",
         s = "session" => attempt[r].stage \in {"lookup", "link"},
         s \notin {"whoami", "revoke"}
  PROVE  [attempt[r] EXCEPT !.stage = s] \in Tries /\ TryOK([attempt[r] EXCEPT !.stage = s], bound, Len(issued))
<1>0. attempt[r] \in Tries /\ TryOK(attempt[r], bound, Len(issued))  BY DEF LoginTypeInv
<1>1. [attempt[r] EXCEPT !.stage = s] \in Tries  BY <1>0 DEF Tries
<1>2. TryOK([attempt[r] EXCEPT !.stage = s], bound, Len(issued))
  BY <1>0, PeopleAssumption DEF Tries, TryOK, PinStages, ClaimStages
<1>  QED  BY <1>1, <1>2

LEMMA TypeInit == LoginInit => LoginTypeInv
<1>  SUFFICES ASSUME LoginInit PROVE LoginTypeInv  OBVIOUS
<1>1. NoTry \in Tries /\ TryOK(NoTry, bound, Len(issued))
  BY DEF LoginInit, NoTry, NoCookie, NoDevice, Tries, LoginStages, Ways, TryOK, PinStages, ClaimStages
<1>2. attempt \in [Requests -> Tries] /\ \A r \in Requests : TryOK(attempt[r], bound, Len(issued))
  BY <1>1 DEF LoginInit, Requests
<1>3. cookie \in [Panels -> 0..Len(issued)] /\ deviceCookie \in [Panels -> 0..bound]
  BY DEF LoginInit, NoCookie, NoDevice
<1>4. fails \in [Keys -> Locks] /\ wrong \in [Keys -> Seq(Nat)]
  BY DEF LoginInit, NoFails, Locks
<1>5. issued \in Seq(Sessions) /\ linked \in [Workers -> Accounts]
  BY DEF LoginInit, Accounts
<1>  QED  BY <1>2, <1>3, <1>4, <1>5 DEF LoginTypeInv, LoginInit

\* What a request is sent as is in order.
LEMMA SendOK ==
  ASSUME LoginTypeInv, NEW r \in Requests, NEW b \in Panels, NEW who \in Workers \cup {NoBody},
         NEW way, NEW stage, Send(r, b, who, way, stage),
         \/ way = "pin" /\ stage = "device" /\ who \in Workers
         \/ way = "sso" /\ stage = "whoami"
         \/ way = "out" /\ stage = "revoke"
         \/ way = "claim" /\ stage = "anyMapped" /\ Account[b] # NoBody
  PROVE  LoginTypeInv'
<1>  DEFINE t == [stage |-> stage, way |-> way, on |-> b, who |-> who, cookie |-> cookie[b],
                  device |-> deviceCookie[b], binds |-> FALSE, optOut |-> optOut[b]]
<1>1. cookie[b] \in 0..Len(issued) /\ deviceCookie[b] \in 0..bound /\ optOut[b] \in BOOLEAN
      /\ Len(issued) \in Nat /\ bound \in Nat
  BY DEF LoginTypeInv
<1>2. stage \in LoginStages /\ way \in Ways  BY DEF LoginStages, Ways, PinStages, ClaimStages
<1>3. t \in Tries  BY <1>1, <1>2 DEF Tries
<1>4. bound' = bound /\ issued' = issued /\ attempt' = [attempt EXCEPT ![r] = t]
  BY DEF Send, tables
<1>5. TryOK(t, bound', Len(issued'))  BY <1>1, <1>4 DEF TryOK, PinStages, ClaimStages
<1>  HIDE DEF t
<1>7. Becomes(r, t) /\ Grows  BY <1>1, <1>4 DEF Becomes, Grows
<1>6. attempt' \in [Requests -> Tries] /\ \A q \in Requests : TryOK(attempt'[q], bound', Len(issued'))
  BY <1>3, <1>5, <1>7, OneMoves
<1>8. met' \in SUBSET Panels  BY DEF Send, LoginTypeInv
<1>  QED  BY <1>4, <1>6, <1>8 DEF LoginTypeInv, Send, tables, cookies

\* A step that changes one request, to no stage or to one it may be moved to, and no session,
\* device or cookie but that of the device.
LEMMA StagedMoves ==
  ASSUME LoginTypeInv, NEW r \in Requests, attempt[r].stage # "none",
         NEW t \in Tries, TryOK(t, bound, Len(issued)), Becomes(r, t),
         deviceCookie' = deviceCookie \/ DeviceCookieSet(r),
         UNCHANGED <<issued, bound, cookie, optOut, met, moment>>,
         linked' \in [Workers -> Accounts], claims' \in Nat,
         fails' \in [Keys -> Locks], wrong' \in [Keys -> Seq(Nat)]
  PROVE  LoginTypeInv'
<1>1. bound \in Nat /\ Len(issued) \in Nat  BY DEF LoginTypeInv
<1>2. TryOK(t, bound', Len(issued')) /\ Grows  BY <1>1 DEF Grows
<1>3. attempt' \in [Requests -> Tries] /\ \A q \in Requests : TryOK(attempt'[q], bound', Len(issued'))
  BY <1>2, OneMoves
<1>4. deviceCookie' \in [Panels -> 0..bound]
  <2>1. attempt[r] \in Tries /\ TryOK(attempt[r], bound, Len(issued))  BY DEF LoginTypeInv
  <2>2. attempt[r].device \in 0..bound /\ attempt[r].on \in Panels
    BY <2>1, <1>1 DEF Tries, TryOK
  <2>3. deviceCookie \in [Panels -> 0..bound]  BY DEF LoginTypeInv
  <2>  QED  BY <2>2, <2>3 DEF DeviceCookieSet
<1>  QED  BY <1>3, <1>4 DEF LoginTypeInv

LEMMA TypeStep == LoginTypeInv /\ [LoginNext]_loginVars => LoginTypeInv'
<1>  SUFFICES ASSUME LoginTypeInv, [LoginNext]_loginVars PROVE LoginTypeInv'
  OBVIOUS
<1>0. NoTry \in Tries /\ TryOK(NoTry, bound, Len(issued))  BY NoTryOK
<1>1. CASE UNCHANGED loginVars
  BY <1>1 DEF loginVars, tables, cookies, LoginTypeInv, TryOK, tables, cookies
<1>2. CASE MomentTick
  <2>1. moment' \in Nat /\ UNCHANGED <<linked, issued, bound, fails, cookie, deviceCookie, optOut,
                                       attempt, wrong, claims, met>>
    BY <1>2 DEF MomentTick, tables, cookies, past, LoginTypeInv
  <2>  QED  BY <2>1 DEF LoginTypeInv, TryOK
<1>3. ASSUME NEW c \in DOMAIN issued, SessionEnds(c)  PROVE LoginTypeInv'
  <2>1. UNCHANGED <<moment, linked, bound, fails, cookie, deviceCookie, optOut, attempt, wrong,
                    claims, met>>
    BY <1>3 DEF SessionEnds, cookies, past
  <2>2. issued' \in Seq(Sessions) /\ Len(issued') = Len(issued)
    <3>1. issued \in Seq(Sessions) /\ issued[c] \in Sessions  BY DEF LoginTypeInv
    <3>2. [issued[c] EXCEPT !.good = FALSE] \in Sessions  BY <3>1 DEF Sessions
    <3>3. issued' = [issued EXCEPT ![c] = [issued[c] EXCEPT !.good = FALSE]]  BY <1>3 DEF SessionEnds
    <3>  QED  BY <3>1, <3>2, <3>3
  <2>  QED  BY <2>1, <2>2 DEF LoginTypeInv, TryOK
<1>4. ASSUME NEW r \in Requests, NEW b \in Panels,
             \/ \E who \in Workers : PinLogin(r, b, who)
             \/ AskSession(r, b) \/ LogOut(r, b) \/ ClaimAdmin(r, b)
      PROVE  LoginTypeInv'
  BY <1>4, SendOK DEF PinLogin, AskSession, LogOut, ClaimAdmin
<1>5. ASSUME NEW r \in Requests,
             \/ LoadDevice(r) \/ PinRateCheck(r) \/ AnyMapped(r)
             \/ \E right \in BOOLEAN : VerifyPin(r, right)
      PROVE  LoginTypeInv'
  <2>  DEFINE moved(s) == [attempt[r] EXCEPT !.stage = s]
  <2>1. PICK s \in {"rate", "register", "lookup", "session", "pick"} :
          /\ s \in {"rate", "register"} => InStage(r, "device")
          /\ s = "lookup" => InStage(r, "rate")
          /\ s = "session" => InStage(r, "lookup")
          /\ s = "pick" => InStage(r, "anyMapped")
          /\ attempt[r].stage # "none"
          /\ \/ attempt' = [attempt EXCEPT ![r] = NoTry] /\ DeviceCookieSet(r)
             \/ attempt' = [attempt EXCEPT ![r].stage = s] /\ UNCHANGED deviceCookie
    BY <1>5 DEF LoadDevice, PinRateCheck, AnyMapped, VerifyPin, Move, Refuse, InStage
  <2>2. attempt[r] \in Tries  BY DEF LoginTypeInv
  <2>3. moved(s) \in Tries /\ TryOK(moved(s), bound, Len(issued))
    BY <2>1, StagedOK DEF InStage, LoginStages, PinStages, ClaimStages
  <2>4. UNCHANGED <<issued, bound, cookie, optOut, met, moment, linked, claims>>
    BY <1>5 DEF LoadDevice, PinRateCheck, AnyMapped, VerifyPin, tables, past
  <2>5. fails' \in [Keys -> Locks] /\ wrong' \in [Keys -> Seq(Nat)]
    <3>1. UNCHANGED <<fails, wrong>> \/ \E right \in BOOLEAN : VerifyPin(r, right)
      BY <1>5 DEF LoadDevice, PinRateCheck, AnyMapped, past
    <3>2. moment \in Nat /\ fails \in [Keys -> Locks] /\ wrong \in [Keys -> Seq(Nat)]
      BY DEF LoginTypeInv
    <3>3. \A f \in Locks : AfterFail(f) \in Locks /\ NoFails \in Locks
      <4>1. NoFails \in Locks  BY DEF NoFails, Locks
      <4>2. ASSUME NEW f \in Locks  PROVE AfterFail(f) \in Locks
        <5>1. f.count \in Nat /\ f.until \in Nat /\ moment + WindowTime \in Nat
          BY <3>2, LimitsAssumption DEF Locks
        <5>2. [count |-> 0, until |-> moment + WindowTime] \in Locks  BY <5>1 DEF Locks
        <5>3. [f EXCEPT !.count = f.count + 1] \in Locks  BY <5>1 DEF Locks
        <5>  QED  BY <5>2, <5>3 DEF AfterFail
      <4>  QED  BY <4>1, <4>2
    <3>4. ASSUME NEW right \in BOOLEAN, VerifyPin(r, right)
          PROVE  fails' \in [Keys -> Locks] /\ wrong' \in [Keys -> Seq(Nat)]
      <4>1. CASE right
        <5>1. fails' = [fails EXCEPT ![KeyOf(r)] = NoFails] /\ wrong' = [wrong EXCEPT ![KeyOf(r)] = <<>>]
          BY <3>4, <4>1 DEF VerifyPin
        <5>2. NoFails \in Locks /\ <<>> \in Seq(Nat)  BY DEF NoFails, Locks
        <5>  QED  BY <5>1, <5>2, <3>2
      <4>2. CASE ~right
        <5>1. fails' = [fails EXCEPT ![KeyOf(r)] = AfterFail(fails[KeyOf(r)])]
              /\ wrong' = [wrong EXCEPT ![KeyOf(r)] = Append(wrong[KeyOf(r)], moment)]
          BY <3>4, <4>2 DEF VerifyPin
        <5>2. KeyOf(r) \in Keys => AfterFail(fails[KeyOf(r)]) \in Locks
          BY <3>2, <3>3
        <5>3. KeyOf(r) \in Keys => Append(wrong[KeyOf(r)], moment) \in Seq(Nat)
          BY <3>2
        <5>  QED  BY <5>1, <5>2, <5>3, <3>2
      <4>  QED  BY <4>1, <4>2
    <3>  QED  BY <3>1, <3>2, <3>4
  <2>6. linked \in [Workers -> Accounts] /\ claims \in Nat  BY DEF LoginTypeInv
  <2>7. Becomes(r, NoTry) \/ Becomes(r, moved(s))
    BY <2>1 DEF Becomes
  <2>  HIDE DEF moved
  <2>  QED  BY <1>0, <2>1, <2>3, <2>4, <2>5, <2>6, <2>7, StagedMoves
<1>6. ASSUME NEW r \in Requests, SingleSignOn(r) \/ PickAdmin(r)  PROVE LoginTypeInv'
  <2>  DEFINE named(s, w) == [attempt[r] EXCEPT !.stage = s, !.who = w]
  <2>1. \/ attempt' = [attempt EXCEPT ![r] = NoTry] /\ DeviceCookieSet(r)
        \/ /\ UNCHANGED deviceCookie
           /\ \/ InStage(r, "whoami") /\ \E w \in Workers : attempt' = [attempt EXCEPT ![r] = named("session", w)]
              \/ InStage(r, "pick") /\ \E w \in Admin : attempt' = [attempt EXCEPT ![r] = named("link", w)]
    BY <1>6 DEF SingleSignOn, PickAdmin, Refuse
  <2>2. attempt[r] \in Tries /\ TryOK(attempt[r], bound, Len(issued)) /\ attempt[r].stage \in {"whoami", "pick"}
    BY <1>6 DEF LoginTypeInv, SingleSignOn, PickAdmin, InStage
  <2>3. ASSUME NEW w \in Workers
        PROVE  /\ named("session", w) \in Tries /\ named("link", w) \in Tries
               /\ InStage(r, "whoami") => TryOK(named("session", w), bound, Len(issued))
               /\ InStage(r, "pick") /\ w \in Admin => TryOK(named("link", w), bound, Len(issued))
    BY <2>2 DEF Tries, TryOK, LoginStages, PinStages, ClaimStages, InStage
  <2>4. UNCHANGED <<issued, bound, cookie, optOut, met, moment, linked, claims, fails, wrong>>
    BY <1>6 DEF SingleSignOn, PickAdmin, tables, past
  <2>5. /\ linked' \in [Workers -> Accounts] /\ claims' \in Nat
        /\ fails' \in [Keys -> Locks] /\ wrong' \in [Keys -> Seq(Nat)]
    BY <2>4 DEF LoginTypeInv
  <2>6. \E t \in Tries : TryOK(t, bound, Len(issued)) /\ Becomes(r, t)
    BY <1>0, <2>1, <2>3, PeopleAssumption DEF Becomes
  <2>7. deviceCookie' = deviceCookie \/ DeviceCookieSet(r)  BY <2>1
  <2>8. attempt[r].stage # "none"  BY <2>2
  <2>  HIDE DEF named
  <2>  QED  BY <2>4, <2>5, <2>6, <2>7, <2>8, StagedMoves
<1>7. ASSUME NEW r \in Requests, LinkAdmin(r)  PROVE LoginTypeInv'
  <2>  DEFINE w == attempt[r].who
              t == [attempt[r] EXCEPT !.stage = "session"]
  <2>1. InStage(r, "link") /\ attempt[r] \in Tries /\ TryOK(attempt[r], bound, Len(issued))  BY <1>7 DEF LinkAdmin, LoginTypeInv
  <2>2. w \in Workers /\ attempt[r].on \in Panels
    BY <2>1, PeopleAssumption DEF TryOK, InStage
  <2>3. t \in Tries /\ TryOK(t, bound, Len(issued))
    BY <2>1, <2>2, StagedOK DEF InStage, LoginStages, PinStages, ClaimStages
  <2>4. UNCHANGED <<issued, bound, cookie, optOut, met, moment, fails, wrong>>
    BY <1>7 DEF LinkAdmin
  <2>5. fails' \in [Keys -> Locks] /\ wrong' \in [Keys -> Seq(Nat)]  BY <2>4 DEF LoginTypeInv
  <2>6. linked' \in [Workers -> Accounts] /\ claims' \in Nat
    <3>1. linked \in [Workers -> Accounts] /\ claims \in Nat  BY DEF LoginTypeInv
    <3>2. Account[attempt[r].on] \in Accounts  BY <2>2 DEF Accounts
    <3>3. \/ UNCHANGED <<linked, claims>>
          \/ linked' = [linked EXCEPT ![w] = Account[attempt[r].on]] /\ claims' = claims + 1
      BY <1>7 DEF LinkAdmin
    <3>  QED  BY <3>1, <3>2, <3>3
  <2>7. \/ Becomes(r, NoTry) /\ DeviceCookieSet(r)
        \/ Becomes(r, t) /\ UNCHANGED deviceCookie
    BY <1>7 DEF LinkAdmin, Refuse, Move, Becomes
  <2>8. attempt[r].stage # "none"  BY <2>1 DEF InStage
  <2>  HIDE DEF t
  <2>  QED  BY <1>0, <2>3, <2>4, <2>5, <2>6, <2>7, <2>8, StagedMoves
<1>8. ASSUME NEW r \in Requests, RegisterDevice(r)  PROVE LoginTypeInv'
  <2>  DEFINE t == [attempt[r] EXCEPT !.stage = "rate", !.device = bound + 1, !.binds = TRUE]
  <2>1. InStage(r, "register") /\ attempt[r] \in Tries /\ TryOK(attempt[r], bound, Len(issued))
    BY <1>8 DEF RegisterDevice, LoginTypeInv
  <2>2. attempt' = [attempt EXCEPT ![r] = t] /\ bound' = bound + 1
        /\ UNCHANGED <<moment, linked, issued, fails, cookie, deviceCookie, optOut, wrong, claims, met>>
    BY <1>8 DEF RegisterDevice, cookies, past
  <2>3. bound \in Nat /\ Len(issued) \in Nat  BY DEF LoginTypeInv
  <2>9. "rate" \in LoginStages /\ bound + 1 \in Nat  BY <2>3 DEF LoginStages, PinStages
  <2>4. t \in Tries  BY <2>1, <2>9 DEF Tries
  <2>5. TryOK(t, bound', Len(issued'))  BY <2>1, <2>2, <2>3 DEF Tries, TryOK, InStage, PinStages, ClaimStages
  <2>  HIDE DEF t
  <2>8. Becomes(r, t) /\ Grows  BY <2>2, <2>3 DEF Becomes, Grows
  <2>6. attempt' \in [Requests -> Tries] /\ \A q \in Requests : TryOK(attempt'[q], bound', Len(issued'))
    BY <2>4, <2>5, <2>8, OneMoves
  <2>7. deviceCookie' \in [Panels -> 0..bound'] /\ bound' \in Nat  BY <2>2 DEF LoginTypeInv
  <2>  QED  BY <2>2, <2>6, <2>7 DEF LoginTypeInv
<1>9. ASSUME NEW r \in Requests, CreateSession(r)  PROVE LoginTypeInv'
  <2>  DEFINE t == [attempt[r] EXCEPT !.stage = "answer", !.cookie = Len(issued) + 1]
              s == [who |-> attempt[r].who, way |-> attempt[r].way, good |-> TRUE]
  <2>1. InStage(r, "session") /\ attempt[r] \in Tries /\ TryOK(attempt[r], bound, Len(issued))
    BY <1>9 DEF CreateSession, LoginTypeInv
  <2>2. attempt' = [attempt EXCEPT ![r] = t] /\ issued' = Append(issued, s)
        /\ UNCHANGED <<moment, linked, bound, fails, cookie, deviceCookie, optOut, wrong, claims, met>>
    BY <1>9 DEF CreateSession, cookies, past
  <2>3. s \in Sessions  BY <2>1 DEF Sessions, TryOK, InStage
  <2>  HIDE DEF s
  <2>4. issued \in Seq(Sessions) /\ issued' \in Seq(Sessions) /\ Len(issued') = Len(issued) + 1
        /\ Len(issued) \in Nat /\ bound \in Nat
    BY <2>2, <2>3 DEF LoginTypeInv
  <2>10. "answer" \in LoginStages /\ Len(issued) + 1 \in Nat  BY <2>4 DEF LoginStages
  <2>5. t \in Tries  BY <2>1, <2>10 DEF Tries
  <2>6. TryOK(t, bound', Len(issued'))  BY <2>1, <2>2, <2>4 DEF Tries, TryOK, InStage, PinStages, ClaimStages
  <2>  HIDE DEF t
  <2>9. Becomes(r, t) /\ Grows  BY <2>2, <2>4 DEF Becomes, Grows
  <2>7. attempt' \in [Requests -> Tries] /\ \A q \in Requests : TryOK(attempt'[q], bound', Len(issued'))
    BY <2>5, <2>6, <2>9, OneMoves
  <2>8. cookie' \in [Panels -> 0..Len(issued')]  BY <2>2, <2>4 DEF LoginTypeInv
  <2>  QED  BY <2>2, <2>4, <2>7, <2>8 DEF LoginTypeInv
<1>10. ASSUME NEW r \in Requests, RevokeSession(r)  PROVE LoginTypeInv'
  <2>  DEFINE c == attempt[r].cookie
              t == [attempt[r] EXCEPT !.stage = "answer", !.cookie = NoCookie]
  <2>1. InStage(r, "revoke") /\ attempt[r] \in Tries /\ TryOK(attempt[r], bound, Len(issued))
    BY <1>10 DEF RevokeSession, LoginTypeInv
  <2>2. attempt' = [attempt EXCEPT ![r] = t]
        /\ UNCHANGED <<moment, linked, bound, fails, cookie, deviceCookie, optOut, wrong, claims, met>>
    BY <1>10 DEF RevokeSession, cookies, past
  <2>3. issued' \in Seq(Sessions) /\ Len(issued') = Len(issued) /\ Len(issued) \in Nat /\ bound \in Nat
    <3>1. issued \in Seq(Sessions) /\ Len(issued) \in Nat /\ bound \in Nat  BY DEF LoginTypeInv
    <3>2. CASE ~Good(c)  BY <3>1, <3>2, <1>10 DEF RevokeSession
    <3>3. CASE Good(c)
      <4>5. c \in Nat /\ c # 0 /\ c <= Len(issued)  BY <3>3, <2>1 DEF Good, NoCookie, Tries, TryOK
      <4>1. c \in DOMAIN issued  BY <4>5, <3>1
      <4>6. issued[c] \in Sessions  BY <3>1, <4>1
      <4>2. [issued[c] EXCEPT !.good = FALSE] \in Sessions  BY <4>6 DEF Sessions
      <4>3. issued' = [issued EXCEPT ![c] = [issued[c] EXCEPT !.good = FALSE]]
        BY <1>10, <3>3 DEF RevokeSession
      <4>  QED  BY <3>1, <4>1, <4>2, <4>3
    <3>  QED  BY <3>2, <3>3
  <2>7. "answer" \in LoginStages /\ NoCookie \in Nat /\ NoCookie <= Len(issued)  BY <2>3 DEF LoginStages, NoCookie
  <2>8. t \in Tries  BY <2>1, <2>7 DEF Tries
  <2>9. TryOK(t, bound', Len(issued'))
    BY <2>1, <2>2, <2>3, <2>7 DEF Tries, TryOK, InStage, PinStages, ClaimStages
  <2>4. t \in Tries /\ TryOK(t, bound', Len(issued'))  BY <2>8, <2>9
  <2>  HIDE DEF t
  <2>6. Becomes(r, t) /\ Grows  BY <2>2, <2>3 DEF Becomes, Grows
  <2>5. attempt' \in [Requests -> Tries] /\ \A q \in Requests : TryOK(attempt'[q], bound', Len(issued'))
    BY <2>4, <2>6, OneMoves
  <2>  QED  BY <2>2, <2>3, <2>5 DEF LoginTypeInv
<1>11. ASSUME NEW r \in Requests, Answer(r)  PROVE LoginTypeInv'
  <2>  DEFINE b == attempt[r].on
  <2>1. InStage(r, "answer") /\ attempt[r] \in Tries /\ TryOK(attempt[r], bound, Len(issued))
    BY <1>11 DEF Answer, LoginTypeInv
  <2>2. UNCHANGED <<moment, linked, issued, bound, fails, wrong, claims, met>>
        /\ attempt' = [attempt EXCEPT ![r] = NoTry]
    BY <1>11 DEF Answer, tables, past
  <2>3. b \in Panels /\ attempt[r].cookie \in 0..Len(issued) /\ attempt[r].device \in 0..bound
        /\ bound \in Nat /\ Len(issued) \in Nat
    BY <2>1 DEF Tries, TryOK, InStage, LoginTypeInv
  <2>4. TryOK(NoTry, bound', Len(issued'))  BY <1>0, <2>2 DEF TryOK
  <2>8. Becomes(r, NoTry) /\ Grows  BY <2>2, <2>3 DEF Becomes, Grows
  <2>5. attempt' \in [Requests -> Tries] /\ \A q \in Requests : TryOK(attempt'[q], bound', Len(issued'))
    BY <1>0, <2>4, <2>8, OneMoves
  <2>6. cookie' \in [Panels -> 0..Len(issued)] /\ deviceCookie' \in [Panels -> 0..bound]
    BY <1>11, <2>3 DEF Answer, DeviceCookieSet, LoginTypeInv
  <2>7. optOut' \in [Panels -> BOOLEAN]
    <3>1. optOut' = [optOut EXCEPT ![b] = attempt[r].way = "out" \/ (optOut[b] /\ attempt[r].way # "pin")]
      BY <1>11 DEF Answer
    <3>  QED  BY <3>1, <2>3 DEF LoginTypeInv
  <2>  QED  BY <2>2, <2>5, <2>6, <2>7 DEF LoginTypeInv
<1>  QED
  BY <1>1, <1>2, <1>3, <1>4, <1>5, <1>6, <1>7, <1>8, <1>9, <1>10, <1>11 DEF LoginNext, Requests

-----------------------------------------------------------------------------
(* What a step can change besides a request *)

\* A request comes to bind a device, or under the check of a PIN, by one statement only.
LEMMA Entering ==
  ASSUME LoginTypeInv, LoginNext, NEW q \in Requests
  PROVE  /\ attempt'[q].stage = "register" => attempt'[q] = attempt[q] \/ LoadDevice(q)
         /\ attempt'[q].stage = "lookup" => attempt'[q] = attempt[q] \/ PinRateCheck(q)
<1>  DEFINE Enters == /\ attempt'[q].stage = "register" => attempt'[q] = attempt[q] \/ LoadDevice(q)
                      /\ attempt'[q].stage = "lookup" => attempt'[q] = attempt[q] \/ PinRateCheck(q)
<1>0. attempt \in [Requests -> Tries] /\ NoTry.stage = "none"  BY DEF LoginTypeInv, NoTry
<1>1. ASSUME UNCHANGED attempt  PROVE Enters  BY <1>1
<1>2. ASSUME NEW r \in Requests, NEW t, Becomes(r, t),
             t.stage = "register" => LoadDevice(r), t.stage = "lookup" => PinRateCheck(r)
      PROVE  Enters
  <2>1. CASE q = r  BY <1>0, <1>2, <2>1 DEF Becomes
  <2>2. CASE q # r  BY <1>0, <1>2, <2>2 DEF Becomes
  <2>  QED  BY <2>1, <2>2
<1>3. CASE MomentTick \/ \E c \in DOMAIN issued : SessionEnds(c)
  BY <1>1, <1>3 DEF MomentTick, SessionEnds
<1>4. ASSUME NEW r \in Requests, NEW b \in Panels,
             \/ \E who \in Workers : PinLogin(r, b, who)
             \/ AskSession(r, b) \/ LogOut(r, b) \/ ClaimAdmin(r, b)
      PROVE  Enters
  <2>1. PICK who \in Workers \cup {NoBody}, way \in Ways, stage \in {"device", "whoami", "revoke", "anyMapped"} :
          Send(r, b, who, way, stage)
    BY <1>4 DEF PinLogin, AskSession, LogOut, ClaimAdmin, Ways
  <2>  DEFINE t == [stage |-> stage, way |-> way, on |-> b, who |-> who, cookie |-> cookie[b],
                    device |-> deviceCookie[b], binds |-> FALSE, optOut |-> optOut[b]]
  <2>2. Becomes(r, t)  BY <2>1 DEF Send, Becomes
  <2>3. t.stage = stage  OBVIOUS
  <2>  HIDE DEF t, Enters
  <2>  QED  BY <1>2, <2>2, <2>3
<1>5. ASSUME NEW r \in Requests, NEW s,
             attempt' = [attempt EXCEPT ![r].stage = s] \/ attempt' = [attempt EXCEPT ![r] = NoTry],
             s = "register" => LoadDevice(r), s = "lookup" => PinRateCheck(r)
      PROVE  Enters
  <2>  DEFINE t == [attempt[r] EXCEPT !.stage = s]
  <2>1. Becomes(r, t) \/ Becomes(r, NoTry)  BY <1>5 DEF Becomes
  <2>2. t.stage = s
    <3>1. attempt[r] \in Tries  BY <1>0
    <3>  QED  BY <3>1 DEF Tries
  <2>  HIDE DEF t, Enters
  <2>  QED  BY <1>0, <1>2, <1>5, <2>1, <2>2
<1>6. ASSUME NEW r \in Requests,
             \/ LoadDevice(r) \/ PinRateCheck(r) \/ AnyMapped(r) \/ LinkAdmin(r)
             \/ \E right \in BOOLEAN : VerifyPin(r, right)
      PROVE  Enters
  <2>1. \E s \in {"rate", "register", "lookup", "session", "pick"} :
          /\ s = "register" => LoadDevice(r)
          /\ s = "lookup" => PinRateCheck(r)
          /\ attempt' = [attempt EXCEPT ![r].stage = s] \/ attempt' = [attempt EXCEPT ![r] = NoTry]
    <3>1. CASE LoadDevice(r)  BY <3>1 DEF LoadDevice, Move, Refuse
    <3>2. CASE PinRateCheck(r)  BY <3>2 DEF PinRateCheck, Move, Refuse
    <3>3. CASE AnyMapped(r)  BY <3>3 DEF AnyMapped, Move, Refuse
    <3>4. CASE LinkAdmin(r)  BY <3>4 DEF LinkAdmin, Move, Refuse
    <3>5. CASE \E right \in BOOLEAN : VerifyPin(r, right)  BY <3>5 DEF VerifyPin, Move, Refuse
    <3>  QED  BY <1>6, <3>1, <3>2, <3>3, <3>4, <3>5
  <2>  HIDE DEF Enters
  <2>  QED  BY <1>5, <2>1
<1>7. ASSUME NEW r \in Requests,
             \/ SingleSignOn(r) \/ PickAdmin(r) \/ RegisterDevice(r) \/ CreateSession(r)
             \/ RevokeSession(r) \/ Answer(r)
      PROVE  Enters
  <2>0. attempt[r] \in Tries  BY <1>0
  <2>1. CASE SingleSignOn(r)
    <3>1. PICK w : Becomes(r, [attempt[r] EXCEPT !.stage = "session", !.who = w]) \/ Becomes(r, NoTry)
      BY <2>1 DEF SingleSignOn, Refuse, Becomes
    <3>2. [attempt[r] EXCEPT !.stage = "session", !.who = w].stage = "session"  BY <2>0 DEF Tries
    <3>  HIDE DEF Enters
    <3>  QED  BY <1>0, <1>2, <3>1, <3>2
  <2>2. CASE PickAdmin(r)
    <3>1. PICK w : Becomes(r, [attempt[r] EXCEPT !.stage = "link", !.who = w]) \/ Becomes(r, NoTry)
      BY <2>2 DEF PickAdmin, Refuse, Becomes
    <3>2. [attempt[r] EXCEPT !.stage = "link", !.who = w].stage = "link"  BY <2>0 DEF Tries
    <3>  HIDE DEF Enters
    <3>  QED  BY <1>0, <1>2, <3>1, <3>2
  <2>3. CASE RegisterDevice(r)
    <3>1. Becomes(r, [attempt[r] EXCEPT !.stage = "rate", !.device = bound', !.binds = TRUE])
      BY <2>3 DEF RegisterDevice, Becomes
    <3>2. [attempt[r] EXCEPT !.stage = "rate", !.device = bound', !.binds = TRUE].stage = "rate"
      BY <2>0 DEF Tries
    <3>  HIDE DEF Enters
    <3>  QED  BY <1>2, <3>1, <3>2
  <2>4. CASE CreateSession(r) \/ RevokeSession(r)
    <3>1. PICK c : Becomes(r, [attempt[r] EXCEPT !.stage = "answer", !.cookie = c])
      BY <2>4 DEF CreateSession, RevokeSession, Becomes
    <3>2. [attempt[r] EXCEPT !.stage = "answer", !.cookie = c].stage = "answer"  BY <2>0 DEF Tries
    <3>  HIDE DEF Enters
    <3>  QED  BY <1>2, <3>1, <3>2
  <2>5. CASE Answer(r)
    <3>1. Becomes(r, NoTry)  BY <2>5 DEF Answer, Becomes
    <3>  HIDE DEF Enters
    <3>  QED  BY <1>0, <1>2, <3>1
  <2>  QED  BY <1>7, <2>1, <2>2, <2>3, <2>4, <2>5
<1>  QED  BY <1>3, <1>4, <1>6, <1>7 DEF LoginNext, Requests

\* The tables and the counters of failures each change in one statement only.
LEMMA OnlyThere ==
  ASSUME LoginNext
  PROVE  /\ bound' = bound \/ \E r \in Requests : RegisterDevice(r)
         /\ UNCHANGED <<fails, wrong>> \/ \E r \in Requests, right \in BOOLEAN : VerifyPin(r, right)
         /\ UNCHANGED <<linked, claims>> \/ \E r \in Requests : LinkAdmin(r)
         /\ moment' = moment \/ MomentTick
<1>1. CASE MomentTick \/ \E c \in DOMAIN issued : SessionEnds(c)
  BY <1>1 DEF MomentTick, SessionEnds, tables, past
<1>2. ASSUME NEW r \in Requests, NEW b \in Panels,
             \/ \E who \in Workers : PinLogin(r, b, who)
             \/ AskSession(r, b) \/ LogOut(r, b) \/ ClaimAdmin(r, b)
      PROVE  UNCHANGED <<bound, fails, wrong, linked, claims, moment>>
  BY <1>2 DEF PinLogin, AskSession, LogOut, ClaimAdmin, Send, tables
<1>3. ASSUME NEW r \in Requests, LoadDevice(r) \/ PinRateCheck(r) \/ AnyMapped(r) \/ PickAdmin(r) \/ SingleSignOn(r)
      PROVE  UNCHANGED <<bound, fails, wrong, linked, claims, moment>>
  BY <1>3 DEF LoadDevice, PinRateCheck, AnyMapped, PickAdmin, SingleSignOn, tables, past
<1>4. ASSUME NEW r \in Requests, RevokeSession(r) \/ CreateSession(r) \/ Answer(r)
      PROVE  UNCHANGED <<bound, fails, wrong, linked, claims, moment>>
  BY <1>4 DEF RevokeSession, CreateSession, Answer, tables, past
<1>5. ASSUME NEW r \in Requests, RegisterDevice(r)
      PROVE  UNCHANGED <<fails, wrong, linked, claims, moment>>
  BY <1>5 DEF RegisterDevice, past
<1>6. ASSUME NEW r \in Requests, NEW right \in BOOLEAN, VerifyPin(r, right)
      PROVE  UNCHANGED <<bound, linked, claims, moment>>
  BY <1>6 DEF VerifyPin, tables
<1>7. ASSUME NEW r \in Requests, LinkAdmin(r)
      PROVE  UNCHANGED <<bound, fails, wrong, moment>>
  BY <1>7 DEF LinkAdmin
<1>  QED  BY <1>1, <1>2, <1>3, <1>4, <1>5, <1>6, <1>7 DEF LoginNext, Requests

-----------------------------------------------------------------------------
(* The first administrator and the first devices *)

LEMMA SomeRequests ==
  /\ IsFiniteSet(Requests) /\ Cardinality(Requests) = Attempts
  /\ \A S \in SUBSET Requests : IsFiniteSet(S) /\ Cardinality(S) \in Nat /\ Cardinality(S) <= Attempts
<1>1. IsFiniteSet(Requests) /\ Cardinality(Requests) = Attempts
  BY LimitsAssumption, FS_Interval DEF Requests
<1>2. ASSUME NEW S \in SUBSET Requests
      PROVE  IsFiniteSet(S) /\ Cardinality(S) \in Nat /\ Cardinality(S) <= Attempts
  BY <1>1, <1>2, FS_Subset, FS_CardinalityType
<1>  QED  BY <1>1, <1>2

LEMMA DevicesStep ==
  ASSUME LoginTypeInv, DevicesBounded, [LoginNext]_loginVars
  PROVE  DevicesBounded'
<1>1. Registering \in SUBSET Requests /\ Registering' \in SUBSET Requests  BY DEF Registering
<1>2. /\ IsFiniteSet(Registering) /\ Cardinality(Registering) \in Nat
      /\ Cardinality(Registering') \in Nat /\ Cardinality(Registering') <= Attempts
      /\ bound \in Nat /\ Attempts \in Nat
  BY <1>1, SomeRequests, LimitsAssumption DEF LoginTypeInv
<1>3. CASE UNCHANGED loginVars
  BY <1>3 DEF loginVars, tables, DevicesBounded, Registering, InStage
<1>4. ASSUME NEW r \in Requests, RegisterDevice(r)  PROVE DevicesBounded'
  <2>1. attempt[r].stage = "register" /\ bound' = bound + 1
        /\ attempt' = [attempt EXCEPT ![r].stage = "rate", ![r].device = bound', ![r].binds = TRUE]
    BY <1>4 DEF RegisterDevice, InStage
  <2>2. attempt'[r].stage = "rate" /\ \A q \in Requests : q # r => attempt'[q] = attempt[q]
    <3>1. attempt \in [Requests -> Tries] /\ attempt[r] \in Tries  BY DEF LoginTypeInv
    <3>2. Becomes(r, [attempt[r] EXCEPT !.stage = "rate", !.device = bound', !.binds = TRUE])
      BY <2>1 DEF Becomes
    <3>3. [attempt[r] EXCEPT !.stage = "rate", !.device = bound', !.binds = TRUE].stage = "rate"
      BY <3>1 DEF Tries
    <3>  QED  BY <3>1, <3>2, <3>3 DEF Becomes
  <2>3. r \in Registering /\ Registering' = Registering \ {r}
    BY <2>1, <2>2 DEF Registering, InStage
  <2>4. Cardinality(Registering') = Cardinality(Registering) - 1
    BY <1>2, <2>3, FS_RemoveElement
  <2>  QED  BY <1>2, <2>1, <2>4 DEF DevicesBounded
<1>5. CASE LoginNext /\ bound' = bound
  <2>1. CASE Registering' \subseteq Registering
    <3>1. Cardinality(Registering') <= Cardinality(Registering)  BY <1>2, <2>1, FS_Subset
    <3>  QED  BY <1>2, <1>5, <3>1 DEF DevicesBounded
  <2>2. ASSUME NEW q \in Registering', q \notin Registering  PROVE DevicesBounded'
    <3>1. q \in Requests /\ attempt'[q].stage = "register" /\ attempt'[q] # attempt[q]
      BY <2>2 DEF Registering, InStage
    <3>2. LoadDevice(q)  BY <1>5, <3>1, Entering
    <3>3. attempt'[q].stage = "register" => bound = 0
      <4>1. attempt \in [Requests -> Tries] /\ attempt[q] \in Tries /\ NoTry.stage = "none"
        BY <3>1 DEF LoginTypeInv, NoTry
      <4>2. CASE attempt' = [attempt EXCEPT ![q] = NoTry]  BY <4>1, <4>2, <3>1
      <4>3. CASE attempt' = [attempt EXCEPT ![q].stage = "rate"]  BY <4>1, <4>3, <3>1 DEF Tries
      <4>4. bound = 0 \/ attempt' = [attempt EXCEPT ![q] = NoTry]
            \/ attempt' = [attempt EXCEPT ![q].stage = "rate"]
        BY <3>2 DEF LoadDevice, Move, Refuse
      <4>  QED  BY <4>2, <4>3, <4>4
    <3>  QED  BY <1>2, <1>5, <3>1, <3>3 DEF DevicesBounded
  <2>  QED  BY <2>1, <2>2
<1>  QED  BY <1>3, <1>4, <1>5, OnlyThere

LEMMA ClaimedStep ==
  ASSUME LoginTypeInv, ClaimedOnce, [LoginNext]_loginVars
  PROVE  ClaimedOnce'
<1>1. CASE UNCHANGED <<linked, claims>>
  BY <1>1 DEF ClaimedOnce
<1>2. ASSUME NEW r \in Requests, LinkAdmin(r), ~UNCHANGED <<linked, claims>>  PROVE ClaimedOnce'
  <2>  DEFINE w == attempt[r].who
  <2>1. /\ linked[w] = NoBody
        /\ linked' = [linked EXCEPT ![w] = Account[attempt[r].on]] /\ claims' = claims + 1
        /\ InStage(r, "link")
    BY <1>2 DEF LinkAdmin
  <2>2. w \in Admin /\ w \in Workers /\ Account[attempt[r].on] # NoBody
    BY <2>1, PeopleAssumption DEF LoginTypeInv, TryOK, InStage, ClaimStages
  <2>3. linked \in [Workers -> Accounts] /\ claims \in Nat  BY DEF LoginTypeInv
  <2>4. linked'[w] # NoBody  BY <2>1, <2>2, <2>3
  <2>5. ASSUME NEW a, Admin = {a}  PROVE claims' <= 1 /\ linked'[a] # NoBody
    <3>1. a = w  BY <2>2, <2>5
    <3>2. claims = 0  BY <2>1, <2>5, <3>1 DEF ClaimedOnce
    <3>  QED  BY <2>1, <2>4, <3>1, <3>2
  <2>  QED  BY <2>5 DEF ClaimedOnce
<1>  QED  BY <1>1, <1>2, OnlyThere DEF loginVars, tables

-----------------------------------------------------------------------------
(* The lock after wrong PINs *)

\* Time passes, requests give up; and others come under the check once the lock is open.
LEMMA LockedLater ==
  ASSUME NEW w \in Seq(Nat), NEW f \in Locks, NEW t \in Nat, NEW u \in Nat,
         NEW t1 \in Nat, NEW u1 \in Nat,
         Locked(w, f, t, u), t <= t1, u1 <= u \/ f.until <= t1
  PROVE  Locked(w, f, t1, u1)
<1>1. ASSUME NEW j \in 1..Len(w), Closed(w, f, t, u, j)  PROVE Closed(w, f, t1, u1, j)
  <2>1. w[j] \in Nat /\ f.until \in Nat /\ Len(w) \in Nat /\ WindowTime \in Nat /\ Attempts \in Nat
    BY LimitsAssumption DEF Locks
  <2>  QED  BY <1>1, <2>1 DEF Closed
<1>2. f.count \in Nat /\ Len(w) \in Nat /\ MaxFails \in Nat  BY LimitsAssumption DEF Locks
<1>3. ASSUME NEW n \in 1 .. Len(w) - f.count
      PROVE  \E j \in n .. n + MaxFails - 1 : j <= Len(w) - f.count /\ Closed(w, f, t1, u1, j)
  <2>1. PICK j \in n .. n + MaxFails - 1 : j <= Len(w) - f.count /\ Closed(w, f, t, u, j)
    BY DEF Locked
  <2>2. j \in 1..Len(w)  BY <1>2, <2>1
  <2>  QED  BY <1>1, <2>1, <2>2
<1>4. \A i \in DOMAIN w : w[i] \in Nat  OBVIOUS
<1>  QED  BY <1>3, <1>4 DEF Locked

\* A wrong PIN found out by one of those that were under the check.
LEMMA LockedWrong ==
  ASSUME NEW w \in Seq(Nat), NEW f \in Locks, NEW t \in Nat, NEW u \in Nat \ {0},
         Locked(w, f, t, u), u <= Attempts, moment = t
  PROVE  Locked(Append(w, t), AfterFail(f), t, u - 1)
<1>  DEFINE v == Append(w, t)
            m == Len(w)
<1>1. /\ f.count \in Nat /\ f.until \in Nat /\ m \in Nat /\ MaxFails \in Nat \ {0}
      /\ WindowTime \in Nat /\ Attempts \in Nat
  BY LimitsAssumption DEF Locks
<1>2. /\ Len(v) = m + 1 /\ DOMAIN v = 1 .. m + 1 /\ v[m + 1] = t
      /\ \A i \in 1..m : v[i] = w[i] /\ w[i] \in Nat
  OBVIOUS
<1>  HIDE DEF v
<1>3. (\A i \in DOMAIN v : v[i] <= t) /\ (\A i, j \in DOMAIN v : i <= j => v[i] <= v[j])
  <2>1. \A i \in 1..m : v[i] <= t  BY <1>2 DEF Locked
  <2>2. ASSUME NEW i \in 1 .. m + 1, NEW j \in 1 .. m + 1, i <= j  PROVE v[i] <= v[j]
    <3>1. CASE j = m + 1  BY <1>1, <1>2, <2>1, <3>1
    <3>2. CASE j # m + 1
      <4>1. i \in DOMAIN w /\ j \in DOMAIN w  BY <1>1, <2>2, <3>2
      <4>2. w[i] <= w[j]  BY <2>2, <4>1 DEF Locked
      <4>  QED  BY <1>2, <4>1, <4>2
    <3>  QED  BY <3>1, <3>2
  <2>  QED  BY <1>1, <1>2, <2>1, <2>2
\* Those that closed the lock before go on being right: while it is closed u are left to come.
<1>4. ASSUME NEW g \in Locks, f.until <= g.until \/ g.until = t + WindowTime,
             NEW j \in 1..m, Closed(w, f, t, u, j)
      PROVE  Closed(v, g, t, u - 1, j)
  <2>1. v[j] = w[j] /\ w[j] \in Nat /\ g.until \in Nat /\ w[j] <= t
    BY <1>2 DEF Locks, Locked
  <2>2. w[j] + WindowTime <= g.until  BY <1>1, <1>4, <2>1 DEF Closed
  <2>3. ASSUME NEW i \in 1 .. m + 1, i >= j + Attempts  PROVE v[i] >= v[j] + WindowTime
    <3>1. CASE i \in 1..m  BY <1>2, <1>4, <2>1, <2>3, <3>1 DEF Closed
    <3>2. CASE i = m + 1
      <4>1. ~(t < w[j] + WindowTime)  BY <1>1, <1>4, <2>3, <3>2 DEF Closed
      <4>  QED  BY <1>1, <1>2, <2>1, <3>2, <4>1
    <3>  QED  BY <1>1, <3>1, <3>2
  <2>4. t < v[j] + WindowTime => Len(v) - j + (u - 1) < Attempts
    BY <1>1, <1>2, <1>4, <2>1 DEF Closed
  <2>  QED  BY <1>2, <2>1, <2>2, <2>3, <2>4 DEF Closed
<1>5. CASE f.count + 1 >= MaxFails
  <2>  DEFINE g == [count |-> 0, until |-> t + WindowTime]
  <2>1. AfterFail(f) = g  BY <1>5 DEF AfterFail
  <2>2. g \in Locks /\ g.count = 0 /\ g.until = t + WindowTime  BY <1>1 DEF Locks
  <2>  HIDE DEF g
  <2>3. Closed(v, g, t, u - 1, m + 1)
    <3>1. \A i \in DOMAIN v : i >= m + 1 + Attempts => v[i] >= v[m + 1] + WindowTime
      <4>1. ASSUME NEW i \in DOMAIN v, i >= m + 1 + Attempts  PROVE FALSE
        <5>1. i \in 1 .. m + 1  BY <1>2
        <5>2. Attempts >= 1  BY <1>1
        <5>  QED  BY <1>1, <4>1, <5>1, <5>2
      <4>  QED  BY <4>1
    <3>  QED  BY <1>1, <1>2, <2>2, <3>1 DEF Closed
  <2>4. ASSUME NEW n \in 1 .. m + 1
        PROVE  \E j \in n .. n + MaxFails - 1 : j <= m + 1 /\ Closed(v, g, t, u - 1, j)
    <3>1. CASE n \in 1 .. m - f.count
      <4>1. PICK j \in n .. n + MaxFails - 1 : j <= m - f.count /\ Closed(w, f, t, u, j)
        BY <3>1 DEF Locked
      <4>2. j \in 1..m  BY <1>1, <4>1
      <4>3. Closed(v, g, t, u - 1, j)  BY <1>4, <2>2, <4>1, <4>2
      <4>  QED  BY <1>1, <4>1, <4>2, <4>3
    <3>2. CASE n > m - f.count
      <4>2. n \in Nat /\ n <= m + 1 /\ m - f.count \in Int /\ f.count < MaxFails
        BY <1>1 DEF Locked
      <4>1. m + 1 \in n .. n + MaxFails - 1  BY <1>1, <1>5, <3>2, <4>2
      <4>  QED  BY <2>3, <4>1
    <3>  QED  BY <1>1, <3>1, <3>2
  <2>5. g.count < MaxFails /\ g.count <= Len(v) /\ Len(v) - g.count = m + 1
    BY <1>1, <1>2, <2>2
  <2>6. \A n \in 1 .. Len(v) - g.count :
          \E j \in n .. n + MaxFails - 1 : j <= Len(v) - g.count /\ Closed(v, g, t, u - 1, j)
    BY <2>4, <2>5
  <2>7. Locked(v, g, t, u - 1)  BY <1>3, <2>5, <2>6 DEF Locked
  <2>  QED  BY <2>1, <2>7 DEF v
<1>6. CASE f.count + 1 < MaxFails
  <2>  DEFINE g == [f EXCEPT !.count = f.count + 1]
  <2>1. AfterFail(f) = g  BY <1>1, <1>6 DEF AfterFail
  <2>2. g \in Locks /\ g.count = f.count + 1 /\ g.until = f.until  BY <1>1 DEF Locks
  <2>  HIDE DEF g
  <2>3. g.count < MaxFails /\ g.count <= Len(v) /\ Len(v) - g.count = m - f.count
    <3>1. f.count <= m  BY DEF Locked
    <3>2. Len(v) = m + 1 /\ g.count = f.count + 1  BY <1>2, <2>2
    <3>3. \A c, n, limit \in Nat : c <= n /\ c + 1 < limit =>
            c + 1 < limit /\ c + 1 <= n + 1 /\ (n + 1) - (c + 1) = n - c
      OBVIOUS
    <3>4. f.count \in Nat /\ m \in Nat /\ MaxFails \in Nat  BY <1>1
    <3>  HIDE DEF m
    <3>  QED  BY <1>6, <3>1, <3>2, <3>3, <3>4
  <2>4. ASSUME NEW n \in 1 .. m - f.count
        PROVE  \E j \in n .. n + MaxFails - 1 : j <= m - f.count /\ Closed(v, g, t, u - 1, j)
    <3>1. PICK j \in n .. n + MaxFails - 1 : j <= m - f.count /\ Closed(w, f, t, u, j)
      BY DEF Locked
    <3>2. j \in 1..m  BY <1>1, <3>1
    <3>3. Closed(v, g, t, u - 1, j)  BY <1>1, <1>4, <2>2, <3>1, <3>2
    <3>  QED  BY <3>1, <3>3
  <2>5. \A n \in 1 .. Len(v) - g.count :
          \E j \in n .. n + MaxFails - 1 : j <= Len(v) - g.count /\ Closed(v, g, t, u - 1, j)
    BY <2>3, <2>4
  <2>6. Locked(v, g, t, u - 1)  BY <1>3, <2>3, <2>5 DEF Locked
  <2>  QED  BY <2>1, <2>6 DEF v
<1>  QED  BY <1>1, <1>5, <1>6 DEF v

LEMMA UnderFacts ==
  ASSUME NEW k
  PROVE  /\ IsFiniteSet(Under(k)) /\ Cardinality(Under(k)) \in Nat /\ Cardinality(Under(k)) <= Attempts
         /\ IsFiniteSet(Under(k)') /\ Cardinality(Under(k)') \in Nat
         /\ Under(k)' \subseteq Under(k) => Cardinality(Under(k)') <= Cardinality(Under(k))
<1>1. Under(k) \in SUBSET Requests /\ Under(k)' \in SUBSET Requests  BY DEF Under
<1>2. /\ IsFiniteSet(Under(k)) /\ Cardinality(Under(k)) \in Nat /\ Cardinality(Under(k)) <= Attempts
      /\ IsFiniteSet(Under(k)') /\ Cardinality(Under(k)') \in Nat
  BY <1>1, SomeRequests
<1>  QED  BY <1>2, FS_Subset

LEMMA LockStep ==
  ASSUME LoginTypeInv, LockInv, [LoginNext]_loginVars
  PROVE  LockInv'
<1>  SUFFICES ASSUME NEW k \in Keys
              PROVE  Locked(wrong'[k], fails'[k], moment', Cardinality(Under(k)'))
  BY DEF LockInv
<1>0. /\ wrong[k] \in Seq(Nat) /\ fails[k] \in Locks /\ moment \in Nat
      /\ Locked(wrong[k], fails[k], moment, Cardinality(Under(k)))
      /\ wrong \in [Keys -> Seq(Nat)] /\ fails \in [Keys -> Locks]
      /\ attempt \in [Requests -> Tries]
  BY DEF LoginTypeInv, LockInv
<1>1. CASE UNCHANGED loginVars
  <2>1. UNCHANGED <<wrong, fails, moment, attempt>>  BY <1>1 DEF loginVars, past
  <2>2. Under(k)' = Under(k)  BY <2>1 DEF Under, InStage, KeyOf
  <2>  QED  BY <1>0, <2>1, <2>2
<1>2. ASSUME NEW r \in Requests, NEW right \in BOOLEAN, VerifyPin(r, right)
      PROVE  Locked(wrong'[k], fails'[k], moment', Cardinality(Under(k)'))
  <2>1. moment' = moment /\ InStage(r, "lookup")  BY <1>2 DEF VerifyPin
  <2>2. ~InStage(r, "lookup")' /\ \A q \in Requests : q # r => attempt'[q] = attempt[q]
    <3>1. attempt' = [attempt EXCEPT ![r].stage = "session"] \/ attempt' = [attempt EXCEPT ![r] = NoTry]
      BY <1>2 DEF VerifyPin, Move, Refuse
    <3>2. attempt[r] \in Tries /\ NoTry.stage = "none"  BY <1>0 DEF NoTry
    <3>  QED  BY <1>0, <3>1, <3>2 DEF InStage, Tries
  <2>3. Under(k)' = Under(k) \ {r}  BY <2>2 DEF Under, InStage, KeyOf
  <2>4. CASE KeyOf(r) # k
    <3>1. wrong'[k] = wrong[k] /\ fails'[k] = fails[k]  BY <1>0, <1>2, <2>4 DEF VerifyPin
    <3>2. Cardinality(Under(k)') <= Cardinality(Under(k))  BY <2>3, UnderFacts
    <3>3. Cardinality(Under(k)') \in Nat /\ Cardinality(Under(k)) \in Nat  BY UnderFacts
    <3>4. PICK u \in Nat, u1 \in Nat : u = Cardinality(Under(k)) /\ u1 = Cardinality(Under(k)')
      BY <3>3
    <3>5. Locked(wrong[k], fails[k], moment, u) /\ u1 <= u /\ moment <= moment  BY <1>0, <3>2, <3>4
    <3>6. Locked(wrong[k], fails[k], moment, u1)  BY <1>0, <3>5, LockedLater
    <3>  QED  BY <2>1, <3>1, <3>4, <3>6
  <2>5. CASE KeyOf(r) = k /\ right
    <3>1. wrong'[k] = <<>> /\ fails'[k] = NoFails  BY <1>0, <1>2, <2>5 DEF VerifyPin
    <3>2. MaxFails \in Nat \ {0}  BY LimitsAssumption
    <3>3. NoFails.count = 0 /\ Len(<<>>) = 0 /\ DOMAIN <<>> = {}  BY DEF NoFails
    <3>  QED  BY <3>1, <3>2, <3>3 DEF Locked
  <2>6. CASE KeyOf(r) = k /\ ~right
    <3>1. wrong'[k] = Append(wrong[k], moment) /\ fails'[k] = AfterFail(fails[k])
      BY <1>0, <1>2, <2>6 DEF VerifyPin
    <3>2. r \in Under(k)  BY <2>1, <2>6 DEF Under
    <3>3. Cardinality(Under(k)') = Cardinality(Under(k)) - 1
      BY <2>3, <3>2, UnderFacts, FS_RemoveElement
    <3>4. Cardinality(Under(k)) \in Nat \ {0} /\ Cardinality(Under(k)) <= Attempts
      BY <3>2, <3>3, UnderFacts, FS_EmptySet
    <3>5. PICK u \in Nat \ {0} : u = Cardinality(Under(k)) /\ u <= Attempts  BY <3>4
    <3>6. Locked(Append(wrong[k], moment), AfterFail(fails[k]), moment, u - 1)
      BY <1>0, <3>5, LockedWrong
    <3>  QED  BY <2>1, <3>1, <3>3, <3>5, <3>6
  <2>  QED  BY <2>4, <2>5, <2>6
<1>3. CASE LoginNext /\ UNCHANGED <<fails, wrong>>
  <2>1. moment' \in Nat /\ moment <= moment'
    BY <1>0, <1>3, OnlyThere DEF MomentTick
  <2>2. Under(k)' \subseteq Under(k) \/ fails[k].until <= moment'
    <3>1. SUFFICES ASSUME NEW q \in Under(k)', q \notin Under(k)
                   PROVE  fails[k].until <= moment'
      OBVIOUS
    <3>2. q \in Requests /\ attempt'[q].stage = "lookup" /\ attempt'[q] # attempt[q]
          /\ <<attempt'[q].who, attempt'[q].device>> = k
      BY <3>1 DEF Under, InStage, KeyOf
    <3>3. PinRateCheck(q)  BY <1>3, <3>2, Entering
    <3>4. attempt[q] \in Tries /\ NoTry.stage = "none"  BY <1>0, <3>2 DEF NoTry
    <3>5. ~(moment < fails[KeyOf(q)].until) /\ attempt' = [attempt EXCEPT ![q].stage = "lookup"]
      <4>1. attempt' # [attempt EXCEPT ![q] = NoTry]  BY <1>0, <3>2, <3>4
      <4>  QED  BY <3>3, <4>1 DEF PinRateCheck, Move, Refuse
    <3>6. KeyOf(q) = k  BY <1>0, <3>2, <3>4, <3>5 DEF KeyOf, Tries
    <3>  QED  BY <1>0, <2>1, <3>5, <3>6 DEF Locks
  <2>3. PICK u \in Nat, u1 \in Nat : u = Cardinality(Under(k)) /\ u1 = Cardinality(Under(k)')
    BY UnderFacts
  <2>4. Locked(wrong[k], fails[k], moment, u) /\ (u1 <= u \/ fails[k].until <= moment')
    BY <1>0, <2>2, <2>3, UnderFacts
  <2>5. Locked(wrong[k], fails[k], moment', u1)  BY <1>0, <2>1, <2>4, LockedLater
  <2>  QED  BY <1>3, <2>3, <2>5
<1>  QED  BY <1>1, <1>2, <1>3, OnlyThere

\* Three moments in a row, the last two a window apart.
LEMMA WindowApart ==
  ASSUME NEW a \in Nat, NEW b \in Nat, NEW c \in Nat, NEW d \in Nat, a <= b, c >= b + d
  PROVE  c - a >= d
OBVIOUS

\* What the lock is for.
LEMMA LockHolds == LoginTypeInv /\ LockInv => PinLockout
<1>  SUFFICES ASSUME LoginTypeInv, LockInv, NEW k \in Keys, NEW n \in DOMAIN wrong[k],
                     n + MaxFails + Attempts - 1 \in DOMAIN wrong[k]
              PROVE  wrong[k][n + MaxFails + Attempts - 1] - wrong[k][n] >= WindowTime
  BY DEF PinLockout
<1>  DEFINE w == wrong[k]
            f == fails[k]
            later == n + MaxFails + Attempts - 1
            u == Cardinality(Under(k))
<1>1. w \in Seq(Nat) /\ f \in Locks /\ Locked(w, f, moment, u)  BY DEF LoginTypeInv, LockInv
<1>2. /\ f.count \in Nat /\ f.count < MaxFails /\ f.count <= Len(w) /\ Len(w) \in Nat
      /\ n \in 1..Len(w) /\ later \in 1..Len(w)
      /\ MaxFails \in Nat /\ Attempts \in Nat /\ WindowTime \in Nat
  BY <1>1, LimitsAssumption DEF Locked, Locks
<1>9. DOMAIN w = 1..Len(w) /\ \A i \in 1..Len(w) : w[i] \in Nat  BY <1>1
<1>  HIDE DEF w, f, later, u
<1>3. n \in 1 .. Len(w) - f.count  BY <1>2 DEF later
<1>4. PICK j \in n .. n + MaxFails - 1 : j <= Len(w) - f.count /\ Closed(w, f, moment, u, j)
  BY <1>1, <1>3 DEF Locked
<1>5. j \in 1..Len(w) /\ later >= j + Attempts /\ n <= j  BY <1>2, <1>4 DEF later
<1>6. w[later] >= w[j] + WindowTime  BY <1>2, <1>4, <1>5, <1>9 DEF Closed
<1>7. w[n] <= w[j]  BY <1>1, <1>2, <1>5, <1>9 DEF Locked
<1>8. w[n] \in Nat /\ w[j] \in Nat /\ w[later] \in Nat  BY <1>2, <1>5, <1>9
<1>10. w[later] - w[n] >= WindowTime
  <2>1. WindowTime \in Nat  BY <1>2
  <2>  QED  BY <2>1, <1>6, <1>7, <1>8, WindowApart
<1>  QED  BY <1>10 DEF w, later

-----------------------------------------------------------------------------
(* The sign-out that lasts *)

\* Sessions are added and end; what way one came about stays.
Continues ==
  \A i \in DOMAIN issued :
    /\ i \in DOMAIN issued' /\ issued'[i].way = issued[i].way
    /\ issued'[i].good => issued[i].good

\* The cookies of no panel change but of the one a request is on.
OutElsewhere(r) == \A b \in Panels : b # attempt[r].on => optOut'[b] = optOut[b]

LEMMA InformedMoves ==
  ASSUME LoginTypeInv, SsoInv, NEW r \in Requests, NEW t, Becomes(r, t), met \subseteq met', Continues,
         Informed(t, optOut', Panels \ met', issued'),
         UNCHANGED optOut \/ (attempt[r].stage # "none" /\ OutElsewhere(r))
  PROVE  \A q \in Requests : Informed(attempt'[q], optOut', Panels \ met', issued')
<1>0. attempt \in [Requests -> Tries]  BY DEF LoginTypeInv
<1>1. ASSUME NEW q \in Requests, q # r
      PROVE  Informed(attempt'[q], optOut', Panels \ met', issued')
  <2>  DEFINE o == attempt[q]
  <2>1. attempt'[q] = o  BY <1>0, <1>1 DEF Becomes
  <2>2. Informed(o, optOut, Panels \ met, issued)  BY DEF SsoInv
  <2>3. o.stage # "none" /\ o.on \in Panels \ met' => optOut'[o.on] = optOut[o.on]
    <3>1. SUFFICES ASSUME o.stage # "none", o.on \in Panels \ met'
                   PROVE  optOut'[o.on] = optOut[o.on]
      OBVIOUS
    <3>2. attempt[r].stage # "none" => attempt[r].on # o.on
      BY <1>1, <3>1 DEF SsoInv, LoginAlone, InStage
    <3>  QED  BY <3>1, <3>2 DEF OutElsewhere
  <2>4. o.stage # "none" /\ o.on \in Panels \ met' => o.optOut = optOut'[o.on]
    BY <2>2, <2>3 DEF Informed
  <2>5. o.cookie \in DOMAIN issued =>
          o.cookie \in DOMAIN issued' /\ issued'[o.cookie].way = issued[o.cookie].way
    BY DEF Continues
  <2>6. Informed(o, optOut', Panels \ met', issued')
    BY <2>2, <2>4, <2>5 DEF Informed
  <2>  QED  BY <2>1, <2>6
<1>2. attempt'[r] = t  BY <1>0 DEF Becomes
<1>  QED  BY <1>1, <1>2

LEMMA AloneMoves ==
  ASSUME LoginTypeInv, LoginAlone, NEW r \in Requests, NEW t, Becomes(r, t), met \subseteq met',
         \/ t.stage = "none"
         \/ t.on = attempt[r].on /\ attempt[r].stage # "none"
         \/ \A q \in Requests : attempt[q].on = t.on => t.on \in met'
  PROVE  LoginAlone'
<1>0. /\ attempt \in [Requests -> Tries] /\ attempt'[r] = t
      /\ \A q \in Requests : q # r => attempt'[q] = attempt[q]
  BY DEF LoginTypeInv, Becomes
<1>1. ASSUME NEW b \in Panels \ met', NEW q \in Requests, NEW p \in Requests, q # r, p # r,
             attempt'[q].on = b, attempt'[p].on = b, attempt'[q].stage # "none", attempt'[p].stage # "none"
      PROVE  q = p
  BY <1>0, <1>1 DEF LoginAlone, InStage
<1>2. ASSUME NEW b \in Panels \ met', NEW q \in Requests, q # r,
             attempt'[q].on = b, t.on = b, attempt'[q].stage # "none", t.stage # "none"
      PROVE  FALSE
  BY <1>0, <1>2 DEF LoginAlone, InStage
<1>  QED  BY <1>0, <1>1, <1>2 DEF LoginAlone, InStage

\* The cookies of the panels stay, so a signed-out one stays so.
LEMMA SignedOutKept ==
  ASSUME LoginTypeInv, SignedOutStays, Continues, met \subseteq met', UNCHANGED <<cookie, optOut>>
  PROVE  SignedOutStays'
<1>1. ASSUME NEW b \in Panels \ met', optOut'[b], Good(cookie[b])'
      PROVE  issued'[cookie'[b]].way = "claim"
  <2>  DEFINE c == cookie[b]
  <2>1. c \in 0..Len(issued) /\ issued \in Seq(Sessions)  BY DEF LoginTypeInv
  <2>2. c # NoCookie /\ issued'[c].good  BY <1>1 DEF Good
  <2>3. c \in DOMAIN issued  BY <2>1, <2>2 DEF NoCookie
  <2>4. Good(c)  BY <2>2, <2>3 DEF Good, Continues
  <2>5. issued[c].way = "claim"  BY <1>1, <2>4 DEF SignedOutStays
  <2>  QED  BY <2>3, <2>5 DEF Continues
<1>  QED  BY <1>1 DEF SignedOutStays

\* A step that sets no cookie, and leaves a request on its panel with what it knows.
LEMMA SsoMoves ==
  ASSUME LoginTypeInv, SsoInv, NEW r \in Requests, NEW t, Becomes(r, t), Continues,
         UNCHANGED <<cookie, optOut, met>>,
         \/ t.stage = "none" /\ t.way = "none"
         \/ /\ attempt[r].stage # "none" /\ t.stage # "none"
            /\ t.on = attempt[r].on /\ t.way = attempt[r].way /\ t.optOut = attempt[r].optOut
            /\ t.way = "sso" /\ t.stage \in {"session", "answer"} => ~t.optOut
            /\ t.stage = "answer" =>
                 IF t.way = "out" THEN t.cookie = NoCookie
                 ELSE t.cookie \in DOMAIN issued' /\ issued'[t.cookie].way = t.way
  PROVE  SsoInv'
<1>1. LoginAlone'  BY AloneMoves DEF SsoInv
<1>2. SignedOutStays'  BY SignedOutKept DEF SsoInv
<1>3. Informed(t, optOut', Panels \ met', issued')
  BY DEF SsoInv, Informed
<1>4. \A q \in Requests : Informed(attempt'[q], optOut', Panels \ met', issued')
  BY <1>3, InformedMoves
<1>  QED  BY <1>1, <1>2, <1>4 DEF SsoInv

LEMMA SsoStep ==
  ASSUME LoginTypeInv, SsoInv, [LoginNext]_loginVars
  PROVE  SsoInv'
<1>0. /\ attempt \in [Requests -> Tries] /\ issued \in Seq(Sessions)
      /\ NoTry.stage = "none" /\ NoTry.way = "none"
  BY DEF LoginTypeInv, NoTry
<1>1. UNCHANGED issued => Continues  BY DEF Continues
<1>2. CASE Continues /\ UNCHANGED <<attempt, cookie, optOut, met>>
  <2>1. SignedOutStays'  BY <1>2, SignedOutKept DEF SsoInv
  <2>2. LoginAlone'  BY <1>2 DEF SsoInv, LoginAlone, InStage
  <2>3. ASSUME NEW q \in Requests
        PROVE  Informed(attempt'[q], optOut', Panels \ met', issued')
    <3>1. Informed(attempt[q], optOut, Panels \ met, issued)  BY DEF SsoInv
    <3>  QED  BY <1>2, <3>1 DEF Informed, Continues
  <2>  QED  BY <2>1, <2>2, <2>3 DEF SsoInv
<1>3. CASE UNCHANGED loginVars \/ MomentTick
  BY <1>1, <1>2, <1>3 DEF loginVars, MomentTick, tables, cookies, past
<1>4. ASSUME NEW c \in DOMAIN issued, SessionEnds(c)  PROVE SsoInv'
  <2>1. issued' = [issued EXCEPT ![c].good = FALSE] /\ issued[c] \in Sessions
    BY <1>0, <1>4 DEF SessionEnds
  <2>2. Continues  BY <1>0, <2>1 DEF Continues, Sessions
  <2>  QED  BY <1>2, <1>4, <2>2 DEF SessionEnds, cookies, past
<1>5. ASSUME NEW r \in Requests, NEW b \in Panels,
             \/ \E who \in Workers : PinLogin(r, b, who)
             \/ AskSession(r, b) \/ LogOut(r, b) \/ ClaimAdmin(r, b)
      PROVE  SsoInv'
  <2>1. PICK who, way, stage :
          Send(r, b, who, way, stage) /\ stage \in {"device", "whoami", "revoke", "anyMapped"}
    BY <1>5 DEF PinLogin, AskSession, LogOut, ClaimAdmin
  <2>  DEFINE t == [stage |-> stage, way |-> way, on |-> b, who |-> who, cookie |-> cookie[b],
                    device |-> deviceCookie[b], binds |-> FALSE, optOut |-> optOut[b]]
  <2>2. /\ Becomes(r, t) /\ UNCHANGED <<issued, cookie, optOut>>
        /\ met' = met \cup {c \in {b} : \E q \in Requests : attempt[q].on = b}
    BY <2>1 DEF Send, Becomes, tables, cookies, Requests
  <2>3. t.stage = stage /\ t.on = b /\ t.optOut = optOut[b]  OBVIOUS
  <2>  HIDE DEF t
  <2>4. met \subseteq met' /\ \A q \in Requests : attempt[q].on = t.on => t.on \in met'
    BY <2>2, <2>3
  <2>5. LoginAlone'  BY <2>2, <2>4, AloneMoves DEF SsoInv
  <2>6. SignedOutStays'  BY <1>1, <2>2, <2>4, SignedOutKept DEF SsoInv
  <2>7. Informed(t, optOut', Panels \ met', issued')
    BY <2>1, <2>2, <2>3 DEF Informed
  <2>8. \A q \in Requests : Informed(attempt'[q], optOut', Panels \ met', issued')
    BY <1>1, <2>2, <2>4, <2>7, InformedMoves
  <2>  QED  BY <2>5, <2>6, <2>8 DEF SsoInv
<1>6. ASSUME NEW r \in Requests, NEW s, attempt[r].stage # "none", s \notin {"none", "answer"},
             s = "session" => attempt[r].way # "sso",
             UNCHANGED <<issued, cookie, optOut, met>>,
             attempt' = [attempt EXCEPT ![r].stage = s] \/ attempt' = [attempt EXCEPT ![r] = NoTry]
      PROVE  SsoInv'
  <2>  DEFINE t == [attempt[r] EXCEPT !.stage = s]
  <2>1. Becomes(r, t) \/ Becomes(r, NoTry)  BY <1>6 DEF Becomes
  <2>2. /\ t.stage = s /\ t.on = attempt[r].on /\ t.way = attempt[r].way
        /\ t.optOut = attempt[r].optOut
    <3>1. attempt[r] \in Tries  BY <1>0
    <3>  QED  BY <3>1 DEF Tries
  <2>  HIDE DEF t
  <2>  QED  BY <1>0, <1>1, <1>6, <2>1, <2>2, SsoMoves
<1>7. ASSUME NEW r \in Requests,
             \/ LoadDevice(r) \/ PinRateCheck(r) \/ AnyMapped(r) \/ LinkAdmin(r)
             \/ \E right \in BOOLEAN : VerifyPin(r, right)
      PROVE  SsoInv'
  <2>0. TryOK(attempt[r], bound, Len(issued))  BY DEF LoginTypeInv
  <2>1. \E s \in {"rate", "register", "lookup", "session", "pick"} :
          /\ attempt[r].stage # "none" /\ (s = "session" => attempt[r].way # "sso")
          /\ UNCHANGED <<issued, cookie, optOut, met>>
          /\ attempt' = [attempt EXCEPT ![r].stage = s] \/ attempt' = [attempt EXCEPT ![r] = NoTry]
    <3>1. CASE LoadDevice(r)  BY <3>1 DEF LoadDevice, Move, Refuse, InStage, tables
    <3>2. CASE PinRateCheck(r)  BY <3>2 DEF PinRateCheck, Move, Refuse, InStage, tables
    <3>3. CASE AnyMapped(r)  BY <3>3 DEF AnyMapped, Move, Refuse, InStage, tables
    <3>4. CASE LinkAdmin(r)
      <4>1. attempt[r].way # "sso" /\ attempt[r].stage # "none"
        BY <2>0, <3>4 DEF LinkAdmin, InStage, TryOK, ClaimStages
      <4>  QED  BY <3>4, <4>1 DEF LinkAdmin, Move, Refuse
    <3>5. CASE \E right \in BOOLEAN : VerifyPin(r, right)
      <4>1. attempt[r].way # "sso" /\ attempt[r].stage # "none"
        BY <2>0, <3>5 DEF VerifyPin, InStage, TryOK, PinStages
      <4>  QED  BY <3>5, <4>1 DEF VerifyPin, Move, Refuse, tables
    <3>  QED  BY <1>7, <3>1, <3>2, <3>3, <3>4, <3>5
  <2>  QED  BY <1>6, <2>1
<1>8. ASSUME NEW r \in Requests, SingleSignOn(r) \/ PickAdmin(r) \/ RegisterDevice(r)  PROVE SsoInv'
  <2>0. attempt[r] \in Tries /\ TryOK(attempt[r], bound, Len(issued)) /\ attempt[r].stage # "none"
        /\ UNCHANGED <<issued, cookie, optOut, met>>
    BY <1>0, <1>8 DEF LoginTypeInv, SingleSignOn, PickAdmin, RegisterDevice, InStage, tables, cookies
  <2>1. PICK t : /\ Becomes(r, t)
                 /\ \/ t = NoTry
                    \/ \E w : t = [attempt[r] EXCEPT !.stage = "session", !.who = w] /\ ~attempt[r].optOut
                    \/ \E w : t = [attempt[r] EXCEPT !.stage = "link", !.who = w]
                    \/ \E d : t = [attempt[r] EXCEPT !.stage = "rate", !.device = d, !.binds = TRUE]
    <3>1. CASE SingleSignOn(r)
      <4>1. CASE attempt' = [attempt EXCEPT ![r] = NoTry]  BY <4>1 DEF Becomes
      <4>2. CASE attempt' # [attempt EXCEPT ![r] = NoTry]
        <5>1. PICK w : attempt' = [attempt EXCEPT ![r].stage = "session", ![r].who = w]
          BY <3>1, <4>2 DEF SingleSignOn, Refuse
        <5>2. ~attempt[r].optOut  BY <3>1, <4>2 DEF SingleSignOn, Refuse
        <5>3. Becomes(r, [attempt[r] EXCEPT !.stage = "session", !.who = w])  BY <5>1 DEF Becomes
        <5>  QED  BY <5>2, <5>3
      <4>  QED  BY <4>1, <4>2
    <3>2. CASE PickAdmin(r)
      <4>1. CASE attempt' = [attempt EXCEPT ![r] = NoTry]  BY <4>1 DEF Becomes
      <4>2. CASE attempt' # [attempt EXCEPT ![r] = NoTry]
        <5>1. PICK w : attempt' = [attempt EXCEPT ![r].stage = "link", ![r].who = w]
          BY <3>2, <4>2 DEF PickAdmin, Refuse
        <5>3. Becomes(r, [attempt[r] EXCEPT !.stage = "link", !.who = w])  BY <5>1 DEF Becomes
        <5>  QED  BY <5>3
      <4>  QED  BY <4>1, <4>2
    <3>3. CASE RegisterDevice(r)
      <4>1. attempt' = [attempt EXCEPT ![r] =
                          [attempt[r] EXCEPT !.stage = "rate", !.device = bound', !.binds = TRUE]]
        BY <3>3 DEF RegisterDevice
      <4>  QED  BY <4>1 DEF Becomes
    <3>  QED  BY <1>8, <3>1, <3>2, <3>3
  <2>2. \/ t.stage = "none" /\ t.way = "none"
        \/ /\ t.stage \in {"session", "link", "rate"}
           /\ t.on = attempt[r].on /\ t.way = attempt[r].way /\ t.optOut = attempt[r].optOut
           /\ t.stage = "session" => ~t.optOut
    BY <1>0, <2>0, <2>1 DEF Tries
  <2>  QED  BY <1>1, <2>0, <2>1, <2>2, SsoMoves
<1>9. ASSUME NEW r \in Requests, CreateSession(r)  PROVE SsoInv'
  <2>  DEFINE t == [attempt[r] EXCEPT !.stage = "answer", !.cookie = Len(issued) + 1]
              s == [who |-> attempt[r].who, way |-> attempt[r].way, good |-> TRUE]
  <2>1. /\ Becomes(r, t) /\ issued' = Append(issued, s) /\ InStage(r, "session")
        /\ UNCHANGED <<cookie, optOut, met>>
    BY <1>9 DEF CreateSession, Becomes, cookies
  <2>2. attempt[r] \in Tries /\ attempt[r].stage = "session" /\ TryOK(attempt[r], bound, Len(issued))
        /\ Informed(attempt[r], optOut, Panels \ met, issued)
    BY <2>1 DEF LoginTypeInv, SsoInv, InStage
  <2>3. /\ t.stage = "answer" /\ t.on = attempt[r].on /\ t.way = attempt[r].way
        /\ t.optOut = attempt[r].optOut /\ t.cookie = Len(issued) + 1
    BY <2>2 DEF Tries
  <2>4. s.way = attempt[r].way  OBVIOUS
  <2>  HIDE DEF t, s
  <2>5. Continues  BY <1>0, <2>1 DEF Continues
  <2>6. t.cookie \in DOMAIN issued' /\ issued'[t.cookie].way = t.way
    BY <1>0, <2>1, <2>3, <2>4
  <2>7. t.way # "out" /\ (t.way = "sso" => ~t.optOut)
    BY <2>2, <2>3 DEF TryOK, Informed
  <2>  QED  BY <2>1, <2>2, <2>3, <2>5, <2>6, <2>7, SsoMoves
<1>10. ASSUME NEW r \in Requests, RevokeSession(r)  PROVE SsoInv'
  <2>  DEFINE c == attempt[r].cookie
              t == [attempt[r] EXCEPT !.stage = "answer", !.cookie = NoCookie]
  <2>1. /\ Becomes(r, t) /\ InStage(r, "revoke") /\ UNCHANGED <<cookie, optOut, met>>
        /\ issued' = IF Good(c) THEN [issued EXCEPT ![c].good = FALSE] ELSE issued
    BY <1>10 DEF RevokeSession, Becomes, cookies
  <2>2. attempt[r] \in Tries /\ attempt[r].stage = "revoke" /\ attempt[r].way = "out"
    BY <2>1 DEF LoginTypeInv, TryOK, InStage
  <2>3. /\ t.stage = "answer" /\ t.on = attempt[r].on /\ t.way = "out" /\ attempt[r].way = "out"
        /\ t.optOut = attempt[r].optOut /\ t.cookie = NoCookie
    BY <2>2 DEF Tries
  <2>  HIDE DEF t
  <2>4. Continues
    <3>1. CASE ~Good(c)  BY <2>1, <3>1 DEF Continues
    <3>2. CASE Good(c)
      <4>1. issued' = [issued EXCEPT ![c].good = FALSE]  BY <2>1, <3>2
      <4>2. ASSUME NEW i \in DOMAIN issued
            PROVE  /\ i \in DOMAIN issued' /\ issued'[i].way = issued[i].way
                   /\ issued'[i].good => issued[i].good
        <5>1. issued[i] \in Sessions  BY <1>0
        <5>  QED  BY <1>0, <4>1, <5>1 DEF Sessions
      <4>  QED  BY <4>2 DEF Continues
    <3>  QED  BY <3>1, <3>2
  <2>  QED  BY <2>1, <2>2, <2>3, <2>4, SsoMoves
<1>11. ASSUME NEW r \in Requests, Answer(r)  PROVE SsoInv'
  <2>  DEFINE b == attempt[r].on
  <2>1. /\ Becomes(r, NoTry) /\ attempt[r].stage = "answer" /\ UNCHANGED <<issued, met>>
        /\ cookie' = [cookie EXCEPT ![b] = attempt[r].cookie]
        /\ optOut' = [optOut EXCEPT ![b] = attempt[r].way = "out" \/ (optOut[b] /\ attempt[r].way # "pin")]
    BY <1>11 DEF Answer, Becomes, InStage, tables
  <2>2. /\ b \in Panels /\ attempt[r].way \in Ways /\ attempt[r].optOut \in BOOLEAN
        /\ cookie \in [Panels -> 0..Len(issued)] /\ optOut \in [Panels -> BOOLEAN]
    BY <2>1, <1>0 DEF LoginTypeInv, TryOK, Tries
  <2>3. Informed(attempt[r], optOut, Panels \ met, issued)  BY DEF SsoInv
  <2>4. OutElsewhere(r)  BY <2>1, <2>2 DEF OutElsewhere
  <2>5. LoginAlone'  BY <1>0, <2>1, AloneMoves DEF SsoInv
  <2>6. Informed(NoTry, optOut', Panels \ met', issued')  BY <1>0 DEF Informed
  <2>7. \A q \in Requests : Informed(attempt'[q], optOut', Panels \ met', issued')
    BY <1>1, <2>1, <2>4, <2>6, InformedMoves
  <2>8. ASSUME NEW p \in Panels \ met, optOut'[p], Good(cookie'[p])
        PROVE  issued[cookie'[p]].way = "claim"
    <3>1. CASE p # b
      <4>1. optOut'[p] = optOut[p] /\ cookie'[p] = cookie[p]  BY <2>1, <2>2, <3>1
      <4>  QED  BY <2>8, <4>1 DEF SsoInv, SignedOutStays
    <3>2. CASE p = b
      <4>1. cookie'[p] = attempt[r].cookie  BY <2>1, <2>2, <3>2
      <4>2. attempt[r].way = "out" \/ (optOut[b] /\ attempt[r].way # "pin")
        BY <2>1, <2>2, <2>8, <3>2
      <4>3. attempt[r].way # "out"
        BY <2>1, <2>3, <2>8, <4>1 DEF Informed, Good
      <4>4. attempt[r].optOut = optOut[b]  BY <2>1, <2>3, <3>2 DEF Informed
      <4>5. attempt[r].way # "sso"  BY <2>1, <2>3, <4>2, <4>3, <4>4 DEF Informed
      <4>6. issued[attempt[r].cookie].way = attempt[r].way /\ attempt[r].cookie \in DOMAIN issued
        BY <2>1, <2>3, <4>3 DEF Informed
      <4>7. issued[attempt[r].cookie].way \in {"pin", "sso", "claim"}
        <5>1. issued[attempt[r].cookie] \in Sessions  BY <1>0, <4>6
        <5>  QED  BY <5>1 DEF Sessions
      <4>  QED  BY <4>1, <4>2, <4>3, <4>5, <4>6, <4>7
    <3>  QED  BY <3>1, <3>2
  <2>9. SignedOutStays'  BY <2>1, <2>8 DEF SignedOutStays, Good
  <2>  QED  BY <2>5, <2>7, <2>9 DEF SsoInv
<1>  QED
  BY <1>3, <1>4, <1>5, <1>7, <1>8, <1>9, <1>10, <1>11 DEF LoginNext, Requests

-----------------------------------------------------------------------------

LEMMA InvInit == LoginInit => LoginIInv
<1>  SUFFICES ASSUME LoginInit PROVE LoginIInv  OBVIOUS
<1>1. LoginTypeInv  BY TypeInit
<1>2. \A r \in Requests : attempt[r] = NoTry  BY DEF LoginInit, Requests
<1>3. NoTry.stage = "none" /\ NoTry.way = "none"  BY DEF NoTry
<1>4. DevicesBounded
  <2>1. Registering = {}  BY <1>2, <1>3 DEF Registering, InStage
  <2>  QED  BY <2>1, FS_EmptySet, LimitsAssumption DEF DevicesBounded, LoginInit
<1>5. ClaimedOnce  BY DEF LoginInit, ClaimedOnce
<1>6. LockInv
  <2>1. ASSUME NEW k \in Keys  PROVE Locked(wrong[k], fails[k], moment, Cardinality(Under(k)))
    <3>1. wrong[k] = <<>> /\ fails[k] = NoFails  BY DEF LoginInit
    <3>2. NoFails.count = 0 /\ Len(<<>>) = 0 /\ DOMAIN <<>> = {}  BY DEF NoFails
    <3>  QED  BY <3>1, <3>2, LimitsAssumption DEF Locked
  <2>  QED  BY <2>1 DEF LockInv
<1>7. SsoInv
  <2>1. LoginAlone  BY <1>2, <1>3 DEF LoginAlone, InStage
  <2>2. SignedOutStays  BY DEF SignedOutStays, LoginInit, Good
  <2>3. \A r \in Requests : Informed(attempt[r], optOut, Panels \ met, issued)
    BY <1>2, <1>3 DEF Informed
  <2>  QED  BY <2>1, <2>2, <2>3 DEF SsoInv
<1>  QED  BY <1>1, <1>4, <1>5, <1>6, <1>7 DEF LoginIInv

\* Whatever requests meet, the tables, the locks, the cookies and the requests keep to the
\* invariant (device-auth.ts, auth.ts, routes/auth.ts).
THEOREM LoginInvariant == LoginSpec => []LoginIInv
<1>1. LoginInit => LoginIInv  BY InvInit
<1>2. LoginIInv /\ [LoginNext]_loginVars => LoginIInv'
  BY TypeStep, DevicesStep, ClaimedStep, LockStep, SsoStep DEF LoginIInv
<1>  QED  BY <1>1, <1>2, PTL DEF LoginSpec

\* The lock lets no more wrong PINs through in its time than the limit and those that were under
\* way; a single administrator is claimed once, and no more devices bind themselves than requests
\* can be in progress; and a panel that was signed out is not signed in again silently unless two
\* of its requests met.
THEOREM LoginAlwaysHolds == LoginSpec => []LoginHolds
<1>1. LoginIInv => LoginHolds
  <2>  SUFFICES ASSUME LoginIInv PROVE LoginHolds  OBVIOUS
  <2>1. PinLockout  BY LockHolds DEF LoginIInv
  <2>2. BootstrappedOnce
    <3>1. bound <= Attempts
      <4>1. Registering \in SUBSET Requests  BY DEF Registering
      <4>2. Cardinality(Registering) \in Nat  BY <4>1, SomeRequests
      <4>  QED  BY <4>2, LimitsAssumption DEF LoginIInv, LoginTypeInv, DevicesBounded
    <3>2. ASSUME Cardinality(Admin) = 1  PROVE claims <= 1
      <4>1. IsFiniteSet(Admin)  BY PeopleAssumption, FS_Subset
      <4>2. PICK a : Admin = {a}  BY <3>2, <4>1, FS_Singleton
      <4>  QED  BY <4>2 DEF LoginIInv, ClaimedOnce
    <3>  QED  BY <3>1, <3>2 DEF BootstrappedOnce
  <2>3. SignedOutStays  BY DEF LoginIInv, SsoInv
  <2>  QED  BY <2>1, <2>2, <2>3 DEF LoginHolds
<1>  QED  BY <1>1, LoginInvariant, PTL

-----------------------------------------------------------------------------
(***************************************************************************)
(* The kiosk's saved punches, for any number of employees, punches,        *)
(* sign-ins and errors: while savings and flushes do not cross the list is *)
(* a queue (KeepsQueue), and while no punch is handled ahead of the saved  *)
(* ones no employee is given a punch twice (NoPunchTwice).                 *)
(*                                                                         *)
(* The argument: the one flush that runs works on the very list that is    *)
(* stored; a punch that was made before is at the head of the list, and    *)
(* its employee is in the state it led to, which it does not fit again.    *)
(***************************************************************************)
Waiting == tap.stage # "idle"

\* While nothing crosses: the flush that runs is alone with the list that is stored.
OneFlush ==
  /\ \A f \in Flushes : Running(f) => flush[f].list = stored
  /\ \A f, g \in Flushes : Running(f) /\ Running(g) => f = g

\* Punches are numbered as they are tapped, and the one in progress is the newest.
Numbered ==
  /\ \A k \in DOMAIN stored : stored[k].id <= taps
  /\ \A j, k \in DOMAIN stored : j < k => stored[j].id < stored[k].id
  /\ Waiting => Head(tap.list).id = taps /\ \A k \in DOMAIN stored : stored[k].id < taps

\* The employee of an accepted punch p is where a repetition of punch h would lead.
Led(p, h) == p.id = h.id => (clockedIn[p.for] <=> h.kind = "in")

\* A punch that was made waits, if at all, at the head of the list, or in the page with
\* nothing ahead of it.
Leads(p) ==
  /\ p.for \in Employees /\ p.id <= taps
  /\ \A k \in DOMAIN stored : k > 1 => stored[k].id # p.id
  /\ stored # <<>> => Led(p, Head(stored))
  /\ Waiting /\ stored # <<>> => Head(tap.list).id # p.id
  /\ Waiting /\ stored = <<>> => Led(p, Head(tap.list))

Distinct == \A k, l \in DOMAIN accepted : accepted[k] = accepted[l] => k = l

MadeOnce == Distinct /\ \A k \in DOMAIN accepted : Leads(accepted[k])

\* Types; the page sends one punch at a time.
TapOK == TypeOK /\ (Waiting => Len(tap.list) = 1)

\* The invariant: what the theorems say, and why the next step keeps it so.
QueueInv ==
  /\ TapOK
  /\ ~crossed => OneFlush /\ KeepsQueue /\ Numbered
  /\ ~crossed /\ ~overtaken => MadeOnce

-----------------------------------------------------------------------------
(* Sequences *)

\* A head that moves over to what is in front of the list leaves the whole as it was.
LEMMA HeadMovesOver ==
  ASSUME NEW S, NEW a \in Seq(S), NEW b \in Seq(S), b # <<>>
  PROVE  Append(a, Head(b)) \o Tail(b) = a \o b
OBVIOUS

\* An element added at the end of the list is added to the whole.
LEMMA EndGrows ==
  ASSUME NEW S, NEW a \in Seq(S), NEW b \in Seq(S), NEW x \in S
  PROVE  a \o Append(b, x) = Append(a \o b, x)
OBVIOUS

\* An element of the set keeps a list in it.
LEMMA AppendKeeps ==
  ASSUME NEW S, NEW list \in Seq(S), NEW x \in S
  PROVE  Append(list, x) \in Seq(S)
OBVIOUS

\* The numbers of a list, and of a list that grows or loses its head.
LEMMA IdsOfList ==
  ASSUME NEW T, \A p \in T : p.id \in Nat, NEW list \in Seq(T)
  PROVE  /\ Ids(list) \in Seq(Nat)
         /\ \A p \in T : Ids(Append(list, p)) = Append(Ids(list), p.id)
         /\ list # <<>> => /\ Ids(list) # <<>> /\ Head(Ids(list)) = Head(list).id
                           /\ Ids(Tail(list)) = Tail(Ids(list))
<1>1. Ids(list) \in Seq(Nat) /\ Len(Ids(list)) = Len(list)
      /\ \A k \in DOMAIN list : Ids(list)[k] = list[k].id
  BY DEF Ids
<1>2. ASSUME NEW p \in T PROVE Ids(Append(list, p)) = Append(Ids(list), p.id)
  BY <1>1 DEF Ids
<1>3. ASSUME list # <<>>
      PROVE  /\ Ids(list) # <<>> /\ Head(Ids(list)) = Head(list).id
             /\ Ids(Tail(list)) = Tail(Ids(list))
  BY <1>1, <1>3 DEF Ids
<1>. QED  BY <1>1, <1>2, <1>3

-----------------------------------------------------------------------------
(* Types *)

\* Work stays work.
LEMMA WorkFits ==
  /\ Idle \in WorkType
  /\ \A list \in Seq(PunchType), as \in Employees \cup {NoOne} :
       [stage |-> "sent", list |-> list, as |-> as, answer |-> "ok"] \in WorkType
  /\ \A w \in WorkType :
       /\ w.list \in Seq(PunchType) /\ w.as \in Employees \cup {NoOne} /\ w.answer \in Answers
       /\ w.stage \in {"idle", "sent", "answered"}
       /\ \A answer \in Answers :
            /\ [w EXCEPT !.stage = "answered", !.answer = answer] \in WorkType
            /\ [w EXCEPT !.stage = "answered", !.answer = answer].list = w.list
            /\ [w EXCEPT !.stage = "answered", !.answer = answer].stage = "answered"
<1>1. Idle \in WorkType
  BY DEF WorkType, Idle, Answers
<1>2. ASSUME NEW list \in Seq(PunchType), NEW as \in Employees \cup {NoOne}
      PROVE  [stage |-> "sent", list |-> list, as |-> as, answer |-> "ok"] \in WorkType
  BY DEF WorkType, Answers
<1>3. ASSUME NEW w \in WorkType
      PROVE  /\ w.list \in Seq(PunchType) /\ w.as \in Employees \cup {NoOne} /\ w.answer \in Answers
             /\ w.stage \in {"idle", "sent", "answered"}
  BY DEF WorkType
<1>4. ASSUME NEW w \in WorkType, NEW answer \in Answers
      PROVE  /\ [w EXCEPT !.stage = "answered", !.answer = answer] \in WorkType
             /\ [w EXCEPT !.stage = "answered", !.answer = answer].list = w.list
             /\ [w EXCEPT !.stage = "answered", !.answer = answer].stage = "answered"
  <2>1. [w EXCEPT !.stage = "answered", !.answer = answer] \in WorkType
    BY DEF WorkType
  <2>2. /\ [w EXCEPT !.stage = "answered", !.answer = answer].list = w.list
        /\ [w EXCEPT !.stage = "answered", !.answer = answer].stage = "answered"
    BY DEF WorkType
  <2>. QED  BY <2>1, <2>2
<1>. QED  BY <1>1, <1>2, <1>3, <1>4

\* A punch the server handles is made for its employee, or not.
LEMMA HandleTypes ==
  ASSUME TypeOK, NEW request \in WorkType, request.list # <<>>, NEW answer \in Answers,
         Handle(request, answer)
  PROVE  /\ clockedIn' \in [Employees -> BOOLEAN]
         /\ accepted' \in Seq([id : 1..MaxTaps, for : Employees])
         /\ errors' \in 0..MaxErrors
         /\ UNCHANGED <<stored, page, online, session, saved, settled, crossed, taps, signIns>>
<1>1. PICK punch, emp : punch = Head(request.list) /\ emp = request.as
  OBVIOUS
<1>2. punch \in PunchType /\ emp \in Employees \cup {NoOne}
  <2>1. request.list \in Seq(PunchType) /\ request.as \in Employees \cup {NoOne}
    BY WorkFits
  <2>. QED  BY <1>1, <2>1
<1>3. punch.id \in 1..MaxTaps /\ punch.kind \in Kinds
  BY <1>2 DEF PunchType
<1>4. \/ UNCHANGED server
      \/ /\ clockedIn' = [clockedIn EXCEPT ![emp] = (punch.kind = "in")]
         /\ accepted' = Append(accepted, [id |-> punch.id, for |-> emp])
         /\ emp # NoOne
  BY <1>1 DEF Handle
<1>5. clockedIn' \in [Employees -> BOOLEAN]
  BY <1>2, <1>4 DEF TypeOK, server
<1>6. accepted' \in Seq([id : 1..MaxTaps, for : Employees])
  <2>1. emp # NoOne => [id |-> punch.id, for |-> emp] \in [id : 1..MaxTaps, for : Employees]
    BY <1>2, <1>3
  <2>2. accepted \in Seq([id : 1..MaxTaps, for : Employees])
    BY DEF TypeOK
  <2>3. CASE UNCHANGED server
    BY <2>2, <2>3 DEF server
  <2>4. CASE ~(UNCHANGED server)
    <3>1. PICK row : row \in [id : 1..MaxTaps, for : Employees] /\ accepted' = Append(accepted, row)
      BY <1>4, <2>1, <2>4
    <3>. QED  BY <2>2, <3>1, AppendKeeps
  <2>. QED  BY <2>3, <2>4
<1>7. errors' \in 0..MaxErrors
  BY BoundsAssumption DEF Handle, TypeOK
<1>8. UNCHANGED <<stored, page, online, session, saved, settled, crossed, taps, signIns>>
  BY DEF Handle
<1>. QED  BY <1>5, <1>6, <1>7, <1>8

\* What is stored, sent or replayed is a list of punches; the page's own list has one.
LEMMA TypesKept ==
  ASSUME TapOK, [Next]_vars
  PROVE  TapOK'
<1>0. TypeOK
  BY DEF TapOK
<1>. USE DEF TapOK, Waiting, Running
<1>1. ASSUME NEW kind \in Kinds, Tap(kind) PROVE TapOK'
  <2>1. PICK punch, list : /\ punch = [id |-> taps + 1, by |-> session, kind |-> kind] /\ list = <<punch>>
                           /\ tap' = [stage |-> "sent", list |-> list, as |-> session, answer |-> "ok"]
    BY <1>1 DEF Tap, Sent
  <2>2. punch \in PunchType
    BY <1>0, <1>1, <2>1, BoundsAssumption DEF TypeOK, Tap, PunchType
  <2>3. list \in Seq(PunchType) /\ Len(list) = 1 /\ session \in Employees \cup {NoOne}
    BY <1>0, <2>1, <2>2 DEF TypeOK
  <2>4. tap' \in WorkType /\ Len(tap'.list) = 1
    BY <2>1, <2>3, WorkFits
  <2>. QED  BY <1>0, <1>1, <2>4, BoundsAssumption DEF TypeOK, Tap, server, history
<1>2. CASE HandleTap
  <2>1. PICK answer \in Answers : Handle(tap, answer) /\ tap' = [tap EXCEPT !.stage = "answered", !.answer = answer]
    BY <1>2 DEF HandleTap
  <2>2. tap \in WorkType /\ tap.list # <<>>
    BY <1>0, <2>1 DEF TypeOK, Handle
  <2>3. tap' \in WorkType /\ tap'.list = tap.list
    BY <2>1, <2>2, WorkFits
  <2>. QED  BY <1>0, <1>2, <2>1, <2>2, <2>3, HandleTypes DEF TypeOK, HandleTap, Handle
<1>3. CASE TapAnswered
  BY <1>0, <1>3, WorkFits DEF TypeOK, TapAnswered, Idle, server, history, bounds
<1>4. CASE TapQueued
  <2>0. tap \in WorkType /\ Len(tap.list) = 1
    BY <1>0, <1>4 DEF TypeOK, TapQueued
  <2>1. tap.list \in Seq(PunchType)
    BY <2>0, WorkFits
  <2>2. Head(tap.list) \in PunchType /\ Head(tap.list).id \in 1..MaxTaps
    <3>1. Head(tap.list) \in PunchType
      BY <2>0, <2>1
    <3>. QED  BY <3>1 DEF PunchType
  <2>3. stored' \in Seq(PunchType) /\ saved' \in Seq(1..MaxTaps)
    BY <1>0, <1>4, <2>2, AppendKeeps DEF TypeOK, TapQueued
  <2>. QED  BY <1>0, <1>4, <2>3, WorkFits DEF TypeOK, TapQueued, Idle, server, bounds
<1>5. CASE OpenPage \/ GoOnline
  <2>1. \/ UNCHANGED flush
        \/ stored # <<>> /\ \E f \in Flushes : flush' = [flush EXCEPT ![f] = Sent(stored)]
    BY <1>5 DEF OpenPage, GoOnline, StartFlush
  <2>2. Sent(stored) \in WorkType /\ Sent(stored).list = stored
    BY <1>0, WorkFits DEF TypeOK, Sent
  <2>3. flush' \in [Flushes -> WorkType] /\ \A f \in Flushes : Running(f)' => flush'[f].list # <<>>
    BY <1>0, <2>1, <2>2 DEF TypeOK
  <2>. QED  BY <1>0, <1>5, <2>3 DEF TypeOK, OpenPage, GoOnline, StartFlush, server, bounds
<1>6. CASE LeavePage \/ GoOffline \/ ChangeSession
  <2>1. CASE LeavePage
    BY <1>0, <2>1 DEF TypeOK, LeavePage, server, history, bounds
  <2>2. CASE GoOffline
    BY <1>0, <2>2 DEF TypeOK, GoOffline, kiosk, server, history, bounds
  <2>3. CASE ChangeSession
    BY <1>0, <2>3, BoundsAssumption DEF TypeOK, ChangeSession, kiosk, server, history
  <2>. QED  BY <1>6, <2>1, <2>2, <2>3
<1>7. CASE Reload
  BY <1>0, <1>7, WorkFits DEF TypeOK, Reload, Idle, server, history, bounds
<1>8. ASSUME NEW f \in Flushes, HandleReplay(f) PROVE TapOK'
  <2>1. PICK answer \in Answers : /\ Handle(flush[f], answer)
                                  /\ flush' = [flush EXCEPT ![f].stage = "answered", ![f].answer = answer]
    BY <1>8 DEF HandleReplay
  <2>2. flush[f] \in WorkType /\ flush[f].list # <<>>
    BY <1>0, <2>1 DEF TypeOK, Handle
  <2>3. flush'[f] \in WorkType /\ flush'[f].list = flush[f].list
    <3>1. flush'[f] = [flush[f] EXCEPT !.stage = "answered", !.answer = answer]
      BY <1>0, <2>1 DEF TypeOK
    <3>2. PICK w \in WorkType : w = flush[f]
      BY <2>2
    <3>3. /\ [w EXCEPT !.stage = "answered", !.answer = answer] \in WorkType
          /\ [w EXCEPT !.stage = "answered", !.answer = answer].list = w.list
      BY <2>1, <3>2, WorkFits
    <3>. QED  BY <3>1, <3>2, <3>3
  <2>4. flush' \in [Flushes -> WorkType] /\ \A g \in Flushes : Running(g)' => flush'[g].list # <<>>
    BY <1>0, <2>1, <2>2, <2>3 DEF TypeOK
  <2>. QED  BY <1>0, <1>8, <2>1, <2>2, <2>4, HandleTypes DEF TypeOK, HandleReplay, Handle
<1>9. ASSUME NEW f \in Flushes, ReplayAnswered(f) PROVE TapOK'
  <2>1. flush[f] \in WorkType /\ flush[f].list # <<>>
    BY <1>0, <1>9 DEF TypeOK, ReplayAnswered
  <2>2. flush[f].list \in Seq(PunchType) /\ flush[f].as \in Employees \cup {NoOne} /\ flush[f].answer \in Answers
    BY <2>1, WorkFits
  <2>3. Rest(f) \in Seq(PunchType) /\ Head(flush[f].list) \in PunchType
    BY <2>1, <2>2 DEF Rest
  <2>4. settled' \in Seq([id : 1..MaxTaps, by : Employees, as : Employees \cup {NoOne}, answer : Answers])
    <3>1. PICK row : /\ row \in [id : 1..MaxTaps, by : Employees, as : Employees \cup {NoOne}, answer : Answers]
                     /\ settled' = Append(settled, row)
      BY <1>9, <2>2, <2>3 DEF ReplayAnswered, Settle, PunchType
    <3>. QED  BY <1>0, <3>1, AppendKeeps DEF TypeOK
  <2>5. Sent(Rest(f)) \in WorkType /\ Sent(Rest(f)).list = Rest(f)
    BY <1>0, <2>3, WorkFits DEF TypeOK, Sent
  <2>6. flush' \in [Flushes -> WorkType] /\ \A g \in Flushes : Running(g)' => flush'[g].list # <<>>
    BY <1>0, <1>9, <2>5, WorkFits DEF TypeOK, ReplayAnswered, Continue, Idle
  <2>. QED  BY <1>0, <1>9, <2>3, <2>4, <2>6 DEF TypeOK, ReplayAnswered, server, bounds
<1>10. ASSUME NEW f \in Flushes, ReplayFailed(f) PROVE TapOK'
  BY <1>0, <1>10, WorkFits DEF TypeOK, ReplayFailed, Idle, server, history, bounds
<1>11. CASE UNCHANGED vars
  BY <1>0, <1>11 DEF TypeOK, vars, kiosk, server, history, bounds
<1>. QED  BY <1>1, <1>2, <1>3, <1>4, <1>5, <1>6, <1>7, <1>8, <1>9, <1>10, <1>11
          DEF Next, FlushStep

AcceptedType == [id : 1..MaxTaps, for : Employees]

\* The numbers of the accepted punches are numbers.
LEMMA AcceptedFits ==
  ASSUME TypeOK
  PROVE  \A k \in DOMAIN accepted : accepted[k].id \in Nat
<1>1. accepted \in Seq(AcceptedType)
  BY DEF TypeOK, AcceptedType
<1>2. \A k \in DOMAIN accepted : accepted[k] \in AcceptedType
  BY <1>1
<1>. QED  BY <1>2 DEF AcceptedType

\* The numbers of the stored punches are numbers.
LEMMA StoredFits ==
  ASSUME TypeOK
  PROVE  \A k \in DOMAIN stored : stored[k] \in PunchType /\ stored[k].id \in Nat
<1>1. stored \in Seq(PunchType)
  BY DEF TypeOK
<1>2. \A k \in DOMAIN stored : stored[k] \in PunchType
  BY <1>1
<1>. QED  BY <1>2 DEF PunchType

\* So are those of the settled ones, and a row with one more adds it at the end.
SettledType == [id : 1..MaxTaps, by : Employees, as : Employees \cup {NoOne}, answer : Answers]

LEMMA SettledFits ==
  ASSUME TypeOK
  PROVE  /\ Ids(settled) \in Seq(Nat)
         /\ \A row \in SettledType : Ids(Append(settled, row)) = Append(Ids(settled), row.id)
<1>1. settled \in Seq(SettledType)
  BY DEF TypeOK, SettledType
<1>2. \A p \in SettledType : p.id \in Nat
  BY DEF SettledType
<1>. QED  BY <1>1, <1>2, IdsOfList

-----------------------------------------------------------------------------
(* The queue *)

\* The list stays as it is, and the requests carry what they carried, if they go on.
Still ==
  /\ UNCHANGED <<stored, saved, settled, taps, crossed>>
  /\ tap'.stage # "idle" => Waiting /\ tap'.list = tap.list
  /\ \A f \in Flushes : Running(f)' => Running(f) /\ flush'[f].list = flush[f].list

\* Such a step leaves the queue as it was.
LEMMA StillKept ==
  ASSUME Still, OneFlush, KeepsQueue, Numbered
  PROVE  (OneFlush /\ KeepsQueue /\ Numbered)'
BY DEF Still, OneFlush, KeepsQueue, Numbered, Waiting, Running, Ids

\* While nothing crosses, a step adds to the end of the queue, takes its head away, or
\* leaves it as it is.
LEMMA QueueKept ==
  ASSUME TapOK, TapOK', [Next]_vars, ~crossed => OneFlush /\ KeepsQueue /\ Numbered
  PROVE  (~crossed => OneFlush /\ KeepsQueue /\ Numbered)'
<1>. SUFFICES ASSUME ~crossed' PROVE (OneFlush /\ KeepsQueue /\ Numbered)'
  OBVIOUS
<1>. USE DEF Running
<1>0. TypeOK /\ ~crossed /\ OneFlush /\ KeepsQueue /\ Numbered
  <2>1. crossed => crossed'
    BY DEF Next, FlushStep, Tap, HandleTap, Handle, TapAnswered, TapQueued, OpenPage, LeavePage, Reload,
       GoOffline, GoOnline, StartFlush, ChangeSession, HandleReplay, ReplayAnswered, ReplayFailed,
       vars, kiosk, history
  <2>. QED  BY <2>1 DEF TapOK
<1>2. ASSUME NEW kind \in Kinds, Tap(kind) PROVE (OneFlush /\ KeepsQueue /\ Numbered)'
  <2>1. UNCHANGED <<stored, flush, saved, settled, crossed>> /\ taps' = taps + 1 /\ taps \in Nat
    BY <1>0, <1>2, BoundsAssumption DEF Tap, history, TypeOK
  <2>2. Head(tap'.list).id = taps'
    BY <1>2, <2>1 DEF Tap, Sent
  <2>3. \A k \in DOMAIN stored : stored[k].id \in Nat
    BY <1>0, StoredFits
  <2>4. Numbered'
    BY <1>0, <2>1, <2>2, <2>3 DEF Numbered, Waiting
  <2>. QED  BY <1>0, <2>1, <2>4 DEF OneFlush, KeepsQueue, Ids
<1>3. CASE HandleTap
  <2>1. /\ UNCHANGED <<stored, flush, saved, settled, taps, crossed>>
        /\ Waiting /\ tap'.list = tap.list
    <3>1. tap \in WorkType
      BY <1>0 DEF TypeOK
    <3>. QED  BY <1>3, <3>1 DEF HandleTap, Handle, WorkType, Waiting
  <2>2. Still
    BY <2>1 DEF Still, Waiting
  <2>. QED  BY <1>0, <2>2, StillKept
<1>4. CASE TapAnswered
  <2>0. UNCHANGED <<stored, flush, saved, settled, taps, crossed>> /\ tap'.stage = "idle"
    BY <1>4 DEF TapAnswered, Idle, history, bounds
  <2>1. Still
    BY <2>0 DEF Still, Waiting
  <2>. QED  BY <1>0, <2>1, StillKept
<1>5. CASE TapQueued
  <2>1. PICK punch \in PunchType : punch = Head(tap.list)
    <3>1. tap.list \in Seq(PunchType) /\ Len(tap.list) = 1
      BY <1>5, WorkFits DEF TapOK, TypeOK, TapQueued, Waiting
    <3>. QED  BY <3>1
  <2>2. stored' = Append(stored, punch) /\ saved' = Append(saved, punch.id) /\ stored \in Seq(PunchType)
    BY <1>0, <1>5, <2>1 DEF TapQueued, TypeOK
  <2>3. (\A f \in Flushes : ~Running(f)) /\ UNCHANGED <<flush, settled, taps>> /\ tap'.stage = "idle"
    BY <1>5 DEF TapQueued, Idle, bounds
  <2>4. \A p \in PunchType : p.id \in Nat
    BY DEF PunchType
  <2>5. KeepsQueue'
    <3>1. saved = Ids(settled) \o Ids(stored)
      BY <1>0 DEF KeepsQueue
    <3>2. Ids(stored) \in Seq(Nat) /\ Ids(stored') = Append(Ids(stored), punch.id)
      BY <2>2, <2>4, IdsOfList
    <3>3. Ids(settled) \in Seq(Nat)
      BY <1>0, SettledFits
    <3>4. Ids(settled) \o Append(Ids(stored), punch.id) = Append(Ids(settled) \o Ids(stored), punch.id)
      BY <2>4, <3>2, <3>3, EndGrows
    <3>. QED  BY <2>2, <2>3, <3>1, <3>2, <3>4 DEF KeepsQueue
  <2>6. Numbered'
    <3>1. punch.id = taps /\ \A k \in DOMAIN stored : stored[k].id < taps
      BY <1>0, <1>5, <2>1 DEF Numbered, Waiting, TapQueued
    <3>2. taps \in Nat /\ \A k \in DOMAIN stored : stored[k].id \in Nat
      BY <1>0, <2>2, <2>4 DEF TypeOK
    <3>3. DOMAIN stored' = 1..(Len(stored) + 1) /\ DOMAIN stored = 1..Len(stored)
          /\ \A k \in DOMAIN stored : stored'[k] = stored[k]
          /\ stored'[Len(stored) + 1] = punch
      BY <2>2
    <3>4. ASSUME NEW k \in DOMAIN stored' PROVE stored'[k].id <= taps
      <4>1. k \in DOMAIN stored \/ k = Len(stored) + 1
        BY <3>3
      <4>2. CASE k \in DOMAIN stored
        BY <3>1, <3>2, <3>3, <4>2
      <4>3. CASE k = Len(stored) + 1
        <5>1. stored'[k] = punch
          BY <2>1, <2>2, <4>3
        <5>. QED  BY <3>1, <3>2, <5>1
      <4>. QED  BY <4>1, <4>2, <4>3
    <3>5. ASSUME NEW j \in DOMAIN stored', NEW k \in DOMAIN stored', j < k PROVE stored'[j].id < stored'[k].id
      <4>1. j \in DOMAIN stored /\ (k \in DOMAIN stored \/ k = Len(stored) + 1)
        BY <2>2, <3>3, <3>5
      <4>. QED  BY <1>0, <3>1, <3>2, <3>3, <3>5, <4>1 DEF Numbered
    <3>. QED  BY <2>3, <3>4, <3>5 DEF Numbered, Waiting
  <2>7. OneFlush'
    BY <2>3 DEF OneFlush
  <2>. QED  BY <2>5, <2>6, <2>7
<1>6. CASE OpenPage \/ GoOnline
  <2>1. /\ UNCHANGED <<stored, tap, saved, settled, taps>>
        /\ StartFlush \/ UNCHANGED <<flush, crossed>>
    BY <1>6 DEF OpenPage, GoOnline, bounds
  <2>2. CASE UNCHANGED flush
    BY <1>0, <2>1, <2>2 DEF OneFlush, KeepsQueue, Numbered, Waiting, Ids
  <2>3. CASE ~(UNCHANGED flush)
    <3>1. PICK f \in Flushes : flush' = [flush EXCEPT ![f] = Sent(stored)]
      BY <2>1, <2>3 DEF StartFlush
    <3>2. \A g \in Flushes : ~Running(g)
      BY <2>1, <2>3 DEF StartFlush
    <3>3. DOMAIN flush = Flushes
      BY <1>0 DEF TypeOK
    <3>4. OneFlush'
      BY <2>1, <3>1, <3>2, <3>3 DEF OneFlush, Sent
    <3>. QED  BY <1>0, <2>1, <3>4 DEF KeepsQueue, Numbered, Waiting, Ids
  <2>. QED  BY <2>2, <2>3
<1>7. CASE LeavePage \/ GoOffline \/ ChangeSession \/ UNCHANGED vars
  <2>1. Still
    BY <1>7 DEF Still, LeavePage, GoOffline, ChangeSession, Waiting, vars, kiosk, history, bounds
  <2>. QED  BY <1>0, <2>1, StillKept
<1>8. CASE Reload
  <2>1. \A f \in Flushes : flush'[f].stage = "idle"
    BY <1>8 DEF Reload, Idle
  <2>0. UNCHANGED <<stored, saved, settled, taps, crossed>> /\ tap'.stage = "idle"
    BY <1>8 DEF Reload, Idle, history, bounds
  <2>2. Still
    BY <2>0, <2>1 DEF Still, Waiting
  <2>. QED  BY <1>0, <2>2, StillKept
<1>9. ASSUME NEW f \in Flushes, HandleReplay(f) PROVE (OneFlush /\ KeepsQueue /\ Numbered)'
  <2>1. /\ UNCHANGED <<stored, tap, saved, settled, taps, crossed>>
        /\ Running(f) /\ flush'[f].list = flush[f].list /\ flush'[f].stage # "idle"
        /\ \A g \in Flushes \ {f} : flush'[g] = flush[g]
    <3>1. flush[f] \in WorkType /\ flush \in [Flushes -> WorkType]
      BY <1>0 DEF TypeOK
    <3>. QED  BY <1>9, <3>1 DEF HandleReplay, Handle, WorkType
  <2>2. Still
    BY <2>1 DEF Still, Waiting
  <2>. QED  BY <1>0, <2>2, StillKept
<1>10. ASSUME NEW f \in Flushes, ReplayAnswered(f) PROVE (OneFlush /\ KeepsQueue /\ Numbered)'
  <2>1. Running(f) /\ flush[f].list = stored /\ (\A g \in Flushes \ {f} : ~Running(g)) /\ stored # <<>>
    BY <1>0, <1>10 DEF ReplayAnswered, OneFlush, TypeOK
  <2>2. /\ stored' = Tail(stored) /\ stored \in Seq(PunchType)
        /\ UNCHANGED <<tap, saved, taps>>
    BY <1>0, <1>10, <2>1 DEF ReplayAnswered, Rest, TypeOK, bounds
  <2>3. OneFlush'
    <3>1. \A g \in Flushes \ {f} : flush'[g] = flush[g]
      BY <1>0, <1>10 DEF ReplayAnswered, Continue, TypeOK
    <3>2. flush'[f].stage = "idle" \/ flush'[f].list = stored'
      BY <1>0, <1>10, <2>1, <2>2 DEF ReplayAnswered, Continue, Rest, Idle, Sent, TypeOK
    <3>. QED  BY <2>1, <3>1, <3>2 DEF OneFlush
  <2>4. KeepsQueue'
    <3>1. saved = Ids(settled) \o Ids(stored)
      BY <1>0 DEF KeepsQueue
    <3>2. \A p \in PunchType : p.id \in Nat
      BY DEF PunchType
    <3>3. Ids(stored) \in Seq(Nat) /\ Ids(stored) # <<>> /\ Head(Ids(stored)) = Head(stored).id
          /\ Ids(stored') = Tail(Ids(stored))
      BY <2>1, <2>2, <3>2, IdsOfList
    <3>4. Ids(settled) \in Seq(Nat) /\ Ids(settled') = Append(Ids(settled), Head(stored).id)
      <4>1. flush[f].as \in Employees \cup {NoOne} /\ flush[f].answer \in Answers
        <5>1. flush[f] \in WorkType
          BY <1>0 DEF TypeOK
        <5>. QED  BY <5>1, WorkFits
      <4>2. PICK row \in SettledType : settled' = Append(settled, row) /\ row.id = Head(stored).id
        <5>1. Head(stored) \in PunchType
          BY <2>1, <2>2
        <5>. QED  BY <1>10, <2>1, <4>1, <5>1 DEF ReplayAnswered, Settle, SettledType, PunchType
      <4>. QED  BY <1>0, <4>2, SettledFits
    <3>5. Append(Ids(settled), Head(Ids(stored))) \o Tail(Ids(stored)) = Ids(settled) \o Ids(stored)
      BY <3>3, <3>4, HeadMovesOver
    <3>. QED  BY <2>2, <3>1, <3>3, <3>4, <3>5 DEF KeepsQueue
  <2>5. Numbered'
    <3>1. /\ DOMAIN stored = 1..Len(stored) /\ DOMAIN stored' = 1..(Len(stored) - 1)
          /\ \A k \in DOMAIN stored' : stored'[k] = stored[k + 1]
          /\ Len(stored) \in Nat
      BY <2>1, <2>2
    <3>. QED  BY <1>0, <2>2, <3>1 DEF Numbered, Waiting
  <2>. QED  BY <2>3, <2>4, <2>5
<1>11. ASSUME NEW f \in Flushes, ReplayFailed(f) PROVE (OneFlush /\ KeepsQueue /\ Numbered)'
  <2>1. ASSUME NEW g \in Flushes
        PROVE  Running(g)' => Running(g) /\ flush'[g].list = flush[g].list
    <3>1. PICK w : w.stage = "idle" /\ flush' = [flush EXCEPT ![f] = w]
      BY <1>11 DEF ReplayFailed, Idle
    <3>2. flush'[g] = IF g = f THEN w ELSE flush[g]
      BY <1>0, <3>1 DEF TypeOK
    <3>. QED  BY <3>1, <3>2
  <2>2. UNCHANGED <<stored, tap, saved, settled, taps, crossed>>
    BY <1>11 DEF ReplayFailed, history, bounds
  <2>3. Still
    BY <2>1, <2>2 DEF Still, Waiting
  <2>. QED  BY <1>0, <2>3, StillKept
<1>. QED  BY <1>2, <1>3, <1>4, <1>5, <1>6, <1>7, <1>8, <1>9, <1>10, <1>11
          DEF Next, FlushStep

-----------------------------------------------------------------------------
(* No punch twice *)

\* The step makes no punch, keeps the list, and the page asks what it asked, if anything.
Quiet ==
  /\ UNCHANGED <<stored, taps, clockedIn, accepted>>
  /\ Waiting' => Waiting /\ tap'.list = tap.list

\* Such a step leaves what was made where it was.
LEMMA QuietKept ==
  ASSUME Quiet, MadeOnce
  PROVE  MadeOnce'
BY DEF Quiet, MadeOnce, Distinct, Leads, Led

\* The step makes this punch for this employee, whom it fits.
Makes(punch, emp) ==
  /\ clockedIn[emp] = (punch.kind = "out")
  /\ clockedIn' = [clockedIn EXCEPT ![emp] = (punch.kind = "in")]
  /\ accepted' = Append(accepted, [id |-> punch.id, for |-> emp])

\* A punch fits only if it was not made for this employee before, and leads to a state it
\* does not fit; what other punches led to stays.
LEMMA MadeAnew ==
  ASSUME TypeOK, Distinct, NEW punch \in PunchType, NEW emp \in Employees, Makes(punch, emp),
         \A k \in DOMAIN accepted : accepted[k].for \in Employees /\ Led(accepted[k], punch)
  PROVE  /\ Distinct'
         /\ \A k \in DOMAIN accepted : Led(accepted[k], punch)'
         /\ Led([id |-> punch.id, for |-> emp], punch)'
         /\ \A k \in DOMAIN accepted' : \/ accepted'[k] = [id |-> punch.id, for |-> emp]
                                        \/ k \in DOMAIN accepted /\ accepted'[k] = accepted[k]
<1>1. punch.kind \in {"in", "out"} /\ clockedIn \in [Employees -> BOOLEAN]
  BY DEF TypeOK, PunchType, Kinds
<1>2. ASSUME NEW k \in DOMAIN accepted, accepted[k].id = punch.id PROVE accepted[k].for # emp
  BY <1>1, <1>2 DEF Led, Makes
<1>3. \A e \in Employees : clockedIn'[e] = IF e = emp THEN punch.kind = "in" ELSE clockedIn[e]
  BY <1>1 DEF Makes
<1>4. PICK row : /\ row = [id |-> punch.id, for |-> emp] /\ row.id = punch.id /\ row.for = emp
                 /\ row \in [id : 1..MaxTaps, for : Employees]
  <2>1. punch.id \in 1..MaxTaps
    BY DEF PunchType
  <2>2. [id |-> punch.id, for |-> emp] \in [id : 1..MaxTaps, for : Employees]
    BY <2>1
  <2>. QED  BY <2>2
<1>5. /\ DOMAIN accepted = 1..Len(accepted) /\ DOMAIN accepted' = 1..(Len(accepted) + 1)
      /\ Len(accepted) \in Nat
      /\ \A k \in DOMAIN accepted : accepted'[k] = accepted[k]
      /\ accepted'[Len(accepted) + 1] = row
  <2>1. accepted \in Seq([id : 1..MaxTaps, for : Employees]) /\ accepted' = Append(accepted, row)
    BY <1>4 DEF TypeOK, Makes
  <2>. QED  BY <1>4, <2>1
<1>6. \A k \in DOMAIN accepted' : k \in DOMAIN accepted \/ (k = Len(accepted) + 1 /\ k \notin DOMAIN accepted)
  BY <1>5
<1>7. \A k \in DOMAIN accepted : accepted[k] # row
  BY <1>2, <1>4
<1>8. Distinct'
  <2>. SUFFICES ASSUME NEW k \in DOMAIN accepted', NEW l \in DOMAIN accepted', accepted'[k] = accepted'[l]
                PROVE  k = l
    BY DEF Distinct
  <2>1. CASE k \in DOMAIN accepted /\ l \in DOMAIN accepted
    BY <1>5, <2>1 DEF Distinct
  <2>2. CASE k \notin DOMAIN accepted \/ l \notin DOMAIN accepted
    BY <1>5, <1>6, <1>7, <2>2
  <2>. QED  BY <2>1, <2>2
<1>9. ASSUME NEW k \in DOMAIN accepted PROVE Led(accepted[k], punch)'
  <2>1. accepted'[k] = accepted[k]
    BY <1>5
  <2>. QED  BY <1>2, <1>3, <2>1 DEF Led
<1>10. Led([id |-> punch.id, for |-> emp], punch)'
  BY <1>3 DEF Led
<1>. QED  BY <1>4, <1>5, <1>6, <1>8, <1>9, <1>10

\* A handled request makes its punch or none.
LEMMA HandleMakes ==
  ASSUME TypeOK, NEW request \in WorkType, request.list # <<>>, NEW answer \in Answers,
         Handle(request, answer)
  PROVE  \/ UNCHANGED <<clockedIn, accepted>>
         \/ request.as \in Employees /\ Makes(Head(request.list), request.as)
<1>1. request.as \in Employees \cup {NoOne}
  BY WorkFits
<1>2. \/ UNCHANGED server
      \/ /\ request.as # NoOne /\ Takes(Head(request.list).kind, request.as)
         /\ clockedIn' = [clockedIn EXCEPT ![request.as] = (Head(request.list).kind = "in")]
         /\ accepted' = Append(accepted, [id |-> Head(request.list).id, for |-> request.as])
  BY DEF Handle
<1>. QED  BY <1>1, <1>2 DEF Makes, Takes, server

\* While nothing crosses or overtakes, whatever is made is made once.
LEMMA OnceKept ==
  ASSUME TapOK, TapOK', [Next]_vars, OneFlush, Numbered, MadeOnce, ~crossed', ~overtaken'
  PROVE  MadeOnce'
<1>. USE DEF Running
<1>0. TypeOK /\ Distinct /\ \A k \in DOMAIN accepted : Leads(accepted[k])
  BY DEF TapOK, MadeOnce
<1>1. ASSUME NEW kind \in Kinds, Tap(kind) PROVE MadeOnce'
  <2>1. /\ UNCHANGED <<stored, clockedIn, accepted>> /\ taps' = taps + 1 /\ taps \in Nat
        /\ Head(tap'.list).id = taps'
    BY <1>0, <1>1, BoundsAssumption DEF Tap, server, TypeOK, Sent
  <2>2. ASSUME NEW k \in DOMAIN accepted PROVE Leads(accepted[k])'
    <3>1. accepted[k].id \in Nat
      BY <1>0, AcceptedFits
    <3>2. Leads(accepted[k]) /\ accepted'[k] = accepted[k]
      BY <1>0, <2>1
    <3>3. accepted[k].id < taps'
      BY <2>1, <3>1, <3>2 DEF Leads
    <3>. QED  BY <2>1, <3>1, <3>2, <3>3 DEF Leads, Led
  <2>. QED  BY <1>0, <2>1, <2>2 DEF MadeOnce, Distinct
<1>2. CASE HandleTap
  <2>1. PICK answer \in Answers : /\ Handle(tap, answer)
                                  /\ tap' = [tap EXCEPT !.stage = "answered", !.answer = answer]
    BY <1>2 DEF HandleTap
  <2>2. tap \in WorkType /\ Len(tap.list) = 1 /\ Waiting /\ stored = <<>> /\ UNCHANGED <<stored, taps>>
    BY <1>0, <1>2, <2>1 DEF TypeOK, TapOK, Handle, Waiting, HandleTap
  <2>3. tap'.list = tap.list /\ tap.list \in Seq(PunchType)
    BY <2>1, <2>2, WorkFits
  <2>4. PICK punch \in PunchType : punch = Head(tap.list)
    BY <2>2, <2>3
  <2>5. CASE UNCHANGED <<clockedIn, accepted>>
    <3>1. Quiet
      BY <2>2, <2>3, <2>5 DEF Quiet
    <3>. QED  BY <3>1, QuietKept
  <2>6. CASE tap.as \in Employees /\ Makes(punch, tap.as)
    <3>0. PICK emp \in Employees : emp = tap.as
      BY <2>6
    <3>1. \A k \in DOMAIN accepted : accepted[k].for \in Employees /\ Led(accepted[k], punch)
      BY <1>0, <2>2, <2>4 DEF Leads
    <3>2. /\ Distinct'
          /\ \A k \in DOMAIN accepted : Led(accepted[k], punch)'
          /\ Led([id |-> punch.id, for |-> emp], punch)'
          /\ \A k \in DOMAIN accepted' : \/ accepted'[k] = [id |-> punch.id, for |-> emp]
                                         \/ k \in DOMAIN accepted /\ accepted'[k] = accepted[k]
      BY <1>0, <2>6, <3>0, <3>1, MadeAnew
    <3>3. ASSUME NEW k \in DOMAIN accepted' PROVE Leads(accepted[k])'
      <4>1. Led(accepted[k], punch)'
        BY <3>2 DEF Led
      <4>2. accepted'[k].for \in Employees /\ accepted'[k].id <= taps
        <5>1. punch.id <= taps
          BY <2>2, <2>4, <1>0 DEF Numbered, TypeOK
        <5>. QED  BY <1>0, <2>6, <3>2, <5>1 DEF Leads
      <4>3. stored' = <<>> /\ Head(tap'.list) = punch /\ taps' = taps
        BY <2>2, <2>3, <2>4
      <4>. QED  BY <4>1, <4>2, <4>3 DEF Leads, Led
    <3>. QED  BY <3>2, <3>3 DEF MadeOnce
  <2>. QED  BY <1>0, <2>1, <2>2, <2>4, <2>5, <2>6, HandleMakes
<1>3. CASE TapQueued
  <2>1. /\ Waiting /\ ~Waiting' /\ stored' = Append(stored, Head(tap.list))
        /\ UNCHANGED <<taps, clockedIn, accepted>>
    BY <1>3 DEF TapQueued, Waiting, Idle, server, bounds
  <2>2. PICK punch \in PunchType : punch = Head(tap.list)
    <3>1. tap.list \in Seq(PunchType) /\ Len(tap.list) = 1
      BY <2>1, WorkFits DEF TapOK, TypeOK
    <3>. QED  BY <3>1
  <2>3. stored \in Seq(PunchType) /\ stored' = Append(stored, punch)
    BY <1>0, <2>1, <2>2 DEF TypeOK
  <2>4. /\ \A k \in DOMAIN stored' : k > 1 => \/ k \in DOMAIN stored /\ stored'[k] = stored[k]
                                              \/ stored # <<>> /\ stored'[k] = punch
        /\ stored = <<>> => Head(stored') = punch
        /\ stored # <<>> => Head(stored') = Head(stored)
    BY <2>3
  <2>5. ASSUME NEW k \in DOMAIN accepted PROVE Leads(accepted[k])'
    <3>1. Leads(accepted[k]) /\ accepted'[k] = accepted[k]
      BY <1>0, <2>1
    <3>. QED  BY <2>1, <2>2, <2>4, <3>1 DEF Leads, Led
  <2>. QED  BY <1>0, <2>1, <2>5 DEF MadeOnce, Distinct
<1>4. ASSUME NEW f \in Flushes, HandleReplay(f) PROVE MadeOnce'
  <2>1. PICK answer \in Answers : Handle(flush[f], answer)
    BY <1>4 DEF HandleReplay
  <2>2. /\ flush[f] \in WorkType /\ flush[f].list = stored /\ stored # <<>>
        /\ stored \in Seq(PunchType) /\ UNCHANGED <<stored, taps, tap>>
    BY <1>0, <1>4, <2>1 DEF TypeOK, Handle, OneFlush, HandleReplay
  <2>3. PICK punch \in PunchType : punch = Head(stored)
    BY <2>2
  <2>4. CASE UNCHANGED <<clockedIn, accepted>>
    <3>1. Quiet
      BY <2>2, <2>4 DEF Quiet, Waiting
    <3>. QED  BY <3>1, QuietKept
  <2>5. CASE flush[f].as \in Employees /\ Makes(punch, flush[f].as)
    <3>0. PICK emp \in Employees : emp = flush[f].as
      BY <2>5
    <3>1. \A k \in DOMAIN accepted : accepted[k].for \in Employees /\ Led(accepted[k], punch)
      BY <1>0, <2>2, <2>3 DEF Leads
    <3>2. /\ Distinct'
          /\ \A k \in DOMAIN accepted : Led(accepted[k], punch)'
          /\ Led([id |-> punch.id, for |-> emp], punch)'
          /\ \A k \in DOMAIN accepted' : \/ accepted'[k] = [id |-> punch.id, for |-> emp]
                                         \/ k \in DOMAIN accepted /\ accepted'[k] = accepted[k]
      BY <1>0, <2>5, <3>0, <3>1, MadeAnew
    <3>3. /\ \A k \in DOMAIN stored : k > 1 => stored[k].id # punch.id
          /\ Waiting => Head(tap.list).id # punch.id
          /\ punch.id <= taps
      <4>1. punch = stored[1] /\ 1 \in DOMAIN stored /\ DOMAIN stored = 1..Len(stored)
        BY <2>2, <2>3
      <4>2. taps \in Nat /\ \A k \in DOMAIN stored : stored[k].id \in Nat
        BY <1>0, StoredFits DEF TypeOK
      <4>. QED  BY <4>1, <4>2 DEF Numbered
    <3>4. ASSUME NEW k \in DOMAIN accepted' PROVE Leads(accepted[k])'
      <4>1. Led(accepted[k], punch)'
        BY <3>2 DEF Led
      <4>2. /\ accepted'[k].for \in Employees /\ accepted'[k].id <= taps
            /\ \A j \in DOMAIN stored : j > 1 => stored[j].id # accepted'[k].id
            /\ Waiting => Head(tap.list).id # accepted'[k].id
        BY <1>0, <2>2, <3>2, <3>3 DEF Leads
      <4>. QED  BY <2>2, <2>3, <4>1, <4>2 DEF Leads, Led, Waiting
    <3>. QED  BY <3>2, <3>4 DEF MadeOnce
  <2>. QED  BY <1>0, <2>1, <2>2, <2>3, <2>4, <2>5, HandleMakes
<1>5. ASSUME NEW f \in Flushes, ReplayAnswered(f) PROVE MadeOnce'
  <2>1. /\ stored # <<>> /\ stored \in Seq(PunchType) /\ stored' = Tail(stored)
        /\ UNCHANGED <<tap, taps, clockedIn, accepted>>
    BY <1>0, <1>5 DEF ReplayAnswered, OneFlush, Rest, TypeOK, server, bounds
  <2>2. /\ \A k \in DOMAIN stored' : k + 1 \in DOMAIN stored /\ k + 1 > 1 /\ stored'[k] = stored[k + 1]
        /\ stored' # <<>> => 2 \in DOMAIN stored /\ Head(stored') = stored[2]
    BY <2>1
  <2>3. ASSUME NEW k \in DOMAIN accepted PROVE Leads(accepted[k])'
    <3>1. Leads(accepted[k]) /\ accepted'[k] = accepted[k]
      BY <1>0, <2>1
    <3>. QED  BY <2>1, <2>2, <3>1 DEF Leads, Led, Waiting
  <2>. QED  BY <1>0, <2>1, <2>3 DEF MadeOnce, Distinct
<1>6. CASE \/ TapAnswered \/ OpenPage \/ LeavePage \/ Reload \/ GoOffline \/ GoOnline \/ ChangeSession
           \/ (\E f \in Flushes : ReplayFailed(f)) \/ UNCHANGED vars
  <2>1. Quiet
    BY <1>6 DEF Quiet, TapAnswered, OpenPage, LeavePage, Reload, GoOffline, GoOnline, ChangeSession,
                ReplayFailed, Waiting, Idle, vars, kiosk, server, bounds
  <2>. QED  BY <2>1, QuietKept
<1>. QED  BY <1>1, <1>2, <1>3, <1>4, <1>5, <1>6 DEF Next, FlushStep

-----------------------------------------------------------------------------
(* The theorems *)

\* It starts so.
LEMMA QueueInvInit == Init => QueueInv
<1>. SUFFICES ASSUME Init PROVE QueueInv
  OBVIOUS
<1>1. Idle \in WorkType /\ Idle.stage = "idle"
  BY WorkFits DEF Idle
<1>2. TypeOK /\ ~Waiting
  <2>1. tap \in WorkType /\ flush \in [Flushes -> WorkType] /\ ~Waiting /\ \A f \in Flushes : ~Running(f)
    BY <1>1 DEF Init, Waiting, Running
  <2>2. clockedIn \in [Employees -> BOOLEAN] /\ session \in Employees \cup {NoOne}
        /\ page \in BOOLEAN /\ online \in BOOLEAN /\ crossed \in BOOLEAN /\ overtaken \in BOOLEAN
    BY DEF Init
  <2>3. taps \in 0..MaxTaps /\ signIns \in 0..MaxSignIns /\ errors \in 0..MaxErrors
    BY BoundsAssumption DEF Init
  <2>. QED  BY <2>1, <2>2, <2>3 DEF Init, TypeOK
<1>3. OneFlush /\ Numbered
  BY <1>1, <1>2 DEF Init, OneFlush, Numbered, Running
<1>4. KeepsQueue
  BY DEF Init, KeepsQueue, Ids
<1>5. MadeOnce
  BY DEF Init, MadeOnce, Distinct
<1>. QED  BY <1>2, <1>3, <1>4, <1>5 DEF QueueInv, TapOK

\* Every step keeps it so.
LEMMA QueueInvStep == QueueInv /\ [Next]_vars => QueueInv'
<1>. SUFFICES ASSUME QueueInv, [Next]_vars PROVE QueueInv'
  OBVIOUS
<1>1. TapOK /\ TapOK'
  BY TypesKept DEF QueueInv
<1>2. (~crossed => OneFlush /\ KeepsQueue /\ Numbered)'
  BY <1>1, QueueKept DEF QueueInv
<1>3. ASSUME ~crossed', ~overtaken' PROVE MadeOnce'
  <2>1. crossed => crossed'
    BY DEF Next, FlushStep, Tap, HandleTap, Handle, TapAnswered, TapQueued, OpenPage, LeavePage, Reload,
       GoOffline, GoOnline, StartFlush, ChangeSession, HandleReplay, ReplayAnswered, ReplayFailed,
       vars, kiosk, history
  <2>2. overtaken => overtaken'
    BY DEF Next, FlushStep, Tap, HandleTap, TapAnswered, TapQueued, OpenPage, LeavePage, Reload,
       GoOffline, GoOnline, ChangeSession, HandleReplay, ReplayAnswered, ReplayFailed,
       vars, kiosk, history
  <2>. QED  BY <1>1, <1>3, <2>1, <2>2, OnceKept DEF QueueInv
<1>. QED  BY <1>1, <1>2, <1>3 DEF QueueInv

\* The queue's invariant, for all of a terminal's behaviours (offline-queue.ts,
\* clock/page.tsx).
THEOREM QueueInvariant == Spec => []QueueInv
BY QueueInvInit, QueueInvStep, PTL DEF Spec

\* While savings and flushes do not cross, what was answered and what is stored are what
\* was saved, in order: no punch is lost or sent out of turn (offline-queue.ts:47-64).
THEOREM QueueIsKept == Spec => []KeepsQueue
<1>1. QueueInv => KeepsQueue
  BY DEF QueueInv, KeepsQueue
<1>. QED  BY <1>1, QueueInvariant, PTL

\* While, besides, nothing is punched ahead of the saved punches, no punch that is sent
\* again is made again (offline-queue.ts:47-64, clock.ts:75-90).
THEOREM NoPunchMadeTwice == Spec => []NoPunchTwice
<1>1. QueueInv => NoPunchTwice
  BY DEF QueueInv, NoPunchTwice, MadeOnce, Distinct
<1>. QED  BY <1>1, QueueInvariant, PTL

\* A flush that ends while the network is up has emptied the list (offline-queue.ts:52-60).
THEOREM FlushEmptiesList == Spec => FlushDrains
<1>1. ASSUME QueueInv, [Next]_vars
      PROVE  [\A f \in Flushes :
                Running(f) /\ ~Running(f)' /\ online /\ ~crossed /\ ~Reload => stored' = <<>>]_vars
  <2>. SUFFICES ASSUME NEW f \in Flushes, Running(f), ~Running(f)', online, ~crossed, ~Reload
                PROVE  stored' = <<>>
    OBVIOUS
  <2>0. flush \in [Flushes -> WorkType] /\ OneFlush
    BY <1>1 DEF QueueInv, TapOK, TypeOK
  <2>1. UNCHANGED flush => FALSE
    BY DEF Running
  <2>2. ~StartFlush
    BY <2>0, <2>1 DEF StartFlush, Running, Sent
  <2>3. ASSUME NEW g \in Flushes, HandleReplay(g) PROVE FALSE
    BY <2>0, <2>3 DEF HandleReplay, Running
  <2>4. ASSUME NEW g \in Flushes, ReplayAnswered(g) PROVE stored' = <<>>
    <3>1. g = f
      BY <2>0, <2>4 DEF OneFlush, ReplayAnswered, Running
    <3>2. Rest(f) = <<>>
      BY <2>0, <2>4, <3>1 DEF ReplayAnswered, Continue, Running, Sent
    <3>. QED  BY <2>4, <3>1, <3>2 DEF ReplayAnswered
  <2>5. ASSUME NEW g \in Flushes, ReplayFailed(g) PROVE FALSE
    BY <2>5 DEF ReplayFailed
  <2>. QED  BY <1>1, <2>1, <2>2, <2>3, <2>4, <2>5
            DEF Next, FlushStep, Tap, HandleTap, TapAnswered, TapQueued, OpenPage, LeavePage,
                GoOffline, GoOnline, ChangeSession, vars, kiosk
<1>. QED  BY <1>1, QueueInvariant, PTL DEF Spec, FlushDrains
=============================================================================
