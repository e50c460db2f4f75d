---------------------------- MODULE Administration ----------------------------
(***************************************************************************)
(* What administrators change: the settings document behind its cache, the *)
(* rows of employees, jobs, rostered shifts and devices, each with an      *)
(* audit row after it, and the files and reloads that keep Home Assistant  *)
(* in step with them.  One action per awaited statement.                   *)
(*                                                                         *)
(* Any handler may read the settings; the cache lives in the process.      *)
(* While requests do not meet (~meet) a request may fail half-way.         *)
(***************************************************************************)
EXTENDS Integers, Sequences

CONSTANTS
  Admins,      \* requests and background refreshes in progress at one time
  Cards,       \* rows: employees, jobs, rosters and devices
  KindOf,      \* the table of each row
  Staff,       \* the employees there are from the start
  CacheTime,   \* CACHE_MS
  QueryTime,   \* bound: how long a settings query takes at most
  MaxClock,    \* bound: the clock stops here
  MaxWrites,   \* bound: requests in a behaviour
  MaxFaults    \* bound: failures in a behaviour

ASSUME CardsAssumption ==
  /\ KindOf \in [Cards -> {"employee", "job", "roster", "device"}]
  /\ Staff \subseteq {x \in Cards : KindOf[x] = "employee"}
  /\ Cards \cap {"settings", "integration_install"} = {}    \* TheDoc and Installing are no rows
ASSUME TimesAssumption ==
  /\ CacheTime \in Nat /\ QueryTime \in Nat /\ MaxClock \in Nat
  /\ MaxWrites \in Nat /\ MaxFaults \in Nat

VARIABLES
  doc,        \* settings.doc: the API key, and another setting
  cache,      \* the settings as last read, and when
  clock,
  cards,      \* the rows
  trail,      \* audit rows, by the row they are about
  files,      \* the generated files: whose scripts, and which key
  loaded,     \* what Home Assistant has read of them
  job,        \* each request: its next statement and what it has read
  meet,       \* whether requests may overlap
  wanted,     \* history: the last value asked for, by setting
  changedAt,  \* history: when the document last changed
  writes, faults,
  halfDone    \* rows and documents whose request failed half-way

adminVars == <<doc, cache, clock, cards, trail, files, loaded, job, meet, wanted, changedAt,
               writes, faults, halfDone>>
state == <<doc, cache, cards, trail, files, loaded>>
limits == <<meet, wanted, changedAt, writes, faults, halfDone>>

TheDoc == "settings"
Installing == "integration_install"
\* name stands for what creations and updates tell in their audit rows (name, role, code, shift);
\* access for what may be given from the start and only an update tells (haUsername,
\* accessEntities); active for what a row gets later and an update tells (active, the rate, pay
\* tracking); notes for what no audit row tells (notifyService and presenceEntity, a shift's job
\* and note).
NoRow == [name |-> 0, access |-> 0, notes |-> 0, active |-> FALSE, pin |-> FALSE]
NoCache == [doc |-> [key |-> 0, other |-> 0], at |-> -1]
NoFiles == [scripts |-> {"none"}, key |-> 0]
Free == [stage |-> "free", about |-> TheDoc, patch |-> <<>>, old |-> <<>>, new |-> <<>>,
         since |-> 0, reload |-> {}]

AtStage(a, stage) == job[a].stage = stage
AllFree == \A a \in Admins : AtStage(a, "free")
Become(a, rec) == job' = [job EXCEPT ![a] = rec]
Proceed(a, stage) == Become(a, [job[a] EXCEPT !.stage = stage])

\* deepMerge; also what UPDATE ... SET does to the columns given
Merge(row, patch) == [f \in DOMAIN row |-> IF f \in DOMAIN patch THEN patch[f] ELSE row[f]]

\* Mutation: a cached value is good for one instant more.
IsFreshToTheEnd == cache.at >= 0 /\ clock - cache.at <= CacheTime

IsFresh == cache.at >= 0 /\ clock - cache.at < CacheTime

NewRow == [name |-> 1, access |-> 0, notes |-> 0, active |-> TRUE, pin |-> FALSE]
FirstRow(x) == IF x \in Staff THEN NewRow ELSE NoRow
FirstDoc == NoCache.doc

AdminInit ==
  /\ doc = FirstDoc /\ cache = NoCache
  /\ clock = 0 /\ changedAt = 0
  /\ cards = [x \in Cards |-> FirstRow(x)]
  /\ trail = [x \in Cards \cup {TheDoc, Installing} |-> <<>>]
  /\ files = NoFiles /\ loaded = NoFiles
  /\ job = [a \in Admins |-> Free]
  /\ meet \in BOOLEAN
  /\ wanted = doc
  /\ writes = 0 /\ faults = 0 /\ halfDone = {}

Begin(a, rec) ==
  /\ AtStage(a, "free") /\ (meet \/ AllFree)
  /\ writes < MaxWrites
  /\ writes' = writes + 1
  /\ Become(a, [rec EXCEPT !.since = clock])
  /\ UNCHANGED <<state, clock, meet, wanted, changedAt, faults, halfDone>>

-----------------------------------------------------------------------------
(* Settings *)

\* getSettings() by any handler, when the cache does not answer.
AskSettings(a) == ~IsFresh /\ Begin(a, [Free EXCEPT !.stage = "select"])

SelectSettings(a) ==
  /\ AtStage(a, "select")
  /\ Become(a, [job[a] EXCEPT !.stage = "fill", !.old = doc])
  /\ UNCHANGED <<state, clock, limits>>

FillCache(a) == cache' = [doc |-> job[a].old, at |-> clock]

KeepRead(a) ==
  /\ AtStage(a, "fill")
  /\ FillCache(a)
  /\ Become(a, Free)
  /\ UNCHANGED <<doc, cards, trail, files, loaded, clock, limits>>

\* PATCH /settings, or a new key from POST /integration/key.
UpdateSettings(a, patch) == Begin(a, [Free EXCEPT !.stage = "readDoc", !.patch = patch])

ReadDoc(a) ==
  /\ AtStage(a, "readDoc")
  /\ Become(a, [job[a] EXCEPT !.stage = "writeDoc", !.old = doc, !.new = Merge(doc, job[a].patch)])
  /\ UNCHANGED <<state, clock, limits>>

WriteDoc(a) ==
  /\ AtStage(a, "writeDoc")
  /\ doc' = job[a].new
  /\ changedAt' = clock
  /\ wanted' = Merge(wanted, job[a].patch)
  /\ Proceed(a, "invalidate")
  /\ UNCHANGED <<cache, cards, trail, files, loaded, clock, meet, writes, faults, halfDone>>

\* The answer arrives: the cache is dropped and the audit row sent off.
InvalidateSettingsCache(a) ==
  /\ AtStage(a, "invalidate")
  /\ cache' = NoCache
  /\ Proceed(a, "audit")
  /\ UNCHANGED <<doc, cards, trail, files, loaded, clock, limits>>

-----------------------------------------------------------------------------
(* Rows *)

\* POST /employees, /jobs, /roster, /devices/bind
InsertCard(a, x, given) ==
  LET row == Merge(NewRow, given) IN
  /\ cards[x] = NoRow
  /\ DOMAIN given \subseteq CASE KindOf[x] = "employee" -> {"access", "notes", "pin"}
                             [] KindOf[x] = "roster"   -> {"notes"}
                             [] OTHER                  -> {}
  /\ cards' = [cards EXCEPT ![x] = row]
  /\ Become(a, [Free EXCEPT !.stage = "audit", !.about = x, !.new = row, !.since = clock])
  /\ AtStage(a, "free") /\ (meet \/ AllFree)
  /\ writes < MaxWrites /\ writes' = writes + 1
  /\ UNCHANGED <<doc, cache, trail, files, loaded, clock, meet, wanted, changedAt, faults, halfDone>>

\* PATCH /employees/:id, /jobs/:id; POST /employees/:id/pin, /roster/:id/cancel
PatchCard(a, x, patch) ==
  /\ DOMAIN patch \subseteq
       CASE KindOf[x] = "employee" -> {"name", "access", "notes", "active", "pin"}
         [] KindOf[x] = "job"      -> {"name", "active"}
         [] KindOf[x] = "roster"   -> {"active"}
         [] KindOf[x] = "device"   -> {}
  /\ DOMAIN patch # {}
  /\ "pin" \in DOMAIN patch => DOMAIN patch = {"pin"} /\ patch.pin
  /\ KindOf[x] = "roster" => ~patch.active
  /\ Begin(a, [Free EXCEPT !.stage = "readCard", !.about = x, !.patch = patch])

\* No row, or a rostered shift that is cancelled already: not_found.
ReadCard(a) ==
  /\ AtStage(a, "readCard")
  /\ LET row == cards[job[a].about] IN
     IF row = NoRow \/ (KindOf[job[a].about] = "roster" /\ ~row.active)
     THEN Become(a, Free)
     ELSE Become(a, [job[a] EXCEPT !.stage = "writeCard", !.old = row])
  /\ UNCHANGED <<state, clock, limits>>

\* Mutation: what is audited is the row that was read, with the patch.
WriteCardUnread(a) ==
  /\ AtStage(a, "writeCard")
  /\ cards' = [cards EXCEPT ![job[a].about] = Merge(@, job[a].patch)]
  /\ Become(a, [job[a] EXCEPT !.stage = "audit", !.new = Merge(job[a].old, job[a].patch)])
  /\ UNCHANGED <<doc, cache, trail, files, loaded, clock, limits>>

\* UPDATE of the columns given, returning the row as it is then.
WriteCard(a) ==
  /\ AtStage(a, "writeCard")
  /\ LET row == Merge(cards[job[a].about], job[a].patch)
     IN /\ cards' = [cards EXCEPT ![job[a].about] = row]
        /\ Become(a, [job[a] EXCEPT !.stage = "audit", !.new = row])
  /\ UNCHANGED <<doc, cache, trail, files, loaded, clock, limits>>

\* The columns an update tells in its audit row, all of them at once.
Updated(x) ==
  IF x \in Cards
  THEN CASE KindOf[x] = "employee" -> {"name", "access", "active"}
         [] KindOf[x] = "job"      -> {"name", "active"}
         [] OTHER                  -> {"active"}
  ELSE IF x = TheDoc THEN DOMAIN FirstDoc ELSE {}

\* The columns of oldValue and newValue: of a row that was made, given a PIN, or updated.
Tells(j) ==
  IF j.about \in Cards /\ j.patch = <<>> THEN
    IF KindOf[j.about] = "employee" THEN {"name", "pin"} ELSE {"name"}
  ELSE IF "pin" \in DOMAIN j.patch THEN {"pin"} ELSE Updated(j.about)

Told(row, columns) == [f \in columns \cap DOMAIN row |-> row[f]]

\* The audit row; after a new key or a changed employee the files are refreshed.
AppendTrail(a) ==
  LET x == job[a].about
      tells == Tells(job[a])
      refreshes ==
        CASE x = TheDoc     -> "key" \in DOMAIN job[a].patch
          [] x = Installing -> FALSE
          [] OTHER          -> KindOf[x] = "employee" /\ "pin" \notin DOMAIN job[a].patch
  IN /\ AtStage(a, "audit")
     /\ trail' = [trail EXCEPT ![x] =
                     Append(@, [old |-> Told(job[a].old, tells), new |-> Told(job[a].new, tells)])]
     /\ Become(a, IF refreshes /\ files # NoFiles THEN [Free EXCEPT !.stage = "staff"] ELSE Free)
     /\ UNCHANGED <<doc, cache, cards, files, loaded, clock, limits>>

-----------------------------------------------------------------------------
(* Home Assistant: writeAndReload() *)

\* POST /integration/install with a key, or the refresh when the server starts.
RefreshFiles(a, install) ==
  /\ install => doc.key # 0
  /\ ~install => files # NoFiles
  /\ Begin(a, [Free EXCEPT !.stage = "staff", !.about = IF install THEN Installing ELSE TheDoc])

Active == {x \in Cards : KindOf[x] = "employee" /\ cards[x].active}

SelectStaff(a) ==
  /\ AtStage(a, "staff")
  /\ Become(a, [job[a] EXCEPT !.stage = "scripts", !.new = Active])
  /\ UNCHANGED <<state, clock, limits>>

\* The key comes with the settings: from the cache, or by a query of its own.
WriteScripts(a) ==
  LET changed == {f \in {"scripts"} : files.scripts # job[a].new}
      withKey == {f \in {"key"} : files.key # cache.doc.key}
  IN /\ AtStage(a, "scripts")
     /\ IF IsFresh
        THEN /\ files' = [scripts |-> job[a].new, key |-> cache.doc.key]
             /\ Become(a, [job[a] EXCEPT !.stage = "reload", !.reload = changed \cup withKey])
        ELSE /\ files' = [files EXCEPT !.scripts = job[a].new]
             /\ Become(a, [job[a] EXCEPT !.stage = "selectKey", !.reload = changed, !.since = clock])
     /\ UNCHANGED <<doc, cache, cards, trail, loaded, clock, limits>>

SelectKey(a) ==
  /\ AtStage(a, "selectKey")
  /\ Become(a, [job[a] EXCEPT !.stage = "handlers", !.old = doc])
  /\ UNCHANGED <<state, clock, limits>>

WriteHandlers(a) ==
  /\ AtStage(a, "handlers")
  /\ FillCache(a)
  /\ files' = [files EXCEPT !.key = job[a].old.key]
  /\ Become(a, [job[a] EXCEPT !.stage = "reload",
                              !.reload = @ \cup {f \in {"key"} : files.key # job[a].old.key}])
  /\ UNCHANGED <<doc, cards, trail, loaded, clock, limits>>

\* One service after the other: scripts first.  A reload that fails is not tried again.
ReloadNext(a, ok) ==
  /\ AtStage(a, "reload")
  /\ IF job[a].reload = {}
     THEN /\ Become(a, IF job[a].about = Installing
                       THEN [Free EXCEPT !.stage = "audit", !.about = Installing] ELSE Free)
          /\ UNCHANGED <<loaded, faults, halfDone>>
     ELSE LET f == IF "scripts" \in job[a].reload THEN "scripts" ELSE "key"
          IN /\ Become(a, [job[a] EXCEPT !.reload = @ \ {f}])
             /\ IF ok THEN loaded' = [loaded EXCEPT ![f] = files[f]] /\ UNCHANGED <<faults, halfDone>>
                ELSE /\ faults < MaxFaults /\ ~meet
                     /\ faults' = faults + 1
                     /\ halfDone' = halfDone \cup {f}
                     /\ UNCHANGED loaded
  /\ UNCHANGED <<doc, cache, cards, trail, files, clock, meet, wanted, changedAt, writes>>

-----------------------------------------------------------------------------

\* A statement throws, or the server is restarted, which empties the cache.
AdminFails(a, restart) ==
  /\ ~meet /\ faults < MaxFaults
  /\ ~AtStage(a, "free")
  /\ faults' = faults + 1
  /\ halfDone' = halfDone \cup {job[a].about, "scripts", "key"}
  /\ cache' = IF restart THEN NoCache ELSE cache
  /\ Become(a, Free)
  /\ UNCHANGED <<doc, cards, trail, files, loaded, clock, meet, wanted, changedAt, writes>>

\* Queries of the settings take no longer than the bound says.
ClockTick ==
  /\ clock < MaxClock
  /\ \A a \in Admins : job[a].stage \in {"select", "fill", "selectKey", "handlers"} =>
       clock - job[a].since < QueryTime
  /\ \A a \in Admins : ~AtStage(a, "invalidate")
  /\ clock' = clock + 1
  /\ UNCHANGED <<state, job, limits>>

Patches == {[key |-> writes + 1], [other |-> 1]}
\* What is asked for of an employee, and of the other rows as far as they have the columns.
CardPatches(x) ==
  IF KindOf[x] = "employee"
  THEN {[name |-> 2, access |-> 2, notes |-> 2], [active |-> FALSE], [pin |-> TRUE]}
  ELSE {[name |-> 2], [active |-> FALSE]}
CardGivens(x) ==
  IF KindOf[x] = "employee" THEN {[access |-> 1, notes |-> 1, pin |-> TRUE]} ELSE {<<>>, [notes |-> 1]}

AdminStep(a) ==
  \/ SelectSettings(a) \/ KeepRead(a)
  \/ ReadDoc(a) \/ WriteDoc(a) \/ InvalidateSettingsCache(a)
  \/ ReadCard(a) \/ WriteCard(a) \/ AppendTrail(a)
  \/ SelectStaff(a) \/ WriteScripts(a) \/ SelectKey(a) \/ WriteHandlers(a)
  \/ \E ok \in BOOLEAN : ReloadNext(a, ok)

AdminNext ==
  \/ ClockTick
  \/ \E a \in Admins :
       \/ AdminStep(a)
       \/ AskSettings(a) \/ \E patch \in Patches : UpdateSettings(a, patch)
       \/ \E x \in Cards : \/ \E given \in CardGivens(x) : InsertCard(a, x, given)
                           \/ \E patch \in CardPatches(x) : PatchCard(a, x, patch)
       \/ \E install \in BOOLEAN : RefreshFiles(a, install)
       \/ \E restart \in BOOLEAN : AdminFails(a, restart)

AdminSpec == AdminInit /\ [][AdminNext]_adminVars

-----------------------------------------------------------------------------

\* What the cache answers is what was asked for last, while requests do not meet.  If they
\* do, a query that began before an update may bring the old document back after the
\* cache was dropped, and then for as long as the cache lasts and not an instant more.
SettingsFresh ==
  /\ ~meet /\ AllFree /\ TheDoc \notin halfDone =>
       doc = wanted /\ (IsFresh => cache.doc = doc)
  /\ IsFresh /\ clock - changedAt >= QueryTime + CacheTime => cache.doc = doc

Now(x) == IF x = TheDoc THEN doc ELSE cards[x]
Before(x) == IF x = TheDoc THEN FirstDoc ELSE FirstRow(x)
Pending(x) == \E a \in Admins : job[a].about = x /\ job[a].stage \in {"invalidate", "audit"}

ColumnsOf(x) == IF x = TheDoc THEN DOMAIN FirstDoc ELSE DOMAIN NoRow
Untold(x) == {"notes"} \cup IF x \in Staff THEN {} ELSE {"access"}
MadeAs(x) == IF x = TheDoc THEN FirstDoc ELSE NewRow

\* The audit rows of x that tell all of these columns; the last that tells a column, and
\* two that tell it with none between them.
Telling(x, columns) == {k \in DOMAIN trail[x] : columns \subseteq DOMAIN trail[x][k].new}
Latest(x, f, k) == k \in Telling(x, {f}) /\ \A l \in Telling(x, {f}) : l <= k
InTurn(x, f, k, l) ==
  /\ k \in Telling(x, {f}) /\ l \in Telling(x, {f}) /\ k < l
  /\ \A i \in Telling(x, {f}) : i <= k \/ l <= i
Shows(x, k, columns) == \A f \in columns : trail[x][k].new[f] = Now(x)[f]

\* Of the columns the code audits, what administrators made of a row or of the settings is in
\* the audit log, or about to be, unless a request for it failed half-way.
\*   - A row without an audit row is as it was at the start.
\*   - However requests overlap, some audit row shows a column as it is now, and if one tells
\*     all that an update tells, one shows all of that as it is now.
\*   - A column no audit row tells is as rows are made; but the notes of a row never are in
\*     its audit rows, nor the access an employee was created with before the first update.
\*   - While requests do not meet, the last audit row that tells a column shows it as it is,
\*     and each starts from what the one before it told.
AdminOnRecord ==
  \A x \in Cards \cup {TheDoc} : ~Pending(x) /\ x \notin halfDone =>
    /\ trail[x] = <<>> => Now(x) = Before(x)
    /\ \A columns \in {Updated(x)} \cup {{f} : f \in ColumnsOf(x)} :
         Telling(x, columns) # {} => \E k \in Telling(x, columns) : Shows(x, k, columns)
    /\ trail[x] # <<>> =>
         \A f \in ColumnsOf(x) \ Untold(x) :
           Telling(x, {f}) = {} => Now(x)[f] = MadeAs(x)[f]
    /\ ~meet =>
         \A f \in ColumnsOf(x), k, l \in DOMAIN trail[x] :
           /\ Latest(x, f, k) => Shows(x, k, {f})
           /\ InTurn(x, f, k, l) => trail[x][l].old[f] = trail[x][k].new[f]

\* Once installed, the files say who works here and which key is good, and Home Assistant
\* has read them, when nothing is in progress: unless requests met, or a reload failed, which is
\* not tried again as long as the file does not change.
IntegrationCurrent ==
  ~meet /\ AllFree /\ files # NoFiles =>
    /\ "scripts" \notin halfDone => files.scripts = Active /\ loaded.scripts = files.scripts
    /\ "key" \notin halfDone => files.key = doc.key /\ loaded.key = files.key

\* What an administrator sets is what the server and Home Assistant go by, and when.
SettingsTakeEffect == SettingsFresh /\ IntegrationCurrent
=============================================================================
