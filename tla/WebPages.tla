------------------------------ MODULE WebPages -------------------------------
(***************************************************************************)
(* The web application in one browser: the pages, what each of them reads  *)
(* from the server and keeps in the browser's cache (TanStack Query, see   *)
(* lib/query-client.ts), the buttons that change something there, and      *)
(* which parts of the cache each of them has read again afterwards.        *)
(* Requests overtake one another, and fail; somebody else changes the same *)
(* tables.                                                                 *)
(*                                                                         *)
(* What a table holds is the set of changes made to it (and who is signed  *)
(* in, as the session query says).  A behaviour is about one table         *)
(* (bound): queries of other tables are independent of it.  What is picked *)
(* on a page (employee, period, week, tab) is picked when it opens.        *)
(***************************************************************************)
EXTENDS Naturals, FiniteSets

CONSTANTS
  Accounts,     \* bound: the roles of those who use the browser, "nobody" among them
  MaxChanges,   \* bound: changes of the table in a behaviour
  MaxMoves,     \* bound: pages opened
  MaxFaults     \* bound: requests that fail

ASSUME PagesAssumption ==
  /\ "nobody" \in Accounts /\ Accounts \subseteq {"nobody", "employee", "lead", "manager", "admin"}
  /\ MaxChanges \in Nat /\ MaxMoves \in Nat /\ MaxFaults \in Nat

VARIABLES
  topic,     \* bound: the table a behaviour is about
  page,      \* the page that is open
  table,     \* what the server has
  cache,     \* each query: what it last answered, and whether that is known to be old
  fetch,     \* each query: its request in progress
  work,      \* each change: the button behind it, and how far it is
  owed,      \* each query: the changes its page made while it was on it
  moves,     \* pages opened so far
  faults     \* failures so far

boundVars == <<topic, moves, faults>>
pageVars == <<page, table, cache, fetch, work, owed, boundVars>>

\* By query key: the tables its answer is made of.
Reads == [
  session |-> {"session"}, whoami |-> {"employees"}, locale |-> {"settings"},
  settings |-> {"settings", "key"}, integration |-> {"key"}, haEntities |-> {},
  clockStatus |-> {"entries"}, board |-> {"entries"}, myHours |-> {"entries", "pay"},
  managerEntries |-> {"entries", "pay"}, insights |-> {"entries"},
  pay |-> {"entries", "pay"}, timesheet |-> {"entries", "periods"},
  rosterCompare |-> {"entries", "roster"}, rosterMine |-> {"roster"}, rosterAll |-> {"roster"},
  clockJobs |-> {"jobs"}, adminJobs |-> {"jobs"},
  kioskEmployees |-> {"employees"}, adminEmployees |-> {"employees"},
  managerEmployees |-> {"employees"}, payEmployees |-> {"employees"},
  pendingCorrections |-> {"corrections"}, pendingLeave |-> {"leave"}, leaveMine |-> {"leave"},
  payPeriods |-> {"periods"},
  auditRows |-> {"entries", "jobs", "employees", "corrections", "leave", "roster", "periods",
                 "pay", "settings", "key"},
  auditVerify |-> {}]

Queries == DOMAIN Reads
Tables == UNION {Reads[q] : q \in Queries}

Polled == {"clockStatus", "board", "rosterCompare", "insights"}    \* refetchInterval
TriedOnce == {"adminEmployees", "haEntities"}                      \* retry: false

\* Queries that a page shows and does not have read again after its own change: the language
\* and formats after a change of the settings, the settings after a change of the key.
LeftOld(q) == q = "locale" \/ (q = "settings" /\ topic = "key")

-----------------------------------------------------------------------------
(* The pages: what each shows to whom, and its buttons *)

Rank == [nobody |-> 0, employee |-> 1, lead |-> 2, manager |-> 3, admin |-> 4]
AtLeast(least, what) == [who \in Accounts |-> IF Rank[who] >= Rank[least] THEN what ELSE {}]

\* A button: the tables its request changes, the queries read again when it is answered.
Button(name, writes, refreshes) ==
  [name |-> name, writes |-> writes, refreshes |-> refreshes,
   guesses |-> {},        \* queries that show the change before it is answered
   settles |-> FALSE,     \* read again although it failed
   again |-> FALSE,       \* can be pressed while it is in progress
   leaves |-> FALSE,      \* opens the home page at the end
   who |-> "same"]        \* who is signed in afterwards
NoButton == Button("none", {}, {})

\* A page: whom its queries and buttons are for, and where it leads.
Page(least, shows, buttons, links) ==
  [shows |-> AtLeast(least, shows), buttons |-> AtLeast(least, buttons), links |-> links]
Nowhere == [who \in Accounts |-> {}]

HomeTiles ==
  [who \in Accounts |->
     IF who = "nobody" THEN {"pin"}
     ELSE {"clock", "myHours", "roster", "leave"}
          \cup AtLeast("lead", {"manager"})[who]
          \cup AtLeast("admin", {"employees", "jobs", "settings"})[who]]
HomePage == [Page("nobody", {"whoami"}, {}, HomeTiles) EXCEPT !.buttons = Nowhere]

ClaimAdmin == Button("claimAdmin", {"employees", "session"}, Queries)
LogIn(who) == [Button("logIn", {"session"}, {"session"}) EXCEPT !.who = who]
LogOut == [Button("logOut", {"session"}, {"session"}) EXCEPT !.who = "nobody"]

\* The lock screen: the staff to sign in, or who is signed in.
PinPage ==
  [shows |-> AtLeast("nobody", {"kioskEmployees", "whoami"}),
   buttons |-> [who \in Accounts |->
                  IF who # "nobody" THEN {LogOut}
                  ELSE {LogIn(a) : a \in Accounts \ {"nobody"}} \cup {ClaimAdmin}],
   links |-> [who \in Accounts |-> IF who = "nobody" THEN {"home"} ELSE {"home", "clock"}]]

\* Punches, breaks and a change of the job, one of them at a time.
ClockPage ==
  Page("employee", {"clockStatus", "clockJobs"}, {Button("punch", {"entries"}, {"clockStatus"})},
       [who \in Accounts |-> IF who = "nobody" THEN {"pin"} ELSE {}])

\* EditEntryDialog: one request for the times and one for each break, or one for a correction;
\* the caller has its list read again when all were answered.
EditEntry(list) ==
  {Button("editEntry", {"entries"}, {list}), Button("askCorrection", {"corrections"}, {list})}
MyHoursPage == Page("employee", {"myHours"}, EditEntry("myHours"), Nowhere)
ManagerEntriesPage ==
  Page("lead", {"managerEntries", "managerEmployees"}, EditEntry("managerEntries"), Nowhere)

LeavePage ==
  Page("employee", {"leaveMine"}, {Button("askLeave", {"leave"}, {"leaveMine"})}, Nowhere)

AddShift == Button("addShift", {"roster"}, Queries)
CancelShift == Button("cancelShift", {"roster"}, Queries)
RosterPage ==
  [shows |-> [who \in Accounts |->
                AtLeast("lead", {"rosterAll", "rosterCompare", "kioskEmployees"})[who]
                \cup (IF who = "employee" THEN {"rosterMine"} ELSE {})],
   buttons |-> AtLeast("lead", {AddShift, CancelShift}),
   links |-> Nowhere]

\* Mutation: a decision has only the list it was taken from read again.
DecideOneList ==
  {Button("decideCorrection", {"corrections", "entries"}, {"pendingCorrections"}),
   Button("decideLeave", {"leave"}, {"pendingLeave"})}

Decide ==
  {Button("decideCorrection", {"corrections", "entries"}, Queries),
   Button("decideLeave", {"leave"}, Queries)}
ManagerLinks ==
  [who \in Accounts |->
     AtLeast("lead", {"insights", "managerEntries", "payPeriods", "audit"})[who]
     \cup AtLeast("manager", {"pay"})[who]]
ManagerPage == Page("lead", {"board", "pendingCorrections", "pendingLeave"}, Decide, ManagerLinks)

InsightsPage == Page("lead", {"insights"}, {}, Nowhere)
AuditPage == Page("lead", {"auditRows", "auditVerify"}, {}, Nowhere)

LockPeriod == Button("lock", {"periods"}, {"payPeriods", "timesheet"})
PayPeriodsPage == Page("lead", {"payPeriods", "timesheet"}, {LockPeriod}, Nowhere)

PayButtons ==
  {Button("mark", {"pay"}, {"pay"}), Button("addBonus", {"pay"}, {"pay"}),
   Button("voidBonus", {"pay"}, {"pay"})}
PayPage == Page("manager", {"payEmployees", "pay"}, PayButtons, Nowhere)

JobButtons ==
  {Button("addJob", {"jobs"}, {"adminJobs", "clockJobs"}),
   Button("patchJob", {"jobs"}, {"adminJobs", "clockJobs"})}
JobsPage == Page("admin", {"adminJobs"}, JobButtons, Nowhere)

EmployeeButton(name) == Button(name, {"employees"}, {"adminEmployees", "kioskEmployees"})
AddEmployee == EmployeeButton("addEmployee")
\* The switch shows its new place at once.
ToggleActive ==
  [EmployeeButton("toggleActive") EXCEPT !.guesses = {"adminEmployees"}, !.settles = TRUE,
                                         !.again = TRUE]
\* The fields of an employee's card.
PatchEmployee == [EmployeeButton("patchEmployee") EXCEPT !.again = TRUE]
SetPin == EmployeeButton("setPin")
EmployeesPage ==
  Page("admin", {"adminEmployees", "haEntities"},
       {AddEmployee, ToggleActive, PatchEmployee, SetPin}, Nowhere)

SettingsButton(name) == Button(name, {"settings"}, {"settings"})
SaveDocument == SettingsButton("saveDocument")
ApplyPreset == SettingsButton("applyPreset")
SaveField == SettingsButton("saveField")
SavePresence == SettingsButton("savePresence")
RotateKey == Button("rotateKey", {"key"}, {"integration"})
SettingsPage ==
  Page("admin", {"settings", "integration"},
       {SaveDocument, ApplyPreset, SaveField, SavePresence, RotateKey}, Nowhere)

PageOf == [
  home |-> HomePage, pin |-> PinPage, clock |-> ClockPage, myHours |-> MyHoursPage,
  leave |-> LeavePage, roster |-> RosterPage, manager |-> ManagerPage,
  managerEntries |-> ManagerEntriesPage, insights |-> InsightsPage, audit |-> AuditPage,
  payPeriods |-> PayPeriodsPage, pay |-> PayPage, jobs |-> JobsPage,
  employees |-> EmployeesPage, settings |-> SettingsPage]
Pages == DOMAIN PageOf

\* The frame around every page but the lock screen.
Parent(p) ==
  IF p \in {"audit", "payPeriods", "managerEntries", "pay", "insights"} THEN "manager" ELSE "home"
Tabs ==
  [who \in Accounts |->
     IF who = "nobody" THEN {"home"}
     ELSE {"home", "clock", "myHours"} \cup AtLeast("lead", {"manager"})[who]
                                       \cup AtLeast("admin", {"employees"})[who]]
ShellSignOut == [LogOut EXCEPT !.name = "signOut", !.settles = TRUE, !.leaves = TRUE]

LinksOf(p, who) ==
  PageOf[p].links[who] \cup (IF p = "pin" THEN {} ELSE Tabs[who] \cup {Parent(p)})
ButtonsOf(p, who) ==
  PageOf[p].buttons[who] \cup (IF p = "pin" \/ who = "nobody" THEN {} ELSE {ShellSignOut})
ShownOn(p, who) == PageOf[p].shows[who] \cup {"session", "locale"}

-----------------------------------------------------------------------------
Changes == 1..MaxChanges
NoContent == [has |-> FALSE, made |-> {}, who |-> "nobody"]
NoFetch == [stage |-> "none", got |-> NoContent, tries |-> 0]
NoWork == [button |-> NoButton, stage |-> "unused", from |-> "home", before |-> NoContent]
Follows(q) == topic \in Reads[q]

Signed == cache["session"].data.who
Here == ShownOn(page, Signed)
Fetching(q) == fetch[q].stage # "none"

Begun(fetches, qs) ==
  [q \in Queries |->
     IF q \in qs /\ Follows(q)
     THEN [NoFetch EXCEPT !.stage = "asked",
                          !.tries = IF q \in TriedOnce THEN 1 ELSE 2]
     ELSE fetches[q]]

\* What a page fetches when it opens: what it has not got, what is known to be old, and what
\* is older than staleTime, which any of it may be.
Opened(fetches, p, who, old) ==
  Begun(fetches, {q \in ShownOn(p, who) :
                    fetches[q].stage = "none"
                    /\ (~cache[q].data.has \/ cache[q].invalid \/ q \in old)})

\* invalidateQueries: what is on the page is fetched anew and an older request is dropped,
\* unless it is the first one.
Refetched(fetches, qs) ==
  Begun(fetches, {q \in qs \cap Here : cache[q].data.has \/ fetches[q].stage = "none"})
Marked(caches, qs) == [q \in Queries |-> IF q \in qs THEN [caches[q] EXCEPT !.invalid = TRUE]
                                         ELSE caches[q]]

\* Bound: a behaviour starts on a page that has to do with its table.
Concerns(p, who) ==
  \/ \E q \in PageOf[p].shows[who] : Follows(q)
  \/ \E b \in PageOf[p].buttons[who] : topic \in b.writes

PagesInit ==
  /\ topic \in Tables
  /\ \E who \in Accounts :
       /\ table = [has |-> TRUE, made |-> {}, who |-> who]
       /\ page \in {p \in Pages : Concerns(p, who)}
       /\ cache = [q \in Queries |->
                     [data |-> IF q \in ShownOn(page, who) THEN table ELSE NoContent,
                      invalid |-> FALSE]]
  /\ fetch = [q \in Queries |-> NoFetch]
  /\ work = [c \in Changes |-> NoWork]
  /\ owed = [q \in Queries |-> {}]
  /\ moves = 0 /\ faults = 0

Unused == {c \in Changes : work[c].stage = "unused"}

\* Bound: entries are on so many pages that one fewer is opened.
MayMove == moves < IF topic = "entries" THEN MaxMoves - 1 ELSE MaxMoves

\* The user goes to another page; requests in progress stay.
Open(p) ==
  /\ MayMove
  /\ moves' = moves + 1
  /\ p \in LinksOf(page, Signed) \ {page}
  /\ page' = p
  /\ \E old \in SUBSET {q \in ShownOn(p, Signed) : Follows(q)} :
       fetch' = Opened(fetch, p, Signed, old)
  /\ UNCHANGED <<topic, table, cache, work, owed, faults>>

\* Mutation: only what is known to be old is read again.
PollWhenOld(q) ==
  /\ q \in Polled \cap Here /\ Follows(q) /\ ~Fetching(q) /\ cache[q].invalid
  /\ fetch' = Begun(fetch, {q})
  /\ UNCHANGED <<page, table, cache, work, owed, boundVars>>

Poll(q) ==
  /\ q \in Polled \cap Here /\ Follows(q) /\ ~Fetching(q)
  /\ fetch' = Begun(fetch, {q})
  /\ UNCHANGED <<page, table, cache, work, owed, boundVars>>

ServerReads(q) ==
  /\ fetch[q].stage = "asked"
  /\ fetch' = [fetch EXCEPT ![q].stage = "read", ![q].got = table]
  /\ UNCHANGED <<page, table, cache, work, owed, boundVars>>

Answer(q) ==
  /\ fetch[q].stage = "read"
  /\ cache' = [cache EXCEPT ![q] = [data |-> fetch[q].got, invalid |-> FALSE]]
  /\ fetch' = [fetch EXCEPT ![q] = NoFetch]
  /\ UNCHANGED <<page, table, work, owed, boundVars>>

FetchFails(q) ==
  /\ Fetching(q)
  /\ faults < MaxFaults
  /\ faults' = faults + 1
  /\ fetch' = [fetch EXCEPT ![q] = IF @.tries = 1 THEN NoFetch
                                   ELSE [NoFetch EXCEPT !.stage = "asked", !.tries = 1]]
  /\ UNCHANGED <<page, table, cache, work, owed, topic, moves>>

-----------------------------------------------------------------------------
NextChange(c) == c \in Unused /\ \A d \in Unused : c <= d
InProgress(c) == work[c].stage \in {"sent", "made", "settled"}

\* A button is pressed; one that guesses drops the request in progress and shows the change.
Press(c, b) ==
  /\ NextChange(c)
  /\ topic \in b.writes
  /\ b.again \/ \A d \in Changes : InProgress(d) => work[d].button.name # b.name
  /\ work' = [work EXCEPT ![c] = [button |-> b, stage |-> "sent", from |-> page,
                                  before |-> IF b.guesses = {} THEN NoContent
                                             ELSE cache["adminEmployees"].data]]
  /\ fetch' = [q \in Queries |-> IF q \in b.guesses THEN NoFetch ELSE fetch[q]]
  /\ cache' = [q \in Queries |->
                 IF q \in b.guesses /\ cache[q].data.has
                 THEN [cache[q] EXCEPT !.data.made = @ \cup {c}, !.invalid = FALSE]
                 ELSE cache[q]]
  /\ UNCHANGED <<page, table, owed, boundVars>>

ServerChanges(c) ==
  /\ work[c].stage = "sent"
  /\ table' = [table EXCEPT !.made = @ \cup {c},
                            !.who = IF work[c].button.who = "same" THEN @ ELSE work[c].button.who]
  /\ work' = [work EXCEPT ![c].stage = "made"]
  /\ UNCHANGED <<page, cache, fetch, owed, boundVars>>

Finished(b) == [NoWork EXCEPT !.stage = IF b.leaves THEN "settled" ELSE "done"]

\* onSuccess: the queries of the button are read again.
Succeeds(c) ==
  LET b == work[c].button IN
  /\ work[c].stage = "made"
  /\ work' = [work EXCEPT ![c] = Finished(b)]
  /\ cache' = Marked(cache, b.refreshes)
  /\ fetch' = Refetched(fetch, b.refreshes)
  /\ owed' = [q \in Queries |->
                IF /\ q \in Here \cap ShownOn(work[c].from, Signed) /\ Follows(q)
                   /\ cache[q].data.has
                THEN owed[q] \cup {c} ELSE owed[q]]
  /\ UNCHANGED <<page, table, boundVars>>

\* The request was refused or its answer is lost: a guess is taken back, and only a button
\* that settles has anything read again.
Fails(c) ==
  LET b == work[c].button
      back == [q \in Queries |-> IF q \in b.guesses /\ work[c].before.has
                                 THEN [data |-> work[c].before, invalid |-> FALSE]
                                 ELSE cache[q]]
      again == IF b.settles THEN b.refreshes ELSE {}
  IN /\ work[c].stage \in {"sent", "made"}
     /\ faults < MaxFaults
     /\ faults' = faults + 1
     /\ work' = [work EXCEPT ![c] = Finished(b)]
     /\ cache' = Marked(back, again)
     /\ fetch' = Refetched(fetch, again)
     /\ UNCHANGED <<page, table, owed, topic, moves>>

\* handleSignOut: when the session was read again, the home page opens.
GoHome(c) ==
  /\ work[c].stage = "settled" /\ ~Fetching("session")
  /\ work' = [work EXCEPT ![c].stage = "done"]
  /\ page' = "home"
  /\ \E old \in SUBSET {q \in ShownOn("home", Signed) : Follows(q)} :
       fetch' = Opened(fetch, "home", Signed, old)
  /\ UNCHANGED <<table, cache, owed, boundVars>>

\* Another browser, or the server itself.
OthersChange(c) ==
  /\ NextChange(c) /\ topic # "session"
  /\ table' = [table EXCEPT !.made = @ \cup {c}]
  /\ work' = [work EXCEPT ![c].stage = "done"]
  /\ UNCHANGED <<page, cache, fetch, owed, boundVars>>

FetchStep(q) == Poll(q) \/ ServerReads(q) \/ Answer(q)

PagesNext ==
  \/ \E p \in Pages : Open(p)
  \/ \E q \in Queries : FetchStep(q) \/ FetchFails(q)
  \/ \E c \in Changes, b \in ButtonsOf(page, Signed) : Press(c, b)
  \/ \E c \in Changes :
       ServerChanges(c) \/ Succeeds(c) \/ Fails(c) \/ GoHome(c) \/ OthersChange(c)

PagesSpec == PagesInit /\ [][PagesNext]_pageVars

-----------------------------------------------------------------------------
AtRest == (\A q \in Queries : ~Fetching(q)) /\ \A c \in Changes : ~InProgress(c)

\* Once nothing is in progress, a query shows every change that was made from its page while
\* it was there with an answer, and nothing that did not happen, unless it is known to be
\* old.  Two are left old by the code (LeftOld), and so is what a change does to pages that
\* are not open.
OwnChangesShow ==
  AtRest => \A q \in Queries : Follows(q) =>
              \/ cache[q].invalid
              \/ /\ ~LeftOld(q) => owed[q] \subseteq cache[q].data.made
                 /\ cache[q].data.made \subseteq table.made

\* What a polling page shows of the table.
CaughtUp ==
  \A q \in Polled \cap Here : Follows(q) => cache[q].data.has /\ cache[q].data.made = table.made
=============================================================================
