---------------------------- MODULE WebPagesProofs ----------------------------
(***************************************************************************)
(* OwnChangesShow, for any accounts, changes, pages opened and failures.   *)
(*                                                                         *)
(* The argument has two halves.  One is about the pages as they are        *)
(* written: whatever a page shows of a table, each of its buttons that     *)
(* changes the table has read again, but for what LeftOld names            *)
(* (ButtonsCover).  The other is about the cache: from then on the old     *)
(* answer is marked, and what arrives was read when the change was made.   *)
(***************************************************************************)
EXTENDS WebPages, TLAPS

\* Whatever is shown of the table a button changes, the button has read again, and so it
\* does with what it guesses, however it ends.
Covers(b, shown) ==
  /\ b.guesses \subseteq b.refreshes
  /\ b.guesses # {} => b.settles
  /\ \A q \in shown \cup {"session", "locale"} :
       topic \in b.writes /\ Follows(q) => q \in b.refreshes \/ LeftOld(q)

LEMMA AtLeastIn ==
  ASSUME NEW who \in Accounts, NEW least, NEW what
  PROVE  AtLeast(least, what)[who] \subseteq what
BY DEF AtLeast

LEMMA ButtonFields ==
  ASSUME NEW name, NEW writes, NEW refreshes
  PROVE  /\ Button(name, writes, refreshes).writes = writes
         /\ Button(name, writes, refreshes).refreshes = refreshes
         /\ Button(name, writes, refreshes).guesses = {}
         /\ Button(name, writes, refreshes).who = "same"
BY DEF Button

LEMMA ReadsFields ==
  /\ Reads["session"] = {"session"} /\ Reads["whoami"] = {"employees"}
  /\ Reads["locale"] = {"settings"} /\ Reads["settings"] = {"settings", "key"}
  /\ Reads["integration"] = {"key"} /\ Reads["haEntities"] = {}
  /\ Reads["clockStatus"] = {"entries"} /\ Reads["board"] = {"entries"}
  /\ Reads["myHours"] = {"entries", "pay"} /\ Reads["managerEntries"] = {"entries", "pay"}
  /\ Reads["insights"] = {"entries"} /\ Reads["pay"] = {"entries", "pay"}
  /\ Reads["timesheet"] = {"entries", "periods"} /\ Reads["payPeriods"] = {"periods"}
  /\ Reads["rosterMine"] = {"roster"} /\ Reads["rosterAll"] = {"roster"}
  /\ Reads["clockJobs"] = {"jobs"} /\ Reads["adminJobs"] = {"jobs"}
  /\ Reads["kioskEmployees"] = {"employees"} /\ Reads["adminEmployees"] = {"employees"}
  /\ Reads["managerEmployees"] = {"employees"} /\ Reads["payEmployees"] = {"employees"}
  /\ Reads["pendingCorrections"] = {"corrections"} /\ Reads["pendingLeave"] = {"leave"}
  /\ Reads["leaveMine"] = {"leave"}
BY DEF Reads

\* A button that has everything read again covers any page.
LEMMA AllCovered ==
  ASSUME NEW b, NEW shown, shown \subseteq Queries, b.refreshes = Queries, b.guesses = {}
  PROVE  Covers(b, shown)
<1>1. "session" \in Queries /\ "locale" \in Queries
  BY DEF Queries, Reads
<1>. QED  BY <1>1 DEF Covers

\* A button that guesses nothing covers what it has read again and what is of other tables.
LEMMA PlainCovered ==
  ASSUME NEW b, NEW shown, b.guesses = {},
         \A q \in shown \cup {"session", "locale"} :
           q \in b.refreshes \/ LeftOld(q) \/ b.writes \cap Reads[q] = {}
  PROVE  Covers(b, shown)
BY DEF Covers, Follows

LEMMA SigningButtons ==
  /\ \A who : LogIn(who).writes = {"session"} /\ LogIn(who).refreshes = {"session"}
              /\ LogIn(who).guesses = {} /\ LogIn(who).who = who
  /\ LogOut.writes = {"session"} /\ LogOut.refreshes = {"session"} /\ LogOut.guesses = {}
  /\ LogOut.who = "nobody"
  /\ ShellSignOut.writes = {"session"} /\ ShellSignOut.refreshes = {"session"}
  /\ ShellSignOut.guesses = {} /\ ShellSignOut.who = "nobody"
BY DEF LogIn, LogOut, ShellSignOut, Button

LEMMA SigningCovered ==
  ASSUME NEW b, NEW shown, b.writes = {"session"}, b.refreshes = {"session"}, b.guesses = {},
         shown \subseteq Queries
  PROVE  Covers(b, shown)
<1>1. ASSUME NEW q \in Queries, q # "session" PROVE "session" \notin Reads[q]
  BY <1>1 DEF Queries, Reads
<1>2. "session" \in Queries /\ "locale" \in Queries
  BY DEF Queries, Reads
<1>3. \A q \in shown \cup {"session", "locale"} : q \in b.refreshes \/ b.writes \cap Reads[q] = {}
  BY <1>1, <1>2
<1>. QED  BY <1>3, PlainCovered
LEMMA CoversLess ==
  ASSUME NEW b, NEW more, NEW less, Covers(b, more), less \subseteq more
  PROVE  Covers(b, less)
BY DEF Covers

LEMMA PageParts ==
  ASSUME NEW least, NEW shows, NEW buttons, NEW links, NEW who \in Accounts
  PROVE  /\ Page(least, shows, buttons, links).shows[who] \subseteq shows
         /\ Page(least, shows, buttons, links).buttons[who] \subseteq buttons
BY AtLeastIn DEF Page

\* Whoever it is for, a page's buttons cover what it shows to whomever.
Covered(p) ==
  \A who, other \in Accounts :
    /\ p.shows[other] \subseteq Queries
    /\ \A b \in p.buttons[who] : Covers(b, p.shows[other]) /\ b.who \in Accounts \cup {"same"}

LEMMA PageCovered ==
  ASSUME NEW least, NEW shows, NEW buttons, NEW links, shows \subseteq Queries,
         \A b \in buttons : Covers(b, shows) /\ b.who = "same"
  PROVE  Covered(Page(least, shows, buttons, links))
<1>1. ASSUME NEW who \in Accounts, NEW other \in Accounts
      PROVE  /\ Page(least, shows, buttons, links).shows[other] \subseteq shows
             /\ Page(least, shows, buttons, links).buttons[who] \subseteq buttons
  BY PageParts
<1>. QED  BY <1>1, CoversLess DEF Covered

LEMMA HomeCovered == Covered(HomePage)
<1>1. HomePage = [Page("nobody", {"whoami"}, {}, HomeTiles) EXCEPT !.buttons = Nowhere]
  BY DEF HomePage
<1>2. /\ HomePage.shows = AtLeast("nobody", {"whoami"})
      /\ HomePage.buttons = Nowhere
  BY <1>1 DEF Page
<1>3. "whoami" \in Queries
  BY DEF Queries, Reads
<1>. QED  BY <1>2, <1>3, AtLeastIn DEF Covered, Nowhere

LEMMA PinCovered == Covered(PinPage)
<1>1. {"kioskEmployees", "whoami"} \subseteq Queries
  BY DEF Queries, Reads
<1>2. ASSUME NEW other \in Accounts PROVE PinPage.shows[other] \subseteq {"kioskEmployees", "whoami"}
  BY AtLeastIn DEF PinPage
<1>3. ASSUME NEW who \in Accounts, NEW b \in PinPage.buttons[who]
      PROVE  b = LogOut \/ b = ClaimAdmin \/ \E a \in Accounts : b = LogIn(a)
  BY DEF PinPage
<1>4. ASSUME NEW b, NEW other \in Accounts,
             b = LogOut \/ b = ClaimAdmin \/ \E a \in Accounts : b = LogIn(a)
      PROVE  Covers(b, PinPage.shows[other]) /\ b.who \in Accounts \cup {"same"}
  <2>1. PinPage.shows[other] \subseteq Queries
    BY <1>1, <1>2
  <2>2. CASE b = ClaimAdmin
    BY <2>1, <2>2, AllCovered, ButtonFields DEF ClaimAdmin
  <2>3. CASE b = LogOut
    BY <2>1, <2>3, SigningButtons, SigningCovered, PagesAssumption
  <2>4. CASE \E a \in Accounts : b = LogIn(a)
    BY <2>1, <2>4, SigningButtons, SigningCovered
  <2>. QED  BY <1>4, <2>2, <2>3, <2>4
<1>. QED  BY <1>1, <1>2, <1>3, <1>4 DEF Covered

LEMMA ClockCovered == Covered(ClockPage)
<1>1. {"clockStatus", "clockJobs"} \subseteq Queries
  BY DEF Queries, Reads
<1>2. ASSUME NEW b \in {Button("punch", {"entries"}, {"clockStatus"})} PROVE Covers(b, {"clockStatus", "clockJobs"}) /\ b.who = "same"
  BY ReadsFields, ButtonFields, PlainCovered DEF LeftOld
<1>. QED  BY <1>1, <1>2, PageCovered DEF ClockPage

LEMMA MyHoursCovered == Covered(MyHoursPage)
<1>1. {"myHours"} \subseteq Queries
  BY DEF Queries, Reads
<1>2. ASSUME NEW b \in EditEntry("myHours") PROVE Covers(b, {"myHours"}) /\ b.who = "same"
  BY ReadsFields, ButtonFields, PlainCovered DEF LeftOld, EditEntry
<1>. QED  BY <1>1, <1>2, PageCovered DEF MyHoursPage

LEMMA ManagerEntriesCovered == Covered(ManagerEntriesPage)
<1>1. {"managerEntries", "managerEmployees"} \subseteq Queries
  BY DEF Queries, Reads
<1>2. ASSUME NEW b \in EditEntry("managerEntries") PROVE Covers(b, {"managerEntries", "managerEmployees"}) /\ b.who = "same"
  BY ReadsFields, ButtonFields, PlainCovered DEF LeftOld, EditEntry
<1>. QED  BY <1>1, <1>2, PageCovered DEF ManagerEntriesPage

LEMMA LeaveCovered == Covered(LeavePage)
<1>1. {"leaveMine"} \subseteq Queries
  BY DEF Queries, Reads
<1>2. ASSUME NEW b \in {Button("askLeave", {"leave"}, {"leaveMine"})} PROVE Covers(b, {"leaveMine"}) /\ b.who = "same"
  BY ReadsFields, ButtonFields, PlainCovered DEF LeftOld
<1>. QED  BY <1>1, <1>2, PageCovered DEF LeavePage

LEMMA ManagerCovered == Covered(ManagerPage)
<1>1. {"board", "pendingCorrections", "pendingLeave"} \subseteq Queries
  BY DEF Queries, Reads
<1>2. ASSUME NEW b \in Decide PROVE Covers(b, {"board", "pendingCorrections", "pendingLeave"}) /\ b.who = "same"
  BY <1>1, AllCovered, ButtonFields DEF Decide
<1>. QED  BY <1>1, <1>2, PageCovered DEF ManagerPage

LEMMA InsightsCovered == Covered(InsightsPage)
<1>1. {"insights"} \subseteq Queries
  BY DEF Queries, Reads
<1>2. ASSUME NEW b \in {} PROVE Covers(b, {"insights"}) /\ b.who = "same"
  BY ReadsFields, ButtonFields, PlainCovered DEF LeftOld
<1>. QED  BY <1>1, <1>2, PageCovered DEF InsightsPage

LEMMA AuditCovered == Covered(AuditPage)
<1>1. {"auditRows", "auditVerify"} \subseteq Queries
  BY DEF Queries, Reads
<1>2. ASSUME NEW b \in {} PROVE Covers(b, {"auditRows", "auditVerify"}) /\ b.who = "same"
  BY ReadsFields, ButtonFields, PlainCovered DEF LeftOld
<1>. QED  BY <1>1, <1>2, PageCovered DEF AuditPage

LEMMA PayPeriodsCovered == Covered(PayPeriodsPage)
<1>1. {"payPeriods", "timesheet"} \subseteq Queries
  BY DEF Queries, Reads
<1>2. ASSUME NEW b \in {LockPeriod} PROVE Covers(b, {"payPeriods", "timesheet"}) /\ b.who = "same"
  BY ReadsFields, ButtonFields, PlainCovered DEF LeftOld, LockPeriod
<1>. QED  BY <1>1, <1>2, PageCovered DEF PayPeriodsPage

LEMMA PayCovered == Covered(PayPage)
<1>1. {"payEmployees", "pay"} \subseteq Queries
  BY DEF Queries, Reads
<1>2. ASSUME NEW b \in PayButtons PROVE Covers(b, {"payEmployees", "pay"}) /\ b.who = "same"
  BY ReadsFields, ButtonFields, PlainCovered DEF LeftOld, PayButtons
<1>. QED  BY <1>1, <1>2, PageCovered DEF PayPage

LEMMA JobsCovered == Covered(JobsPage)
<1>1. {"adminJobs"} \subseteq Queries
  BY DEF Queries, Reads
<1>2. ASSUME NEW b \in JobButtons PROVE Covers(b, {"adminJobs"}) /\ b.who = "same"
  BY ReadsFields, ButtonFields, PlainCovered DEF LeftOld, JobButtons
<1>. QED  BY <1>1, <1>2, PageCovered DEF JobsPage

LEMMA RotateKeyCovers == Covers(RotateKey, {"settings", "integration"})
BY ReadsFields, ButtonFields DEF RotateKey, Covers, Follows, LeftOld

LEMMA SettingsCovered == Covered(SettingsPage)
<1>1. {"settings", "integration"} \subseteq Queries
  BY DEF Queries, Reads
<1>2. ASSUME NEW b \in {SaveDocument, ApplyPreset, SaveField, SavePresence, RotateKey} PROVE Covers(b, {"settings", "integration"}) /\ b.who = "same"
  <2>1. CASE b = RotateKey
    BY <2>1, ReadsFields, ButtonFields, RotateKeyCovers DEF RotateKey
  <2>2. CASE b # RotateKey
    <3>1. \E name : b = SettingsButton(name)
      BY <2>2 DEF SaveDocument, ApplyPreset, SaveField, SavePresence
    <3>. QED  BY <3>1, ReadsFields, ButtonFields, PlainCovered DEF LeftOld, SettingsButton
  <2>. QED  BY <2>1, <2>2
<1>. QED  BY <1>1, <1>2, PageCovered DEF SettingsPage

LEMMA RosterCovered == Covered(RosterPage)
<1>1. {"rosterAll", "rosterCompare", "kioskEmployees", "rosterMine"} \subseteq Queries
  BY DEF Queries, Reads
<1>2. ASSUME NEW other \in Accounts
      PROVE  RosterPage.shows[other] \subseteq {"rosterAll", "rosterCompare", "kioskEmployees", "rosterMine"}
  BY AtLeastIn DEF RosterPage
<1>3. ASSUME NEW who \in Accounts, NEW b \in RosterPage.buttons[who]
      PROVE  b.refreshes = Queries /\ b.guesses = {} /\ b.who = "same"
  <2>1. b \in {AddShift, CancelShift}
    BY AtLeastIn DEF RosterPage
  <2>. QED  BY <2>1, ButtonFields DEF AddShift, CancelShift
<1>. QED  BY <1>1, <1>2, <1>3, AllCovered DEF Covered

LEMMA EmployeesCovered == Covered(EmployeesPage)
<1>. DEFINE shown == {"adminEmployees", "haEntities"}
            again == {"adminEmployees", "kioskEmployees"}
<1>1. shown \subseteq Queries
  BY DEF Queries, Reads
<1>2. ASSUME NEW b \in {AddEmployee, ToggleActive, PatchEmployee, SetPin}
      PROVE  /\ b.writes = {"employees"} /\ b.refreshes = again /\ b.who = "same"
             /\ b.guesses \subseteq again /\ (b.guesses # {} => b.settles)
  <2>1. CASE b = ToggleActive
    BY <2>1 DEF ToggleActive, EmployeeButton, Button
  <2>2. CASE b = PatchEmployee
    BY <2>2 DEF PatchEmployee, EmployeeButton, Button
  <2>3. CASE b = AddEmployee \/ b = SetPin
    BY <2>3, ButtonFields DEF AddEmployee, SetPin, EmployeeButton
  <2>. QED  BY <2>1, <2>2, <2>3
<1>3. ASSUME NEW b \in {AddEmployee, ToggleActive, PatchEmployee, SetPin}
      PROVE  Covers(b, shown) /\ b.who = "same"
  BY <1>2, ReadsFields DEF Covers, Follows
<1>. QED  BY <1>1, <1>3, PageCovered DEF EmployeesPage

\* Every page, with the sign-out of its frame.
LEMMA ButtonsCover ==
  ASSUME NEW p \in Pages, NEW who \in Accounts, NEW other \in Accounts, NEW b \in ButtonsOf(p, who)
  PROVE  /\ Covers(b, ShownOn(p, other)) /\ ShownOn(p, other) \subseteq Queries
         /\ b.who \in Accounts \cup {"same"}
<1>1. Covered(PageOf[p])
  <2>1. p \in {"home", "pin", "clock", "myHours", "leave", "roster", "manager", "managerEntries",
               "insights", "audit", "payPeriods", "pay", "jobs", "employees", "settings"}
    BY DEF Pages, PageOf
  <2>2. PageOf["home"] = HomePage /\ PageOf["pin"] = PinPage /\ PageOf["clock"] = ClockPage
    BY DEF PageOf
  <2>3. PageOf["myHours"] = MyHoursPage /\ PageOf["leave"] = LeavePage /\ PageOf["roster"] = RosterPage
    BY DEF PageOf
  <2>4. /\ PageOf["manager"] = ManagerPage /\ PageOf["managerEntries"] = ManagerEntriesPage
        /\ PageOf["insights"] = InsightsPage
    BY DEF PageOf
  <2>5. PageOf["audit"] = AuditPage /\ PageOf["payPeriods"] = PayPeriodsPage /\ PageOf["pay"] = PayPage
    BY DEF PageOf
  <2>6. /\ PageOf["jobs"] = JobsPage /\ PageOf["employees"] = EmployeesPage
        /\ PageOf["settings"] = SettingsPage
    BY DEF PageOf
  <2>. QED  BY <2>1, <2>2, <2>3, <2>4, <2>5, <2>6, HomeCovered, PinCovered, ClockCovered, MyHoursCovered,
               LeaveCovered, RosterCovered, ManagerCovered, ManagerEntriesCovered, InsightsCovered,
               AuditCovered, PayPeriodsCovered, PayCovered, JobsCovered, EmployeesCovered, SettingsCovered
<1>2. {"session", "locale"} \subseteq Queries
  BY DEF Queries, Reads
<1>3. b \in PageOf[p].buttons[who] \/ b = ShellSignOut
  BY DEF ButtonsOf
<1>4. PageOf[p].shows[other] \subseteq Queries
  BY <1>1 DEF Covered
<1>5. Covers(b, PageOf[p].shows[other]) /\ b.who \in Accounts \cup {"same"}
  BY <1>1, <1>3, <1>4, SigningButtons, SigningCovered, PagesAssumption DEF Covered
<1>. QED  BY <1>2, <1>4, <1>5 DEF ShownOn, Covers
-----------------------------------------------------------------------------
(* The cache *)

Posted == {"sent", "made"}
AllButtons == UNION {ButtonsOf(p, who) : p \in Pages, who \in Accounts}

Contents == [has : BOOLEAN, made : SUBSET Changes, who : Accounts]
Works == [button : AllButtons \cup {NoButton}, stage : {"unused", "settled", "done"} \cup Posted,
          from : Pages, before : Contents]

TypeInv ==
  /\ page \in Pages
  /\ table \in Contents
  /\ cache \in [Queries -> [data : Contents, invalid : BOOLEAN]]
  /\ fetch \in [Queries -> [stage : {"none", "asked", "read"}, got : Contents, tries : Nat]]
  /\ work \in [Changes -> Works]
  /\ owed \in [Queries -> SUBSET Changes]

\* A button shows its change before it is answered.
Guessing(q) == \E c \in Changes : work[c].stage \in Posted /\ q \in work[c].button.guesses

\* What has an answer of the table shows what it owes, and nothing else.
Shows(q, content) ==
  /\ ~LeftOld(q) => owed[q] \subseteq content.made
  /\ content.made \subseteq table.made

WorkOK(c) ==
  /\ work[c].stage \in Posted =>
       \E who \in Accounts : work[c].button \in ButtonsOf(work[c].from, who)
  /\ work[c].stage \in Posted => topic \in work[c].button.writes
  /\ work[c].stage = "made" => c \in table.made

PagesInv ==
  /\ TypeInv
  /\ \A c \in Changes : WorkOK(c)
  /\ \A q \in Queries :
       /\ owed[q] \subseteq table.made
       /\ fetch[q].stage = "read" => Shows(q, fetch[q].got)
       /\ Follows(q) => cache[q].invalid \/ Guessing(q) \/ Shows(q, cache[q].data)

LEMMA Constants ==
  /\ NoContent \in Contents /\ NoFetch.stage = "none"
  /\ NoFetch \in [stage : {"none", "asked", "read"}, got : Contents, tries : Nat]
  /\ "home" \in Pages /\ "session" \in Queries /\ NoWork \in Works
<1>1. NoContent \in Contents
  BY PagesAssumption DEF NoContent, Contents
<1>2. "home" \in Pages /\ "session" \in Queries
  BY DEF Pages, PageOf, Queries, Reads
<1>. QED  BY <1>1, <1>2 DEF NoFetch, NoWork, Works

\* A request that is asked has no answer yet.
LEMMA AskedFetch ==
  ASSUME NEW tries
  PROVE  [NoFetch EXCEPT !.stage = "asked", !.tries = tries] =
           [stage |-> "asked", got |-> NoContent, tries |-> tries]
<1>1. [NoFetch EXCEPT !.stage = "asked", !.tries = tries] =
        [[NoFetch EXCEPT !.stage = "asked"] EXCEPT !.tries = tries]
  OBVIOUS
<1>2. [NoFetch EXCEPT !.stage = "asked"] = [stage |-> "asked", got |-> NoContent, tries |-> 0]
  BY DEF NoFetch
<1>3. [[stage |-> "asked", got |-> NoContent, tries |-> 0] EXCEPT !.tries = tries] =
        [stage |-> "asked", got |-> NoContent, tries |-> tries]
  OBVIOUS
<1>. QED  BY <1>1, <1>2, <1>3

\* Whatever begins a fetch leaves the others, or has them ask anew.
LEMMA BegunFetch ==
  ASSUME TypeInv, NEW qs
  PROVE  /\ Begun(fetch, qs) \in [Queries -> [stage : {"none", "asked", "read"}, got : Contents, tries : Nat]]
         /\ \A q \in Queries :
              IF q \in qs /\ Follows(q) THEN Begun(fetch, qs)[q].stage = "asked"
              ELSE Begun(fetch, qs)[q] = fetch[q]
<1>1. ASSUME NEW q \in Queries, NEW tries \in {1, 2}
      PROVE  /\ [NoFetch EXCEPT !.stage = "asked", !.tries = tries] \in
                   [stage : {"none", "asked", "read"}, got : Contents, tries : Nat]
             /\ [NoFetch EXCEPT !.stage = "asked", !.tries = tries].stage = "asked"
  <2>1. [stage |-> "asked", got |-> NoContent, tries |-> tries] \in
          [stage : {"none", "asked", "read"}, got : Contents, tries : Nat]
    BY Constants
  <2>. QED  BY <2>1, AskedFetch
<1>. QED  BY <1>1 DEF Begun, TypeInv

\* A step that leaves what is on the server and in the cache, and of the fetches leaves
\* each as it is or without an answer.
LEMMA FetchSteps ==
  ASSUME PagesInv, TypeInv', UNCHANGED <<topic, table, cache, work, owed>>,
         \A q \in Queries : fetch'[q] = fetch[q] \/ fetch'[q].stage # "read"
  PROVE  PagesInv'
<1>1. \A c \in Changes : WorkOK(c)'
  BY DEF PagesInv, WorkOK
<1>2. ASSUME NEW q \in Queries
      PROVE  /\ (owed[q] \subseteq table.made)'
             /\ fetch'[q].stage = "read" => Shows(q, fetch[q].got)'
             /\ (Follows(q) => cache[q].invalid \/ Guessing(q) \/ Shows(q, cache[q].data))'
  <2>1. /\ (owed[q] \subseteq table.made)' <=> owed[q] \subseteq table.made
        /\ Follows(q)' <=> Follows(q)
        /\ Guessing(q)' <=> Guessing(q)
        /\ Shows(q, cache[q].data)' <=> Shows(q, cache[q].data)
        /\ fetch'[q] = fetch[q] => (Shows(q, fetch[q].got)' <=> Shows(q, fetch[q].got))
    BY DEF Follows, Guessing, Shows, LeftOld
  <2>. QED  BY <2>1 DEF PagesInv
<1>. QED  BY <1>1, <1>2 DEF PagesInv
LEMMA SignedIn == TypeInv => Signed \in Accounts
BY Constants DEF TypeInv, Signed, Contents

LEMMA OpenKeeps == ASSUME PagesInv, NEW p \in Pages, Open(p) PROVE PagesInv'
<1>1. PICK old \in SUBSET {q \in ShownOn(p, Signed) : Follows(q)} : fetch' = Opened(fetch, p, Signed, old)
  BY DEF Open
<1>2. /\ fetch' \in [Queries -> [stage : {"none", "asked", "read"}, got : Contents, tries : Nat]]
      /\ \A q \in Queries : fetch'[q] = fetch[q] \/ fetch'[q].stage # "read"
  BY <1>1, BegunFetch DEF Opened, PagesInv
<1>3. page' \in Pages /\ UNCHANGED <<topic, table, cache, work, owed>>
  BY DEF Open
<1>4. TypeInv'
  BY <1>2, <1>3 DEF TypeInv, PagesInv
<1>. QED  BY <1>2, <1>3, <1>4, FetchSteps

LEMMA GoHomeKeeps == ASSUME PagesInv, NEW c \in Changes, GoHome(c) PROVE PagesInv'
<1>1. PICK old \in SUBSET {q \in ShownOn("home", Signed) : Follows(q)} :
        fetch' = Opened(fetch, "home", Signed, old)
  BY DEF GoHome
<1>2. /\ fetch' \in [Queries -> [stage : {"none", "asked", "read"}, got : Contents, tries : Nat]]
      /\ \A q \in Queries : fetch'[q] = fetch[q] \/ fetch'[q].stage # "read"
  BY <1>1, BegunFetch DEF Opened, PagesInv
<1>3. /\ page' \in Pages /\ UNCHANGED <<topic, table, cache, owed>>
      /\ work[c].stage = "settled" /\ work' = [work EXCEPT ![c].stage = "done"]
  BY Constants DEF GoHome, boundVars
<1>4. work' \in [Changes -> Works] /\ \A d \in Changes : d # c => work'[d] = work[d]
  BY <1>3 DEF PagesInv, TypeInv, Works
<1>5. work'[c].stage = "done"
  BY <1>3 DEF PagesInv, TypeInv, Works
<1>6. TypeInv'
  BY <1>2, <1>3, <1>4 DEF TypeInv, PagesInv
<1>7. \A d \in Changes : WorkOK(d)'
  BY <1>3, <1>4, <1>5 DEF PagesInv, WorkOK, Posted
<1>8. ASSUME NEW q \in Queries
      PROVE  /\ (owed[q] \subseteq table.made)'
             /\ fetch'[q].stage = "read" => Shows(q, fetch[q].got)'
             /\ (Follows(q) => cache[q].invalid \/ Guessing(q) \/ Shows(q, cache[q].data))'
  <2>1. Guessing(q) => Guessing(q)'
    BY <1>3, <1>4 DEF Guessing, Posted
  <2>2. /\ (owed[q] \subseteq table.made)' <=> owed[q] \subseteq table.made
        /\ Follows(q)' <=> Follows(q)
        /\ Shows(q, cache[q].data)' <=> Shows(q, cache[q].data)
        /\ fetch'[q] = fetch[q] => (Shows(q, fetch[q].got)' <=> Shows(q, fetch[q].got))
    BY <1>3 DEF Follows, Shows, LeftOld
  <2>. QED  BY <1>2, <1>3, <2>1, <2>2 DEF PagesInv
<1>. QED  BY <1>6, <1>7, <1>8 DEF PagesInv

LEMMA PollKeeps == ASSUME PagesInv, NEW q \in Queries, Poll(q) PROVE PagesInv'
<1>1. /\ fetch' \in [Queries -> [stage : {"none", "asked", "read"}, got : Contents, tries : Nat]]
      /\ \A x \in Queries : fetch'[x] = fetch[x] \/ fetch'[x].stage # "read"
  BY BegunFetch DEF Poll, PagesInv
<1>2. UNCHANGED <<page, topic, table, cache, work, owed>>
  BY DEF Poll, boundVars
<1>3. TypeInv'
  BY <1>1, <1>2 DEF TypeInv, PagesInv
<1>. QED  BY <1>1, <1>2, <1>3, FetchSteps

LEMMA FetchFailsKeeps == ASSUME PagesInv, NEW q \in Queries, FetchFails(q) PROVE PagesInv'
<1>1. /\ fetch' \in [Queries -> [stage : {"none", "asked", "read"}, got : Contents, tries : Nat]]
      /\ \A x \in Queries : fetch'[x] = fetch[x] \/ fetch'[x].stage # "read"
  <2>1. PICK f \in {NoFetch, [stage |-> "asked", got |-> NoContent, tries |-> 1]} :
          fetch' = [fetch EXCEPT ![q] = f]
    BY AskedFetch DEF FetchFails
  <2>2. f.stage # "read" /\ f \in [stage : {"none", "asked", "read"}, got : Contents, tries : Nat]
    BY <2>1, Constants
  <2>. QED  BY <2>1, <2>2 DEF PagesInv, TypeInv
<1>2. UNCHANGED <<page, topic, table, cache, work, owed>>
  BY DEF FetchFails
<1>3. TypeInv'
  BY <1>1, <1>2 DEF TypeInv, PagesInv
<1>. QED  BY <1>1, <1>2, <1>3, FetchSteps

\* The server answers with the table as it is, which has everything that is owed.
LEMMA ServerReadsKeeps == ASSUME PagesInv, NEW q \in Queries, ServerReads(q) PROVE PagesInv'
<1>1. UNCHANGED <<page, topic, table, cache, work, owed>>
  BY DEF ServerReads, boundVars
<1>2. /\ fetch' \in [Queries -> [stage : {"none", "asked", "read"}, got : Contents, tries : Nat]]
      /\ fetch'[q].got = table
      /\ \A x \in Queries : x # q => fetch'[x] = fetch[x]
  <2>1. fetch' = [fetch EXCEPT ![q] = [[fetch[q] EXCEPT !.stage = "read"] EXCEPT !.got = table]]
    BY DEF ServerReads, PagesInv, TypeInv
  <2>. QED  BY <2>1 DEF PagesInv, TypeInv
<1>3. TypeInv'
  BY <1>1, <1>2 DEF TypeInv, PagesInv
<1>4. \A c \in Changes : WorkOK(c)'
  BY <1>1 DEF PagesInv, WorkOK
<1>5. ASSUME NEW x \in Queries
      PROVE  /\ (owed[x] \subseteq table.made)'
             /\ fetch'[x].stage = "read" => Shows(x, fetch[x].got)'
             /\ (Follows(x) => cache[x].invalid \/ Guessing(x) \/ Shows(x, cache[x].data))'
  <2>1. /\ (owed[x] \subseteq table.made)' <=> owed[x] \subseteq table.made
        /\ Follows(x)' <=> Follows(x)
        /\ Guessing(x)' <=> Guessing(x)
        /\ Shows(x, cache[x].data)' <=> Shows(x, cache[x].data)
        /\ fetch'[x] = fetch[x] => (Shows(x, fetch[x].got)' <=> Shows(x, fetch[x].got))
    BY <1>1 DEF Follows, Guessing, Shows, LeftOld
  <2>2. fetch'[x].got = table /\ owed[x] \subseteq table.made => Shows(x, fetch[x].got)'
    BY <1>1 DEF Shows, LeftOld
  <2>. QED  BY <1>1, <1>2, <2>1, <2>2 DEF PagesInv
<1>. QED  BY <1>3, <1>4, <1>5 DEF PagesInv

LEMMA AnswerKeeps == ASSUME PagesInv, NEW q \in Queries, Answer(q) PROVE PagesInv'
<1>1. /\ UNCHANGED <<page, topic, table, work, owed>> /\ fetch[q].stage = "read"
      /\ fetch' = [fetch EXCEPT ![q] = NoFetch]
      /\ cache' = [cache EXCEPT ![q] = [data |-> fetch[q].got, invalid |-> FALSE]]
  BY DEF Answer, boundVars
<1>2. /\ fetch' \in [Queries -> [stage : {"none", "asked", "read"}, got : Contents, tries : Nat]]
      /\ fetch'[q].stage # "read" /\ cache'[q].data = fetch[q].got
      /\ cache' \in [Queries -> [data : Contents, invalid : BOOLEAN]]
      /\ \A x \in Queries : x # q => fetch'[x] = fetch[x] /\ cache'[x] = cache[x]
  BY <1>1, Constants DEF PagesInv, TypeInv
<1>3. TypeInv'
  BY <1>1, <1>2 DEF TypeInv, PagesInv
<1>4. \A c \in Changes : WorkOK(c)'
  BY <1>1 DEF PagesInv, WorkOK
<1>5. ASSUME NEW x \in Queries
      PROVE  /\ (owed[x] \subseteq table.made)'
             /\ fetch'[x].stage = "read" => Shows(x, fetch[x].got)'
             /\ (Follows(x) => cache[x].invalid \/ Guessing(x) \/ Shows(x, cache[x].data))'
  <2>1. /\ (owed[x] \subseteq table.made)' <=> owed[x] \subseteq table.made
        /\ Follows(x)' <=> Follows(x)
        /\ Guessing(x)' <=> Guessing(x)
        /\ cache'[x] = cache[x] => (Shows(x, cache[x].data)' <=> Shows(x, cache[x].data))
        /\ fetch'[x] = fetch[x] => (Shows(x, fetch[x].got)' <=> Shows(x, fetch[x].got))
        /\ cache'[x].data = fetch[x].got => (Shows(x, cache[x].data)' <=> Shows(x, fetch[x].got))
    BY <1>1 DEF Follows, Guessing, Shows, LeftOld
  <2>. QED  BY <1>1, <1>2, <2>1 DEF PagesInv
<1>. QED  BY <1>3, <1>4, <1>5 DEF PagesInv
LEMMA PressKeeps ==
  ASSUME PagesInv, NEW c \in Changes, NEW b \in ButtonsOf(page, Signed), Press(c, b)
  PROVE  PagesInv'
<1>. DEFINE before == IF b.guesses = {} THEN NoContent ELSE cache["adminEmployees"].data
<1>1. /\ UNCHANGED <<page, topic, table, owed>> /\ work[c].stage = "unused" /\ topic \in b.writes
      /\ work' = [work EXCEPT ![c] = [button |-> b, stage |-> "sent", from |-> page, before |-> before]]
  BY DEF Press, NextChange, Unused, boundVars
<1>2. /\ Signed \in Accounts /\ b \in AllButtons /\ before \in Contents
      /\ page \in Pages
  <2>1. "adminEmployees" \in Queries
    BY DEF Queries, Reads
  <2>. QED  BY <2>1, SignedIn, Constants DEF PagesInv, TypeInv, AllButtons
<1>3. /\ work' \in [Changes -> Works] /\ \A d \in Changes : d # c => work'[d] = work[d]
      /\ work'[c].button = b /\ work'[c].stage = "sent" /\ work'[c].from = page
  <2>. HIDE DEF before
  <2>. QED  BY <1>1, <1>2 DEF PagesInv, TypeInv, Works, Posted
<1>4. \A d \in Changes : WorkOK(d)'
  BY <1>1, <1>2, <1>3 DEF PagesInv, WorkOK
<1>5. /\ fetch' \in [Queries -> [stage : {"none", "asked", "read"}, got : Contents, tries : Nat]]
      /\ \A q \in Queries : fetch'[q] = fetch[q] \/ fetch'[q].stage # "read"
  BY Constants DEF Press, PagesInv, TypeInv
<1>6. ASSUME NEW q \in Queries
      PROVE  /\ cache'[q] \in [data : Contents, invalid : BOOLEAN]
             /\ q \notin b.guesses => cache'[q] = cache[q]
  <2>1. CASE q \in b.guesses /\ cache[q].data.has
    <3>1. cache'[q] = [cache[q] EXCEPT !.data.made = @ \cup {c}, !.invalid = FALSE]
      BY <2>1 DEF Press
    <3>2. cache[q] \in [data : Contents, invalid : BOOLEAN]
      BY DEF PagesInv, TypeInv
    <3>3. [cache[q].data EXCEPT !.made = @ \cup {c}] \in Contents
      BY <3>2 DEF Contents
    <3>4. cache'[q] = [[cache[q] EXCEPT !.data = [cache[q].data EXCEPT !.made = @ \cup {c}]] EXCEPT !.invalid = FALSE]
      BY <3>1, <3>2
    <3>5. [cache[q] EXCEPT !.data = [cache[q].data EXCEPT !.made = @ \cup {c}]] \in [data : Contents, invalid : BOOLEAN]
      BY <3>2, <3>3
    <3>. QED  BY <2>1, <3>4, <3>5
  <2>2. CASE ~(q \in b.guesses /\ cache[q].data.has)
    BY <2>2 DEF Press, PagesInv, TypeInv
  <2>. QED  BY <2>1, <2>2
<1>7. cache' \in [Queries -> [data : Contents, invalid : BOOLEAN]]
  <2>1. cache' = [q \in Queries |-> cache'[q]]
    BY DEF Press
  <2>. QED  BY <1>6, <2>1
<1>8. TypeInv'
  BY <1>1, <1>3, <1>5, <1>7 DEF TypeInv, PagesInv
<1>9. ASSUME NEW q \in Queries
      PROVE  /\ (owed[q] \subseteq table.made)'
             /\ fetch'[q].stage = "read" => Shows(q, fetch[q].got)'
             /\ (Follows(q) => cache[q].invalid \/ Guessing(q) \/ Shows(q, cache[q].data))'
  <2>1. (Guessing(q) => Guessing(q)') /\ (q \in b.guesses => Guessing(q)')
    BY <1>1, <1>3 DEF Guessing, Posted
  <2>2. /\ (owed[q] \subseteq table.made)' <=> owed[q] \subseteq table.made
        /\ Follows(q)' <=> Follows(q)
        /\ cache'[q] = cache[q] => (Shows(q, cache[q].data)' <=> Shows(q, cache[q].data))
        /\ fetch'[q] = fetch[q] => (Shows(q, fetch[q].got)' <=> Shows(q, fetch[q].got))
    BY <1>1 DEF Follows, Shows, LeftOld
  <2>. QED  BY <1>5, <1>6, <2>1, <2>2 DEF PagesInv
<1>. QED  BY <1>4, <1>8, <1>9 DEF PagesInv

LEMMA ServerChangesKeeps ==
  ASSUME PagesInv, NEW c \in Changes, ServerChanges(c)
  PROVE  PagesInv'
<1>1. /\ UNCHANGED <<page, topic, cache, fetch, owed>> /\ work[c].stage = "sent"
      /\ work' = [work EXCEPT ![c].stage = "made"]
  BY DEF ServerChanges, boundVars
<1>2. /\ work' \in [Changes -> Works] /\ \A d \in Changes : d # c => work'[d] = work[d]
      /\ work'[c] = [work[c] EXCEPT !.stage = "made"] /\ work'[c].stage = "made"
      /\ work'[c].button = work[c].button /\ work'[c].from = work[c].from
  BY <1>1 DEF PagesInv, TypeInv, Works, Posted
<1>3. /\ table' \in Contents /\ table'.made = table.made \cup {c}
  <2>1. PICK who \in Accounts : work[c].button \in ButtonsOf(work[c].from, who)
    BY <1>1 DEF PagesInv, WorkOK, Posted
  <2>2. work[c].button.who \in Accounts \cup {"same"}
    BY <2>1, ButtonsCover DEF PagesInv, TypeInv, Works
  <2>3. PICK name \in Accounts : table' = [table EXCEPT !.made = @ \cup {c}, !.who = name]
    BY <2>2 DEF ServerChanges, PagesInv, TypeInv, Contents
  <2>4. table \in Contents
    BY DEF PagesInv, TypeInv
  <2>. QED  BY <2>3, <2>4 DEF Contents
<1>4. TypeInv'
  BY <1>1, <1>2, <1>3 DEF TypeInv, PagesInv
<1>5. \A d \in Changes : WorkOK(d)'
  BY <1>1, <1>2, <1>3 DEF PagesInv, WorkOK, Posted
<1>6. ASSUME NEW q \in Queries
      PROVE  /\ (owed[q] \subseteq table.made)'
             /\ fetch'[q].stage = "read" => Shows(q, fetch[q].got)'
             /\ (Follows(q) => cache[q].invalid \/ Guessing(q) \/ Shows(q, cache[q].data))'
  <2>1. Guessing(q) => Guessing(q)'
    BY <1>1, <1>2 DEF Guessing, Posted
  <2>2. /\ owed[q] \subseteq table.made => (owed[q] \subseteq table.made)'
        /\ Follows(q)' <=> Follows(q)
        /\ Shows(q, cache[q].data) => Shows(q, cache[q].data)'
        /\ Shows(q, fetch[q].got) => Shows(q, fetch[q].got)'
    BY <1>1, <1>3 DEF Follows, Shows, LeftOld
  <2>. QED  BY <1>1, <2>1, <2>2 DEF PagesInv
<1>. QED  BY <1>4, <1>5, <1>6 DEF PagesInv

LEMMA OthersChangeKeeps ==
  ASSUME PagesInv, NEW c \in Changes, OthersChange(c)
  PROVE  PagesInv'
<1>1. /\ UNCHANGED <<page, topic, cache, fetch, owed>> /\ work[c].stage = "unused"
      /\ work' = [work EXCEPT ![c].stage = "done"]
      /\ table' = [table EXCEPT !.made = @ \cup {c}]
  BY DEF OthersChange, NextChange, Unused, boundVars
<1>2. /\ work' \in [Changes -> Works] /\ \A d \in Changes : d # c => work'[d] = work[d]
      /\ work'[c].stage = "done"
  BY <1>1 DEF PagesInv, TypeInv, Works, Posted
<1>3. /\ table' \in Contents /\ table'.made = table.made \cup {c}
  BY <1>1 DEF PagesInv, TypeInv, Contents
<1>4. TypeInv'
  BY <1>1, <1>2, <1>3 DEF TypeInv, PagesInv
<1>5. \A d \in Changes : WorkOK(d)'
  BY <1>1, <1>2, <1>3 DEF PagesInv, WorkOK, Posted
<1>6. ASSUME NEW q \in Queries
      PROVE  /\ (owed[q] \subseteq table.made)'
             /\ fetch'[q].stage = "read" => Shows(q, fetch[q].got)'
             /\ (Follows(q) => cache[q].invalid \/ Guessing(q) \/ Shows(q, cache[q].data))'
  <2>1. Guessing(q) => Guessing(q)'
    BY <1>1, <1>2 DEF Guessing, Posted
  <2>2. /\ owed[q] \subseteq table.made => (owed[q] \subseteq table.made)'
        /\ Follows(q)' <=> Follows(q)
        /\ Shows(q, cache[q].data) => Shows(q, cache[q].data)'
        /\ Shows(q, fetch[q].got) => Shows(q, fetch[q].got)'
    BY <1>1, <1>3 DEF Follows, Shows, LeftOld
  <2>. QED  BY <1>1, <2>1, <2>2 DEF PagesInv
<1>. QED  BY <1>4, <1>5, <1>6 DEF PagesInv
\* What is read again is marked, and asked for anew where it is on the page.
LEMMA MarkedCache ==
  ASSUME NEW caches \in [Queries -> [data : Contents, invalid : BOOLEAN]], NEW qs
  PROVE  /\ Marked(caches, qs) \in [Queries -> [data : Contents, invalid : BOOLEAN]]
         /\ \A q \in Queries : IF q \in qs THEN Marked(caches, qs)[q].invalid
                             ELSE Marked(caches, qs)[q] = caches[q]
BY DEF Marked

LEMMA RefetchedFetch ==
  ASSUME TypeInv, NEW qs
  PROVE  /\ Refetched(fetch, qs) \in [Queries -> [stage : {"none", "asked", "read"}, got : Contents, tries : Nat]]
         /\ \A q \in Queries : \/ Refetched(fetch, qs)[q] = fetch[q]
                             \/ Refetched(fetch, qs)[q].stage = "asked"
         /\ \A q \in Queries : q \in qs /\ q \in Here /\ cache[q].data.has /\ Follows(q) =>
                             Refetched(fetch, qs)[q].stage = "asked"
<1>. DEFINE again == {q \in qs \cap Here : cache[q].data.has \/ fetch[q].stage = "none"}
<1>1. Refetched(fetch, qs) = Begun(fetch, again)
  BY DEF Refetched
<1>2. \A q \in Queries : q \in qs /\ q \in Here /\ cache[q].data.has => q \in again
  OBVIOUS
<1>. HIDE DEF again
<1>. QED  BY <1>1, <1>2, BegunFetch

\* A request that has ended.
LEMMA FinishedWork ==
  ASSUME PagesInv, NEW c \in Changes, work[c].stage \in Posted,
         work' = [work EXCEPT ![c] = Finished(work[c].button)]
  PROVE  /\ work' \in [Changes -> Works] /\ work'[c].stage \notin Posted
         /\ \A d \in Changes : d # c => work'[d] = work[d]
         /\ \A q : Guessing(q) => Guessing(q)' \/ q \in work[c].button.refreshes
<1>1. Finished(work[c].button) \in Works /\ Finished(work[c].button).stage \notin Posted
  BY Constants DEF Finished, NoWork, Works, Posted
<1>2. /\ work' \in [Changes -> Works] /\ work'[c].stage \notin Posted
      /\ \A d \in Changes : d # c => work'[d] = work[d]
  <2>. DEFINE w == Finished(work[c].button)
  <2>. HIDE DEF w
  <2>. QED  BY <1>1 DEF PagesInv, TypeInv, w
<1>3. PICK who \in Accounts : work[c].button \in ButtonsOf(work[c].from, who)
  BY DEF PagesInv, WorkOK
<1>4. work[c].button.guesses \subseteq work[c].button.refreshes
  BY <1>3, ButtonsCover DEF PagesInv, TypeInv, Works, Covers
<1>5. ASSUME NEW q, Guessing(q) PROVE Guessing(q)' \/ q \in work[c].button.refreshes
  BY <1>2, <1>4, <1>5 DEF Guessing
<1>. QED  BY <1>2, <1>5

LEMMA SucceedsKeeps ==
  ASSUME PagesInv, NEW c \in Changes, Succeeds(c)
  PROVE  PagesInv'
<1>. DEFINE b == work[c].button
            new(q) == /\ q \in Here \cap ShownOn(work[c].from, Signed) /\ Follows(q)
                      /\ cache[q].data.has
<1>1. /\ UNCHANGED <<page, topic, table>> /\ work[c].stage = "made"
      /\ work' = [work EXCEPT ![c] = Finished(b)]
      /\ cache' = Marked(cache, b.refreshes) /\ fetch' = Refetched(fetch, b.refreshes)
      /\ owed' = [q \in Queries |-> IF new(q) THEN owed[q] \cup {c} ELSE owed[q]]
  BY DEF Succeeds, boundVars
<1>2. /\ work' \in [Changes -> Works] /\ work'[c].stage \notin Posted
      /\ \A d \in Changes : d # c => work'[d] = work[d]
      /\ \A q : Guessing(q) => Guessing(q)' \/ q \in b.refreshes
  BY <1>1, FinishedWork DEF Posted
<1>3. /\ cache' \in [Queries -> [data : Contents, invalid : BOOLEAN]]
      /\ \A q \in Queries : IF q \in b.refreshes THEN cache'[q].invalid ELSE cache'[q] = cache[q]
  BY <1>1, MarkedCache DEF PagesInv, TypeInv
<1>4. /\ fetch' \in [Queries -> [stage : {"none", "asked", "read"}, got : Contents, tries : Nat]]
      /\ \A q \in Queries : fetch'[q] = fetch[q] \/ fetch'[q].stage = "asked"
      /\ \A q \in Queries : q \in b.refreshes /\ new(q) => fetch'[q].stage = "asked"
  BY <1>1, RefetchedFetch DEF PagesInv
<1>5. /\ c \in table.made
      /\ \A q \in Queries : new(q) => q \in b.refreshes \/ LeftOld(q)
  <2>1. PICK who \in Accounts : b \in ButtonsOf(work[c].from, who)
    BY <1>1 DEF PagesInv, WorkOK, Posted
  <2>2. Covers(b, ShownOn(work[c].from, Signed))
    BY <2>1, ButtonsCover, SignedIn DEF PagesInv, TypeInv, Works
  <2>3. c \in table.made /\ topic \in b.writes
    BY <1>1 DEF PagesInv, WorkOK, Posted
  <2>. QED  BY <2>2, <2>3 DEF Covers
<1>6. owed' \in [Queries -> SUBSET Changes]
  BY <1>1 DEF PagesInv, TypeInv
<1>7. TypeInv'
  BY <1>1, <1>2, <1>3, <1>4, <1>6 DEF TypeInv, PagesInv
<1>8. \A d \in Changes : WorkOK(d)'
  BY <1>1, <1>2 DEF PagesInv, WorkOK, Posted
<1>9. ASSUME NEW q \in Queries
      PROVE  /\ (owed[q] \subseteq table.made)'
             /\ fetch'[q].stage = "read" => Shows(q, fetch[q].got)'
             /\ (Follows(q) => cache[q].invalid \/ Guessing(q) \/ Shows(q, cache[q].data))'
  <2>1. owed'[q] = IF new(q) THEN owed[q] \cup {c} ELSE owed[q]
    BY <1>1
  <2>. HIDE DEF new
  <2>2. new(q) => q \in b.refreshes \/ LeftOld(q)
    BY <1>5
  <2>3. owed[q] \subseteq table.made /\ (owed[q] \subseteq table.made)'
    BY <1>1, <1>5, <2>1 DEF PagesInv
  <2>4. /\ Follows(q)' <=> Follows(q)
        /\ LeftOld(q)' <=> LeftOld(q)
    BY <1>1 DEF Follows, LeftOld
  <2>5. ASSUME q \notin b.refreshes, NEW content, Shows(q, content)
        PROVE  /\ ~LeftOld(q)' => owed'[q] \subseteq content.made
               /\ content.made \subseteq table'.made
    BY <1>1, <2>1, <2>2, <2>4, <2>5 DEF Shows
  <2>6. fetch'[q].stage = "read" => Shows(q, fetch[q].got)'
    <3>1. SUFFICES ASSUME fetch'[q].stage = "read" PROVE Shows(q, fetch[q].got)'
      OBVIOUS
    <3>2. fetch'[q] = fetch[q] /\ ~(q \in b.refreshes /\ new(q))
      BY <1>4, <3>1
    <3>3. Shows(q, fetch[q].got)
      BY <3>1, <3>2 DEF PagesInv
    <3>4. owed'[q] = owed[q] \/ LeftOld(q)
      BY <2>1, <2>2, <3>2
    <3>. QED  BY <1>1, <2>4, <3>2, <3>3, <3>4 DEF Shows
  <2>7. (Follows(q) => cache[q].invalid \/ Guessing(q) \/ Shows(q, cache[q].data))'
    <3>1. CASE q \in b.refreshes
      BY <1>3, <3>1
    <3>2. CASE q \notin b.refreshes
      <4>1. cache'[q] = cache[q]
        BY <1>3, <3>2
      <4>2. Follows(q) => cache[q].invalid \/ Guessing(q) \/ Shows(q, cache[q].data)
        BY DEF PagesInv
      <4>3. Shows(q, cache[q].data) => Shows(q, cache[q].data)'
        BY <2>5, <3>2, <4>1 DEF Shows
      <4>. QED  BY <1>2, <2>4, <3>2, <4>1, <4>2, <4>3
    <3>. QED  BY <3>1, <3>2
  <2>. QED  BY <2>3, <2>6, <2>7
<1>. QED  BY <1>7, <1>8, <1>9 DEF PagesInv

LEMMA FailsKeeps ==
  ASSUME PagesInv, NEW c \in Changes, Fails(c)
  PROVE  PagesInv'
<1>. DEFINE b == work[c].button
            back == [q \in Queries |-> IF q \in b.guesses /\ work[c].before.has
                                     THEN [data |-> work[c].before, invalid |-> FALSE]
                                     ELSE cache[q]]
            again == IF b.settles THEN b.refreshes ELSE {}
<1>1. /\ UNCHANGED <<page, topic, table, owed>> /\ work[c].stage \in Posted
      /\ work' = [work EXCEPT ![c] = Finished(b)]
      /\ cache' = Marked(back, again) /\ fetch' = Refetched(fetch, again)
  BY DEF Fails, Posted
<1>2. b.guesses # {} => again = b.refreshes /\ b.guesses \subseteq b.refreshes
  <2>1. PICK who \in Accounts : b \in ButtonsOf(work[c].from, who)
    BY <1>1 DEF PagesInv, WorkOK
  <2>. QED  BY <2>1, ButtonsCover DEF PagesInv, TypeInv, Works, Covers
<1>3. /\ work' \in [Changes -> Works] /\ work'[c].stage \notin Posted
      /\ \A d \in Changes : d # c => work'[d] = work[d]
  BY <1>1, FinishedWork
<1>4. ASSUME NEW q \in Queries, Guessing(q) PROVE Guessing(q)' \/ q \in again
  BY <1>2, <1>3, <1>4 DEF Guessing
<1>5. back \in [Queries -> [data : Contents, invalid : BOOLEAN]]
  BY <1>1 DEF PagesInv, TypeInv, Works
<1>6. /\ cache' \in [Queries -> [data : Contents, invalid : BOOLEAN]]
      /\ \A q \in Queries : IF q \in again THEN cache'[q].invalid ELSE cache'[q] = cache[q]
  <2>1. \A q \in Queries : q \notin again => back[q] = cache[q]
    BY <1>2
  <2>. HIDE DEF back, again
  <2>. QED  BY <1>1, <1>5, <2>1, MarkedCache
<1>7. /\ fetch' \in [Queries -> [stage : {"none", "asked", "read"}, got : Contents, tries : Nat]]
      /\ \A q \in Queries : fetch'[q] = fetch[q] \/ fetch'[q].stage # "read"
  BY <1>1, RefetchedFetch DEF PagesInv
<1>8. TypeInv'
  BY <1>1, <1>3, <1>6, <1>7 DEF TypeInv, PagesInv
<1>9. \A d \in Changes : WorkOK(d)'
  BY <1>1, <1>3 DEF PagesInv, WorkOK, Posted
<1>10. ASSUME NEW q \in Queries
      PROVE  /\ (owed[q] \subseteq table.made)'
             /\ fetch'[q].stage = "read" => Shows(q, fetch[q].got)'
             /\ (Follows(q) => cache[q].invalid \/ Guessing(q) \/ Shows(q, cache[q].data))'
  <2>1. /\ (owed[q] \subseteq table.made)' <=> owed[q] \subseteq table.made
        /\ Follows(q)' <=> Follows(q)
        /\ cache'[q] = cache[q] => (Shows(q, cache[q].data)' <=> Shows(q, cache[q].data))
        /\ fetch'[q] = fetch[q] => (Shows(q, fetch[q].got)' <=> Shows(q, fetch[q].got))
    BY <1>1 DEF Follows, Shows, LeftOld
  <2>2. Follows(q) => cache[q].invalid \/ Guessing(q) \/ Shows(q, cache[q].data)
    BY DEF PagesInv
  <2>. HIDE DEF again, back
  <2>3. (Follows(q) => cache[q].invalid \/ Guessing(q) \/ Shows(q, cache[q].data))'
    BY <1>4, <1>6, <2>1, <2>2
  <2>. QED  BY <1>7, <2>1, <2>3 DEF PagesInv
<1>. QED  BY <1>8, <1>9, <1>10 DEF PagesInv

LEMMA PagesStart == PagesInit => PagesInv
<1>. SUFFICES ASSUME PagesInit PROVE PagesInv
  OBVIOUS
<1>1. PICK who \in Accounts :
        /\ table = [has |-> TRUE, made |-> {}, who |-> who]
        /\ page \in {p \in Pages : Concerns(p, who)}
        /\ cache = [q \in Queries |->
                      [data |-> IF q \in ShownOn(page, who) THEN table ELSE NoContent,
                       invalid |-> FALSE]]
  BY DEF PagesInit
<1>2. /\ fetch = [q \in Queries |-> NoFetch] /\ work = [c \in Changes |-> NoWork]
      /\ owed = [q \in Queries |-> {}]
  BY DEF PagesInit
<1>3. table \in Contents /\ NoContent.made = {} /\ table.made = {}
  BY <1>1 DEF Contents, NoContent
<1>4. cache \in [Queries -> [data : Contents, invalid : BOOLEAN]]
  BY <1>1, <1>3, Constants
<1>5. TypeInv
  BY <1>1, <1>2, <1>3, <1>4, Constants DEF TypeInv
<1>6. \A c \in Changes : WorkOK(c)
  BY <1>2 DEF WorkOK, NoWork, Posted
<1>7. ASSUME NEW q \in Queries
      PROVE  /\ owed[q] \subseteq table.made /\ fetch[q].stage # "read"
             /\ Shows(q, cache[q].data)
  <2>1. cache[q].data = table \/ cache[q].data = NoContent
    BY <1>1
  <2>. QED  BY <1>2, <1>3, <2>1, Constants DEF Shows
<1>. QED  BY <1>5, <1>6, <1>7 DEF PagesInv

\* However answers overtake one another and whatever fails, what the cache holds of the
\* table has everything that is owed, or is marked, or shows a change that is on its way
\* (the pages and lib/query-client.ts).
THEOREM CacheKept == PagesSpec => []PagesInv
<1>1. ASSUME PagesInv, PagesNext PROVE PagesInv'
  BY <1>1, OpenKeeps, PollKeeps, ServerReadsKeeps, AnswerKeeps, FetchFailsKeeps, PressKeeps,
     ServerChangesKeeps, SucceedsKeeps, FailsKeeps, GoHomeKeeps, OthersChangeKeeps
     DEF PagesNext, FetchStep
<1>2. ASSUME PagesInv, UNCHANGED pageVars PROVE PagesInv'
  <2>1. UNCHANGED <<page, topic, table, cache, fetch, work, owed>>
    BY <1>2 DEF pageVars, boundVars
  <2>2. TypeInv'
    BY <1>2, <2>1 DEF PagesInv, TypeInv
  <2>. QED  BY <1>2, <2>1, <2>2, FetchSteps
<1>. QED  BY <1>1, <1>2, PagesStart, PTL DEF PagesSpec

\* Once nothing is in progress, a page shows what was changed from it while it was there
\* with an answer, and nothing that did not happen, or knows that it is old.
THEOREM OwnChangesAlwaysShow == PagesSpec => []OwnChangesShow
<1>1. ASSUME PagesInv, AtRest, NEW q \in Queries, Follows(q)
      PROVE  cache[q].invalid \/ Shows(q, cache[q].data)
  <2>1. ~Guessing(q)
    BY <1>1 DEF AtRest, InProgress, Guessing, Posted
  <2>. QED  BY <1>1, <2>1 DEF PagesInv
<1>2. PagesInv => OwnChangesShow
  BY <1>1 DEF OwnChangesShow, Shows
<1>. QED  BY <1>2, CacheKept, PTL
===============================================================================
