---------------------------- MODULE OfflineQueue -----------------------------
(***************************************************************************)
(* The kiosk's offline queue: lib/offline-queue.ts and the clock page that *)
(* uses it (app/(kiosk)/clock/page.tsx), in one browser, against the punch *)
(* clock as the page sees it.                                              *)
(*                                                                         *)
(* localStorage holds the saved punches.  flushQueue() reads them once and *)
(* sends them one at a time; after each answer it writes back what is left *)
(* of the list it read.  Between its reads and its writes the page may     *)
(* save another punch, and mounting the page or the browser's "online"     *)
(* event start further flushes.                                            *)
(*                                                                         *)
(* A request carries the session cookie the browser has when it is sent.   *)
(* It fails with a TypeError only while the network is down; then it was   *)
(* handled before or never will be.  The kiosk is its employees' only      *)
(* device.  Breaks and job switches are not queued and left out.           *)
(***************************************************************************)
EXTENDS Naturals, Sequences

CONSTANTS
  Employees,
  NoOne,           \* nobody is signed in
  Flushes,         \* bound: flushQueue() calls in progress at one time
  MaxTaps,         \* bound: punches tapped in a behaviour
  MaxSignIns,      \* bound: sign-ins and sign-outs in a behaviour
  MaxErrors        \* bound: answers of the server that are neither yes nor no

ASSUME NoOneAssumption == NoOne \notin Employees
ASSUME BoundsAssumption == MaxTaps \in Nat /\ MaxSignIns \in Nat /\ MaxErrors \in Nat

VARIABLES
  stored,        \* localStorage: the saved punches
  flush,         \* each flushQueue(): its request and the list it read
  tap,           \* the page's own request
  page,          \* whether the clock page is mounted
  online,        \* whether the network is up
  session,       \* whose session cookie the browser has
  clockedIn,     \* the server: who has an open entry
  accepted,      \* the server: punches made, with the employee they were made for
  saved,         \* history: ids of the punches saved, in order
  settled,       \* history: replays that left the list, in order, with their answers
  taps, signIns, errors,
  crossed,       \* history: a flush ran while another one or a saving touched the list
  overtaken      \* history: a punch was handled straight away while others were saved

kiosk == <<stored, flush, tap, page>>
server == <<clockedIn, accepted>>
history == <<saved, settled, crossed, overtaken>>
bounds == <<taps, signIns, errors>>
vars == <<kiosk, online, session, server, history, bounds>>

Kinds == {"in", "out"}
Answers == {"ok", "refused", "unauthorized", "error"}
Idle == [stage |-> "idle", list |-> <<>>, as |-> NoOne, answer |-> "ok"]
Sent(list) == [stage |-> "sent", list |-> list, as |-> session, answer |-> "ok"]
Running(f) == flush[f].stage # "idle"

Init ==
  /\ stored = <<>>
  /\ flush = [f \in Flushes |-> Idle]
  /\ tap = Idle
  /\ page = FALSE
  /\ online = TRUE
  /\ session \in Employees \cup {NoOne}
  /\ clockedIn = [e \in Employees |-> FALSE] /\ accepted = <<>>
  /\ saved = <<>> /\ settled = <<>>
  /\ taps = 0 /\ signIns = 0 /\ errors = 0
  /\ crossed = FALSE /\ overtaken = FALSE

-----------------------------------------------------------------------------
(* The server *)

\* Mutation: being clocked in already does not matter.
TakesAny(kind, emp) == TRUE

\* already_clocked_in, not_clocked_in
Takes(kind, emp) == clockedIn[emp] = (kind = "out")

\* The server handles a request: 401 without a session; a refusal for the reason
\* above, or of a clock-in for any of the other checks; an error (a throw, or the
\* proxy's 502 while the server restarts) with the punch made or not.
Handle(request, answer) ==
  LET punch == Head(request.list)
      emp == request.as
      Make == /\ clockedIn' = [clockedIn EXCEPT ![emp] = (punch.kind = "in")]
              /\ accepted' = Append(accepted, [id |-> punch.id, for |-> emp])
  IN /\ request.stage = "sent"
     /\ online
     /\ \/ emp = NoOne /\ answer = "unauthorized" /\ UNCHANGED <<server, errors>>
        \/ emp # NoOne /\ Takes(punch.kind, emp) /\ Make /\ answer = "ok" /\ UNCHANGED errors
        \/ /\ emp # NoOne
           /\ ~Takes(punch.kind, emp) \/ punch.kind = "in"
           /\ answer = "refused" /\ UNCHANGED <<server, errors>>
        \/ /\ errors < MaxErrors /\ errors' = errors + 1
           /\ answer = "error"
           /\ \/ UNCHANGED server
              \/ emp # NoOne /\ Takes(punch.kind, emp) /\ Make
     /\ UNCHANGED <<stored, page, online, session, saved, settled, crossed, taps, signIns>>

HandleTap ==
  \E answer \in Answers :
    /\ Handle(tap, answer)
    /\ tap' = [tap EXCEPT !.stage = "answered", !.answer = answer]
    /\ overtaken' = (overtaken \/ stored # <<>>)
    /\ UNCHANGED flush

HandleReplay(f) ==
  \E answer \in Answers :
    /\ Handle(flush[f], answer)
    /\ flush' = [flush EXCEPT ![f].stage = "answered", ![f].answer = answer]
    /\ UNCHANGED <<tap, overtaken>>

-----------------------------------------------------------------------------
(* The clock page *)

\* A tap on clock in or clock out; the buttons are disabled until it is done.  What the
\* page shows may be old, so either button may be there.
Tap(kind) ==
  /\ page /\ session # NoOne
  /\ tap.stage = "idle"
  /\ taps < MaxTaps
  /\ taps' = taps + 1
  /\ tap' = Sent(<<[id |-> taps + 1, by |-> session, kind |-> kind]>>)
  /\ UNCHANGED <<stored, flush, page, online, session, server, history, signIns, errors>>

\* The answer, good or bad, is shown.
TapAnswered ==
  /\ tap.stage = "answered"
  /\ tap' = Idle
  /\ UNCHANGED <<stored, flush, page, online, session, server, history, bounds>>

\* A TypeError: enqueuePunch reads the list, appends, and writes it.
TapQueued ==
  /\ tap.stage # "idle"
  /\ ~online
  /\ stored' = Append(stored, Head(tap.list))
  /\ saved' = Append(saved, Head(tap.list).id)
  /\ crossed' = (crossed \/ \E f \in Flushes : Running(f))
  /\ tap' = Idle
  /\ UNCHANGED <<flush, page, online, session, server, settled, overtaken, bounds>>

\* flushQueue() begins: it reads the list and sends its head, if there is one.
StartFlush ==
  /\ crossed' = (crossed \/ \E g \in Flushes : Running(g))
  /\ IF stored = <<>> THEN UNCHANGED flush
     ELSE \E f \in Flushes : ~Running(f) /\ flush' = [flush EXCEPT ![f] = Sent(stored)]

\* The page is mounted (also when nobody is signed in), and flushes.
OpenPage ==
  /\ ~page
  /\ page' = TRUE
  /\ StartFlush
  /\ UNCHANGED <<stored, tap, online, session, server, saved, settled, overtaken, bounds>>

LeavePage ==
  /\ page
  /\ page' = FALSE
  /\ UNCHANGED <<stored, flush, tap, online, session, server, history, bounds>>

\* The browser is reloaded or restarted: only localStorage and the cookie stay.
Reload ==
  /\ page \/ tap # Idle \/ \E f \in Flushes : Running(f)
  /\ page' = FALSE
  /\ tap' = Idle
  /\ flush' = [f \in Flushes |-> Idle]
  /\ UNCHANGED <<stored, online, session, server, history, bounds>>

GoOffline ==
  /\ online
  /\ online' = FALSE
  /\ UNCHANGED <<kiosk, session, server, history, bounds>>

\* The network is back; a mounted page gets the "online" event.
GoOnline ==
  /\ ~online
  /\ online' = TRUE
  /\ IF page THEN StartFlush ELSE UNCHANGED <<flush, crossed>>
  /\ UNCHANGED <<stored, tap, page, session, server, saved, settled, overtaken, bounds>>

\* PIN login or sign-out, or a session that expires.
ChangeSession ==
  /\ signIns < MaxSignIns
  /\ signIns' = signIns + 1
  /\ session' \in (Employees \cup {NoOne}) \ {session}
  /\ UNCHANGED <<kiosk, online, server, history, taps, errors>>

-----------------------------------------------------------------------------
(* flushQueue() *)

Rest(f) == Tail(flush[f].list)
Settle(f) == settled' = Append(settled, [id |-> Head(flush[f].list).id,
                                         by |-> Head(flush[f].list).by,
                                         as |-> flush[f].as, answer |-> flush[f].answer])

Continue(f) == flush' = [flush EXCEPT ![f] = IF Rest(f) = <<>> THEN Idle ELSE Sent(Rest(f))]

\* Mutation: a punch that was refused stops the flush and stays.
ReplayAnsweredBlocking(f) ==
  /\ flush[f].stage = "answered"
  /\ IF flush[f].answer = "ok" THEN stored' = Rest(f) /\ Settle(f) /\ Continue(f)
     ELSE flush' = [flush EXCEPT ![f] = Idle] /\ UNCHANGED <<stored, settled>>
  /\ UNCHANGED <<tap, page, online, session, server, saved, crossed, overtaken, bounds>>

\* Mutation: the list is written back for accepted punches only.
ReplayAnsweredUnwritten(f) ==
  /\ flush[f].stage = "answered"
  /\ Settle(f)
  /\ stored' = IF flush[f].answer = "ok" THEN Rest(f) ELSE stored
  /\ Continue(f)
  /\ UNCHANGED <<tap, page, online, session, server, saved, crossed, overtaken, bounds>>

\* Any answer drops the punch: the rest of the list is written back and goes on.
ReplayAnswered(f) ==
  /\ flush[f].stage = "answered"
  /\ Settle(f)
  /\ stored' = Rest(f)
  /\ Continue(f)
  /\ UNCHANGED <<tap, page, online, session, server, saved, crossed, overtaken, bounds>>

\* A TypeError ends the flush; the punch stays saved.
ReplayFailed(f) ==
  /\ Running(f)
  /\ ~online
  /\ flush' = [flush EXCEPT ![f] = Idle]
  /\ UNCHANGED <<stored, tap, page, online, session, server, history, bounds>>

FlushStep(f) == HandleReplay(f) \/ ReplayAnswered(f) \/ ReplayFailed(f)

Next ==
  \/ \E kind \in Kinds : Tap(kind)
  \/ HandleTap \/ TapAnswered \/ TapQueued
  \/ OpenPage \/ LeavePage \/ Reload
  \/ GoOffline \/ GoOnline
  \/ ChangeSession
  \/ \E f \in Flushes : FlushStep(f)

Spec == Init /\ [][Next]_vars

-----------------------------------------------------------------------------
PunchType == [id : 1..MaxTaps, by : Employees, kind : Kinds]
Ids(list) == [k \in DOMAIN list |-> list[k].id]
WorkType == [stage : {"idle", "sent", "answered"}, list : Seq(PunchType),
             as : Employees \cup {NoOne}, answer : Answers]

\* Type invariant.
TypeOK ==
  /\ stored \in Seq(PunchType)
  /\ flush \in [Flushes -> WorkType] /\ tap \in WorkType
  /\ \A f \in Flushes : Running(f) => flush[f].list # <<>>
  /\ page \in BOOLEAN /\ online \in BOOLEAN
  /\ session \in Employees \cup {NoOne}
  /\ clockedIn \in [Employees -> BOOLEAN]
  /\ accepted \in Seq([id : 1..MaxTaps, for : Employees])
  /\ saved \in Seq(1..MaxTaps)
  /\ settled \in Seq([id : 1..MaxTaps, by : Employees, as : Employees \cup {NoOne},
                      answer : Answers])
  /\ taps \in 0..MaxTaps /\ signIns \in 0..MaxSignIns /\ errors \in 0..MaxErrors
  /\ crossed \in BOOLEAN /\ overtaken \in BOOLEAN

\* While no two of them cross, savings and flushes keep a queue: the punches that
\* were answered, followed by those still stored, are exactly the ones saved, in the
\* order they were saved, wherever the network drops and whenever the page reloads.
KeepsQueue == ~crossed => saved = Ids(settled) \o Ids(stored)

\* An answer that is lost makes the kiosk send a punch again.  No employee is given a
\* punch twice all the same, while flushes do not cross and the server handles no punch
\* ahead of the saved ones: the repeated punch no longer fits and is refused.
NoPunchTwice ==
  ~crossed /\ ~overtaken =>
    \A k, l \in DOMAIN accepted : accepted[k] = accepted[l] => k = l

\* "Drop it rather than blocking the queue": a flush that ends while the network is up
\* has emptied the list, whatever the server thought of the punches in it.
FlushDrains ==
  [][\A f \in Flushes :
       Running(f) /\ ~Running(f)' /\ online /\ ~crossed /\ ~Reload => stored' = <<>>]_vars

\* en.ts: "Offline -- punch saved, will sync when back online"; offline-queue.ts: API
\* errors "mean the punch is invalid now" and only then is it dropped.  A saved punch
\* is stored, or the server took it or refused it on behalf of its employee.
SavedPunchSyncs ==
  \A k \in DOMAIN saved :
    \/ \E l \in DOMAIN stored : stored[l].id = saved[k]
    \/ \E l \in DOMAIN settled : /\ settled[l].id = saved[k]
                                 /\ settled[l].answer \in {"ok", "refused"}
                                 /\ settled[l].as = settled[l].by
=============================================================================
