------------------------------ MODULE KioskLogin ------------------------------
(***************************************************************************)
(* Who a browser acts for: PIN login with its rate limit and the binding   *)
(* of kiosk devices, the silent sign-in of a Home Assistant account,       *)
(* signing out, and the first claim of the administrator.  One action per  *)
(* awaited statement; a request carries the cookies its browser had when   *)
(* it was sent, and its answer sets them when it arrives.                  *)
(***************************************************************************)
EXTENDS Integers, Sequences, FiniteSets

CONSTANTS
  Workers,       \* employees
  Admin,         \* those of them who are administrators
  Panels,        \* browsers
  Account,       \* the Home Assistant account each browser is opened with
  NoBody,        \* no employee, and no account
  MaxFails,      \* MAX_FAILS
  WindowTime,    \* WINDOW_MS
  Attempts,      \* bound: requests in progress at one time
  MaxMoment,     \* bound: the clock stops here
  MaxAttempts    \* bound: requests in a behaviour

ASSUME PeopleAssumption ==
  /\ Admin \subseteq Workers /\ NoBody \notin Workers /\ IsFiniteSet(Workers)
  /\ DOMAIN Account = Panels
ASSUME LimitsAssumption ==
  /\ MaxFails \in Nat \ {0} /\ WindowTime \in Nat /\ MaxMoment \in Nat /\ MaxAttempts \in Nat /\ Attempts \in Nat

VARIABLES
  moment,        \* the clock
  linked,        \* employees.ha_username
  issued,        \* sessions: who each is for, and whether it is still good
  bound,         \* rows of devices
  fails,         \* pinRate: failures and the end of the lock, by key
  cookie,        \* the session cookie of each browser
  deviceCookie,  \* the bound device it has the cookie of
  optOut,        \* whether it has the cookie that holds back the silent sign-in
  attempt,       \* each request
  binding,       \* settings.kiosk.requireDeviceBinding
  wrong,         \* history: when wrong PINs were found out, by key, since a right one
  claims,        \* history: claims that succeeded
  met,           \* history: panels two of whose requests were in progress at once
  attempts

loginVars == <<moment, linked, issued, bound, fails, cookie, deviceCookie, optOut, attempt,
               binding, wrong, claims, met, attempts>>
tables == <<linked, issued, bound>>
cookies == <<cookie, deviceCookie, optOut>>
past == <<binding, wrong, claims, attempts>>

NoCookie == 0
NoDevice == 0
NoTry == [stage |-> "none", way |-> "none", on |-> NoBody, who |-> NoBody,
          cookie |-> NoCookie, device |-> NoDevice, binds |-> FALSE, optOut |-> FALSE]
NoFails == [count |-> 0, until |-> 0]
Keys == Workers \X (NoDevice..Attempts)
KeyOf(r) == <<attempt[r].who, attempt[r].device>>

\* loadSession
Good(c) == c # NoCookie /\ issued[c].good

LoginInit ==
  /\ moment = 0
  /\ linked = [w \in Workers |-> NoBody]
  /\ issued = <<>> /\ bound = 0
  /\ fails = [k \in Keys |-> NoFails]
  /\ cookie = [b \in Panels |-> NoCookie]
  /\ deviceCookie = [b \in Panels |-> NoDevice] /\ optOut = [b \in Panels |-> FALSE]
  /\ attempt = [r \in 1..Attempts |-> NoTry]
  /\ binding \in BOOLEAN
  /\ wrong = [k \in Keys |-> <<>>] /\ claims = 0 /\ met = {} /\ attempts = 0

InStage(r, stage) == attempt[r].stage = stage
Move(r, stage) == attempt' = [attempt EXCEPT ![r].stage = stage] /\ UNCHANGED deviceCookie

\* A browser sends a request; way says which one.
Send(r, b, who, way, stage) ==
  /\ InStage(r, "none") /\ \A q \in 1 .. r - 1 : ~InStage(q, "none")
  /\ attempts < MaxAttempts /\ attempts' = attempts + 1
  /\ attempt' = [attempt EXCEPT ![r] =
       [stage |-> stage, way |-> way, on |-> b, who |-> who, cookie |-> cookie[b],
        device |-> deviceCookie[b], binds |-> FALSE, optOut |-> optOut[b]]]
  /\ met' = met \cup {c \in {b} : \E q \in 1..Attempts : attempt[q].on = b}
  /\ UNCHANGED <<moment, tables, fails, cookies, binding, wrong, claims>>

\* createSession, and then the answer with its cookies.
CreateSession(r) ==
  /\ InStage(r, "session")
  /\ issued' = Append(issued, [who |-> attempt[r].who, way |-> attempt[r].way, good |-> TRUE])
  /\ attempt' = [attempt EXCEPT ![r].stage = "answer", ![r].cookie = Len(issued) + 1]
  /\ UNCHANGED <<moment, linked, bound, fails, cookies, past, met>>

\* The cookie of a device that the request bound comes with whatever it is answered.
DeviceCookieSet(r) ==
  deviceCookie' = [deviceCookie EXCEPT ![attempt[r].on] = IF attempt[r].binds THEN attempt[r].device ELSE @]

\* Only a right PIN takes the opt-out back, and only a sign-out asks for it.
Answer(r) ==
  LET b == attempt[r].on IN
  /\ InStage(r, "answer")
  /\ cookie' = [cookie EXCEPT ![b] = attempt[r].cookie]
  /\ DeviceCookieSet(r)
  /\ optOut' = [optOut EXCEPT ![b] = attempt[r].way = "out" \/ (@ /\ attempt[r].way # "pin")]
  /\ attempt' = [attempt EXCEPT ![r] = NoTry]
  /\ UNCHANGED <<moment, tables, fails, past, met>>

\* A refusal, or no session, which arrives at once.
Refuse(r) == DeviceCookieSet(r) /\ attempt' = [attempt EXCEPT ![r] = NoTry]

-----------------------------------------------------------------------------
(* POST /pin-login *)

PinLogin(r, b, who) == Send(r, b, who, "pin", "device")

\* Up to the rate check: with the device, if one is required.
LoadDevice(r) ==
  /\ InStage(r, "device")
  /\ IF attempt[r].device # NoDevice \/ ~binding THEN Move(r, "rate")
     ELSE IF bound = 0 THEN Move(r, "register")
     ELSE Refuse(r)
  /\ UNCHANGED <<moment, tables, fails, cookie, optOut, past, met>>

\* "the very first login on a fresh install auto-binds the device"
RegisterDevice(r) ==
  /\ InStage(r, "register")
  /\ bound' = bound + 1
  /\ attempt' = [attempt EXCEPT ![r].stage = "rate", ![r].device = bound', ![r].binds = TRUE]
  /\ UNCHANGED <<moment, linked, issued, fails, cookies, past, met>>

PinRateCheck(r) ==
  /\ InStage(r, "rate")
  /\ IF moment < fails[KeyOf(r)].until THEN Refuse(r) ELSE Move(r, "lookup")
  /\ UNCHANGED <<moment, tables, fails, cookie, optOut, past, met>>

\* Mutation: one failure more than the limit locks.
AfterFailLate(f) ==
  IF f.count + 1 > MaxFails THEN [count |-> 0, until |-> moment + WindowTime]
  ELSE [f EXCEPT !.count = @ + 1]

\* pinRateFail
AfterFail(f) ==
  IF f.count + 1 >= MaxFails THEN [count |-> 0, until |-> moment + WindowTime]
  ELSE [f EXCEPT !.count = @ + 1]

\* The employee is found and the PIN right, or not.
VerifyPin(r, right) ==
  LET k == KeyOf(r) IN
  /\ InStage(r, "lookup")
  /\ IF right
     THEN /\ Move(r, "session")
          /\ fails' = [fails EXCEPT ![k] = NoFails]
          /\ wrong' = [wrong EXCEPT ![k] = <<>>]
     ELSE /\ Refuse(r)
          /\ fails' = [fails EXCEPT ![k] = AfterFail(@)]
          /\ wrong' = [wrong EXCEPT ![k] = Append(@, moment)]
  /\ UNCHANGED <<moment, tables, cookie, optOut, binding, claims, attempts, met>>

-----------------------------------------------------------------------------
(* GET /session, POST /logout, POST /claim-admin *)

AskSession(r, b) == Account[b] # NoBody /\ Send(r, b, NoBody, "sso", "whoami")

\* A good session answers; without one the account signs in, unless it was opted out.
SingleSignOn(r) ==
  LET t == attempt[r]
      mapped == {w \in Workers : linked[w] = Account[t.on]}
  IN
  /\ InStage(r, "whoami")
  /\ IF Good(t.cookie) \/ t.optOut \/ mapped = {} THEN Refuse(r)
     ELSE \E w \in mapped :
            attempt' = [attempt EXCEPT ![r].stage = "session", ![r].who = w] /\ UNCHANGED deviceCookie
  /\ UNCHANGED <<moment, tables, fails, cookie, optOut, past, met>>

LogOut(r, b) == Send(r, b, NoBody, "out", "revoke")

\* The session is revoked; the answer deletes the cookie and holds the account back.
RevokeSession(r) ==
  LET c == attempt[r].cookie IN
  /\ InStage(r, "revoke")
  /\ issued' = IF Good(c) THEN [issued EXCEPT ![c].good = FALSE] ELSE issued
  /\ attempt' = [attempt EXCEPT ![r].stage = "answer", ![r].cookie = NoCookie]
  /\ UNCHANGED <<moment, linked, bound, fails, cookies, past, met>>

ClaimAdmin(r, b) == Account[b] # NoBody /\ Send(r, b, NoBody, "claim", "anyMapped")

AnyMapped(r) ==
  /\ InStage(r, "anyMapped")
  /\ IF \E w \in Workers : linked[w] # NoBody THEN Refuse(r) ELSE Move(r, "pick")
  /\ UNCHANGED <<moment, tables, fails, cookie, optOut, past, met>>

PickAdmin(r) ==
  /\ InStage(r, "pick")
  /\ LET claimable == {w \in Admin : linked[w] = NoBody} IN
     IF claimable = {} THEN Refuse(r)
     ELSE \E w \in claimable :
            attempt' = [attempt EXCEPT ![r].stage = "link", ![r].who = w] /\ UNCHANGED deviceCookie
  /\ UNCHANGED <<moment, tables, fails, cookie, optOut, past, met>>

\* UPDATE ... WHERE ha_username IS NULL; the audit row and the session follow.
LinkAdmin(r) ==
  LET w == attempt[r].who IN
  /\ InStage(r, "link")
  /\ IF linked[w] # NoBody THEN Refuse(r) /\ UNCHANGED <<linked, claims>>
     ELSE /\ linked' = [linked EXCEPT ![w] = Account[attempt[r].on]]
          /\ claims' = claims + 1
          /\ Move(r, "session")
  /\ UNCHANGED <<moment, issued, bound, fails, cookie, optOut, binding, wrong, attempts, met>>

-----------------------------------------------------------------------------

\* A session of 14 hours runs out, or its employee is deactivated.
SessionEnds(c) ==
  /\ Good(c)
  /\ issued' = [issued EXCEPT ![c].good = FALSE]
  /\ UNCHANGED <<moment, linked, bound, fails, cookies, attempt, past, met>>

MomentTick ==
  /\ moment < MaxMoment
  /\ moment' = moment + 1
  /\ UNCHANGED <<tables, fails, cookies, attempt, past, met>>

LoginNext ==
  \/ MomentTick
  \/ \E c \in DOMAIN issued : SessionEnds(c)
  \/ \E r \in 1..Attempts :
       \/ \E b \in Panels :
            \/ \E who \in Workers : PinLogin(r, b, who)
            \/ AskSession(r, b) \/ LogOut(r, b) \/ ClaimAdmin(r, b)
       \/ LoadDevice(r) \/ RegisterDevice(r) \/ PinRateCheck(r)
       \/ \E right \in BOOLEAN : VerifyPin(r, right)
       \/ SingleSignOn(r) \/ RevokeSession(r)
       \/ AnyMapped(r) \/ PickAdmin(r) \/ LinkAdmin(r)
       \/ CreateSession(r) \/ Answer(r)

LoginSpec == LoginInit /\ [][LoginNext]_loginVars

-----------------------------------------------------------------------------

\* "5 failures per key -> 60s lockout": however attempts overlap, no window of that length sees more
\* wrong PINs found out than the limit and the attempts that were under way with the last.
PinLockout ==
  \A k \in Keys : \A n \in DOMAIN wrong[k] :
    LET later == n + MaxFails + Attempts - 1
    IN later \in DOMAIN wrong[k] => wrong[k][later] - wrong[k][n] >= WindowTime

\* The first boot happens once: a single administrator is claimed once, however claims
\* meet; and as many devices bind themselves as first logins were under way at once.
BootstrappedOnce ==
  /\ Cardinality(Admin) = 1 => claims <= 1
  /\ bound <= Attempts

\* "Suppressed after an explicit sign-out": on a panel that was signed out the account is
\* not signed in silently until a PIN is given, unless two requests of that panel met.
SignedOutStays ==
  \A b \in Panels \ met : optOut[b] /\ Good(cookie[b]) => issued[cookie[b]].way = "claim"

LoginHolds == PinLockout /\ BootstrappedOnce /\ SignedOutStays
=============================================================================
