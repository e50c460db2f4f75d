------------------------------ MODULE Reminders ------------------------------
(***************************************************************************)
(* The presence reminders: sweeps that read where everybody's phone is and *)
(* who is clocked in, wait until a change of presence has lasted, and ask  *)
(* its owner to clock in or out.  The sweeps come by an interval and may   *)
(* overlap; what they remember is in the process and lost with it.         *)
(***************************************************************************)
EXTENDS Integers, Sequences

CONSTANTS
  Phones,        \* employees with a presence entity and a notify service
  Arrive, Depart,\* arriveGraceSec, departGraceSec
  Sweeps,        \* bound: sweeps in progress at one time
  MaxMinute,     \* bound: the clock stops here
  MaxMoves,      \* bound: changes of presence and punches in a behaviour
  MaxReboots     \* bound: restarts and reminders that fail

ASSUME GraceAssumption ==
  /\ Arrive \in Nat /\ Depart \in Nat /\ Sweeps \in Nat
  /\ MaxMinute \in Nat /\ MaxMoves \in Nat /\ MaxReboots \in Nat

VARIABLES
  minute,        \* the clock
  domain,        \* what each presence entity is: "tracker", or "wifi" for a sensor
  raw,           \* the state of each entity in Home Assistant
  onShift,       \* who has an open entry
  memory,        \* PresenceMemory of each employee
  poll,          \* each sweep: its next statement, its instant and what it has read
  moves, reboots,
  run            \* history: by employee, the run of equal readings that goes on

reminderVars == <<minute, domain, raw, onShift, memory, poll, moves, reboots, run>>
world == <<minute, domain, raw, onShift>>

Unseen == "null"
Forgotten == [present |-> Unseen, candidate |-> Unseen, since |-> 0]
Asleep == [stage |-> "asleep", at |-> 0, states |-> <<>>, in |-> {}, todo |-> {}, ask |-> <<>>]
NoRun == [seen |-> Unseen, since |-> 0, first |-> TRUE, asked |-> FALSE]

\* isPresent: a tracker without a signal is skipped, a Wi-Fi sensor without one is away.
IsPresent(kind, state) ==
  CASE state = "here"                        -> "yes"
    [] state = "lost" /\ kind = "tracker"    -> Unseen
    [] OTHER                                 -> "no"

\* The reminder of a change that lasted, by where the sweep found its employee.
Verb(seen, in) == IF seen = "yes" /\ ~in THEN "in" ELSE IF seen = "no" /\ in THEN "out" ELSE "none"
Quietly(mem) == [mem |-> mem, notify |-> "none"]

\* Mutation: a pending change that was taken back still counts from when it began.
EvalPresenceKeeping(prev, seen, in, at) ==
  LET grace == IF seen = "yes" THEN Arrive ELSE Depart
      since == IF prev.candidate = seen THEN prev.since ELSE at
      settled == [Forgotten EXCEPT !.present = seen]
  IN IF seen \in {Unseen, prev.present} THEN Quietly(prev)
     ELSE IF prev.present = Unseen THEN Quietly(settled)
     ELSE IF at - since < grace
     THEN Quietly([prev EXCEPT !.candidate = seen, !.since = since])
     ELSE [mem |-> settled, notify |-> Verb(seen, in)]

\* evalPresence
EvalPresence(prev, seen, in, at) ==
  LET grace == IF seen = "yes" THEN Arrive ELSE Depart
      since == IF prev.candidate = seen THEN prev.since ELSE at
      settled == [Forgotten EXCEPT !.present = seen]
  IN IF seen = Unseen THEN Quietly(prev)
     ELSE IF prev.present = Unseen THEN Quietly(settled)
     ELSE IF seen = prev.present
     THEN Quietly([prev EXCEPT !.candidate = Unseen, !.since = 0])
     ELSE IF at - since < grace
     THEN Quietly([prev EXCEPT !.candidate = seen, !.since = since])
     ELSE [mem |-> settled, notify |-> Verb(seen, in)]

RemindersInit ==
  /\ minute = 0
  /\ domain \in [Phones -> {"tracker", "wifi"}]
  /\ raw \in [Phones -> {"here", "away"}]
  /\ onShift = {}
  /\ memory = [e \in Phones |-> Forgotten]
  /\ poll = [p \in 1..Sweeps |-> Asleep]
  /\ moves = 0 /\ reboots = 0
  /\ run = [e \in Phones |-> NoRun]

-----------------------------------------------------------------------------

MinutePasses ==
  /\ minute < MaxMinute
  /\ minute' = minute + 1
  /\ UNCHANGED <<domain, raw, onShift, memory, poll, moves, reboots, run>>

PhoneMoves(e, state) ==
  /\ moves < MaxMoves /\ moves' = moves + 1
  /\ raw[e] # state /\ raw' = [raw EXCEPT ![e] = state]
  /\ UNCHANGED <<minute, domain, onShift, memory, poll, reboots, run>>

Punches(e) ==
  /\ moves < MaxMoves /\ moves' = moves + 1
  /\ onShift' = IF e \in onShift THEN onShift \ {e} ELSE onShift \cup {e}
  /\ UNCHANGED <<minute, domain, raw, memory, poll, reboots, run>>

Reboot ==
  /\ reboots < MaxReboots /\ reboots' = reboots + 1
  /\ memory' = [e \in Phones |-> Forgotten]
  /\ poll' = [p \in 1..Sweeps |-> Asleep]
  /\ run' = [e \in Phones |-> NoRun]
  /\ UNCHANGED <<world, moves>>

-----------------------------------------------------------------------------
(* pollPresenceOnce() *)

PollAt(p, stage) == poll[p].stage = stage

\* The settings and the staff are read; the instant of the sweep is that of its start.
StartPoll(p) ==
  /\ PollAt(p, "asleep") /\ \A q \in 1 .. p - 1 : ~PollAt(q, "asleep")
  /\ poll' = [poll EXCEPT ![p] = [Asleep EXCEPT !.stage = "states", !.at = minute]]
  /\ UNCHANGED <<world, memory, moves, reboots, run>>

FetchStates(p) ==
  /\ PollAt(p, "states")
  /\ poll' = [poll EXCEPT ![p].stage = "clocked", ![p].states = raw]
  /\ UNCHANGED <<world, memory, moves, reboots, run>>

ClockedInSet(p) ==
  /\ PollAt(p, "clocked")
  /\ poll' = [poll EXCEPT ![p].stage = "each", ![p].in = onShift, ![p].todo = Phones]
  /\ UNCHANGED <<world, memory, moves, reboots, run>>

\* History: a reading that differs from the one before begins a run.
Noted(r, seen, at) ==
  IF seen \in {Unseen, r.seen} THEN r
  ELSE [seen |-> seen, since |-> at, first |-> r = NoRun, asked |-> FALSE]

\* The sweep ends after its last employee.
Onward(sweep) ==
  IF sweep.todo = {} THEN Asleep ELSE [sweep EXCEPT !.stage = "each", !.ask = <<>>]

\* One employee after the other, without waiting unless there is something to send.
Consider(p, e) ==
  LET seen == IsPresent(domain[e], poll[p].states[e])
      next == EvalPresence(memory[e], seen, e \in poll[p].in, poll[p].at)
      noted == Noted(run[e], seen, poll[p].at)
      rest == [poll[p] EXCEPT !.todo = @ \ {e}]
  IN /\ PollAt(p, "each") /\ e \in poll[p].todo
     /\ memory' = [memory EXCEPT ![e] = next.mem]
     /\ run' = [run EXCEPT ![e] = [noted EXCEPT !.asked = @ \/ next.notify # "none"]]
     /\ poll' = [poll EXCEPT ![p] =
          IF next.notify = "none" THEN Onward(rest)
          ELSE [rest EXCEPT !.stage = "send",
                            !.ask = [who |-> e, verb |-> next.notify, from |-> noted]]]
     /\ UNCHANGED <<world, moves, reboots>>

\* The call of the notify service; a failure is logged and the loop goes on.
SendReminder(p) ==
  /\ PollAt(p, "send")
  /\ poll' = [poll EXCEPT ![p] = Onward(@)]
  /\ UNCHANGED <<world, memory, moves, reboots, run>>

\* Home Assistant or the database does not answer: the sweep ends.
PollFails(p) ==
  /\ PollAt(p, "states") \/ PollAt(p, "clocked")
  /\ reboots < MaxReboots /\ reboots' = reboots + 1
  /\ poll' = [poll EXCEPT ![p] = Asleep]
  /\ UNCHANGED <<world, memory, moves, run>>

RemindersNext ==
  \/ MinutePasses \/ Reboot
  \/ \E e \in Phones : Punches(e) \/ \E state \in {"here", "away", "lost"} : PhoneMoves(e, state)
  \/ \E p \in 1..Sweeps :
       \/ StartPoll(p) \/ FetchStates(p) \/ ClockedInSet(p)
       \/ \E e \in Phones : Consider(p, e)
       \/ SendReminder(p) \/ PollFails(p)

RemindersSpec == RemindersInit /\ [][RemindersNext]_reminderVars

-----------------------------------------------------------------------------

\* What a reminder says of where its employee is.
Means(verb) == IF verb = "in" THEN "yes" ELSE "no"
GraceOf(verb) == IF verb = "in" THEN Arrive ELSE Depart

\* "A change must persist for the arrive/depart grace before it commits", "never notify the
\* instant the add-on boots", "only once per committed transition": a reminder comes out
\* of a run of readings, in the order in which the sweeps considered them, that is not the
\* first since the start, agrees with it, has lasted the grace and gave no reminder yet;
\* and a sweep asks those it found clocked in only to clock out.
RemindersRight ==
  \A p \in 1..Sweeps : PollAt(p, "send") =>
    LET ask == poll[p].ask
        from == ask.from
    IN /\ ~from.first /\ ~from.asked
       /\ from.seen = Means(ask.verb)
       /\ poll[p].at - from.since >= GraceOf(ask.verb)
       /\ (ask.who \in poll[p].in) = (ask.verb = "out")
=============================================================================
