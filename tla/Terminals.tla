------------------------------ MODULE Terminals -------------------------------
(***************************************************************************)
(* What the server has to do with browsers, phones and Home Assistant: the *)
(* kiosk's queue, logging in, the administrators' pages, and the reminders *)
(* by presence.  They share no table with one another, so a behaviour is   *)
(* about one of them.                                                      *)
(***************************************************************************)
EXTENDS OfflineQueue, KioskLogin, Administration, Reminders

VARIABLE at     \* bound: where a behaviour takes place

TerminalsInit ==
  /\ Init /\ LoginInit /\ AdminInit /\ RemindersInit
  /\ at \in {"queue", "login", "office", "phone"}
  /\ at # "queue" => session = NoOne
  /\ at # "login" => ~binding
  /\ at # "office" => ~meet
  /\ at # "phone" => \A e \in Phones : domain[e] = "tracker" /\ raw[e] = "here"

\* Bound: the kiosk's part ends once flushes have crossed, as its properties here exempt all
\* that follows; OfflineQueue's own runs go on.
QueueNext == ~crossed /\ Next

TerminalsNext ==
  /\ \/ at = "queue" /\ QueueNext /\ UNCHANGED <<loginVars, adminVars, reminderVars>>
     \/ at = "login" /\ LoginNext /\ UNCHANGED <<vars, adminVars, reminderVars>>
     \/ at = "office" /\ AdminNext /\ UNCHANGED <<vars, loginVars, reminderVars>>
     \/ at = "phone" /\ RemindersNext /\ UNCHANGED <<vars, loginVars, adminVars>>
  /\ UNCHANGED at

TerminalsSpec == TerminalsInit /\ [][TerminalsNext]_<<vars, loginVars, adminVars, reminderVars, at>>
=============================================================================
