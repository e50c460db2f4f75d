------------------------------ MODULE Background ------------------------------
(***************************************************************************)
(* What goes on around the requests: the transactions that append to the   *)
(* audit log, the pushes that keep Home Assistant's sensors up to date,    *)
(* and the pages that people look at.  They share no state, so a behaviour *)
(* is about one of them.                                                   *)
(***************************************************************************)
EXTENDS AuditLog, Sensors, WebPages

VARIABLE side     \* bound: what a behaviour is about

BackgroundInit ==
  /\ Init /\ SensorsInit /\ PagesInit
  /\ side \in {"log", "sensors", "pages"}
  /\ side # "pages" => topic = "key" /\ page = "settings"

BackgroundNext ==
  /\ \/ side = "log" /\ Next /\ UNCHANGED <<sensorVars, pageVars>>
     \/ side = "sensors" /\ SensorsNext /\ UNCHANGED <<vars, pageVars>>
     \/ side = "pages" /\ PagesNext /\ UNCHANGED <<vars, sensorVars>>
  /\ UNCHANGED side

\* While a behaviour is about something else no session has begun an INSERT, and the
\* fairness of the log asks nothing.  A page that polls goes on polling.
BackgroundSpec ==
  /\ BackgroundInit /\ [][BackgroundNext]_<<vars, sensorVars, pageVars, side>>
  /\ Fairness
  /\ WF_sensorVars(side = "sensors" /\ \E p \in Pushes : PeriodicPush(p))
  /\ \A p \in Pushes : WF_sensorVars(PushStep(p))
  /\ \A e \in Crew : WF_sensorVars(CardReady(e))
  /\ WF_pageVars(side = "pages" /\ \E q \in Polled \cap Here : FetchStep(q))

\* Once the entries and the employees stay as they are, Home Assistant shows them in the
\* end, and keeps showing them, whichever pushes overtook one another, failed or were
\* forgotten; and no button of the dashboard's card waits for ever.  (Not so the history, nor
\* the sensors of somebody who left.)
SensorsCatchUp == <>[](side # "sensors" \/ Shown)

\* Once a table stays as it is, a page that polls shows it in the end and keeps showing it,
\* whichever answers overtook one another or were lost, and whatever was done on it.
PollingPagesCatchUp == <>[](side # "pages" \/ CaughtUp)
=============================================================================
