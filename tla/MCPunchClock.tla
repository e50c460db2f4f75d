---------------------------- MODULE MCPunchClock ----------------------------
(***************************************************************************)
(* Instances of PunchClock.                                                *)
(***************************************************************************)
EXTENDS PunchClockProperties, TLC

CONSTANTS ann, r1, r2

\* One device, whose screen waits for an answer before it lets the next tap through.
OneDevice == r1 :> ann
\* Two devices of the same employee: a kiosk and a phone.
TwoDevices == r1 :> ann @@ r2 :> ann
=============================================================================
