----------------------------- MODULE MCTerminals ------------------------------
(***************************************************************************)
(* An instance of Terminals: two employees at the kiosk's queue, and one   *)
(* whom the Home Assistant account of the first browser may claim as       *)
(* administrator.                                                          *)
(***************************************************************************)
EXTENDS Terminals, TLC

CONSTANTS kim, lee, f1, f2, ann, acc1, b1, b2, e1, e2, x1

AccountOf == b1 :> acc1 @@ b2 :> NoBody
KindOfCard == e1 :> "employee" @@ e2 :> "employee" @@ x1 :> "roster"
Symmetric == Permutations({kim, lee}) \cup Permutations({f1, f2})
=============================================================================
