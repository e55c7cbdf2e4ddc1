----------------------------- MODULE MCMarkets ------------------------------
(* Instances of Markets for TLC. *)
EXTENDS Markets, TLC

CONSTANTS home, b1, u1, u2, y1, n1, g1, e1, d1

(* One call of each kind, and an update the engine does not admit, though  *)
(* the provider may give the same odds.  The bet asks for a thousandth     *)
(* more than the opening price.  The check asks for less than the limit    *)
(* alone, and for more when the bet is placed.                             *)
On == b1 :> home @@ u1 :> home @@ u2 :> home @@ e1 :> home
Odds == b1 :> 2001 @@ u1 :> 2500 @@ u2 :> 1000
TwoOdds == b1 :> 2001 @@ u1 :> 2500 @@ u2 :> 3000
Stakes == b1 :> 1 @@ e1 :> 1
Payouts == b1 :> 3 @@ e1 :> 2
AfterGoal == home :> 2500
=============================================================================
