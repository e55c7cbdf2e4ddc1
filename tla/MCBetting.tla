------------------------------ MODULE MCBetting ------------------------------
(* Instances of Betting for TLC. *)
EXTENDS Betting, TLC

CONSTANTS u1, u2, b1, b2, e1, e2, s1, s2

(* One selection in each of two events. *)
OneEach == s1 :> e1 @@ s2 :> e2

Slip(user, stake, odds, type, legs) ==
    [user |-> user, stake |-> stake, odds |-> odds, type |-> type, legs |-> legs]

Funds4And5 == u1 :> 4 @@ u2 :> 5

(* Two users on the same two events: an accumulator, two singles, and a    *)
(* single that names the other event.  The deposits cover one bet of u1 at *)
(* a time, so that a second one is placed with money a correction may take *)
(* back.                                                                   *)
MixedRequests ==
    {Slip(u1, 2, 40000, "ACCUMULATOR", {<<s1, e1>>, <<s2, e2>>}),
     Slip(u1, 3, 25000, "SINGLE", {<<s1, e1>>}),
     Slip(u2, 4, 15000, "SINGLE", {<<s2, e2>>}),
     Slip(u2, 5, 20000, "SINGLE", {<<s1, e2>>})}

(* One bet, with odd stakes and odds so that halves and shares round.  The *)
(* last two have a leg that names the other event; the accumulator has     *)
(* both legs in one event and names two.                                   *)
RoundingRequests ==
    {Slip(u1, 3, 25000, "SINGLE", {<<s1, e1>>}),
     Slip(u1, 4, 15000, "SINGLE", {<<s2, e2>>}),
     Slip(u1, 2, 40000, "ACCUMULATOR", {<<s1, e1>>, <<s2, e2>>}),
     Slip(u2, 5, 33333, "ACCUMULATOR", {<<s1, e1>>, <<s2, e2>>}),
     Slip(u2, 5, 20000, "SYSTEM", {<<s1, e1>>, <<s2, e1>>}),
     Slip(u1, 4, 30000, "ACCUMULATOR", {<<s1, e1>>, <<s1, e2>>})}

WinLose == {"WON", "LOST"}
=============================================================================
