----------------------------- MODULE MCBonuses ------------------------------
(* Instances of Bonuses for TLC. *)
EXTENDS Bonuses, TLC

CONSTANTS u1, u2, b1, b2, b3, c1, w1, w2

(* u1 has a match of 3 cents out of 4, cut off at 2 and to be wagered      *)
(* twice, and a free bet of 3 cents; the second wager is at odds the free  *)
(* bet does not admit.  The match b3 is of less than a cent.               *)
Owners == b1 :> u1 @@ b2 :> u1 @@ b3 :> u1
DepositMatch(cents) == [type |-> "DEPOSIT_MATCH", cents |-> cents, percentage |-> 75,
                        max |-> 2, multiplier |-> 2, minOdds |-> 15]
FreeBet == [type |-> "FREE_BET", cents |-> 3, percentage |-> 0, max |-> 0,
            multiplier |-> 3, minOdds |-> 16]
TermsFor == b1 :> DepositMatch(4) @@ b2 :> FreeBet @@ b3 :> DepositMatch(1)
Scopes == c1 :> {u1, u2} @@ w1 :> {u1} @@ w2 :> {u1}
Stakes == w1 :> 3 @@ w2 :> 4
Prices == w1 :> 16 @@ w2 :> 15
=============================================================================
