----------------------------- MODULE MCPostgres -----------------------------
(* One user with two deposits, the callback of the first delivered twice,  *)
(* two withdrawals under one key and two bets.  A deposit covers either    *)
(* withdrawal, or one of the bets, but not more.                           *)
EXTENDS Postgres, TLC

CONSTANTS ann, d1, d2, c1, c1again, c2, w1, w1again, b1, b2, k1, k2

MCDepositOf == c1 :> d1 @@ c1again :> d1 @@ c2 :> d2
MCKeyOf == w1 :> k1 @@ w1again :> k1 @@ b1 :> k1 @@ b2 :> k2
MCUserOf == [x \in Deposits \cup Spendings |-> ann]
MCAmountOf == [x \in Deposits |-> 300] @@ [x \in Withdrawals |-> 300] @@ [x \in Bets |-> 200]
=============================================================================
