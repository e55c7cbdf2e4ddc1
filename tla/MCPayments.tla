----------------------------- MODULE MCPayments -----------------------------
(* Instances of Payments for TLC. *)
EXTENDS Payments, TLC

CONSTANTS u1, u2, d1, d2, d3, w1, w2, w3, k1, k2, k3, k4, p1, p2

(* u1 sends a deposit twice under one key, and a withdrawal twice, and     *)
(* withdraws under another key an amount that waits for approval; one      *)
(* deposit covers either withdrawal but not both.  u2 only deposits, an     *)
(* amount that M-Pesa rounds to whole shillings.                           *)
Keyed  == d1 :> k1 @@ d2 :> k1 @@ d3 :> k2 @@ w1 :> k3 @@ w2 :> k3 @@ w3 :> k4
Owners == d1 :> u1 @@ d2 :> u1 @@ d3 :> u2 @@ w1 :> u1 @@ w2 :> u1 @@ w3 :> u1
Amounts == d1 :> 300 @@ d2 :> 300 @@ d3 :> 450 @@ w1 :> 200 @@ w2 :> 200 @@ w3 :> 300
=============================================================================
