----------------------------- MODULE MCAccounts -----------------------------
(* Instances of Accounts for TLC. *)
EXTENDS Accounts, TLC

CONSTANTS ann, ben, r1, r2, l1, l2, l3, s1, s2, e1, x1, p1, k1, w1, d1, d2, d3,
          mail, other, phone, mobile, handset, tablet, name

(* Two registrations with one phone number, one of them with an email too. *)
Emails == ann :> mail @@ ben :> NoId @@ r1 :> NoId @@ r2 :> other
Phones == ann :> NoId @@ ben :> mobile @@ r1 :> phone @@ r2 :> phone
Ids == l1 :> mail @@ l2 :> mail @@ l3 :> mobile

Users == s1 :> ann @@ s2 :> ann @@ e1 :> ann @@ x1 :> ann @@ p1 :> ann @@ k1 :> ann
         @@ w1 :> ann @@ d1 :> ann @@ d2 :> ben @@ d3 :> ann

(* A document at the limits of what is verified, and one beyond each. *)
Good == [wellFormed |-> TRUE, age |-> 18, named |-> TRUE, similarity |-> 80, sanctioned |-> FALSE]
Papers == {Good, [Good EXCEPT !.age = 17], [Good EXCEPT !.similarity = 79],
           [Good EXCEPT !.sanctioned = TRUE]}

Fingerprints == d1 :> handset @@ d2 :> handset @@ d3 :> tablet
Names == d1 :> name @@ d2 :> name @@ d3 :> NoPayer
=============================================================================
