------------------------------- MODULE Cents --------------------------------
(***************************************************************************)
(* Sums of money.  A sum of amounts of cents is the number of cents there  *)
(* are: Total(S, amount) counts the pairs of an element x of S and one of  *)
(* its amount[x] cents.  Written this way a sum is a cardinality, and the  *)
(* facts about it follow from the theorems about finite sets.              *)
(***************************************************************************)
EXTENDS Integers, FiniteSets

CentsOf(S, amount) == UNION {{x} \X (1 .. amount[x]) : x \in S}

Total(S, amount) == Cardinality(CentsOf(S, amount))
=============================================================================
