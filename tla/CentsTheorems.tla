---------------------------- MODULE CentsTheorems ----------------------------
(* Facts about sums of cents, each proved from the theorems on finite sets. *)
EXTENDS Cents, FiniteSetTheorems, TLAPS

(* The cents of a finite set of amounts are finitely many. *)
LEMMA CentsFinite ==
  ASSUME NEW S, IsFiniteSet(S), NEW amount, \A x \in S : amount[x] \in Nat
  PROVE  /\ IsFiniteSet(CentsOf(S, amount))
         /\ Total(S, amount) \in Nat
<1> DEFINE slice == [x \in S |-> {x} \X (1 .. amount[x])]
           U == {{x} \X (1 .. amount[x]) : x \in S}
<1>1. ASSUME NEW x \in S
      PROVE  IsFiniteSet({x} \X (1 .. amount[x]))
  <2>1. IsFiniteSet({x})
    BY FS_Singleton
  <2>2. IsFiniteSet(1 .. amount[x])
    BY FS_Interval
  <2> QED
    BY <2>1, <2>2, FS_Product
<1>2. slice \in Surjection(S, U)
  BY DEF Surjection
<1>3. IsFiniteSet(U)
  BY <1>2, FS_Surjection
<1>4. \A T \in U : IsFiniteSet(T)
  BY <1>1
<1>5. IsFiniteSet(UNION U)
  BY <1>3, <1>4, FS_UNION
<1> QED
  BY <1>5, FS_CardinalityType DEF CentsOf, Total

(* The empty sum is zero. *)
LEMMA TotalEmpty ==
  ASSUME NEW amount
  PROVE  Total({}, amount) = 0
BY FS_EmptySet DEF Total, CentsOf

(* A sum over one element is its amount. *)
LEMMA TotalSingleton ==
  ASSUME NEW x, NEW amount, amount[x] \in Nat
  PROVE  Total({x}, amount) = amount[x]
<1>1. CentsOf({x}, amount) = {x} \X (1 .. amount[x])
  BY DEF CentsOf
<1>2. IsFiniteSet({x}) /\ Cardinality({x}) = 1
  BY FS_Singleton
<1>3. IsFiniteSet(1 .. amount[x]) /\ Cardinality(1 .. amount[x]) = amount[x]
  <2>1. CASE amount[x] = 0
    BY <2>1, FS_Interval
  <2>2. CASE amount[x] # 0
    BY <2>2, FS_Interval
  <2> QED
    BY <2>1, <2>2
<1> DEFINE I == 1 .. amount[x]
<1>4. Cardinality({x} \X I) = Cardinality({x}) * Cardinality(I)
  <2> HIDE DEF I
  <2>1. IsFiniteSet({x}) /\ IsFiniteSet(I)
    BY <1>2, <1>3 DEF I
  <2> QED
    BY <2>1, FS_Product
<1>5. Cardinality({x}) * Cardinality(I) = amount[x]
  BY <1>2, <1>3
<1> QED
  BY <1>1, <1>4, <1>5 DEF Total

(* Sums over disjoint sets add up. *)
LEMMA TotalUnion ==
  ASSUME NEW S, IsFiniteSet(S), NEW T, IsFiniteSet(T), S \cap T = {},
         NEW amount, \A x \in S \cup T : amount[x] \in Nat
  PROVE  Total(S \cup T, amount) = Total(S, amount) + Total(T, amount)
<1>1. CentsOf(S \cup T, amount) = CentsOf(S, amount) \cup CentsOf(T, amount)
  BY DEF CentsOf
<1>2. CentsOf(S, amount) \cap CentsOf(T, amount) = {}
  BY DEF CentsOf
<1>3. IsFiniteSet(CentsOf(S, amount)) /\ IsFiniteSet(CentsOf(T, amount))
  BY CentsFinite
<1> DEFINE A == CentsOf(S, amount)
           B == CentsOf(T, amount)
<1>4. Cardinality(A \cup B) = Cardinality(A) + Cardinality(B) - Cardinality(A \cap B)
  BY <1>3, FS_Union
<1>5. Cardinality(A \cap B) = 0
  BY <1>2, FS_EmptySet
<1>6. Cardinality(A) \in Nat /\ Cardinality(B) \in Nat
  BY <1>3, FS_CardinalityType
<1>7. Cardinality(A \cup B) = Cardinality(A) + Cardinality(B)
  BY <1>4, <1>5, <1>6
<1> QED
  BY <1>1, <1>7 DEF Total

(* A sum depends only on the amounts of the elements it ranges over. *)
LEMMA TotalSameAmounts ==
  ASSUME NEW S, NEW f, NEW g, \A x \in S : f[x] = g[x]
  PROVE  Total(S, f) = Total(S, g)
<1>1. CentsOf(S, f) = CentsOf(S, g)
  BY DEF CentsOf
<1> QED
  BY <1>1 DEF Total

(* Adding one new element adds its amount. *)
LEMMA TotalAdd ==
  ASSUME NEW S, IsFiniteSet(S), NEW x, x \notin S,
         NEW amount, \A y \in S \cup {x} : amount[y] \in Nat
  PROVE  Total(S \cup {x}, amount) = Total(S, amount) + amount[x]
<1>1. IsFiniteSet({x}) /\ S \cap {x} = {}
  BY FS_Singleton
<1>2. Total({x}, amount) = amount[x]
  BY TotalSingleton
<1> QED
  BY <1>1, <1>2, TotalUnion

(* Taking a subset away takes its sum away. *)
LEMMA TotalDifference ==
  ASSUME NEW S, IsFiniteSet(S), NEW T, T \subseteq S,
         NEW amount, \A x \in S : amount[x] \in Nat
  PROVE  /\ Total(S \ T, amount) = Total(S, amount) - Total(T, amount)
         /\ Total(T, amount) <= Total(S, amount)
<1>1. IsFiniteSet(T) /\ IsFiniteSet(S \ T)
  BY FS_Subset
<1>2. (S \ T) \cup T = S /\ (S \ T) \cap T = {}
  OBVIOUS
<1>3. Total(S, amount) = Total(S \ T, amount) + Total(T, amount)
  BY <1>1, <1>2, TotalUnion
<1>4. Total(S \ T, amount) \in Nat /\ Total(T, amount) \in Nat
  BY <1>1, CentsFinite
<1> QED
  BY <1>3, <1>4

(* A sum of nothing but zeros is zero. *)
LEMMA TotalZero ==
  ASSUME NEW S, NEW amount, \A x \in S : amount[x] = 0
  PROVE  Total(S, amount) = 0
<1>1. CentsOf(S, amount) = {}
  BY DEF CentsOf
<1> QED
  BY <1>1, FS_EmptySet DEF Total

(* Changing the amounts on a subset changes the sum by the difference. *)
LEMMA TotalReplace ==
  ASSUME NEW S, IsFiniteSet(S), NEW T, T \subseteq S,
         NEW f, \A x \in S : f[x] \in Nat,
         NEW g, \A x \in S : g[x] \in Nat,
         \A x \in S \ T : f[x] = g[x]
  PROVE  Total(S, f) = Total(S, g) - Total(T, g) + Total(T, f)
<1>1. IsFiniteSet(T)
  BY FS_Subset
<1>2. Total(S \ T, f) = Total(S, f) - Total(T, f)
  BY TotalDifference
<1>3. Total(S \ T, g) = Total(S, g) - Total(T, g)
  BY TotalDifference
<1>4. Total(S \ T, f) = Total(S \ T, g)
  BY TotalSameAmounts
<1>5. /\ Total(S, f) \in Nat /\ Total(T, f) \in Nat
      /\ Total(S, g) \in Nat /\ Total(T, g) \in Nat
  BY <1>1, CentsFinite
<1> QED
  BY <1>2, <1>3, <1>4, <1>5

(* Renaming the elements one to one leaves the sum as it is. *)
LEMMA TotalBijection ==
  ASSUME NEW S, IsFiniteSet(S), NEW T, NEW f \in Bijection(S, T),
         NEW a, NEW c, \A x \in S : a[x] \in Nat /\ c[f[x]] = a[x]
  PROVE  Total(T, c) = Total(S, a)
<1> DEFINE A == CentsOf(S, a)
           C == CentsOf(T, c)
           g == [p \in A |-> <<f[p[1]], p[2]>>]
<1>1. /\ f \in [S -> T]
      /\ \A x, y \in S : f[x] = f[y] => x = y
      /\ \A t \in T : \E x \in S : f[x] = t
  BY DEF Bijection, Injection, Surjection, IsInjective
<1>2. \A p \in A : p[1] \in S /\ p[2] \in 1 .. a[p[1]] /\ p = <<p[1], p[2]>>
  BY DEF CentsOf
<1>3. \A x \in S : \A i \in 1 .. a[x] : <<x, i>> \in A
  BY DEF CentsOf
<1>4. \A t \in T : \A i \in 1 .. c[t] : <<t, i>> \in C
  BY DEF CentsOf
<1>5. \A p \in C : p[1] \in T /\ p[2] \in 1 .. c[p[1]] /\ p = <<p[1], p[2]>>
  BY DEF CentsOf
<1>6. IsFiniteSet(A)
  BY CentsFinite
<1> HIDE DEF A, C
<1>7. g \in [A -> C]
  BY <1>1, <1>2, <1>4
<1>8. \A p, q \in A : g[p] = g[q] => p = q
  BY <1>1, <1>2
<1>9. \A q \in C : \E p \in A : g[p] = q
  <2> SUFFICES ASSUME NEW q \in C PROVE \E p \in A : g[p] = q
    OBVIOUS
  <2>1. q[1] \in T /\ q[2] \in 1 .. c[q[1]] /\ q = <<q[1], q[2]>>
    BY <1>5
  <2>2. PICK x \in S : f[x] = q[1]
    BY <1>1, <2>1
  <2>3. <<x, q[2]>> \in A
    BY <1>3, <2>1, <2>2
  <2>4. g[<<x, q[2]>>] = q
    BY <2>1, <2>2, <2>3
  <2> QED
    BY <2>3, <2>4
<1>10. g \in Bijection(A, C)
  BY <1>7, <1>8, <1>9 DEF Bijection, Injection, Surjection, IsInjective
<1>11. Cardinality(A) = Cardinality(C)
  <2> HIDE DEF g
  <2> QED
    BY <1>6, <1>10, FS_Bijection DEF ExistsBijection
<1> QED
  BY <1>11 DEF Total, A, C
=============================================================================
