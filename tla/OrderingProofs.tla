---------------------------- MODULE OrderingProofs ----------------------------
(***************************************************************************)
(* What the other proofs need of numbers and orders: induction over the    *)
(* naturals in the form of sets (NaturalsInduction states it of an         *)
(* operator, which no prover here can instantiate), the place of an        *)
(* element in a strict order, and what ordering or filtering a list        *)
(* leaves of it.                                                           *)
(***************************************************************************)
EXTENDS Ordering, FiniteSetsExt, SequenceTheorems, FiniteSetTheorems, TLAPS

-----------------------------------------------------------------------------
(* Numbers.                                                                *)

\* Every set of naturals has a least element.
LEMMA LeastOf ==
  ASSUME NEW S, S \subseteq Nat, S # {}
  PROVE  \E n \in S : \A m \in S : n <= m
<1> DEFINE R == {ss \in Nat \X Nat : ss[1] < ss[2]}
<1>1. IsWellFoundedOn(R, Nat)
  BY NatLessThanWellFounded, Zenon DEF OpToRel
<1> HIDE DEF R
<1>2. PICK n \in S : \A m \in S : ~(<<m, n>> \in R)
  BY <1>1, WFMin, Zenon
<1>3. \A m \in S : ~(m < n)
  BY <1>2 DEF R
<1> QED
  BY <1>3

\* Induction, for a set of naturals.
LEMMA Inductive ==
  ASSUME NEW S, 0 \in S, \A n \in Nat : n \in S => n + 1 \in S
  PROVE  Nat \subseteq S
<1> SUFFICES ASSUME Nat \ S # {} PROVE FALSE
  OBVIOUS
<1>1. PICK n \in Nat \ S : \A m \in Nat \ S : n <= m
  BY LeastOf
<1>2. n # 0 /\ n - 1 \in Nat /\ ~(n <= n - 1)
  OBVIOUS
<1> QED
  BY <1>1, <1>2

\* A finite set of naturals has a greatest element.
LEMMA GreatestOf ==
  ASSUME NEW S, S \subseteq Nat, S # {}, IsFiniteSet(S)
  PROVE  Max(S) \in S /\ \A m \in S : m <= Max(S)
<1>0. PICK n \in Nat : ExistsSurjection(1..n, S)
  BY FS_NatSurjection
<1>1. PICK f \in [1..n -> S] : \A x \in S : \E i \in 1..n : f[i] = x
  BY <1>0 DEF ExistsSurjection, Surjection
<1> DEFINE B == {k \in Nat : k <= n => \E m \in Nat : \A i \in 1..k : f[i] <= m}
<1>2. 0 \in B
  OBVIOUS
<1>3. ASSUME NEW k \in Nat, k \in B PROVE k + 1 \in B
  <2>1. CASE k + 1 <= n
    <3>1. PICK m \in Nat : \A i \in 1..k : f[i] <= m
      BY <1>3, <2>1
    <3> DEFINE l == IF f[k + 1] > m THEN f[k + 1] ELSE m
    <3>2. f[k + 1] \in Nat
      <4>1. k + 1 \in 1..n
        BY <2>1
      <4>2. f[k + 1] \in S
        BY <4>1
      <4> QED
        BY <4>2
    <3>3. l \in Nat /\ \A i \in 1..k + 1 : f[i] <= l
      <4>1. l \in Nat /\ m <= l /\ f[k + 1] <= l
        BY <3>2
      <4> HIDE DEF l
      <4>2. ASSUME NEW i \in 1..k + 1 PROVE f[i] <= l
        <5>1. i \in 1..n /\ (i = k + 1 \/ i \in 1..k)
          BY <2>1
        <5>2. f[i] \in Nat
          BY <5>1
        <5>3. CASE i = k + 1
          BY <4>1, <5>3
        <5>4. CASE i \in 1..k
          <6>1. f[i] <= m
            BY <3>1, <5>4
          <6> QED
            BY <3>1, <4>1, <5>2, <6>1
        <5> QED
          BY <5>1, <5>3, <5>4
      <4> QED
        BY <4>1, <4>2
    <3> QED
      BY <3>3
  <2> QED
    BY <2>1
<1> HIDE DEF B
<1>4. n \in B
  BY <1>0, <1>2, <1>3, Inductive
<1>5. PICK m \in Nat : \A x \in S : x <= m
  <2>1. PICK m \in Nat : \A i \in 1..n : f[i] <= m
    BY <1>0, <1>4 DEF B
  <2> QED
    BY <1>1, <2>1
<1> DEFINE U == {u \in Nat : \A x \in S : x <= u}
<1>6. PICK u \in U : \A v \in U : u <= v
  BY <1>5, LeastOf
<1>7. u \in S
  <2> SUFFICES ASSUME u \notin S PROVE FALSE
    OBVIOUS
  <2>1. \A x \in S : x \in Nat /\ x <= u /\ x # u
    BY <1>6
  <2>4. PICK x \in S : TRUE
    OBVIOUS
  <2>2. u - 1 \in Nat /\ u \in Nat /\ \A y \in S : y <= u - 1
    <3>1. u \in Nat
      BY <1>6
    <3> HIDE DEF U
    <3> QED
      BY <2>1, <2>4, <3>1
  <2>3. u - 1 \in U
    BY <2>2
  <2> QED
    BY <1>6, <2>2, <2>3
<1>8. \E x \in S : \A y \in S : x >= y
  BY <1>6, <1>7
<1> QED
  BY <1>8 DEF Max

LEMMA LeastIs ==
  ASSUME NEW S, S \subseteq Nat, S # {}
  PROVE  Min(S) \in S /\ \A m \in S : Min(S) <= m
<1>1. \E x \in S : \A y \in S : x <= y
  BY LeastOf
<1> QED
  BY <1>1 DEF Min

-----------------------------------------------------------------------------
(* Orders.                                                                 *)

\* What a strict order puts where.
Orders(S, R) ==
  /\ \A x \in S : <<x, x>> \notin R
  /\ \A x, y, z \in S : <<x, y>> \in R /\ <<y, z>> \in R => <<x, z>> \in R
  /\ \A x, y \in S : x = y \/ <<x, y>> \in R \/ <<y, x>> \in R
Place(S, R, x) == Cardinality({y \in S : <<y, x>> \in R})

IsPlaced(f, S, R) ==
  /\ f \in [1..Cardinality(S) -> S]
  /\ \A x \in S : \E n \in 1..Cardinality(S) : f[n] = x
  /\ \A i, k \in 1..Cardinality(S) : <<f[i], f[k]>> \in R <=> i < k
  /\ \A i, k \in 1..Cardinality(S) : f[i] = f[k] => i = k

LEMMA PlaceLess ==
  ASSUME NEW S, IsFiniteSet(S), NEW R, Orders(S, R), NEW x \in S, NEW z \in S, <<x, z>> \in R
  PROVE  Place(S, R, x) < Place(S, R, z)
<1> DEFINE A == {y \in S : <<y, x>> \in R}
           B == {y \in S : <<y, z>> \in R}
<1>1. A \subseteq B /\ B \subseteq S /\ x \in B \ A
  BY DEF Orders
<1>2. IsFiniteSet(B) /\ IsFiniteSet(A) /\ Cardinality(A) \in Nat /\ Cardinality(B) \in Nat
  BY <1>1, FS_Subset, FS_CardinalityType
<1>3. Cardinality(A) <= Cardinality(B) /\ Cardinality(A) # Cardinality(B)
  BY <1>1, <1>2, FS_Subset
<1> QED
  BY <1>2, <1>3 DEF Place

\* Every place of a finite ordered set is somebody's.
LEMMA PlaceTaken ==
  ASSUME NEW S, IsFiniteSet(S), NEW R, Orders(S, R)
  PROVE  /\ Cardinality(S) \in Nat
         /\ \A k \in 1..Cardinality(S) : \E x \in S : Place(S, R, x) = k - 1
         /\ \A x \in S : Place(S, R, x) \in 0..Cardinality(S) - 1
         /\ \A x, y \in S : Place(S, R, x) = Place(S, R, y) => x = y
<1> DEFINE n == Cardinality(S)
           f == [x \in S |-> Place(S, R, x)]
<1>1. n \in Nat
  BY FS_CardinalityType
<1>2. ASSUME NEW x \in S PROVE f[x] \in 0..n - 1
  <2> DEFINE A == {y \in S : <<y, x>> \in R}
  <2>1. A \subseteq S /\ x \notin A
    BY DEF Orders
  <2>2. IsFiniteSet(A) /\ Cardinality(A) \in Nat /\ Cardinality(A) <= n /\ Cardinality(A) # n
    BY <2>1, FS_Subset, FS_CardinalityType
  <2> QED
    BY <1>1, <2>2 DEF Place
<1>3. \A x, y \in S : <<x, y>> \in R => f[x] < f[y]
  BY PlaceLess
<1> HIDE DEF f, n
<1>4. \A x, y \in S : f[x] = f[y] => x = y
  <2> SUFFICES ASSUME NEW x \in S, NEW y \in S, x # y PROVE f[x] # f[y]
    OBVIOUS
  <2>1. f[x] < f[y] \/ f[y] < f[x]
    BY <1>3 DEF Orders
  <2> QED
    BY <1>1, <1>2, <2>1
<1>5. f \in Injection(S, 0..n - 1)
  BY <1>2, <1>4 DEF Injection, IsInjective, f
<1>6. IsFiniteSet(0..n - 1) /\ Cardinality(0..n - 1) = n
  BY <1>1, FS_Interval
<1>7. f \in Surjection(S, 0..n - 1)
  BY <1>5, <1>6, FS_Injection DEF n
<1>8. \A k \in 0..n - 1 : \E x \in S : f[x] = k
  BY <1>7 DEF Surjection
<1>9. \A k \in 1..n : \E x \in S : Place(S, R, x) = k - 1
  BY <1>1, <1>8 DEF f
<1> QED
  BY <1>1, <1>2, <1>4, <1>9 DEF f, n

\* A list that puts at n what has n - 1 ahead of it is the set in order.
LEMMA PlacedInOrder ==
  ASSUME NEW S, IsFiniteSet(S), NEW R, Orders(S, R),
         NEW g \in [1..Cardinality(S) -> S],
         \A k \in 1..Cardinality(S) : Place(S, R, g[k]) = k - 1
  PROVE  IsPlaced(g, S, R)
<1> DEFINE n == Cardinality(S)
           f == [x \in S |-> Place(S, R, x)]
<1>1. n \in Nat /\ \A x \in S : f[x] \in 0..n - 1
  BY PlaceTaken
<1>3. \A x, y \in S : <<x, y>> \in R => f[x] < f[y]
  BY PlaceLess
<1>4. \A x, y \in S : f[x] = f[y] => x = y
  BY PlaceTaken
<1>9. \A k \in 1..n : g[k] \in S /\ f[g[k]] = k - 1
  OBVIOUS
<1> HIDE DEF f, n
<1>11. ASSUME NEW i \in 1..n, NEW k \in 1..n PROVE <<g[i], g[k]>> \in R <=> i < k
  <2>1. CASE i = k
    BY <2>1, <1>9, <1>1 DEF Orders
  <2>2. CASE i < k
    <3>1. g[i] # g[k] /\ ~(f[g[k]] < f[g[i]])
      BY <2>2, <1>1, <1>9
    <3> QED
      BY <2>2, <3>1, <1>3, <1>9 DEF Orders
  <2>3. CASE k < i
    <3>1. ~(f[g[i]] < f[g[k]]) /\ ~(i < k)
      BY <2>3, <1>1, <1>9
    <3> QED
      BY <3>1, <1>3, <1>9
  <2> QED
    BY <1>1, <2>1, <2>2, <2>3
<1>12. ASSUME NEW x \in S PROVE \E k \in 1..n : g[k] = x
  <2>1. f[x] + 1 \in 1..n
    BY <1>1 DEF f
  <2>2. f[g[f[x] + 1]] = f[x] /\ g[f[x] + 1] \in S
    BY <2>1, <1>9, <1>1 DEF f
  <2> QED
    BY <2>1, <2>2, <1>4 DEF f
<1>13. \A i, k \in 1..n : g[i] = g[k] => i = k
  BY <1>1, <1>9
<1>14. g \in [1..n -> S]
  BY DEF n
<1> QED
  BY <1>1, <1>14, <1>11, <1>12, <1>13 DEF n, IsPlaced

\* A filter keeps some of the list.
LEMMA KeptIsOfList ==
  ASSUME NEW T, NEW list \in Seq(T), NEW S
  PROVE  Kept(list, S) \in Seq(T) /\ \A i \in DOMAIN Kept(list, S) : Kept(list, S)[i] \in S
<1> DEFINE at == {i \in DOMAIN list : list[i] \in S}
           R == {p \in at \X at : p[1] < p[2]}
           n == Cardinality(at)
<1>1. at \subseteq 1..Len(list) /\ Len(list) \in Nat
  OBVIOUS
<1>2. IsFiniteSet(at)
  <2>1. IsFiniteSet(1..Len(list))
    BY <1>1, FS_Interval
  <2> QED
    BY <1>1, <2>1, FS_Subset
<1>3. Orders(at, R)
  BY <1>1 DEF Orders
<1>4. ASSUME NEW x \in at PROVE Place(at, R, x) = Cardinality({y \in at : y < x})
  <2>1. {y \in at : y < x} = {y \in at : <<y, x>> \in R}
    OBVIOUS
  <2> QED
    BY <2>1 DEF Place
<1>5. n \in Nat /\ \A k \in 1..n : \E x \in at : Place(at, R, x) = k - 1
  <2> HIDE DEF at, R
  <2> QED
    BY <1>2, <1>3, PlaceTaken
<1> DEFINE g == InOrder(at, <)
<1>6. ASSUME NEW k \in 1..n PROVE g[k] \in at
  <2>1. \E x \in at : Cardinality({y \in at : y < x}) = k - 1
    BY <1>4, <1>5
  <2>2. g[k] = CHOOSE x \in at : Cardinality({y \in at : y < x}) = k - 1
    BY DEF InOrder
  <2> QED
    BY <2>1, <2>2
<1>7. Kept(list, S) = [k \in 1..n |-> list[g[k]]]
  BY DEF Kept
<1> HIDE DEF g, n
<1>8. \A k \in 1..n : list[g[k]] \in T /\ list[g[k]] \in S
  BY <1>1, <1>6
<1> QED
  BY <1>5, <1>7, <1>8
=============================================================================
