----------------------------- MODULE NumberLemmas -----------------------------
(***************************************************************************)
(* Facts about sets of numbers that several proofs need: a set of naturals *)
(* has a least element, and a set of positions has one of every rank.      *)
(***************************************************************************)
EXTENDS Integers, FiniteSetTheorems, WellFoundedInduction, TLAPS

(* A set of naturals that is not empty has a least element.                   *)
LEMMA LeastExists ==
    ASSUME NEW S, S \subseteq Nat, S # {}
    PROVE  \E m \in S : \A n \in S : m <= n
<1> DEFINE R == OpToRel(<, Nat)
<1>1. IsWellFoundedOn(R, Nat)
  BY NatLessThanWellFounded
<1>2. \A n, k \in Nat : n < k => <<n, k>> \in R
  BY DEF OpToRel
<1> HIDE DEF R
<1>3. PICK m \in S : \A n \in S : ~ (<<n, m>> \in R)
  BY <1>1, WFMin
<1>4. ASSUME NEW n \in S PROVE m <= n
  <2>1. m \in Nat /\ n \in Nat
    OBVIOUS
  <2>2. ~(n < m)
    BY <2>1, <1>2, <1>3
  <2> QED BY <2>1, <2>2
<1> QED BY <1>3, <1>4

(* C[i] counts the elements of S up to i.                                     *)
Counts(C, S, n) ==
  /\ C[0] = 0 /\ \A i \in 0 .. n : C[i] \in Nat
  /\ \A i \in 1 .. n : C[i] = IF i \in S THEN C[i - 1] + 1 ELSE C[i - 1]

(* A count that grows by one at a time takes every value on its way.          *)
LEMMA CountReaches ==
    ASSUME NEW n \in Nat, NEW S, NEW C, Counts(C, S, n), NEW k \in 1 .. C[n]
    PROVE  \E i \in 1 .. n : i \in S /\ C[i] = k
<1> USE DEF Counts
<1> DEFINE Enough == {i \in 0 .. n : k <= C[i]}
<1>1. Enough \subseteq Nat /\ n \in Enough
  OBVIOUS
<1>2. PICK m \in Enough : \A i \in Enough : m <= i
  <2> HIDE DEF Enough
  <2> QED BY <1>1, LeastExists
<1>3. m \in 0 .. n /\ k <= C[m] /\ m # 0
  OBVIOUS
<1>4. m \in 1 .. n /\ m - 1 \in 0 .. n
  BY <1>3
<1>5. m - 1 \notin Enough
  BY <1>2, <1>4
<1>6. C[m - 1] < k /\ C[m - 1] \in Nat /\ C[m] \in Nat
  BY <1>4, <1>5
<1>7. m \in S /\ C[m] = C[m - 1] + 1
  BY <1>3, <1>4, <1>6
<1> QED BY <1>3, <1>4, <1>6, <1>7

(* Among some of the first n numbers there is one of each rank.               *)
LEMMA RankExists ==
    ASSUME NEW n \in Nat, NEW S \in SUBSET (1 .. n), NEW k \in 1 .. Cardinality(S)
    PROVE  \E i \in S : Cardinality({j \in S : j <= i}) = k
<1> DEFINE C == [i \in 0 .. n |-> Cardinality({j \in S : j <= i})]
<1>0. \A x \in S : x \in 1 .. n
  OBVIOUS
<1>1. \A i \in 0 .. n : C[i] = Cardinality({j \in S : j <= i})
  OBVIOUS
<1>2. IsFiniteSet(S)
  <2>1. IsFiniteSet(1 .. n)
    BY FS_Interval
  <2> QED BY <2>1, FS_Subset
<1>3. ASSUME NEW i \in 0 .. n
      PROVE  IsFiniteSet({j \in S : j <= i}) /\ C[i] \in Nat
  <2>1. {j \in S : j <= i} \in SUBSET S
    OBVIOUS
  <2>2. IsFiniteSet({j \in S : j <= i})
    BY <1>2, <2>1, FS_Subset
  <2> QED BY <1>1, <2>2, FS_CardinalityType
<1>4. C[0] = 0
  <2>1. {j \in S : j <= 0} = {}
    <3>1. \A x \in S : ~(x <= 0)
      BY <1>0
    <3> QED BY <3>1
  <2>3. 0 \in 0 .. n
    OBVIOUS
  <2>2. C[0] = Cardinality({j \in S : j <= 0})
    BY <1>1, <2>3
  <2> QED BY <2>1, <2>2, FS_EmptySet
<1>5. C[n] = Cardinality(S)
  <2>1. {j \in S : j <= n} = S
    <3>1. \A x \in S : x <= n
      BY <1>0
    <3> QED BY <3>1
  <2>2. C[n] = Cardinality({j \in S : j <= n})
    BY <1>1
  <2> QED BY <2>1, <2>2
<1>6. ASSUME NEW i \in 1 .. n
      PROVE  C[i] = IF i \in S THEN C[i - 1] + 1 ELSE C[i - 1]
  <2> DEFINE U == {j \in S : j <= i}
             V == {j \in S : j <= i - 1}
  <2>1. i \in 0 .. n /\ i - 1 \in 0 .. n
    OBVIOUS
  <2>2. C[i] = Cardinality(U) /\ C[i - 1] = Cardinality(V)
    BY <1>1, <2>1
  <2>3. IsFiniteSet(V)
    BY <1>3, <2>1
  <2>4. CASE i \in S
    <3>1. U = V \cup {i} /\ i \notin V
      <4>1. \A x \in S : x <= i <=> x <= i - 1 \/ x = i
        BY <1>0
      <4>2. ~(i <= i - 1)
        OBVIOUS
      <4> QED BY <2>4, <4>1, <4>2
    <3> HIDE DEF U, V
    <3>2. Cardinality(U) = Cardinality(V) + 1
      BY <2>3, <3>1, FS_AddElement
    <3> QED BY <2>2, <2>4, <3>2
  <2>5. CASE i \notin S
    <3>1. U = V
      <4>1. \A x \in S : x # i => (x <= i <=> x <= i - 1)
        BY <1>0
      <4>2. \A x \in S : x # i
        BY <2>5
      <4> QED BY <4>1, <4>2
    <3> QED BY <2>2, <2>5, <3>1
  <2> QED BY <2>4, <2>5
<1>7. \A i \in 0 .. n : C[i] \in Nat
  BY <1>3
<1>10. \A i \in 1 .. n : C[i] = IF i \in S THEN C[i - 1] + 1 ELSE C[i - 1]
  BY <1>6
<1>11. k \in 1 .. C[n]
  BY <1>5
<1> HIDE DEF C
<1>12. \E i \in 1 .. n : i \in S /\ C[i] = k
  <2>1. Counts(C, S, n)
    BY <1>4, <1>7, <1>10 DEF Counts
  <2> QED BY <2>1, <1>11, CountReaches
<1>8. PICK i \in 1 .. n : i \in S /\ C[i] = k
  BY <1>12
<1>9. C[i] = Cardinality({j \in S : j <= i})
  BY <1>1, <1>8
<1> QED BY <1>8, <1>9

(* The rank of a member of a set of positions grows with the member.          *)
LEMMA RankGrows ==
    ASSUME NEW n \in Nat, NEW S \in SUBSET (1 .. n), NEW i \in S
    PROVE  /\ Cardinality({x \in S : x <= i}) \in 1 .. Cardinality(S)
           /\ \A j \in S : j < i => Cardinality({x \in S : x <= j})
                                      < Cardinality({x \in S : x <= i})
<1> DEFINE U(k) == {x \in S : x <= k}
<1>1. IsFiniteSet(S) /\ Cardinality(S) \in Nat
  <2>1. IsFiniteSet(1 .. n)
    BY FS_Interval
  <2> QED BY <2>1, FS_Subset, FS_CardinalityType
<1>2. \A x \in S : x \in Nat
  OBVIOUS
<1>3. ASSUME NEW k \in S
      PROVE  /\ IsFiniteSet(U(k)) /\ Cardinality(U(k)) \in Nat /\ Cardinality(U(k)) # 0
             /\ Cardinality(U(k)) <= Cardinality(S)
  <2>1. U(k) \in SUBSET S /\ k \in U(k)
    BY <1>2
  <2> HIDE DEF U
  <2>2. IsFiniteSet(U(k)) /\ Cardinality(U(k)) <= Cardinality(S)
    BY <1>1, <2>1, FS_Subset
  <2>3. Cardinality(U(k)) \in Nat /\ Cardinality(U(k)) # 0
    BY <2>1, <2>2, FS_CardinalityType, FS_EmptySet
  <2> QED BY <2>2, <2>3
<1>4. ASSUME NEW j \in S, j < i PROVE Cardinality(U(j)) < Cardinality(U(i))
  <2>1. U(j) \in SUBSET U(i) /\ i \in U(i) /\ i \notin U(j)
    <3>1. i \in Nat /\ j \in Nat /\ ~(i <= j) /\ i <= i
      BY <1>2, <1>4
    <3>2. \A x \in S : x <= j => x <= i
      BY <1>2, <1>4, <3>1
    <3> QED BY <3>1, <3>2
  <2> HIDE DEF U
  <2>2. /\ Cardinality(U(j)) <= Cardinality(U(i))
        /\ Cardinality(U(j)) = Cardinality(U(i)) => U(i) = U(j)
    BY <1>3, <2>1, FS_Subset
  <2> QED BY <1>3, <2>1, <2>2
<1> HIDE DEF U
<1>5. Cardinality(U(i)) \in 1 .. Cardinality(S)
  BY <1>1, <1>3
<1> QED BY <1>4, <1>5 DEF U
===============================================================================
