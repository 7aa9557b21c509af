------------------------------ MODULE OrderLemmas ------------------------------
(***************************************************************************)
(* Facts about finite sets of numbers that the CHOOSEs of the models rest  *)
(* on: the least element, the greatest one and the k-th one exist.  Each   *)
(* is proved from the well-foundedness of the numbers or of the finite     *)
(* sets, which the library states without a predicate parameter.           *)
(***************************************************************************)
EXTENDS Integers, FiniteSets, FiniteSetTheorems, WellFoundedInduction, TLAPS

\* A nonempty set of naturals has a least element.
LEMMA LeastExists ==
    ASSUME NEW S \in SUBSET Nat, S # {}
    PROVE  \E l \in S : \A m \in S : l <= m
<1>1. PICK l \in S : \A m \in S : ~ (<<m, l>> \in OpToRel(<, Nat))
  BY NatLessThanWellFounded, WFMin
<1>2. ASSUME NEW m \in S PROVE l <= m
  <2>1. ~ (m < l)
    BY <1>1 DEF OpToRel
  <2> QED
    BY <2>1
<1> QED
  BY <1>2

\* Among the subsets of a finite set that are in some collection, one is least:
\* none of its proper subsets is in it.
LEMMA LeastSubsetExists ==
    ASSUME NEW S, IsFiniteSet(S), NEW C \in SUBSET SUBSET S, C # {}
    PROVE  \E U \in C : \A V \in SUBSET U : V # U => V \notin C
<1>1. C \subseteq FiniteSubsetsOf(S)
  BY FS_FiniteSubsetsOfFinite
<1>2. PICK U \in C : \A V \in C : ~ (<<V, U>> \in StrictSubsetOrdering(S))
  BY <1>1, FS_StrictSubsetOrderingWellFounded, WFMin
<1>3. ASSUME NEW V \in SUBSET U, V # U, V \in C PROVE FALSE
  BY <1>2, <1>3 DEF StrictSubsetOrdering
<1> QED
  BY <1>3

\* Of finitely many elements with integer values, one has a highest value.
LEMMA BestExists ==
    ASSUME NEW S, IsFiniteSet(S), S # {}, NEW f \in [S -> Int]
    PROVE  \E g \in S : \A m \in S : f[m] <= f[g]
<1> DEFINE Unbounded == {U \in SUBSET S : U # {} /\ \A g \in U : \E m \in U : f[m] > f[g]}
<1>1. SUFFICES ASSUME Unbounded # {} PROVE FALSE
  <2>1. S \notin Unbounded
    BY <1>1
  <2> QED
    BY <2>1
<1>2. PICK U \in Unbounded : \A V \in SUBSET U : V # U => V \notin Unbounded
  <2>1. Unbounded \in SUBSET SUBSET S
    OBVIOUS
  <2> HIDE DEF Unbounded
  <2> QED
    BY <1>1, <2>1, LeastSubsetExists
<1>3. PICK x \in U : TRUE
  OBVIOUS
<1>4. PICK y \in U : f[y] > f[x]
  OBVIOUS
<1>5. U \ {x} # {} /\ U \ {x} \in SUBSET U /\ U \ {x} # U
  BY <1>4
<1>6. PICK g \in U \ {x} : \A m \in U \ {x} : ~ (f[m] > f[g])
  BY <1>2, <1>5
<1>7. PICK m \in U : f[m] > f[g]
  OBVIOUS
<1>8. m = x /\ f[g] >= f[y]
  BY <1>4, <1>6, <1>7
<1> QED
  BY <1>4, <1>7, <1>8

\* A finite nonempty set of integers has a greatest element.
LEMMA GreatestExists ==
    ASSUME NEW S \in SUBSET Int, IsFiniteSet(S), S # {}
    PROVE  \E g \in S : \A m \in S : m <= g
<1> DEFINE f == [m \in S |-> m]
<1>1. f \in [S -> Int]
  OBVIOUS
<1>2. \E g \in S : \A m \in S : f[m] <= f[g]
  <2> HIDE DEF f
  <2> QED
    BY <1>1, BestExists
<1> QED
  BY <1>2

\* The elements of a finite set of naturals can be numbered from below, starting
\* with 0: there is one with k elements under it.
LEMMA NthExists ==
    ASSUME NEW S \in SUBSET Nat, IsFiniteSet(S), NEW k \in Nat, k < Cardinality(S)
    PROVE  \E l \in S : Cardinality({m \in S : m < l}) = k
<1> DEFINE Has(U, n) == \E l \in U : Cardinality({m \in U : m < l}) = n
           Gaps == {U \in SUBSET S : \E n \in Nat : n < Cardinality(U) /\ ~ Has(U, n)}
<1>1. SUFFICES ASSUME Gaps # {} PROVE FALSE
  <2>1. S \notin Gaps
    BY <1>1
  <2> QED
    BY <2>1
<1>2. PICK U \in Gaps : \A V \in SUBSET U : V # U => V \notin Gaps
  <2>1. Gaps \in SUBSET SUBSET S
    OBVIOUS
  <2> HIDE DEF Gaps
  <2> QED
    BY <1>1, <2>1, LeastSubsetExists
<1>3. PICK n \in Nat : n < Cardinality(U) /\ ~ Has(U, n)
  OBVIOUS
<1>4. IsFiniteSet(U) /\ Cardinality(U) \in Nat
  BY FS_Subset, FS_CardinalityType
<1>5. U # {}
  BY <1>3, <1>4, FS_EmptySet
<1>6. PICK x \in U : \A m \in U : x <= m
  BY <1>5, LeastExists
<1>7. Cardinality(U \ {x}) = Cardinality(U) - 1 /\ IsFiniteSet(U \ {x})
  BY <1>4, FS_RemoveElement
<1>8. CASE n = 0
  <2>1. {m \in U : m < x} = {}
    <3> SUFFICES ASSUME NEW m \in U, m < x PROVE FALSE
      OBVIOUS
    <3>1. m \in Nat /\ x \in Nat /\ x <= m
      BY <1>6
    <3> QED
      BY <3>1
  <2>2. Cardinality({m \in U : m < x}) = n
    BY <2>1, <1>8, FS_EmptySet
  <2> QED
    BY <1>3, <2>2
<1>9. CASE n # 0
  <2>1. n - 1 \in Nat /\ n - 1 < Cardinality(U \ {x})
    BY <1>3, <1>4, <1>7, <1>9
  <2>2. U \ {x} \in SUBSET S /\ U \ {x} \in SUBSET U /\ U \ {x} # U
    OBVIOUS
  <2>3. Has(U \ {x}, n - 1)
    BY <1>2, <2>1, <2>2
  <2>4. PICK l \in U \ {x} : Cardinality({m \in U \ {x} : m < l}) = n - 1
    BY <2>3
  <2> DEFINE Under == {m \in U \ {x} : m < l}
  <2>5. {m \in U : m < l} = Under \cup {x} /\ x \notin Under
    BY <1>6
  <2>6. IsFiniteSet(Under)
    BY <1>7, FS_Subset
  <2>7. Cardinality(Under \cup {x}) = Cardinality(Under) + 1
    BY <2>5, <2>6, FS_AddElement
  <2>8. Cardinality({m \in U : m < l}) = n
    BY <2>4, <2>5, <2>7, <1>3
  <2> QED
    BY <1>3, <2>8
<1> QED
  BY <1>8, <1>9

\* How many of some places there are up to one of them tells it from the others, and
\* each number up to that of the places is that of one.
LEMMA RanksAre ==
    ASSUME NEW places \in SUBSET Nat, IsFiniteSet(places)
    PROVE  /\ Cardinality(places) \in Nat
           /\ \A m \in 1..Cardinality(places) : \E k \in places : Cardinality({i \in places : i <= k}) = m
           /\ \A k \in places : Cardinality({i \in places : i <= k}) \in 1..Cardinality(places)
           /\ \A j, k \in places : Cardinality({i \in places : i <= j}) = Cardinality({i \in places : i <= k}) => j = k
<1> DEFINE UpTo(k) == {i \in places : i <= k}
           Under(k) == {i \in places : i < k}
<1>1. ASSUME NEW k \in places
      PROVE  /\ IsFiniteSet(Under(k)) /\ IsFiniteSet(UpTo(k))
             /\ Cardinality(Under(k)) \in Nat
             /\ Cardinality(UpTo(k)) = Cardinality(Under(k)) + 1
             /\ Cardinality(UpTo(k)) \in 1..Cardinality(places)
  <2>1. UpTo(k) = Under(k) \cup {k} /\ k \notin Under(k)
    <3>1. ASSUME NEW i \in places PROVE (i <= k <=> i < k \/ i = k) /\ ~ (k < k)
      <4>1. i \in Nat /\ k \in Nat
        OBVIOUS
      <4> QED
        BY <4>1
    <3> QED
      BY <3>1
  <2>2. IsFiniteSet(Under(k)) /\ IsFiniteSet(UpTo(k)) /\ Cardinality(UpTo(k)) <= Cardinality(places)
    BY FS_Subset
  <2> QED
    <3>1. Cardinality(UpTo(k)) = Cardinality(Under(k)) + 1
      BY <2>1, <2>2, FS_AddElement
    <3>2. Cardinality(Under(k)) \in Nat /\ Cardinality(places) \in Nat
      BY <2>2, FS_CardinalityType
    <3> HIDE DEF UpTo, Under
    <3> QED
      BY <2>2, <3>1, <3>2
<1>2. Cardinality(places) \in Nat
  BY FS_CardinalityType
<1>3. ASSUME NEW m \in 1..Cardinality(places) PROVE \E k \in places : Cardinality(UpTo(k)) = m
  <2>1. m - 1 \in Nat /\ m - 1 < Cardinality(places)
    BY <1>2
  <2>2. PICK k \in places : Cardinality(Under(k)) = m - 1
    BY <2>1, NthExists
  <2>3. Cardinality(UpTo(k)) = m
    BY <1>1, <1>2, <2>2
  <2> QED
    BY <2>3
<1>4. ASSUME NEW j \in places, NEW k \in places, j < k PROVE Cardinality(UpTo(j)) < Cardinality(UpTo(k))
  <2>1. UpTo(j) \subseteq Under(k)
    <3>1. ASSUME NEW i \in places, i <= j PROVE i < k
      <4>1. i \in Nat /\ j \in Nat /\ k \in Nat
        OBVIOUS
      <4> QED
        BY <1>4, <3>1, <4>1
    <3> QED
      BY <3>1
  <2>2. Cardinality(UpTo(j)) <= Cardinality(Under(k))
    BY <1>1, <2>1, FS_Subset
  <2> HIDE DEF UpTo, Under
  <2>3. Cardinality(UpTo(j)) \in Nat
    BY <1>1, <1>2
  <2> QED
    BY <1>1, <2>2, <2>3
<1>5. ASSUME NEW j \in places, NEW k \in places, Cardinality(UpTo(j)) = Cardinality(UpTo(k)) PROVE j = k
  <2> HIDE DEF UpTo, Under
  <2>1. Cardinality(UpTo(j)) \in Nat
    BY <1>1, <1>2
  <2>2. ~ (j < k) /\ ~ (k < j)
    BY <1>4, <1>5, <2>1
  <2>3. j \in Nat /\ k \in Nat
    OBVIOUS
  <2> QED
    BY <2>2, <2>3
<1> QED
  BY <1>1, <1>2, <1>3, <1>5
=============================================================================
