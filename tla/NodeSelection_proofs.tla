------------------------- MODULE NodeSelection_proofs -------------------------
(***************************************************************************)
(* What the selectors of NodeSelection return, for any list of statuses:    *)
(* the failover's choice is a best node of a tier, and the rotation leaves *)
(* out no eligible node.                                                   *)
(***************************************************************************)
EXTENDS NodeSelection, OrderLemmas, TLAPS

\* A list the selectors may be given: finitely many rows, scored.
Listed(sts) ==
    /\ DOMAIN sts \subseteq Nat /\ IsFiniteSet(DOMAIN sts)
    /\ \A n \in DOMAIN sts : sts[n].tier \in Tiers /\ sts[n].score \in Int

LEMMA LeastIs ==
    ASSUME NEW S \in SUBSET Nat, S # {}
    PROVE  Least(S) \in S /\ \A m \in S : Least(S) <= m
BY LeastExists DEF Least

LEMMA EligibleIsFinite ==
    ASSUME NEW sts, Listed(sts)
    PROVE  Eligible(sts) \in SUBSET Nat /\ IsFiniteSet(Eligible(sts))
<1>1. Eligible(sts) \in SUBSET DOMAIN sts
  BY DEF Eligible
<1> QED
  BY <1>1, FS_Subset DEF Listed

\* The next eligible node, or the first one.
LEMMA SequentialIs ==
    ASSUME NEW sts, Listed(sts), NEW current \in Nat
    PROVE  SelectSequentialNext(current, sts) \subseteq Eligible(sts)
<1>1. Eligible(sts) \in SUBSET Nat /\ IsFiniteSet(Eligible(sts))
  BY EligibleIsFinite
<1> DEFINE later == {n \in Eligible(sts) : n > current}
<1>2. later # {} => Least(later) \in Eligible(sts)
  BY <1>1, LeastIs
<1>3. Cardinality(Eligible(sts)) > 1 => Least(Eligible(sts)) \in Eligible(sts)
  BY <1>1, LeastIs, FS_EmptySet
<1>4. Cardinality(Eligible(sts)) \in Nat
  BY <1>1, FS_CardinalityType
<1> QED
  BY <1>2, <1>3, <1>4 DEF SelectSequentialNext

\* The failover's choice: some other eligible node if there is one, all of one
\* tier, and none of that tier has a higher score.
LEMMA SelectNextIs ==
    ASSUME NEW sts, Listed(sts), NEW current
    PROVE  LET chosen == SelectNext(current, sts)
               others == Eligible(sts) \ {current}
           IN  /\ chosen \subseteq others
               /\ others # {} => chosen # {}
               /\ \E t \in Tiers : \A n \in chosen : sts[n].tier = t
               /\ \A n \in chosen, m \in others :
                    sts[m].tier = sts[n].tier => sts[m].score <= sts[n].score
<1> DEFINE others == Eligible(sts) \ {current}
           inTier(t) == {n \in others : sts[n].tier = t}
           best(S) == {n \in S : \A m \in S : sts[n].score >= sts[m].score}
           own == IF current \in DOMAIN sts THEN sts[current].tier ELSE "L3"
           order == <<own, "L1", "L2", "L3">>
           filled == {i \in 1..4 : inTier(order[i]) # {}}
<1>1. /\ others \in SUBSET Nat /\ IsFiniteSet(others)
      /\ \A n \in others : sts[n].tier \in Tiers /\ sts[n].score \in Int
  <2>1. others \in SUBSET Eligible(sts) /\ others \subseteq DOMAIN sts
    BY DEF Eligible
  <2> QED
    BY <2>1, EligibleIsFinite, FS_Subset DEF Listed
<1>2. order[1] \in Tiers /\ order[2] = "L1" /\ order[3] = "L2" /\ order[4] = "L3"
  BY DEF Listed, Tiers
<1>3. ASSUME NEW t \in Tiers, inTier(t) # {} PROVE best(inTier(t)) # {}
  <2> DEFINE S == inTier(t)
             f == [n \in S |-> sts[n].score]
  <2>1. f \in [S -> Int]
    BY <1>1
  <2>2. IsFiniteSet(S) /\ S # {}
    BY <1>1, <1>3, FS_Subset
  <2>3. \E g \in S : \A m \in S : f[m] <= f[g]
    <3> HIDE DEF f, S
    <3> QED
      BY <2>1, <2>2, BestExists
  <2>4. PICK g \in S : \A m \in S : sts[m].score <= sts[g].score
    BY <2>3
  <2>5. \A m \in S : sts[g].score >= sts[m].score
    BY <2>4, <1>1
  <2> QED
    BY <2>5
<1>4. ASSUME NEW i \in 1..4 PROVE order[i] \in Tiers
  BY <1>2 DEF Tiers
<1>5. CASE filled = {}
  <2>1. inTier("L1") = {} /\ inTier("L2") = {} /\ inTier("L3") = {}
    <3> HIDE DEF inTier, order
    <3> QED
      BY <1>2, <1>5
  <2>2. others = {}
    BY <1>1, <2>1 DEF Tiers
  <2>3. SelectNext(current, sts) = {}
    BY <1>5 DEF SelectNext
  <2> QED
    BY <2>2, <2>3 DEF Tiers
<1>6. CASE filled # {}
  <2>1. filled \in SUBSET Nat
    OBVIOUS
  <2>2. Least(filled) \in filled
    BY <1>6, <2>1, LeastIs
  <2> DEFINE t == order[Least(filled)]
  <2>3. t \in Tiers /\ inTier(t) # {}
    BY <1>4, <2>2
  <2>4. SelectNext(current, sts) = best(inTier(t))
    BY <1>6 DEF SelectNext
  <2> HIDE DEF t
  <2>5. SelectNext(current, sts) # {}
    BY <1>3, <2>3, <2>4
  <2>6. \A n \in SelectNext(current, sts) : n \in others /\ sts[n].tier = t
    BY <2>4
  <2>7. ASSUME NEW n \in SelectNext(current, sts), NEW m \in others,
               sts[m].tier = sts[n].tier
        PROVE  sts[m].score <= sts[n].score
    <3>1. m \in inTier(t)
      BY <2>6, <2>7
    <3>2. sts[n].score >= sts[m].score
      BY <2>4, <3>1
    <3> QED
      BY <1>1, <2>6, <3>2
  <2> QED
    BY <2>3, <2>5, <2>6, <2>7
<1> QED
  BY <1>5, <1>6

\* Repeating "next" from anywhere visits every eligible node: no proper part of
\* them is closed under it.
LEMMA SequentialCovers ==
    ASSUME NEW sts, Listed(sts), Cardinality(Eligible(sts)) > 1,
           NEW S \in SUBSET Eligible(sts), S # {}, S # Eligible(sts)
    PROVE  \E n \in S : SelectSequentialNext(n, sts) \cap (Eligible(sts) \ S) # {}
<1> DEFINE E == Eligible(sts)
           later(n) == {m \in E : m > n}
<1>1. E \in SUBSET Nat /\ IsFiniteSet(E) /\ S \in SUBSET Nat /\ IsFiniteSet(S)
  BY EligibleIsFinite, FS_Subset
<1>2. ASSUME NEW n \in S
      PROVE  SelectSequentialNext(n, sts) =
               IF later(n) # {} THEN {Least(later(n))} ELSE {Least(E)}
  <2>1. Cardinality(E) \in Nat /\ ~ (Cardinality(E) <= 1) /\ n \in E
    BY <1>1, FS_CardinalityType
  <2> QED
    BY <2>1 DEF SelectSequentialNext
<1> SUFFICES ASSUME \A n \in S : SelectSequentialNext(n, sts) \cap (E \ S) = {}
             PROVE  FALSE
  OBVIOUS
<1>3. Least(E) \in E /\ \A m \in E : Least(E) <= m
  BY <1>1, LeastIs
<1>4. ASSUME NEW n \in S, later(n) # {} PROVE Least(later(n)) \in S
  <2>1. later(n) \in SUBSET Nat
    BY <1>1
  <2>2. Least(later(n)) \in later(n)
    BY <1>4, <2>1, LeastIs
  <2>3. Least(later(n)) \in SelectSequentialNext(n, sts)
    BY <1>2, <1>4
  <2> QED
    BY <2>2, <2>3
\* The last of S leads back to the first eligible node, which is therefore in S.
<1>5. Least(E) \in S
  <2>1. PICK g \in S : \A m \in S : m <= g
    BY <1>1, GreatestExists
  <2>2. later(g) = {}
    <3> SUFFICES ASSUME later(g) # {} PROVE FALSE
      OBVIOUS
    <3>1. later(g) \in SUBSET Nat
      BY <1>1
    <3>2. Least(later(g)) \in later(g) /\ Least(later(g)) \in S
      BY <1>4, <3>1, LeastIs
    <3> QED
      BY <1>1, <2>1, <3>2
  <2>3. Least(E) \in SelectSequentialNext(g, sts)
    BY <1>2, <2>2
  <2> QED
    BY <1>3, <2>3
\* The first one left out comes next after the last one of S before it.
<1>6. PICK y \in E \ S : \A m \in E \ S : y <= m
  <2>1. E \ S \in SUBSET Nat /\ E \ S # {}
    BY <1>1
  <2> QED
    BY <2>1, LeastExists
<1> DEFINE before == {m \in S : m < y}
<1>7. PICK x \in before : \A m \in before : m <= x
  <2>1. Least(E) \in before
    BY <1>1, <1>3, <1>5, <1>6
  <2>2. before \in SUBSET S /\ before \in SUBSET Int
    <3>1. before \subseteq S /\ S \subseteq Nat
      BY <1>1
    <3> HIDE DEF before
    <3> QED
      BY <3>1
  <2>3. IsFiniteSet(before)
    BY <1>1, <2>2, FS_Subset
  <2> HIDE DEF before
  <2> QED
    BY <2>1, <2>2, <2>3, GreatestExists
<1>8. y \in later(x) /\ later(x) \in SUBSET Nat
  BY <1>1, <1>6, <1>7
<1>9. Least(later(x)) \in later(x) /\ Least(later(x)) <= y /\ Least(later(x)) \in S
  BY <1>4, <1>7, <1>8, LeastIs
<1>10. Least(later(x)) < y /\ Least(later(x)) \in before /\ Least(later(x)) > x
  BY <1>1, <1>6, <1>9
<1>11. Least(later(x)) <= x /\ x \in Nat /\ Least(later(x)) \in Nat
  BY <1>1, <1>7, <1>10
<1> QED
  BY <1>10, <1>11
=============================================================================
