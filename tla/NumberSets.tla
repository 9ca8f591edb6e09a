----------------------------- MODULE NumberSets -----------------------------
(***************************************************************************)
(* Sets of numbers, as the proofs of the two paged readings need them: the *)
(* least and the greatest of a set, and how many come before a member.     *)
(***************************************************************************)
EXTENDS Integers, FiniteSets, FiniteSetTheorems, WellFoundedInduction, TLAPS

LEMMA LeastElement ==
    ASSUME NEW S \in SUBSET Nat, S # {}
    PROVE  \E n \in S : \A k \in S : n <= k
<1> DEFINE R == {p \in Nat \X Nat : p[1] < p[2]}
<1>1. IsWellFoundedOn(R, Nat)
    BY NatLessThanWellFounded DEF OpToRel
<1>2. PICK n \in S : \A k \in S : ~ (<<k, n>> \in R)
    <2> HIDE DEF R
    <2> QED
        BY <1>1, WFMin, Zenon
<1>3. ASSUME NEW k \in S
      PROVE  n <= k
    <2>1. <<k, n>> \notin R
        BY <1>2
    <2>2. k \in Nat /\ n \in Nat
        OBVIOUS
    <2> QED
        BY <2>1, <2>2
<1> QED
    BY <1>3

LEMMA GreatestElement ==
    ASSUME NEW S \in SUBSET Nat, S # {}, NEW b \in Nat, \A k \in S : k <= b
    PROVE  \E n \in S : \A k \in S : k <= n
<1> DEFINE T == {n \in Nat : \E k \in S : n = b - k}
<1>1. T \in SUBSET Nat /\ T # {}
    <2>1. PICK k \in S : TRUE
        OBVIOUS
    <2> QED
        BY <2>1, b - k \in T
<1>2. PICK n \in T : \A k \in T : n <= k
    <2> HIDE DEF T
    <2> QED
        BY <1>1, LeastElement
<1>3. PICK g \in S : n = b - g
    BY <1>2
<1>4. ASSUME NEW k \in S
      PROVE  k <= g
    <2>1. b - k \in T
        OBVIOUS
    <2>2. n <= b - k
        BY <1>2, <2>1
    <2> QED
        BY <1>3, <2>2
<1> QED
    BY <1>3, <1>4

-----------------------------------------------------------------------------
(* Counting.                                                               *)

LEMMA CountWithout ==
    ASSUME NEW S, IsFiniteSet(S), NEW T \in SUBSET S
    PROVE  /\ IsFiniteSet(S \ T) /\ Cardinality(S \ T) \in Nat
           /\ Cardinality(S \ T) = Cardinality(S) - Cardinality(T)
<1>1. S \cap T = T
    OBVIOUS
<1>2. /\ IsFiniteSet(S \ T)
      /\ Cardinality(S \ T) = Cardinality(S) - Cardinality(S \cap T)
    BY FS_Difference
<1>3. Cardinality(S \ T) \in Nat
    BY <1>2, FS_CardinalityType
<1> QED
    BY <1>1, <1>2, <1>3

LEMMA CountBoth ==
    ASSUME NEW S, IsFiniteSet(S), NEW T, IsFiniteSet(T), S \cap T = {}
    PROVE  /\ IsFiniteSet(S \cup T)
           /\ Cardinality(S \cup T) = Cardinality(S) + Cardinality(T)
<1>1. /\ IsFiniteSet(S \cup T)
      /\ Cardinality(S \cup T) = Cardinality(S) + Cardinality(T) - Cardinality(S \cap T)
    BY FS_Union
<1>2. Cardinality(S \cap T) = 0
    BY FS_EmptySet
<1>3. Cardinality(S) \in Nat /\ Cardinality(T) \in Nat
    BY FS_CardinalityType
<1> QED
    BY <1>1, <1>2, <1>3

LEMMA CountLess ==
    ASSUME NEW S, IsFiniteSet(S), NEW x \in S
    PROVE  /\ IsFiniteSet(S \ {x})
           /\ Cardinality(S \ {x}) = Cardinality(S) - 1
BY FS_RemoveElement

-----------------------------------------------------------------------------
(* Ranks, in a set whose members have numbers                               *)

Newer(at, T, t) == {q \in T : at[q] > at[t]}

Rank(at, T, t) == Cardinality(Newer(at, T, t))

LEMMA RankIsNat ==
    ASSUME NEW at, NEW T, IsFiniteSet(T), NEW t
    PROVE  IsFiniteSet(Newer(at, T, t)) /\ Rank(at, T, t) \in Nat
<1>1. Newer(at, T, t) \in SUBSET T
    BY DEF Newer
<1> QED
    BY <1>1, FS_Subset, FS_CardinalityType DEF Rank

LEMMA RankGrows ==
    ASSUME NEW at, NEW T, IsFiniteSet(T), NEW S \in SUBSET T, NEW t
    PROVE  Rank(at, S, t) <= Rank(at, T, t)
<1>1. Newer(at, S, t) \in SUBSET Newer(at, T, t)
    BY DEF Newer
<1> QED
    BY <1>1, RankIsNat, FS_Subset DEF Rank

\* A member more is a rank more at most.
LEMMA RankAdds ==
    ASSUME NEW at, NEW T, IsFiniteSet(T), NEW S, NEW x, S \subseteq T \cup {x}, NEW t
    PROVE  Rank(at, S, t) <= Rank(at, T, t) + 1
<1>1. Newer(at, S, t) \in SUBSET (Newer(at, T, t) \cup {x})
    BY DEF Newer
<1>2. /\ IsFiniteSet(Newer(at, T, t) \cup {x})
      /\ Cardinality(Newer(at, T, t) \cup {x}) <= Rank(at, T, t) + 1
      /\ Cardinality(Newer(at, T, t) \cup {x}) \in Nat
    <2>1. IsFiniteSet(Newer(at, T, t)) /\ Rank(at, T, t) \in Nat
        BY RankIsNat
    <2>2. /\ IsFiniteSet(Newer(at, T, t) \cup {x})
          /\ Cardinality(Newer(at, T, t) \cup {x}) \in {Rank(at, T, t), Rank(at, T, t) + 1}
        BY <2>1, FS_AddElement DEF Rank
    <2> QED
        BY <2>1, <2>2, FS_CardinalityType
<1>3. /\ Cardinality(Newer(at, S, t)) <= Cardinality(Newer(at, T, t) \cup {x})
      /\ Cardinality(Newer(at, S, t)) \in Nat
    BY <1>1, <1>2, FS_Subset, FS_CardinalityType
<1> QED
    BY <1>2, <1>3, RankIsNat DEF Rank

\* A newer member has a lower rank.
LEMMA RankOrder ==
    ASSUME NEW at, NEW T, IsFiniteSet(T), \A p \in T : at[p] \in Nat,
           NEW t, at[t] \in Nat, NEW q \in T, at[q] > at[t]
    PROVE  Rank(at, T, q) < Rank(at, T, t)
<1>1. /\ Newer(at, T, q) \in SUBSET Newer(at, T, t)
      /\ q \in Newer(at, T, t) /\ q \notin Newer(at, T, q)
    <2>1. \A p \in T : at[p] > at[q] => at[p] > at[t]
        OBVIOUS
    <2> QED
        BY <2>1 DEF Newer
<1>2. /\ Rank(at, T, q) <= Rank(at, T, t)
      /\ Rank(at, T, t) = Rank(at, T, q) => Newer(at, T, t) = Newer(at, T, q)
    BY <1>1, RankIsNat, FS_Subset DEF Rank
<1> QED
    BY <1>1, <1>2, RankIsNat

LEMMA RankBelow ==
    ASSUME NEW at, NEW T, IsFiniteSet(T), NEW S \in SUBSET T, NEW t \in S, at[t] \in Nat,
           Newer(at, T, t) \subseteq S
    PROVE  Rank(at, T, t) < Cardinality(S)
<1>1. Newer(at, T, t) \in SUBSET S /\ Newer(at, T, t) # S
    <2>1. t \notin Newer(at, T, t)
        BY DEF Newer
    <2> QED
        BY <2>1
<1>2. IsFiniteSet(S) /\ Cardinality(S) \in Nat
    BY FS_Subset, FS_CardinalityType
<1> QED
    BY <1>1, <1>2, RankIsNat, FS_Subset DEF Rank

=============================================================================
