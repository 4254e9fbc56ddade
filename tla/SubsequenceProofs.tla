-------------------------- MODULE SubsequenceProofs --------------------------
(* What Pick returns: the chosen elements, each once and in their order.       *)
(* And induction over the numbers, stated of sets so that it is first-order.   *)
EXTENDS Subsequences, FunctionTheorems, FiniteSetTheorems, SequenceTheorems,
        WellFoundedInduction, TLAPS

LEMMA LeastElement ==
  ASSUME NEW T \in SUBSET Nat, T # {}
  PROVE  \E x \in T : \A y \in T : x <= y
<1> DEFINE R == OpToRel(<, Nat)
<1>1. IsWellFoundedOn(R, Nat)
  BY NatLessThanWellFounded
<1>2. R = {ss \in Nat \X Nat : ss[1] < ss[2]}
  BY DEF OpToRel
<1>3. \A x, y \in Nat : x < y => <<x, y>> \in R
  BY <1>2
<1> HIDE DEF R
<1>4. PICK x \in T : \A y \in T : ~(<<y, x>> \in R)
  BY <1>1, WFMin
<1>5. \A y \in T : ~(y < x)
  BY <1>3, <1>4
<1>6. \A y \in T : x <= y
  BY <1>5
<1> QED
  BY <1>6

\* Induction, for the numbers that have a property.
LEMMA SetInduction ==
  ASSUME NEW T \in SUBSET Nat, 0 \in T, \A n \in T : n + 1 \in T
  PROVE  T = Nat
<1> SUFFICES ASSUME Nat \ T # {}  PROVE FALSE
  OBVIOUS
<1>1. PICK x \in Nat \ T : \A y \in Nat \ T : x <= y
  BY LeastElement
<1>2. x # 0 /\ x - 1 \in Nat
  BY <1>1
<1>3. x - 1 \in T
  BY <1>1, <1>2
<1>4. (x - 1) + 1 \in T
  BY <1>3
<1> QED
  BY <1>1, <1>4

\* The places I come up to i.
UpTo(I, i) == {j \in I : j <= i}

LEMMA RankType ==
  ASSUME NEW n \in Nat, NEW I \in SUBSET (1 .. n)
  PROVE  /\ IsFiniteSet(I) /\ Cardinality(I) \in Nat
         /\ \A i \in I : /\ IsFiniteSet(UpTo(I, i)) /\ Rank(I, i) = Cardinality(UpTo(I, i))
                         /\ Rank(I, i) \in 1 .. Cardinality(I)
<1>1. IsFiniteSet(1 .. n)
  <2>1. 1 \in Int /\ n \in Int
    OBVIOUS
  <2> QED
    BY <2>1, FS_Interval
<1>2. IsFiniteSet(I)
  BY <1>1, FS_Subset
<1>3. Cardinality(I) \in Nat
  BY <1>2, FS_CardinalityType
<1>4. ASSUME NEW i \in I
      PROVE  /\ IsFiniteSet(UpTo(I, i)) /\ Rank(I, i) = Cardinality(UpTo(I, i))
             /\ Rank(I, i) \in 1 .. Cardinality(I)
  <2>1. UpTo(I, i) \in SUBSET I /\ i \in UpTo(I, i)
    BY DEF UpTo
  <2>2. IsFiniteSet(UpTo(I, i)) /\ Cardinality(UpTo(I, i)) <= Cardinality(I)
    BY <1>2, <2>1, FS_Subset
  <2>3. Cardinality(UpTo(I, i)) \in Nat
    BY <2>2, FS_CardinalityType
  <2>4. Cardinality(UpTo(I, i)) # 0
    BY <2>1, <2>2, FS_EmptySet
  <2>5. Rank(I, i) = Cardinality(UpTo(I, i))
    BY DEF Rank, UpTo
  <2> QED
    BY <1>3, <2>2, <2>3, <2>4, <2>5
<1> QED
  BY <1>2, <1>3, <1>4

LEMMA RankMonotonic ==
  ASSUME NEW n \in Nat, NEW I \in SUBSET (1 .. n), NEW i \in I, NEW j \in I, i < j
  PROVE  Rank(I, i) < Rank(I, j)
<1>1. UpTo(I, i) \in SUBSET UpTo(I, j) /\ j \in UpTo(I, j) /\ j \notin UpTo(I, i)
  <2>1. \A m \in I : m \in Int
    OBVIOUS
  <2>2. \A m \in I : m <= i => m <= j
    BY <2>1
  <2>3. j <= j /\ ~(j <= i)
    BY <2>1
  <2> QED
    BY <2>2, <2>3, Zenon DEF UpTo
<1>2. /\ IsFiniteSet(UpTo(I, j))
      /\ Rank(I, i) = Cardinality(UpTo(I, i)) /\ Rank(I, j) = Cardinality(UpTo(I, j))
      /\ Rank(I, i) \in Int /\ Rank(I, j) \in Int
  BY RankType
<1>3. /\ Cardinality(UpTo(I, i)) <= Cardinality(UpTo(I, j))
      /\ Cardinality(UpTo(I, j)) = Cardinality(UpTo(I, i)) => UpTo(I, j) = UpTo(I, i)
  BY <1>1, <1>2, FS_Subset
<1>4. Cardinality(UpTo(I, j)) # Cardinality(UpTo(I, i))
  BY <1>1, <1>3
<1> QED
  BY <1>2, <1>3, <1>4

\* Each number up to the number of places is the rank of just one of them.
LEMMA RankBijective ==
  ASSUME NEW n \in Nat, NEW I \in SUBSET (1 .. n)
  PROVE  /\ \A i, j \in I : Rank(I, i) = Rank(I, j) => i = j
         /\ \A k \in 1 .. Cardinality(I) : \E i \in I : Rank(I, i) = k
<1> DEFINE C == Cardinality(I)
           r == [i \in I |-> Rank(I, i)]
<1>1. C \in Nat /\ r \in [I -> 1 .. C]
  BY RankType
<1>2. ASSUME NEW i \in I, NEW j \in I, Rank(I, i) = Rank(I, j)
      PROVE  i = j
  <2>1. i \in Int /\ j \in Int
    OBVIOUS
  <2>2. Rank(I, i) \in Int
    <3>1. Rank(I, i) \in 1 .. C
      BY RankType
    <3> QED
      BY <1>1, <3>1
  <2>3. ~(i < j)
    BY <1>2, <2>2, RankMonotonic
  <2>4. ~(j < i)
    BY <1>2, <2>2, RankMonotonic
  <2> QED
    BY <2>1, <2>3, <2>4
<1>3. r \in Injection(I, 1 .. C)
  BY <1>1, <1>2, Fun_IsInj
<1>4. IsFiniteSet(1 .. C) /\ Cardinality(1 .. C) = C
  <2>1. 1 \in Int /\ C \in Int
    BY <1>1
  <2> QED
    BY <1>1, <2>1, FS_Interval
<1>5. r \in Surjection(I, 1 .. C)
  BY <1>3, <1>4, FS_Injection
<1>6. \A k \in 1 .. C : \E i \in I : r[i] = k
  <2> HIDE DEF r, C
  <2> QED
    BY <1>5, Fun_SurjectionProperties
<1> QED
  BY <1>2, <1>6

\* The place of each element of Pick(s, I) in s.
Places(I) == [k \in 1 .. Cardinality(I) |-> CHOOSE i \in I : Rank(I, i) = k]

LEMMA PlacesFacts ==
  ASSUME NEW n \in Nat, NEW I \in SUBSET (1 .. n)
  PROVE  /\ Cardinality(I) \in Nat
         /\ Places(I) \in [1 .. Cardinality(I) -> I]
         /\ \A k, l \in 1 .. Cardinality(I) : k < l => Places(I)[k] < Places(I)[l]
         /\ \A i \in I : \E k \in 1 .. Cardinality(I) : Places(I)[k] = i
<1> DEFINE C == Cardinality(I)
<1>1. C \in Nat
  BY RankType
<1>2. \A k \in 1 .. C : Places(I)[k] \in I /\ Rank(I, Places(I)[k]) = k
  BY RankBijective DEF Places
<1>3. Places(I) \in [1 .. C -> I]
  BY <1>2 DEF Places
<1>4. ASSUME NEW k \in 1 .. C, NEW l \in 1 .. C, k < l
      PROVE  Places(I)[k] < Places(I)[l]
  <2>1. /\ Places(I)[k] # Places(I)[l]
        /\ Places(I)[k] \in Int /\ Places(I)[l] \in Int
    <3>1. k # l
      BY <1>1, <1>4
    <3>2. Places(I)[k] # Places(I)[l]
      BY <1>2, <3>1
    <3>3. \A m \in I : m \in Int
      OBVIOUS
    <3> QED
      BY <1>2, <3>2, <3>3
  <2>2. ~(Places(I)[l] < Places(I)[k])
    <3>1. SUFFICES ASSUME Places(I)[l] < Places(I)[k]  PROVE FALSE
      OBVIOUS
    <3>2. Rank(I, Places(I)[l]) < Rank(I, Places(I)[k])
      BY <1>2, <3>1, RankMonotonic
    <3> QED
      BY <1>1, <1>2, <1>4, <3>2
  <2> QED
    BY <2>1, <2>2
<1>5. ASSUME NEW i \in I
      PROVE  \E k \in 1 .. C : Places(I)[k] = i
  <2> DEFINE k == Rank(I, i)
  <2>1. k \in 1 .. C
    BY RankType
  <2>2. Places(I)[k] \in I /\ Rank(I, Places(I)[k]) = k
    BY <1>2, <2>1
  <2>3. Places(I)[k] = i
    BY <2>2, RankBijective
  <2> QED
    BY <2>1, <2>3
<1> QED
  BY <1>1, <1>3, <1>4, <1>5

LEMMA PickFacts ==
  ASSUME NEW S, NEW s \in Seq(S), NEW I \in SUBSET (DOMAIN s)
  PROVE  /\ Pick(s, I) \in Seq(S)
         /\ Len(Pick(s, I)) = Cardinality(I) /\ Cardinality(I) \in Nat
         /\ DOMAIN Pick(s, I) = 1 .. Cardinality(I)
         /\ \A k \in 1 .. Cardinality(I) : Pick(s, I)[k] = s[Places(I)[k]]
<1> DEFINE C == Cardinality(I)
<1>1. Len(s) \in Nat /\ I \in SUBSET (1 .. Len(s)) /\ s \in [1 .. Len(s) -> S]
  BY LenProperties
<1>2. C \in Nat /\ \A k \in 1 .. C : Places(I)[k] \in I
  BY <1>1, PlacesFacts
<1>3. Pick(s, I) = [k \in 1 .. C |-> s[Places(I)[k]]]
  BY DEF Pick, Places
<1>4. \A k \in 1 .. C : s[Places(I)[k]] \in S
  BY <1>1, <1>2
<1> HIDE DEF C
<1>5. [k \in 1 .. C |-> s[Places(I)[k]]] \in Seq(S)
  BY <1>2, <1>4
<1>6. Len([k \in 1 .. C |-> s[Places(I)[k]]]) = C
  BY <1>2, <1>5, LenProperties
<1> QED
  BY <1>2, <1>3, <1>5, <1>6 DEF C

\* The elements that are left are those at the places.
LEMMA PickRange ==
  ASSUME NEW S, NEW s \in Seq(S), NEW I \in SUBSET (DOMAIN s)
  PROVE  Range(Pick(s, I)) = {s[i] : i \in I}
<1> DEFINE C == Cardinality(I)
<1>1. Len(s) \in Nat /\ I \in SUBSET (1 .. Len(s))
  BY LenProperties
<1>2. /\ DOMAIN Pick(s, I) = 1 .. C
      /\ \A k \in 1 .. C : Pick(s, I)[k] = s[Places(I)[k]]
  BY PickFacts
<1>3. /\ \A k \in 1 .. C : Places(I)[k] \in I
      /\ \A i \in I : \E k \in 1 .. C : Places(I)[k] = i
  BY <1>1, PlacesFacts
<1> QED
  BY <1>2, <1>3 DEF Range

=============================================================================
