------------------------------ MODULE SetLemmas ------------------------------
(***************************************************************************)
(* Facts about sets of naturals that more than one proof needs.            *)
(***************************************************************************)
EXTENDS Integers, FiniteSets, FiniteSetTheorems, WellFoundedInduction, TLAPS

(* A non-empty set of naturals has a least element.                        *)
LEMMA LeastElement ==
  ASSUME NEW T, T \subseteq Nat, T # {}
  PROVE  \E x \in T : \A y \in T : x <= y
<1> DEFINE Before == {p \in Nat \X Nat : p[1] < p[2]}
<1>1. IsWellFoundedOn(OpToRel(<, Nat), Nat)
  BY NatLessThanWellFounded
<1>2. OpToRel(<, Nat) = Before
  BY DEF OpToRel
<1>3. \A x, y \in Nat : x < y => <<x, y>> \in Before
  OBVIOUS
<1> HIDE DEF Before
<1>4. IsWellFoundedOn(Before, Nat)
  BY <1>1, <1>2
<1>5. PICK x \in T : \A y \in T : ~ (<<y, x>> \in Before)
  BY <1>4, WFMin
<1>6. ASSUME NEW y \in T
      PROVE  x <= y
  <2>1. x \in Nat /\ y \in Nat
    OBVIOUS
  <2>2. ~ (y < x)
    BY <1>3, <1>5, <2>1
  <2>. QED
    BY <2>1, <2>2
<1>. QED
  BY <1>6

(* A finite set of positive integers has a k-th element, for every k up to *)
(* its size.                                                               *)
LEMMA KthElement ==
  ASSUME NEW m \in Nat, NEW S \in SUBSET (1..m), NEW k \in 1..Cardinality(S)
  PROVE  \E i \in S : Cardinality({j \in S : j <= i}) = k
<1> DEFINE UpTo(i) == {j \in S : j <= i}
           T == {i \in Nat : Cardinality(UpTo(i)) >= k}
<1>1. IsFiniteSet(S) /\ Cardinality(S) \in Nat
  <2>1. IsFiniteSet(1..m)
    BY FS_Interval
  <2>2. IsFiniteSet(S)
    BY <2>1, FS_Subset
  <2>. QED
    BY <2>2, FS_CardinalityType
<1>2. ASSUME NEW i \in Nat
      PROVE  IsFiniteSet(UpTo(i)) /\ Cardinality(UpTo(i)) \in Nat
  <2>1. UpTo(i) \in SUBSET S
    OBVIOUS
  <2> HIDE DEF UpTo
  <2>2. IsFiniteSet(UpTo(i))
    BY <1>1, <2>1, FS_Subset
  <2>. QED
    BY <2>2, FS_CardinalityType
<1>. \A j \in S : j \in Nat /\ 1 <= j /\ j <= m
  OBVIOUS
<1>3. UpTo(m) = S /\ UpTo(0) = {}
  <2>1. \A j : j \in UpTo(m) <=> j \in S
    OBVIOUS
  <2>2. \A j \in S : ~ (j <= 0)
    OBVIOUS
  <2>3. \A j : j \notin UpTo(0)
    BY <2>2
  <2> HIDE DEF UpTo
  <2>. QED
    BY <2>1, <2>3
<1>4. ASSUME NEW i \in Nat \ {0}
      PROVE  /\ i \notin S => UpTo(i) = UpTo(i-1)
             /\ i \in S => UpTo(i) = UpTo(i-1) \cup {i}
             /\ i \notin UpTo(i-1)
  <2>1. \A j \in S : j <= i <=> j <= i-1 \/ j = i
    OBVIOUS
  <2>2. ~ (i <= i-1)
    OBVIOUS
  <2>. QED
    BY <2>1, <2>2
<1> HIDE DEF UpTo
<1>5. m \in T
  BY <1>1, <1>3
<1>6. PICK i \in T : \A y \in T : i <= y
  BY <1>5, LeastElement
<1>7. i \in Nat \ {0} /\ Cardinality(UpTo(i)) >= k
  <2>1. Cardinality(UpTo(0)) = 0
    BY <1>3, FS_EmptySet
  <2>. QED
    BY <1>1, <1>6, <2>1
<1>8. Cardinality(UpTo(i-1)) < k
  <2>1. i - 1 \in Nat /\ ~ (i <= i - 1)
    BY <1>7
  <2>2. i - 1 \notin T
    BY <1>6, <2>1
  <2>. QED
    BY <1>1, <1>2, <2>1, <2>2
<1>9. i - 1 \in Nat
  BY <1>7
<1>10. i \in S
  BY <1>1, <1>2, <1>4, <1>7, <1>8, <1>9
<1>11. Cardinality(UpTo(i)) = Cardinality(UpTo(i-1)) + 1
  <2>1. IsFiniteSet(UpTo(i-1)) /\ i \notin UpTo(i-1)
    BY <1>2, <1>4, <1>7, <1>9
  <2>2. Cardinality(UpTo(i-1) \cup {i}) = Cardinality(UpTo(i-1)) + 1
    BY <2>1, FS_AddElement
  <2>. QED
    BY <1>4, <1>7, <1>10, <2>2
<1>12. Cardinality(UpTo(i)) = k
  BY <1>1, <1>2, <1>7, <1>8, <1>9, <1>11
<1>. QED
  BY <1>10, <1>12 DEF UpTo

(* Of an interval from 1 on, the k-th element is k.                        *)
LEMMA KthOfInterval ==
  ASSUME NEW m \in Nat, NEW k \in 1..m,
         NEW i \in 1..m, Cardinality({j \in 1..m : j <= i}) = k
  PROVE  i = k
<1>1. {j \in 1..m : j <= i} = 1..i
  OBVIOUS
<1>2. Cardinality(1..i) = i
  BY FS_Interval
<1>. QED
  BY <1>1, <1>2

(* A set of numbers up to m that has m of them has them all.               *)
LEMMA FullInterval ==
  ASSUME NEW m \in Nat, NEW S \in SUBSET (1..m), Cardinality(S) = m
  PROVE  S = 1..m
<1>1. IsFiniteSet(1..m) /\ Cardinality(1..m) = m
  BY FS_Interval
<1>. QED
  BY <1>1, FS_Subset
==============================================================================
