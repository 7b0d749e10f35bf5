--------------------------- MODULE StreamOpsProofs ---------------------------
(***************************************************************************)
(* What the operators of StreamOps return, for any set of numbers: the     *)
(* facts the proofs about the channels, the range set, the ring and the    *)
(* list of lobbies share.                                                  *)
(***************************************************************************)
EXTENDS StreamOps, SequencesExt, FiniteSetTheorems, SequenceTheorems, WellFoundedInduction, TLAPS

(* A sequence over a set is one over any larger set. *)
LEMMA SeqSubset ==
    ASSUME NEW A, NEW B, A \subseteq B
    PROVE  Seq(A) \subseteq Seq(B)
<1>1. SUFFICES ASSUME NEW p \in Seq(A) PROVE p \in Seq(B)
  OBVIOUS
<1>2. p \in [1..Len(p) -> A] /\ Len(p) \in Nat
  BY LenProperties
<1>3. p \in [1..Len(p) -> B]
  BY <1>2
<1>4. QED
  BY <1>2, <1>3, SeqDef

NatLess == OpToRel(<, Nat)

(* Every non-empty set of natural numbers has a least element: the form in *)
(* which the proofs below do induction.                                    *)
LEMMA LeastNat ==
    ASSUME NEW T \in SUBSET Nat, T # {}
    PROVE  \E x \in T : \A y \in T : x <= y
<1>1. \A x, y \in Nat : <<x, y>> \in NatLess <=> x < y
  BY SMT DEF NatLess, OpToRel
<1>2. IsWellFoundedOn(NatLess, Nat)
  BY NatLessThanWellFounded DEF NatLess
<1>3. PICK x \in T : \A y \in T : <<y, x>> \notin NatLess
  BY <1>2, WFMin
<1>4. ASSUME NEW y \in T PROVE x <= y
  <2>1. x \in Nat /\ y \in Nat
    OBVIOUS
  <2>2. ~(y < x)
    BY <1>1, <1>3, <2>1
  <2>3. QED
    BY <2>1, <2>2
<1>5. QED
  BY <1>4

(* The least and the greatest number of a set that has one.                *)
LEMMA MinIs ==
    ASSUME NEW S \in SUBSET Nat, S # {}
    PROVE  Min(S) \in S /\ \A y \in S : Min(S) <= y
<1>1. \E x \in S : \A y \in S : x <= y
  BY LeastNat
<1>2. QED
  BY <1>1 DEF Min

LEMMA MaxIs ==
    ASSUME NEW S \in SUBSET Nat, S # {}, NEW bound \in Nat, \A y \in S : y <= bound
    PROVE  Max(S) \in S /\ \A y \in S : y <= Max(S)
<1> DEFINE below == {bound - y : y \in S}
<1>1. below \in SUBSET Nat /\ below # {}
  <2>1. \A y \in S : bound - y \in Nat
    OBVIOUS
  <2>2. QED
    BY <2>1
<1>2. PICK d \in below : \A e \in below : d <= e
  BY <1>1, LeastNat
<1>3. PICK x \in S : d = bound - x
  OBVIOUS
<1>4. ASSUME NEW y \in S PROVE x >= y
  <2>1. bound - y \in below /\ x \in Nat /\ y \in Nat
    OBVIOUS
  <2>2. bound - x <= bound - y
    BY <1>2, <1>3, <2>1
  <2>3. QED
    BY <2>1, <2>2
<1>5. Max(S) \in S /\ \A y \in S : Max(S) >= y
  BY <1>4 DEF Max
<1>6. QED
  BY <1>5

LEMMA PairIs ==
    ASSUME NEW a \in Int, NEW b \in Int
    PROVE  /\ Min({a, b}) = IF a <= b THEN a ELSE b
           /\ Max({a, b}) = IF a <= b THEN b ELSE a
<1>1. ASSUME NEW x \in {a, b}, \A y \in {a, b} : x <= y
      PROVE  x = IF a <= b THEN a ELSE b
  BY <1>1
<1>2. ASSUME NEW x \in {a, b}, \A y \in {a, b} : x >= y
      PROVE  x = IF a <= b THEN b ELSE a
  BY <1>2
<1>3. \E x \in {a, b} : \A y \in {a, b} : x <= y
  OBVIOUS
<1>4. \E x \in {a, b} : \A y \in {a, b} : x >= y
  OBVIOUS
<1>5. Min({a, b}) \in {a, b} /\ \A y \in {a, b} : Min({a, b}) <= y
  BY <1>3 DEF Min
<1>6. Max({a, b}) \in {a, b} /\ \A y \in {a, b} : Max({a, b}) >= y
  BY <1>4 DEF Max
<1>7. QED
  BY <1>1, <1>2, <1>5, <1>6

(* RunEnd is defined wherever the code calls it, and it is what it says:   *)
(* the end of the run of S that follows from.                              *)
LEMMA RunEndIs ==
    ASSUME NEW S \in SUBSET Nat, NEW from \in Nat, NEW bound \in Nat,
           \A s \in S : s <= bound
    PROVE  /\ RunEnd(from, S) \in {from} \cup S
           /\ RunEnd(from, S) >= from
           /\ (from + 1)..RunEnd(from, S) \subseteq S
           /\ RunEnd(from, S) + 1 \notin S
<1> DEFINE absent == {m \in Nat : m > from /\ m \notin S}
<1>1. absent # {}
  <2>1. from + bound + 1 \in Nat /\ from + bound + 1 > from /\ from + bound + 1 > bound
    OBVIOUS
  <2>2. from + bound + 1 \in absent
    BY <2>1
  <2>3. QED
    BY <2>2
<1>2. PICK m \in absent : \A y \in absent : m <= y
  BY <1>1, LeastNat
<1>3. m \in Nat /\ m > from /\ m \notin S
  OBVIOUS
<1>4. ASSUME NEW k \in (from + 1)..(m - 1) PROVE k \in S
  <2>1. k \in Nat /\ k > from /\ ~(m <= k)
    BY <1>3
  <2>2. QED
    BY <1>2, <2>1
<1>5. m - 1 \in {from} \cup S
  BY <1>3, <1>4
<1>6. /\ m - 1 >= from
      /\ (from + 1)..(m - 1) \subseteq S
      /\ (m - 1) + 1 \notin S
  BY <1>3, <1>4
<1> HIDE DEF absent
<1>7. \E n \in {from} \cup S : n >= from /\ (from + 1)..n \subseteq S /\ n + 1 \notin S
  BY <1>5, <1>6
<1>8. QED
  BY <1>7 DEF RunEnd
Below(S, s) == {t \in S : t <= s}

(* The elements of a finite set of numbers have different ranks, from 1 to *)
(* the number of elements.                                                 *)
LEMMA RanksDiffer ==
    ASSUME NEW S \in SUBSET Nat, IsFiniteSet(S), NEW s \in S
    PROVE  /\ Cardinality(Below(S, s)) \in 1..Cardinality(S)
           /\ \A t \in S : t < s => Cardinality(Below(S, t)) < Cardinality(Below(S, s))
<1>1. \A t \in S : IsFiniteSet(Below(S, t)) /\ Cardinality(Below(S, t)) \in Nat
                   /\ Cardinality(Below(S, t)) <= Cardinality(S)
  <2>1. \A t \in S : Below(S, t) \in SUBSET S
    BY DEF Below
  <2>2. QED
    BY <2>1, FS_Subset, FS_CardinalityType
<1>2. Cardinality(S) \in Nat
  BY FS_CardinalityType
<1>3. Cardinality(Below(S, s)) # 0
  <2>1. s \in Below(S, s)
    BY DEF Below
  <2>2. QED
    BY <2>1, <1>1, FS_EmptySet
<1>4. ASSUME NEW t \in S, t < s
      PROVE  Cardinality(Below(S, t)) < Cardinality(Below(S, s))
  <2> s \in Nat /\ t \in Nat /\ \A u \in S : u \in Nat
    OBVIOUS
  <2>1. Below(S, t) \in SUBSET Below(S, s)
    <3>1. ASSUME NEW u \in S, u <= t PROVE u <= s
      BY <1>4, <3>1
    <3>2. QED
      BY <3>1 DEF Below
  <2>2. s \in Below(S, s) /\ s \notin Below(S, t)
    BY <1>4 DEF Below
  <2>3. Cardinality(Below(S, t)) <= Cardinality(Below(S, s))
        /\ (Cardinality(Below(S, s)) = Cardinality(Below(S, t)) => Below(S, s) = Below(S, t))
    BY <1>1, <2>1, FS_Subset
  <2>4. QED
    BY <1>1, <2>2, <2>3
<1>5. QED
  BY <1>1, <1>2, <1>3, <1>4

(* Sorted lists the set: every number of it is in the list, the list has   *)
(* no other, and it increases.                                             *)
LEMMA SortedLists ==
    ASSUME NEW S \in SUBSET Nat, IsFiniteSet(S)
    PROVE  /\ Cardinality(S) \in Nat
           /\ Sorted(S) \in Seq(S)
           /\ Len(Sorted(S)) = Cardinality(S)
           /\ DOMAIN Sorted(S) = 1..Cardinality(S)
           /\ ToSet(Sorted(S)) = S
           /\ \A j, k \in DOMAIN Sorted(S) : j < k => Sorted(S)[j] < Sorted(S)[k]
<1> DEFINE rank == [s \in S |-> Cardinality(Below(S, s))]
           n == Cardinality(S)
<1>1. n \in Nat
  BY FS_CardinalityType
<1>2. \A s \in S : rank[s] \in 1..n
  BY RanksDiffer
<1>3. \A s, t \in S : t < s => rank[t] < rank[s]
  BY RanksDiffer
<1>4. \A s, t \in S : rank[s] = rank[t] => s = t
  <2>1. SUFFICES ASSUME NEW s \in S, NEW t \in S, s # t PROVE rank[s] # rank[t]
    OBVIOUS
  <2>2. s \in Nat /\ t \in Nat /\ rank[s] \in Int /\ rank[t] \in Int
    BY <1>2
  <2>3. s < t \/ t < s
    BY <2>1, <2>2
  <2>4. QED
    BY <1>3, <2>2, <2>3
<1>5. \A k \in 1..n : \E s \in S : rank[s] = k
  <2>1. rank \in [S -> 1..n]
    BY <1>2
  <2>2. rank \in Injection(S, 1..n)
    BY <1>4, <2>1 DEF Injection, IsInjective
  <2>3. IsFiniteSet(1..n) /\ Cardinality(1..n) = n
    BY <1>1, FS_Interval
  <2>4. rank \in Surjection(S, 1..n)
    BY <2>2, <2>3, FS_Injection
  <2>5. QED
    BY <2>4 DEF Surjection
<1>6. /\ DOMAIN Sorted(S) = 1..n
      /\ \A k \in 1..n : Sorted(S)[k] = CHOOSE s \in S : rank[s] = k
  <2>1. \A s \in S : rank[s] = Cardinality({t \in S : t <= s})
    BY DEF Below
  <2>2. \A k : (CHOOSE s \in S : rank[s] = k)
                = CHOOSE s \in S : Cardinality({t \in S : t <= s}) = k
    BY <2>1
  <2>3. QED
    BY <2>2 DEF Sorted
<1> HIDE DEF rank
<1>7. \A k \in 1..n : Sorted(S)[k] \in S /\ rank[Sorted(S)[k]] = k
  BY <1>5, <1>6
<1>8. Sorted(S) \in Seq(S) /\ Len(Sorted(S)) = n
  <2>1. Sorted(S) = [k \in 1..n |-> CHOOSE s \in S : Cardinality({t \in S : t <= s}) = k]
    BY DEF Sorted
  <2>2. Sorted(S) \in [1..n -> S]
    BY <1>7, <2>1
  <2>3. QED
    BY <1>1, <2>2, SeqDef, LenProperties
<1>9. ToSet(Sorted(S)) = S
  <2>1. ASSUME NEW s \in S PROVE s \in ToSet(Sorted(S))
    <3>1. Sorted(S)[rank[s]] \in S /\ rank[Sorted(S)[rank[s]]] = rank[s] /\ rank[s] \in 1..n
      BY <1>2, <1>7
    <3>2. Sorted(S)[rank[s]] = s
      BY <1>4, <3>1
    <3>3. QED
      BY <1>6, <3>1, <3>2 DEF ToSet
  <2>2. ASSUME NEW x \in ToSet(Sorted(S)) PROVE x \in S
    BY <1>6, <1>7 DEF ToSet
  <2>3. QED
    BY <2>1, <2>2
<1>10. ASSUME NEW j \in 1..n, NEW k \in 1..n, j < k
       PROVE  Sorted(S)[j] < Sorted(S)[k]
  <2>1. /\ Sorted(S)[j] \in Nat /\ Sorted(S)[k] \in Nat
        /\ Sorted(S)[j] \in S /\ Sorted(S)[k] \in S
        /\ rank[Sorted(S)[j]] = j /\ rank[Sorted(S)[k]] = k
    BY <1>7
  <2>2. Sorted(S)[j] # Sorted(S)[k]
    BY <1>10, <2>1
  <2>3. ~(Sorted(S)[k] < Sorted(S)[j])
    BY <1>3, <1>10, <2>1
  <2>4. QED
    BY <2>1, <2>2, <2>3
<1>11. \A j, k \in DOMAIN Sorted(S) : j < k => Sorted(S)[j] < Sorted(S)[k]
  BY <1>6, <1>10
<1>12. QED
  BY <1>1, <1>6, <1>8, <1>9, <1>11

(* The numbers from a + 1 to b, listed. *)
LEMMA SortedInterval ==
    ASSUME NEW a \in Nat, NEW b \in Nat, a <= b
    PROVE  Sorted((a + 1)..b) = [k \in 1..(b - a) |-> a + k]
<1> DEFINE S == (a + 1)..b
<1>1. IsFiniteSet(S) /\ Cardinality(S) = b - a
  <2>1. Cardinality(S) = (IF a + 1 > b THEN 0 ELSE b - (a + 1) + 1) /\ IsFiniteSet(S)
    BY FS_Interval
  <2>2. QED
    BY <2>1
<1>2. \A s \in S : Cardinality({t \in S : t <= s}) = s - a
  <2>1. SUFFICES ASSUME NEW s \in S PROVE Cardinality({t \in S : t <= s}) = s - a
    OBVIOUS
  <2>2. {t \in S : t <= s} = (a + 1)..s
    OBVIOUS
  <2>3. Cardinality((a + 1)..s) = s - a
    BY FS_Interval
  <2>4. QED
    BY <2>2, <2>3
<1>3. ASSUME NEW k \in 1..(b - a)
      PROVE  (CHOOSE s \in S : Cardinality({t \in S : t <= s}) = k) = a + k
  <2>1. a + k \in S /\ Cardinality({t \in S : t <= a + k}) = k
    BY <1>2
  <2>2. \A s \in S : Cardinality({t \in S : t <= s}) = k => s = a + k
    BY <1>2
  <2>3. QED
    BY <2>1, <2>2
<1>4. QED
  BY <1>1, <1>3 DEF Sorted
=============================================================================
