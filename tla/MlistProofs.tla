---------------------------- MODULE MlistProofs ----------------------------
(***************************************************************************)
(* What the list operators return: the lemmas the proofs about the         *)
(* processes cite.                                                         *)
(***************************************************************************)
EXTENDS Mlist, FiniteSetTheorems, SequenceTheorems, TLAPS

\* Every non-empty set of naturals has a least element: the intervals that end
\* at its elements are well-founded by strict inclusion.
LEMMA LeastNatural ==
  ASSUME NEW T \in SUBSET Nat, NEW t \in T
  PROVE  \E x \in T : \A y \in T : x <= y
<1> DEFINE F == {0..k : k \in {n \in T : n <= t}}
<1>1. IsFiniteSet(0..t)
  BY FS_Interval
<1>2. IsWellFoundedOn(StrictSubsetOrdering(0..t), SUBSET (0..t))
  BY <1>1, FS_FiniteSubsetsOfFinite, FS_StrictSubsetOrderingWellFounded
<1>3. F \subseteq SUBSET (0..t) /\ F # {}
  OBVIOUS
<1>4. PICK m \in F : \A f \in F : <<f, m>> \notin StrictSubsetOrdering(0..t)
  <2> HIDE DEF F
  <2> QED BY <1>2, <1>3, WFMin
<1>5. PICK x \in T : x <= t /\ m = 0..x
  OBVIOUS
<1>6. ASSUME NEW y \in T, y < x PROVE FALSE
  <2>1. 0..y \in F /\ 0..y \in SUBSET (0..t) /\ 0..x \in SUBSET (0..t)
    BY <1>5, <1>6
  <2>2. 0..y \subseteq 0..x /\ x \in 0..x /\ x \notin 0..y
    BY <1>6
  <2>3. 0..y # 0..x
    BY <2>2
  <2>4. <<0..y, 0..x>> \in StrictSubsetOrdering(0..t)
    BY <2>1, <2>2, <2>3 DEF StrictSubsetOrdering
  <2> QED BY <1>4, <1>5, <2>1, <2>4
<1> QED BY <1>5, <1>6

----------------------------------------------------------------------------
LEMMA KeptFinite ==
  ASSUME NEW S, NEW s \in Seq(S), NEW p
  PROVE  IsFiniteSet(Kept(s, p)) /\ Cardinality(Kept(s, p)) \in Nat
<1>1. Kept(s, p) \in SUBSET (1..Len(s)) /\ Len(s) \in Nat
  BY LenProperties DEF Kept
<1>2. IsFiniteSet(1..Len(s))
  BY <1>1, FS_Interval
<1>3. IsFiniteSet(Kept(s, p))
  BY <1>1, <1>2, FS_Subset
<1> QED BY <1>3, FS_CardinalityType

\* The rank of a position is a natural; it grows by one at a position that is
\* kept, and stays where it is at one that is removed.
LEMMA RankStep ==
  ASSUME NEW S, NEW s \in Seq(S), NEW p, NEW i \in Nat \ {0}
  PROVE  /\ Rank(s, p, i) \in Nat /\ Rank(s, p, i - 1) \in Nat
         /\ Rank(s, p, i) = IF i \in Kept(s, p) THEN Rank(s, p, i - 1) + 1
                                               ELSE Rank(s, p, i - 1)
<1> DEFINE A(k) == {j \in 1..k : j \in Kept(s, p)}
<1>1. \A k \in Nat : IsFiniteSet(A(k)) /\ Cardinality(A(k)) \in Nat
  <2> SUFFICES ASSUME NEW k \in Nat
               PROVE  IsFiniteSet(A(k)) /\ Cardinality(A(k)) \in Nat
    OBVIOUS
  <2>1. IsFiniteSet(1..k)
    BY FS_Interval
  <2>2. A(k) \in SUBSET (1..k)
    OBVIOUS
  <2> HIDE DEF A
  <2>3. IsFiniteSet(A(k))
    BY <2>1, <2>2, FS_Subset
  <2> QED BY <2>3, FS_CardinalityType
<1>0. /\ Rank(s, p, i) = Cardinality(A(i)) /\ Rank(s, p, i - 1) = Cardinality(A(i - 1))
      /\ Rank(s, p, i) \in Nat /\ Rank(s, p, i - 1) \in Nat
  <2>1. /\ Rank(s, p, i) = Cardinality(A(i))
        /\ Rank(s, p, i - 1) = Cardinality(A(i - 1))
    BY DEF Rank
  <2>2. i \in Nat /\ i - 1 \in Nat
    OBVIOUS
  <2> HIDE DEF A
  <2> QED BY <1>1, <2>1, <2>2
<1>2. CASE i \in Kept(s, p)
  <2>1. A(i) = A(i - 1) \cup {i} /\ i \notin A(i - 1)
    BY <1>2
  <2>2. IsFiniteSet(A(i - 1))
    BY <1>1
  <2>3. Cardinality(A(i)) = Cardinality(A(i - 1)) + 1
    <3> HIDE DEF A
    <3> QED BY <2>1, <2>2, FS_AddElement
  <2> HIDE DEF A
  <2> QED BY <1>0, <1>2, <2>3
<1>3. CASE i \notin Kept(s, p)
  <2>1. A(i) = A(i - 1)
    BY <1>3
  <2> HIDE DEF A
  <2> QED BY <1>0, <1>3, <2>1
<1> QED BY <1>2, <1>3

\* Ranks grow with the positions, strictly up to a kept one.
LEMMA RankMonotonic ==
  ASSUME NEW S, NEW s \in Seq(S), NEW p, NEW i \in Nat, NEW j \in Nat, i < j
  PROVE  /\ Rank(s, p, i) \in Nat /\ Rank(s, p, j) \in Nat
         /\ Rank(s, p, i) <= Rank(s, p, j)
         /\ j \in Kept(s, p) => Rank(s, p, i) < Rank(s, p, j)
<1> DEFINE A(k) == {h \in 1..k : h \in Kept(s, p)}
<1>1. ASSUME NEW k \in Nat, NEW l \in Nat, k <= l
      PROVE  /\ Cardinality(A(k)) \in Nat /\ Cardinality(A(l)) \in Nat
             /\ Cardinality(A(k)) <= Cardinality(A(l))
  <2>1. IsFiniteSet(1..l)
    BY FS_Interval
  <2>2. A(l) \in SUBSET (1..l) /\ A(k) \in SUBSET A(l)
    BY <1>1
  <2> HIDE DEF A
  <2>3. IsFiniteSet(A(l)) /\ IsFiniteSet(A(k)) /\ Cardinality(A(k)) <= Cardinality(A(l))
    BY <2>1, <2>2, FS_Subset
  <2> QED BY <2>3, FS_CardinalityType
<1>2. /\ Rank(s, p, i) \in Nat /\ Rank(s, p, j) \in Nat
      /\ Rank(s, p, i) <= Rank(s, p, j)
  BY <1>1 DEF Rank
<1>3. Rank(s, p, i) <= Rank(s, p, j - 1)
  BY <1>1 DEF Rank
<1>4. j \in Kept(s, p) => Rank(s, p, j) = Rank(s, p, j - 1) + 1
  BY RankStep
<1>5. Rank(s, p, j - 1) \in Nat
  <2>1. Rank(s, p, j - 1) = Cardinality(A(j - 1))
    BY DEF Rank
  <2>2. j \in Nat /\ j - 1 \in Nat /\ j - 1 <= j
    OBVIOUS
  <2> HIDE DEF A
  <2> QED BY <1>1, <2>1, <2>2
<1> QED BY <1>2, <1>3, <1>4, <1>5

\* Every rank up to the last one is the rank of exactly one kept position.
LEMMA RankUnique ==
  ASSUME NEW S, NEW s \in Seq(S), NEW p,
         NEW i \in Kept(s, p), NEW j \in Kept(s, p), Rank(s, p, i) = Rank(s, p, j)
  PROVE  i = j
<1>1. i \in Nat /\ j \in Nat
  BY LenProperties DEF Kept
<1>2. ~(i < j)
  <2> SUFFICES ASSUME i < j PROVE FALSE
    OBVIOUS
  <2>1. Rank(s, p, i) < Rank(s, p, j) /\ Rank(s, p, i) \in Nat
    BY <1>1, RankMonotonic
  <2> QED BY <2>1
<1>3. ~(j < i)
  <2> SUFFICES ASSUME j < i PROVE FALSE
    OBVIOUS
  <2>1. Rank(s, p, j) < Rank(s, p, i) /\ Rank(s, p, j) \in Nat
    BY <1>1, RankMonotonic
  <2> QED BY <2>1
<1> QED BY <1>1, <1>2, <1>3

LEMMA RankReached ==
  ASSUME NEW S, NEW s \in Seq(S), NEW p, NEW k \in 1..Cardinality(Kept(s, p))
  PROVE  \E i \in Kept(s, p) : Rank(s, p, i) = k
<1>1. Kept(s, p) \in SUBSET (1..Len(s)) /\ Len(s) \in Nat
  BY LenProperties DEF Kept
<1>2. Rank(s, p, Len(s)) = Cardinality(Kept(s, p))
  <2>1. {j \in 1..Len(s) : j \in Kept(s, p)} = Kept(s, p)
    BY <1>1
  <2> QED BY <2>1 DEF Rank
<1>3. Rank(s, p, 0) = 0
  <2>1. {j \in 1..0 : j \in Kept(s, p)} = {}
    OBVIOUS
  <2> QED BY <2>1, FS_EmptySet DEF Rank
<1>4. IsFiniteSet(Kept(s, p)) /\ Cardinality(Kept(s, p)) \in Nat
  BY KeptFinite
<1> DEFINE T == {i \in Nat : Rank(s, p, i) >= k}
<1>5. Len(s) \in T
  BY <1>1, <1>2, <1>4
<1>6. PICK i \in T : \A y \in T : i <= y
  <2>1. T \in SUBSET Nat
    OBVIOUS
  <2> HIDE DEF T
  <2> QED BY <1>5, <2>1, LeastNatural
<1>7. i \in Nat \ {0} /\ Rank(s, p, i) >= k
  BY <1>3, <1>4, <1>6
<1>8. ~(Rank(s, p, i - 1) >= k)
  BY <1>6, <1>7
<1>9. /\ Rank(s, p, i) \in Nat /\ Rank(s, p, i - 1) \in Nat
      /\ Rank(s, p, i) = IF i \in Kept(s, p) THEN Rank(s, p, i - 1) + 1
                                            ELSE Rank(s, p, i - 1)
  BY <1>7, RankStep
<1>10. k \in Nat
  BY <1>4
<1> QED BY <1>7, <1>8, <1>9, <1>10

----------------------------------------------------------------------------
\* mlist_remove: every element of the result was in the list and is not the
\* removed one, nothing else is lost, and an increasing list stays increasing.
THEOREM WithoutProperties ==
  ASSUME NEW S, NEW s \in Seq(S), NEW p
  PROVE  /\ Without(s, p) \in Seq(S)
         /\ Range(Without(s, p)) = Range(s) \ {p}
<1> DEFINE n == Cardinality(Kept(s, p))
           at(k) == CHOOSE i \in Kept(s, p) : Rank(s, p, i) = k
<1>1. Kept(s, p) \in SUBSET (1..Len(s)) /\ Len(s) \in Nat
  BY LenProperties DEF Kept
<1>2. IsFiniteSet(Kept(s, p)) /\ n \in Nat
  BY KeptFinite
<1>3. \A k \in 1..n : at(k) \in Kept(s, p) /\ Rank(s, p, at(k)) = k
  BY RankReached
<1>4. \A i \in Kept(s, p) : s[i] \in S /\ s[i] # p
  BY <1>1, ElementOfSeq DEF Kept
<1>5. Without(s, p) = [k \in 1..n |-> s[at(k)]]
  BY DEF Without
<1>6. Without(s, p) \in Seq(S)
  <2> HIDE DEF at, n
  <2>1. Without(s, p) \in [1..n -> S]
    BY <1>3, <1>4, <1>5
  <2> QED BY <1>2, <2>1, SeqDef
<1>7. Range(Without(s, p)) \subseteq Range(s) \ {p}
  <2> HIDE DEF at, n
  <2> QED BY <1>1, <1>3, <1>4, <1>5, LenProperties DEF Range
<1>8. ASSUME NEW i \in Kept(s, p) PROVE s[i] \in Range(Without(s, p))
  <2>1. Rank(s, p, i) \in 1..n
    <3>1. i \in Nat \ {0} /\ i <= Len(s)
      BY <1>1
    <3>2. Rank(s, p, Len(s)) = n
      <4>1. {j \in 1..Len(s) : j \in Kept(s, p)} = Kept(s, p)
        BY <1>1
      <4> QED BY <4>1 DEF Rank
    <3>3. Rank(s, p, i) \in Nat /\ Rank(s, p, i) >= 1
      BY <3>1, RankStep
    <3>4. Rank(s, p, i) <= n
      BY <1>1, <1>2, <3>1, <3>2, <3>3, RankMonotonic
    <3> QED BY <1>2, <3>3, <3>4
  <2>2. at(Rank(s, p, i)) = i
    BY <1>3, <2>1, RankUnique
  <2> HIDE DEF at, n
  <2> QED BY <1>5, <2>1, <2>2 DEF Range
<1>9. Range(s) \ {p} \subseteq Range(Without(s, p))
  BY <1>8 DEF Range, Kept
<1> QED BY <1>6, <1>7, <1>9

THEOREM WithoutIncreasing ==
  ASSUME NEW s \in Seq(Int), NEW p, Increasing(s)
  PROVE  Increasing(Without(s, p))
<1> DEFINE n == Cardinality(Kept(s, p))
           at(k) == CHOOSE i \in Kept(s, p) : Rank(s, p, i) = k
<1>1. \A k \in 1..n : at(k) \in Kept(s, p) /\ Rank(s, p, at(k)) = k
  BY RankReached
<1>2. Kept(s, p) \in SUBSET (1..Len(s)) /\ Len(s) \in Nat /\ DOMAIN s = 1..Len(s)
  BY LenProperties DEF Kept
<1>3. IsFiniteSet(Kept(s, p)) /\ n \in Nat
  BY KeptFinite
<1>4. ASSUME NEW k \in 1..n, NEW l \in 1..n, k < l PROVE at(k) < at(l)
  <2> DEFINE i == at(k)  j == at(l)
  <2>1. i \in Kept(s, p) /\ j \in Kept(s, p) /\ Rank(s, p, i) = k /\ Rank(s, p, j) = l
    BY <1>1
  <2>2. i \in Nat /\ j \in Nat /\ k \in Nat /\ l \in Nat
    BY <1>2, <1>3, <2>1
  <2> HIDE DEF i, j
  <2>3. i # j
    BY <1>4, <2>1, <2>2
  <2>4. ~(j < i)
    BY <1>4, <2>1, <2>2, RankMonotonic
  <2>5. i < j
    BY <2>2, <2>3, <2>4
  <2> QED BY <2>5 DEF i, j
<1>5. Without(s, p) = [k \in 1..n |-> s[at(k)]]
  BY DEF Without
<1> HIDE DEF at, n
<1> QED BY <1>1, <1>2, <1>4, <1>5 DEF Increasing

----------------------------------------------------------------------------
(* mlist_append, and mlist_pop of the first and of any position.           *)

THEOREM AppendedList ==
  ASSUME NEW S, NEW s \in Seq(S), NEW x \in S
  PROVE  /\ Append(s, x) \in Seq(S)
         /\ Range(Append(s, x)) = Range(s) \cup {x}
<1>1. /\ Append(s, x) \in Seq(S) /\ Len(Append(s, x)) = Len(s) + 1
      /\ \A i \in 1..Len(s) : Append(s, x)[i] = s[i]
      /\ Append(s, x)[Len(s) + 1] = x
  BY AppendProperties
<1>2. DOMAIN s = 1..Len(s) /\ DOMAIN Append(s, x) = 1..(Len(s) + 1) /\ Len(s) \in Nat
  BY <1>1, LenProperties
<1> QED BY <1>1, <1>2 DEF Range

THEOREM AppendedIncreasing ==
  ASSUME NEW s \in Seq(Int), NEW x \in Int, Increasing(s), \A y \in Range(s) : y < x
  PROVE  Increasing(Append(s, x))
<1>1. /\ Append(s, x) \in Seq(Int) /\ Len(Append(s, x)) = Len(s) + 1
      /\ \A i \in 1..Len(s) : Append(s, x)[i] = s[i]
      /\ Append(s, x)[Len(s) + 1] = x
  BY AppendProperties
<1>2. DOMAIN s = 1..Len(s) /\ DOMAIN Append(s, x) = 1..(Len(s) + 1) /\ Len(s) \in Nat
  BY <1>1, LenProperties
<1>3. \A i \in 1..Len(s) : s[i] < x
  BY <1>2 DEF Range
<1> QED BY <1>1, <1>2, <1>3 DEF Increasing

THEOREM TailList ==
  ASSUME NEW S, NEW s \in Seq(S), s # <<>>
  PROVE  /\ Head(s) \in S /\ Head(s) \in Range(s)
         /\ Tail(s) \in Seq(S) /\ Range(Tail(s)) \subseteq Range(s)
<1>1. /\ Head(s) \in S /\ Tail(s) \in Seq(S) /\ Len(Tail(s)) = Len(s) - 1
      /\ \A i \in 1..Len(Tail(s)) : Tail(s)[i] = s[i + 1]
  BY HeadTailProperties
<1>2. DOMAIN s = 1..Len(s) /\ DOMAIN Tail(s) = 1..(Len(s) - 1) /\ Len(s) \in Nat \ {0}
  BY <1>1, LenProperties, EmptySeq
<1>3. Head(s) = s[1]
  OBVIOUS
<1> QED BY <1>1, <1>2, <1>3 DEF Range

THEOREM TailIncreasing ==
  ASSUME NEW s \in Seq(Int), s # <<>>, Increasing(s)
  PROVE  Increasing(Tail(s)) /\ \A y \in Range(Tail(s)) : Head(s) < y
<1>1. /\ Tail(s) \in Seq(Int) /\ Len(Tail(s)) = Len(s) - 1
      /\ \A i \in 1..Len(Tail(s)) : Tail(s)[i] = s[i + 1]
  BY HeadTailProperties
<1>2. DOMAIN s = 1..Len(s) /\ DOMAIN Tail(s) = 1..(Len(s) - 1) /\ Len(s) \in Nat \ {0}
  BY <1>1, LenProperties, EmptySeq
<1>3. Head(s) = s[1]
  OBVIOUS
<1>4. ASSUME NEW a \in 1..Len(s), NEW b \in 1..Len(s), a < b PROVE s[a] < s[b]
  BY <1>2, <1>4 DEF Increasing
<1>5. ASSUME NEW i \in 1..(Len(s) - 1), NEW j \in 1..(Len(s) - 1), i < j
      PROVE  Tail(s)[i] < Tail(s)[j]
  <2>1. i + 1 \in 1..Len(s) /\ j + 1 \in 1..Len(s) /\ i + 1 < j + 1
    BY <1>2, <1>5
  <2> QED BY <1>1, <1>4, <2>1
<1>6. ASSUME NEW i \in 1..(Len(s) - 1) PROVE Head(s) < Tail(s)[i]
  <2>1. 1 \in 1..Len(s) /\ i + 1 \in 1..Len(s) /\ 1 < i + 1
    BY <1>2
  <2> QED BY <1>1, <1>3, <1>4, <2>1
<1> QED BY <1>2, <1>5, <1>6 DEF Range, Increasing

THEOREM PoppedList ==
  ASSUME NEW S, NEW s \in Seq(S), NEW i \in DOMAIN s
  PROVE  /\ s[i] \in S
         /\ Popped(s, i) \in Seq(S) /\ Range(Popped(s, i)) \subseteq Range(s)
<1>1. DOMAIN s = 1..Len(s) /\ Len(s) \in Nat \ {0} /\ s \in [1..Len(s) -> S]
  BY LenProperties
<1>2. Popped(s, i) \in [1..(Len(s) - 1) -> S] /\ Len(s) - 1 \in Nat
  BY <1>1 DEF Popped
<1>3. Popped(s, i) \in Seq(S)
  BY <1>2, SeqDef
<1> QED BY <1>1, <1>3 DEF Popped, Range

THEOREM PoppedIncreasing ==
  ASSUME NEW s \in Seq(Int), NEW i \in DOMAIN s, Increasing(s)
  PROVE  Increasing(Popped(s, i))
<1>1. DOMAIN s = 1..Len(s) /\ Len(s) \in Nat \ {0} /\ s \in [1..Len(s) -> Int]
  BY LenProperties
<1>2. DOMAIN Popped(s, i) = 1..(Len(s) - 1)
  BY DEF Popped
<1>3. \A k \in 1..(Len(s) - 1) : Popped(s, i)[k] = IF k < i THEN s[k] ELSE s[k + 1]
  BY DEF Popped
<1>4. ASSUME NEW a \in 1..Len(s), NEW b \in 1..Len(s), a < b PROVE s[a] < s[b]
  BY <1>1, <1>4 DEF Increasing
<1>5. ASSUME NEW k \in 1..(Len(s) - 1), NEW l \in 1..(Len(s) - 1), k < l
      PROVE  Popped(s, i)[k] < Popped(s, i)[l]
  <2>1. /\ k \in 1..Len(s) /\ l \in 1..Len(s) /\ k + 1 \in 1..Len(s) /\ l + 1 \in 1..Len(s)
        /\ k < l + 1 /\ k + 1 < l + 1 /\ i \in Int
    BY <1>1, <1>5
  <2>2. CASE k < i
    BY <1>3, <1>4, <1>5, <2>1, <2>2
  <2>3. CASE ~(k < i)
    <3>1. ~(l < i)
      BY <1>5, <2>1, <2>3
    <3> QED BY <1>3, <1>4, <2>1, <2>3, <3>1
  <2> QED BY <2>2, <2>3
<1> QED BY <1>2, <1>5 DEF Increasing

----------------------------------------------------------------------------
(* Lists in which no element is twice.                                     *)

THEOREM AppendedInjective ==
  ASSUME NEW S, NEW s \in Seq(S), NEW x \in S, IsInjective(s), x \notin Range(s)
  PROVE  IsInjective(Append(s, x))
<1>1. /\ Append(s, x) \in Seq(S) /\ Len(Append(s, x)) = Len(s) + 1
      /\ \A i \in 1..Len(s) : Append(s, x)[i] = s[i]
      /\ Append(s, x)[Len(s) + 1] = x
  BY AppendProperties
<1>2. DOMAIN s = 1..Len(s) /\ DOMAIN Append(s, x) = 1..(Len(s) + 1) /\ Len(s) \in Nat
  BY <1>1, LenProperties
<1>3. \A i \in 1..Len(s) : s[i] # x
  BY <1>2 DEF Range
<1> QED BY <1>1, <1>2, <1>3 DEF IsInjective

THEOREM TailInjective ==
  ASSUME NEW S, NEW s \in Seq(S), s # <<>>, IsInjective(s)
  PROVE  IsInjective(Tail(s)) /\ Range(Tail(s)) = Range(s) \ {Head(s)}
<1>1. /\ Tail(s) \in Seq(S) /\ Len(Tail(s)) = Len(s) - 1
      /\ \A i \in 1..Len(Tail(s)) : Tail(s)[i] = s[i + 1]
  BY HeadTailProperties
<1>2. DOMAIN s = 1..Len(s) /\ DOMAIN Tail(s) = 1..(Len(s) - 1) /\ Len(s) \in Nat \ {0}
  BY <1>1, LenProperties, EmptySeq
<1>3. Head(s) = s[1]
  OBVIOUS
<1>4. \A i, j \in 1..Len(s) : s[i] = s[j] => i = j
  BY <1>2 DEF IsInjective
<1>5. IsInjective(Tail(s))
  <2>1. \A i \in 1..(Len(s) - 1) : i + 1 \in 1..Len(s)
    BY <1>2
  <2>2. \A i, j \in 1..(Len(s) - 1) : i + 1 = j + 1 => i = j
    BY <1>2
  <2> QED BY <1>1, <1>2, <1>4, <2>1, <2>2 DEF IsInjective
<1>6. ASSUME NEW i \in 1..(Len(s) - 1) PROVE Tail(s)[i] \in Range(s) \ {Head(s)}
  <2>1. i + 1 \in 1..Len(s) /\ 1 \in 1..Len(s) /\ i + 1 # 1
    BY <1>2
  <2> QED BY <1>1, <1>2, <1>3, <1>4, <2>1 DEF Range
<1>7. ASSUME NEW i \in 1..Len(s), s[i] # Head(s) PROVE s[i] \in Range(Tail(s))
  <2>1. i - 1 \in 1..(Len(s) - 1) /\ (i - 1) + 1 = i
    BY <1>2, <1>3, <1>7
  <2>2. Tail(s)[i - 1] = s[i]
    BY <1>1, <2>1
  <2> QED BY <1>2, <2>1, <2>2 DEF Range
<1>8. Range(Tail(s)) \subseteq Range(s) \ {Head(s)}
  BY <1>2, <1>6 DEF Range
<1>9. Range(s) \ {Head(s)} \subseteq Range(Tail(s))
  BY <1>2, <1>7 DEF Range
<1> QED BY <1>5, <1>8, <1>9

THEOREM PoppedInjective ==
  ASSUME NEW S, NEW s \in Seq(S), NEW i \in DOMAIN s, IsInjective(s)
  PROVE  IsInjective(Popped(s, i)) /\ Range(Popped(s, i)) = Range(s) \ {s[i]}
<1>1. DOMAIN s = 1..Len(s) /\ Len(s) \in Nat \ {0} /\ i \in 1..Len(s)
  BY LenProperties
<1>2. /\ DOMAIN Popped(s, i) = 1..(Len(s) - 1)
      /\ \A k \in 1..(Len(s) - 1) : Popped(s, i)[k] = IF k < i THEN s[k] ELSE s[k + 1]
  BY DEF Popped
<1>3. \A j, k \in 1..Len(s) : s[j] = s[k] => j = k
  BY <1>1 DEF IsInjective
<1> DEFINE up(k) == IF k < i THEN k ELSE k + 1
<1>4. \A k \in 1..(Len(s) - 1) : /\ up(k) \in 1..Len(s) /\ up(k) # i
                                  /\ Popped(s, i)[k] = s[up(k)]
  BY <1>1, <1>2
<1>5. \A j, k \in 1..(Len(s) - 1) : up(j) = up(k) => j = k
  BY <1>1
<1>6. \A j \in 1..Len(s) : j # i => \E k \in 1..(Len(s) - 1) : up(k) = j
  <2> SUFFICES ASSUME NEW j \in 1..Len(s), j # i PROVE \E k \in 1..(Len(s) - 1) : up(k) = j
    OBVIOUS
  <2>1. CASE j < i
    BY <1>1, <2>1
  <2>2. CASE ~(j < i)
    <3>1. j - 1 \in 1..(Len(s) - 1) /\ ~(j - 1 < i) /\ (j - 1) + 1 = j
      BY <1>1, <2>2
    <3> QED BY <3>1
  <2> QED BY <2>1, <2>2
<1> HIDE DEF up
<1>7. IsInjective(Popped(s, i))
  BY <1>2, <1>3, <1>4, <1>5 DEF IsInjective
<1>8. Range(Popped(s, i)) \subseteq Range(s) \ {s[i]}
  BY <1>1, <1>2, <1>3, <1>4 DEF Range
<1>9. Range(s) \ {s[i]} \subseteq Range(Popped(s, i))
  <2> SUFFICES ASSUME NEW j \in 1..Len(s), s[j] # s[i] PROVE s[j] \in Range(Popped(s, i))
    BY <1>1 DEF Range
  <2>1. PICK k \in 1..(Len(s) - 1) : up(k) = j
    BY <1>6
  <2> QED BY <1>2, <1>4, <2>1 DEF Range
<1> QED BY <1>7, <1>8, <1>9

\* An increasing list has no element twice.
THEOREM IncreasingInjective ==
  ASSUME NEW s \in Seq(Int), Increasing(s)
  PROVE  IsInjective(s)
<1>1. DOMAIN s = 1..Len(s) /\ Len(s) \in Nat /\ s \in [1..Len(s) -> Int]
  BY LenProperties
<1> SUFFICES ASSUME NEW i \in 1..Len(s), NEW j \in 1..Len(s), s[i] = s[j], i # j
             PROVE  FALSE
  BY <1>1 DEF IsInjective
<1>2. i < j \/ j < i
  BY <1>1
<1>3. s[i] < s[j] \/ s[j] < s[i]
  BY <1>1, <1>2 DEF Increasing
<1>4. s[i] \in Int /\ s[j] \in Int
  BY <1>1
<1> QED BY <1>3, <1>4

----------------------------------------------------------------------------
(* More of mlist_remove.                                                   *)

LEMMA CountTo ==
  ASSUME NEW n \in Nat
  PROVE  IsFiniteSet(1..n) /\ Cardinality(1..n) = n
<1>1. 1 \in Int /\ n \in Int
  OBVIOUS
<1>2. /\ IsFiniteSet(1..n)
      /\ Cardinality(1..n) = IF 1 > n THEN 0 ELSE n - 1 + 1
  BY <1>1, FS_Interval
<1> QED BY <1>2

\* What each position of the result was before.
Source(s, p, k) == CHOOSE i \in Kept(s, p) : Rank(s, p, i) = k

LEMMA WithoutFrom ==
  ASSUME NEW S, NEW s \in Seq(S), NEW p
  PROVE  /\ Cardinality(Kept(s, p)) \in Nat /\ Cardinality(Kept(s, p)) <= Len(s)
         /\ DOMAIN Without(s, p) = 1..Cardinality(Kept(s, p))
         /\ Len(Without(s, p)) = Cardinality(Kept(s, p))
         /\ \A k \in 1..Cardinality(Kept(s, p)) :
              /\ Source(s, p, k) \in Kept(s, p) /\ Rank(s, p, Source(s, p, k)) = k
              /\ Without(s, p)[k] = s[Source(s, p, k)]
<1> DEFINE n == Cardinality(Kept(s, p))
<1>1. \A k \in 1..n : Source(s, p, k) \in Kept(s, p) /\ Rank(s, p, Source(s, p, k)) = k
  BY RankReached DEF Source
<1>2. Without(s, p) = [k \in 1..n |-> s[Source(s, p, k)]]
  BY DEF Without, Source
<1>3. n \in Nat
  BY KeptFinite
<1>4. n <= Len(s)
  <2>1. Kept(s, p) \in SUBSET (1..Len(s)) /\ Len(s) \in Nat
    BY LenProperties DEF Kept
  <2>2. IsFiniteSet(1..Len(s)) /\ Cardinality(1..Len(s)) = Len(s)
    BY <2>1, CountTo
  <2>3. Cardinality(Kept(s, p)) <= Cardinality(1..Len(s))
    BY <2>1, <2>2, FS_Subset
  <2> QED BY <2>2, <2>3
<1>5. Without(s, p) \in Seq(S)
  BY WithoutProperties
<1> HIDE DEF n
<1>6. DOMAIN Without(s, p) = 1..n
  BY <1>2
<1>7. Len(Without(s, p)) = n
  <2>1. DOMAIN Without(s, p) = 1..Len(Without(s, p)) /\ Len(Without(s, p)) \in Nat
    BY <1>5, LenProperties
  <2> QED BY <1>3, <1>6, <2>1
<1>8. \A k \in 1..n : Without(s, p)[k] = s[Source(s, p, k)]
  BY <1>2
<1> QED BY <1>1, <1>3, <1>4, <1>6, <1>7, <1>8 DEF n

THEOREM WithoutInjective ==
  ASSUME NEW S, NEW s \in Seq(S), NEW p, IsInjective(s)
  PROVE  IsInjective(Without(s, p))
<1> DEFINE n == Cardinality(Kept(s, p))
<1>1. /\ DOMAIN Without(s, p) = 1..n
      /\ \A k \in 1..n : /\ Source(s, p, k) \in Kept(s, p) /\ Rank(s, p, Source(s, p, k)) = k
                         /\ Without(s, p)[k] = s[Source(s, p, k)]
  BY WithoutFrom
<1> HIDE DEF n
<1>2. Kept(s, p) \subseteq DOMAIN s
  BY DEF Kept
<1> SUFFICES ASSUME NEW k \in 1..n, NEW l \in 1..n, Without(s, p)[k] = Without(s, p)[l]
             PROVE  k = l
  BY <1>1 DEF IsInjective
<1>3. Source(s, p, k) = Source(s, p, l)
  BY <1>1, <1>2 DEF IsInjective
<1> QED BY <1>1, <1>3

THEOREM WithoutAbsent ==
  ASSUME NEW S, NEW s \in Seq(S), NEW p, p \notin Range(s)
  PROVE  Without(s, p) = s
<1>1. DOMAIN s = 1..Len(s) /\ Len(s) \in Nat
  BY LenProperties
<1>2. Kept(s, p) = 1..Len(s)
  BY <1>1 DEF Kept, Range
<1>3. Cardinality(Kept(s, p)) = Len(s)
  BY <1>1, <1>2, CountTo
<1>4. ASSUME NEW k \in 1..Len(s) PROVE Source(s, p, k) = k
  <2>1. {j \in 1..k : j \in Kept(s, p)} = 1..k
    BY <1>1, <1>2
  <2>2. Rank(s, p, k) = Cardinality(1..k)
    BY <2>1 DEF Rank
  <2>3. Rank(s, p, k) = k
    BY <1>1, <2>2, CountTo
  <2>4. Source(s, p, k) \in Kept(s, p) /\ Rank(s, p, Source(s, p, k)) = k
    BY <1>3, WithoutFrom
  <2> QED BY <1>2, <2>3, <2>4, RankUnique
<1>5. Without(s, p) = [k \in 1..Len(s) |-> s[Source(s, p, k)]]
  BY <1>3 DEF Without, Source
<1>6. Without(s, p) = [k \in 1..Len(s) |-> s[k]]
  BY <1>4, <1>5
<1>7. s = [k \in 1..Len(s) |-> s[k]]
  BY <1>1, LenProperties
<1> QED BY <1>6, <1>7

THEOREM WithoutLength ==
  ASSUME NEW S, NEW s \in Seq(S), NEW p
  PROVE  Len(Without(s, p)) \in Nat /\ Len(Without(s, p)) <= Len(s)
BY WithoutFrom

\* What stays of s and t was at the same positions of both.
InStep(s, p, t, c) ==
  /\ Len(Without(s, p)) = Len(Without(t, c))
  /\ \A k \in 1..Len(Without(s, p)) : \E i \in 1..Len(s) :
       s[i] # p /\ Without(s, p)[k] = s[i] /\ Without(t, c)[k] = t[i]

\* Two lists whose elements are removed at the same positions stay in step.
THEOREM WithoutInStep ==
  ASSUME NEW S, NEW s \in Seq(S), NEW T, NEW t \in Seq(T), NEW p, NEW c,
         Len(s) = Len(t), \A i \in 1..Len(s) : s[i] = p <=> t[i] = c
  PROVE  InStep(s, p, t, c)
<1>1. DOMAIN s = 1..Len(s) /\ DOMAIN t = 1..Len(s)
  BY LenProperties
<1>2. Kept(s, p) = Kept(t, c)
  BY <1>1 DEF Kept
<1>3. \A i : Rank(s, p, i) = Rank(t, c, i)
  BY <1>2 DEF Rank
<1>4. \A k : Source(s, p, k) = Source(t, c, k)
  BY <1>2, <1>3 DEF Source
<1> DEFINE n == Cardinality(Kept(s, p))
<1>5. /\ Len(Without(s, p)) = n
      /\ \A k \in 1..n : Source(s, p, k) \in Kept(s, p) /\ Without(s, p)[k] = s[Source(s, p, k)]
  BY WithoutFrom
<1>6. /\ Len(Without(t, c)) = Cardinality(Kept(t, c))
      /\ \A k \in 1..Cardinality(Kept(t, c)) : Without(t, c)[k] = t[Source(t, c, k)]
  BY WithoutFrom
<1>7. \A i \in Kept(s, p) : i \in 1..Len(s) /\ s[i] # p
  BY <1>1 DEF Kept
<1> QED BY <1>2, <1>4, <1>5, <1>6, <1>7 DEF InStep

THEOREM PoppedLength ==
  ASSUME NEW S, NEW s \in Seq(S), NEW i \in DOMAIN s
  PROVE  Len(Popped(s, i)) \in Nat /\ Len(Popped(s, i)) <= Len(s)
<1>1. DOMAIN s = 1..Len(s) /\ Len(s) \in Nat \ {0}
  BY LenProperties
<1>2. DOMAIN Popped(s, i) = 1..(Len(s) - 1) /\ Len(s) - 1 \in Nat
  BY <1>1 DEF Popped
<1>3. Len(Popped(s, i)) = Len(s) - 1
  <2>1. Popped(s, i) \in Seq(S)
    BY PoppedList
  <2>2. DOMAIN Popped(s, i) = 1..Len(Popped(s, i)) /\ Len(Popped(s, i)) \in Nat
    BY <2>1, LenProperties
  <2> QED BY <1>2, <2>2
<1> QED BY <1>1, <1>3
----------------------------------------------------------------------------
(* remove_node of a node that is still in its list.                        *)

\* It is what popping some position of the element does.
THEOREM RemovedPops ==
  ASSUME NEW S, NEW s \in Seq(S), NEW p \in Range(s)
  PROVE  \E i \in DOMAIN s : s[i] = p /\ Removed(s, p) = Popped(s, i)
<1>1. \E i \in DOMAIN s : s[i] = p
  BY DEF Range
<1> DEFINE i == CHOOSE i \in DOMAIN s : s[i] = p
<1>2. i \in DOMAIN s /\ s[i] = p
  BY <1>1
<1>3. Removed(s, p) = Popped(s, i)
  BY DEF Removed
<1> HIDE DEF i
<1> QED BY <1>2, <1>3

THEOREM RemovedList ==
  ASSUME NEW S, NEW s \in Seq(S), NEW p \in Range(s)
  PROVE  /\ p \in S
         /\ Removed(s, p) \in Seq(S) /\ Range(Removed(s, p)) \subseteq Range(s)
         /\ Len(Removed(s, p)) \in Nat /\ Len(Removed(s, p)) <= Len(s)
<1>1. PICK i \in DOMAIN s : s[i] = p /\ Removed(s, p) = Popped(s, i)
  BY RemovedPops
<1>2. /\ s[i] \in S
      /\ Popped(s, i) \in Seq(S) /\ Range(Popped(s, i)) \subseteq Range(s)
  BY PoppedList
<1>3. Len(Popped(s, i)) \in Nat /\ Len(Popped(s, i)) <= Len(s)
  BY PoppedLength
<1> QED BY <1>1, <1>2, <1>3

THEOREM RemovedIncreasing ==
  ASSUME NEW s \in Seq(Int), NEW p \in Range(s), Increasing(s)
  PROVE  Increasing(Removed(s, p))
<1>1. PICK i \in DOMAIN s : s[i] = p /\ Removed(s, p) = Popped(s, i)
  BY RemovedPops
<1> QED BY <1>1, PoppedIncreasing

THEOREM RemovedInjective ==
  ASSUME NEW S, NEW s \in Seq(S), NEW p \in Range(s), IsInjective(s)
  PROVE  IsInjective(Removed(s, p)) /\ Range(Removed(s, p)) = Range(s) \ {p}
<1>1. PICK i \in DOMAIN s : s[i] = p /\ Removed(s, p) = Popped(s, i)
  BY RemovedPops
<1> QED BY <1>1, PoppedInjective

\* In a list in ascending order the node with the least element is the first.
THEOREM RemovedFirst ==
  ASSUME NEW s \in Seq(Int), NEW p \in Range(s), Increasing(s), \A q \in Range(s) : p <= q
  PROVE  s # <<>> /\ p = Head(s) /\ Removed(s, p) = Tail(s)
<1>1. PICK i \in DOMAIN s : s[i] = p /\ Removed(s, p) = Popped(s, i)
  BY RemovedPops
<1>2. DOMAIN s = 1..Len(s) /\ Len(s) \in Nat \ {0} /\ s \in [1..Len(s) -> Int]
  BY LenProperties
<1>3. s # <<>>
  BY <1>2
<1>4. i = 1
  <2> SUFFICES ASSUME i # 1 PROVE FALSE
    OBVIOUS
  <2>1. 1 \in DOMAIN s /\ 1 < i /\ s[1] \in Int /\ s[i] \in Int
    BY <1>2
  <2>2. s[1] < s[i]
    BY <2>1 DEF Increasing
  <2>3. p <= s[1]
    BY <2>1 DEF Range
  <2> QED BY <1>1, <2>1, <2>2, <2>3
<1>5. Head(s) = s[1]
  BY <1>3
<1>6. /\ Tail(s) \in Seq(Int) /\ Len(Tail(s)) = Len(s) - 1
      /\ \A k \in 1..Len(Tail(s)) : Tail(s)[k] = s[k + 1]
  BY <1>3, HeadTailProperties
<1>7. DOMAIN Tail(s) = 1..(Len(s) - 1) /\ Tail(s) = [k \in 1..(Len(s) - 1) |-> s[k + 1]]
  BY <1>6, <1>2, LenProperties
<1>8. \A k \in 1..(Len(s) - 1) : ~(k < 1)
  OBVIOUS
<1>9. Popped(s, 1) = [k \in 1..(Len(s) - 1) |-> s[k + 1]]
  BY <1>8 DEF Popped
<1> QED BY <1>1, <1>3, <1>4, <1>5, <1>7, <1>9
=============================================================================
