-------------------------- MODULE PositionsProofs ---------------------------
(***************************************************************************)
(* What remains of a queue, for any queue and any positions.               *)
(***************************************************************************)
EXTENDS Positions, TLAPS, FiniteSetTheorems, WellFoundedInduction

-----------------------------------------------------------------------------
(* Finite sets of positions.  Picked is defined by the rank of what it      *)
(* keeps, so every rank must be taken.                                      *)

\* A non-empty set of positions has a first one.
LEMMA Smallest ==
    ASSUME NEW n \in Nat, NEW S \in SUBSET (1 .. n), S # {}
    PROVE  \E m \in S : \A x \in S : m <= x
<1> DEFINE T == {1 .. m : m \in S}
<1>1. T \subseteq FiniteSubsetsOf(1 .. n)
  <2>1. ASSUME NEW m \in S PROVE 1 .. m \in FiniteSubsetsOf(1 .. n)
    <3>1. m \in 1 .. n /\ 1 .. m \subseteq 1 .. n
      OBVIOUS
    <3>2. IsFiniteSet(1 .. m)
      BY <3>1, FS_Interval
    <3>3. QED BY <3>1, <3>2 DEF FiniteSubsetsOf
  <2>2. QED BY <2>1
<1>2. T # {}
  OBVIOUS
<1>3. \E t \in T : \A u \in T : <<u, t>> \notin StrictSubsetOrdering(1 .. n)
  <2>1. IsWellFoundedOn(StrictSubsetOrdering(1 .. n), FiniteSubsetsOf(1 .. n))
    BY FS_StrictSubsetOrderingWellFounded
  <2>. HIDE DEF T
  <2>2. QED BY <1>1, <1>2, <2>1, WFMin
<1>4. PICK m \in S :
          \A x \in S : <<1 .. x, 1 .. m>> \notin StrictSubsetOrdering(1 .. n)
  BY <1>3
<1>5. ASSUME NEW x \in S, x < m PROVE FALSE
  <2>1. 1 .. x \subseteq 1 .. n /\ 1 .. m \subseteq 1 .. n
    OBVIOUS
  <2>2. 1 .. x \subseteq 1 .. m /\ 1 .. x # 1 .. m
    <3>1. m \in 1 .. m /\ m \notin 1 .. x
      BY <1>5
    <3>2. QED BY <3>1, <1>5
  <2>3. QED BY <1>4, <2>1, <2>2 DEF StrictSubsetOrdering
<1>6. QED BY <1>5

\* A non-empty set of positions has a last one.
LEMMA Largest ==
    ASSUME NEW n \in Nat, NEW S \in SUBSET (1 .. n), S # {}
    PROVE  \E m \in S : \A x \in S : x <= m
<1> DEFINE T == {n + 1 - x : x \in S}
<1>1. T \in SUBSET (1 .. n)
  <2>1. \A x \in S : n + 1 - x \in 1 .. n
    OBVIOUS
  <2>2. QED BY <2>1
<1>2. T # {}
  OBVIOUS
<1>3. PICK t \in T : \A y \in T : t <= y
  <2>. HIDE DEF T
  <2>. QED BY <1>1, <1>2, Smallest
<1>4. PICK m \in S : t = n + 1 - m
  OBVIOUS
<1>5. \A x \in S : n + 1 - m <= n + 1 - x
  BY <1>3, <1>4
<1>6. \A x \in S : x <= m
  BY <1>5
<1>7. QED BY <1>6

\* Counting the elements of K up to i takes every value up to K's size.
LEMMA EveryRankIsTaken ==
    ASSUME NEW n \in Nat, NEW K \in SUBSET (1 .. n),
           NEW k \in 1 .. Cardinality(K)
    PROVE  \E i \in K : Cardinality({j \in K : j <= i}) = k
<1> DEFINE Upto(i) == {j \in K : j <= i}
           S == {i \in K : Cardinality(Upto(i)) >= k}
<1>1. IsFiniteSet(K) /\ Cardinality(K) \in Nat
  <2>1. IsFiniteSet(1 .. n)
    BY FS_Interval
  <2>2. IsFiniteSet(K)
    BY <2>1, FS_Subset
  <2>3. QED BY <2>2, FS_CardinalityType
<1>2. \A i \in K : IsFiniteSet(Upto(i)) /\ Cardinality(Upto(i)) \in Nat
  BY <1>1, FS_Subset, FS_CardinalityType
<1>3. K # {}
  BY FS_EmptySet, <1>1
<1>4. S # {}
  <2>1. PICK m \in K : \A x \in K : x <= m
    BY <1>3, Largest
  <2>2. Upto(m) = K
    BY <2>1
  <2>3. QED BY <2>2, <1>1
<1>5. PICK i \in S : \A x \in S : i <= x
  <2>1. S \in SUBSET (1 .. n)
    OBVIOUS
  <2>. HIDE DEF S
  <2>2. QED BY <1>4, <2>1, Smallest
<1>6. ASSUME Cardinality(Upto(i)) > k PROVE FALSE
  <2> DEFINE L == Upto(i) \ {i}
  <2>1. Cardinality(L) = Cardinality(Upto(i)) - 1 /\ IsFiniteSet(L)
    BY <1>2, FS_RemoveElement
  <2>2. Cardinality(L) >= k
    BY <2>1, <1>2, <1>6
  <2>3. L # {}
    BY <2>1, <2>2, FS_EmptySet
  <2>4. L \in SUBSET (1 .. n)
    OBVIOUS
  <2>5. PICK m \in L : \A x \in L : x <= m
    <3>. HIDE DEF L
    <3>. QED BY <2>3, <2>4, Largest
  <2>6. m \in K /\ m < i
    BY <2>4
  <2>7. Upto(m) = L
    <3>1. ASSUME NEW j \in K, j <= m PROVE j \in L
      BY <3>1, <2>6
    <3>2. ASSUME NEW j \in L PROVE j \in Upto(m)
      BY <3>2, <2>5
    <3>3. QED BY <3>1, <3>2
  <2>8. m \in S
    BY <2>2, <2>6, <2>7
  <2>9. QED BY <1>5, <2>6, <2>8
<1>7. Cardinality(Upto(i)) = k
  BY <1>2, <1>6
<1>8. QED BY <1>7

-----------------------------------------------------------------------------
(* What is picked *)

\* The queue keeps its type and gets no longer, and what is in it was at one of
\* the positions picked.
LEMMA PickedType ==
    ASSUME NEW S, NEW q \in Seq(S), NEW K \in SUBSET DOMAIN q
    PROVE  /\ Picked(q, K) \in Seq(S)
           /\ Len(Picked(q, K)) <= Len(q)
           /\ \A k \in DOMAIN Picked(q, K) :
                 \E i \in K : Picked(q, K)[k] = q[i]
<1> DEFINE c == Cardinality(K)
<1>1. K \in SUBSET (1 .. Len(q)) /\ Len(q) \in Nat
  OBVIOUS
<1>2. c \in Nat /\ c <= Len(q)
  <2>1. \A n \in Nat : IsFiniteSet(1 .. n) /\ Cardinality(1 .. n) = n
    BY FS_Interval
  <2>2. IsFiniteSet(K) /\ Cardinality(K) <= Len(q)
    BY <1>1, <2>1, FS_Subset
  <2>3. QED BY <2>2, FS_CardinalityType
<1>3. ASSUME NEW k \in 1 .. c
      PROVE  Picked(q, K)[k] \in S /\ \E i \in K : Picked(q, K)[k] = q[i]
  <2>1. \E r \in K : Rank(K, r) = k
    <3>1. \E i \in K : Cardinality({j \in K : j <= i}) = k
      BY <1>1, EveryRankIsTaken
    <3>2. QED BY <3>1 DEF Rank
  <2> DEFINE p == CHOOSE i \in K : Rank(K, i) = k
  <2>2. p \in K
    BY <2>1
  <2>3. Picked(q, K)[k] = q[p]
    BY DEF Picked
  <2>4. \A x \in K : q[x] \in S
    OBVIOUS
  <2>. HIDE DEF p
  <2>5. QED BY <2>2, <2>3, <2>4
<1>4. Picked(q, K) = [k \in 1 .. c |-> Picked(q, K)[k]]
  BY DEF Picked
<1>5. Picked(q, K) \in Seq(S) /\ Len(Picked(q, K)) = c
  <2>1. \A k \in 1 .. c : Picked(q, K)[k] \in S
    BY <1>3
  <2>. HIDE DEF c
  <2>2. QED BY <1>2, <1>4, <2>1
<1>6. DOMAIN Picked(q, K) = 1 .. c
  BY <1>4
<1>7. QED BY <1>2, <1>3, <1>5, <1>6
=============================================================================
