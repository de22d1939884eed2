--------------------------- MODULE IntervalFacts ---------------------------
(***************************************************************************)
(* Facts about finite sets of natural numbers that the proofs share: least *)
(* and greatest members, and the ranks of members.  What would be an       *)
(* induction over the numbers is a choice of a least counterexample here.  *)
(***************************************************************************)
EXTENDS Integers, FiniteSetsExt, FiniteSetTheorems, TLAPS

\* A nonempty set of naturals has a least element.
LEMMA Least ==
    ASSUME NEW S \in SUBSET Nat, S # {}
    PROVE  \E x \in S : \A y \in S : x <= y
<1>1. PICK x \in S : \A y \in S : ~ (<<y, x>> \in OpToRel(<, Nat))
  BY NatLessThanWellFounded, WFMin
<1>2. \A y \in S : ~ (y < x)
  BY <1>1 DEF OpToRel
<1> QED BY <1>2

\* A nonempty bounded one has a greatest, which is its Max.
LEMMA Greatest ==
    ASSUME NEW n \in Nat, NEW S \in SUBSET (0 .. n), S # {}
    PROVE  Max(S) \in S /\ \A y \in S : y <= Max(S)
<1> DEFINE T == {n - y : y \in S}
<1>1. PICK x \in T : \A y \in T : x <= y
  <2>1. \A y \in S : n - y \in Nat
    OBVIOUS
  <2>2. T \in SUBSET Nat /\ T # {}
    BY <2>1
  <2> HIDE DEF T
  <2> QED BY <2>2, Least
<1>2. PICK m \in S : x = n - m
  OBVIOUS
<1>3. \A y \in S : m >= y
  BY <1>1, <1>2
<1> QED BY <1>3 DEF Max

\* A bounded set of naturals is finite, with every set of its members.
LEMMA BoundedFinite ==
    ASSUME NEW n \in Nat, NEW S \in SUBSET (1 .. n), NEW T \in SUBSET S
    PROVE  IsFiniteSet(T) /\ Cardinality(T) \in Nat /\ Cardinality(T) <= Cardinality(S)
<1>1. IsFiniteSet(1 .. n)
  BY 1 \in Int, n \in Int, FS_Interval
<1>2. IsFiniteSet(S)
  BY <1>1, FS_Subset
<1>3. IsFiniteSet(T) /\ Cardinality(T) <= Cardinality(S)
  BY <1>2, FS_Subset
<1> QED BY <1>3, FS_CardinalityType

\* Cardinalities of bounded sets of naturals take every value in between: some
\* member has exactly k members from it on.
LEMMA RankReached ==
    ASSUME NEW n \in Nat, NEW S \in SUBSET (1 .. n), NEW k \in 1 .. Cardinality(S)
    PROVE  \E c \in S : Cardinality({d \in S : d >= c}) = k
<1> DEFINE Above(x) == {d \in S : d >= x}
           card(x) == Cardinality(Above(x))
           T == {x \in 0 .. n : card(x + 1) < k}
<1>1. Cardinality(S) \in Nat /\ \A d \in S : d \in Nat /\ 1 <= d /\ d <= n
  <2>1. S \in SUBSET S
    OBVIOUS
  <2>2. Cardinality(S) \in Nat
    BY <2>1, BoundedFinite
  <2> QED BY <2>2
<1>2. \A x : IsFiniteSet(Above(x)) /\ card(x) \in Nat
  <2>1. \A x : Above(x) \in SUBSET S
    OBVIOUS
  <2> HIDE DEF Above
  <2> QED BY <2>1, BoundedFinite
<1>a. \A x : Above(x) \subseteq S /\ \A d \in S : d \in Above(x) <=> d >= x
  OBVIOUS
<1>3. Above(n + 1) = {}
  <2>1. \A d \in S : ~ (d >= n + 1)
    BY <1>1
  <2> QED BY <2>1
<1>4. Above(1) = S
  <2> HIDE DEF Above
  <2>1. \A d \in S : d \in Above(1)
    BY <1>1, <1>a
  <2> QED BY <2>1, <1>a
<1>5. card(n + 1) = 0 /\ card(1) = Cardinality(S)
  BY <1>3, <1>4, FS_EmptySet
<1>6. n \in T /\ T \in SUBSET Nat /\ 0 \notin T
  <2> HIDE DEF card
  <2> QED BY <1>1, <1>5
<1>7. PICK x \in T : \A y \in T : x <= y
  <2> HIDE DEF T
  <2> QED BY <1>6, Least
<1>8. x \in 1 .. n /\ card(x + 1) < k /\ ~ (card(x) < k)
  <2> HIDE DEF card
  <2>1. x \in 1 .. n /\ card(x + 1) < k
    BY <1>6, <1>7
  <2>2. x - 1 \in 0 .. n /\ x - 1 \notin T /\ (x - 1) + 1 = x
    BY <1>7, <2>1
  <2> QED BY <2>1, <2>2
<1>9. x \notin Above(x + 1)
  BY <1>8
<1>10. CASE x \in S
  <2>1. Above(x) = Above(x + 1) \cup {x}
    <3> HIDE DEF Above
    <3>1. \A d \in S : d >= x <=> d >= x + 1 \/ d = x
      BY <1>1, <1>8
    <3> QED BY <3>1, <1>10, <1>a
  <2>2. card(x) = card(x + 1) + 1
    <3> HIDE DEF Above
    <3> QED BY <1>2, <1>9, <2>1, FS_AddElement
  <2>3. card(x) = k
    <3>1. card(x) \in Nat /\ card(x + 1) \in Nat /\ k \in Nat
      BY <1>1, <1>2
    <3> HIDE DEF card
    <3> QED BY <1>8, <2>2, <3>1
  <2> QED BY <1>10, <2>3
<1>11. CASE x \notin S
  <2>1. Above(x) = Above(x + 1)
    <3> HIDE DEF Above
    <3>1. \A d \in S : d >= x <=> d >= x + 1
      BY <1>1, <1>8, <1>11
    <3> QED BY <3>1, <1>a
  <2> QED BY <1>8, <2>1
<1> QED BY <1>10, <1>11

\* And some member has exactly k members up to it.
LEMMA RankBelow ==
    ASSUME NEW n \in Nat, NEW S \in SUBSET (1 .. n), NEW k \in 1 .. Cardinality(S)
    PROVE  \E c \in S : Cardinality({d \in S : d <= c}) = k
<1>1. Cardinality(S) \in Nat /\ IsFiniteSet(S)
  <2>1. S \in SUBSET S
    OBVIOUS
  <2> QED BY <2>1, BoundedFinite
<1>2. Cardinality(S) - k + 1 \in 1 .. Cardinality(S)
  BY <1>1
<1>3. PICK c \in S : Cardinality({d \in S : d >= c}) = Cardinality(S) - k + 1
  BY <1>2, RankReached
<1> DEFINE A == {d \in S : d >= c}
<1>4. {d \in S : d <= c} = (S \ A) \cup {c} /\ S \cap A = A /\ c \in A
  <2>1. \A d \in S : (d <= c <=> ~ (d >= c) \/ d = c) /\ c >= c
    OBVIOUS
  <2> QED BY <2>1
<1>5. IsFiniteSet(S \ A) /\ Cardinality(S \ A) = Cardinality(S) - Cardinality(A)
  <2> HIDE DEF A
  <2> QED BY <1>1, <1>4, FS_Difference
<1>6. Cardinality((S \ A) \cup {c}) = Cardinality(S \ A) + 1
  <2> HIDE DEF A
  <2> QED BY <1>4, <1>5, FS_AddElement
<1>7. Cardinality(A) = Cardinality(S) - k + 1
  BY <1>3
<1> HIDE DEF A
<1>8. Cardinality((S \ A) \cup {c}) = k
  BY <1>1, <1>5, <1>6, <1>7
<1>9. Cardinality({d \in S : d <= c}) = k
  BY <1>4, <1>8
<1> QED BY <1>9

\* Of two members of a set, the greater one has fewer members from it on.
LEMMA RankInjective ==
    ASSUME NEW n \in Nat, NEW S \in SUBSET (1 .. n), NEW c \in S, NEW e \in S,
           Cardinality({d \in S : d >= c}) = Cardinality({d \in S : d >= e})
    PROVE  c = e
<1> DEFINE Above(x) == {d \in S : d >= x}
<1>1. \A x : IsFiniteSet(Above(x))
  BY BoundedFinite
<1>2. \A d \in S : d \in Nat
  OBVIOUS
<1>3. ASSUME NEW a \in S, NEW b \in S, a <= b, Cardinality(Above(a)) = Cardinality(Above(b))
      PROVE  a = b
  <2>1. Above(b) \in SUBSET Above(a) /\ a \in Above(a)
    <3>1. a >= a /\ \A d \in S : d >= b => d >= a
      BY <1>2, <1>3
    <3> QED BY <3>1, Zenon
  <2>2. Above(a) = Above(b)
    <3> HIDE DEF Above
    <3> QED BY <1>1, <1>3, <2>1, FS_Subset
  <2>3. a >= b
    BY <2>1, <2>2
  <2> QED BY <1>2, <1>3, <2>3
<1>4. Cardinality(Above(c)) = Cardinality(Above(e))
  OBVIOUS
<1> HIDE DEF Above
<1>5. c <= e \/ e <= c
  BY <1>2
<1> QED BY <1>3, <1>4, <1>5
=============================================================================
