-------------------------------- MODULE SetSums --------------------------------
(***************************************************************************)
(* What a sum over a finite set is.  The daily counts of the gold views    *)
(* are such sums; a module that reasons about one instantiates this one    *)
(* with its summand.                                                       *)
(***************************************************************************)
EXTENDS Naturals, FiniteSets, FiniteSetsExt, FiniteSetTheorems, WellFoundedInduction, TLAPS

CONSTANT Weight(_, _)  \* Weight(p, x): what x adds to a sum, p any parameter of it

Total(p, S) == MapThenSumSet(LAMBDA x : Weight(p, x), S)

Pick(s) == CHOOSE x \in s : TRUE

Rest(s) == s \ {Pick(s)}

\* The sums of the subsets in C, each from that of a smaller one.
Sums(p, C, g) == g = [s \in C |-> IF s = {} THEN 0 ELSE Weight(p, Pick(s)) + g[Rest(s)]]

-----------------------------------------------------------------------------
\* Induction

\* A set of numbers with 0 and every successor is the set of all numbers.
LEMMA NatInductive ==
  ASSUME NEW T, T \subseteq Nat, 0 \in T, \A n \in T : n + 1 \in T
  PROVE  \A n \in Nat : n \in T
PROOF
  <1> DEFINE U == Nat \ T
  <1> SUFFICES ASSUME U # {} PROVE FALSE
    OBVIOUS
  <1>1. PICK x \in U : \A y \in U : ~(<<y, x>> \in OpToRel(<, Nat))
    BY NatLessThanWellFounded, WFMin
  <1>2. \A y \in Nat, z \in Nat : y < z => <<y, z>> \in OpToRel(<, Nat)
    BY Zenon DEF OpToRel
  <1>3. \A y \in U : ~(y < x)
    BY <1>1, <1>2
  <1>4. x # 0 /\ x \in Nat
    OBVIOUS
  <1>5. x - 1 \in Nat /\ x - 1 < x /\ (x - 1) + 1 = x
    BY <1>4
  <1>6. x - 1 \in T
    BY <1>3, <1>5
  <1> QED
    BY <1>5, <1>6

\* The rest of a set is smaller.
LEMMA RestFacts ==
  ASSUME NEW s, IsFiniteSet(s), s # {}
  PROVE  /\ Pick(s) \in s
         /\ Rest(s) \subseteq s
         /\ IsFiniteSet(Rest(s))
         /\ Cardinality(s) \in Nat
         /\ Cardinality(s) = Cardinality(Rest(s)) + 1
         /\ Cardinality(Rest(s)) \in Nat
PROOF
  <1>1. Pick(s) \in s
    BY DEF Pick
  <1>2. IsFiniteSet(Rest(s)) /\ Cardinality(Rest(s)) = Cardinality(s) - 1
    BY <1>1, FS_RemoveElement DEF Rest
  <1>3. Cardinality(s) \in Nat /\ Cardinality(Rest(s)) \in Nat
    BY <1>2, FS_CardinalityType
  <1> QED
    BY <1>1, <1>2, <1>3 DEF Rest

-----------------------------------------------------------------------------
\* The recursion

\* The sums of the subsets of at most n elements exist.
LEMMA SumsExist ==
  ASSUME NEW p, NEW S, IsFiniteSet(S)
  PROVE  \E g : Sums(p, SUBSET S, g)
PROOF
  <1> DEFINE C(m) == {s \in SUBSET S : Cardinality(s) <= m}
             T == {m \in Nat : \E g : Sums(p, C(m), g)}
  <1>1. \A s \in SUBSET S : IsFiniteSet(s) /\ Cardinality(s) \in Nat
    BY FS_Subset, FS_CardinalityType
  <1>2. \A n \in Nat : \A s \in C(n + 1) : s # {} => Rest(s) \in C(n)
    BY <1>1, RestFacts
  <1>3. \A n \in Nat : C(n) \subseteq C(n + 1) /\ {} \in C(n)
    BY <1>1, FS_EmptySet
  <1>4. 0 \in T
    <2> DEFINE g == [s \in C(0) |-> 0]
    <2>1. \A s \in C(0) : s = {}
      BY <1>1, FS_EmptySet
    <2>2. Sums(p, C(0), g)
      BY <2>1 DEF Sums
    <2> QED
      BY <2>2
  <1>5. ASSUME NEW n \in T PROVE n + 1 \in T
    <2>1. PICK g : Sums(p, C(n), g)
      OBVIOUS
    <2> DEFINE h == [s \in C(n + 1) |->
                       IF s = {} THEN 0 ELSE Weight(p, Pick(s)) + g[Rest(s)]]
    <2>2. n \in Nat
      OBVIOUS
    <2>3. \A s \in C(n) : g[s] = IF s = {} THEN 0 ELSE Weight(p, Pick(s)) + g[Rest(s)]
      BY <2>1 DEF Sums
    <2> HIDE DEF C
    <2>4. \A s \in C(n) : h[s] = g[s]
      BY <1>3, <2>2, <2>3
    <2>5. \A s \in C(n + 1) : s # {} => h[Rest(s)] = g[Rest(s)]
      BY <1>2, <2>2, <2>4
    <2>6. h = [s \in C(n + 1) |-> IF s = {} THEN 0 ELSE Weight(p, Pick(s)) + h[Rest(s)]]
      BY <2>5
    <2>7. Sums(p, C(n + 1), h)
      BY <2>6 DEF Sums
    <2> QED
      BY <2>2, <2>7
  <1>6. \A n \in Nat : n \in T
    <2> HIDE DEF T
    <2>1. T \subseteq Nat
      BY DEF T
    <2> QED
      BY <1>4, <1>5, <2>1, NatInductive
  <1>7. C(Cardinality(S)) = SUBSET S /\ Cardinality(S) \in Nat
    BY <1>1, FS_Subset
  <1> QED
    BY <1>6, <1>7

\* Two families of sums agree on the sets that both have.
LEMMA SumsAgree ==
  ASSUME NEW p, NEW S, IsFiniteSet(S), NEW R, R \subseteq S,
         NEW g, NEW h, Sums(p, SUBSET S, g), Sums(p, SUBSET R, h)
  PROVE  g[R] = h[R]
PROOF
  <1> DEFINE T == {m \in Nat : \A u \in SUBSET R : Cardinality(u) = m => g[u] = h[u]}
  <1>1. \A s \in SUBSET R : IsFiniteSet(s) /\ Cardinality(s) \in Nat /\ s \in SUBSET S
    BY FS_Subset, FS_CardinalityType
  <1>2. \A s \in SUBSET R :
          /\ g[s] = IF s = {} THEN 0 ELSE Weight(p, Pick(s)) + g[Rest(s)]
          /\ h[s] = IF s = {} THEN 0 ELSE Weight(p, Pick(s)) + h[Rest(s)]
    BY <1>1 DEF Sums
  <1>3. 0 \in T
    BY <1>1, <1>2, FS_EmptySet
  <1>4. ASSUME NEW n \in T PROVE n + 1 \in T
    <2>1. n \in Nat /\ \A s \in SUBSET R : Cardinality(s) = n => g[s] = h[s]
      OBVIOUS
    <2>2. ASSUME NEW s \in SUBSET R, Cardinality(s) = n + 1 PROVE g[s] = h[s]
      <3>1. s # {}
        <4>1. Cardinality({}) = 0
          BY FS_EmptySet
        <4> QED
          BY <2>1, <2>2, <4>1
      <3>2. Rest(s) \in SUBSET R /\ Cardinality(Rest(s)) = n
        BY <1>1, <2>1, <2>2, <3>1, RestFacts
      <3> QED
        BY <1>2, <2>1, <3>1, <3>2
    <2> QED
      BY <2>1, <2>2
  <1>5. \A n \in Nat : n \in T
    <2> HIDE DEF T
    <2>1. T \subseteq Nat
      BY DEF T
    <2> QED
      BY <1>3, <1>4, <2>1, NatInductive
  <1>6. R \in SUBSET R
    OBVIOUS
  <1>7. Cardinality(R) \in T
    BY <1>1, <1>5, <1>6
  <1> QED
    BY <1>6, <1>7

\* A sum is the value its family has at the whole set.
LEMMA TotalIsSum ==
  ASSUME NEW p, NEW S, IsFiniteSet(S)
  PROVE  \E g : Sums(p, SUBSET S, g) /\ Total(p, S) = g[S]
PROOF
  <1> DEFINE g == CHOOSE f : Sums(p, SUBSET S, f)
  <1>1. Sums(p, SUBSET S, g)
    BY SumsExist
  <1>2. Total(p, S) = g[S]
    BY DEF Total, MapThenSumSet, MapThenFoldSet, Sums, Pick, Rest
  <1> QED
    BY <1>1, <1>2

\* The sum over no element.
THEOREM TotalEmpty == ASSUME NEW p PROVE Total(p, {}) = 0
PROOF
  <1>1. IsFiniteSet({})
    BY FS_EmptySet
  <1>2. PICK g : Sums(p, SUBSET {}, g) /\ Total(p, {}) = g[{}]
    BY <1>1, TotalIsSum
  <1> QED
    BY <1>2 DEF Sums

\* A sum is that of one element and of the others.
THEOREM TotalStep ==
  ASSUME NEW p, NEW S, IsFiniteSet(S), S # {}
  PROVE  Total(p, S) = Weight(p, Pick(S)) + Total(p, Rest(S))
PROOF
  <1>1. Rest(S) \subseteq S /\ IsFiniteSet(Rest(S))
    BY RestFacts
  <1>2. PICK g : Sums(p, SUBSET S, g) /\ Total(p, S) = g[S]
    BY TotalIsSum
  <1>3. PICK h : Sums(p, SUBSET Rest(S), h) /\ Total(p, Rest(S)) = h[Rest(S)]
    BY <1>1, TotalIsSum
  <1>4. g[Rest(S)] = h[Rest(S)]
    BY <1>1, <1>2, <1>3, SumsAgree
  <1>5. g[S] = Weight(p, Pick(S)) + g[Rest(S)]
    BY <1>2 DEF Sums
  <1> QED
    BY <1>2, <1>3, <1>4, <1>5

-----------------------------------------------------------------------------
\* Counting by parts

\* Where each element's weight is the size of a part, and the parts are apart,
\* the sum is the size of them all together.
THEOREM TotalCounts ==
  ASSUME NEW p, NEW S, IsFiniteSet(S), NEW A, NEW U,
         \A x \in S : IsFiniteSet(A[x]) /\ Weight(p, x) = Cardinality(A[x]),
         \A x, y \in S : \A u : u \in A[x] /\ u \in A[y] => x = y,
         \A u : u \in U <=> \E x \in S : u \in A[x]
  PROVE  Total(p, S) = Cardinality(U)
PROOF
  <1> DEFINE All(u) == UNION {A[x] : x \in u}
             Good(u) == IsFiniteSet(All(u)) /\ Total(p, u) = Cardinality(All(u))
             T == {m \in Nat : \A u \in SUBSET S : Cardinality(u) = m => Good(u)}
  <1>1. \A s \in SUBSET S : IsFiniteSet(s) /\ Cardinality(s) \in Nat
    BY FS_Subset, FS_CardinalityType
  <1>2. 0 \in T
    <2>1. \A s \in SUBSET S : Cardinality(s) = 0 => s = {}
      BY <1>1, FS_EmptySet
    <2>2. All({}) = {}
      OBVIOUS
    <2>3. Good({})
      BY <2>2, FS_EmptySet, TotalEmpty
    <2> HIDE DEF Good
    <2> QED
      BY <2>1, <2>3
  <1>3. ASSUME NEW n \in T PROVE n + 1 \in T
    <2>1. n \in Nat /\ \A s \in SUBSET S : Cardinality(s) = n => Good(s)
      OBVIOUS
    <2> HIDE DEF Good
    <2>2. ASSUME NEW s \in SUBSET S, Cardinality(s) = n + 1 PROVE Good(s)
      <3> DEFINE x == Pick(s)
                 r == Rest(s)
      <3>1. s # {} /\ IsFiniteSet(s)
        <4>1. Cardinality({}) = 0
          BY FS_EmptySet
        <4> QED
          BY <1>1, <2>1, <2>2, <4>1
      <3>2. r = s \ {x}
        BY DEF Rest
      <3>3. x \in s /\ Cardinality(s) = Cardinality(r) + 1 /\ Cardinality(r) \in Nat
        BY <3>1, RestFacts
      <3>4. Total(p, s) = Weight(p, x) + Total(p, r)
        BY <3>1, TotalStep
      <3> HIDE DEF x, r
      <3>5. r \in SUBSET S /\ Cardinality(r) = n
        BY <2>1, <2>2, <3>2, <3>3
      <3>6. Good(r)
        BY <2>1, <3>5
      <3>7. All(s) = A[x] \cup All(r) /\ A[x] \cap All(r) = {}
        BY <3>2, <3>3
      <3>8. IsFiniteSet(A[x]) /\ Weight(p, x) = Cardinality(A[x])
        BY <3>3
      <3> HIDE DEF All
      <3>9. /\ IsFiniteSet(A[x] \cup All(r))
            /\ Cardinality(A[x] \cup All(r)) =
                 Cardinality(A[x]) + Cardinality(All(r)) - Cardinality(A[x] \cap All(r))
        BY <3>6, <3>8, FS_Union DEF Good
      <3>10. /\ Cardinality(A[x] \cap All(r)) = 0
             /\ Cardinality(A[x]) \in Nat /\ Cardinality(All(r)) \in Nat
        BY <3>6, <3>7, <3>8, FS_EmptySet, FS_CardinalityType DEF Good
      <3>11. Cardinality(A[x] \cup All(r)) = Cardinality(A[x]) + Cardinality(All(r))
        BY <3>9, <3>10
      <3> QED
        BY <3>4, <3>6, <3>7, <3>8, <3>9, <3>11 DEF Good
    <2> QED
      BY <2>1, <2>2
  <1>4. \A n \in Nat : n \in T
    <2> HIDE DEF T
    <2>1. T \subseteq Nat
      BY DEF T
    <2> QED
      BY <1>2, <1>3, <2>1, NatInductive
  <1>5. Good(S)
    <2> HIDE DEF Good
    <2> QED
      BY <1>1, <1>4
  <1>6. U = All(S)
    OBVIOUS
  <1> QED
    BY <1>5, <1>6

=============================================================================
