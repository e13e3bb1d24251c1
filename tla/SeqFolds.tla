-------------------------------- MODULE SeqFolds --------------------------------
(***************************************************************************)
(* What folding a sequence from its left gives.  The script's loops over   *)
(* rows and over the characters of a text are such folds; a module that    *)
(* reasons about one instantiates this one with what its loop does.        *)
(***************************************************************************)
EXTENDS Integers, SequencesExt, WellFoundedInduction, TLAPS

CONSTANT Op(_, _, _)  \* Op(p, acc, x): the loop's body, p any parameter of it

Fold(p, base, seq) == FoldLeft(LAMBDA acc, x : Op(p, acc, x), base, seq)

\* The folds over the sets of a sequence's first n positions, each from that of
\* the set without its last position.
FoldsOver(p, base, seq, n, g) ==
  g = [s \in SUBSET (1..n) |-> IF s = {} THEN base ELSE Op(p, g[s \ {Max(s)}], seq[Max(s)])]

-----------------------------------------------------------------------------
\* Induction

\* A set of numbers has a least one.
LEMMA LeastExists ==
  ASSUME NEW T, T \subseteq Nat, T # {}
  PROVE  \E x \in T : \A y \in T : x <= y
PROOF
  <1>1. PICK x \in T : \A y \in T : ~(<<y, x>> \in OpToRel(<, Nat))
    BY NatLessThanWellFounded, WFMin
  <1>2. \A y \in Nat, z \in Nat : y < z => <<y, z>> \in OpToRel(<, Nat)
    BY Zenon DEF OpToRel
  <1>3. \A y \in T : ~(y < x)
    BY <1>1, <1>2
  <1> QED
    BY <1>3

\* A set with 0 and the successor of each of its numbers has every number.
LEMMA NumbersInductive ==
  ASSUME NEW T, 0 \in T, \A n \in Nat : n \in T => n + 1 \in T
  PROVE  Nat \subseteq T
PROOF
  <1> DEFINE U == Nat \ T
  <1> SUFFICES ASSUME U # {} PROVE FALSE
    OBVIOUS
  <1>1. PICK x \in U : \A y \in U : x <= y
    BY LeastExists
  <1>2. x \in Nat /\ x # 0
    OBVIOUS
  <1>3. x - 1 \in Nat /\ ~(x <= x - 1) /\ (x - 1) + 1 = x
    BY <1>2
  <1>4. x - 1 \in T
    BY <1>1, <1>3
  <1> QED
    BY <1>3, <1>4

\* A set with the empty sequence and every extension of each of its sequences
\* has every sequence.
THEOREM SequencesInductive ==
  ASSUME NEW S, NEW T, <<>> \in T,
         \A s \in Seq(S) : s \in T => \A c \in S : Append(s, c) \in T
  PROVE  Seq(S) \subseteq T
PROOF
  <1> DEFINE N == {n \in Nat : \A s \in Seq(S) : Len(s) = n => s \in T}
  <1>1. 0 \in N
    <2>1. \A s \in Seq(S) : Len(s) = 0 => s = <<>>
      OBVIOUS
    <2> QED
      BY <2>1
  <1>2. ASSUME NEW n \in Nat, n \in N PROVE n + 1 \in N
    <2> SUFFICES ASSUME NEW s \in Seq(S), Len(s) = n + 1 PROVE s \in T
      OBVIOUS
    <2> DEFINE t == [i \in 1..n |-> s[i]]
               c == s[n + 1]
    <2>1. t \in Seq(S) /\ Len(t) = n /\ c \in S
      OBVIOUS
    <2>2. s = Append(t, c)
      BY <2>1
    <2>3. t \in T
      BY <1>2, <2>1
    <2> HIDE DEF t, c
    <2> QED
      BY <2>1, <2>2, <2>3
  <1>3. Nat \subseteq N
    <2> HIDE DEF N
    <2> QED
      BY <1>1, <1>2, NumbersInductive
  <1>4. \A s \in Seq(S) : Len(s) \in Nat
    OBVIOUS
  <1> QED
    BY <1>3, <1>4

\* The last position of a part is in it, and no position in it is later.
LEMMA LastPosition ==
  ASSUME NEW n \in Nat, NEW s, s \subseteq 1..n, s # {}
  PROVE  Max(s) \in s /\ \A y \in s : y <= Max(s)
PROOF
  <1> DEFINE T == {u \in Nat : \A y \in s : y <= u}
  <1>1. n \in T
    OBVIOUS
  <1>2. PICK m \in T : \A u \in T : m <= u
    BY <1>1, LeastExists
  <1>3. m \in s
    <2> SUFFICES ASSUME m \notin s PROVE FALSE
      OBVIOUS
    <2>1. m \in Nat
      OBVIOUS
    <2>2. \A y \in s : y \in Nat /\ y >= 1 /\ y <= m /\ y # m
      OBVIOUS
    <2>3. PICK z \in s : z >= 1 /\ z <= m
      BY <2>2
    <2>4. m - 1 \in Nat
      BY <2>1, <2>2, <2>3
    <2>5. \A y \in s : y <= m - 1
      BY <2>1, <2>2
    <2>6. m <= m - 1
      BY <1>2, <2>4, <2>5
    <2> HIDE DEF T
    <2> QED
      BY <2>1, <2>6
  <1>4. \A y \in s : m >= y
    BY <1>2
  <1>5. Max(s) \in s /\ \A y \in s : Max(s) >= y
    BY <1>3, <1>4 DEF Max
  <1> QED
    BY <1>5

-----------------------------------------------------------------------------
\* The recursion

\* The folds over the parts of any number of positions exist.
LEMMA FoldsExist ==
  ASSUME NEW p, NEW base, NEW seq, NEW n \in Nat
  PROVE  \E g : FoldsOver(p, base, seq, n, g)
PROOF
  <1> DEFINE C(m) == SUBSET (1..m)
             T == {m \in Nat : \E g : FoldsOver(p, base, seq, m, g)}
  <1>1. \A m \in Nat : C(m) \subseteq C(m + 1) /\ {} \in C(m)
    <2>1. \A m \in Nat : (1..m) \subseteq 1..(m + 1)
      OBVIOUS
    <2> QED
      BY <2>1
  <1>2. ASSUME NEW m \in Nat, NEW s \in C(m + 1), s # {} PROVE s \ {Max(s)} \in C(m)
    <2>1. Max(s) \in 1..(m + 1) /\ \A y \in s : y <= Max(s)
      <3>1. m + 1 \in Nat /\ s \subseteq 1..(m + 1)
        OBVIOUS
      <3>2. Max(s) \in s /\ \A y \in s : y <= Max(s)
        BY <1>2, <3>1, LastPosition
      <3> QED
        BY <3>1, <3>2
    <2>2. \A y \in s \ {Max(s)} : y \in 1..m
      BY <2>1
    <2> QED
      BY <2>2
  <1>3. 0 \in T
    <2> DEFINE g == [s \in C(0) |-> base]
    <2>1. \A s \in C(0) : s = {}
      OBVIOUS
    <2>2. FoldsOver(p, base, seq, 0, g)
      BY <2>1 DEF FoldsOver
    <2> QED
      BY <2>2
  <1>4. ASSUME NEW m \in Nat, m \in T PROVE m + 1 \in T
    <2>1. PICK g : FoldsOver(p, base, seq, m, g)
      BY <1>4
    <2> DEFINE h == [s \in C(m + 1) |-> IF s = {} THEN base
                                        ELSE Op(p, g[s \ {Max(s)}], seq[Max(s)])]
    <2>2. \A s \in C(m) : g[s] = IF s = {} THEN base
                                 ELSE Op(p, g[s \ {Max(s)}], seq[Max(s)])
      BY <2>1 DEF FoldsOver
    <2> HIDE DEF C
    <2>3. \A s \in C(m) : h[s] = g[s]
      BY <1>1, <2>2
    <2>4. \A s \in C(m + 1) : s # {} => h[s \ {Max(s)}] = g[s \ {Max(s)}]
      BY <1>2, <2>3
    <2>5. h = [s \in C(m + 1) |-> IF s = {} THEN base
                                  ELSE Op(p, h[s \ {Max(s)}], seq[Max(s)])]
      BY <2>4
    <2>6. FoldsOver(p, base, seq, m + 1, h)
      BY <2>5 DEF FoldsOver, C
    <2> QED
      BY <2>6
  <1>5. Nat \subseteq T
    <2> HIDE DEF T
    <2> QED
      BY <1>3, <1>4, NumbersInductive
  <1> QED
    BY <1>5

\* A fold over no position is what it began with.
LEMMA FoldsBegin ==
  ASSUME NEW p, NEW base, NEW seq, NEW n \in Nat, NEW g, FoldsOver(p, base, seq, n, g)
  PROVE  g[1..0] = base
PROOF
  <1>1. 1..0 = {} /\ {} \in SUBSET (1..n)
    OBVIOUS
  <1> QED
    BY <1>1 DEF FoldsOver

\* A fold over one position more takes one step more.
LEMMA FoldsStep ==
  ASSUME NEW p, NEW base, NEW seq, NEW n \in Nat, NEW g, FoldsOver(p, base, seq, n, g),
         NEW i \in 1..n
  PROVE  g[1..i] = Op(p, g[1..(i - 1)], seq[i])
PROOF
  <1>1. \A s \in SUBSET (1..n) : g[s] = IF s = {} THEN base
                                       ELSE Op(p, g[s \ {Max(s)}], seq[Max(s)])
    BY DEF FoldsOver
  <1>2. (1..i) \subseteq 1..n /\ i \in 1..i /\ i \in Nat
    OBVIOUS
  <1>3. Max(1..i) \in 1..i /\ i <= Max(1..i)
    BY <1>2, LastPosition
  <1>4. Max(1..i) = i
    BY <1>2, <1>3
  <1>5. (1..i) \ {i} = 1..(i - 1)
    BY <1>2
  <1> QED
    BY <1>1, <1>2, <1>4, <1>5

\* Folds over two sequences that begin alike are alike there.
LEMMA FoldsAgree ==
  ASSUME NEW p, NEW base, NEW m \in Nat, NEW n \in Nat, m <= n,
         NEW s, NEW t, \A i \in 1..m : s[i] = t[i],
         NEW g, FoldsOver(p, base, s, m, g),
         NEW h, FoldsOver(p, base, t, n, h)
  PROVE  g[1..m] = h[1..m]
PROOF
  <1> DEFINE T == {i \in Nat : i <= m => g[1..i] = h[1..i]}
  <1>1. g[1..0] = base /\ h[1..0] = base
    BY FoldsBegin
  <1>2. \A i \in 1..m : g[1..i] = Op(p, g[1..(i - 1)], s[i])
    BY FoldsStep
  <1>3. \A i \in 1..n : h[1..i] = Op(p, h[1..(i - 1)], t[i])
    BY FoldsStep
  <1>4. 0 \in T
    BY <1>1
  <1>5. ASSUME NEW i \in Nat, i \in T PROVE i + 1 \in T
    <2> SUFFICES ASSUME i + 1 <= m PROVE g[1..(i + 1)] = h[1..(i + 1)]
      OBVIOUS
    <2>1. i + 1 \in 1..m /\ i + 1 \in 1..n /\ (i + 1) - 1 = i
      OBVIOUS
    <2>2. g[1..i] = h[1..i]
      BY <1>5, <2>1
    <2>3. g[1..(i + 1)] = Op(p, g[1..i], s[i + 1]) /\ h[1..(i + 1)] = Op(p, h[1..i], t[i + 1])
      BY <1>2, <1>3, <2>1
    <2> QED
      BY <2>1, <2>2, <2>3
  <1>6. Nat \subseteq T
    <2> HIDE DEF T
    <2> QED
      BY <1>4, <1>5, NumbersInductive
  <1> QED
    BY <1>6

\* A fold is what its family has at all the positions.
LEMMA FoldIsLast ==
  ASSUME NEW p, NEW base, NEW seq, NEW n \in Nat, DOMAIN seq = 1..n
  PROVE  \E g : FoldsOver(p, base, seq, n, g) /\ Fold(p, base, seq) = g[1..n]
PROOF
  <1> DEFINE g == CHOOSE f : FoldsOver(p, base, seq, n, f)
  <1>1. FoldsOver(p, base, seq, n, g)
    BY FoldsExist
  <1>2. Fold(p, base, seq) = g[1..n]
    BY DEF Fold, FoldLeft, MapThenFoldSet, FoldsOver
  <1> QED
    BY <1>1, <1>2

\* A loop over nothing leaves what it began with.
THEOREM FoldEmpty == ASSUME NEW p, NEW base PROVE Fold(p, base, <<>>) = base
PROOF
  <1>1. DOMAIN <<>> = 1..0
    OBVIOUS
  <1>2. PICK g : FoldsOver(p, base, <<>>, 0, g) /\ Fold(p, base, <<>>) = g[1..0]
    BY <1>1, FoldIsLast
  <1> QED
    BY <1>2, FoldsBegin

\* A loop over a sequence with one more element runs its body once more.
THEOREM FoldAppend ==
  ASSUME NEW p, NEW base, NEW S, NEW s \in Seq(S), NEW c \in S
  PROVE  Fold(p, base, Append(s, c)) = Op(p, Fold(p, base, s), c)
PROOF
  <1> DEFINE t == Append(s, c)
             m == Len(s)
             n == m + 1
  <1>1. /\ m \in Nat /\ n \in Nat /\ m <= n /\ n \in 1..n /\ n - 1 = m
        /\ DOMAIN s = 1..m /\ DOMAIN t = 1..n
        /\ t[n] = c /\ \A i \in 1..m : s[i] = t[i]
    OBVIOUS
  <1> HIDE DEF t, m, n
  <1>2. PICK g : FoldsOver(p, base, s, m, g) /\ Fold(p, base, s) = g[1..m]
    BY <1>1, FoldIsLast
  <1>3. PICK h : FoldsOver(p, base, t, n, h) /\ Fold(p, base, t) = h[1..n]
    BY <1>1, FoldIsLast
  <1>4. g[1..m] = h[1..m]
    BY <1>1, <1>2, <1>3, FoldsAgree
  <1>5. h[1..n] = Op(p, h[1..m], c)
    BY <1>1, <1>3, FoldsStep
  <1> QED
    BY <1>2, <1>3, <1>4, <1>5 DEF t

=============================================================================
