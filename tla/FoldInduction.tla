--------------------------- MODULE FoldInduction ---------------------------
(***************************************************************************)
(* Induction over the elements of a sequence folded from the left, for the *)
(* modules whose loops are FoldLeft: what holds at first, and is kept by   *)
(* each turn of the loop, holds at the end.  The loop's body and what it   *)
(* keeps are parameters of the module, so that each use is an INSTANCE;    *)
(* FoldLeft is unfolded to the recursive function on sets of indices by    *)
(* which the community modules define it.                                  *)
(***************************************************************************)
EXTENDS Sums, Sequences, SequencesExt, NaturalsInduction

CONSTANTS
    Op(_, _, _),     \* what a turn makes of the result so far and an element, in a context
    P(_, _, _, _)    \* what holds of the result after so many turns over s, in that context

\* The loop over s from base.
Fold(base, s, c) == FoldLeft(LAMBDA y, x : Op(y, x, c), base, s)

\* The function on sets of indices that it is the last value of.
IsLoop(it, base, s, c, D) ==
    it = [S \in SUBSET D |-> IF S = {} THEN base
                             ELSE LET i == Max(S) IN Op(it[S \ {i}], s[i], c)]

Chosen(base, s, c, D) == (CHOOSE it : IsLoop(it, base, s, c, D))[D]

\* The loop, unfolded down to that function.
LEMMA FoldIsChosen ==
    ASSUME NEW base, NEW s, NEW c
    PROVE  Fold(base, s, c) = Chosen(base, s, c, DOMAIN s)
BY DEF Fold, Chosen, IsLoop, FoldLeft, MapThenFoldSet

\* A set of numbers with a member has a first one.
LEMMA FirstNat ==
    ASSUME NEW T \in SUBSET Nat, T # {}
    PROVE  \E x \in T : \A y \in T : x <= y
<1> DEFINE less == {p \in Nat \X Nat : p[1] < p[2]}
<1>1. IsWellFoundedOn(less, Nat)
  BY NatLessThanWellFounded DEF OpToRel
<1>2. PICK x \in T : \A y \in T : ~(<<y, x>> \in less)
  <2> HIDE DEF less
  <2> QED
    BY <1>1, WFMin
<1>3. \A y \in T : ~(y < x)
  BY <1>2
<1>4. QED
  BY <1>3

\* What is a set of indices of some sequence.
Indices(S) == \E n \in Nat : S \subseteq 1 .. n

\* The last index of a set of indices is one of them.
LEMMA LastIndex ==
    ASSUME NEW n \in Nat, NEW S \in SUBSET (1 .. n), S # {}
    PROVE  Max(S) \in S /\ \A y \in S : Max(S) >= y
<1> DEFINE T == {n - y : y \in S}
<1>1. T \in SUBSET Nat /\ T # {}
  <2>1. \A y \in S : n - y \in Nat
    OBVIOUS
  <2>2. QED
    BY <2>1
<1>2. PICK x \in T : \A y \in T : x <= y
  <2> HIDE DEF T
  <2> QED  BY <1>1, FirstNat
<1>3. PICK m \in S : x = n - m
  BY <1>2
<1>4. \A y \in S : m >= y
  BY <1>2, <1>3
<1>5. QED
  BY <1>3, <1>4 DEF Max

\* Sets of indices are finite, and so are their subsets.
LEMMA IndicesSubset ==
    ASSUME NEW V, Indices(V), NEW W \in SUBSET V
    PROVE  Indices(W) /\ IsFiniteSet(W) /\ (W # {} => Max(W) \in W)
<1>1. PICK n \in Nat : V \subseteq 1 .. n
  BY DEF Indices
<1>2. W \in SUBSET (1 .. n) /\ IsFiniteSet(1 .. n)
  BY <1>1, FS_Interval
<1>3. QED
  BY <1>2, LastIndex, FS_Subset DEF Indices

\* Two such functions agree where both are defined.
LEMMA LoopUnique ==
    ASSUME NEW V, Indices(V), NEW W \in SUBSET V, NEW base, NEW s, NEW c,
           NEW a, NEW b, IsLoop(a, base, s, c, V), IsLoop(b, base, s, c, W)
    PROVE  \A S \in SUBSET W : a[S] = b[S]
<1> DEFINE T == {S \in SUBSET W : a[S] # b[S]}
<1>1. SUFFICES ASSUME T # {} PROVE FALSE
  OBVIOUS
<1>2. T \in SUBSET SUBSET W /\ IsFiniteSet(W)
  BY IndicesSubset
<1>3. PICK m \in T : \A u \in T : u \subseteq m => u = m
  <2> HIDE DEF T
  <2> QED  BY <1>1, <1>2, SmallestSubset
<1>4. m # {} /\ m \in SUBSET W /\ m \in SUBSET V
  BY DEF IsLoop
<1>5. Max(m) \in m
  BY <1>4, IndicesSubset
<1> DEFINE i == Max(m)
<1> HIDE DEF i
<1>6. m \ {i} \notin T /\ m \ {i} \in SUBSET W
  BY <1>3, <1>5 DEF i
<1>7. a[m] = Op(a[m \ {i}], s[i], c)
  BY <1>4 DEF IsLoop, i
<1>8. b[m] = Op(b[m \ {i}], s[i], c)
  BY <1>4 DEF IsLoop, i
<1>9. a[m \ {i}] = b[m \ {i}]
  BY <1>6
<1>10. a[m] = b[m]
  BY <1>7, <1>8, <1>9, Zenon
<1>11. QED
  BY <1>10

\* The loop's value over a set of indices is that of any such function.
LEMMA AnyLoop ==
    ASSUME NEW V, Indices(V), NEW W \in SUBSET V, NEW base, NEW s, NEW c,
           NEW it, IsLoop(it, base, s, c, V)
    PROVE  Chosen(base, s, c, W) = it[W]
<1> DEFINE r == [S \in SUBSET W |-> it[S]]
<1>1. IsLoop(r, base, s, c, W)
  <2>1. \A S \in SUBSET W : S # {} => Max(S) \in S
    BY IndicesSubset
  <2>2. \A S \in SUBSET W : it[S] = IF S = {} THEN base ELSE Op(it[S \ {Max(S)}], s[Max(S)], c)
    BY DEF IsLoop
  <2>3. \A S \in SUBSET W : S # {} => S \ {Max(S)} \in SUBSET W
    OBVIOUS
  <2>4. \A S \in SUBSET W : r[S] = IF S = {} THEN base ELSE Op(r[S \ {Max(S)}], s[Max(S)], c)
    <3> TAKE S \in SUBSET W
    <3> DEFINE U == S \ {Max(S)}
    <3>1. U \in SUBSET W /\ r[U] = it[U] /\ r[S] = it[S]
      BY <2>3
    <3> HIDE DEF U, r
    <3>2. r[S] = IF S = {} THEN base ELSE Op(it[U], s[Max(S)], c)
      BY <2>2, <3>1 DEF U
    <3>3. Op(r[U], s[Max(S)], c) = Op(it[U], s[Max(S)], c)
      BY <3>1, Zenon
    <3>4. r[S] = IF S = {} THEN base ELSE Op(r[U], s[Max(S)], c)
      BY <3>2, <3>3
    <3>5. QED
      BY <3>4 DEF U
  <2>5. QED
    BY <2>4 DEF IsLoop
<1> DEFINE k == CHOOSE i : IsLoop(i, base, s, c, W)
<1>2. IsLoop(k, base, s, c, W)
  <2> HIDE DEF r
  <2> QED  BY <1>1
<1>3. k[W] = it[W]
  <2> HIDE DEF k, r
  <2>1. \A S \in SUBSET W : it[S] = k[S]
    BY <1>2, LoopUnique
  <2>2. QED
    BY <2>1
<1>4. QED
  BY <1>3 DEF Chosen

\* Such a function exists for every set of indices: there is no smallest set
\* that has none.
LEMMA LoopExists ==
    ASSUME NEW V, Indices(V), NEW base, NEW s, NEW c
    PROVE  \E it : IsLoop(it, base, s, c, V)
<1> DEFINE T == {U \in SUBSET V : ~ \E it : IsLoop(it, base, s, c, U)}
<1>1. SUFFICES ASSUME T # {} PROVE FALSE
  OBVIOUS
<1>2. T \in SUBSET SUBSET V /\ IsFiniteSet(V)
  BY IndicesSubset
<1>3. PICK U \in T : \A u \in T : u \subseteq U => u = U
  <2> HIDE DEF T
  <2> QED  BY <1>1, <1>2, SmallestSubset
<1>4. \A W \in SUBSET U : W # U => \E it : IsLoop(it, base, s, c, W)
  BY <1>3
<1>5. \A W \in SUBSET U : Indices(W) /\ (W # {} => Max(W) \in W)
  BY IndicesSubset
<1> DEFINE val(W) == IF W = {} THEN base ELSE Op(Chosen(base, s, c, W \ {Max(W)}), s[Max(W)], c)
           it == [W \in SUBSET U |-> val(W)]
<1>6. \A W \in SUBSET U : W # U => Chosen(base, s, c, W) = val(W)
  <2> SUFFICES ASSUME NEW W \in SUBSET U, W # U PROVE Chosen(base, s, c, W) = val(W)
    OBVIOUS
  <2>1. PICK g : IsLoop(g, base, s, c, W)
    BY <1>4
  <2>2. Indices(W) /\ (W # {} => Max(W) \in W)
    BY <1>5
  <2>3. \A X \in SUBSET W : Chosen(base, s, c, X) = g[X]
    BY <2>1, <2>2, AnyLoop
  <2>4. g[W] = IF W = {} THEN base ELSE Op(g[W \ {Max(W)}], s[Max(W)], c)
    BY <2>1 DEF IsLoop
  <2> DEFINE X == W \ {Max(W)}
  <2>5. X \in SUBSET W /\ Chosen(base, s, c, X) = g[X] /\ Chosen(base, s, c, W) = g[W]
    BY <2>3
  <2> HIDE DEF X
  <2>6. Op(Chosen(base, s, c, X), s[Max(W)], c) = Op(g[X], s[Max(W)], c)
    BY <2>5, Zenon
  <2>7. QED
    BY <2>4, <2>5, <2>6 DEF X
<1>7. \A W \in SUBSET U : W # {} => it[W] = Op(it[W \ {Max(W)}], s[Max(W)], c)
  <2> SUFFICES ASSUME NEW W \in SUBSET U, W # {}
               PROVE  it[W] = Op(it[W \ {Max(W)}], s[Max(W)], c)
    OBVIOUS
  <2> DEFINE X == W \ {Max(W)}
  <2>1. X \in SUBSET U /\ X # U
    BY <1>5
  <2>2. it[X] = val(X) /\ Chosen(base, s, c, X) = val(X)
    BY <1>6, <2>1
  <2>3. it[W] = Op(Chosen(base, s, c, X), s[Max(W)], c)
    OBVIOUS
  <2> HIDE DEF X, it, val
  <2>4. it[X] = Chosen(base, s, c, X)
    BY <2>2
  <2>5. it[W] = Op(it[X], s[Max(W)], c)
    BY <2>3, <2>4, Zenon
  <2>6. QED
    BY <2>5 DEF X
<1>8. it[{}] = base
  OBVIOUS
<1>9. IsLoop(it, base, s, c, U)
  BY <1>7, <1>8 DEF IsLoop
<1>10. QED
  BY <1>3, <1>9

\* The last of the first indices, and what is left without it.
LEMMA FirstIndices ==
    ASSUME NEW m \in Nat, m # 0
    PROVE  Max(1 .. m) = m /\ (1 .. m) \ {m} = 1 .. (m - 1)
<1>1. m \in 1 .. m /\ \A y \in 1 .. m : m >= y
  OBVIOUS
<1>2. Max(1 .. m) \in 1 .. m /\ \A y \in 1 .. m : Max(1 .. m) >= y
  <2>1. 1 .. m \in SUBSET (1 .. m) /\ 1 .. m # {}
    BY <1>1
  <2>2. QED
    BY <2>1, LastIndex
<1>3. Max(1 .. m) >= m /\ m >= Max(1 .. m) /\ Max(1 .. m) \in Int
  BY <1>1, <1>2
<1>4. Max(1 .. m) = m
  BY <1>3
<1>5. QED
  BY <1>4

\* What holds before the first turn, and is kept by each, holds after the last.
THEOREM FoldLeftInduction ==
    ASSUME NEW base, NEW s, NEW c, NEW n \in Nat, DOMAIN s = 1 .. n,
           P(base, 0, s, c),
           \A k \in 1 .. n : \A y : P(y, k - 1, s, c) => P(Op(y, s[k], c), k, s, c)
    PROVE  P(Fold(base, s, c), n, s, c)
<1>1. Indices(1 .. n)
  BY DEF Indices
<1>2. PICK it : IsLoop(it, base, s, c, 1 .. n)
  BY <1>1, LoopExists
<1> DEFINE Holds(k) == P(it[1 .. k], k, s, c)
           T == {k \in 0 .. n : ~Holds(k)}
<1>3. Holds(0)
  <2>1. 1 .. 0 = {}
    OBVIOUS
  <2>2. it[{}] = base
    BY <1>2 DEF IsLoop
  <2>3. it[1 .. 0] = base
    BY <2>1, <2>2, Zenon
  <2>4. QED
    BY <2>3, Zenon
<1>4. ASSUME NEW k \in 1 .. n, Holds(k - 1) PROVE Holds(k)
  <2>1. k \in Nat /\ k # 0 /\ 1 .. k \in SUBSET (1 .. n) /\ 1 .. k # {}
    OBVIOUS
  <2>2. it[1 .. k] = Op(it[(1 .. k) \ {Max(1 .. k)}], s[Max(1 .. k)], c)
    BY <1>2, <2>1 DEF IsLoop
  <2>3. Max(1 .. k) = k /\ (1 .. k) \ {k} = 1 .. (k - 1)
    BY <2>1, FirstIndices
  <2>4. it[1 .. k] = Op(it[1 .. (k - 1)], s[k], c)
    BY <2>2, <2>3, Zenon
  <2>5. P(Op(it[1 .. (k - 1)], s[k], c), k, s, c)
    BY <1>4
  <2>6. QED
    BY <2>4, <2>5, Zenon
<1>5. T = {}
  <2> HIDE DEF Holds
  <2>1. SUFFICES ASSUME T # {} PROVE FALSE
    OBVIOUS
  <2>2. T \in SUBSET Nat
    OBVIOUS
  <2>3. PICK m \in T : \A y \in T : m <= y
    <3> HIDE DEF T
    <3> QED  BY <2>1, <2>2, FirstNat
  <2>4. m \in 1 .. n /\ m - 1 \in 0 .. n /\ m - 1 \notin T
    BY <1>3, <2>3
  <2>5. QED
    BY <1>4, <2>3, <2>4
<1>6. Holds(n)
  BY <1>5
<1>7. Fold(base, s, c) = it[1 .. n]
  <2>1. Chosen(base, s, c, 1 .. n) = it[1 .. n]
    BY <1>1, <1>2, AnyLoop
  <2>2. QED
    BY <2>1, FoldIsChosen
<1>8. QED
  BY <1>6, <1>7, Zenon
=============================================================================
