-------------------------------- MODULE Sums --------------------------------
(***************************************************************************)
(* Facts about sums over finite sets, for the modules whose properties     *)
(* compare a counter with a total (what a sender has pooled, what          *)
(* validators deposited, what a day released).  The community modules      *)
(* define such a sum, MapThenSumSet, by a recursive function on the        *)
(* subsets of the set, chosen with CHOOSE.  SumOf names the case where the *)
(* summand is a function; everything below is proved from that definition. *)
(*                                                                         *)
(* Each proof by induction on a finite set is stated as the absence of a   *)
(* smallest counterexample: strict inclusion is well founded on the        *)
(* subsets of a finite set, so a set of subsets that is not empty has a    *)
(* minimal member (SmallestSubset), and a minimal counterexample is        *)
(* refuted by taking one element out of it.                                *)
(***************************************************************************)
EXTENDS Integers, FiniteSets, FiniteSetsExt, FiniteSetTheorems, WellFoundedInduction, TLAPS

\* The sum of f over S.
SumOf(f, S) == MapThenSumSet(LAMBDA x : f[x], S)

\* The element the recursion takes out of a set, and the function it defines:
\* it sums f over every subset of S.
Pick(s) == CHOOSE x \in s : TRUE
IsIter(it, f, S) ==
    it = [s \in SUBSET S |-> IF s = {} THEN 0 ELSE f[Pick(s)] + it[s \ {Pick(s)}]]

\* The sum, unfolded down to that function.
LEMMA SumIsIter ==
    ASSUME NEW f, NEW S
    PROVE  SumOf(f, S) = (CHOOSE it : IsIter(it, f, S))[S]
BY DEF SumOf, MapThenSumSet, MapThenFoldSet, IsIter, Pick

\* A collection of subsets of a finite set has a minimal member.
LEMMA SmallestSubset ==
    ASSUME NEW S, IsFiniteSet(S), NEW T \in SUBSET SUBSET S, T # {}
    PROVE  \E m \in T : \A u \in T : u \subseteq m => u = m
<1>1. T \subseteq FiniteSubsetsOf(S)
  BY FS_FiniteSubsetsOfFinite
<1>2. IsWellFoundedOn(StrictSubsetOrdering(S), FiniteSubsetsOf(S))
  BY FS_StrictSubsetOrderingWellFounded
<1>3. PICK m \in T : \A u \in T : ~(<<u, m>> \in StrictSubsetOrdering(S))
  BY <1>1, <1>2, WFMin
<1>4. QED
  BY <1>3 DEF StrictSubsetOrdering

\* Two such functions agree where both are defined, whatever their sets.
LEMMA IterUnique ==
    ASSUME NEW S, IsFiniteSet(S), NEW V \in SUBSET S, NEW f, NEW a, NEW b,
           IsIter(a, f, S), IsIter(b, f, V)
    PROVE  \A s \in SUBSET V : a[s] = b[s]
<1> DEFINE T == {s \in SUBSET V : a[s] # b[s]}
<1>1. SUFFICES ASSUME T # {} PROVE FALSE
  OBVIOUS
<1>2. T \in SUBSET SUBSET S
  OBVIOUS
<1>3. PICK m \in T : \A u \in T : u \subseteq m => u = m
  <2> HIDE DEF T
  <2> QED  BY <1>1, <1>2, SmallestSubset
<1>4. m # {}
  BY DEF IsIter
<1>5. Pick(m) \in m
  BY <1>4 DEF Pick
<1>6. m \ {Pick(m)} \notin T /\ m \ {Pick(m)} \in SUBSET V
  BY <1>3, <1>5
<1>7. a[m] = f[Pick(m)] + a[m \ {Pick(m)}]
  BY <1>4 DEF IsIter
<1>8. b[m] = f[Pick(m)] + b[m \ {Pick(m)}]
  BY <1>4 DEF IsIter
<1>9. QED
  BY <1>6, <1>7, <1>8

\* The function for a set, restricted, is the one for a subset.
LEMMA IterRestricts ==
    ASSUME NEW S, NEW V \in SUBSET S, NEW f, NEW it, IsIter(it, f, S)
    PROVE  IsIter([s \in SUBSET V |-> it[s]], f, V)
BY DEF IsIter, Pick

\* The sum is the value of any such function.
LEMMA SumIsAnyIter ==
    ASSUME NEW S, IsFiniteSet(S), NEW f, NEW it, IsIter(it, f, S)
    PROVE  SumOf(f, S) = it[S]
<1> DEFINE c == CHOOSE i : IsIter(i, f, S)
<1>1. IsIter(c, f, S)
  OBVIOUS
<1>2. c[S] = it[S]
  <2> HIDE DEF c
  <2> QED  BY <1>1, IterUnique
<1>3. QED
  BY <1>2, SumIsIter

\* Such a function exists for every finite set: built up one element at a time.
LEMMA IterExists ==
    ASSUME NEW S, IsFiniteSet(S), NEW f
    PROVE  \E it : IsIter(it, f, S)
<1> DEFINE T == {U \in SUBSET S : ~ \E it : IsIter(it, f, U)}
<1>1. SUFFICES ASSUME T # {} PROVE FALSE
  OBVIOUS
<1>2. T \in SUBSET SUBSET S
  OBVIOUS
<1>3. PICK U \in T : \A u \in T : u \subseteq U => u = U
  <2> HIDE DEF T
  <2> QED  BY <1>1, <1>2, SmallestSubset
<1>4. \A V \in SUBSET U : IsFiniteSet(V)
  BY FS_Subset
<1>5. \A V \in SUBSET U : V # U => \E it : IsIter(it, f, V)
  BY <1>3
<1>6. \A V \in SUBSET U : V # U =>
         SumOf(f, V) = IF V = {} THEN 0 ELSE f[Pick(V)] + SumOf(f, V \ {Pick(V)})
  <2> SUFFICES ASSUME NEW V \in SUBSET U, V # U
               PROVE  SumOf(f, V) = IF V = {} THEN 0 ELSE f[Pick(V)] + SumOf(f, V \ {Pick(V)})
    OBVIOUS
  <2>1. PICK it : IsIter(it, f, V)
    BY <1>5
  <2>2. SumOf(f, V) = it[V]
    BY <1>4, <2>1, SumIsAnyIter
  <2>3. CASE V = {}
    BY <2>1, <2>2, <2>3 DEF IsIter
  <2>4. CASE V # {}
    <3> DEFINE W == V \ {Pick(V)}
               r == [s \in SUBSET W |-> it[s]]
    <3>1. IsIter(r, f, W)
      BY <2>1, IterRestricts
    <3>2. SumOf(f, W) = r[W]
      <4> HIDE DEF r
      <4> QED  BY <1>4, <3>1, SumIsAnyIter
    <3>3. SumOf(f, W) = it[W]
      BY <3>2
    <3>4. it[V] = f[Pick(V)] + it[W]
      BY <2>1, <2>4 DEF IsIter
    <3>5. QED
      BY <2>2, <2>4, <3>3, <3>4
  <2>5. QED
    BY <2>3, <2>4
<1> DEFINE it == [s \in SUBSET U |-> IF s = {} THEN 0 ELSE f[Pick(s)] + SumOf(f, s \ {Pick(s)})]
<1>7. \A s \in SUBSET U : s # {} => Pick(s) \in s
  BY DEF Pick
<1>8. \A s \in SUBSET U : s # {} => it[s \ {Pick(s)}] = SumOf(f, s \ {Pick(s)})
  <2> SUFFICES ASSUME NEW s \in SUBSET U, s # {}
               PROVE  it[s \ {Pick(s)}] = SumOf(f, s \ {Pick(s)})
    OBVIOUS
  <2> DEFINE V == s \ {Pick(s)}
  <2>1. V \in SUBSET U /\ V # U
    BY <1>7
  <2>2. it[V] = IF V = {} THEN 0 ELSE f[Pick(V)] + SumOf(f, V \ {Pick(V)})
    BY <2>1
  <2> HIDE DEF it, V
  <2>3. it[V] = SumOf(f, V)
    BY <1>6, <2>1, <2>2
  <2>4. QED
    BY <2>3 DEF V
<1>9. IsIter(it, f, U)
  BY <1>8 DEF IsIter
<1>10. QED
  BY <1>3, <1>9

\* The recursion: the empty set sums to 0, another one to the element picked
\* and the rest.
THEOREM SumStep ==
    ASSUME NEW S, IsFiniteSet(S), NEW f
    PROVE  SumOf(f, S) = IF S = {} THEN 0 ELSE f[Pick(S)] + SumOf(f, S \ {Pick(S)})
<1>1. PICK it : IsIter(it, f, S)
  BY IterExists
<1>2. SumOf(f, S) = it[S]
  BY <1>1, SumIsAnyIter
<1>3. CASE S = {}
  BY <1>1, <1>2, <1>3 DEF IsIter
<1>4. CASE S # {}
  <2> DEFINE W == S \ {Pick(S)}
             r == [s \in SUBSET W |-> it[s]]
  <2>1. IsIter(r, f, W)
    <3>1. W \in SUBSET S
      OBVIOUS
    <3> HIDE DEF W
    <3> QED  BY <1>1, <3>1, IterRestricts
  <2>2. SumOf(f, W) = r[W]
    <3>1. IsFiniteSet(W)
      BY FS_Subset
    <3> HIDE DEF r, W
    <3> QED  BY <2>1, <3>1, SumIsAnyIter
  <2>3. it[S] = f[Pick(S)] + it[W]
    BY <1>1, <1>4 DEF IsIter
  <2>4. QED
    BY <1>2, <1>4, <2>2, <2>3
<1>5. QED
  BY <1>3, <1>4

\* A sum of integers is an integer.
THEOREM SumType ==
    ASSUME NEW S, IsFiniteSet(S), NEW f, \A x \in S : f[x] \in Int
    PROVE  SumOf(f, S) \in Int
<1> DEFINE T == {U \in SUBSET S : SumOf(f, U) \notin Int}
<1>1. SUFFICES ASSUME T # {} PROVE FALSE
  OBVIOUS
<1>2. T \in SUBSET SUBSET S
  OBVIOUS
<1>3. PICK U \in T : \A u \in T : u \subseteq U => u = U
  <2> HIDE DEF T
  <2> QED  BY <1>1, <1>2, SmallestSubset
<1>4. IsFiniteSet(U)
  BY FS_Subset
<1>5. SumOf(f, U) = IF U = {} THEN 0 ELSE f[Pick(U)] + SumOf(f, U \ {Pick(U)})
  BY <1>4, SumStep
<1>6. U # {} => Pick(U) \in U
  BY DEF Pick
<1>7. U # {} => SumOf(f, U \ {Pick(U)}) \in Int
  BY <1>3, <1>6
<1>8. QED
  BY <1>5, <1>6, <1>7

\* A sum of natural numbers is a natural number.
THEOREM SumNat ==
    ASSUME NEW S, IsFiniteSet(S), NEW f, \A x \in S : f[x] \in Nat
    PROVE  SumOf(f, S) \in Nat
<1> DEFINE T == {U \in SUBSET S : SumOf(f, U) \notin Nat}
<1>1. SUFFICES ASSUME T # {} PROVE FALSE
  OBVIOUS
<1>2. T \in SUBSET SUBSET S
  OBVIOUS
<1>3. PICK U \in T : \A u \in T : u \subseteq U => u = U
  <2> HIDE DEF T
  <2> QED  BY <1>1, <1>2, SmallestSubset
<1>4. IsFiniteSet(U)
  BY FS_Subset
<1>5. SumOf(f, U) = IF U = {} THEN 0 ELSE f[Pick(U)] + SumOf(f, U \ {Pick(U)})
  BY <1>4, SumStep
<1>6. U # {} => Pick(U) \in U
  BY DEF Pick
<1>7. U # {} => SumOf(f, U \ {Pick(U)}) \in Nat
  BY <1>3, <1>6
<1>8. QED
  BY <1>5, <1>6, <1>7

\* Any element can be taken out of a sum, not only the one picked.
THEOREM SumRemove ==
    ASSUME NEW S, IsFiniteSet(S), NEW f, \A x \in S : f[x] \in Int, NEW x \in S
    PROVE  SumOf(f, S) = f[x] + SumOf(f, S \ {x})
<1> DEFINE T == {U \in SUBSET S : \E y \in U : SumOf(f, U) # f[y] + SumOf(f, U \ {y})}
<1>1. SUFFICES ASSUME T # {} PROVE FALSE
  OBVIOUS
<1>2. T \in SUBSET SUBSET S
  OBVIOUS
<1>3. PICK U \in T : \A u \in T : u \subseteq U => u = U
  <2> HIDE DEF T
  <2> QED  BY <1>1, <1>2, SmallestSubset
<1>4. PICK y \in U : SumOf(f, U) # f[y] + SumOf(f, U \ {y})
  OBVIOUS
<1> DEFINE p == Pick(U)
           R == U \ {p, y}
<1>5. p \in U
  BY <1>4 DEF Pick
<1>6. \A V \in SUBSET U : IsFiniteSet(V) /\ SumOf(f, V) \in Int
  BY FS_Subset, SumType
<1>7. SumOf(f, U) = f[p] + SumOf(f, U \ {p})
  BY <1>4, <1>6, SumStep
<1>8. p # y
  BY <1>4, <1>7
<1>9. SumOf(f, U \ {p}) = f[y] + SumOf(f, R)
  <2>1. U \ {p} \notin T /\ U \ {p} \in SUBSET S /\ y \in U \ {p}
    BY <1>3, <1>5, <1>8
  <2>2. (U \ {p}) \ {y} = R
    OBVIOUS
  <2>3. QED
    BY <2>1, <2>2
<1>10. SumOf(f, U \ {y}) = f[p] + SumOf(f, R)
  <2>1. U \ {y} \notin T /\ U \ {y} \in SUBSET S /\ p \in U \ {y}
    BY <1>3, <1>5, <1>8
  <2>2. (U \ {y}) \ {p} = R
    OBVIOUS
  <2>3. QED
    BY <2>1, <2>2
<1>11. f[p] \in Int /\ f[y] \in Int /\ SumOf(f, R) \in Int
  BY <1>5, <1>6
<1>12. SumOf(f, U) = f[y] + SumOf(f, U \ {y})
  <2> HIDE DEF p, R
  <2> QED  BY <1>7, <1>9, <1>10, <1>11
<1>13. QED
  BY <1>4, <1>12

\* A sum depends only on the values over its set.
THEOREM SumAgree ==
    ASSUME NEW S, IsFiniteSet(S), NEW f, NEW g, \A x \in S : f[x] = g[x]
    PROVE  SumOf(f, S) = SumOf(g, S)
<1> DEFINE T == {U \in SUBSET S : SumOf(f, U) # SumOf(g, U)}
<1>1. SUFFICES ASSUME T # {} PROVE FALSE
  OBVIOUS
<1>2. T \in SUBSET SUBSET S
  OBVIOUS
<1>3. PICK U \in T : \A u \in T : u \subseteq U => u = U
  <2> HIDE DEF T
  <2> QED  BY <1>1, <1>2, SmallestSubset
<1>4. IsFiniteSet(U)
  BY FS_Subset
<1>5. SumOf(f, U) = IF U = {} THEN 0 ELSE f[Pick(U)] + SumOf(f, U \ {Pick(U)})
  BY <1>4, SumStep
<1>6. SumOf(g, U) = IF U = {} THEN 0 ELSE g[Pick(U)] + SumOf(g, U \ {Pick(U)})
  BY <1>4, SumStep
<1>7. U # {} => Pick(U) \in U
  BY DEF Pick
<1>8. U # {} => SumOf(f, U \ {Pick(U)}) = SumOf(g, U \ {Pick(U)})
  BY <1>3, <1>7
<1>9. QED
  BY <1>5, <1>6, <1>7, <1>8

\* A sum after one of its values changed: one account is credited or debited.
THEOREM SumChange ==
    ASSUME NEW S, IsFiniteSet(S), NEW f, NEW g, NEW x \in S,
           \A y \in S : f[y] \in Int, g[x] \in Int,
           \A y \in S \ {x} : g[y] = f[y]
    PROVE  SumOf(g, S) = SumOf(f, S) - f[x] + g[x]
<1>1. SumOf(f, S) = f[x] + SumOf(f, S \ {x})
  BY SumRemove
<1>2. \A y \in S : g[y] \in Int
  OBVIOUS
<1>3. SumOf(g, S) = g[x] + SumOf(g, S \ {x})
  BY <1>2, SumRemove
<1>4. IsFiniteSet(S \ {x})
  BY FS_Subset
<1>5. SumOf(f, S \ {x}) = SumOf(g, S \ {x}) /\ SumOf(f, S \ {x}) \in Int
  BY <1>4, SumAgree, SumType
<1>6. QED
  BY <1>1, <1>3, <1>5


\* A sum over a set with one more element.
THEOREM SumInsert ==
    ASSUME NEW S, IsFiniteSet(S), NEW f, NEW x, x \notin S, \A y \in S \cup {x} : f[y] \in Int
    PROVE  SumOf(f, S \cup {x}) = SumOf(f, S) + f[x] /\ SumOf(f, S) \in Int
<1> DEFINE W == S \cup {x}
<1>1. IsFiniteSet(W) /\ x \in W /\ W \ {x} = S
  BY FS_AddElement
<1>2. \A y \in W : f[y] \in Int
  OBVIOUS
<1>3. SumOf(f, S) \in Int
  BY SumType
<1> HIDE DEF W
<1>4. SumOf(f, W) = f[x] + SumOf(f, W \ {x})
  BY <1>1, <1>2, SumRemove
<1>5. SumOf(f, W) = f[x] + SumOf(f, S)
  BY <1>1, <1>4, Zenon
<1>6. f[x] \in Int
  BY <1>1, <1>2
<1>7. QED
  BY <1>3, <1>5, <1>6 DEF W

\* The empty sum.
THEOREM SumEmpty == \A f : SumOf(f, {}) = 0
BY SumStep, FS_EmptySet

\* Elements whose value is 0 may be left out.
THEOREM SumFilter ==
    ASSUME NEW S, IsFiniteSet(S), NEW f, NEW V \in SUBSET S,
           \A x \in S : f[x] \in Int, \A x \in S \ V : f[x] = 0
    PROVE  SumOf(f, S) = SumOf(f, V)
<1> DEFINE T == {U \in SUBSET S : V \subseteq U /\ SumOf(f, U) # SumOf(f, V)}
<1>1. SUFFICES ASSUME T # {} PROVE FALSE
  OBVIOUS
<1>2. T \in SUBSET SUBSET S
  OBVIOUS
<1>3. PICK U \in T : \A u \in T : u \subseteq U => u = U
  <2> HIDE DEF T
  <2> QED  BY <1>1, <1>2, SmallestSubset
<1>4. PICK x \in U : x \notin V
  BY <1>3
<1>5. U \ {x} \in SUBSET S /\ V \subseteq U \ {x} /\ U \ {x} \notin T
  BY <1>3, <1>4
<1>6. SumOf(f, U \ {x}) = SumOf(f, V)
  BY <1>5
<1>7. IsFiniteSet(U) /\ IsFiniteSet(V)
  BY FS_Subset
<1>8. SumOf(f, U) = f[x] + SumOf(f, U \ {x})
  BY <1>7, SumRemove
<1>9. SumOf(f, V) \in Int
  BY <1>7, SumType
<1>10. QED
  BY <1>4, <1>6, <1>8, <1>9

\* Equal values sum to so many times the value.
THEOREM SumConstant ==
    ASSUME NEW S, IsFiniteSet(S), NEW v \in Int, NEW f, \A x \in S : f[x] = v
    PROVE  SumOf(f, S) = v * Cardinality(S)
<1> DEFINE T == {U \in SUBSET S : SumOf(f, U) # v * Cardinality(U)}
<1>1. SUFFICES ASSUME T # {} PROVE FALSE
  OBVIOUS
<1>2. T \in SUBSET SUBSET S
  OBVIOUS
<1>3. PICK U \in T : \A u \in T : u \subseteq U => u = U
  <2> HIDE DEF T
  <2> QED  BY <1>1, <1>2, SmallestSubset
<1>4. IsFiniteSet(U)
  BY FS_Subset
<1>5. SumOf(f, U) = IF U = {} THEN 0 ELSE f[Pick(U)] + SumOf(f, U \ {Pick(U)})
  BY <1>4, SumStep
<1>6. CASE U = {}
  BY <1>5, <1>6, FS_EmptySet
<1>7. CASE U # {}
  <2> DEFINE n == Cardinality(U)
  <2>1. Pick(U) \in U
    BY <1>7 DEF Pick
  <2>2. SumOf(f, U \ {Pick(U)}) = v * Cardinality(U \ {Pick(U)})
    BY <1>3, <2>1
  <2>3. Cardinality(U \ {Pick(U)}) = n - 1 /\ n \in Int
    BY <1>4, <2>1, FS_RemoveElement, FS_CardinalityType
  <2>4. SumOf(f, U) = v + SumOf(f, U \ {Pick(U)}) /\ SumOf(f, U) # v * n
    BY <1>3, <1>5, <1>7, <2>1
  <2> HIDE DEF n
  <2>5. SumOf(f, U) = v + v * (n - 1)
    BY <2>2, <2>3, <2>4
  <2>6. v + v * (n - 1) = v * n
    BY <2>3
  <2>7. QED
    BY <2>4, <2>5, <2>6
<1>8. QED
  BY <1>6, <1>7

\* Counting is summing ones.
THEOREM SumOnes ==
    ASSUME NEW S, IsFiniteSet(S), NEW f, \A x \in S : f[x] = 1
    PROVE  SumOf(f, S) = Cardinality(S)
<1>1. SumOf(f, S) = 1 * Cardinality(S) /\ Cardinality(S) \in Nat
  BY SumConstant, FS_CardinalityType
<1>2. QED
  BY <1>1


\* Leaving elements out of a sum of naturals makes it no larger.
THEOREM SumSubset ==
    ASSUME NEW S, IsFiniteSet(S), NEW f, \A x \in S : f[x] \in Nat, NEW V \in SUBSET S
    PROVE  SumOf(f, V) \in Nat /\ SumOf(f, S) \in Nat /\ SumOf(f, V) <= SumOf(f, S)
<1> DEFINE T == {U \in SUBSET S : V \subseteq U /\ ~ (SumOf(f, V) <= SumOf(f, U))}
<1>1. \A U \in SUBSET S : IsFiniteSet(U) /\ SumOf(f, U) \in Nat
  BY FS_Subset, SumNat
<1>2. SUFFICES ASSUME T # {} PROVE FALSE
  BY <1>1
<1>3. T \in SUBSET SUBSET S
  OBVIOUS
<1>4. PICK U \in T : \A u \in T : u \subseteq U => u = U
  <2> HIDE DEF T
  <2> QED  BY <1>2, <1>3, SmallestSubset
<1>5. PICK x \in U : x \notin V
  <2>1. U # V
    BY <1>1, <1>4
  <2>2. QED
    BY <1>4, <2>1
<1>6. U \ {x} \in SUBSET S /\ V \subseteq U \ {x} /\ U \ {x} \notin T
  BY <1>4, <1>5
<1>7. SumOf(f, V) <= SumOf(f, U \ {x})
  BY <1>6
<1>8. SumOf(f, U) = f[x] + SumOf(f, U \ {x})
  <2>1. \A y \in U : f[y] \in Int
    BY <1>3, <1>4
  <2>2. QED
    BY <1>1, <1>4, <2>1, SumRemove
<1>9. f[x] \in Nat /\ SumOf(f, U \ {x}) \in Nat /\ SumOf(f, V) \in Nat
  BY <1>1, <1>4, <1>6
<1>10. QED
  BY <1>4, <1>7, <1>8, <1>9

\* A bound on each term, linear in another sum's terms, bounds the sum.
THEOREM SumLinear ==
    ASSUME NEW S, IsFiniteSet(S), NEW c \in Int, NEW f, NEW g, NEW h,
           \A x \in S : f[x] \in Int /\ g[x] \in Int /\ h[x] \in Int,
           \A x \in S : h[x] <= f[x] + c * g[x]
    PROVE  SumOf(h, S) <= SumOf(f, S) + c * SumOf(g, S)
<1> DEFINE T == {U \in SUBSET S : ~ (SumOf(h, U) <= SumOf(f, U) + c * SumOf(g, U))}
<1>1. SUFFICES ASSUME T # {} PROVE FALSE
  OBVIOUS
<1>2. T \in SUBSET SUBSET S
  OBVIOUS
<1>3. PICK U \in T : \A u \in T : u \subseteq U => u = U
  <2> HIDE DEF T
  <2> QED  BY <1>1, <1>2, SmallestSubset
<1>4. IsFiniteSet(U) /\ U \in SUBSET S
  BY FS_Subset
<1>5. CASE U = {}
  <2>1. SumOf(f, U) = 0 /\ SumOf(g, U) = 0 /\ SumOf(h, U) = 0
    BY <1>5, SumEmpty
  <2>2. 0 <= 0 + c * 0
    OBVIOUS
  <2>3. QED
    BY <2>1, <2>2
<1>6. CASE U # {}
  <2>1. PICK x \in U : TRUE
    BY <1>6
  <2> DEFINE V == U \ {x}
  <2>2. IsFiniteSet(V) /\ V \in SUBSET S /\ V \notin T
    BY <1>3, <1>4, FS_Subset
  <2>3. SumOf(h, V) <= SumOf(f, V) + c * SumOf(g, V)
    BY <2>2
  <2>4. /\ \A y \in U : f[y] \in Int /\ g[y] \in Int /\ h[y] \in Int
        /\ \A y \in V : f[y] \in Int /\ g[y] \in Int /\ h[y] \in Int
    BY <1>4
  <2>5. /\ SumOf(f, U) = f[x] + SumOf(f, V) /\ SumOf(g, U) = g[x] + SumOf(g, V)
        /\ SumOf(h, U) = h[x] + SumOf(h, V)
    BY <1>4, <2>4, SumRemove
  <2>6. SumOf(f, V) \in Int /\ SumOf(g, V) \in Int /\ SumOf(h, V) \in Int
    <3> HIDE DEF V
    <3>1. QED
      BY <2>2, <2>4, SumType
  <2> HIDE DEF V
  <2>7. \A a, b, d, e, p, q \in Int :
           a <= b + c * d /\ p <= q + c * e => a + p <= b + q + c * (d + e)
    OBVIOUS
  <2>8. h[x] <= f[x] + c * g[x]
    BY <1>4
  <2>9. SumOf(h, U) <= SumOf(f, U) + c * SumOf(g, U)
    BY <2>3, <2>4, <2>5, <2>6, <2>7, <2>8
  <2>10. QED
    BY <1>3, <2>9
<1>7. QED
  BY <1>5, <1>6
=============================================================================
