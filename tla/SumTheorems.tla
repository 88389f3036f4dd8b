------------------------------ MODULE SumTheorems ------------------------------
(***************************************************************************)
(* Induction in the form the proofs need it, over a set of numbers or of   *)
(* subsets for which a claim holds, and what SumFunctionOnSet computes.    *)
(***************************************************************************)
EXTENDS Integers, FiniteSets, Functions, FiniteSetTheorems, WellFoundedInduction, TLAPS

LEMMA SmallestNumber ==
    ASSUME NEW S \in SUBSET Nat, S # {}
    PROVE  \E n \in S : \A m \in S : n <= m
<1> DEFINE Less == OpToRel(<, Nat)
<1>1. PICK n \in S : \A m \in S : ~(<<m, n>> \in Less)
  <2>1. IsWellFoundedOn(Less, Nat)
    BY NatLessThanWellFounded
  <2>2. IsWellFoundedOn(Less, S)
    <3> HIDE DEF Less
    <3> QED BY <2>1, IsWellFoundedOnSubset
  <2> HIDE DEF Less
  <2> QED BY <2>2, WFMin
<1>2. \A m \in S : ~(m < n)
  BY <1>1 DEF OpToRel
<1> QED BY <1>2

\* Induction over the natural numbers; Holds is the set of those for which the
\* claim holds.
LEMMA NaturalInduction ==
    ASSUME NEW Holds, 0 \in Holds, \A n \in Nat : n \in Holds => n + 1 \in Holds
    PROVE  Nat \subseteq Holds
<1> SUFFICES ASSUME Nat \ Holds # {} PROVE FALSE
  OBVIOUS
<1>1. PICK n \in Nat \ Holds : \A m \in Nat \ Holds : n <= m
  BY SmallestNumber
<1>2. n # 0 /\ n - 1 \in Nat
  OBVIOUS
<1> QED BY <1>1, <1>2

\* f is defined from 0 on, each value from the one before.
IsIteration(f, N, b, G) == f = [i \in 0..N |-> IF i = 0 THEN b ELSE G[<<f[i - 1], i>>]]

LEMMA Iteration ==
    ASSUME NEW N \in Nat, NEW V, NEW b \in V, NEW G \in [V \X (1..N) -> V]
    PROVE  \E f \in [0..N -> V] : IsIteration(f, N, b, G)
<1> DEFINE Rest(f, i) == IF i = 0 THEN b ELSE G[<<f[i - 1], i>>]
           Holds == {n \in Nat : n <= N => \E f \in [0..N -> V] : \A i \in 0..n : f[i] = Rest(f, i)}
<1>1. 0 \in Holds
  <2> DEFINE f == [i \in 0..N |-> b]
  <2>1. f \in [0..N -> V] /\ \A i \in 0..0 : f[i] = Rest(f, i)
    OBVIOUS
  <2> QED BY <2>1
<1>2. ASSUME NEW n \in Nat, n \in Holds PROVE n + 1 \in Holds
  <2> SUFFICES ASSUME n + 1 <= N PROVE \E f \in [0..N -> V] : \A i \in 0..(n + 1) : f[i] = Rest(f, i)
    OBVIOUS
  <2>1. PICK f \in [0..N -> V] : \A i \in 0..n : f[i] = Rest(f, i)
    BY <1>2
  <2> DEFINE g == [f EXCEPT ![n + 1] = G[<<f[n], n + 1>>]]
  <2>2. f[n] \in V /\ G[<<f[n], n + 1>>] \in V
    OBVIOUS
  <2>3. g \in [0..N -> V]
    BY <2>2
  <2>4. ASSUME NEW i \in 0..(n + 1) PROVE g[i] = Rest(g, i)
    <3>1. CASE i = n + 1
      <4>1. g[i] = G[<<f[n], n + 1>>] /\ g[i - 1] = f[n]
        BY <3>1
      <4> HIDE DEF g
      <4> QED BY <3>1, <4>1
    <3>2. CASE i # n + 1
      <4>1. g[i] = f[i] /\ (i # 0 => g[i - 1] = f[i - 1])
        BY <3>2
      <4>2. f[i] = Rest(f, i)
        BY <2>1, <3>2
      <4> HIDE DEF g
      <4> QED BY <4>1, <4>2
    <3> QED BY <3>1, <3>2
  <2> HIDE DEF g
  <2> QED BY <2>3, <2>4
<1> HIDE DEF Holds
<1>3. N \in Holds
  BY <1>1, <1>2, NaturalInduction
<1>4. PICK f \in [0..N -> V] : \A i \in 0..N : f[i] = Rest(f, i)
  BY <1>3 DEF Holds
<1> QED BY <1>4 DEF IsIteration

\* Induction over the subsets of a finite set.
LEMMA SubsetInduction ==
    ASSUME NEW S, IsFiniteSet(S), NEW Holds,
           \A T \in SUBSET S : (\A x \in T : T \ {x} \in Holds) => T \in Holds
    PROVE  SUBSET S \subseteq Holds
<1> SUFFICES ASSUME (SUBSET S) \ Holds # {} PROVE FALSE
  OBVIOUS
<1>1. IsWellFoundedOn(StrictSubsetOrdering(S), SUBSET S)
  <2>1. FiniteSubsetsOf(S) = SUBSET S
    BY FS_FiniteSubsetsOfFinite
  <2>2. IsWellFoundedOn(StrictSubsetOrdering(S), FiniteSubsetsOf(S))
    BY FS_StrictSubsetOrderingWellFounded
  <2> QED BY <2>1, <2>2
<1>2. PICK T \in (SUBSET S) \ Holds :
             \A U \in (SUBSET S) \ Holds : ~(<<U, T>> \in StrictSubsetOrdering(S))
  BY <1>1, WFMin
<1>3. \A x \in T : T \ {x} \in Holds
  <2>1. SUFFICES ASSUME NEW x \in T, T \ {x} \notin Holds PROVE FALSE
    OBVIOUS
  <2>2. <<T \ {x}, T>> \in StrictSubsetOrdering(S)
    BY DEF StrictSubsetOrdering
  <2> QED BY <1>2, <2>1, <2>2
<1> QED BY <1>2, <1>3

LEMMA SmallerSubset ==
    ASSUME NEW S, IsFiniteSet(S), NEW T \in SUBSET S
    PROVE  /\ IsFiniteSet(T) /\ Cardinality(T) \in Nat /\ (Cardinality(T) = 0 <=> T = {})
           /\ \A x \in T : Cardinality(T \ {x}) = Cardinality(T) - 1
BY FS_Subset, FS_CardinalityType, FS_EmptySet, FS_RemoveElement

\* In a finite set with a strict order R there is somebody with i elements
\* before it, for every i below the size of the set.
LEMMA EveryRankIsTaken ==
    ASSUME NEW S, IsFiniteSet(S), NEW R,
           \A m \in S : <<m, m>> \notin R,
           \A m, n \in S : m # n => <<m, n>> \in R \/ <<n, m>> \in R,
           \A l, m, n \in S : <<l, m>> \in R /\ <<m, n>> \in R => <<l, n>> \in R
    PROVE  \A i \in 1..Cardinality(S) : \E n \in S : Cardinality({m \in S : <<m, n>> \in R}) = i - 1
<1> DEFINE Below(n) == {m \in S : <<m, n>> \in R}
           rank == [n \in S |-> Cardinality(Below(n))]
           Ranks == 0..(Cardinality(S) - 1)
<1>1. ASSUME NEW n \in S PROVE IsFiniteSet(Below(n)) /\ Cardinality(Below(n)) \in Nat
  BY FS_Subset, FS_CardinalityType
<1>2. ASSUME NEW n \in S PROVE Cardinality(Below(n)) \in Ranks
  <2>1. Below(n) \in SUBSET (S \ {n})
    OBVIOUS
  <2>2. IsFiniteSet(S \ {n}) /\ Cardinality(S \ {n}) = Cardinality(S) - 1 /\ Cardinality(S) \in Nat
    BY FS_RemoveElement, FS_CardinalityType
  <2>3. Cardinality(Below(n)) <= Cardinality(S \ {n})
    BY <2>1, <2>2, FS_Subset
  <2> QED BY <1>1, <2>2, <2>3
<1>3. ASSUME NEW m \in S, NEW n \in S, <<m, n>> \in R PROVE Cardinality(Below(m)) < Cardinality(Below(n))
  <2>1. Below(m) \in SUBSET (Below(n) \ {m}) /\ m \in Below(n)
    BY <1>3
  <2>2. IsFiniteSet(Below(n) \ {m}) /\ Cardinality(Below(n) \ {m}) = Cardinality(Below(n)) - 1
    BY <1>1, <2>1, FS_RemoveElement
  <2>3. Cardinality(Below(m)) <= Cardinality(Below(n) \ {m})
    BY <2>1, <2>2, FS_Subset
  <2> HIDE DEF Below
  <2> QED BY <1>1, <2>2, <2>3
<1> HIDE DEF Below
<1>4. rank \in Injection(S, Ranks)
  <2>1. ASSUME NEW m \in S, NEW n \in S, m # n PROVE rank[m] # rank[n]
    <3>1. Cardinality(Below(m)) < Cardinality(Below(n)) \/ Cardinality(Below(n)) < Cardinality(Below(m))
      BY <1>3, <2>1
    <3>2. Cardinality(Below(m)) \in Nat /\ Cardinality(Below(n)) \in Nat
      BY <1>1
    <3> QED BY <3>1, <3>2
  <2>2. rank \in [S -> Ranks]
    BY <1>2
  <2> HIDE DEF rank
  <2> QED BY <2>1, <2>2 DEF Injection, IsInjective
<1>5. IsFiniteSet(Ranks) /\ Cardinality(Ranks) = Cardinality(S)
  <2>1. Cardinality(S) \in Nat
    BY FS_CardinalityType
  <2>2. 0 \in Int /\ Cardinality(S) - 1 \in Int
    BY <2>1
  <2> QED BY <2>1, <2>2, FS_Interval
<1>6. rank \in Surjection(S, Ranks)
  <2> HIDE DEF rank, Ranks
  <2> QED BY <1>4, <1>5, FS_Injection
<1>7. \A r \in Ranks : \E n \in S : rank[n] = r
  BY <1>6 DEF Surjection
<1>8. \A i \in 1..Cardinality(S) : i - 1 \in Ranks
  BY FS_CardinalityType
<1> QED BY <1>7, <1>8 DEF Below

----------------------------------------------------------------------------
(* Sums *)

Some(T) == CHOOSE x \in T : TRUE

\* g gives the sum of f for every subset of S.
IsSum(g, f, S) ==
    g = [T \in SUBSET S |-> IF T = {} THEN 0 ELSE f[Some(T)] + g[T \ {Some(T)}]]

LEMMA SumExists ==
    ASSUME NEW S, IsFiniteSet(S), NEW f, \A x \in S : f[x] \in Int
    PROVE  \E g : IsSum(g, f, S)
<1> DEFINE Rest(g, T) == IF T = {} THEN 0 ELSE f[Some(T)] + g[T \ {Some(T)}]
           UpTo(n) == {T \in SUBSET S : Cardinality(T) <= n}
           Holds == {n \in Nat : \E g \in [SUBSET S -> Int] : \A T \in UpTo(n) : g[T] = Rest(g, T)}
<1>1. 0 \in Holds
  <2>1. \A T \in UpTo(0) : T = {}
    BY SmallerSubset
  <2> DEFINE g == [T \in SUBSET S |-> 0]
  <2>2. g \in [SUBSET S -> Int] /\ \A T \in UpTo(0) : g[T] = Rest(g, T)
    BY <2>1
  <2> QED BY <2>2
<1>2. ASSUME NEW n \in Nat, n \in Holds PROVE n + 1 \in Holds
  <2>1. PICK g \in [SUBSET S -> Int] : \A T \in UpTo(n) : g[T] = Rest(g, T)
    BY <1>2
  <2> DEFINE h == [T \in SUBSET S |-> IF T \in UpTo(n) THEN g[T] ELSE Rest(g, T)]
  <2>2. \A T \in SUBSET S : T # {} => Some(T) \in T
    BY DEF Some
  <2>3. h \in [SUBSET S -> Int]
    BY <2>2
  <2>4. ASSUME NEW T \in UpTo(n + 1) PROVE h[T] = Rest(h, T)
    <3>1. CASE T = {}
      BY <2>1, <3>1
    <3>2. CASE T # {}
      <4>1. Some(T) \in T /\ T \ {Some(T)} \in UpTo(n)
        BY <2>2, <3>2, SmallerSubset
      <4>2. h[T \ {Some(T)}] = g[T \ {Some(T)}]
        BY <4>1
      <4> QED BY <2>1, <3>2, <4>2
    <3> QED BY <3>1, <3>2
  <2> HIDE DEF h, UpTo, Rest
  <2> QED BY <2>3, <2>4
<1>3. Cardinality(S) \in Holds
  <2> HIDE DEF Holds
  <2> QED BY <1>1, <1>2, NaturalInduction, FS_CardinalityType
<1>4. PICK g \in [SUBSET S -> Int] : \A T \in UpTo(Cardinality(S)) : g[T] = Rest(g, T)
  BY <1>3
<1>5. \A T \in SUBSET S : T \in UpTo(Cardinality(S))
  BY FS_Subset, SmallerSubset
<1> QED BY <1>4, <1>5 DEF IsSum

LEMMA SumIsInt ==
    ASSUME NEW S, IsFiniteSet(S), NEW f, \A x \in S : f[x] \in Int, NEW g, IsSum(g, f, S)
    PROVE  \A T \in SUBSET S : g[T] \in Int
<1> DEFINE Holds == {T \in SUBSET S : g[T] \in Int}
<1>1. ASSUME NEW T \in SUBSET S, \A x \in T : T \ {x} \in Holds PROVE T \in Holds
  <2>1. CASE T = {}
    BY <2>1 DEF IsSum
  <2>2. CASE T # {}
    <3>1. Some(T) \in T
      BY <2>2 DEF Some
    <3>2. g[T] = f[Some(T)] + g[T \ {Some(T)}]
      BY <2>2 DEF IsSum
    <3> QED BY <1>1, <3>1, <3>2
  <2> QED BY <2>1, <2>2
<1> HIDE DEF Holds
<1>2. SUBSET S \subseteq Holds
  BY <1>1, SubsetInduction
<1> QED BY <1>2 DEF Holds

\* Any element may be taken first.
LEMMA SumAnyOrder ==
    ASSUME NEW S, IsFiniteSet(S), NEW f, \A x \in S : f[x] \in Int, NEW g, IsSum(g, f, S)
    PROVE  \A T \in SUBSET S : \A x \in T : g[T] = f[x] + g[T \ {x}]
<1> DEFINE Holds == {T \in SUBSET S : \A x \in T : g[T] = f[x] + g[T \ {x}]}
<1>1. ASSUME NEW T \in SUBSET S, \A x \in T : T \ {x} \in Holds, NEW x \in T
      PROVE  g[T] = f[x] + g[T \ {x}]
  <2> DEFINE y == Some(T)
  <2>1. y \in T
    BY DEF Some
  <2>2. g[T] = f[y] + g[T \ {y}]
    BY <1>1 DEF IsSum
  <2> HIDE DEF y
  <2>3. CASE x # y
    <3> DEFINE both == (T \ {y}) \ {x}
    <3>1. g[T \ {y}] = f[x] + g[both]
      BY <1>1, <2>1, <2>3
    <3>2. both = (T \ {x}) \ {y}
      OBVIOUS
    <3>3. g[T \ {x}] = f[y] + g[both]
      <4> HIDE DEF both
      <4> QED BY <1>1, <2>1, <2>3, <3>2
    <3>4. g[both] \in Int /\ f[x] \in Int /\ f[y] \in Int
      BY <2>1, SumIsInt
    <3> HIDE DEF both
    <3> QED BY <2>2, <3>1, <3>3, <3>4
  <2> QED BY <2>2, <2>3
<1>2. \A T \in SUBSET S : (\A x \in T : T \ {x} \in Holds) => T \in Holds
  BY <1>1
<1> HIDE DEF Holds
<1>3. SUBSET S \subseteq Holds
  BY <1>2, SubsetInduction
<1> QED BY <1>3 DEF Holds

\* What is summed up beside T, or outside it, does not matter.
LEMMA SumLocal ==
    ASSUME NEW S, IsFiniteSet(S), NEW f, NEW g, IsSum(g, f, S),
           NEW R, NEW h, NEW k, IsSum(k, h, R),
           NEW T \in SUBSET S, T \subseteq R, \A x \in T : f[x] = h[x]
    PROVE  g[T] = k[T]
<1> DEFINE Holds == {U \in SUBSET T : g[U] = k[U]}
<1>1. IsFiniteSet(T)
  BY FS_Subset
<1>2. ASSUME NEW U \in SUBSET T, \A x \in U : U \ {x} \in Holds PROVE g[U] = k[U]
  <2>1. U # {} => Some(U) \in U
    BY DEF Some
  <2>2. U \in SUBSET S /\ U \in SUBSET R
    OBVIOUS
  <2>3. CASE U = {}
    BY <2>2, <2>3 DEF IsSum
  <2>4. CASE U # {}
    <3>1. g[U] = f[Some(U)] + g[U \ {Some(U)}]
      BY <2>2, <2>4 DEF IsSum
    <3>2. k[U] = h[Some(U)] + k[U \ {Some(U)}]
      BY <2>2, <2>4 DEF IsSum
    <3>3. f[Some(U)] = h[Some(U)] /\ g[U \ {Some(U)}] = k[U \ {Some(U)}]
      BY <1>2, <2>1, <2>4
    <3> QED BY <3>1, <3>2, <3>3
  <2> QED BY <2>3, <2>4
<1>3. \A U \in SUBSET T : (\A x \in U : U \ {x} \in Holds) => U \in Holds
  BY <1>2
<1> HIDE DEF Holds
<1>4. SUBSET T \subseteq Holds
  BY <1>1, <1>3, SubsetInduction
<1> QED BY <1>4 DEF Holds

----------------------------------------------------------------------------
(* SumFunctionOnSet *)

LEMMA SumIsSum ==
    ASSUME NEW S, IsFiniteSet(S), NEW f, \A x \in S : f[x] \in Int
    PROVE  \E g : IsSum(g, f, S) /\ SumFunctionOnSet(f, S) = g[S]
<1> DEFINE g == CHOOSE g : IsSum(g, f, S)
<1>1. SumFunctionOnSet(f, S) = g[S]
  BY DEF SumFunctionOnSet, FoldFunctionOnSet, MapThenFoldSet, IsSum, Some
<1>2. IsSum(g, f, S)
  BY SumExists
<1> QED BY <1>1, <1>2

\* The sum over no elements is 0, whatever the function.
LEMMA SumEmpty == ASSUME NEW f PROVE SumFunctionOnSet(f, {}) = 0
<1>1. PICK g : IsSum(g, f, {}) /\ SumFunctionOnSet(f, {}) = g[{}]
  BY SumIsSum, FS_EmptySet
<1> QED BY <1>1 DEF IsSum

LEMMA SumType ==
    ASSUME NEW S, IsFiniteSet(S), NEW f, \A x \in S : f[x] \in Int
    PROVE  SumFunctionOnSet(f, S) \in Int
<1>1. PICK g : IsSum(g, f, S) /\ SumFunctionOnSet(f, S) = g[S]
  BY SumIsSum
<1> QED BY <1>1, SumIsInt

\* Functions that agree on S have the same sum over S.
LEMMA SumSame ==
    ASSUME NEW S, IsFiniteSet(S), NEW f, \A x \in S : f[x] \in Int,
           NEW h, \A x \in S : f[x] = h[x]
    PROVE  SumFunctionOnSet(f, S) = SumFunctionOnSet(h, S)
<1>1. PICK g : IsSum(g, f, S) /\ SumFunctionOnSet(f, S) = g[S]
  BY SumIsSum
<1>2. PICK k : IsSum(k, h, S) /\ SumFunctionOnSet(h, S) = k[S]
  BY SumIsSum
<1>3. S \in SUBSET S
  OBVIOUS
<1>4. g[S] = k[S]
  BY <1>1, <1>2, <1>3, SumLocal
<1> QED BY <1>1, <1>2, <1>4

\* One element counted by itself.
LEMMA SumWithout ==
    ASSUME NEW S, IsFiniteSet(S), NEW f, \A x \in S : f[x] \in Int, NEW x \in S
    PROVE  SumFunctionOnSet(f, S) = f[x] + SumFunctionOnSet(f, S \ {x})
<1>1. PICK g : IsSum(g, f, S) /\ SumFunctionOnSet(f, S) = g[S]
  BY SumIsSum
<1>2. IsFiniteSet(S \ {x})
  BY FS_Subset
<1>3. PICK k : IsSum(k, f, S \ {x}) /\ SumFunctionOnSet(f, S \ {x}) = k[S \ {x}]
  BY <1>2, SumIsSum
<1>4. S \in SUBSET S /\ S \ {x} \in SUBSET S
  OBVIOUS
<1>5. g[S \ {x}] = k[S \ {x}]
  BY <1>1, <1>3, <1>4, SumLocal
<1>6. g[S] = f[x] + g[S \ {x}]
  BY <1>1, <1>4, SumAnyOrder
<1> QED BY <1>1, <1>3, <1>5, <1>6

LEMMA SumOfZeros ==
    ASSUME NEW S, IsFiniteSet(S), NEW f, \A x \in S : f[x] = 0
    PROVE  SumFunctionOnSet(f, S) = 0
<1> DEFINE Holds == {T \in SUBSET S : SumFunctionOnSet(f, T) = 0}
<1>1. ASSUME NEW T \in SUBSET S, \A x \in T : T \ {x} \in Holds PROVE SumFunctionOnSet(f, T) = 0
  <2>1. CASE T = {}
    BY <2>1, SumEmpty
  <2>2. CASE T # {}
    <3>1. PICK x \in T : TRUE
      BY <2>2
    <3>2. IsFiniteSet(T) /\ \A y \in T : f[y] \in Int
      BY FS_Subset
    <3>3. SumFunctionOnSet(f, T) = f[x] + SumFunctionOnSet(f, T \ {x})
      BY <3>1, <3>2, SumWithout
    <3> QED BY <1>1, <3>1, <3>3
  <2> QED BY <2>1, <2>2
<1>2. \A T \in SUBSET S : (\A x \in T : T \ {x} \in Holds) => T \in Holds
  BY <1>1
<1> HIDE DEF Holds
<1>3. SUBSET S \subseteq Holds
  BY <1>2, SubsetInduction
<1> QED BY <1>3 DEF Holds

LEMMA SumAdd ==
    ASSUME NEW S, IsFiniteSet(S), NEW f, \A y \in S : f[y] \in Int, NEW x, x \notin S, f[x] \in Int
    PROVE  SumFunctionOnSet(f, S \cup {x}) = f[x] + SumFunctionOnSet(f, S)
<1>1. IsFiniteSet(S \cup {x})
  BY FS_AddElement
<1>2. (S \cup {x}) \ {x} = S
  OBVIOUS
<1> HIDE DEF SumFunctionOnSet
<1> QED BY <1>1, <1>2, SumWithout

\* One value changes.
LEMMA SumUpdate ==
    ASSUME NEW S, IsFiniteSet(S), NEW f, \A y \in S : f[y] \in Int,
           NEW h, NEW x \in S, h[x] \in Int, \A y \in S : y # x => h[y] = f[y]
    PROVE  SumFunctionOnSet(h, S) = SumFunctionOnSet(f, S) + h[x] - f[x]
<1>1. \A y \in S : h[y] \in Int
  OBVIOUS
<1>2. SumFunctionOnSet(h, S) = h[x] + SumFunctionOnSet(h, S \ {x})
  BY <1>1, SumWithout
<1>3. SumFunctionOnSet(f, S) = f[x] + SumFunctionOnSet(f, S \ {x})
  BY SumWithout
<1>4. IsFiniteSet(S \ {x})
  BY FS_Subset
<1>5. SumFunctionOnSet(f, S \ {x}) = SumFunctionOnSet(h, S \ {x})
  BY <1>4, SumSame
<1>6. SumFunctionOnSet(f, S \ {x}) \in Int
  BY <1>4, SumType
<1> QED BY <1>2, <1>3, <1>5, <1>6

LEMMA SumOfFewer ==
    ASSUME NEW S, IsFiniteSet(S), NEW f, \A x \in S : f[x] \in Nat
    PROVE  \A T \in SUBSET S : SumFunctionOnSet(f, T) <= SumFunctionOnSet(f, S)
<1> DEFINE Holds == {U \in SUBSET S : \A T \in SUBSET U : SumFunctionOnSet(f, T) <= SumFunctionOnSet(f, U)}
<1>1. \A U \in SUBSET S : IsFiniteSet(U) /\ (\A x \in U : f[x] \in Int) /\ SumFunctionOnSet(f, U) \in Int
  <2> TAKE U \in SUBSET S
  <2>1. IsFiniteSet(U) /\ \A x \in U : f[x] \in Int
    BY FS_Subset
  <2> QED BY <2>1, SumType
<1>2. ASSUME NEW U \in SUBSET S, \A x \in U : U \ {x} \in Holds, NEW T \in SUBSET U
      PROVE  SumFunctionOnSet(f, T) <= SumFunctionOnSet(f, U)
  <2> HIDE DEF SumFunctionOnSet
  <2>1. CASE T = U
    BY <1>1, <2>1
  <2>2. CASE T # U
    <3>1. PICK x \in U : x \notin T
      BY <2>2
    <3>2. SumFunctionOnSet(f, T) <= SumFunctionOnSet(f, U \ {x})
      BY <1>2, <3>1
    <3>3. SumFunctionOnSet(f, U) = f[x] + SumFunctionOnSet(f, U \ {x})
      BY <1>1, SumWithout
    <3>4. /\ SumFunctionOnSet(f, T) \in Int /\ SumFunctionOnSet(f, U) \in Int
          /\ SumFunctionOnSet(f, U \ {x}) \in Int /\ f[x] \in Nat
      BY <1>1
    <3> QED BY <3>2, <3>3, <3>4
  <2> QED BY <2>1, <2>2
<1>3. \A U \in SUBSET S : (\A x \in U : U \ {x} \in Holds) => U \in Holds
  BY <1>2
<1> HIDE DEF Holds
<1>4. SUBSET S \subseteq Holds
  BY <1>3, SubsetInduction
<1> QED BY <1>4 DEF Holds
=============================================================================
