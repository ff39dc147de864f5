----------------------------- MODULE HlsProofs -----------------------------
(***************************************************************************)
(* Theorems about HlsScheduler and HlsFairness, for all trees and weights, *)
(* mtus and packet lengths, with and without removals.  The inductive      *)
(* invariant IInv states the bookkeeping at every step inside a handler:   *)
(* which class is on its way to busy or idle, and which leaf is idle but   *)
(* still in the list.  Every action has a lemma of its own.                *)
(***************************************************************************)
EXTENDS HlsFairness, FiniteSetTheorems, WellFoundedInduction, TLAPS

(***************************************************************************)
(* Facts about sums.  Sum is defined by recursion along arbitrary choices; *)
(* that there is a function that satisfies this recursion, and that it     *)
(* does not depend on the choices, is proved by least counterexamples.     *)
(***************************************************************************)

\* A nonempty set of naturals has a least element.
LEMMA LeastNatural ==
  ASSUME NEW S \in SUBSET Nat, S # {}
  PROVE  \E x \in S : \A y \in S : x <= y
<1> DEFINE R == {ss \in Nat \X Nat : ss[1] < ss[2]}
<1>1. IsWellFoundedOn(R, Nat)
  BY NatLessThanWellFounded DEF OpToRel
<1> HIDE DEF R
<1>2. PICK x \in S : \A y \in S : ~ (<<y, x>> \in R)
  BY <1>1, WFMin
<1>3. \A y \in S : x <= y
  <2> TAKE y \in S
  <2>1. ~ (<<y, x>> \in R) /\ x \in Nat /\ y \in Nat
    BY <1>2
  <2>2. ~(y < x)
    BY <2>1 DEF R
  <2> QED BY <2>1, <2>2
<1> QED BY <1>3

\* Induction over the subsets of a finite set: a family that has a set when it
\* has all sets with one element less has all sets.
LEMMA SmallerSubsetInduction ==
  ASSUME NEW D, IsFiniteSet(D), NEW G \in SUBSET SUBSET D,
         \A S \in SUBSET D : (\A x \in S : S \ {x} \in G) => S \in G
  PROVE  SUBSET D \subseteq G
<1> DEFINE Bad == (SUBSET D) \ G
<1> SUFFICES ASSUME Bad # {} PROVE FALSE
  OBVIOUS
<1> DEFINE sizes == {Cardinality(S) : S \in Bad}
<1>1. \A S \in SUBSET D : IsFiniteSet(S) /\ Cardinality(S) \in Nat
  BY FS_Subset, FS_CardinalityType
<1>2. sizes \in SUBSET Nat /\ sizes # {}
  BY <1>1
<1>3. PICK n \in sizes : \A k \in sizes : n <= k
  BY <1>2, LeastNatural
<1>4. PICK S \in Bad : n = Cardinality(S)
  OBVIOUS
<1>5. ASSUME NEW x \in S
      PROVE  S \ {x} \in G
  <2>1. S \ {x} \in SUBSET D /\ Cardinality(S \ {x}) = n - 1 /\ n \in Nat
    BY <1>1, <1>4, FS_RemoveElement
  <2> QED BY <1>3, <2>1
<1> QED BY <1>4, <1>5

\* Its simpler form: a family that has the empty set and grows by any element.
LEMMA SubsetInduction ==
  ASSUME NEW D, IsFiniteSet(D), NEW G \in SUBSET SUBSET D,
         {} \in G, \A S \in G, x \in D : x \notin S => S \cup {x} \in G
  PROVE  SUBSET D \subseteq G
<1>1. ASSUME NEW S \in SUBSET D, \A x \in S : S \ {x} \in G
      PROVE  S \in G
  <2>1. CASE S = {}
    BY <2>1
  <2>2. CASE S # {}
    <3>1. PICK x \in S : TRUE
      BY <2>2
    <3>2. (S \ {x}) \cup {x} \in G
      BY <1>1
    <3>3. (S \ {x}) \cup {x} = S
      OBVIOUS
    <3> QED BY <3>2, <3>3
  <2> QED BY <2>1, <2>2
<1> QED BY <1>1, SmallerSubsetInduction

\* A function on the subsets of D that adds up f.
Additive(F, f, D) ==
  /\ F \in [SUBSET D -> Int]
  /\ F[{}] = 0
  /\ \A x \in D : f[x] \in Int
  /\ \A S \in SUBSET D, x \in D : x \notin S => F[S \cup {x}] = F[S] + f[x]

\* On every subset of a finite set there is a function that is additive.
LEMMA AdditiveExists ==
  ASSUME NEW D, IsFiniteSet(D), NEW f, \A x \in D : f[x] \in Int
  PROVE  \E F : Additive(F, f, D)
<1> DEFINE G == {S \in SUBSET D : \E F : Additive(F, f, S)}
<1>1. {} \in G
  <2>1. Additive([S \in SUBSET {} |-> 0], f, {})
    BY DEF Additive
  <2> QED BY <2>1
<1>2. ASSUME NEW S \in G, NEW d \in D, d \notin S
      PROVE  S \cup {d} \in G
  <2>1. PICK F : Additive(F, f, S)
    OBVIOUS
  <2> DEFINE E == [T \in SUBSET (S \cup {d}) |-> F[T \ {d}] + (IF d \in T THEN f[d] ELSE 0)]
  <2>2. \A T \in SUBSET (S \cup {d}) : T \ {d} \in SUBSET S
    OBVIOUS
  <2>3. f[d] \in Int /\ \A T \in SUBSET S : F[T] \in Int
    BY <2>1 DEF Additive
  <2>4. E \in [SUBSET (S \cup {d}) -> Int]
    BY <2>2, <2>3
  <2>5. E[{}] = 0
    <3>1. {} \ {d} = {} /\ {} \in SUBSET (S \cup {d})
      OBVIOUS
    <3>2. E[{}] = F[{}] + 0
      BY <3>1
    <3> QED BY <2>1, <3>2 DEF Additive
  <2>6. ASSUME NEW T \in SUBSET (S \cup {d}), NEW x \in S \cup {d}, x \notin T
        PROVE  E[T \cup {x}] = E[T] + f[x]
    <3>0. T \cup {x} \in SUBSET (S \cup {d}) /\ T \ {d} \in SUBSET S
      OBVIOUS
    <3>1. CASE x = d
      <4>1. (T \cup {x}) \ {d} = T \ {d} /\ d \notin T /\ d \in T \cup {x}
        BY <2>6, <3>1
      <4>2. E[T \cup {x}] = F[T \ {d}] + f[d] /\ E[T] = F[T \ {d}] + 0
        BY <3>0, <4>1
      <4> QED BY <2>3, <3>0, <3>1, <4>2
    <3>2. CASE x # d
      <4>1. (T \cup {x}) \ {d} = (T \ {d}) \cup {x} /\ x \in S /\ x \notin T \ {d}
        BY <2>6, <3>2
      <4>2. F[(T \ {d}) \cup {x}] = F[T \ {d}] + f[x]
        BY <2>1, <3>0, <4>1 DEF Additive
      <4>3. d \in T \cup {x} <=> d \in T
        BY <3>2
      <4>4. /\ E[T \cup {x}] = F[(T \cup {x}) \ {d}] + (IF d \in T \cup {x} THEN f[d] ELSE 0)
            /\ E[T] = F[T \ {d}] + (IF d \in T THEN f[d] ELSE 0)
        BY <3>0
      <4>5. f[x] \in Int /\ F[T \ {d}] \in Int
        BY <2>3, <3>0, <4>1
      <4> DEFINE v == IF d \in T THEN f[d] ELSE 0
      <4>6. v \in Int
        BY <2>3
      <4>7. E[T \cup {x}] = (F[T \ {d}] + f[x]) + v /\ E[T] = F[T \ {d}] + v
        BY <4>1, <4>2, <4>3, <4>4
      <4> HIDE DEF v, E
      <4> QED BY <4>5, <4>6, <4>7
    <3> QED BY <3>1, <3>2
  <2>7. Additive(E, f, S \cup {d})
    BY <2>3, <2>4, <2>5, <2>6 DEF Additive
  <2> QED BY <2>7
<1> HIDE DEF G
<1>3. SUBSET D \subseteq G
  <2>1. G \in SUBSET SUBSET D
    BY DEF G
  <2> QED BY <1>1, <1>2, <2>1, SubsetInduction
<1>4. D \in G
  BY <1>3
<1> QED BY <1>4 DEF G
\* The sum is what any additive function makes of the set.
LEMMA SumIsAdditive ==
  ASSUME NEW D, IsFiniteSet(D), NEW f, NEW F, Additive(F, f, D)
  PROVE  \A S \in SUBSET D : Sum(f, S) = F[S]
<1> SUFFICES ASSUME NEW S \in SUBSET D PROVE Sum(f, S) = F[S]
  OBVIOUS
<1> DEFINE step(g, T) ==
      IF T = {} THEN 0
      ELSE LET c == CHOOSE c \in T : TRUE IN f[c] + g[T \ {c}]
<1> DEFINE is(g) == g = [T \in SUBSET S |-> step(g, T)]
<1> DEFINE sum == CHOOSE g : is(g)
<1>1. ASSUME NEW T \in SUBSET D, T # {}, NEW x \in T
      PROVE  F[T] = f[x] + F[T \ {x}]
  <2>1. T \ {x} \in SUBSET D /\ x \in D /\ x \notin T \ {x} /\ (T \ {x}) \cup {x} = T
    OBVIOUS
  <2>2. F[T] = F[T \ {x}] + f[x]
    BY <2>1 DEF Additive
  <2>3. F[T \ {x}] \in Int /\ f[x] \in Int
    BY <2>1 DEF Additive
  <2> QED BY <2>2, <2>3
<1>2. ASSUME NEW T \in SUBSET S, NEW g, \A U \in SUBSET S : g[U] = F[U]
      PROVE  step(g, T) = F[T]
  <2>1. CASE T = {}
    BY <2>1 DEF Additive
  <2>2. CASE T # {}
    <3> DEFINE c == CHOOSE c \in T : TRUE
    <3>1. c \in T
      BY <2>2
    <3>2. step(g, T) = f[c] + g[T \ {c}]
      BY <2>2
    <3> HIDE DEF c, step
    <3>3. g[T \ {c}] = F[T \ {c}]
      BY <1>2
    <3>4. F[T] = f[c] + F[T \ {c}]
      BY <1>1, <2>2, <3>1
    <3> QED BY <3>2, <3>3, <3>4
  <2> QED BY <2>1, <2>2
<1>3. \E g : is(g)
  <2> DEFINE g == [U \in SUBSET S |-> F[U]]
  <2>1. \A U \in SUBSET S : g[U] = F[U]
    OBVIOUS
  <2> HIDE DEF step
  <2>2. \A T \in SUBSET S : step(g, T) = F[T]
    BY <1>2, <2>1
  <2>3. [T \in SUBSET S |-> step(g, T)] = [T \in SUBSET S |-> F[T]]
    BY <2>2
  <2>4. is(g)
    BY <2>3
  <2> QED BY <2>4
<1>4. is(sum)
  <2> HIDE DEF is
  <2> QED BY <1>3
<1>5. SUBSET S \subseteq {T \in SUBSET S : sum[T] = F[T]}
  <2> DEFINE G == {T \in SUBSET S : sum[T] = F[T]}
  <2>1. ASSUME NEW T \in SUBSET S, \A x \in T : T \ {x} \in G
        PROVE  T \in G
    <3>1. sum[T] = step(sum, T)
      <4> HIDE DEF sum, step
      <4>1. sum = [U \in SUBSET S |-> step(sum, U)]
        BY <1>4
      <4> QED BY <4>1
    <3>2. CASE T = {}
      BY <3>1, <3>2 DEF Additive
    <3>3. CASE T # {}
      <4> DEFINE c == CHOOSE c \in T : TRUE
      <4>1. c \in T
        BY <3>3
      <4>2. step(sum, T) = f[c] + sum[T \ {c}]
        BY <3>3
      <4> HIDE DEF c, step, sum
      <4>3. sum[T \ {c}] = F[T \ {c}]
        BY <2>1, <4>1
      <4>4. F[T] = f[c] + F[T \ {c}]
        BY <1>1, <3>3, <4>1
      <4> QED BY <3>1, <4>2, <4>3, <4>4
    <3> QED BY <3>2, <3>3
  <2>2. IsFiniteSet(S) /\ G \in SUBSET SUBSET S
    BY FS_Subset
  <2> HIDE DEF G
  <2>3. SUBSET S \subseteq G
    BY <2>1, <2>2, SmallerSubsetInduction
  <2> QED BY <2>3 DEF G
<1>6. Sum(f, S) = sum[S]
  BY DEF Sum
<1> QED BY <1>5, <1>6
-----------------------------------------------------------------------------
\* An empty sum.
LEMMA SumEmpty ==
  ASSUME NEW f
  PROVE  Sum(f, {}) = 0
<1>1. IsFiniteSet({}) /\ \A x \in {} : f[x] \in Int
  BY FS_EmptySet
<1>2. PICK F : Additive(F, f, {})
  BY <1>1, AdditiveExists
<1>3. Sum(f, {}) = F[{}]
  BY <1>1, <1>2, SumIsAdditive
<1> QED BY <1>2, <1>3 DEF Additive

\* Integers sum up to an integer, and naturals to a natural.
LEMMA SumInteger ==
  ASSUME NEW S, IsFiniteSet(S), NEW f, \A x \in S : f[x] \in Int
  PROVE  Sum(f, S) \in Int
<1>1. PICK F : Additive(F, f, S)
  BY AdditiveExists
<1>2. Sum(f, S) = F[S] /\ S \in SUBSET S
  BY <1>1, SumIsAdditive
<1> QED BY <1>1, <1>2 DEF Additive

\* One more class.
LEMMA SumAdd ==
  ASSUME NEW S, IsFiniteSet(S), NEW x, x \notin S,
         NEW f, f[x] \in Int, \A y \in S : f[y] \in Int
  PROVE  Sum(f, S \cup {x}) = Sum(f, S) + f[x]
<1>1. IsFiniteSet(S \cup {x}) /\ \A y \in S \cup {x} : f[y] \in Int
  BY FS_AddElement
<1>2. PICK F : Additive(F, f, S \cup {x})
  BY <1>1, AdditiveExists
<1>3. S \in SUBSET (S \cup {x}) /\ S \cup {x} \in SUBSET (S \cup {x})
  OBVIOUS
<1>4. Sum(f, S) = F[S] /\ Sum(f, S \cup {x}) = F[S \cup {x}]
  BY <1>1, <1>2, <1>3, SumIsAdditive
<1>5. F[S \cup {x}] = F[S] + f[x]
  BY <1>2, <1>3 DEF Additive
<1> QED BY <1>4, <1>5

\* One class less.
LEMMA SumRemove ==
  ASSUME NEW S, IsFiniteSet(S), NEW x \in S, NEW f, \A y \in S : f[y] \in Int
  PROVE  Sum(f, S) = Sum(f, S \ {x}) + f[x]
<1>1. IsFiniteSet(S \ {x}) /\ x \notin S \ {x} /\ (S \ {x}) \cup {x} = S
  BY FS_RemoveElement
<1>2. \A y \in S \ {x} : f[y] \in Int
  OBVIOUS
<1>3. Sum(f, (S \ {x}) \cup {x}) = Sum(f, S \ {x}) + f[x]
  BY <1>1, <1>2, SumAdd, Zenon
<1> QED BY <1>1, <1>3

\* Two functions that agree have the same sum.
LEMMA SumSame ==
  ASSUME NEW S, IsFiniteSet(S), NEW f, NEW g,
         \A x \in S : f[x] \in Int /\ g[x] = f[x]
  PROVE  Sum(g, S) = Sum(f, S)
<1>1. PICK F : Additive(F, f, S)
  BY AdditiveExists
<1>2. Additive(F, g, S)
  BY <1>1 DEF Additive
<1>3. S \in SUBSET S
  OBVIOUS
<1> QED BY <1>1, <1>2, <1>3, SumIsAdditive

\* A change of one value.
LEMMA SumChange ==
  ASSUME NEW S, IsFiniteSet(S), NEW x \in S, NEW f, NEW g, g[x] \in Int,
         \A y \in S : f[y] \in Int, \A y \in S \ {x} : g[y] = f[y]
  PROVE  Sum(g, S) = Sum(f, S) - f[x] + g[x]
<1>1. IsFiniteSet(S \ {x}) /\ \A y \in S \ {x} : f[y] \in Int /\ g[y] = f[y]
  BY FS_RemoveElement
<1>2. Sum(g, S \ {x}) = Sum(f, S \ {x}) /\ Sum(f, S \ {x}) \in Int
  BY <1>1, SumSame, SumInteger
<1>3. Sum(f, S) = Sum(f, S \ {x}) + f[x]
  BY SumRemove
<1>4. Sum(g, S) = Sum(g, S \ {x}) + g[x]
  <2>1. \A y \in S : g[y] \in Int
    BY <1>1
  <2> QED BY <2>1, SumRemove
<1> QED BY <1>2, <1>3, <1>4

\* A value moves from one class to another.
LEMMA SumMove ==
  ASSUME NEW S, IsFiniteSet(S), NEW a \in S, NEW b \in S, a # b,
         NEW f, NEW g, NEW v \in Int, \A y \in S : f[y] \in Int,
         g[a] = f[a] - v, g[b] = f[b] + v, \A y \in S \ {a, b} : g[y] = f[y]
  PROVE  Sum(g, S) = Sum(f, S)
<1> DEFINE h == [y \in S |-> IF y = a THEN f[a] - v ELSE f[y]]
<1>1. f[a] \in Int /\ f[b] \in Int
  OBVIOUS
<1>2. h[a] = f[a] - v /\ h[b] = f[b] /\ \A y \in S \ {a} : h[y] = f[y]
  OBVIOUS
<1>3. \A y \in S : h[y] \in Int
  BY <1>1
<1>4. \A y \in S \ {b} : g[y] = h[y]
  BY <1>2
<1> HIDE DEF h
<1>5. Sum(h, S) = Sum(f, S) - f[a] + h[a]
  BY <1>2, <1>3, SumChange
<1>6. Sum(g, S) = Sum(h, S) - h[b] + g[b]
  <2>1. g[b] \in Int
    BY <1>1
  <2> QED BY <1>3, <1>4, <2>1, SumChange
<1>7. Sum(f, S) \in Int
  BY SumInteger
<1> QED BY <1>1, <1>2, <1>5, <1>6, <1>7

\* Naturals sum up to a natural that is as large as any of them.
LEMMA SumNatural ==
  ASSUME NEW S, IsFiniteSet(S), NEW f, \A x \in S : f[x] \in Nat
  PROVE  Sum(f, S) \in Nat /\ \A x \in S : f[x] <= Sum(f, S)
<1> DEFINE G == {T \in SUBSET S : Sum(f, T) \in Nat}
<1>1. \A x \in S : f[x] \in Int
  OBVIOUS
<1>2. {} \in G
  BY SumEmpty
<1>3. ASSUME NEW T \in G, NEW x \in S, x \notin T
      PROVE  T \cup {x} \in G
  <2>1. IsFiniteSet(T) /\ \A y \in T : f[y] \in Int
    BY <1>1, FS_Subset
  <2>2. Sum(f, T \cup {x}) = Sum(f, T) + f[x]
    BY <1>1, <1>3, <2>1, SumAdd
  <2> QED BY <2>2
<1>4. SUBSET S \subseteq G
  <2>1. G \in SUBSET SUBSET S
    OBVIOUS
  <2> HIDE DEF G
  <2> QED BY <1>2, <1>3, <2>1, SubsetInduction
<1>5. ASSUME NEW x \in S
      PROVE  f[x] <= Sum(f, S)
  <2>1. Sum(f, S) = Sum(f, S \ {x}) + f[x]
    BY <1>1, SumRemove
  <2>2. Sum(f, S \ {x}) \in Nat
    BY <1>4
  <2> QED BY <2>1, <2>2
<1> QED BY <1>4, <1>5

\* The union of disjoint sets.
LEMMA SumUnion ==
  ASSUME NEW S, IsFiniteSet(S), NEW T, IsFiniteSet(T), S \cap T = {},
         NEW f, \A x \in S \cup T : f[x] \in Int
  PROVE  Sum(f, S \cup T) = Sum(f, S) + Sum(f, T)
<1> DEFINE G == {U \in SUBSET T : Sum(f, S \cup U) = Sum(f, S) + Sum(f, U)}
<1>0. Sum(f, S) \in Int
  BY SumInteger
<1>1. {} \in G
  <2>1. S \cup {} = S
    OBVIOUS
  <2> QED BY <1>0, <2>1, SumEmpty
<1>2. ASSUME NEW U \in G, NEW x \in T, x \notin U
      PROVE  U \cup {x} \in G
  <2>1. IsFiniteSet(U) /\ IsFiniteSet(S \cup U) /\ x \notin S \cup U
    BY <1>2, FS_Subset, FS_Union
  <2>2. f[x] \in Int /\ (\A y \in U : f[y] \in Int) /\ \A y \in S \cup U : f[y] \in Int
    OBVIOUS
  <2>3. Sum(f, (S \cup U) \cup {x}) = Sum(f, S \cup U) + f[x]
    BY <2>1, <2>2, SumAdd
  <2>4. Sum(f, U \cup {x}) = Sum(f, U) + f[x]
    BY <1>2, <2>1, <2>2, SumAdd
  <2>5. Sum(f, U) \in Int
    BY <2>1, <2>2, SumInteger
  <2>6. (S \cup U) \cup {x} = S \cup (U \cup {x}) /\ U \cup {x} \in SUBSET T
    OBVIOUS
  <2>7. Sum(f, S \cup U) = Sum(f, S) + Sum(f, U)
    OBVIOUS
  <2>8. Sum(f, S \cup (U \cup {x})) = Sum(f, S) + Sum(f, U \cup {x})
    <3>1. Sum(f, S \cup (U \cup {x})) = Sum(f, S \cup U) + f[x]
      BY <2>3, <2>6
    <3> HIDE DEF G
    <3> QED BY <1>0, <2>2, <2>4, <2>5, <2>7, <3>1
  <2> QED BY <2>6, <2>8
<1>3. G \in SUBSET SUBSET T
  OBVIOUS
<1> HIDE DEF G
<1>4. T \in G
  BY <1>1, <1>2, <1>3, SubsetInduction
<1> QED BY <1>4 DEF G

\* A sum of zeros.
LEMMA SumZero ==
  ASSUME NEW S, IsFiniteSet(S), NEW f, \A x \in S : f[x] = 0
  PROVE  Sum(f, S) = 0
<1> DEFINE F == [T \in SUBSET S |-> 0]
<1>1. Additive(F, f, S)
  BY DEF Additive
<1>2. S \in SUBSET S /\ F[S] = 0
  OBVIOUS
<1> HIDE DEF F
<1> QED BY <1>1, <1>2, SumIsAdditive

\* A part of a set of naturals has no larger sum.
LEMMA SumSubset ==
  ASSUME NEW T, IsFiniteSet(T), NEW S \in SUBSET T, NEW f, \A x \in T : f[x] \in Nat
  PROVE  Sum(f, S) \in Nat /\ Sum(f, T) \in Nat /\ Sum(f, S) <= Sum(f, T)
<1> DEFINE R == T \ S
<1>1. IsFiniteSet(S) /\ IsFiniteSet(R) /\ S \cap R = {} /\ S \cup R = T
  BY FS_Subset
<1>2. (\A x \in S : f[x] \in Nat) /\ (\A x \in R : f[x] \in Nat) /\ \A x \in S \cup R : f[x] \in Int
  OBVIOUS
<1> HIDE DEF R
<1>3. Sum(f, S) \in Nat /\ Sum(f, R) \in Nat
  BY <1>1, <1>2, SumNatural
<1>4. Sum(f, S \cup R) = Sum(f, S) + Sum(f, R)
  BY <1>1, <1>2, SumUnion
<1>5. Sum(f, T) = Sum(f, S) + Sum(f, R)
  BY <1>1, <1>4
<1> QED BY <1>3, <1>5

-----------------------------------------------------------------------------
(* The tree.                                                               *)

\* Facts about the constants.
LEMMA TreeFacts ==
  /\ Root \in Classes /\ Root \in Inners /\ NULL \notin Classes
  /\ Inners \subseteq Classes /\ Leaves \subseteq Classes
  /\ IsFiniteSet(Classes) /\ Cardinality(Classes) = NumClasses
  /\ \A c \in Classes : c # Root =>
       Parent[c] \in Inners /\ Parent[c] \in Classes /\ Parent[c] # c /\ Parent[c] # NULL
  /\ Parent[Root] = NULL
<1>1. NumClasses \in Nat \ {0} /\ Classes \subseteq Nat /\ NULL \notin Classes /\ Root \in Classes
  BY TreeAssumption DEF Classes, NULL, Root
<1>2. IsFiniteSet(Classes) /\ Cardinality(Classes) = NumClasses
  BY <1>1, FS_Interval DEF Classes
<1>3. \A c \in Classes : c # Root => Parent[c] \in Classes /\ Parent[c] # c /\ Parent[c] # NULL
  BY <1>1, TreeAssumption DEF Classes, NULL, Root
<1>4. Inners \subseteq Classes
  BY <1>1, TreeAssumption DEF Inners
<1> QED BY <1>1, <1>2, <1>3, <1>4, TreeAssumption DEF Inners, Leaves

(***************************************************************************)
(* Paths.                                                                  *)
(***************************************************************************)

\* A set that holds c and is closed under Parent holds the path of c.
LEMMA PathLeast ==
  ASSUME NEW c \in Classes, NEW S \in SUBSET Classes,
         c \in S, \A x \in S : Parent[x] # NULL => Parent[x] \in S
  PROVE  Path[c] \subseteq S
BY DEF Path

\* A path has its beginning and the parents of its classes, and only classes.
LEMMA PathClosed ==
  ASSUME NEW c \in Classes
  PROVE  /\ Path[c] \subseteq Classes /\ c \in Path[c]
         /\ \A d \in Path[c] : d # Root => Parent[d] \in Path[c]
<1>1. Path[c] \subseteq Classes /\ c \in Path[c]
  BY DEF Path
<1>2. ASSUME NEW d \in Path[c], d # Root
      PROVE  Parent[d] \in Path[c]
  <2>1. Parent[d] \in Classes /\ Parent[d] # NULL
    BY <1>1, <1>2, TreeFacts
  <2> QED BY <1>1, <1>2, <2>1 DEF Path
<1> QED BY <1>1, <1>2

\* Every class of a path but the first is an inner class, the parent of one
\* on the path.
LEMMA PathChild ==
  ASSUME NEW c \in Classes, NEW d \in Path[c], d # c
  PROVE  d \in Inners /\ \E e \in Path[c] : e # Root /\ Parent[e] = d
<1> DEFINE S == {x \in Path[c] : x = c \/ \E e \in Path[c] : e # Root /\ Parent[e] = x}
<1>1. \A x \in S : Parent[x] # NULL => Parent[x] \in S
  BY PathClosed, TreeFacts
<1>2. S \subseteq Classes /\ c \in S
  BY PathClosed
<1>3. Path[c] \subseteq S
  BY <1>1, <1>2, PathLeast
<1>4. PICK e \in Path[c] : e # Root /\ Parent[e] = d
  BY <1>3
<1>5. e \in Classes
  BY PathClosed
<1> QED BY <1>4, <1>5, TreeFacts

\* What holds for c and passes from a class to its parent holds on the path.
LEMMA PathUpward ==
  ASSUME NEW c \in Classes, NEW S \in SUBSET Classes, c \in S,
         \A x \in S : x # Root => Parent[x] \in S
  PROVE  Path[c] \subseteq S
BY PathLeast, TreeFacts

\* A climb over classes that have all their parents among the others: if no
\* class outside S has a parent in S, the climb from c is the path within S.
LEMMA ClimbIsPath ==
  ASSUME NEW c \in Classes, NEW S \in SUBSET Classes,
         \A x \in Classes \ S : x # Root => Parent[x] \notin S
  PROVE  Climb(c, S) = Path[c] \cap S
<1>1. ASSUME NEW x \in Climb(c, S)
      PROVE  x \in Path[c] \cap S
  <2>1. x \in Path[c] /\ x \in Classes
    BY PathClosed DEF Climb
  <2> QED BY <2>1, PathClosed DEF Climb
<1>2. ASSUME NEW x \in Path[c] \cap S
      PROVE  x \in Climb(c, S)
  <2>1. ASSUME NEW e \in Path[c], x \in Path[e], e \notin S
        PROVE  FALSE
    <3>1. e \in Classes \ S
      BY <2>1, PathClosed
    <3>2. \A y \in Classes \ S : y # Root => Parent[y] \in Classes \ S
      BY TreeFacts
    <3>3. Path[e] \subseteq Classes \ S
      BY <3>1, <3>2, PathUpward
    <3> QED BY <2>1, <3>3
  <2> QED BY <2>1 DEF Climb
<1> QED BY <1>1, <1>2

\* The highest class of the climb over a set that is closed downwards has its
\* parent outside the set.
LEMMA TopOfClimb ==
  ASSUME NEW c \in Classes, NEW S \in SUBSET Classes, NEW d,
         \A x \in Classes \ S : x # Root => Parent[x] \notin S,
         IsTop(d, Climb(c, S))
  PROVE  d \in Path[c] /\ d \in Classes /\ d \in S /\ Parent[d] \notin S
<1>1. Climb(c, S) = Path[c] \cap S
  BY ClimbIsPath
<1>2. d \in Path[c] /\ d \in S
  BY <1>1 DEF IsTop
<1>3. CASE d = Root
  BY <1>2, <1>3, TreeFacts
<1>4. CASE d # Root
  BY <1>1, <1>2, <1>4, PathClosed DEF IsTop
<1> QED BY <1>2, <1>3, <1>4

(***************************************************************************)
(* Sequences without repetitions.                                          *)
(***************************************************************************)

\* The first element and the rest.
LEMMA SplitHead ==
  ASSUME NEW A, NEW s \in Seq(A), s # <<>>, IsInjective(s)
  PROVE  /\ Head(s) \in A /\ Tail(s) \in Seq(A) /\ IsInjective(Tail(s))
         /\ Range(s) = Range(Tail(s)) \cup {Head(s)}
         /\ Head(s) \notin Range(Tail(s))
         /\ Len(Tail(s)) = Len(s) - 1
<1>1. /\ Len(s) \in Nat \ {0} /\ DOMAIN s = 1..Len(s) /\ Head(s) = s[1] /\ Tail(s) \in Seq(A)
      /\ Len(Tail(s)) = Len(s) - 1 /\ DOMAIN Tail(s) = 1..Len(s)-1
      /\ \A i \in 1..Len(s)-1 : Tail(s)[i] = s[i+1]
  OBVIOUS
<1>2. \A i, j \in 1..Len(s) : s[i] = s[j] => i = j
  BY <1>1 DEF IsInjective
<1>3. Head(s) \in A
  BY <1>1
<1>4. IsInjective(Tail(s))
  <2>1. \A i, j \in 1..Len(s)-1 : s[i+1] = s[j+1] => i = j
    BY <1>1, <1>2
  <2> QED BY <1>1, <2>1 DEF IsInjective
<1>5. \A i \in 1..Len(s) : i = 1 \/ (i - 1 \in 1..Len(s)-1 /\ Tail(s)[i-1] = s[i])
  BY <1>1
<1>6. Range(s) \subseteq Range(Tail(s)) \cup {Head(s)}
  <2>1. \A i \in 1..Len(s) : s[i] = Head(s) \/ \E j \in DOMAIN Tail(s) : s[i] = Tail(s)[j]
    BY <1>1, <1>5
  <2> QED BY <1>1, <2>1 DEF Range
<1>7. \A i \in 1..Len(s)-1 : i + 1 \in 1..Len(s) /\ i + 1 # 1
  BY <1>1
<1>8. Range(Tail(s)) \subseteq Range(s) /\ Head(s) \in Range(s)
  BY <1>1, <1>7 DEF Range
<1>9. Head(s) \notin Range(Tail(s))
  BY <1>1, <1>2, <1>7 DEF Range
<1> QED BY <1>1, <1>3, <1>4, <1>6, <1>8, <1>9

\* A new element at the end.
LEMMA AppendNew ==
  ASSUME NEW A, NEW s \in Seq(A), IsInjective(s), NEW x \in A, x \notin Range(s)
  PROVE  /\ Append(s, x) \in Seq(A) /\ IsInjective(Append(s, x))
         /\ Range(Append(s, x)) = Range(s) \cup {x}
         /\ Len(Append(s, x)) = Len(s) + 1 /\ Append(s, x) # <<>>
<1> DEFINE n == Len(s)
<1> DEFINE t == Append(s, x)
<1>1. /\ n \in Nat /\ DOMAIN s = 1..n /\ t \in Seq(A) /\ Len(t) = n + 1 /\ DOMAIN t = 1..n+1
      /\ t[n+1] = x /\ \A i \in 1..n : t[i] = s[i]
  OBVIOUS
<1> HIDE DEF t, n
<1>2. \A i \in 1..n : s[i] # x
  BY <1>1 DEF Range
<1>3. \A i \in 1..n+1 : i = n + 1 \/ i \in 1..n
  BY <1>1
<1>4. IsInjective(t)
  <2>1. \A i, j \in 1..n : s[i] = s[j] => i = j
    BY <1>1 DEF IsInjective
  <2>2. \A i, j \in 1..n+1 : t[i] = t[j] => i = j
    BY <1>1, <1>2, <1>3, <2>1
  <2> QED BY <1>1, <2>2 DEF IsInjective
<1>5. Range(t) = Range(s) \cup {x}
  <2>1. n + 1 \in 1..n+1 /\ \A i \in 1..n : i \in 1..n+1
    BY <1>1
  <2> QED BY <1>1, <1>3, <2>1 DEF Range
<1>6. t # <<>>
  BY <1>1
<1> QED BY <1>1, <1>4, <1>5, <1>6 DEF t, n

\* The empty sequence.
LEMMA EmptySequence ==
  /\ \A A : <<>> \in Seq(A)
  /\ IsInjective(<<>>) /\ Range(<<>>) = {} /\ Len(<<>>) = 0
BY DEF IsInjective, Range

\* As many elements as it is long.
LEMMA RangeSize ==
  ASSUME NEW A, NEW s \in Seq(A), IsInjective(s)
  PROVE  IsFiniteSet(Range(s)) /\ Cardinality(Range(s)) = Len(s) /\ Range(s) \subseteq A
<1>1. Len(s) \in Nat /\ DOMAIN s = 1..Len(s) /\ s \in [1..Len(s) -> A]
  OBVIOUS
<1>2. s \in [1..Len(s) -> Range(s)]
  BY <1>1 DEF Range
<1>3. \A i, j \in 1..Len(s) : s[i] = s[j] => i = j
  BY <1>1 DEF IsInjective
<1>4. \A x \in Range(s) : \E i \in 1..Len(s) : s[i] = x
  BY <1>1 DEF Range
<1>5. s \in Bijection(1..Len(s), Range(s))
  BY <1>2, <1>3, <1>4 DEF Bijection, Injection, Surjection, IsInjective
<1>6. ExistsBijection(1..Len(s), Range(s))
  BY <1>5 DEF ExistsBijection
<1>7. IsFiniteSet(Range(s)) /\ Cardinality(Range(s)) = Len(s)
  BY <1>1, <1>6, FS_CountingElements, FS_Interval, FS_Bijection
<1>8. Range(s) \subseteq A
  BY <1>1 DEF Range
<1> QED BY <1>7, <1>8

(***************************************************************************)
(* The inductive invariant.                                                *)
(***************************************************************************)

TypeControl ==
  /\ pc \in {"idle", "busy", "update", "find", "setidle", "removeleaf"}
  /\ at \in Classes \cup {NULL}
  /\ error = "none"

TypeMoney ==
  /\ quota \in [Classes -> Int] /\ fairShare \in [Classes -> Nat]
  /\ roundSize \in Int

TypeTree ==
  /\ busyWeight \in [Classes -> Nat] /\ isBusy \in [Classes -> BOOLEAN]
  /\ numBusy \in Nat

TypeRound ==
  /\ fresh \in [Classes -> BOOLEAN]
  /\ ahead \in Seq(Leaves) /\ behind \in Seq(Leaves)

TypeQueues ==
  /\ next \in Leaves \cup {NULL}
  /\ queue \in [Leaves -> Seq(Sizes)]

\* The round robin holds a leaf once.  It is empty between handlers if
\* currentPointer points at the marker, and otherwise holds at most the leaf
\* that has just become busy.
Ring ==
  /\ IsInjective(ahead) /\ IsInjective(behind)
  /\ Range(ahead) \cap Range(behind) = {}
  /\ pc \in {"update", "setidle", "removeleaf"} => ahead # <<>>
  /\ pc \in {"idle", "busy"} /\ ahead = <<>> => behind = <<>>
  /\ pc = "find" /\ ahead = <<>> => Len(behind) <= 1

\* The leaf that is idle and not yet out of the list.
Dropped ==
  IF pc = "removeleaf" \/ (pc = "setidle" /\ at # Head(ahead)) THEN {Head(ahead)} ELSE {}

\* The busy leaves are those in the list.
Members == \A c \in Leaves : isBusy[c] <=> c \in Listed /\ c \notin Dropped

\* The class that becomes busy, or idle.
Turning ==
  /\ pc = "busy" => at \in Leaves /\ ~isBusy[at]
  /\ pc = "setidle" => /\ at \in Classes /\ isBusy[at]
                       /\ at \in Leaves => at = Head(ahead)
                       /\ at \in Inners => busyWeight[at] = 0

BusyAbove == \A c \in Classes \ {Root} : isBusy[c] => isBusy[Parent[c]]

BusyChildren(c) == {d \in Classes : Parent[d] = c /\ isBusy[d]}

\* A busy class has a busy child, but for the one about to become idle.
BusyBelow ==
  \A c \in Inners : isBusy[c] => BusyChildren(c) # {} \/ (pc = "setidle" /\ c = at)

Weights == \A c \in Classes : busyWeight[c] = Sum(Weight, BusyChildren(c))

Counted == numBusy = Cardinality({c \in Classes : isBusy[c]})

\* Who has had a share in this round.
Shares ==
  /\ \A c \in Range(behind) : fresh[c]
  /\ ahead # <<>> => \A c \in Range(Tail(ahead)) : ~fresh[c]
  /\ ahead # <<>> /\ pc # "update" => fresh[Head(ahead)]

\* What the interface is told between handlers.
Selected ==
  pc = "idle" =>
    \/ next = NULL /\ ahead = <<>>
    \/ /\ ahead # <<>> /\ next = Head(ahead)
       /\ ~CanRemove => /\ queue[next] # <<>>
                        /\ Head(queue[next]) + PhyHeader <= quota[next]

\* Unless packets are removed, the busy leaves are those with packets.
Backlogged ==
  ~CanRemove => \A c \in Leaves :
    queue[c] # <<>> <=> \/ isBusy[c] /\ ~(pc = "setidle" /\ c = at)
                        \/ pc = "busy" /\ c = at

IInv ==
  /\ TypeControl /\ TypeMoney /\ TypeTree /\ TypeRound /\ TypeQueues
  /\ Ring /\ Members /\ Turning /\ BusyAbove /\ BusyBelow /\ Weights /\ Counted
  /\ Shares /\ FreshBelowFresh /\ QuotaConserved /\ Selected /\ Backlogged

(***************************************************************************)
(* Consequences of the invariant.                                          *)
(***************************************************************************)

\* Weights as TreeAssumption and NumberAssumption give them.
LEMMA WeightFacts ==
  /\ \A c \in Classes : Weight[c] \in Nat
  /\ \A c \in Classes : c # Root => Weight[c] > 0
  /\ \A c \in Leaves : LeafMtu[c] \in Nat
BY NumberAssumption

\* The children of a class, and the sum of the weights of the busy ones.
LEMMA ChildrenFacts ==
  ASSUME NEW c \in Classes
  PROVE  /\ IsFiniteSet(BusyChildren(c)) /\ BusyChildren(c) \subseteq Classes
         /\ Root \notin BusyChildren(c)
         /\ Sum(Weight, BusyChildren(c)) \in Nat
         /\ Sum(Weight, BusyChildren(c)) = 0 <=> BusyChildren(c) = {}
         /\ c \in Leaves => BusyChildren(c) = {}
<1>1. /\ BusyChildren(c) \subseteq Classes /\ IsFiniteSet(BusyChildren(c))
      /\ Root \notin BusyChildren(c)
  BY TreeFacts, FS_Subset DEF BusyChildren
<1>2. \A d \in BusyChildren(c) : Weight[d] \in Nat /\ Weight[d] > 0
  BY <1>1, WeightFacts
<1>3. /\ Sum(Weight, BusyChildren(c)) \in Nat
      /\ \A d \in BusyChildren(c) : Weight[d] <= Sum(Weight, BusyChildren(c))
  BY <1>1, <1>2, SumNatural
<1>4. BusyChildren(c) = {} => Sum(Weight, BusyChildren(c)) = 0
  BY SumEmpty
<1>5. BusyChildren(c) # {} => Sum(Weight, BusyChildren(c)) # 0
  BY <1>2, <1>3
<1>6. c \in Leaves => BusyChildren(c) = {}
  BY TreeFacts DEF BusyChildren, Leaves
<1> QED BY <1>1, <1>3, <1>4, <1>5, <1>6

\* The classes above a busy class are busy, those above a fresh one fresh.
LEMMA AboveFacts ==
  ASSUME NEW c \in Classes
  PROVE  /\ TypeTree /\ BusyAbove /\ isBusy[c] => \A d \in Path[c] : isBusy[d]
         /\ TypeRound /\ FreshBelowFresh /\ fresh[c] => \A d \in Path[c] : fresh[d]
<1>1. ASSUME BusyAbove, isBusy[c]
      PROVE  Path[c] \subseteq {d \in Classes : isBusy[d]}
  <2> DEFINE S == {d \in Classes : isBusy[d]}
  <2>1. \A x \in S : x # Root => Parent[x] \in S
    BY <1>1, TreeFacts DEF BusyAbove
  <2>2. c \in S
    BY <1>1
  <2> HIDE DEF S
  <2>3. S \in SUBSET Classes
    BY DEF S
  <2>4. Path[c] \subseteq S
    BY <2>1, <2>2, <2>3, PathUpward
  <2> QED BY <2>4 DEF S
<1>2. ASSUME FreshBelowFresh, fresh[c]
      PROVE  Path[c] \subseteq {d \in Classes : fresh[d]}
  <2> DEFINE S == {d \in Classes : fresh[d]}
  <2>1. \A x \in S : x # Root => Parent[x] \in S
    BY <1>2, TreeFacts DEF FreshBelowFresh
  <2>2. c \in S
    BY <1>2
  <2> HIDE DEF S
  <2>3. S \in SUBSET Classes
    BY DEF S
  <2>4. Path[c] \subseteq S
    BY <2>1, <2>2, <2>3, PathUpward
  <2> QED BY <2>4 DEF S
<1> QED BY <1>1, <1>2

\* The list holds finitely many leaves.
LEMMA ListFacts ==
  ASSUME TypeRound, Ring
  PROVE  /\ Listed \subseteq Leaves /\ IsFiniteSet(Listed)
         /\ Cardinality(Listed) = Len(ahead) + Len(behind)
         /\ Sum(LeafMtu, Listed) \in Nat
<1>1. /\ IsFiniteSet(Range(ahead)) /\ Cardinality(Range(ahead)) = Len(ahead)
      /\ Range(ahead) \subseteq Leaves
      /\ IsFiniteSet(Range(behind)) /\ Cardinality(Range(behind)) = Len(behind)
      /\ Range(behind) \subseteq Leaves
  BY RangeSize DEF TypeRound, Ring
<1>2. Listed \subseteq Leaves
  BY <1>1 DEF Listed
<1>3. IsFiniteSet(Listed) /\ Cardinality(Listed) = Len(ahead) + Len(behind)
  <2>1. Cardinality(Range(ahead) \cap Range(behind)) = 0
    BY FS_EmptySet DEF Ring
  <2>2. Len(ahead) \in Nat /\ Len(behind) \in Nat
    BY DEF TypeRound
  <2>3. /\ IsFiniteSet(Range(ahead) \cup Range(behind))
        /\ Cardinality(Range(ahead) \cup Range(behind)) =
             Cardinality(Range(ahead)) + Cardinality(Range(behind))
               - Cardinality(Range(ahead) \cap Range(behind))
    BY <1>1, FS_Union
  <2> QED BY <1>1, <2>1, <2>2, <2>3 DEF Listed
<1>4. Sum(LeafMtu, Listed) \in Nat
  BY <1>2, <1>3, WeightFacts, SumNatural
<1> QED BY <1>2, <1>3, <1>4

(***************************************************************************)
(* The initial states.                                                     *)
(***************************************************************************)

\* The sum of the quotas of Init is the root's.
LEMMA InitKeeps == Init => IInv
<1> SUFFICES ASSUME Init PROVE IInv
  OBVIOUS
<1>1. Sum(Weight, Classes) \in Nat
  BY TreeFacts, WeightFacts, SumNatural
<1>2. TypeControl /\ TypeMoney /\ TypeTree /\ TypeRound /\ TypeQueues
  BY <1>1 DEF Init, TypeControl, TypeMoney, TypeTree, TypeRound, TypeQueues
<1>3. Listed = {}
  BY EmptySequence DEF Init, Listed
<1>4. Ring /\ Shares
  BY EmptySequence DEF Init, Ring, Shares
<1>5. Members /\ Turning /\ BusyAbove /\ BusyBelow
  BY <1>3, TreeFacts DEF Init, Members, Turning, BusyAbove, BusyBelow, Leaves
<1>6. Weights
  BY SumEmpty DEF Init, Weights, BusyChildren
<1>7. Counted
  BY FS_EmptySet DEF Init, Counted
<1>8. FreshBelowFresh /\ Selected /\ Backlogged
  BY TreeFacts DEF Init, FreshBelowFresh, Selected, Backlogged, Leaves
<1>9. QuotaConserved
  <2> DEFINE zero == [c \in Classes |-> 0]
  <2>1. Sum(zero, Classes) = 0
    BY TreeFacts, SumZero
  <2>2. /\ quota[Root] = roundSize /\ zero[Root] = 0
        /\ \A c \in Classes \ {Root} : quota[c] = zero[c]
        /\ \A c \in Classes : zero[c] \in Int
    BY TreeFacts DEF Init
  <2> HIDE DEF zero
  <2>3. roundSize \in Int
    BY <1>2 DEF TypeMoney
  <2>4. Sum(quota, Classes) = Sum(zero, Classes) - zero[Root] + quota[Root]
    BY <2>2, <2>3, TreeFacts, SumChange
  <2>5. Sum(quota, Classes) = roundSize
    BY <2>1, <2>2, <2>3, <2>4
  <2>6. roundSize = Sum(Weight, Classes) + Sum(LeafMtu, Listed)
    BY <1>1, <1>3, SumEmpty DEF Init
  <2> QED BY <2>5, <2>6 DEF QuotaConserved
<1> QED BY <1>2, <1>4, <1>5, <1>6, <1>7, <1>8, <1>9 DEF IInv

(***************************************************************************)
(* The environment.                                                        *)
(***************************************************************************)

\* What only depends on the tree and the list stays when they do.
LEMMA TreeStays ==
  ASSUME IInv, UNCHANGED tree
  PROVE  TypeTree' /\ BusyAbove' /\ Weights' /\ Counted'
<1>1. busyWeight' = busyWeight /\ isBusy' = isBusy /\ numBusy' = numBusy
  BY DEF tree
<1> QED BY <1>1 DEF IInv, TypeTree, BusyAbove, Weights, Counted, BusyChildren

\* The list and the busy flags stay, and no class starts or ends its turning.
LEMMA MembersStay ==
  ASSUME IInv, UNCHANGED isBusy, UNCHANGED <<ahead, behind>>,
         pc \notin {"setidle", "removeleaf"}, pc' \notin {"setidle", "removeleaf"}
  PROVE  Members' /\ BusyBelow'
<1>1. Dropped = {} /\ Dropped' = {} /\ Listed' = Listed
  BY DEF Dropped, Listed
<1>2. Members'
  BY <1>1 DEF IInv, Members
<1>3. BusyBelow'
  BY DEF IInv, BusyBelow, BusyChildren
<1> QED BY <1>2, <1>3

\* Quotas, the size of the round and the list stay.
LEMMA MoneyStays ==
  ASSUME IInv, UNCHANGED money, UNCHANGED Listed
  PROVE  TypeMoney' /\ QuotaConserved'
<1>1. quota' = quota /\ fairShare' = fairShare /\ roundSize' = roundSize
  BY DEF money
<1> QED BY <1>1 DEF IInv, TypeMoney, QuotaConserved

\* The list and what is up to date in this round stay.
LEMMA RoundStays ==
  ASSUME IInv, UNCHANGED round, pc # "update" \/ pc' = "update"
  PROVE  TypeRound' /\ Shares' /\ FreshBelowFresh' /\ UNCHANGED Listed
<1>1. fresh' = fresh /\ ahead' = ahead /\ behind' = behind
  BY DEF round
<1> QED BY <1>1 DEF IInv, TypeRound, Shares, FreshBelowFresh, Listed

\* A packet arrives: its leaf has something to send, busy or about to be.
LEMMA PushKeeps ==
  ASSUME IInv, NEW c \in Leaves, NEW s \in Sizes, Push(c, s)
  PROVE  IInv'
<1>1. /\ pc = "idle" /\ UNCHANGED <<money, tree, round, next, error>>
      /\ UNCHANGED <<money>> /\ UNCHANGED tree /\ UNCHANGED round
      /\ UNCHANGED <<ahead, behind>> /\ UNCHANGED isBusy /\ UNCHANGED fresh
      /\ \/ isBusy[c] /\ pc' = "find" /\ at' = at
         \/ ~isBusy[c] /\ pc' = "busy" /\ at' = c
  BY DEF Push, money, tree, round
<1>2. TypeControl'
  BY <1>1, TreeFacts DEF IInv, TypeControl
<1>3. TypeTree' /\ BusyAbove' /\ Weights' /\ Counted'
  BY <1>1, TreeStays
<1>4. Members' /\ BusyBelow'
  BY <1>1, MembersStay
<1>5. TypeRound' /\ Shares' /\ FreshBelowFresh' /\ UNCHANGED Listed
  BY <1>1, RoundStays
<1>6. TypeMoney' /\ QuotaConserved'
  BY <1>1, <1>5, MoneyStays DEF money
<1>7. Ring'
  <2>1. Len(<<>>) <= 1
    OBVIOUS
  <2> QED BY <1>1, <2>1 DEF IInv, Ring
<1>8. Turning' /\ Selected'
  BY <1>1 DEF IInv, Turning, Selected
<1>9. queue' \in [Leaves -> Seq(Sizes)] /\ queue'[c] # <<>> /\ \A d \in Leaves \ {c} : queue'[d] = queue[d]
  <2> DEFINE new == IF Len(queue[c]) < MaxQueue THEN Append(queue[c], s) ELSE queue[c]
  <2>1. queue \in [Leaves -> Seq(Sizes)] /\ queue[c] \in Seq(Sizes)
    BY DEF IInv, TypeQueues
  <2>2. queue' = [queue EXCEPT ![c] = new]
    BY DEF Push
  <2>3. new \in Seq(Sizes) /\ new # <<>>
    <3>1. CASE Len(queue[c]) < MaxQueue
      BY <2>1, <3>1
    <3>2. CASE ~(Len(queue[c]) < MaxQueue)
      <4>1. MaxQueue \in Nat \ {0} /\ Len(queue[c]) \in Nat
        BY <2>1, NumberAssumption
      <4>2. queue[c] # <<>>
        BY <2>1, <3>2, <4>1
      <4> QED BY <2>1, <3>2, <4>2
    <3> QED BY <3>1, <3>2
  <2> HIDE DEF new
  <2> QED BY <2>1, <2>2, <2>3
<1>10. TypeQueues'
  BY <1>1, <1>9 DEF IInv, TypeQueues
<1>11. Backlogged'
  BY <1>1, <1>9 DEF IInv, Backlogged
<1> QED BY <1>2, <1>3, <1>4, <1>5, <1>6, <1>7, <1>8, <1>10, <1>11 DEF IInv

\* A removal changes nothing but the queues.
LEMMA RemovalKeeps ==
  ASSUME IInv, pc = "idle", CanRemove, queue' \in [Leaves -> Seq(Sizes)],
         UNCHANGED <<pc, at, money, tree, round, next, error>>
  PROVE  IInv'
<1>1. /\ UNCHANGED <<pc, at, next, error>>
      /\ UNCHANGED money /\ UNCHANGED tree /\ UNCHANGED round
      /\ UNCHANGED <<ahead, behind>> /\ UNCHANGED isBusy
  BY DEF money, tree, round
<1>2. TypeControl' /\ Ring' /\ Turning' /\ Selected' /\ TypeQueues' /\ Backlogged'
  BY <1>1 DEF IInv, TypeControl, Ring, Turning, Selected, TypeQueues, Backlogged
<1>3. TypeTree' /\ BusyAbove' /\ Weights' /\ Counted'
  BY <1>1, TreeStays
<1>4. Members' /\ BusyBelow'
  BY <1>1, MembersStay
<1>5. TypeRound' /\ Shares' /\ FreshBelowFresh' /\ UNCHANGED Listed
  BY <1>1, RoundStays
<1>6. TypeMoney' /\ QuotaConserved'
  BY <1>1, <1>5, MoneyStays
<1> QED BY <1>2, <1>3, <1>4, <1>5, <1>6 DEF IInv

\* removePacket touches nothing but a queue.
LEMMA RemovePacketKeeps ==
  ASSUME IInv, NEW c \in Leaves, NEW i \in DOMAIN queue[c], RemovePacket(c, i)
  PROVE  IInv'
<1>1. queue \in [Leaves -> Seq(Sizes)] /\ queue[c] \in Seq(Sizes)
  BY DEF IInv, TypeQueues
<1>2. i \in 1..Len(queue[c]) /\ Len(queue[c]) \in Nat
  BY <1>1
<1>3. RemoveAt(queue[c], i) \in Seq(Sizes)
  <2>1. SubSeq(queue[c], 1, i - 1) \in Seq(Sizes)
    BY <1>1, <1>2
  <2>2. SubSeq(queue[c], i + 1, Len(queue[c])) \in Seq(Sizes)
    BY <1>1, <1>2
  <2> QED BY <2>1, <2>2 DEF RemoveAt
<1>4. queue' \in [Leaves -> Seq(Sizes)]
  BY <1>1, <1>3 DEF RemovePacket
<1> QED BY <1>4, RemovalKeeps DEF RemovePacket

\* removeAllPackets touches nothing but the queues.
LEMMA RemoveAllKeeps ==
  ASSUME IInv, RemoveAll
  PROVE  IInv'
BY RemovalKeeps DEF RemoveAll

\* A packet is sent: its length goes from the leaf back to the root.
LEMMA PullKeeps ==
  ASSUME IInv, Pull
  PROVE  IInv'
<1> DEFINE len == Head(queue[next]) + PhyHeader
<1>1. /\ pc = "idle" /\ next \in Leaves /\ next # NULL /\ queue[next] # <<>>
      /\ ahead # <<>> /\ Head(ahead) = next
  BY DEF IInv, Selected, Pull, CanPull, TypeQueues
<1>2. queue \in [Leaves -> Seq(Sizes)] /\ queue[next] \in Seq(Sizes)
  BY <1>1 DEF IInv, TypeQueues
<1>3. len \in Int /\ Tail(queue[next]) \in Seq(Sizes)
  <2>1. Head(queue[next]) \in Sizes /\ Tail(queue[next]) \in Seq(Sizes)
    BY <1>1, <1>2
  <2>2. Head(queue[next]) \in Nat /\ PhyHeader \in Nat
    BY <2>1, NumberAssumption
  <2> QED BY <2>1, <2>2
<1>4. /\ queue' = [queue EXCEPT ![next] = Tail(queue[next])]
      /\ quota' = [quota EXCEPT ![next] = @ - len, ![Root] = @ + len]
      /\ \/ queue'[next] = <<>> /\ pc' = "setidle" /\ at' = next
         \/ queue'[next] # <<>> /\ pc' = "find" /\ at' = at
      /\ error' = error
      /\ fairShare' = fairShare /\ roundSize' = roundSize /\ next' = next
      /\ UNCHANGED tree /\ UNCHANGED round /\ UNCHANGED <<ahead, behind>> /\ UNCHANGED isBusy
  BY <1>1 DEF Pull, tree, round
<1> HIDE DEF len
<1>5. next \in Classes /\ next # Root /\ Root \in Classes /\ next \notin Inners
  BY <1>1, TreeFacts DEF Leaves
<1>6. TypeControl'
  BY <1>4, <1>5 DEF IInv, TypeControl
<1>7. TypeTree' /\ BusyAbove' /\ Weights' /\ Counted'
  BY <1>4, TreeStays
<1>8. TypeRound' /\ Shares' /\ FreshBelowFresh' /\ UNCHANGED Listed
  BY <1>1, <1>4, RoundStays
<1>9. next \in Listed /\ isBusy[next]
  <2>1. next \in Range(ahead)
    BY <1>1, SplitHead DEF IInv, TypeRound, Ring
  <2> QED BY <1>1, <2>1 DEF IInv, Members, Listed, Dropped
<1>10. Ring' /\ Turning' /\ Selected'
  BY <1>1, <1>4, <1>5, <1>9 DEF IInv, Ring, Turning, Selected
<1>11. Members'
  BY <1>1, <1>4, <1>8 DEF IInv, Members, Dropped
<1>12. BusyBelow'
  BY <1>1, <1>4 DEF IInv, BusyBelow, BusyChildren
<1>13. TypeMoney' /\ QuotaConserved'
  <2>1. quota \in [Classes -> Int]
    BY DEF IInv, TypeMoney
  <2>2. /\ quota'[next] = quota[next] - len /\ quota'[Root] = quota[Root] + len
        /\ \A y \in Classes \ {next, Root} : quota'[y] = quota[y]
        /\ quota' \in [Classes -> Int]
    BY <1>3, <1>4, <1>5, <2>1
  <2>3. Sum(quota', Classes) = Sum(quota, Classes)
    BY <1>3, <1>5, <2>1, <2>2, TreeFacts, SumMove
  <2> QED BY <1>4, <1>8, <2>2, <2>3 DEF IInv, TypeMoney, QuotaConserved
<1>14. TypeQueues'
  BY <1>2, <1>3, <1>4 DEF IInv, TypeQueues
<1>15. Backlogged'
  <2>1. \A d \in Leaves \ {next} : queue'[d] = queue[d]
    BY <1>2, <1>4
  <2> QED BY <1>1, <1>4, <1>9, <2>1 DEF IInv, Backlogged
<1> QED BY <1>6, <1>7, <1>8, <1>10, <1>11, <1>12, <1>13, <1>14, <1>15 DEF IInv

(***************************************************************************)
(* The way of the quota.                                                   *)
(***************************************************************************)

\* Taking a share moves quota from the parent to the child.
LEMMA TakenKeepsSum ==
  ASSUME TypeMoney, NEW d \in Classes
  PROVE  Taken(d) \in [Classes -> Int] /\ Sum(Taken(d), Classes) = Sum(quota, Classes)
<1>1. /\ \A c \in Classes : quota[c] \in Int /\ fairShare[c] \in Int /\ Weight[c] \in Int
      /\ Weight[d] \in Int
  BY WeightFacts DEF TypeMoney
<1>2. CASE d = Root
  <2>1. \A c \in Classes : Taken(d)[c] = quota[c]
    BY <1>2, TreeFacts DEF Taken
  <2>2. Taken(d) \in [Classes -> Int]
    BY <1>1, <2>1 DEF Taken
  <2> QED BY <1>1, <2>1, <2>2, TreeFacts, SumSame
<1>3. CASE d # Root
  <2>1. Parent[d] \in Classes /\ Parent[d] # d
    BY <1>3, TreeFacts
  <2> DEFINE v == Weight[d] * fairShare[Parent[d]]
  <2>2. v \in Int
    BY <1>1, <2>1
  <2>3. /\ Taken(d)[d] = quota[d] + v /\ Taken(d)[Parent[d]] = quota[Parent[d]] - v
        /\ \A c \in Classes \ {Parent[d], d} : Taken(d)[c] = quota[c]
    BY <1>3, <2>1 DEF Taken
  <2> HIDE DEF v
  <2>4. \A c \in Classes : Taken(d)[c] \in Int
    BY <1>1, <2>1, <2>2, <2>3
  <2>5. Taken(d) \in [Classes -> Int]
    BY <2>4 DEF Taken
  <2>6. Sum(Taken(d), Classes) = Sum(quota, Classes)
    <3>1. IsFiniteSet(Classes) /\ \A c \in Classes : quota[c] \in Int
      BY <1>1, TreeFacts
    <3> DEFINE g == Taken(d)
    <3> DEFINE p == Parent[d]
    <3>2. /\ p \in Classes /\ p # d /\ g[p] = quota[p] - v /\ g[d] = quota[d] + v
          /\ \A c \in Classes \ {p, d} : g[c] = quota[c]
      BY <2>1, <2>3
    <3> HIDE DEF g, p
    <3>3. Sum(g, Classes) = Sum(quota, Classes)
      BY <2>2, <3>1, <3>2, SumMove
    <3> QED BY <3>3 DEF g
  <2> QED BY <2>5, <2>6
<1> QED BY <1>2, <1>3

\* One step of hlsUpdateQuota on the way to a busy class: a busy class that is
\* not up to date takes its share from a parent that is, and no check fails.
LEMMA UpdateStep ==
  ASSUME IInv, pc # "setidle", NEW target \in Classes, isBusy[target], UpdateQuota(target)
  PROVE  \E d \in Classes :
           /\ d \in Path[target] /\ isBusy[d] /\ ~fresh[d]
           /\ d # Root => fresh[Parent[d]]
           /\ d \in Inners => busyWeight[d] # 0
           /\ quota' = Taken(d)
           /\ fresh' = [fresh EXCEPT ![d] = TRUE]
           /\ fairShare' = IF d \in Leaves THEN fairShare
                           ELSE [fairShare EXCEPT ![d] = FairShare(quota'[d], busyWeight[d])]
           /\ UNCHANGED <<pc, error, at, roundSize, ahead, behind, next, queue, isBusy>>
           /\ UNCHANGED tree
<1>1. PICK d \in Classes :
        /\ IsTop(d, Climb(target, Stale))
        /\ quota' = Taken(d)
        /\ fresh' = [fresh EXCEPT ![d] = TRUE]
        /\ IF d \in Inners /\ quota'[d] > 0 /\ busyWeight[d] = 0
           THEN Throw("fair share of an idle class") /\ UNCHANGED fairShare
           ELSE /\ fairShare' = IF d \in Leaves THEN fairShare
                                ELSE [fairShare EXCEPT ![d] = FairShare(quota'[d], busyWeight[d])]
                /\ UNCHANGED <<pc, error>>
        /\ UNCHANGED <<at, roundSize, tree, ahead, behind, next, queue>>
  BY DEF UpdateQuota
<1>2. d \in Path[target] /\ d \in Stale /\ Parent[d] \notin Stale
  <2>1. \A x \in Classes \ Stale : x # Root => Parent[x] \notin Stale
    BY TreeFacts DEF IInv, FreshBelowFresh, Stale
  <2>2. Stale \in SUBSET Classes
    BY DEF Stale
  <2> QED BY <1>1, <2>1, <2>2, TopOfClimb
<1>3. isBusy[d] /\ (d \in Inners => busyWeight[d] # 0)
  <2>1. isBusy[d]
    BY <1>2, AboveFacts DEF IInv
  <2>2. d \in Inners => BusyChildren(d) # {}
    BY <2>1 DEF IInv, BusyBelow
  <2>3. busyWeight[d] = Sum(Weight, BusyChildren(d))
    BY DEF IInv, Weights
  <2> QED BY <2>1, <2>2, <2>3, ChildrenFacts
<1>4. ~fresh[d] /\ (d # Root => fresh[Parent[d]])
  BY <1>2, TreeFacts DEF Stale
<1>5. /\ fairShare' = IF d \in Leaves THEN fairShare
                      ELSE [fairShare EXCEPT ![d] = FairShare(quota'[d], busyWeight[d])]
      /\ UNCHANGED <<pc, error, at, roundSize, ahead, behind, next, queue, isBusy>>
      /\ UNCHANGED tree
  BY <1>1, <1>3 DEF tree
<1> QED BY <1>1, <1>2, <1>3, <1>4, <1>5

\* Such a step conserves quota, and keeps fresh classes below fresh ones.
LEMMA UpdateQuotaKeeps ==
  ASSUME IInv, pc # "setidle", NEW target \in Classes, isBusy[target], UpdateQuota(target)
  PROVE  /\ UNCHANGED <<pc, error, at, next, queue, ahead, behind, isBusy, roundSize>>
         /\ UNCHANGED tree
         /\ TypeMoney' /\ QuotaConserved'
         /\ FreshBelowFresh' /\ fresh' \in [Classes -> BOOLEAN]
         /\ \E d \in Path[target] : \A c \in Classes \ {d} : fresh'[c] = fresh[c]
<1>1. PICK d \in Classes :
        /\ d \in Path[target] /\ isBusy[d] /\ ~fresh[d]
        /\ d # Root => fresh[Parent[d]]
        /\ d \in Inners => busyWeight[d] # 0
        /\ quota' = Taken(d)
        /\ fresh' = [fresh EXCEPT ![d] = TRUE]
        /\ fairShare' = IF d \in Leaves THEN fairShare
                        ELSE [fairShare EXCEPT ![d] = FairShare(quota'[d], busyWeight[d])]
        /\ UNCHANGED <<pc, error, at, roundSize, ahead, behind, next, queue, isBusy>>
        /\ UNCHANGED tree
  BY UpdateStep
<1>2. /\ d \in Path[target] /\ (d # Root => fresh[Parent[d]])
  BY <1>1
<1>3. (d \in Inners => busyWeight[d] # 0) /\ busyWeight[d] \in Nat
  BY <1>1 DEF IInv, TypeTree
<1>4. /\ fairShare' = IF d \in Leaves THEN fairShare
                      ELSE [fairShare EXCEPT ![d] = FairShare(quota'[d], busyWeight[d])]
      /\ UNCHANGED <<pc, error, at, roundSize, ahead, behind, next, queue>> /\ UNCHANGED tree
      /\ UNCHANGED isBusy
  BY <1>1
<1>5. /\ TypeMoney /\ QuotaConserved
      /\ TypeRound /\ FreshBelowFresh
  BY DEF IInv
<1>6. quota' \in [Classes -> Int] /\ Sum(quota', Classes) = Sum(quota, Classes)
  BY <1>1, <1>5, TakenKeepsSum
<1>7. fairShare' \in [Classes -> Nat]
  <2>1. CASE d \in Leaves
    BY <1>4, <1>5, <2>1 DEF TypeMoney
  <2>2. CASE d \notin Leaves
    <3>1. d \in Inners
      BY <2>2 DEF Leaves
    <3>2. \A q \in Int, w \in Nat : w # 0 /\ ~(q <= 0) => q \div w \in Nat
      OBVIOUS
    <3>3. FairShare(quota'[d], busyWeight[d]) \in Nat
      BY <1>3, <1>6, <3>1, <3>2 DEF FairShare
    <3>4. fairShare' = [fairShare EXCEPT ![d] = FairShare(quota'[d], busyWeight[d])]
      BY <1>4, <2>2
    <3> QED BY <1>5, <3>3, <3>4 DEF TypeMoney
  <2> QED BY <2>1, <2>2
<1>8. TypeMoney' /\ QuotaConserved'
  <2>1. Listed' = Listed
    BY <1>4 DEF Listed
  <2> QED BY <1>4, <1>5, <1>6, <1>7, <2>1 DEF TypeMoney, QuotaConserved
<1>9. /\ fresh' \in [Classes -> BOOLEAN] /\ fresh'[d]
      /\ \A c \in Classes \ {d} : fresh'[c] = fresh[c]
  BY <1>1, <1>5 DEF TypeRound
<1>10. FreshBelowFresh'
  <2> SUFFICES ASSUME NEW c \in Classes \ {Root}, fresh'[c] PROVE fresh'[Parent[c]]
    BY DEF FreshBelowFresh
  <2>1. Parent[c] \in Classes
    BY TreeFacts
  <2>2. CASE c = d
    BY <1>2, <1>9, <2>1, <2>2, TreeFacts
  <2>3. CASE c # d
    BY <1>5, <1>9, <2>1, <2>3 DEF FreshBelowFresh
  <2> QED BY <2>2, <2>3
<1> QED BY <1>2, <1>4, <1>8, <1>9, <1>10

\* The list and who has had a share in it stay when leaves' shares do.
LEMMA UpdateKeeps ==
  ASSUME IInv, Update
  PROVE  IInv'
<1> DEFINE leaf == Head(ahead)
<1>1. /\ pc = "update" /\ ahead # <<>> /\ leaf \in Leaves /\ leaf \in Classes
      /\ leaf \in Range(ahead) /\ leaf \notin Range(behind) /\ leaf \notin Range(Tail(ahead))
      /\ Range(Tail(ahead)) \subseteq Range(ahead) /\ Range(ahead) \subseteq Leaves
      /\ Range(behind) \subseteq Leaves
  <2>1. pc = "update" /\ ahead # <<>> /\ ahead \in Seq(Leaves) /\ behind \in Seq(Leaves)
        /\ IsInjective(ahead) /\ IsInjective(behind) /\ Range(ahead) \cap Range(behind) = {}
    BY DEF Update, IInv, Ring, TypeRound
  <2> QED BY <2>1, SplitHead, RangeSize, TreeFacts
<1>2. isBusy[leaf]
  BY <1>1 DEF IInv, Members, Listed, Dropped
<1> HIDE DEF leaf
<1>3. /\ UNCHANGED <<pc, error, at, next, queue, ahead, behind, isBusy, roundSize>>
      /\ UNCHANGED tree
      /\ TypeMoney' /\ QuotaConserved'
      /\ FreshBelowFresh' /\ fresh' \in [Classes -> BOOLEAN]
      /\ \E d \in Path[leaf] : \A c \in Classes \ {d} : fresh'[c] = fresh[c]
  <2>1. UpdateQuota(leaf)
    BY DEF Update, leaf
  <2> QED BY <1>1, <1>2, <2>1, UpdateQuotaKeeps
<1>4. \A c \in Leaves \ {leaf} : fresh'[c] = fresh[c]
  BY <1>1, <1>3, PathChild, TreeFacts DEF Leaves
<1>5. Shares' /\ TypeRound'
  <2>1. \A c \in Range(behind) : fresh'[c]
    BY <1>1, <1>4 DEF IInv, Shares
  <2>2. \A c \in Range(Tail(ahead)) : ~fresh'[c]
    BY <1>1, <1>4 DEF IInv, Shares
  <2> QED BY <1>1, <1>3, <2>1, <2>2 DEF IInv, Shares, TypeRound
<1>6. TypeControl' /\ TypeQueues' /\ Ring' /\ Turning' /\ Selected' /\ Backlogged'
  BY <1>1, <1>3 DEF IInv, TypeControl, TypeQueues, Ring, Turning, Selected, Backlogged
<1>7. TypeTree' /\ BusyAbove' /\ Weights' /\ Counted'
  BY <1>3, TreeStays
<1>8. Members' /\ BusyBelow'
  BY <1>1, <1>3, MembersStay
<1> QED BY <1>3, <1>5, <1>6, <1>7, <1>8 DEF IInv

\* The current leaf has its share, and hlsFindLeaf looks at it.
LEMMA UpdatedKeeps ==
  ASSUME IInv, Updated
  PROVE  IInv'
<1>1. /\ pc = "update" /\ pc' = "find" /\ fresh[Head(ahead)] /\ ahead # <<>>
      /\ UNCHANGED <<at, next, queue, error, fresh, ahead, behind, isBusy>>
      /\ UNCHANGED money /\ UNCHANGED tree /\ Listed' = Listed
  BY DEF IInv, Ring, Updated, money, tree, round, Listed
<1>2. TypeControl' /\ TypeQueues' /\ TypeRound' /\ Turning' /\ Selected' /\ Backlogged'
  BY <1>1 DEF IInv, TypeControl, TypeQueues, TypeRound, Turning, Selected, Backlogged
<1>3. Ring' /\ Shares' /\ FreshBelowFresh'
  BY <1>1 DEF IInv, Ring, Shares, FreshBelowFresh
<1>4. TypeTree' /\ BusyAbove' /\ Weights' /\ Counted'
  BY <1>1, TreeStays
<1>5. Members' /\ BusyBelow'
  BY <1>1, MembersStay
<1>6. TypeMoney' /\ QuotaConserved'
  BY <1>1, MoneyStays
<1> QED BY <1>2, <1>3, <1>4, <1>5, <1>6 DEF IInv

\* The classes that become busy are the idle ones on the path; the class they
\* come to is an inner one.
LEMMA WakingFacts ==
  ASSUME IInv, pc = "busy"
  PROVE  /\ at \in Leaves /\ at \in Classes /\ ~isBusy[at]
         /\ Waking = {x \in Path[at] : ~isBusy[x]}
         /\ at \in Waking /\ Waking \subseteq Classes /\ IsFiniteSet(Waking)
         /\ Awake \subseteq Inners
         /\ \A c \in Awake : isBusy[c]
         /\ \A x \in Waking : x # Root => Parent[x] \in Waking \/ Parent[x] \in Awake
         /\ \A x \in Leaves : x \in Waking => x = at
<1>1. at \in Leaves /\ at \in Classes /\ ~isBusy[at]
  BY TreeFacts DEF IInv, Turning
<1>2. Waking = {x \in Path[at] : ~isBusy[x]}
  <2>1. \A x \in Classes \ Idle : x # Root => Parent[x] \notin Idle
    BY TreeFacts DEF IInv, BusyAbove, Idle
  <2>2. Idle \in SUBSET Classes
    BY DEF Idle
  <2>3. Waking = Path[at] \cap Idle
    BY <1>1, <2>1, <2>2, ClimbIsPath DEF Waking
  <2> QED BY <1>1, <2>3, PathClosed DEF Idle
<1>3. at \in Waking /\ Waking \subseteq Classes /\ IsFiniteSet(Waking)
  BY <1>1, <1>2, PathClosed, TreeFacts, FS_Subset
<1>4. ASSUME NEW c \in Awake
      PROVE  c \in Inners /\ isBusy[c]
  <2>1. c \in Classes /\ isBusy[c] /\ \E d \in Waking : Parent[d] = c
    BY DEF Awake
  <2> QED BY <1>3, <2>1, TreeFacts
<1>5. ASSUME NEW x \in Waking, x # Root
      PROVE  Parent[x] \in Waking \/ Parent[x] \in Awake
  <2>1. x \in Path[at] /\ x \in Classes /\ Parent[x] \in Path[at] /\ Parent[x] \in Classes
    BY <1>1, <1>2, <1>3, <1>5, PathClosed, TreeFacts
  <2> QED BY <1>2, <2>1 DEF Awake
<1>6. \A x \in Leaves : x \in Waking => x = at
  BY <1>1, <1>2, PathChild DEF Leaves
<1> QED BY <1>1, <1>2, <1>3, <1>4, <1>5, <1>6

\* A busy inner class takes its share; no leaf of the list does.
LEMMA UpdateAwakeKeeps ==
  ASSUME IInv, UpdateAwake
  PROVE  IInv'
<1>1. pc = "busy"
  BY DEF UpdateAwake
<1>2. PICK target \in Awake : UpdateQuota(target)
  BY DEF UpdateAwake
<1>3. target \in Inners /\ target \in Classes /\ isBusy[target]
  BY <1>1, WakingFacts, TreeFacts
<1>4. /\ UNCHANGED <<pc, error, at, next, queue, ahead, behind, isBusy, roundSize>>
      /\ UNCHANGED tree
      /\ TypeMoney' /\ QuotaConserved'
      /\ FreshBelowFresh' /\ fresh' \in [Classes -> BOOLEAN]
      /\ \E d \in Path[target] : \A c \in Classes \ {d} : fresh'[c] = fresh[c]
  BY <1>1, <1>2, <1>3, UpdateQuotaKeeps
<1>5. \A c \in Leaves : fresh'[c] = fresh[c]
  <2>1. \A d \in Path[target] : d \notin Leaves
    BY <1>3, PathChild DEF Leaves
  <2> QED BY <1>4, <2>1, TreeFacts
<1>6. Shares' /\ TypeRound'
  <2>1. /\ ahead \in Seq(Leaves) /\ behind \in Seq(Leaves)
        /\ IsInjective(ahead) /\ IsInjective(behind)
    BY DEF IInv, Ring, TypeRound
  <2>2. Range(behind) \subseteq Leaves /\ Range(ahead) \subseteq Leaves
    BY <2>1, RangeSize
  <2>3. ahead # <<>> => Head(ahead) \in Leaves /\ Range(Tail(ahead)) \subseteq Leaves
    BY <2>1, <2>2, SplitHead
  <2>4. \A c \in Range(behind) : fresh'[c]
    BY <1>5, <2>2 DEF IInv, Shares
  <2>5. ahead # <<>> => \A c \in Range(Tail(ahead)) : ~fresh'[c]
    BY <1>5, <2>3 DEF IInv, Shares
  <2>6. ahead # <<>> => fresh'[Head(ahead)]
    BY <1>1, <1>5, <2>3 DEF IInv, Shares
  <2> QED BY <1>1, <1>4, <2>1, <2>4, <2>5, <2>6 DEF Shares, TypeRound
<1>7. TypeControl' /\ TypeQueues' /\ Ring' /\ Turning' /\ Selected' /\ Backlogged'
  BY <1>1, <1>4 DEF IInv, TypeControl, TypeQueues, Ring, Turning, Selected, Backlogged
<1>8. TypeTree' /\ BusyAbove' /\ Weights' /\ Counted'
  BY <1>4, TreeStays
<1>9. Members' /\ BusyBelow'
  BY <1>1, <1>4, MembersStay
<1> QED BY <1>4, <1>6, <1>7, <1>8, <1>9 DEF IInv

\* hlsSetBusy: the idle classes of a path become busy together, the leaf's mtu
\* goes to the root, and the leaf into the list, up to date.
LEMMA SetBusyKeeps ==
  ASSUME IInv, SetBusy
  PROVE  IInv'
<1>1. /\ pc = "busy" /\ pc' = "find" /\ at' = NULL
      /\ UNCHANGED <<fairShare, next, queue, error, ahead>>
      /\ behind' = Append(behind, at)
      /\ isBusy' = [c \in Classes |-> c \in Waking \/ isBusy[c]]
      /\ numBusy' = numBusy + Cardinality(Waking)
      /\ busyWeight' = [c \in Classes |->
                          busyWeight[c] + Sum(Weight, {d \in Waking : Parent[d] = c})]
      /\ fresh' = [c \in Classes |-> c \in Waking \/ fresh[c]]
      /\ quota' = [quota EXCEPT ![Root] = @ + LeafMtu[at]]
      /\ roundSize' = roundSize + LeafMtu[at]
      /\ \A c \in Awake : c \notin Stale
  BY DEF SetBusy, Inserted
<1>2. /\ at \in Leaves /\ at \in Classes /\ ~isBusy[at]
      /\ Waking = {x \in Path[at] : ~isBusy[x]}
      /\ at \in Waking /\ Waking \subseteq Classes /\ IsFiniteSet(Waking)
      /\ Awake \subseteq Inners
      /\ \A c \in Awake : isBusy[c]
      /\ \A x \in Waking : x # Root => Parent[x] \in Waking \/ Parent[x] \in Awake
      /\ \A x \in Leaves : x \in Waking => x = at
  BY <1>1, WakingFacts
<1>3. /\ TypeMoney /\ TypeTree /\ TypeRound /\ TypeQueues
      /\ \A c \in Leaves : isBusy[c] <=> c \in Listed
      /\ at \notin Range(ahead) /\ at \notin Range(behind) /\ at \notin Listed
      /\ Listed \subseteq Leaves /\ IsFiniteSet(Listed)
  BY <1>1, <1>2, ListFacts DEF IInv, Members, Dropped, Listed
<1>4. /\ IsInjective(ahead) /\ IsInjective(behind) /\ Range(ahead) \cap Range(behind) = {}
      /\ ahead \in Seq(Leaves) /\ behind \in Seq(Leaves)
  BY DEF IInv, Ring, TypeRound
<1>5. /\ behind' \in Seq(Leaves) /\ IsInjective(behind')
      /\ Range(behind') = Range(behind) \cup {at}
      /\ Len(behind') = Len(behind) + 1
  BY <1>1, <1>2, <1>3, <1>4, AppendNew
<1>6. Listed' = Listed \cup {at}
  BY <1>1, <1>5 DEF Listed
<1>7. Ring'
  <2>1. ahead = <<>> => Len(behind') <= 1
    BY <1>1, <1>5, EmptySequence DEF IInv, Ring
  <2> QED BY <1>1, <1>3, <1>4, <1>5, <2>1 DEF Ring
<1>8. Members'
  <2>1. Dropped' = {}
    BY <1>1 DEF Dropped
  <2> QED BY <1>1, <1>2, <1>3, <1>6, <2>1, TreeFacts DEF Members
<1>9. TypeControl' /\ TypeQueues' /\ Turning' /\ Selected'
  BY <1>1 DEF IInv, TypeControl, TypeQueues, Turning, Selected
<1>10. BusyAbove'
  <2>1. \A c \in Classes \ {Root} : Parent[c] \in Classes
    BY TreeFacts
  <2> QED BY <1>1, <1>2, <2>1 DEF IInv, BusyAbove
<1>11. BusyBelow'
  <2> SUFFICES ASSUME NEW c \in Inners, isBusy'[c]
               PROVE  \E e \in Classes : Parent[e] = c /\ isBusy'[e]
    BY DEF BusyBelow, BusyChildren
  <2>1. c \in Classes
    BY TreeFacts
  <2>2. CASE isBusy[c]
    BY <1>1, <2>1, <2>2 DEF IInv, BusyBelow, BusyChildren
  <2>3. CASE ~isBusy[c]
    <3>1. c \in Path[at] /\ c # at
      BY <1>1, <1>2, <2>1, <2>3 DEF Leaves
    <3>2. PICK e \in Path[at] : e # Root /\ Parent[e] = c
      BY <1>2, <3>1, PathChild
    <3>3. e \in Classes
      BY <1>2, PathClosed
    <3>4. ~isBusy[e]
      BY <2>3, <3>2, <3>3 DEF IInv, BusyAbove
    <3> QED BY <1>1, <1>2, <3>2, <3>3, <3>4
  <2> QED BY <2>2, <2>3
<1>12. Weights' /\ busyWeight' \in [Classes -> Nat]
  <2> SUFFICES ASSUME NEW c \in Classes
               PROVE  busyWeight'[c] = Sum(Weight, BusyChildren(c)') /\ busyWeight'[c] \in Nat
    BY <1>1 DEF Weights
  <2> DEFINE new == {d \in Waking : Parent[d] = c}
  <2>1. BusyChildren(c)' = BusyChildren(c) \cup new
    BY <1>1, <1>2 DEF BusyChildren
  <2>2. BusyChildren(c) \cap new = {}
    BY <1>2 DEF BusyChildren
  <2>3. IsFiniteSet(new) /\ \A x \in new : Weight[x] \in Nat
    BY <1>2, FS_Subset, WeightFacts
  <2>4. /\ IsFiniteSet(BusyChildren(c)) /\ Sum(Weight, BusyChildren(c)) \in Nat
        /\ \A x \in BusyChildren(c) : Weight[x] \in Nat
    BY ChildrenFacts, WeightFacts
  <2>5. busyWeight'[c] = busyWeight[c] + Sum(Weight, new)
    BY <1>1
  <2> HIDE DEF new
  <2>6. Sum(Weight, new) \in Nat
    BY <2>3, SumNatural
  <2>7. Sum(Weight, BusyChildren(c) \cup new) = Sum(Weight, BusyChildren(c)) + Sum(Weight, new)
    <3>1. \A x \in BusyChildren(c) \cup new : Weight[x] \in Int
      BY <2>3, <2>4
    <3> QED BY <2>2, <2>3, <2>4, <3>1, SumUnion
  <2>8. busyWeight[c] = Sum(Weight, BusyChildren(c))
    BY DEF IInv, Weights
  <2> QED BY <2>1, <2>4, <2>5, <2>6, <2>7, <2>8
<1>13. Counted' /\ numBusy' \in Nat
  <2> DEFINE B == {c \in Classes : isBusy[c]}
  <2>1. {c \in Classes : isBusy'[c]} = B \cup Waking
    BY <1>1, <1>2
  <2>2. B \cap Waking = {} /\ IsFiniteSet(B)
    BY <1>2, TreeFacts, FS_Subset
  <2>3. numBusy = Cardinality(B) /\ numBusy \in Nat
    BY DEF IInv, Counted, TypeTree
  <2> HIDE DEF B
  <2>4. /\ Cardinality(B \cup Waking) = Cardinality(B) + Cardinality(Waking) - Cardinality(B \cap Waking)
        /\ Cardinality(B \cap Waking) = 0 /\ Cardinality(Waking) \in Nat
    BY <1>2, <2>2, FS_Union, FS_EmptySet, FS_CardinalityType
  <2>5. numBusy' = Cardinality(B \cup Waking) /\ numBusy' \in Nat
    BY <1>1, <2>3, <2>4
  <2>6. numBusy' = Cardinality({c \in Classes : isBusy'[c]})
    BY <2>1, <2>5
  <2> QED BY <2>5, <2>6 DEF Counted
<1>14. TypeTree' /\ TypeRound'
  BY <1>1, <1>2, <1>3, <1>4, <1>5, <1>12, <1>13 DEF TypeTree, TypeRound
<1>15. Shares'
  <2>1. \A c \in Range(behind') : fresh'[c]
    <3>1. Range(behind) \subseteq Leaves
      BY <1>3 DEF Listed
    <3> QED BY <1>1, <1>2, <1>5, <3>1, TreeFacts DEF IInv, Shares
  <2>2. ahead # <<>> => /\ \A c \in Range(Tail(ahead)) : ~fresh'[c]
                        /\ fresh'[Head(ahead)]
    <3> SUFFICES ASSUME ahead # <<>>
                 PROVE  (\A c \in Range(Tail(ahead)) : ~fresh'[c]) /\ fresh'[Head(ahead)]
      OBVIOUS
    <3>1. Range(ahead) = Range(Tail(ahead)) \cup {Head(ahead)}
      BY <1>4, SplitHead
    <3>2. Range(ahead) \subseteq Leaves
      BY <1>3 DEF Listed
    <3> QED BY <1>1, <1>2, <1>3, <3>1, <3>2, TreeFacts DEF IInv, Shares
  <2> QED BY <1>1, <2>1, <2>2 DEF Shares
<1>16. FreshBelowFresh'
  <2> SUFFICES ASSUME NEW c \in Classes \ {Root}, fresh'[c] PROVE fresh'[Parent[c]]
    BY DEF FreshBelowFresh
  <2>1. Parent[c] \in Classes
    BY TreeFacts
  <2>2. CASE c \in Waking
    BY <1>1, <1>2, <2>1, <2>2 DEF Stale
  <2>3. CASE c \notin Waking
    BY <1>1, <2>1, <2>3 DEF IInv, FreshBelowFresh
  <2> QED BY <2>2, <2>3
<1>17. TypeMoney' /\ QuotaConserved'
  <2>1. LeafMtu[at] \in Nat /\ Root \in Classes /\ IsFiniteSet(Classes)
    BY <1>2, TreeFacts, WeightFacts
  <2>2. quota \in [Classes -> Int] /\ \A c \in Classes : quota[c] \in Int
    BY <1>3 DEF TypeMoney
  <2>3. /\ quota'[Root] = quota[Root] + LeafMtu[at] /\ quota' \in [Classes -> Int]
        /\ quota'[Root] \in Int /\ \A c \in Classes \ {Root} : quota'[c] = quota[c]
    BY <1>1, <2>1, <2>2
  <2>4. Sum(quota', Classes) = Sum(quota, Classes) - quota[Root] + quota'[Root]
    BY <2>1, <2>2, <2>3, SumChange
  <2>5. Sum(quota, Classes) \in Int
    BY <2>1, <2>2, SumInteger
  <2>6. Sum(LeafMtu, Listed \cup {at}) = Sum(LeafMtu, Listed) + LeafMtu[at]
    <3>1. LeafMtu[at] \in Int /\ \A c \in Listed : LeafMtu[c] \in Int
      BY <1>2, <1>3, WeightFacts
    <3> QED BY <1>3, <3>1, SumAdd
  <2>7. Sum(LeafMtu, Listed) \in Nat /\ Sum(Weight, Classes) \in Nat
    BY ListFacts, TreeFacts, WeightFacts, SumNatural DEF IInv
  <2>8. /\ Sum(quota, Classes) = roundSize
        /\ roundSize = Sum(Weight, Classes) + Sum(LeafMtu, Listed)
    BY DEF IInv, QuotaConserved
  <2>9. Sum(quota', Classes) = roundSize'
    BY <1>1, <2>1, <2>2, <2>3, <2>4, <2>5, <2>8
  <2>10. roundSize' = Sum(Weight, Classes) + Sum(LeafMtu, Listed')
    BY <1>1, <1>6, <2>1, <2>6, <2>7, <2>8
  <2>11. TypeMoney'
    BY <1>1, <1>3, <2>1, <2>3 DEF TypeMoney
  <2> QED BY <2>9, <2>10, <2>11 DEF QuotaConserved
<1>18. Backlogged'
  BY <1>1, <1>2, TreeFacts DEF IInv, Backlogged
<1> QED BY <1>7, <1>8, <1>9, <1>10, <1>11, <1>12, <1>13, <1>14, <1>15, <1>16, <1>17, <1>18 DEF IInv

(***************************************************************************)
(* The round robin moves on.                                               *)
(***************************************************************************)

\* Advance keeps the list, and the shares of the round or of a new one.
LEMMA AdvanceKeeps ==
  ASSUME TypeRound, FreshBelowFresh,
         NEW done \in Seq(Leaves), NEW rest \in Seq(Leaves),
         IsInjective(done), IsInjective(rest), Range(done) \cap Range(rest) = {},
         \A c \in Range(done) : fresh[c] /\ isBusy[c],
         \A c \in Range(rest) : ~fresh[c],
         Advance(done, rest)
  PROVE  /\ TypeRound' /\ FreshBelowFresh' /\ Shares'
         /\ IsInjective(ahead') /\ IsInjective(behind') /\ Range(ahead') \cap Range(behind') = {}
         /\ Listed' = Range(done) \cup Range(rest)
         /\ \/ pc' = "update" /\ ahead' # <<>>
            \/ pc' = "find" /\ ahead' = <<>> /\ behind' = <<>>
<1>1. IsInjective(<<>>) /\ Range(<<>>) = {} /\ <<>> \in Seq(Leaves)
  BY EmptySequence
<1>2. CASE rest # <<>>
  <2>1. ahead' = rest /\ behind' = done /\ pc' = "update" /\ fresh' = fresh
    BY <1>2 DEF Advance
  <2>2. Range(Tail(rest)) \subseteq Range(rest)
    BY <1>2, SplitHead
  <2>3. Listed' = Range(done) \cup Range(rest)
    BY <2>1 DEF Listed
  <2>4. TypeRound' /\ FreshBelowFresh' /\ Shares'
    BY <2>1, <2>2 DEF TypeRound, FreshBelowFresh, Shares
  <2> QED BY <1>2, <2>1, <2>3, <2>4
<1>3. CASE rest = <<>>
  <2>1. fresh' = NewRound
    BY <1>3 DEF Advance
  <2>2. fresh' \in [Classes -> BOOLEAN] /\ FreshBelowFresh' /\ \A c \in Classes : ~fresh'[c]
    BY <2>1, TreeFacts DEF NewRound, FreshBelowFresh
  <2>3. CASE done # <<>>
    <3>1. isBusy[Head(done)] /\ Range(Tail(done)) \subseteq Leaves
      BY <2>3, SplitHead, RangeSize
    <3>2. ahead' = done /\ behind' = <<>> /\ pc' = "update"
      BY <1>3, <2>3, <3>1 DEF Advance
    <3>3. Shares'
      BY <1>1, <2>2, <3>1, <3>2, TreeFacts DEF Shares
    <3>4. Listed' = Range(done) \cup Range(rest)
      BY <1>1, <1>3, <3>2 DEF Listed
    <3> QED BY <1>1, <2>2, <2>3, <3>2, <3>3, <3>4 DEF TypeRound
  <2>4. CASE done = <<>>
    <3>1. ahead' = <<>> /\ behind' = <<>> /\ pc' = "find"
      BY <1>3, <2>4 DEF Advance
    <3>2. Listed' = Range(done) \cup Range(rest)
      BY <1>3, <2>4, <3>1 DEF Listed
    <3> QED BY <1>1, <2>2, <3>1, <3>2 DEF TypeRound, Shares
  <2> QED BY <2>3, <2>4
<1> QED BY <1>2, <1>3

\* The current leaf.
LEMMA HeadFacts ==
  ASSUME IInv, ahead # <<>>
  PROVE  LET leaf == Head(ahead)
         IN  /\ leaf \in Leaves /\ leaf \in Classes /\ leaf \in Listed
             /\ ahead \in Seq(Leaves) /\ behind \in Seq(Leaves)
             /\ IsInjective(ahead) /\ IsInjective(behind)
             /\ Range(ahead) \cap Range(behind) = {}
             /\ Tail(ahead) \in Seq(Leaves) /\ IsInjective(Tail(ahead))
             /\ Range(ahead) = Range(Tail(ahead)) \cup {leaf}
             /\ leaf \notin Range(Tail(ahead)) /\ leaf \notin Range(behind)
             /\ Range(behind) \subseteq Leaves /\ Range(Tail(ahead)) \subseteq Leaves
             /\ \A c \in Range(behind) : fresh[c] /\ isBusy[c]
             /\ \A c \in Range(Tail(ahead)) : ~fresh[c]
<1>1. /\ ahead \in Seq(Leaves) /\ behind \in Seq(Leaves)
      /\ IsInjective(ahead) /\ IsInjective(behind)
      /\ Range(ahead) \cap Range(behind) = {}
  BY DEF IInv, Ring, TypeRound
<1>2. /\ Head(ahead) \in Leaves
      /\ Tail(ahead) \in Seq(Leaves) /\ IsInjective(Tail(ahead))
      /\ Range(ahead) = Range(Tail(ahead)) \cup {Head(ahead)}
      /\ Head(ahead) \notin Range(Tail(ahead))
  BY <1>1, SplitHead
<1>3. Range(behind) \subseteq Leaves /\ Range(Tail(ahead)) \subseteq Leaves
  BY <1>1, <1>2, RangeSize
<1>4. Head(ahead) \in Range(ahead) /\ Head(ahead) \notin Range(behind)
  BY <1>1, <1>2
<1>5. \A c \in Range(behind) : isBusy[c]
  <2> TAKE c \in Range(behind)
  <2>1. c # Head(ahead) /\ c \in Leaves /\ c \in Listed
    BY <1>3, <1>4 DEF Listed
  <2>2. c \notin Dropped
    BY <2>1 DEF Dropped
  <2> QED BY <2>1, <2>2 DEF IInv, Members
<1>6. (\A c \in Range(behind) : fresh[c]) /\ \A c \in Range(Tail(ahead)) : ~fresh[c]
  BY DEF IInv, Shares
<1> QED BY <1>1, <1>2, <1>3, <1>4, <1>5, <1>6, TreeFacts DEF Listed

\* The search starts a round at the marker, or ends there.
LEMMA FindMarkerKeeps ==
  ASSUME IInv, FindMarker
  PROVE  IInv'
<1>1. /\ pc = "find" /\ ahead = <<>> /\ Len(behind) <= 1
      /\ UNCHANGED <<at, fresh, queue, error, isBusy>> /\ UNCHANGED money /\ UNCHANGED tree
      /\ \/ behind = <<>> /\ next' = NULL /\ pc' = "idle" /\ ahead' = <<>> /\ behind' = <<>>
         \/ behind # <<>> /\ ahead' = behind /\ behind' = <<>> /\ pc' = "update" /\ next' = next
  BY DEF FindMarker, IInv, Ring, money, tree
<1>2. /\ behind \in Seq(Leaves) /\ IsInjective(behind) /\ fresh \in [Classes -> BOOLEAN]
      /\ IsInjective(<<>>) /\ Range(<<>>) = {} /\ <<>> \in Seq(Leaves)
  BY EmptySequence DEF IInv, Ring, TypeRound
<1>3. Listed' = Listed
  BY <1>1, <1>2 DEF Listed
<1>4. TypeControl' /\ TypeQueues' /\ TypeRound' /\ Turning' /\ Selected' /\ Backlogged'
  BY <1>1, <1>2 DEF IInv, TypeControl, TypeQueues, TypeRound, Turning, Selected, Backlogged
<1>5. Ring' /\ FreshBelowFresh'
  BY <1>1, <1>2 DEF IInv, Ring, FreshBelowFresh
<1>6. Shares'
  <2>1. behind # <<>> => Range(Tail(behind)) = {}
    <3> SUFFICES ASSUME behind # <<>> PROVE Range(Tail(behind)) = {}
      OBVIOUS
    <3>1. Tail(behind) = <<>>
      BY <1>1, <1>2
    <3> QED BY <1>2, <3>1
  <2> QED BY <1>1, <1>2, <2>1 DEF Shares
<1>7. TypeTree' /\ BusyAbove' /\ Weights' /\ Counted'
  BY <1>1, TreeStays
<1>8. Members' /\ BusyBelow'
  <2>1. Dropped = {} /\ Dropped' = {}
    BY <1>1 DEF Dropped
  <2> QED BY <1>1, <1>3, <2>1 DEF IInv, Members, BusyBelow, BusyChildren
<1>9. TypeMoney' /\ QuotaConserved'
  BY <1>1, <1>3, MoneyStays
<1> QED BY <1>4, <1>5, <1>6, <1>7, <1>8, <1>9 DEF IInv

\* The search looks at the current leaf: it is empty, it is selected, or the
\* round robin moves on.
LEMMA FindLeafKeeps ==
  ASSUME IInv, FindLeaf
  PROVE  IInv'
<1> DEFINE leaf == Head(ahead)
<1>1. /\ pc = "find" /\ ahead # <<>>
      /\ UNCHANGED <<queue, error, isBusy>> /\ UNCHANGED money /\ UNCHANGED tree
  BY DEF FindLeaf, money, tree
<1>2. /\ leaf \in Leaves /\ leaf \in Classes /\ leaf \in Listed
      /\ ahead \in Seq(Leaves) /\ behind \in Seq(Leaves)
      /\ IsInjective(ahead) /\ IsInjective(behind) /\ Range(ahead) \cap Range(behind) = {}
      /\ Tail(ahead) \in Seq(Leaves) /\ IsInjective(Tail(ahead))
      /\ Range(ahead) = Range(Tail(ahead)) \cup {leaf}
      /\ leaf \notin Range(Tail(ahead)) /\ leaf \notin Range(behind)
      /\ Range(behind) \subseteq Leaves /\ Range(Tail(ahead)) \subseteq Leaves
      /\ \A c \in Range(behind) : fresh[c] /\ isBusy[c]
      /\ \A c \in Range(Tail(ahead)) : ~fresh[c]
  BY <1>1, HeadFacts
<1>3. isBusy[leaf] /\ fresh[leaf] /\ leaf \notin Inners
  BY <1>1, <1>2 DEF IInv, Members, Dropped, Shares, Leaves
<1> HIDE DEF leaf
<1>4. TypeTree' /\ BusyAbove' /\ Weights' /\ Counted'
  BY <1>1, TreeStays
<1>5. BusyBelow'
  BY <1>1 DEF IInv, BusyBelow, BusyChildren
<1>6. CASE /\ queue[leaf] = <<>> /\ pc' = "setidle" /\ at' = leaf
           /\ UNCHANGED <<round, next>>
  <2>1. UNCHANGED <<ahead, behind, fresh, next>> /\ UNCHANGED round /\ Listed' = Listed
    BY <1>6 DEF round, Listed
  <2>2. TypeRound' /\ Shares' /\ FreshBelowFresh'
    BY <1>1, <2>1, RoundStays
  <2>3. TypeMoney' /\ QuotaConserved'
    BY <1>1, <2>1, MoneyStays
  <2>4. TypeControl' /\ TypeQueues' /\ Ring' /\ Selected'
    BY <1>1, <1>2, <1>6, <2>1 DEF IInv, TypeControl, TypeQueues, Ring, Selected
  <2>5. Members' /\ Turning'
    <3>1. Dropped = {} /\ Dropped' = {}
      BY <1>1, <1>6, <2>1 DEF Dropped, leaf
    <3> QED BY <1>1, <1>2, <1>3, <1>6, <2>1, <3>1 DEF IInv, Members, Turning, leaf
  <2>6. Backlogged'
    BY <1>1, <1>6 DEF IInv, Backlogged
  <2> QED BY <1>4, <1>5, <2>2, <2>3, <2>4, <2>5, <2>6 DEF IInv
<1>7. CASE /\ queue[leaf] # <<>> /\ Fits(Head(queue[leaf]), quota[leaf])
           /\ next' = leaf /\ pc' = "idle" /\ UNCHANGED <<at, round>>
  <2>1. UNCHANGED <<ahead, behind, fresh, at>> /\ UNCHANGED round /\ Listed' = Listed
    BY <1>7 DEF round, Listed
  <2>2. TypeRound' /\ Shares' /\ FreshBelowFresh'
    BY <1>1, <2>1, RoundStays
  <2>3. TypeMoney' /\ QuotaConserved'
    BY <1>1, <2>1, MoneyStays
  <2>4. TypeControl' /\ TypeQueues' /\ Ring' /\ Turning' /\ Backlogged'
    BY <1>1, <1>2, <1>7, <2>1 DEF IInv, TypeControl, TypeQueues, Ring, Turning, Backlogged
  <2>5. Members'
    BY <1>1, <1>7, <2>1, MembersStay
  <2>6. Selected'
    <3>1. quota' = quota
      BY <1>1 DEF money
    <3> QED BY <1>1, <1>7, <2>1, <3>1 DEF Selected, Fits, leaf
  <2> QED BY <1>4, <1>5, <2>2, <2>3, <2>4, <2>5, <2>6 DEF IInv
<1>8. CASE Advance(Append(behind, leaf), Tail(ahead)) /\ UNCHANGED <<at, next>>
  <2> DEFINE done == Append(behind, leaf)
  <2>1. /\ done \in Seq(Leaves) /\ IsInjective(done) /\ Range(done) = Range(behind) \cup {leaf}
    BY <1>2, AppendNew
  <2>2. Advance(done, Tail(ahead))
    BY <1>8
  <2> HIDE DEF done
  <2>3. Range(done) \cap Range(Tail(ahead)) = {}
    BY <1>2, <2>1
  <2>4. \A c \in Range(done) : fresh[c] /\ isBusy[c]
    BY <1>2, <1>3, <2>1
  <2>5. /\ TypeRound' /\ FreshBelowFresh' /\ Shares'
        /\ IsInjective(ahead') /\ IsInjective(behind') /\ Range(ahead') \cap Range(behind') = {}
        /\ Listed' = Range(done) \cup Range(Tail(ahead))
        /\ \/ pc' = "update" /\ ahead' # <<>>
           \/ pc' = "find" /\ ahead' = <<>> /\ behind' = <<>>
    BY <1>2, <2>1, <2>2, <2>3, <2>4, AdvanceKeeps DEF IInv
  <2>6. Listed' = Listed
    BY <1>2, <2>1, <2>5 DEF Listed
  <2>7. TypeMoney' /\ QuotaConserved'
    BY <1>1, <2>6, MoneyStays
  <2>8. Ring'
    BY <2>5, EmptySequence DEF Ring
  <2>9. TypeControl' /\ TypeQueues' /\ Turning' /\ Selected' /\ Backlogged'
    BY <1>1, <1>8, <2>5 DEF IInv, TypeControl, TypeQueues, Turning, Selected, Backlogged
  <2>10. Members'
    <3>1. Dropped = {} /\ Dropped' = {}
      BY <1>1, <2>5 DEF Dropped
    <3> QED BY <1>1, <2>6, <3>1 DEF IInv, Members
  <2> QED BY <1>4, <1>5, <2>5, <2>7, <2>8, <2>9, <2>10 DEF IInv
<1> QED BY <1>6, <1>7, <1>8 DEF FindLeaf, leaf

(***************************************************************************)
(* A leaf becomes idle.                                                    *)
(***************************************************************************)

\* hlsSetIdle: a class becomes idle and donates its quota; its parent is the
\* next one if its last busy child is gone.
LEMMA SetIdleKeeps ==
  ASSUME IInv, SetIdle
  PROVE  IInv'
<1> DEFINE up == at # Root /\ busyWeight'[Parent[at]] = 0
<1>1. /\ pc = "setidle"
      /\ isBusy' = [isBusy EXCEPT ![at] = FALSE]
      /\ fairShare' = [fairShare EXCEPT ![at] = 0]
      /\ numBusy' = numBusy - 1
      /\ at = Root => quota' = quota /\ busyWeight' = busyWeight
      /\ at # Root => /\ quota' = Donated(at)
                      /\ busyWeight' = [busyWeight EXCEPT ![Parent[at]] = @ - Weight[at]]
      /\ up => at' = Parent[at] /\ pc' = "setidle"
      /\ ~up => at' = NULL /\ pc' = "removeleaf"
      /\ UNCHANGED <<roundSize, next, queue, error, fresh, ahead, behind>>
  BY DEF SetIdle, CountedOut, round
<1> HIDE DEF up
<1>2. /\ at \in Classes /\ isBusy[at] /\ ahead # <<>>
      /\ at \in Leaves => at = Head(ahead)
      /\ at \in Inners => busyWeight[at] = 0
      /\ at # Root => Parent[at] \in Classes /\ Parent[at] \in Inners /\ Parent[at] # at
  BY <1>1, TreeFacts DEF IInv, Turning, Ring
<1>3. BusyChildren(at) = {}
  BY <1>2, ChildrenFacts DEF IInv, Weights, Leaves
<1>4. /\ isBusy' \in [Classes -> BOOLEAN] /\ ~isBusy'[at]
      /\ \A c \in Classes : c # at => isBusy'[c] = isBusy[c]
  BY <1>1, <1>2 DEF IInv, TypeTree
<1>5. \A c \in Classes : BusyChildren(c)' = BusyChildren(c) \ {at}
  BY <1>4 DEF BusyChildren
<1>6. Weights' /\ busyWeight' \in [Classes -> Nat]
  <2>0. busyWeight \in [Classes -> Nat]
    BY DEF IInv, TypeTree
  <2>1. ASSUME NEW c \in Classes
        PROVE  busyWeight'[c] = Sum(Weight, BusyChildren(c)') /\ busyWeight'[c] \in Nat
    <3>1. /\ busyWeight[c] = Sum(Weight, BusyChildren(c)) /\ busyWeight[c] \in Nat
      BY DEF IInv, Weights, TypeTree
    <3>2. CASE at \in BusyChildren(c)
      <4>1. at # Root /\ Parent[at] = c
        BY <3>2, ChildrenFacts DEF BusyChildren
      <4>2. busyWeight'[c] = busyWeight[c] - Weight[at]
        BY <1>1, <2>0, <4>1
      <4>3. /\ IsFiniteSet(BusyChildren(c)) /\ Weight[at] \in Nat
            /\ \A x \in BusyChildren(c) : Weight[x] \in Int
        BY <1>2, ChildrenFacts, WeightFacts
      <4>4. Sum(Weight, BusyChildren(c)) = Sum(Weight, BusyChildren(c) \ {at}) + Weight[at]
        BY <3>2, <4>3, SumRemove
      <4>5. Sum(Weight, BusyChildren(c) \ {at}) \in Nat
        <5>1. IsFiniteSet(BusyChildren(c) \ {at})
          BY <4>3, FS_RemoveElement
        <5>2. \A x \in BusyChildren(c) \ {at} : Weight[x] \in Nat
          BY ChildrenFacts, WeightFacts
        <5> QED BY <5>1, <5>2, SumNatural
      <4>6. busyWeight'[c] = Sum(Weight, BusyChildren(c) \ {at})
        BY <3>1, <4>2, <4>3, <4>4, <4>5
      <4>7. BusyChildren(c)' = BusyChildren(c) \ {at}
        BY <1>5
      <4> QED BY <4>5, <4>6, <4>7
    <3>3. CASE at \notin BusyChildren(c)
      <4>1. BusyChildren(c)' = BusyChildren(c)
        BY <1>5, <3>3
      <4>2. at # Root => Parent[at] # c
        BY <1>2, <3>3 DEF BusyChildren
      <4>3. busyWeight'[c] = busyWeight[c]
        BY <1>1, <2>0, <4>2
      <4> QED BY <3>1, <4>1, <4>3
    <3> QED BY <3>2, <3>3
  <2>2. busyWeight' \in [Classes -> Nat]
    <3>1. CASE at = Root
      BY <1>1, <2>0, <3>1
    <3>2. CASE at # Root
      <4>1. busyWeight'[Parent[at]] \in Nat
        BY <1>2, <2>1, <3>2
      <4>2. busyWeight' = [busyWeight EXCEPT ![Parent[at]] = busyWeight[Parent[at]] - Weight[at]]
        BY <1>1, <3>2
      <4>3. busyWeight'[Parent[at]] = busyWeight[Parent[at]] - Weight[at]
        BY <1>2, <2>0, <3>2, <4>2
      <4> QED BY <2>0, <4>1, <4>2, <4>3
    <3> QED BY <3>1, <3>2
  <2> QED BY <2>1, <2>2 DEF Weights
<1>7. Counted' /\ numBusy' \in Nat
  <2> DEFINE B == {c \in Classes : isBusy[c]}
  <2>1. {c \in Classes : isBusy'[c]} = B \ {at}
    BY <1>4
  <2>2. IsFiniteSet(B) /\ at \in B
    BY <1>2, TreeFacts, FS_Subset
  <2>3. numBusy = Cardinality(B)
    BY DEF IInv, Counted
  <2> HIDE DEF B
  <2>4. IsFiniteSet(B \ {at}) /\ Cardinality(B \ {at}) = Cardinality(B) - 1
    BY <2>2, FS_RemoveElement
  <2>5. numBusy' = Cardinality(B \ {at}) /\ numBusy' \in Nat
    BY <1>1, <2>3, <2>4, FS_CardinalityType
  <2>6. numBusy' = Cardinality({c \in Classes : isBusy'[c]})
    BY <2>1, <2>5
  <2> QED BY <2>5, <2>6 DEF Counted
<1>8. BusyAbove'
  <2> SUFFICES ASSUME NEW c \in Classes \ {Root}, isBusy'[c] PROVE isBusy'[Parent[c]]
    BY DEF BusyAbove
  <2>1. c # at /\ isBusy[c] /\ Parent[c] \in Classes
    BY <1>4, TreeFacts
  <2>2. isBusy[Parent[c]] /\ Parent[c] # at
    BY <1>3, <2>1 DEF IInv, BusyAbove, BusyChildren
  <2> QED BY <1>4, <2>1, <2>2
<1>9. BusyBelow'
  <2> SUFFICES ASSUME NEW c \in Inners, isBusy'[c], BusyChildren(c)' = {}
               PROVE  pc' = "setidle" /\ c = at'
    BY DEF BusyBelow
  <2>1. c \in Classes /\ c # at /\ isBusy[c]
    BY <1>4, TreeFacts
  <2>2. BusyChildren(c) # {}
    BY <2>1 DEF IInv, BusyBelow
  <2>3. at \in BusyChildren(c)
    BY <1>5, <2>1, <2>2
  <2>4. at # Root /\ Parent[at] = c
    BY <2>1, <2>3, ChildrenFacts DEF BusyChildren
  <2>5. busyWeight'[c] = 0
    BY <1>6, <2>1, SumEmpty DEF Weights
  <2> QED BY <1>1, <2>4, <2>5 DEF up
<1>10. Head(ahead) \in Leaves /\ Head(ahead) \in Classes
  BY <1>2, HeadFacts
<1>11. at' \notin Leaves /\ at' \in Classes \cup {NULL}
  BY <1>1, <1>2, TreeFacts DEF Leaves, up
<1>12. Members'
  <2>1. Dropped' = {Head(ahead)} /\ Listed' = Listed
    BY <1>1, <1>10, <1>11 DEF Dropped, Listed
  <2> SUFFICES ASSUME NEW c \in Leaves
               PROVE  isBusy'[c] <=> c \in Listed /\ c # Head(ahead)
    BY <2>1 DEF Members
  <2>2. c \in Classes
    BY TreeFacts
  <2>3. CASE at \in Leaves
    <3>1. Dropped = {} /\ at = Head(ahead)
      BY <1>1, <1>2, <2>3 DEF Dropped
    <3> QED BY <1>4, <2>2, <3>1 DEF IInv, Members
  <2>4. CASE at \notin Leaves
    <3>1. Dropped = {Head(ahead)} /\ c # at
      BY <1>1, <1>10, <2>4 DEF Dropped
    <3> QED BY <1>4, <2>2, <3>1 DEF IInv, Members
  <2> QED BY <2>3, <2>4
<1>13. Turning'
  <2>1. ASSUME up
        PROVE  at' \in Classes /\ isBusy'[at'] /\ at' \notin Leaves /\ busyWeight'[at'] = 0
    <3>1. at # Root /\ at' = Parent[at] /\ busyWeight'[Parent[at]] = 0
      BY <1>1, <2>1 DEF up
    <3>2. isBusy[Parent[at]]
      BY <1>2, <3>1 DEF IInv, BusyAbove
    <3> QED BY <1>2, <1>4, <1>11, <3>1, <3>2
  <2>2. CASE up
    BY <1>1, <2>1, <2>2 DEF Turning
  <2>3. CASE ~up
    BY <1>1, <2>3 DEF Turning
  <2> QED BY <2>2, <2>3
<1>14. Backlogged'
  <2> SUFFICES ASSUME ~CanRemove, NEW c \in Leaves
               PROVE  queue[c] # <<>> <=> isBusy'[c]
    BY <1>1, <1>11 DEF Backlogged, up
  <2>1. queue[c] # <<>> <=> isBusy[c] /\ c # at
    BY <1>1 DEF IInv, Backlogged
  <2> QED BY <1>4, <2>1, TreeFacts
<1>15. TypeControl' /\ TypeRound' /\ TypeQueues' /\ TypeTree'
  BY <1>1, <1>4, <1>6, <1>7, <1>11 DEF IInv, TypeControl, TypeRound, TypeQueues, TypeTree, up
<1>16. Ring' /\ Shares' /\ FreshBelowFresh' /\ Selected'
  BY <1>1, <1>2 DEF IInv, Ring, Shares, FreshBelowFresh, Selected, up
<1>17. TypeMoney' /\ QuotaConserved'
  <2>1. quota \in [Classes -> Int] /\ (\A c \in Classes : quota[c] \in Int) /\ quota[at] \in Int
    BY <1>2 DEF IInv, TypeMoney
  <2>2. quota' \in [Classes -> Int] /\ Sum(quota', Classes) = Sum(quota, Classes)
    <3>1. CASE at = Root
      BY <1>1, <2>1, <3>1
    <3>2. CASE at # Root
      <4> DEFINE p == Parent[at]
      <4>1. quota' = [quota EXCEPT ![at] = 0, ![p] = @ + quota[at]]
        BY <1>1, <3>2 DEF Donated
      <4>2. p \in Classes /\ p # at
        BY <1>2, <3>2
      <4> HIDE DEF p
      <4>3. /\ quota'[at] = quota[at] - quota[at] /\ quota'[p] = quota[p] + quota[at]
            /\ \A c \in Classes \ {at, p} : quota'[c] = quota[c]
            /\ quota' \in [Classes -> Int]
        BY <1>2, <2>1, <4>1, <4>2
      <4> QED BY <1>2, <2>1, <4>2, <4>3, TreeFacts, SumMove
    <3> QED BY <3>1, <3>2
  <2>3. fairShare' \in [Classes -> Nat] /\ roundSize' = roundSize /\ Listed' = Listed
    BY <1>1 DEF IInv, TypeMoney, Listed
  <2> QED BY <2>2, <2>3 DEF IInv, TypeMoney, QuotaConserved
<1> QED BY <1>6, <1>7, <1>8, <1>9, <1>12, <1>13, <1>14, <1>15, <1>16, <1>17 DEF IInv

\* The idle leaf leaves the list and takes its mtu out of the round.
LEMMA RemoveLeafKeeps ==
  ASSUME IInv, RemoveLeaf
  PROVE  IInv'
<1> DEFINE leaf == Head(ahead)
<1>1. /\ pc = "removeleaf" /\ ahead # <<>>
      /\ quota' = [quota EXCEPT ![Root] = @ - LeafMtu[leaf]]
      /\ roundSize' = roundSize - LeafMtu[leaf]
      /\ Advance(behind, Tail(ahead))
      /\ UNCHANGED <<at, fairShare, next, queue, error, isBusy>> /\ UNCHANGED tree
  BY DEF RemoveLeaf, WithoutMtu, IInv, Ring, tree
<1>2. /\ leaf \in Leaves /\ leaf \in Classes /\ leaf \in Listed
      /\ ahead \in Seq(Leaves) /\ behind \in Seq(Leaves)
      /\ IsInjective(ahead) /\ IsInjective(behind) /\ Range(ahead) \cap Range(behind) = {}
      /\ Tail(ahead) \in Seq(Leaves) /\ IsInjective(Tail(ahead))
      /\ Range(ahead) = Range(Tail(ahead)) \cup {leaf}
      /\ leaf \notin Range(Tail(ahead)) /\ leaf \notin Range(behind)
      /\ Range(behind) \subseteq Leaves /\ Range(Tail(ahead)) \subseteq Leaves
      /\ \A c \in Range(behind) : fresh[c] /\ isBusy[c]
      /\ \A c \in Range(Tail(ahead)) : ~fresh[c]
  BY <1>1, HeadFacts
<1>3. Dropped = {leaf}
  BY <1>1 DEF Dropped
<1> HIDE DEF leaf
<1>4. Range(behind) \cap Range(Tail(ahead)) = {}
  BY <1>2
<1>5. /\ TypeRound' /\ FreshBelowFresh' /\ Shares'
      /\ IsInjective(ahead') /\ IsInjective(behind') /\ Range(ahead') \cap Range(behind') = {}
      /\ Listed' = Range(behind) \cup Range(Tail(ahead))
      /\ \/ pc' = "update" /\ ahead' # <<>>
         \/ pc' = "find" /\ ahead' = <<>> /\ behind' = <<>>
  BY <1>1, <1>2, <1>4, AdvanceKeeps DEF IInv
<1>6. Listed' = Listed \ {leaf}
  BY <1>2, <1>5 DEF Listed
<1>7. TypeTree' /\ BusyAbove' /\ Weights' /\ Counted'
  BY <1>1, TreeStays
<1>8. Ring'
  BY <1>5, EmptySequence DEF Ring
<1>9. TypeControl' /\ TypeQueues' /\ Turning' /\ Selected' /\ Backlogged'
  BY <1>1, <1>5 DEF IInv, TypeControl, TypeQueues, Turning, Selected, Backlogged
<1>10. Members' /\ BusyBelow'
  <2>1. Dropped' = {}
    BY <1>5 DEF Dropped
  <2> QED BY <1>1, <1>3, <1>6, <2>1 DEF IInv, Members, BusyBelow, BusyChildren
<1>11. TypeMoney' /\ QuotaConserved'
  <2>1. LeafMtu[leaf] \in Nat /\ Root \in Classes /\ IsFiniteSet(Classes) /\ roundSize \in Int
    BY <1>2, TreeFacts, WeightFacts DEF IInv, TypeMoney
  <2>2. quota \in [Classes -> Int] /\ \A c \in Classes : quota[c] \in Int
    BY DEF IInv, TypeMoney
  <2>3. /\ quota'[Root] = quota[Root] - LeafMtu[leaf] /\ quota' \in [Classes -> Int]
        /\ quota'[Root] \in Int /\ \A c \in Classes \ {Root} : quota'[c] = quota[c]
    BY <1>1, <2>1, <2>2
  <2>4. Sum(quota', Classes) = Sum(quota, Classes) - quota[Root] + quota'[Root]
    BY <2>1, <2>2, <2>3, SumChange
  <2>5. Sum(LeafMtu, Listed) = Sum(LeafMtu, Listed \ {leaf}) + LeafMtu[leaf]
    <3>1. IsFiniteSet(Listed) /\ \A c \in Listed : LeafMtu[c] \in Int
      BY ListFacts, WeightFacts DEF IInv
    <3> QED BY <1>2, <3>1, SumRemove
  <2>6. Sum(LeafMtu, Listed \ {leaf}) \in Int /\ Sum(Weight, Classes) \in Nat
    <3>1. IsFiniteSet(Listed \ {leaf}) /\ \A c \in Listed \ {leaf} : LeafMtu[c] \in Int
      BY ListFacts, WeightFacts, FS_Subset DEF IInv
    <3> QED BY <3>1, SumInteger, TreeFacts, WeightFacts, SumNatural
  <2>7. /\ Sum(quota, Classes) = roundSize
        /\ roundSize = Sum(Weight, Classes) + Sum(LeafMtu, Listed)
    BY DEF IInv, QuotaConserved
  <2>8. Sum(quota', Classes) = roundSize'
    BY <1>1, <2>1, <2>2, <2>3, <2>4, <2>7
  <2>9. roundSize' = Sum(Weight, Classes) + Sum(LeafMtu, Listed')
    BY <1>1, <1>6, <2>1, <2>5, <2>6, <2>7
  <2>10. TypeMoney'
    BY <1>1, <2>1, <2>3 DEF IInv, TypeMoney
  <2> QED BY <2>8, <2>9, <2>10 DEF QuotaConserved
<1> QED BY <1>5, <1>7, <1>8, <1>9, <1>10, <1>11 DEF IInv

(***************************************************************************)
(* The theorems.                                                           *)
(***************************************************************************)

\* Every step keeps the inductive invariant.
LEMMA NextKeeps ==
  ASSUME IInv, [Next]_vars
  PROVE  IInv'
<1>1. CASE UNCHANGED vars
  <2>1. UNCHANGED <<pc, at, quota, fairShare, roundSize, busyWeight, isBusy, numBusy>>
    BY <1>1 DEF vars, money, tree
  <2>2. UNCHANGED <<fresh, ahead, behind, next, queue, error>>
    BY <1>1 DEF vars, round
  <2>3. TypeControl' /\ TypeMoney' /\ TypeTree' /\ TypeRound' /\ TypeQueues'
    BY <2>1, <2>2 DEF IInv, TypeControl, TypeMoney, TypeTree, TypeRound, TypeQueues
  <2>4. Listed' = Listed /\ Dropped' = Dropped
    BY <2>1, <2>2 DEF Listed, Dropped
  <2>5. Ring' /\ Members' /\ Turning' /\ BusyAbove' /\ BusyBelow' /\ Weights' /\ Counted'
    BY <2>1, <2>2, <2>4 DEF IInv, Ring, Members, Turning, BusyAbove, BusyBelow, Weights, Counted, BusyChildren
  <2>6. Shares' /\ FreshBelowFresh' /\ QuotaConserved' /\ Selected' /\ Backlogged'
    BY <2>1, <2>2, <2>4 DEF IInv, Shares, FreshBelowFresh, QuotaConserved, Selected, Backlogged
  <2> QED BY <2>3, <2>5, <2>6 DEF IInv
<1>2. CASE \E c \in Leaves, s \in Sizes : Push(c, s)
  BY <1>2, PushKeeps
<1>3. CASE \E c \in Leaves : \E i \in DOMAIN queue[c] : RemovePacket(c, i)
  BY <1>3, RemovePacketKeeps
<1>4. CASE RemoveAll
  BY <1>4, RemoveAllKeeps
<1>5. CASE Pull
  BY <1>5, PullKeeps
<1>6. CASE Handler
  BY <1>6, UpdateKeeps, UpdatedKeeps, UpdateAwakeKeeps, SetBusyKeeps, SetIdleKeeps,
     RemoveLeafKeeps, FindMarkerKeeps, FindLeafKeeps DEF Handler
<1> QED BY <1>1, <1>2, <1>3, <1>4, <1>5, <1>6 DEF Next

\* The inductive invariant holds in every reachable state.
THEOREM InvariantHolds == Spec => []IInv
BY InitKeeps, NextKeeps, PTL DEF Spec

\* Every variable keeps its type.
THEOREM TypeCorrect == Spec => []TypeOK
<1>1. IInv => TypeOK
  BY DEF IInv, TypeOK, TypeControl, TypeMoney, TypeTree, TypeRound, TypeQueues
<1> QED BY <1>1, InvariantHolds, PTL

\* Quota is neither made nor lost: what all classes hold together is always
\* roundSize, the weights of all classes and the mtus of the leaves in the
\* round robin, whichever shares are taken, donated and paid back.
THEOREM QuotaAlwaysConserved == Spec => []QuotaConserved
<1>1. IInv => QuotaConserved
  BY DEF IInv
<1> QED BY <1>1, InvariantHolds, PTL

\* The busy flags, the list, the weights of busy children and the number of
\* busy classes agree whenever hlsSetIdle is not on its way.
THEOREM TreeAlwaysConsistent == Spec => []BusyTree
<1>1. ASSUME IInv, pc \notin {"setidle", "removeleaf", "error"}
      PROVE  /\ \A c \in Leaves : isBusy[c] <=> c \in Listed
             /\ Cardinality(Listed) = Len(ahead) + Len(behind)
             /\ \A c \in Inners : isBusy[c] <=> \E d \in Classes : Parent[d] = c /\ isBusy[d]
             /\ \A c \in Inners :
                  busyWeight[c] = Sum(Weight, {d \in Classes : Parent[d] = c /\ isBusy[d]})
             /\ numBusy = Cardinality({c \in Classes : isBusy[c]})
  <2>1. \A c \in Leaves : isBusy[c] <=> c \in Listed
    BY <1>1 DEF IInv, Members, Dropped
  <2>2. Cardinality(Listed) = Len(ahead) + Len(behind)
    BY <1>1, ListFacts DEF IInv
  <2>3. ASSUME NEW c \in Inners
        PROVE  isBusy[c] <=> \E d \in Classes : Parent[d] = c /\ isBusy[d]
    <3>1. isBusy[c] => \E d \in Classes : Parent[d] = c /\ isBusy[d]
      BY <1>1 DEF IInv, BusyBelow, BusyChildren
    <3>2. ASSUME NEW d \in Classes, Parent[d] = c, isBusy[d]
          PROVE  isBusy[c]
      <4>1. d # Root
        BY <3>2, TreeFacts
      <4> QED BY <1>1, <3>2, <4>1 DEF IInv, BusyAbove
    <3> QED BY <3>1, <3>2
  <2>4. \A c \in Inners :
          busyWeight[c] = Sum(Weight, {d \in Classes : Parent[d] = c /\ isBusy[d]})
    BY <1>1, TreeFacts DEF IInv, Weights, BusyChildren
  <2>5. numBusy = Cardinality({c \in Classes : isBusy[c]})
    BY <1>1 DEF IInv, Counted
  <2> QED BY <2>1, <2>2, <2>3, <2>4, <2>5
<1>2. IInv => BusyTree
  BY <1>1 DEF BusyTree
<1> QED BY <1>2, InvariantHolds, PTL

\* In every round every busy leaf takes its share exactly once.
THEOREM SharesTakenOnce == Spec => []OncePerRound
<1>1. ASSUME IInv
      PROVE  OncePerRound
  <2>1. \A c \in Range(behind) : fresh[c]
    BY <1>1 DEF IInv, Shares
  <2>2. ASSUME NEW i \in DOMAIN ahead, i > 1
        PROVE  ~fresh[ahead[i]]
    <3>1. ahead \in Seq(Leaves) /\ i \in 1..Len(ahead) /\ Len(ahead) \in Nat
      BY <1>1 DEF IInv, TypeRound
    <3>2. /\ ahead # <<>> /\ i - 1 \in 1..Len(ahead)-1
          /\ DOMAIN Tail(ahead) = 1..Len(ahead)-1
          /\ Tail(ahead)[i-1] = ahead[i]
      BY <2>2, <3>1
    <3>3. ahead[i] \in Range(Tail(ahead))
      BY <3>2 DEF Range
    <3> QED BY <1>1, <3>2, <3>3 DEF IInv, Shares
  <2> QED BY <2>1, <2>2 DEF OncePerRound
<1> QED BY <1>1, InvariantHolds, PTL

\* A class that is up to date took its share from a parent that was.
THEOREM FreshAlwaysBelowFresh == Spec => []FreshBelowFresh
<1>1. IInv => FreshBelowFresh
  BY DEF IInv
<1> QED BY <1>1, InvariantHolds, PTL

\* The assertion of handlePacketScheduled, and the division by the weight of
\* the busy children, never fail, packets that vanish from queues included.
THEOREM NeverFails == Spec => []NoError
<1>1. IInv => NoError
  BY DEF IInv, TypeControl, NoError
<1> QED BY <1>1, InvariantHolds, PTL

\* Without removals the selected leaf is the current one, has a packet, and
\* its quota pays for it; none is selected only when all queues are empty.
THEOREM SelectionAlwaysCorrect == Spec => []SelectionCorrect
<1>1. ASSUME IInv, pc = "idle", ~CanRemove
      PROVE  IF \A c \in Leaves : queue[c] = <<>> THEN next = NULL
             ELSE /\ next # NULL /\ ahead # <<>> /\ next = Head(ahead)
                  /\ queue[next] # <<>>
                  /\ Head(queue[next]) + PhyHeader <= quota[next]
  <2>1. \A c \in Leaves : queue[c] # <<>> <=> c \in Listed
    BY <1>1 DEF IInv, Backlogged, Members, Dropped
  <2>2. CASE next = NULL /\ ahead = <<>>
    <3>1. Listed = {}
      BY <1>1, <2>2, EmptySequence DEF IInv, Ring, Listed
    <3> QED BY <2>1, <2>2, <3>1
  <2>3. CASE /\ ahead # <<>> /\ next = Head(ahead) /\ queue[next] # <<>>
             /\ Head(queue[next]) + PhyHeader <= quota[next]
    <3>1. next \in Leaves /\ next # NULL
      BY <1>1, <2>3, HeadFacts, TreeFacts
    <3> QED BY <2>3, <3>1
  <2> QED BY <1>1, <2>2, <2>3 DEF IInv, Selected
<1>2. IInv => SelectionCorrect
  BY <1>1 DEF SelectionCorrect
<1> QED BY <1>2, InvariantHolds, PTL

\* isEmpty(), which counts busy classes, agrees with getNumPackets().
THEOREM EmptyAlwaysAgrees == Spec => []EmptyAgrees
<1>1. ASSUME IInv, pc = "idle", ~CanRemove
      PROVE  IsEmpty <=> \A c \in Leaves : queue[c] = <<>>
  <2> DEFINE B == {c \in Classes : isBusy[c]}
  <2>1. \A c \in Leaves : queue[c] # <<>> <=> isBusy[c]
    BY <1>1 DEF IInv, Backlogged
  <2>2. numBusy = Cardinality(B) /\ IsFiniteSet(B)
    BY <1>1, TreeFacts, FS_Subset DEF IInv, Counted
  <2>3. IsEmpty <=> B = {}
    BY <2>2, FS_EmptySet DEF IsEmpty
  <2>4. B = {} => \A c \in Leaves : ~isBusy[c]
    BY TreeFacts
  <2>5. ASSUME \A c \in Leaves : ~isBusy[c], B # {}
        PROVE  FALSE
    \* The last busy class in the order of the configuration has no children.
    <3>1. B \subseteq 1..NumClasses /\ NumClasses \in Nat
      BY TreeAssumption DEF Classes
    <3> DEFINE distances == {NumClasses - c : c \in B}
    <3>2. distances \in SUBSET Nat /\ distances # {}
      BY <2>5, <3>1
    <3>3. PICK n \in distances : \A k \in distances : n <= k
      BY <3>2, LeastNatural
    <3>4. PICK c \in B : n = NumClasses - c
      OBVIOUS
    <3>5. \A d \in B : d <= c
      BY <3>1, <3>3, <3>4
    <3>6. c \in Inners /\ c \in Classes
      BY <2>5 DEF Leaves
    <3>7. PICK d \in Classes : Parent[d] = c /\ isBusy[d]
      BY <1>1, <3>6 DEF IInv, BusyBelow, BusyChildren
    <3>8. d # Root /\ d \in Nat /\ c \in Nat
      BY <3>1, <3>6, <3>7, TreeFacts DEF Classes
    <3>9. Parent[d] < d
      BY <3>8, TreeAssumption
    <3> QED BY <3>5, <3>7, <3>8, <3>9
  <2> QED BY <2>1, <2>3, <2>4, <2>5
<1>2. IInv => EmptyAgrees
  BY <1>1 DEF EmptyAgrees
<1> QED BY <1>2, InvariantHolds, PTL

(***************************************************************************)
(* Where quotas can be negative.  Unless packets are removed, only the     *)
(* root's: a leaf sends what its quota pays for, and an inner class that   *)
(* is up to date holds what it still owes to its busy children in this     *)
(* round.                                                                  *)
(***************************************************************************)
\* The busy children of c that have not had their share in this round.
Owed(c) == {d \in Classes : Parent[d] = c /\ isBusy[d] /\ ~fresh[d]}

Solvent ==
  /\ NegativeAtRootOnly
  /\ \A c \in Inners \ {Root} :
       fresh[c] => fairShare[c] * Sum(Weight, Owed(c)) <= quota[c]

\* What is owed is a sum over finitely many children.
LEMMA OwedFacts ==
  ASSUME NEW c \in Classes
  PROVE  /\ Owed(c) \subseteq Classes /\ IsFiniteSet(Owed(c)) /\ Root \notin Owed(c)
         /\ \A d \in Owed(c) : Weight[d] \in Nat
         /\ Sum(Weight, Owed(c)) \in Nat
<1>1. Owed(c) \subseteq Classes /\ IsFiniteSet(Owed(c)) /\ Root \notin Owed(c)
  BY TreeFacts, FS_Subset DEF Owed
<1>2. \A d \in Owed(c) : Weight[d] \in Nat
  BY <1>1, WeightFacts
<1> QED BY <1>1, <1>2, SumNatural

\* Arithmetic: fewer shares cost less.
LEMMA FewerShares ==
  ASSUME NEW f \in Nat, NEW a \in Nat, NEW b \in Nat, a <= b
  PROVE  f * a <= f * b
OBVIOUS

\* A share that is paid is no longer owed.
LEMMA SharePaid ==
  ASSUME NEW f \in Nat, NEW w \in Nat, NEW r \in Nat, NEW q \in Int, f * (r + w) <= q
  PROVE  w * f \in Nat /\ f * r \in Nat /\ f * r <= q - w * f
<1>1. f * (r + w) = f * r + w * f
  OBVIOUS
<1>2. w * f \in Nat /\ f * r \in Nat
  OBVIOUS
<1> QED BY <1>1, <1>2

\* The shares of hlsComputeFairShare do not exceed the quota.
LEMMA FairShareCovered ==
  ASSUME NEW q \in Int, NEW w \in Nat, w # 0, q >= 0
  PROVE  FairShare(q, w) \in Nat /\ FairShare(q, w) * w <= q
<1>1. q \div w \in Nat /\ (q \div w) * w <= q
  OBVIOUS
<1> QED BY <1>1 DEF FairShare
-----------------------------------------------------------------------------
\* As long as quotas below the root and shares stay, and no class owes more.
LEMMA SolventStays ==
  ASSUME IInv, Solvent, UNCHANGED fairShare,
         \A c \in Classes \ {Root} : quota'[c] = quota[c],
         \A c \in Inners \ {Root} : fresh'[c] =>
           Owed(c)' = {} \/ (fresh[c] /\ Owed(c)' \subseteq Owed(c))
  PROVE  Solvent'
<1>1. NegativeAtRootOnly'
  BY DEF Solvent, NegativeAtRootOnly
<1>2. ASSUME NEW c \in Inners \ {Root}, fresh'[c]
      PROVE  fairShare'[c] * Sum(Weight, Owed(c)') <= quota'[c]
  <2>1. /\ c \in Classes /\ fairShare[c] \in Nat /\ quota[c] \in Int /\ quota[c] >= 0
        /\ quota'[c] = quota[c] /\ fairShare'[c] = fairShare[c]
    BY TreeFacts DEF IInv, TypeMoney, Solvent, NegativeAtRootOnly
  <2>2. CASE Owed(c)' = {}
    <3>1. Sum(Weight, Owed(c)') = 0
      BY <2>2, SumEmpty
    <3> QED BY <2>1, <3>1
  <2>3. CASE fresh[c] /\ Owed(c)' \subseteq Owed(c)
    <3>1. /\ Sum(Weight, Owed(c)') \in Nat /\ Sum(Weight, Owed(c)) \in Nat
          /\ Sum(Weight, Owed(c)') <= Sum(Weight, Owed(c))
      BY <2>1, <2>3, OwedFacts, SumSubset
    <3>2. fairShare[c] * Sum(Weight, Owed(c)) <= quota[c]
      BY <2>3 DEF Solvent
    <3>3. fairShare[c] * Sum(Weight, Owed(c)') <= fairShare[c] * Sum(Weight, Owed(c))
      BY <2>1, <3>1, FewerShares
    <3>4. fairShare[c] * Sum(Weight, Owed(c)') \in Int /\ fairShare[c] * Sum(Weight, Owed(c)) \in Int
      BY <2>1, <3>1
    <3> QED BY <2>1, <3>2, <3>3, <3>4
  <2> QED BY <1>2, <2>2, <2>3
<1> QED BY <1>1, <1>2 DEF Solvent

\* A class takes its share: its parent had owed it, and owes it no more; an
\* inner class owes its busy children what its quota is good for.
LEMMA SolventUpdate ==
  ASSUME IInv, Solvent, pc # "setidle", NEW target \in Classes, isBusy[target], UpdateQuota(target)
  PROVE  Solvent'
<1>1. PICK d \in Classes :
        /\ d \in Path[target] /\ isBusy[d] /\ ~fresh[d]
        /\ d # Root => fresh[Parent[d]]
        /\ d \in Inners => busyWeight[d] # 0
        /\ quota' = Taken(d)
        /\ fresh' = [fresh EXCEPT ![d] = TRUE]
        /\ fairShare' = IF d \in Leaves THEN fairShare
                        ELSE [fairShare EXCEPT ![d] = FairShare(quota'[d], busyWeight[d])]
        /\ UNCHANGED <<pc, error, at, roundSize, ahead, behind, next, queue, isBusy>>
        /\ UNCHANGED tree
  BY UpdateStep
<1>2. /\ fresh'[d] /\ \A c \in Classes \ {d} : fresh'[c] = fresh[c]
      /\ isBusy' = isBusy
      /\ \A c \in Classes : quota[c] \in Int /\ fairShare[c] \in Nat /\ busyWeight[c] \in Nat
      /\ \A c \in Classes \ {d} : fairShare'[c] = fairShare[c]
      /\ d \in Inners => fairShare'[d] = FairShare(quota'[d], busyWeight[d])
  BY <1>1 DEF IInv, TypeMoney, TypeTree, TypeRound, Leaves
<1>3. \A c \in Classes \ {d} : Parent[d] # c => quota'[c] = quota[c] /\ Owed(c)' = Owed(c)
  BY <1>1, <1>2 DEF Taken, Owed
<1>4. ASSUME NEW p \in Classes \ {Root}, d # Root, p = Parent[d]
      PROVE  /\ p # d /\ quota'[p] >= 0
             /\ fairShare'[p] * Sum(Weight, Owed(p)') <= quota'[p]
  <2>1. p # d /\ p \in Inners \ {Root} /\ fresh[p]
    BY <1>1, <1>4, TreeFacts
  <2>2. quota'[p] = quota[p] - Weight[d] * fairShare[p]
    BY <1>1, <1>4, <2>1 DEF Taken
  <2>3. d \in Owed(p) /\ Owed(p)' = Owed(p) \ {d}
    BY <1>1, <1>2, <1>4 DEF Owed
  <2> DEFINE r == Sum(Weight, Owed(p) \ {d})
  <2>4. Sum(Weight, Owed(p)) = r + Weight[d] /\ r \in Nat /\ Weight[d] \in Nat
    <3>1. IsFiniteSet(Owed(p)) /\ \A x \in Owed(p) : Weight[x] \in Nat
      BY OwedFacts
    <3>2. Owed(p) \ {d} \in SUBSET Owed(p) /\ \A x \in Owed(p) : Weight[x] \in Int
      BY <3>1
    <3> QED BY <2>3, <3>1, <3>2, SumRemove, SumSubset
  <2> HIDE DEF r
  <2>5. fairShare[p] * (r + Weight[d]) <= quota[p]
    BY <2>1, <2>4 DEF Solvent
  <2>6. /\ Weight[d] * fairShare[p] \in Nat /\ fairShare[p] * r \in Nat
        /\ fairShare[p] * r <= quota[p] - Weight[d] * fairShare[p]
    BY <1>2, <2>4, <2>5, SharePaid
  <2>7. quota'[p] >= 0
    BY <1>2, <2>2, <2>6
  <2>8. fairShare'[p] * Sum(Weight, Owed(p)') <= quota'[p]
    BY <1>2, <2>1, <2>2, <2>3, <2>6 DEF r
  <2> QED BY <2>1, <2>7, <2>8
<1>5. ASSUME d # Root
      PROVE  quota'[d] \in Int /\ quota'[d] >= 0
  <2>1. Parent[d] \in Classes /\ Parent[d] # d /\ quota[d] >= 0
    BY <1>5, TreeFacts DEF Solvent, NegativeAtRootOnly
  <2>2. quota'[d] = quota[d] + Weight[d] * fairShare[Parent[d]]
    BY <1>1, <1>5 DEF Taken
  <2>3. Weight[d] * fairShare[Parent[d]] \in Nat
    BY <1>2, <2>1, WeightFacts
  <2> QED BY <1>2, <2>1, <2>2, <2>3
<1>6. NegativeAtRootOnly'
  <2> SUFFICES ASSUME NEW c \in Classes \ {Root} PROVE quota'[c] >= 0
    BY DEF NegativeAtRootOnly
  <2>1. CASE c = d
    BY <1>5, <2>1
  <2>2. CASE c # d /\ Parent[d] = c
    <3>1. d # Root
      BY <2>2, TreeFacts
    <3> QED BY <1>4, <2>2, <3>1
  <2>3. CASE c # d /\ Parent[d] # c
    BY <1>3, <2>3 DEF Solvent, NegativeAtRootOnly
  <2> QED BY <2>1, <2>2, <2>3
<1>7. ASSUME NEW c \in Inners \ {Root}, fresh'[c]
      PROVE  fairShare'[c] * Sum(Weight, Owed(c)') <= quota'[c]
  <2>0. c \in Classes
    BY TreeFacts
  <2>1. CASE c = d
    <3>1. Owed(d)' = BusyChildren(d)
      <4>1. \A x \in Classes : Parent[x] = d => x # Root /\ x # d
        BY TreeFacts
      <4>2. \A x \in Classes : Parent[x] = d => ~fresh'[x]
        BY <1>1, <1>2, <4>1 DEF IInv, FreshBelowFresh
      <4> QED BY <1>2, <4>2 DEF Owed, BusyChildren
    <3>2. Sum(Weight, Owed(d)') = busyWeight[d]
      BY <3>1 DEF IInv, Weights
    <3>3. quota'[d] \in Int /\ quota'[d] >= 0 /\ busyWeight[d] \in Nat /\ busyWeight[d] # 0
      BY <1>1, <1>2, <1>5, <2>1
    <3>4. FairShare(quota'[d], busyWeight[d]) * busyWeight[d] <= quota'[d]
      BY <3>3, FairShareCovered
    <3> QED BY <1>2, <2>1, <3>2, <3>4
  <2>2. CASE c # d /\ Parent[d] = c
    <3>1. d # Root
      BY <2>2, TreeFacts
    <3> QED BY <1>4, <2>0, <2>2, <3>1
  <2>3. CASE c # d /\ Parent[d] # c
    <3>1. fresh[c] /\ quota'[c] = quota[c] /\ Owed(c)' = Owed(c) /\ fairShare'[c] = fairShare[c]
      BY <1>2, <1>3, <1>7, <2>0, <2>3
    <3> QED BY <3>1 DEF Solvent
  <2> QED BY <2>1, <2>2, <2>3
<1> QED BY <1>6, <1>7 DEF Solvent

\* A packet is sent that the quota of its leaf pays for.
LEMMA SolventPull ==
  ASSUME IInv, Solvent, ~CanRemove, Pull
  PROVE  Solvent'
<1> DEFINE len == Head(queue[next]) + PhyHeader
<1>1. /\ next \in Leaves /\ next # NULL /\ len <= quota[next] /\ ahead # <<>> /\ Head(ahead) = next
      /\ queue[next] # <<>> /\ queue[next] \in Seq(Sizes)
  BY DEF IInv, Selected, Pull, CanPull, TypeQueues
<1>2. /\ quota' = [quota EXCEPT ![next] = @ - len, ![Root] = @ + len]
      /\ fairShare' = fairShare /\ fresh' = fresh /\ isBusy' = isBusy
  BY <1>1 DEF Pull, tree, round
<1>3. len \in Int
  <2>1. Head(queue[next]) \in Sizes
    BY <1>1
  <2>2. Head(queue[next]) \in Nat /\ PhyHeader \in Nat
    BY <2>1, NumberAssumption
  <2> QED BY <2>2
<1> HIDE DEF len
<1>4. next \in Classes /\ next # Root /\ next \notin Inners /\ quota \in [Classes -> Int]
  BY <1>1, TreeFacts DEF IInv, TypeMoney, Leaves
<1>5. /\ quota'[next] = quota[next] - len /\ quota[next] \in Int
      /\ \A c \in Classes \ {next, Root} : quota'[c] = quota[c]
  BY <1>2, <1>4
<1>6. NegativeAtRootOnly'
  <2> SUFFICES ASSUME NEW c \in Classes \ {Root} PROVE quota'[c] >= 0
    BY DEF NegativeAtRootOnly
  <2>1. CASE c = next
    BY <1>1, <1>3, <1>5, <2>1
  <2>2. CASE c # next
    BY <1>5, <2>2 DEF Solvent, NegativeAtRootOnly
  <2> QED BY <2>1, <2>2
<1>7. \A c \in Inners \ {Root} :
        fresh'[c] => fairShare'[c] * Sum(Weight, Owed(c)') <= quota'[c]
  <2> TAKE c \in Inners \ {Root}
  <2>1. c \in Classes \ {next, Root}
    BY <1>4, TreeFacts
  <2>2. Owed(c)' = Owed(c)
    BY <1>2 DEF Owed
  <2> QED BY <1>2, <1>5, <2>1, <2>2 DEF Solvent
<1> QED BY <1>6, <1>7 DEF Solvent

\* A class that becomes idle gives what it has to its parent.
LEMMA SolventSetIdle ==
  ASSUME IInv, Solvent, SetIdle
  PROVE  Solvent'
<1>1. /\ at \in Classes
      /\ at # Root => Parent[at] \in Classes /\ Parent[at] \in Inners /\ Parent[at] # at
      /\ isBusy' = [isBusy EXCEPT ![at] = FALSE]
      /\ fairShare' = [fairShare EXCEPT ![at] = 0]
      /\ at = Root => quota' = quota
      /\ at # Root => quota' = [quota EXCEPT ![at] = 0, ![Parent[at]] = @ + quota[at]]
      /\ fresh' = fresh
  BY TreeFacts DEF SetIdle, IInv, Turning, round, Donated
<1>2. quota \in [Classes -> Int] /\ fairShare \in [Classes -> Nat] /\ isBusy \in [Classes -> BOOLEAN]
  BY DEF IInv, TypeMoney, TypeTree
<1>3. ASSUME NEW c \in Classes \ {Root}
      PROVE  quota'[c] \in Int /\ quota'[c] >= 0 /\ (c # at => quota'[c] >= quota[c])
  <2>1. quota[c] \in Int /\ quota[c] >= 0
    BY <1>2 DEF Solvent, NegativeAtRootOnly
  <2>2. CASE at = Root
    BY <1>1, <2>1, <2>2
  <2>3. CASE at # Root
    <3> DEFINE p == Parent[at]
    <3>1. quota' = [quota EXCEPT ![at] = 0, ![p] = @ + quota[at]] /\ p # at /\ p \in Classes
      BY <1>1, <2>3
    <3>2. quota[at] \in Int /\ quota[at] >= 0
      BY <1>1, <1>2, <2>3 DEF Solvent, NegativeAtRootOnly
    <3> HIDE DEF p
    <3>3. quota'[at] = 0 /\ quota'[p] = quota[p] + quota[at] /\ (c # at /\ c # p => quota'[c] = quota[c])
      BY <1>1, <1>2, <3>1
    <3>4. CASE c = at
      BY <3>3, <3>4
    <3>5. CASE c = p
      BY <2>1, <3>1, <3>2, <3>3, <3>5
    <3>6. CASE c # at /\ c # p
      BY <2>1, <3>3, <3>6
    <3> QED BY <3>4, <3>5, <3>6
  <2> QED BY <2>2, <2>3
<1>4. ASSUME NEW c \in Inners \ {Root}, fresh'[c]
      PROVE  fairShare'[c] * Sum(Weight, Owed(c)') <= quota'[c]
  <2>1. c \in Classes /\ Owed(c)' \subseteq Owed(c)
    BY <1>1, <1>2, TreeFacts DEF Owed
  <2>2. /\ Sum(Weight, Owed(c)') \in Nat /\ Sum(Weight, Owed(c)) \in Nat
        /\ Sum(Weight, Owed(c)') <= Sum(Weight, Owed(c))
    BY <2>1, OwedFacts, SumSubset
  <2>3. CASE c = at
    <3>1. fairShare'[c] = 0
      BY <1>1, <1>2, <2>1, <2>3
    <3>2. 0 * Sum(Weight, Owed(c)') = 0
      BY <2>2
    <3>3. quota'[c] >= 0
      BY <1>3, <2>1
    <3> QED BY <3>1, <3>2, <3>3
  <2>4. CASE c # at
    <3>1. fairShare'[c] = fairShare[c] /\ fairShare[c] \in Nat /\ quota[c] \in Int
      BY <1>1, <1>2, <2>1, <2>4
    <3>2. fairShare[c] * Sum(Weight, Owed(c)) <= quota[c]
      BY <1>1, <1>4 DEF Solvent
    <3>3. fairShare[c] * Sum(Weight, Owed(c)') <= fairShare[c] * Sum(Weight, Owed(c))
      BY <2>2, <3>1, FewerShares
    <3>4. fairShare[c] * Sum(Weight, Owed(c)') \in Int /\ fairShare[c] * Sum(Weight, Owed(c)) \in Int
      BY <2>2, <3>1
    <3>5. quota'[c] \in Int /\ quota'[c] >= quota[c]
      BY <1>3, <2>1, <2>4
    <3> QED BY <3>1, <3>2, <3>3, <3>4, <3>5
  <2> QED BY <2>3, <2>4
<1> QED BY <1>3, <1>4 DEF Solvent, NegativeAtRootOnly

\* Classes become busy: they owe their children nothing in this round.
LEMMA SolventSetBusy ==
  ASSUME IInv, Solvent, SetBusy
  PROVE  Solvent'
<1>1. /\ pc = "busy" /\ fairShare' = fairShare
      /\ isBusy' = [c \in Classes |-> c \in Waking \/ isBusy[c]]
      /\ fresh' = [c \in Classes |-> c \in Waking \/ fresh[c]]
      /\ quota' = [quota EXCEPT ![Root] = @ + LeafMtu[at]]
  BY DEF SetBusy
<1>2. \A c \in Classes \ {Root} : quota'[c] = quota[c]
  BY <1>1 DEF IInv, TypeMoney
<1>3. ASSUME NEW c \in Inners \ {Root}, fresh'[c]
      PROVE  Owed(c)' = {} \/ (fresh[c] /\ Owed(c)' \subseteq Owed(c))
  <2>1. c \in Classes
    BY TreeFacts
  <2>2. Owed(c)' \subseteq Owed(c)
    BY <1>1 DEF Owed
  <2>3. ASSUME c \in Waking
        PROVE  Owed(c) = {}
    <3>1. ~isBusy[c]
      BY <1>1, <2>3, WakingFacts
    <3>2. \A d \in Classes : Parent[d] = c => d # Root
      BY <2>1, TreeFacts
    <3> QED BY <3>1, <3>2 DEF Owed, IInv, BusyAbove
  <2> QED BY <1>1, <1>3, <2>1, <2>2, <2>3
<1> QED BY <1>1, <1>2, <1>3, SolventStays
-----------------------------------------------------------------------------
\* Moving on in the list costs nothing: in a new round no class is up to date.
LEMMA SolventAdvance ==
  ASSUME IInv, Solvent, UNCHANGED fairShare, UNCHANGED isBusy,
         \A c \in Classes \ {Root} : quota'[c] = quota[c],
         fresh' = fresh \/ fresh' = NewRound
  PROVE  Solvent'
<1>1. ASSUME NEW c \in Inners \ {Root}, fresh'[c]
      PROVE  fresh[c] /\ Owed(c)' \subseteq Owed(c)
  <2>1. fresh' = fresh
    BY <1>1, TreeFacts DEF NewRound
  <2> QED BY <1>1, <2>1 DEF Owed
<1> QED BY <1>1, SolventStays

\* Every step but a removal keeps debt at the root.
LEMMA SolventNext ==
  ASSUME IInv, Solvent, ~CanRemove, [Next]_vars
  PROVE  Solvent'
<1>1. CASE UNCHANGED vars
  BY <1>1, SolventAdvance DEF vars, money, tree, round
<1>2. CASE \E c \in Leaves, s \in Sizes : Push(c, s)
  BY <1>2, SolventAdvance DEF Push, money, tree, round
<1>3. CASE RemoveAll \/ \E c \in Leaves : \E i \in DOMAIN queue[c] : RemovePacket(c, i)
  BY <1>3 DEF RemoveAll, RemovePacket
<1>4. CASE Pull
  BY <1>4, SolventPull
<1>5. CASE Update
  <2>1. pc = "update" /\ UpdateQuota(Head(ahead)) /\ ahead # <<>>
    BY <1>5 DEF Update, IInv, Ring
  <2>2. Head(ahead) \in Classes /\ isBusy[Head(ahead)]
    BY <2>1, HeadFacts DEF IInv, Members, Dropped
  <2> QED BY <2>1, <2>2, SolventUpdate
<1>6. CASE UpdateAwake
  <2>1. pc = "busy" /\ \E c \in Awake : UpdateQuota(c)
    BY <1>6 DEF UpdateAwake
  <2>2. \A c \in Awake : c \in Classes /\ isBusy[c]
    BY DEF Awake
  <2> QED BY <2>1, <2>2, SolventUpdate
<1>7. CASE SetBusy
  BY <1>7, SolventSetBusy
<1>8. CASE SetIdle
  BY <1>8, SolventSetIdle
<1>9. CASE Updated \/ FindMarker
  BY <1>9, SolventAdvance DEF Updated, FindMarker, money, tree, round
<1>10. CASE FindLeaf
  <2>1. UNCHANGED money /\ UNCHANGED tree /\ (fresh' = fresh \/ fresh' = NewRound)
    BY <1>10 DEF FindLeaf, Advance, round
  <2> QED BY <2>1, SolventAdvance DEF money, tree
<1>11. CASE RemoveLeaf
  <2>1. /\ fairShare' = fairShare /\ UNCHANGED tree /\ (fresh' = fresh \/ fresh' = NewRound)
        /\ quota' = WithoutMtu(Head(ahead))
    BY <1>11 DEF RemoveLeaf, Advance
  <2>2. \A c \in Classes \ {Root} : quota'[c] = quota[c]
    BY <2>1 DEF WithoutMtu, IInv, TypeMoney
  <2> QED BY <2>1, <2>2, SolventAdvance DEF tree
<1> QED BY <1>1, <1>2, <1>3, <1>4, <1>5, <1>6, <1>7, <1>8, <1>9, <1>10, <1>11 DEF Next, Handler

\* At the start no class below the root has or owes anything.
LEMMA SolventInit == Init => Solvent
<1> SUFFICES ASSUME Init PROVE Solvent
  OBVIOUS
<1>1. \A c \in Classes \ {Root} : quota[c] = 0 /\ fairShare[c] = 0
  BY DEF Init
<1>2. NegativeAtRootOnly
  BY <1>1 DEF NegativeAtRootOnly
<1>3. ASSUME NEW c \in Inners \ {Root}
      PROVE  fairShare[c] * Sum(Weight, Owed(c)) <= quota[c]
  <2>1. quota[c] = 0 /\ fairShare[c] = 0 /\ c \in Classes
    BY <1>1, TreeFacts
  <2>2. Sum(Weight, Owed(c)) \in Nat
    BY <2>1, OwedFacts
  <2>3. 0 * Sum(Weight, Owed(c)) = 0
    BY <2>2
  <2> QED BY <2>1, <2>3
<1> QED BY <1>2, <1>3 DEF Solvent

\* "negative quota(can only happen at root)" (hlsComputeFairShare): without
\* removals no class below the root is ever in debt.
THEOREM DebtAtRootOnly ==
  ASSUME ~CanRemove
  PROVE  Spec => []NegativeAtRootOnly
<1>1. Init => IInv /\ Solvent
  BY InitKeeps, SolventInit
<1>2. IInv /\ Solvent /\ [Next]_vars => (IInv /\ Solvent)'
  BY NextKeeps, SolventNext
<1>3. Solvent => NegativeAtRootOnly
  BY DEF Solvent
<1> QED BY <1>1, <1>2, <1>3, PTL DEF Spec
-----------------------------------------------------------------------------
(***************************************************************************)
(* Two siblings that are busy are served in proportion to their weights:   *)
(* what a leaf holds and is owed in this round is bounded by the quota     *)
(* there is, and what the service differs by is what the leaves hold.      *)
(***************************************************************************)

\* The root may be in debt, but for no more than the mtus of idle leaves.
Spare == MostQuota - roundSize

Covered ==
  /\ quota[Root] + Spare >= 0
  /\ fresh[Root] => fairShare[Root] * Sum(Weight, Owed(Root)) <= quota[Root] + Spare

\* What there is more than the quota of this round.
LEMMA SpareFacts == IInv => MostQuota \in Nat /\ Spare \in Nat
<1> SUFFICES ASSUME IInv PROVE MostQuota \in Nat /\ Spare \in Nat
  OBVIOUS
<1>1. /\ Listed \in SUBSET Leaves /\ IsFiniteSet(Leaves) /\ IsFiniteSet(Classes)
      /\ \A c \in Leaves : LeafMtu[c] \in Nat
      /\ \A c \in Classes : Weight[c] \in Nat
  BY TreeFacts, WeightFacts, ListFacts, FS_Subset DEF IInv
<1>2. /\ Sum(LeafMtu, Listed) \in Nat /\ Sum(LeafMtu, Leaves) \in Nat
      /\ Sum(LeafMtu, Listed) <= Sum(LeafMtu, Leaves)
  BY <1>1, SumSubset
<1>3. Sum(Weight, Classes) \in Nat
  BY <1>1, SumNatural
<1>4. roundSize = Sum(Weight, Classes) + Sum(LeafMtu, Listed)
  BY DEF IInv, QuotaConserved
<1> QED BY <1>2, <1>3, <1>4 DEF MostQuota, Spare

\* The root owes no more than before, or nothing.
LEMMA CoveredStays ==
  ASSUME IInv, Covered, UNCHANGED fairShare,
         quota[Root] - roundSize <= quota'[Root] - roundSize',
         quota'[Root] \in Int, roundSize' \in Int,
         fresh'[Root] => fresh[Root] /\ Owed(Root)' \subseteq Owed(Root)
  PROVE  Covered'
<1>1. /\ MostQuota \in Nat /\ quota[Root] \in Int /\ roundSize \in Int /\ fairShare[Root] \in Nat
      /\ fairShare'[Root] = fairShare[Root]
  BY SpareFacts, TreeFacts DEF IInv, TypeMoney
<1>2. quota'[Root] + Spare' >= quota[Root] + Spare /\ Spare \in Int /\ Spare' \in Int
  BY <1>1 DEF Spare
<1>3. ASSUME fresh'[Root]
      PROVE  fairShare'[Root] * Sum(Weight, Owed(Root)') <= quota'[Root] + Spare'
  <2>1. /\ Sum(Weight, Owed(Root)') \in Nat /\ Sum(Weight, Owed(Root)) \in Nat
        /\ Sum(Weight, Owed(Root)') <= Sum(Weight, Owed(Root))
    BY <1>3, TreeFacts, OwedFacts, SumSubset
  <2>2. fairShare[Root] * Sum(Weight, Owed(Root)') <= fairShare[Root] * Sum(Weight, Owed(Root))
    BY <1>1, <2>1, FewerShares
  <2>3. fairShare[Root] * Sum(Weight, Owed(Root)) <= quota[Root] + Spare
    BY <1>3 DEF Covered
  <2>4. fairShare[Root] * Sum(Weight, Owed(Root)') \in Int /\ fairShare[Root] * Sum(Weight, Owed(Root)) \in Int
    BY <1>1, <2>1
  <2> QED BY <1>1, <1>2, <2>2, <2>3, <2>4
<1> QED BY <1>1, <1>2, <1>3 DEF Covered

\* A class takes its share.
LEMMA CoveredUpdate ==
  ASSUME IInv, Covered, pc # "setidle", NEW target \in Classes, isBusy[target], UpdateQuota(target)
  PROVE  Covered'
<1>1. PICK d \in Classes :
        /\ d \in Path[target] /\ isBusy[d] /\ ~fresh[d]
        /\ d # Root => fresh[Parent[d]]
        /\ d \in Inners => busyWeight[d] # 0
        /\ quota' = Taken(d)
        /\ fresh' = [fresh EXCEPT ![d] = TRUE]
        /\ fairShare' = IF d \in Leaves THEN fairShare
                        ELSE [fairShare EXCEPT ![d] = FairShare(quota'[d], busyWeight[d])]
        /\ UNCHANGED <<pc, error, at, roundSize, ahead, behind, next, queue, isBusy>>
        /\ UNCHANGED tree
  BY UpdateStep
<1>2. /\ Root \in Classes /\ Root \in Inners /\ Root \notin Leaves /\ Parent[Root] \notin Classes
      /\ isBusy' = isBusy /\ roundSize' = roundSize
      /\ \A c \in Classes : quota[c] \in Int /\ fairShare[c] \in Nat /\ busyWeight[c] \in Nat
      /\ fresh \in [Classes -> BOOLEAN] /\ fairShare \in [Classes -> Nat]
  BY <1>1, TreeFacts DEF IInv, TypeMoney, TypeTree, TypeRound, Leaves
<1>3. Spare \in Nat /\ Spare' = Spare
  BY <1>2, SpareFacts DEF Spare
<1>4. CASE d = Root
  <2>1. quota'[Root] = quota[Root]
    BY <1>1, <1>2, <1>4 DEF Taken
  <2>2. Owed(Root)' = BusyChildren(Root)
    <3>1. \A x \in Classes : Parent[x] = Root => x # Root
      BY TreeFacts
    <3>2. \A x \in Classes : Parent[x] = Root => ~fresh'[x]
      BY <1>1, <1>2, <1>4, <3>1 DEF IInv, FreshBelowFresh
    <3> QED BY <1>2, <3>2 DEF Owed, BusyChildren
  <2>3. Sum(Weight, Owed(Root)') = busyWeight[Root]
    BY <1>2, <2>2 DEF IInv, Weights
  <2>4. fairShare'[Root] = FairShare(quota'[Root], busyWeight[Root])
    BY <1>1, <1>2, <1>4
  <2>5. FairShare(quota'[Root], busyWeight[Root]) * busyWeight[Root] <= quota'[Root] + Spare
    <3>1. CASE quota[Root] >= 0
      <4>1. /\ FairShare(quota[Root], busyWeight[Root]) \in Nat
            /\ FairShare(quota[Root], busyWeight[Root]) * busyWeight[Root] <= quota[Root]
        BY <1>1, <1>2, <1>4, <3>1, FairShareCovered
      <4>2. FairShare(quota[Root], busyWeight[Root]) * busyWeight[Root] \in Int
        BY <1>2, <4>1
      <4> QED BY <1>2, <1>3, <2>1, <4>1, <4>2
    <3>2. CASE quota[Root] < 0
      <4>1. FairShare(quota[Root], busyWeight[Root]) = 0
        BY <1>2, <3>2 DEF FairShare
      <4>2. 0 * busyWeight[Root] = 0
        BY <1>2
      <4> QED BY <1>2, <1>3, <2>1, <4>1, <4>2 DEF Covered
    <3> QED BY <1>2, <3>1, <3>2
  <2> QED BY <1>2, <1>3, <2>1, <2>3, <2>4, <2>5 DEF Covered
<1>5. CASE d # Root /\ Parent[d] = Root
  <2>1. d \in Owed(Root) /\ Owed(Root)' = Owed(Root) \ {d}
    BY <1>1, <1>2, <1>5 DEF Owed
  <2>2. quota'[Root] = quota[Root] - Weight[d] * fairShare[Root]
    BY <1>1, <1>2, <1>5 DEF Taken
  <2> DEFINE r == Sum(Weight, Owed(Root) \ {d})
  <2>3. Sum(Weight, Owed(Root)) = r + Weight[d] /\ r \in Nat /\ Weight[d] \in Nat
    <3>1. IsFiniteSet(Owed(Root)) /\ \A x \in Owed(Root) : Weight[x] \in Nat
      BY <1>2, OwedFacts
    <3>2. Owed(Root) \ {d} \in SUBSET Owed(Root) /\ \A x \in Owed(Root) : Weight[x] \in Int
      BY <3>1
    <3> QED BY <2>1, <3>1, <3>2, SumRemove, SumSubset
  <2> HIDE DEF r
  <2>4. fairShare[Root] * (r + Weight[d]) <= quota[Root] + Spare
    BY <1>1, <1>5, <2>3 DEF Covered
  <2>5. quota[Root] + Spare \in Int /\ fairShare[Root] \in Nat
    BY <1>2, <1>3
  <2>6. /\ Weight[d] * fairShare[Root] \in Nat /\ fairShare[Root] * r \in Nat
        /\ fairShare[Root] * r <= (quota[Root] + Spare) - Weight[d] * fairShare[Root]
    <3> DEFINE q == quota[Root] + Spare
    <3> DEFINE f == fairShare[Root]
    <3> DEFINE w == Weight[d]
    <3>1. f \in Nat /\ w \in Nat /\ q \in Int /\ f * (r + w) <= q
      BY <2>3, <2>4, <2>5
    <3> HIDE DEF q, f, w
    <3>2. w * f \in Nat /\ f * r \in Nat /\ f * r <= q - w * f
      BY <2>3, <3>1, SharePaid
    <3> QED BY <3>2 DEF q, f, w
  <2>7. fairShare'[Root] = fairShare[Root]
    BY <1>1, <1>2, <1>5
  <2>8. quota'[Root] + Spare' >= 0 /\ fairShare[Root] * r <= quota'[Root] + Spare'
    BY <1>2, <1>3, <2>2, <2>6
  <2> QED BY <2>1, <2>7, <2>8 DEF Covered, r
<1>6. CASE d # Root /\ Parent[d] # Root
  <2>1. /\ quota'[Root] = quota[Root] /\ fairShare'[Root] = fairShare[Root] /\ fresh'[Root] = fresh[Root]
        /\ Owed(Root)' = Owed(Root)
    BY <1>1, <1>2, <1>6 DEF Taken, Owed
  <2> QED BY <1>3, <2>1 DEF Covered
<1> QED BY <1>4, <1>5, <1>6
-----------------------------------------------------------------------------
\* A packet is sent: the root is paid.
LEMMA CoveredPull ==
  ASSUME IInv, Covered, Pull
  PROVE  Covered'
<1> DEFINE len == Head(queue[next]) + PhyHeader
<1>1. /\ next \in Leaves /\ ahead # <<>> /\ Head(ahead) = next
      /\ queue[next] # <<>> /\ queue[next] \in Seq(Sizes)
  BY DEF IInv, Selected, Pull, CanPull, TypeQueues
<1>2. len \in Nat
  <2>1. Head(queue[next]) \in Sizes
    BY <1>1
  <2>2. Head(queue[next]) \in Nat /\ PhyHeader \in Nat
    BY <2>1, NumberAssumption
  <2> QED BY <2>2
<1>3. /\ quota' = [quota EXCEPT ![next] = @ - len, ![Root] = @ + len]
      /\ fairShare' = fairShare /\ fresh' = fresh /\ isBusy' = isBusy /\ roundSize' = roundSize
  BY <1>1 DEF Pull, tree, round
<1> HIDE DEF len
<1>4. /\ next # Root /\ Root \in Classes /\ quota \in [Classes -> Int] /\ roundSize \in Int
  BY <1>1, TreeFacts DEF IInv, TypeMoney, Leaves
<1>5. quota'[Root] = quota[Root] + len /\ quota[Root] \in Int
  BY <1>3, <1>4
<1>6. Owed(Root)' = Owed(Root)
  BY <1>3 DEF Owed
<1> QED BY <1>2, <1>3, <1>4, <1>5, <1>6, CoveredStays

\* A leaf wakes up: the root lends its mtu and has that much less to spare.
LEMMA CoveredSetBusy ==
  ASSUME IInv, Covered, SetBusy
  PROVE  Covered'
<1>1. /\ pc = "busy" /\ fairShare' = fairShare
      /\ isBusy' = [c \in Classes |-> c \in Waking \/ isBusy[c]]
      /\ fresh' = [c \in Classes |-> c \in Waking \/ fresh[c]]
      /\ quota' = [quota EXCEPT ![Root] = @ + LeafMtu[at]]
      /\ roundSize' = roundSize + LeafMtu[at]
  BY DEF SetBusy
<1>2. /\ Root \in Classes /\ quota[Root] \in Int /\ roundSize \in Int /\ fairShare[Root] \in Nat
      /\ MostQuota \in Nat /\ LeafMtu[at] \in Nat
  BY <1>1, TreeFacts, WeightFacts, SpareFacts, WakingFacts DEF IInv, TypeMoney
<1>3. quota'[Root] = quota[Root] + LeafMtu[at]
  BY <1>1, <1>2, TreeFacts DEF IInv, TypeMoney
<1>4. quota'[Root] + Spare' = quota[Root] + Spare
  BY <1>1, <1>2, <1>3 DEF Spare
<1>5. Owed(Root)' \subseteq Owed(Root)
  BY <1>1 DEF Owed
<1>6. CASE Root \in Waking
  <2>1. ~isBusy[Root]
    BY <1>1, <1>6, WakingFacts
  <2>2. \A d \in Classes : Parent[d] = Root => d # Root
    BY TreeFacts
  <2>3. Owed(Root) = {}
    BY <2>1, <2>2 DEF Owed, IInv, BusyAbove
  <2>4. Owed(Root)' = {}
    BY <1>5, <2>3
  <2>5. Sum(Weight, Owed(Root)') = 0
    BY <2>4, SumEmpty
  <2>6. fairShare'[Root] * 0 = 0
    BY <1>1, <1>2
  <2> QED BY <1>4, <2>5, <2>6 DEF Covered
<1>7. CASE Root \notin Waking
  <2>1. fresh'[Root] = fresh[Root]
    BY <1>1, <1>2, <1>7 DEF IInv, TypeRound
  <2>2. quota[Root] - roundSize <= quota'[Root] - roundSize' /\ quota'[Root] \in Int /\ roundSize' \in Int
    BY <1>1, <1>2, <1>3
  <2> QED BY <1>1, <1>5, <2>1, <2>2, CoveredStays
<1> QED BY <1>6, <1>7

\* A class that becomes idle gives the root no debt.
LEMMA CoveredSetIdle ==
  ASSUME IInv, Solvent, Covered, SetIdle
  PROVE  Covered'
<1>1. /\ at \in Classes
      /\ at # Root => Parent[at] \in Classes /\ Parent[at] # at
      /\ isBusy' = [isBusy EXCEPT ![at] = FALSE]
      /\ fairShare' = [fairShare EXCEPT ![at] = 0]
      /\ at = Root => quota' = quota
      /\ at # Root => quota' = [quota EXCEPT ![at] = 0, ![Parent[at]] = @ + quota[at]]
      /\ fresh' = fresh /\ roundSize' = roundSize
  BY TreeFacts DEF SetIdle, IInv, Turning, round, Donated
<1>2. /\ quota \in [Classes -> Int] /\ fairShare \in [Classes -> Nat] /\ isBusy \in [Classes -> BOOLEAN]
      /\ roundSize \in Int /\ Root \in Classes /\ MostQuota \in Nat
  BY TreeFacts, SpareFacts DEF IInv, TypeMoney, TypeTree
<1>3. Owed(Root)' \subseteq Owed(Root)
  BY <1>1, <1>2 DEF Owed
<1>4. CASE at = Root
  <2>1. fairShare'[Root] = 0 /\ quota'[Root] = quota[Root]
    BY <1>1, <1>2, <1>4
  <2>2. Sum(Weight, Owed(Root)') \in Nat
    BY <1>2, <1>3, OwedFacts, SumSubset
  <2>3. 0 * Sum(Weight, Owed(Root)') = 0
    BY <2>2
  <2> QED BY <1>1, <2>1, <2>3 DEF Covered, Spare
<1>5. CASE at # Root
  <2>1. quota[at] \in Int /\ quota[at] >= 0
    BY <1>1, <1>2, <1>5 DEF Solvent, NegativeAtRootOnly
  <2>2. quota'[Root] = quota[Root] \/ quota'[Root] = quota[Root] + quota[at]
    BY <1>1, <1>2, <1>5
  <2>3. quota'[Root] \in Int /\ quota[Root] <= quota'[Root] /\ fairShare'[Root] = fairShare[Root]
    BY <1>1, <1>2, <1>5, <2>1, <2>2
  <2>4. quota[Root] - roundSize <= quota'[Root] - roundSize'
    BY <1>1, <1>2, <2>3
  <2>5. fresh'[Root] => fresh[Root]
    BY <1>1
  <2>6. CASE fresh[Root]
    <3> DEFINE a == Sum(Weight, Owed(Root)')
    <3> DEFINE b == Sum(Weight, Owed(Root))
    <3> DEFINE f == fairShare[Root]
    <3>1. a \in Nat /\ b \in Nat /\ a <= b
      BY <1>2, <1>3, OwedFacts, SumSubset
    <3>2. f \in Nat
      BY <1>2
    <3>3. f * b <= quota[Root] + Spare /\ quota[Root] + Spare >= 0
      BY <2>6 DEF Covered
    <3> HIDE DEF a, b, f
    <3>4. f * a <= f * b /\ f * a \in Int /\ f * b \in Int
      BY <3>1, <3>2, FewerShares
    <3>5. quota[Root] + Spare <= quota'[Root] + Spare' /\ Spare \in Int /\ Spare' \in Int
      BY <1>1, <1>2, <2>3 DEF Spare
    <3>6. f * a <= quota'[Root] + Spare' /\ quota'[Root] + Spare' >= 0
      BY <1>2, <2>3, <3>3, <3>4, <3>5
    <3> QED BY <2>3, <3>6 DEF Covered, a, f
  <2>7. CASE ~fresh[Root]
    <3>1. quota[Root] + Spare >= 0
      BY DEF Covered
    <3>2. quota'[Root] + Spare' >= 0
      BY <1>1, <1>2, <2>3, <3>1 DEF Spare
    <3> QED BY <2>5, <2>7, <3>2 DEF Covered
  <2> QED BY <2>6, <2>7
<1> QED BY <1>4, <1>5

\* The leaf that is idle leaves the list, and takes its mtu with it.
LEMMA CoveredRemoveLeaf ==
  ASSUME IInv, Covered, RemoveLeaf
  PROVE  Covered'
<1>1. /\ pc = "removeleaf" /\ fairShare' = fairShare /\ isBusy' = isBusy
      /\ fresh' = fresh \/ fresh' = NewRound
      /\ quota' = [quota EXCEPT ![Root] = @ - LeafMtu[Head(ahead)]]
      /\ roundSize' = roundSize - LeafMtu[Head(ahead)]
  BY DEF RemoveLeaf, Advance, WithoutMtu, tree
<1>2. /\ Root \in Classes /\ quota \in [Classes -> Int] /\ quota[Root] \in Int /\ roundSize \in Int
      /\ LeafMtu[Head(ahead)] \in Nat
  BY <1>1, HeadFacts, TreeFacts, WeightFacts DEF IInv, TypeMoney, Ring
<1>3. quota'[Root] = quota[Root] - LeafMtu[Head(ahead)]
  BY <1>1, <1>2
<1>4. /\ quota[Root] - roundSize <= quota'[Root] - roundSize'
      /\ quota'[Root] \in Int /\ roundSize' \in Int
  BY <1>1, <1>2, <1>3
<1>5. fresh'[Root] => fresh[Root] /\ Owed(Root)' \subseteq Owed(Root)
  BY <1>1, <1>2 DEF NewRound, Owed
<1> QED BY <1>1, <1>4, <1>5, CoveredStays

\* Steps that move no quota.
LEMMA CoveredMoves ==
  ASSUME IInv, Covered, UNCHANGED money, UNCHANGED isBusy, fresh' = fresh \/ fresh' = NewRound
  PROVE  Covered'
<1>1. /\ quota' = quota /\ fairShare' = fairShare /\ roundSize' = roundSize /\ Root \in Classes
      /\ quota[Root] \in Int /\ roundSize \in Int
  BY TreeFacts DEF money, IInv, TypeMoney
<1>2. fresh'[Root] => fresh[Root] /\ Owed(Root)' \subseteq Owed(Root)
  BY <1>1 DEF NewRound, Owed
<1> QED BY <1>1, <1>2, CoveredStays

\* Every step but a removal keeps the root's debt within what it can spare.
LEMMA CoveredNext ==
  ASSUME IInv, Solvent, Covered, ~CanRemove, [Next]_vars
  PROVE  Covered'
<1>1. CASE UNCHANGED vars
  BY <1>1, CoveredMoves DEF vars, money, tree, round
<1>2. CASE \E c \in Leaves, s \in Sizes : Push(c, s)
  BY <1>2, CoveredMoves DEF Push, money, tree, round
<1>3. CASE RemoveAll \/ \E c \in Leaves : \E i \in DOMAIN queue[c] : RemovePacket(c, i)
  BY <1>3 DEF RemoveAll, RemovePacket
<1>4. CASE Pull
  BY <1>4, CoveredPull
<1>5. CASE Update
  <2>1. pc = "update" /\ UpdateQuota(Head(ahead)) /\ ahead # <<>>
    BY <1>5 DEF Update, IInv, Ring
  <2>2. Head(ahead) \in Classes /\ isBusy[Head(ahead)]
    BY <2>1, HeadFacts DEF IInv, Members, Dropped
  <2> QED BY <2>1, <2>2, CoveredUpdate
<1>6. CASE UpdateAwake
  <2>1. pc = "busy" /\ \E c \in Awake : UpdateQuota(c)
    BY <1>6 DEF UpdateAwake
  <2>2. \A c \in Awake : c \in Classes /\ isBusy[c]
    BY DEF Awake
  <2> QED BY <2>1, <2>2, CoveredUpdate
<1>7. CASE SetBusy
  BY <1>7, CoveredSetBusy
<1>8. CASE SetIdle
  BY <1>8, CoveredSetIdle
<1>9. CASE Updated \/ FindMarker
  BY <1>9, CoveredMoves DEF Updated, FindMarker, tree, round
<1>10. CASE FindLeaf
  <2>1. UNCHANGED money /\ UNCHANGED tree /\ (fresh' = fresh \/ fresh' = NewRound)
    BY <1>10 DEF FindLeaf, Advance, round
  <2> QED BY <2>1, CoveredMoves DEF tree
<1>11. CASE RemoveLeaf
  BY <1>11, CoveredRemoveLeaf
<1> QED BY <1>1, <1>2, <1>3, <1>4, <1>5, <1>6, <1>7, <1>8, <1>9, <1>10, <1>11 DEF Next, Handler

\* At the start the root holds the quota of a round and owes nothing.
LEMMA CoveredInit == Init => Covered
<1> SUFFICES ASSUME Init PROVE Covered
  OBVIOUS
<1>1. quota[Root] = roundSize /\ fairShare[Root] = 0 /\ IInv
  BY TreeFacts, InitKeeps DEF Init
<1>2. roundSize \in Int /\ MostQuota \in Nat /\ Spare \in Nat /\ Root \in Classes
  BY <1>1, SpareFacts, TreeFacts DEF IInv, TypeMoney
<1>3. quota[Root] + Spare = MostQuota
  BY <1>1, <1>2 DEF Spare
<1>4. 0 * Sum(Weight, Owed(Root)) = 0
  BY <1>2, OwedFacts
<1> QED BY <1>1, <1>2, <1>3, <1>4 DEF Covered
-----------------------------------------------------------------------------
\* What is due to a busy leaf in this round and not yet taken.
Due(c) ==
  IF fresh[Parent[c]] /\ c \in Owed(Parent[c]) THEN Weight[c] * fairShare[Parent[c]] ELSE 0

Held(c) == quota[c] + Due(c)

\* The leaf that is ahead in the service is behind in what it holds.
Lead == lag + Held(One) * Weight[Other] - Held(Other) * Weight[One]

Balance ==
  IF isBusy[One] /\ isBusy[Other]
  THEN -(Weight[One] * MostQuota) <= Lead /\ Lead <= Weight[Other] * MostQuota
  ELSE lag = 0

\* Arithmetic: one share of several.
LEMMA OneOfShares ==
  ASSUME NEW f \in Nat, NEW w \in Nat, NEW s \in Nat, NEW q \in Int, w <= s, f * s <= q
  PROVE  w * f \in Nat /\ w * f <= q
<1>1. f * w <= f * s
  BY FewerShares
<1>2. f * w \in Nat /\ f * s \in Nat /\ w * f = f * w
  OBVIOUS
<1> QED BY <1>1, <1>2

\* No class below the root holds more than there is, and neither does a
\* leaf with its parent.
LEMMA PairBound ==
  ASSUME IInv, Solvent, Covered, NEW c \in Leaves
  PROVE  LET p == Parent[c]
             spare == IF p = Root THEN Spare ELSE 0
         IN  /\ c # Root /\ p \in Inners /\ p \in Classes /\ p # c
             /\ quota[c] \in Nat /\ quota[p] + spare \in Nat
             /\ quota[c] + quota[p] + spare <= MostQuota
<1> DEFINE p == Parent[c]
<1> DEFINE e == [x \in Classes |-> IF x = Root THEN quota[x] + Spare ELSE quota[x]]
<1>1. /\ c \in Classes /\ c # Root /\ p \in Inners /\ p \in Classes /\ p # c
      /\ IsFiniteSet(Classes) /\ Root \in Classes
  BY TreeFacts DEF Leaves
<1>2. /\ \A x \in Classes : quota[x] \in Int
      /\ \A x \in Classes \ {Root} : quota[x] >= 0
      /\ quota[Root] + Spare >= 0 /\ Spare \in Nat /\ roundSize \in Int /\ MostQuota \in Nat
  BY SpareFacts DEF IInv, TypeMoney, Solvent, NegativeAtRootOnly, Covered
<1>3. \A x \in Classes : e[x] \in Nat
  BY <1>2
<1>4. Sum(e, Classes) = MostQuota
  <2>1. e[Root] = quota[Root] + Spare /\ \A x \in Classes \ {Root} : e[x] = quota[x]
    BY <1>1
  <2> HIDE DEF e
  <2>2. e[Root] \in Int /\ quota[Root] \in Int
    BY <1>1, <1>2, <1>3
  <2>3. Sum(e, Classes) = Sum(quota, Classes) - quota[Root] + e[Root]
    BY <1>1, <1>2, <2>1, <2>2, SumChange
  <2>4. Sum(quota, Classes) = roundSize
    BY DEF IInv, QuotaConserved
  <2> QED BY <1>2, <2>1, <2>2, <2>3, <2>4 DEF Spare
<1>5. e[c] = quota[c] /\ e[p] = quota[p] + IF p = Root THEN Spare ELSE 0
  BY <1>1, <1>2
<1> HIDE DEF e, p
<1>6. Sum(e, {c, p}) = e[c] + e[p]
  <2>1. IsFiniteSet({c}) /\ IsFiniteSet({}) /\ p \notin {c} /\ {c} \cup {p} = {c, p} /\ {} \cup {c} = {c}
    BY <1>1, FS_Singleton, FS_EmptySet
  <2>2. e[c] \in Int /\ e[p] \in Int
    BY <1>1, <1>3
  <2>3. Sum(e, {c} \cup {p}) = Sum(e, {c}) + e[p]
    BY <2>1, <2>2, SumAdd
  <2>4. Sum(e, {} \cup {c}) = Sum(e, {}) + e[c]
    BY <2>1, <2>2, SumAdd
  <2> QED BY <2>1, <2>2, <2>3, <2>4, SumEmpty
<1>7. Sum(e, {c, p}) <= Sum(e, Classes)
  <2>1. {c, p} \in SUBSET Classes
    BY <1>1
  <2> QED BY <1>1, <1>3, <2>1, SumSubset
<1>8. e[c] \in Nat /\ e[p] \in Nat
  BY <1>1, <1>3
<1>9. quota[c] \in Nat /\ quota[p] + (IF p = Root THEN Spare ELSE 0) \in Nat
  BY <1>5, <1>8
<1>10. quota[c] + quota[p] + (IF p = Root THEN Spare ELSE 0) <= MostQuota
  BY <1>1, <1>2, <1>4, <1>5, <1>6, <1>7
<1> QED BY <1>1, <1>9, <1>10 DEF p

\* What a leaf holds and is due is no more than there is.
LEMMA HeldBound ==
  ASSUME IInv, Solvent, Covered, NEW c \in Leaves
  PROVE  Due(c) \in Nat /\ Held(c) \in Nat /\ Held(c) <= MostQuota
<1> DEFINE p == Parent[c]
<1> DEFINE spare == IF p = Root THEN Spare ELSE 0
<1>1. /\ c # Root /\ p \in Inners /\ p \in Classes /\ p # c
      /\ quota[c] \in Nat /\ quota[p] + spare \in Nat
      /\ quota[c] + quota[p] + spare <= MostQuota
  BY PairBound
<1>2. /\ MostQuota \in Nat /\ Spare \in Nat /\ spare \in Nat /\ quota[p] \in Int
      /\ fairShare[p] \in Nat /\ c \in Classes /\ Weight[c] \in Nat
  BY <1>1, SpareFacts, TreeFacts, WeightFacts DEF IInv, TypeMoney
<1>3. CASE fresh[p] /\ c \in Owed(p)
  <2>1. Sum(Weight, Owed(p)) \in Nat /\ Weight[c] <= Sum(Weight, Owed(p))
    BY <1>1, <1>3, OwedFacts, SumNatural
  <2>2. fairShare[p] * Sum(Weight, Owed(p)) <= quota[p] + spare
    <3>1. CASE p = Root
      BY <1>3, <3>1 DEF Covered
    <3>2. CASE p # Root
      BY <1>1, <1>2, <1>3, <3>2 DEF Solvent
    <3> QED BY <3>1, <3>2
  <2>3. Weight[c] * fairShare[p] \in Nat /\ Weight[c] * fairShare[p] <= quota[p] + spare
    <3> DEFINE s == Sum(Weight, Owed(p))
    <3> DEFINE f == fairShare[p]
    <3> DEFINE w == Weight[c]
    <3> DEFINE q == quota[p] + spare
    <3>1. f \in Nat /\ w \in Nat /\ s \in Nat /\ q \in Int /\ w <= s /\ f * s <= q
      BY <1>1, <1>2, <2>1, <2>2
    <3> HIDE DEF s, f, w, q
    <3>2. w * f \in Nat /\ w * f <= q
      BY <3>1, OneOfShares
    <3> QED BY <3>2 DEF f, w, q
  <2>4. Due(c) = Weight[c] * fairShare[p]
    BY <1>3 DEF Due
  <2> HIDE DEF p, spare
  <2> QED BY <1>1, <1>2, <2>3, <2>4 DEF Held
<1>4. CASE ~(fresh[p] /\ c \in Owed(p))
  <2>1. Due(c) = 0
    BY <1>4 DEF Due
  <2> HIDE DEF p, spare
  <2> QED BY <1>1, <1>2, <2>1 DEF Held
<1> QED BY <1>3, <1>4

HeldWithin == \A c \in Leaves : Held(c) \in Nat /\ Held(c) <= MostQuota

LEMMA HeldAlwaysWithin == IInv /\ Solvent /\ Covered => HeldWithin
BY HeldBound DEF HeldWithin
-----------------------------------------------------------------------------
BothBusy == isBusy[One] /\ isBusy[Other]

\* The two leaves and their parent.
LEMMA PairFacts ==
  ASSUME Siblings
  PROVE  LET p == Parent[One] IN
      /\ Parent[Other] = p /\ p \in Inners /\ p \in Classes /\ p \notin Leaves /\ One # Other /\ ~CanRemove
      /\ \A c \in {One, Other} :
           /\ c \in Leaves /\ c \in Classes /\ c # Root /\ c # p /\ c \notin Inners
           /\ Parent[c] = p /\ Weight[c] \in Nat
BY TreeFacts, WeightFacts DEF Siblings, Leaves

\* Arithmetic: what a leaf sends counts as service and no longer as held ...
LEMMA SentCounts ==
  ASSUME NEW l \in Int, NEW g \in Int, NEW h \in Int, NEW v \in Nat, NEW w \in Nat,
         NEW s \in Int, NEW t \in Int
  PROVE  /\ l + s * w - t * v \in Int
         /\ (l + s * w - t * v) + (g - s) * w - (h - t) * v = l + g * w - h * v
<1>1. (g - s) * w = g * w - s * w /\ (h - t) * v = h * v - t * v
  OBVIOUS
<1>2. s * w \in Int /\ t * v \in Int /\ g * w \in Int /\ h * v \in Int
  OBVIOUS
<1> QED BY <1>1, <1>2

\* ... and shares by weight leave the lead as it is.
LEMMA SharesCancel ==
  ASSUME NEW l \in Int, NEW g \in Int, NEW h \in Int, NEW v \in Nat, NEW w \in Nat, NEW f \in Nat
  PROVE  l + (g + v * f) * w - (h + w * f) * v = l + g * w - h * v
<1>1. (g + v * f) * w = g * w + v * f * w /\ (h + w * f) * v = h * v + w * f * v
  OBVIOUS
<1>2. v * f * w = w * f * v
  OBVIOUS
<1>3. v * f * w \in Int /\ g * w \in Int /\ h * v \in Int
  OBVIOUS
<1> QED BY <1>1, <1>2, <1>3

\* Leaves that hold no more than m are apart by no more than their weights.
LEMMA Apart ==
  ASSUME NEW m \in Nat, NEW g \in Nat, NEW h \in Nat, NEW v \in Nat, NEW w \in Nat, g <= m, h <= m
  PROVE  -(v * m) <= g * w - h * v /\ g * w - h * v <= w * m
<1>1. w * g <= w * m /\ v * h <= v * m
  BY FewerShares
<1>2. g * w = w * g /\ h * v = v * h /\ w * g \in Nat /\ v * h \in Nat /\ w * m \in Nat /\ v * m \in Nat
  OBVIOUS
<1> QED BY <1>1, <1>2

\* What the leaves hold has changed by what they sent.
LEMMA LeadKept ==
  ASSUME Siblings, lag \in Int, HeldWithin, Balance, ShareNext,
         BothBusy' => /\ BothBusy
                      /\ \A c \in {One, Other} : Sent(c) \in Int /\ Held(c)' = Held(c) - Sent(c)
  PROVE  lag' \in Int /\ Balance'
<1>1. CASE BothBusy'
  <2> DEFINE g == Held(One)
  <2> DEFINE h == Held(Other)
  <2> DEFINE s == Sent(One)
  <2> DEFINE t == Sent(Other)
  <2> DEFINE v == Weight[One]
  <2> DEFINE w == Weight[Other]
  <2>1. /\ g \in Int /\ h \in Int /\ s \in Int /\ t \in Int /\ v \in Nat /\ w \in Nat
        /\ Held(One)' = g - s /\ Held(Other)' = h - t
    BY <1>1, PairFacts DEF HeldWithin
  <2>2. lag' = lag + s * w - t * v
    BY <1>1 DEF ShareNext, BothBusy
  <2>3. Lead = lag + g * w - h * v
    BY DEF Lead
  <2>4. Lead' = lag' + Held(One)' * w - Held(Other)' * v
    BY DEF Lead
  <2> HIDE DEF g, h, s, t, v, w
  <2>5. lag' \in Int /\ Lead' = Lead
    BY <2>1, <2>2, <2>3, <2>4, SentCounts
  <2> QED BY <1>1, <2>5 DEF Balance, BothBusy, v, w
<1>2. CASE ~BothBusy'
  BY <1>2 DEF ShareNext, Balance, BothBusy
<1> QED BY <1>1, <1>2

\* What a leaf holds depends on itself and on its parent.
LEMMA HeldStays ==
  ASSUME NEW c \in Leaves, quota'[c] = quota[c], isBusy'[c] = isBusy[c],
         \/ fresh'[c] = fresh[c] /\ fresh'[Parent[c]] = fresh[Parent[c]]
            /\ fairShare'[Parent[c]] = fairShare[Parent[c]]
         \/ fresh[c] /\ ~fresh'[Parent[c]]
  PROVE  Held(c)' = Held(c)
<1>1. c \in Classes
  BY TreeFacts
<1>2. Due(c)' = Due(c)
  BY <1>1 DEF Due, Owed
<1> QED BY <1>2 DEF Held

\* A step of which nothing leaves a queue.
LEMMA NoneSent ==
  ASSUME IInv, NEW c \in Leaves, queue' = queue \/ \E d \in Leaves, s \in Sizes : Push(d, s)
  PROVE  Sent(c) = 0
<1>1. queue \in [Leaves -> Seq(Sizes)] /\ queue[c] \in Seq(Sizes) /\ Len(queue[c]) \in Nat
  BY DEF IInv, TypeQueues
<1>2. CASE queue' = queue
  BY <1>1, <1>2 DEF Sent
<1>3. ASSUME NEW d \in Leaves, NEW s \in Sizes, Push(d, s)
      PROVE  Sent(c) = 0
  <2>1. queue'[c] = queue[c] \/ queue'[c] = Append(queue[c], s)
    BY <1>1, <1>3 DEF Push
  <2>2. Len(queue'[c]) = Len(queue[c]) \/ Len(queue'[c]) = Len(queue[c]) + 1
    BY <1>1, <2>1
  <2> QED BY <1>1, <2>2 DEF Sent
<1> QED BY <1>2, <1>3
-----------------------------------------------------------------------------
\* Steps that leave what the two leaves hold.
LEMMA BalanceStays ==
  ASSUME Siblings, IInv, lag \in Int, HeldWithin, Balance, ShareNext,
         queue' = queue \/ \E d \in Leaves, s \in Sizes : Push(d, s),
         BothBusy' => BothBusy /\ \A c \in {One, Other} : Held(c)' = Held(c)
  PROVE  lag' \in Int /\ Balance'
<1>1. \A c \in {One, Other} : Sent(c) = 0 /\ Held(c) \in Int
  BY NoneSent, PairFacts DEF HeldWithin
<1>2. BothBusy' => BothBusy /\ \A c \in {One, Other} : Sent(c) \in Int /\ Held(c)' = Held(c) - Sent(c)
  BY <1>1
<1> QED BY <1>2, LeadKept

\* One of the leaves sends, or another one does.
LEMMA BalancePull ==
  ASSUME Siblings, IInv, lag \in Int, HeldWithin, Balance, ShareNext, Pull
  PROVE  lag' \in Int /\ Balance'
<1> DEFINE len == Head(queue[next]) + PhyHeader
<1>1. /\ next \in Leaves /\ ahead # <<>> /\ Head(ahead) = next
      /\ queue[next] # <<>> /\ queue[next] \in Seq(Sizes) /\ queue \in [Leaves -> Seq(Sizes)]
  BY DEF IInv, Selected, Pull, CanPull, TypeQueues
<1>2. len \in Int
  <2>1. Head(queue[next]) \in Sizes
    BY <1>1
  <2>2. Head(queue[next]) \in Nat /\ PhyHeader \in Nat
    BY <2>1, NumberAssumption
  <2> QED BY <2>2
<1>3. /\ queue' = [queue EXCEPT ![next] = Tail(@)]
      /\ quota' = [quota EXCEPT ![next] = @ - len, ![Root] = @ + len]
      /\ fairShare' = fairShare /\ fresh' = fresh /\ isBusy' = isBusy
  BY <1>1 DEF Pull, tree, round
<1>4. Sent(next) = len
  <2>1. queue'[next] = Tail(queue[next])
    BY <1>1, <1>3
  <2>2. Len(queue'[next]) < Len(queue[next])
    BY <1>1, <2>1
  <2> QED BY <2>2 DEF Sent
<1> HIDE DEF len
<1>5. next # Root /\ next \in Classes /\ quota \in [Classes -> Int]
  BY <1>1, TreeFacts DEF IInv, TypeMoney, Leaves
<1>6. ASSUME NEW c \in {One, Other}
      PROVE  Sent(c) \in Int /\ Held(c)' = Held(c) - Sent(c)
  <2>1. c \in Leaves /\ c \in Classes /\ c # Root /\ Held(c) \in Nat
    BY PairFacts DEF HeldWithin
  <2>2. Due(c)' = Due(c)
    BY <1>3 DEF Due, Owed
  <2>3. CASE c = next
    <3>1. quota'[c] = quota[c] - len /\ quota[c] \in Int
      BY <1>3, <1>5, <2>1, <2>3
    <3>2. Due(c) \in Int
      <4>1. Weight[c] \in Nat /\ fairShare[Parent[c]] \in Nat
        BY <2>1, PairFacts DEF IInv, TypeMoney
      <4> QED BY <4>1 DEF Due
    <3> QED BY <1>2, <1>4, <2>2, <2>3, <3>1, <3>2 DEF Held
  <2>4. CASE c # next
    <3>1. quota'[c] = quota[c] /\ queue'[c] = queue[c]
      BY <1>1, <1>3, <1>5, <2>1, <2>4
    <3>2. Sent(c) = 0
      <4>1. Len(queue[c]) \in Nat
        BY <1>1, <2>1
      <4> QED BY <3>1, <4>1 DEF Sent
    <3>3. Held(c)' = Held(c)
      BY <2>2, <3>1 DEF Held
    <3> QED BY <2>1, <3>2, <3>3
  <2> QED BY <2>3, <2>4
<1>7. BothBusy' => BothBusy
  BY <1>3 DEF BothBusy
<1> QED BY <1>6, <1>7, LeadKept

\* A share is taken: a leaf now has what was due to it, and when the parent
\* takes its own, both leaves are due theirs.
LEMMA BalanceUpdate ==
  ASSUME Siblings, IInv, lag \in Int, HeldWithin, Balance, ShareNext, pc # "setidle",
         NEW target \in Classes, isBusy[target], UpdateQuota(target)
  PROVE  lag' \in Int /\ Balance'
<1> DEFINE p == Parent[One]
<1>1. PICK d \in Classes :
        /\ d \in Path[target] /\ isBusy[d] /\ ~fresh[d]
        /\ d # Root => fresh[Parent[d]]
        /\ d \in Inners => busyWeight[d] # 0
        /\ quota' = Taken(d)
        /\ fresh' = [fresh EXCEPT ![d] = TRUE]
        /\ fairShare' = IF d \in Leaves THEN fairShare
                        ELSE [fairShare EXCEPT ![d] = FairShare(quota'[d], busyWeight[d])]
        /\ UNCHANGED <<pc, error, at, roundSize, ahead, behind, next, queue, isBusy>>
        /\ UNCHANGED tree
  BY UpdateStep
<1>2. /\ isBusy' = isBusy /\ queue' = queue
      /\ fresh \in [Classes -> BOOLEAN] /\ fairShare \in [Classes -> Nat]
      /\ \A c \in Classes : quota[c] \in Int
  BY <1>1 DEF IInv, TypeMoney, TypeRound
<1>3. /\ p \in Classes /\ p \in Inners
      /\ \A c \in {One, Other} : c \in Leaves /\ c \in Classes /\ c # Root /\ c # p /\ Parent[c] = p
                                 /\ c \notin Inners /\ Weight[c] \in Nat
      /\ \A x \in Classes : Parent[x] \notin {One, Other}
  <2>1. \A c \in {One, Other} : c \in Classes /\ c \notin Inners /\ c # NULL
    BY PairFacts, TreeFacts
  <2>2. \A x \in Classes : Parent[x] \notin {One, Other}
    BY <2>1 DEF Inners
  <2> QED BY <2>2, PairFacts
<1>4. CASE d # p
  <2>1. ASSUME NEW c \in {One, Other}
        PROVE  Held(c)' = Held(c)
    <3>1. CASE c = d
      <4>1. quota'[c] = quota[c] + Weight[c] * fairShare[p]
        BY <1>1, <1>3, <3>1 DEF Taken
      <4>2. Due(c) = Weight[c] * fairShare[p]
        BY <1>1, <1>3, <3>1 DEF Due, Owed
      <4>3. Due(c)' = 0
        BY <1>1, <1>2, <1>3, <3>1 DEF Due, Owed
      <4>4. Weight[c] * fairShare[p] \in Int /\ quota[c] \in Int
        BY <1>2, <1>3
      <4> HIDE DEF p
      <4> QED BY <4>1, <4>2, <4>3, <4>4 DEF Held
    <3>2. CASE c # d
      <4>1. quota'[c] = quota[c] /\ fresh'[c] = fresh[c] /\ fresh'[p] = fresh[p]
        BY <1>1, <1>2, <1>3, <1>4, <3>2 DEF Taken
      <4>2. fairShare'[p] = fairShare[p]
        BY <1>1, <1>2, <1>3, <1>4
      <4> QED BY <1>2, <1>3, <4>1, <4>2, HeldStays
    <3> QED BY <3>1, <3>2
  <2> QED BY <1>2, <2>1, BalanceStays DEF BothBusy
<1>5. CASE d = p
  <2> DEFINE f == fairShare'[p]
  <2>1. /\ f \in Nat /\ \A c \in Classes \ {p} : fresh'[c] = fresh[c]
        /\ fresh'[p] /\ ~fresh[p]
    <3>1. fairShare' \in [Classes -> Nat]
      BY <1>1, UpdateQuotaKeeps DEF TypeMoney
    <3> QED BY <1>1, <1>2, <1>3, <1>5, <3>1
  <2>2. ASSUME NEW c \in {One, Other}, isBusy[c]
        PROVE  Held(c)' = Held(c) + Weight[c] * f
    <3>1. ~fresh[c]
      BY <1>1, <1>3, <1>5 DEF IInv, FreshBelowFresh
    <3>2. ~fresh'[c] /\ isBusy'[c]
      BY <1>2, <1>3, <2>1, <2>2, <3>1
    <3>3. quota'[c] = quota[c]
      BY <1>1, <1>2, <1>3, <1>5 DEF Taken
    <3>4. Due(c) = 0
      BY <1>3, <2>1 DEF Due
    <3>5. Due(c)' = Weight[c] * f
      BY <1>3, <2>1, <3>2 DEF Due, Owed
    <3>6. Weight[c] * f \in Int /\ quota[c] \in Int
      BY <1>2, <1>3, <2>1
    <3> HIDE DEF f
    <3> QED BY <3>3, <3>4, <3>5, <3>6 DEF Held
  <2>3. \A c \in {One, Other} : Sent(c) = 0 /\ Held(c) \in Int
    BY <1>2, <1>3, NoneSent DEF HeldWithin
  <2>4. CASE BothBusy
    <3> DEFINE g == Held(One)
    <3> DEFINE h == Held(Other)
    <3> DEFINE v == Weight[One]
    <3> DEFINE w == Weight[Other]
    <3>1. /\ g \in Int /\ h \in Int /\ v \in Nat /\ w \in Nat
          /\ Held(One)' = g + v * f /\ Held(Other)' = h + w * f
      BY <1>3, <2>2, <2>3, <2>4 DEF BothBusy
    <3>2. lag' = lag + 0 * w - 0 * v
      BY <1>2, <2>3, <2>4 DEF ShareNext, BothBusy
    <3>3. Lead = lag + g * w - h * v
      BY DEF Lead
    <3>4. Lead' = lag' + Held(One)' * w - Held(Other)' * v
      BY DEF Lead
    <3> HIDE DEF g, h, v, w, f
    <3>5. lag' = lag
      BY <3>1, <3>2
    <3>6. Lead' = Lead
      BY <2>1, <3>1, <3>3, <3>4, <3>5, SharesCancel
    <3> QED BY <1>2, <2>4, <3>5, <3>6 DEF Balance, BothBusy, v, w
  <2>5. CASE ~BothBusy
    BY <1>2, <2>5 DEF ShareNext, Balance, BothBusy
  <2> QED BY <2>4, <2>5
<1> QED BY <1>4, <1>5

\* A leaf wakes up.  If it is one of the two, they start even.
LEMMA BalanceSetBusy ==
  ASSUME Siblings, IInv, lag \in Int, HeldWithin, Balance, ShareNext, SetBusy,
         HeldWithin'
  PROVE  lag' \in Int /\ Balance'
<1>1. /\ pc = "busy" /\ fairShare' = fairShare /\ queue' = queue
      /\ isBusy' = [c \in Classes |-> c \in Waking \/ isBusy[c]]
      /\ fresh' = [c \in Classes |-> c \in Waking \/ fresh[c]]
      /\ quota' = [quota EXCEPT ![Root] = @ + LeafMtu[at]]
  BY DEF SetBusy
<1>2. CASE BothBusy
  <2>1. ASSUME NEW c \in {One, Other}
        PROVE  Held(c)' = Held(c)
    <3>1. c \in Leaves /\ c \in Classes /\ c # Root /\ Parent[c] \in Classes
      BY PairFacts
    <3>2. isBusy[c] /\ isBusy[Parent[c]]
      BY <1>2, <3>1 DEF BothBusy, IInv, BusyAbove
    <3>3. c \notin Waking /\ Parent[c] \notin Waking
      BY <1>1, <3>2, WakingFacts
    <3>4. /\ quota'[c] = quota[c] /\ isBusy'[c] = isBusy[c] /\ fresh'[c] = fresh[c]
          /\ fresh'[Parent[c]] = fresh[Parent[c]]
      BY <1>1, <3>1, <3>3 DEF IInv, TypeMoney, TypeRound, TypeTree
    <3> QED BY <1>1, <3>1, <3>4, HeldStays
  <2> QED BY <1>1, <1>2, <2>1, BalanceStays
<1>3. CASE ~BothBusy
  <2>1. lag = 0 /\ Sent(One) = 0 /\ Sent(Other) = 0
    BY <1>1, <1>3, NoneSent, PairFacts DEF Balance, BothBusy
  <2>2. CASE BothBusy'
    <3> DEFINE g == Held(One)'
    <3> DEFINE h == Held(Other)'
    <3> DEFINE v == Weight[One]
    <3> DEFINE w == Weight[Other]
    <3>1. /\ g \in Nat /\ h \in Nat /\ g <= MostQuota /\ h <= MostQuota
          /\ v \in Nat /\ w \in Nat /\ MostQuota \in Nat
      <4>1. \A c \in Leaves : Held(c)' \in Nat /\ Held(c)' <= MostQuota
        BY DEF HeldWithin, MostQuota
      <4> QED BY <4>1, PairFacts, SpareFacts
    <3>2. lag' = 0 + 0 * w - 0 * v
      BY <2>1, <2>2 DEF ShareNext, BothBusy
    <3>3. Lead' = lag' + g * w - h * v
      BY DEF Lead
    <3> HIDE DEF g, h, v, w
    <3>4. -(v * MostQuota) <= g * w - h * v /\ g * w - h * v <= w * MostQuota
      BY <3>1, Apart
    <3>5. lag' = 0 /\ g * w \in Int /\ h * v \in Int
      BY <3>1, <3>2
    <3>6. Lead' = g * w - h * v
      BY <3>3, <3>5
    <3>7. -(v * MostQuota) <= Lead' /\ Lead' <= w * MostQuota
      BY <3>4, <3>6
    <3>8. Balance'
      BY <2>2, <3>7 DEF Balance, BothBusy, MostQuota, v, w
    <3> QED BY <3>5, <3>8
  <2>3. CASE ~BothBusy'
    BY <2>3 DEF ShareNext, Balance, BothBusy
  <2> QED BY <2>2, <2>3
<1> QED BY <1>2, <1>3

\* A class becomes idle: one of the two, or none that they depend on.
LEMMA BalanceSetIdle ==
  ASSUME Siblings, IInv, lag \in Int, HeldWithin, Balance, ShareNext, SetIdle
  PROVE  lag' \in Int /\ Balance'
<1>1. /\ pc = "setidle" /\ at \in Classes /\ (at \in Inners => busyWeight[at] = 0)
      /\ at # Root => Parent[at] \in Inners
      /\ isBusy' = [isBusy EXCEPT ![at] = FALSE]
      /\ fairShare' = [fairShare EXCEPT ![at] = 0]
      /\ at = Root => quota' = quota
      /\ at # Root => quota' = [quota EXCEPT ![at] = 0, ![Parent[at]] = @ + quota[at]]
      /\ fresh' = fresh /\ queue' = queue
  BY TreeFacts DEF SetIdle, IInv, Turning, round, Donated
<1>2. quota \in [Classes -> Int] /\ fairShare \in [Classes -> Nat] /\ isBusy \in [Classes -> BOOLEAN]
  BY DEF IInv, TypeMoney, TypeTree
<1>3. ASSUME BothBusy'
      PROVE  BothBusy /\ \A c \in {One, Other} : Held(c)' = Held(c)
  <2> DEFINE p == Parent[One]
  <2>1. /\ p \in Classes /\ p \in Inners
        /\ \A c \in {One, Other} : c \in Leaves /\ c \in Classes /\ c # Root /\ c # p /\ Parent[c] = p
                                   /\ c \notin Inners
    BY PairFacts
  <2>2. isBusy[One] /\ isBusy[Other] /\ at # One /\ at # Other
    BY <1>1, <1>2, <1>3, <2>1 DEF BothBusy
  <2>3. at # p
    <3>1. BusyChildren(p) # {}
      BY <2>1, <2>2 DEF BusyChildren
    <3>2. busyWeight[p] # 0
      BY <2>1, <3>1, ChildrenFacts DEF IInv, Weights
    <3> QED BY <1>1, <2>1, <3>2
  <2>4. fairShare'[p] = fairShare[p] /\ fresh'[p] = fresh[p]
    BY <1>1, <1>2, <2>1, <2>3
  <2>5. ASSUME NEW c \in {One, Other}
        PROVE  Held(c)' = Held(c)
    <3>1. quota'[c] = quota[c] /\ isBusy'[c] = isBusy[c] /\ fresh'[c] = fresh[c]
      BY <1>1, <1>2, <2>1, <2>2
    <3> QED BY <2>1, <2>4, <3>1, HeldStays
  <2> QED BY <2>2, <2>5 DEF BothBusy
<1> QED BY <1>1, <1>3, BalanceStays

\* The round robin moves on; when a round ends every busy leaf has had its
\* share, so that none is due one.
LEMMA BalanceAdvance ==
  ASSUME Siblings, IInv, lag \in Int, HeldWithin, Balance, ShareNext, queue' = queue, isBusy' = isBusy,
         fairShare' = fairShare, \A c \in Classes \ {Root} : quota'[c] = quota[c],
         \/ fresh' = fresh
         \/ fresh' = NewRound /\ pc # "update" /\ ahead # <<>> /\ Tail(ahead) = <<>>
  PROVE  lag' \in Int /\ Balance'
<1>1. ASSUME BothBusy, NEW c \in {One, Other}
      PROVE  Held(c)' = Held(c)
  <2>1. /\ c \in Leaves /\ c \in Classes /\ c # Root /\ Parent[c] \in Classes /\ isBusy[c]
    BY <1>1, PairFacts DEF BothBusy
  <2>2. quota'[c] = quota[c]
    BY <2>1
  <2>3. CASE fresh' = fresh
    BY <2>1, <2>2, <2>3, HeldStays
  <2>4. CASE fresh' = NewRound /\ pc # "update" /\ ahead # <<>> /\ Tail(ahead) = <<>>
    <3>1. ~fresh'[Parent[c]]
      BY <2>1, <2>4 DEF NewRound
    <3>2. c \in Range(ahead) \/ c \in Range(behind)
      BY <2>1 DEF IInv, Members, Listed
    <3>3. Range(ahead) = {Head(ahead)}
      BY <2>4, HeadFacts, EmptySequence
    <3>4. fresh[Head(ahead)] /\ \A x \in Range(behind) : fresh[x]
      BY <2>4 DEF IInv, Shares
    <3>5. fresh[c]
      BY <3>2, <3>3, <3>4
    <3> QED BY <2>1, <2>2, <3>1, <3>5, HeldStays
  <2> QED BY <2>3, <2>4
<1> QED BY <1>1, BalanceStays DEF BothBusy

\* Every step keeps the lead of either leaf within what the other can hold.
LEMMA BalanceNext ==
  ASSUME Siblings, IInv, HeldWithin, HeldWithin', lag \in Int, Balance, [ShareNext]_<<vars, lag>>
  PROVE  lag' \in Int /\ Balance'
<1>0. CASE UNCHANGED <<vars, lag>>
  <2>1. /\ quota' = quota /\ fairShare' = fairShare /\ isBusy' = isBusy /\ fresh' = fresh /\ lag' = lag
    BY <1>0 DEF vars, money, tree, round
  <2>2. Lead' = Lead
    BY <2>1 DEF Lead, Held, Due, Owed
  <2> QED BY <2>1, <2>2 DEF Balance, MostQuota
<1> SUFFICES ASSUME ShareNext PROVE lag' \in Int /\ Balance'
  BY <1>0
<1>1. ~CanRemove /\ Next
  BY PairFacts DEF ShareNext
<1>2. CASE \E c \in Leaves, s \in Sizes : Push(c, s)
  <2>1. quota' = quota /\ fairShare' = fairShare /\ isBusy' = isBusy /\ fresh' = fresh
    BY <1>2 DEF Push, money, tree, round
  <2>2. \A c \in {One, Other} : Held(c)' = Held(c)
    BY <2>1 DEF Held, Due, Owed
  <2> QED BY <1>2, <2>1, <2>2, BalanceStays DEF BothBusy
<1>3. CASE RemoveAll \/ \E c \in Leaves : \E i \in DOMAIN queue[c] : RemovePacket(c, i)
  BY <1>1, <1>3 DEF RemoveAll, RemovePacket
<1>4. CASE Pull
  BY <1>4, BalancePull
<1>5. CASE Update
  <2>1. pc = "update" /\ UpdateQuota(Head(ahead)) /\ ahead # <<>>
    BY <1>5 DEF Update, IInv, Ring
  <2>2. Head(ahead) \in Classes /\ isBusy[Head(ahead)]
    BY <2>1, HeadFacts DEF IInv, Members, Dropped
  <2> QED BY <2>1, <2>2, BalanceUpdate
<1>6. CASE UpdateAwake
  <2>1. pc = "busy" /\ \E c \in Awake : UpdateQuota(c)
    BY <1>6 DEF UpdateAwake
  <2>2. \A c \in Awake : c \in Classes /\ isBusy[c]
    BY DEF Awake
  <2> QED BY <2>1, <2>2, BalanceUpdate
<1>7. CASE SetBusy
  BY <1>7, BalanceSetBusy
<1>8. CASE SetIdle
  BY <1>8, BalanceSetIdle
<1>9. CASE Updated \/ FindMarker
  <2>1. /\ quota' = quota /\ fairShare' = fairShare /\ isBusy' = isBusy /\ fresh' = fresh /\ queue' = queue
    BY <1>9 DEF Updated, FindMarker, money, tree, round
  <2> QED BY <2>1, BalanceAdvance
<1>10. CASE FindLeaf
  <2>1. /\ quota' = quota /\ fairShare' = fairShare /\ isBusy' = isBusy /\ queue' = queue
        /\ pc # "update" /\ ahead # <<>>
        /\ fresh' = fresh \/ (fresh' = NewRound /\ Tail(ahead) = <<>>)
    BY <1>10 DEF FindLeaf, Advance, money, tree, round
  <2> QED BY <2>1, BalanceAdvance
<1>11. CASE RemoveLeaf
  <2>1. /\ fairShare' = fairShare /\ isBusy' = isBusy /\ queue' = queue
        /\ quota' = WithoutMtu(Head(ahead)) /\ pc # "update"
        /\ fresh' = fresh \/ (fresh' = NewRound /\ Tail(ahead) = <<>>)
    BY <1>11 DEF RemoveLeaf, Advance, tree
  <2>2. \A c \in Classes \ {Root} : quota'[c] = quota[c]
    BY <2>1 DEF WithoutMtu, IInv, TypeMoney
  <2>3. ahead # <<>>
    BY <1>11 DEF RemoveLeaf, IInv, Ring
  <2> QED BY <2>1, <2>2, <2>3, BalanceAdvance
<1> QED BY <1>1, <1>2, <1>3, <1>4, <1>5, <1>6, <1>7, <1>8, <1>9, <1>10, <1>11 DEF Next, Handler

\* A lead within what the leaves hold is one within the bound.
LEMMA BalanceBounds ==
  ASSUME Siblings, lag \in Int, HeldWithin, Balance, MostQuota \in Nat
  PROVE  SharesInProportion
<1> DEFINE g == Held(One)
<1> DEFINE h == Held(Other)
<1> DEFINE v == Weight[One]
<1> DEFINE w == Weight[Other]
<1> DEFINE m == MostQuota
<1>1. g \in Nat /\ h \in Nat /\ v \in Nat /\ w \in Nat /\ m \in Nat /\ g <= m /\ h <= m
  BY PairFacts DEF HeldWithin
<1>2. Lead = lag + g * w - h * v
  BY DEF Lead
<1>3. lag = 0 \/ (-(v * m) <= Lead /\ Lead <= w * m)
  BY DEF Balance
<1> HIDE DEF g, h, v, w, m
<1>4. -(v * m) <= g * w - h * v /\ g * w - h * v <= w * m
  BY <1>1, Apart
<1>5. (v + w) * m = v * m + w * m
  BY <1>1
<1>6. v * m \in Nat /\ w * m \in Nat /\ g * w \in Nat /\ h * v \in Nat
  BY <1>1
<1>7. lag <= (v + w) * m /\ lag >= -((v + w) * m)
  BY <1>2, <1>3, <1>4, <1>5, <1>6
<1> QED BY <1>7 DEF SharesInProportion, v, w, m

\* For every tree, all weights and all packet lengths: however long two sibling
\* leaves both have packets, and whatever arrives for the others, the scheduler
\* serves them in proportion to their weights, up to the quota of one round.
THEOREM SharesAlwaysInProportion ==
  ASSUME Siblings
  PROVE  ShareSpec => []SharesInProportion
<1> DEFINE Inv == IInv /\ Solvent /\ Covered
<1> DEFINE Even == lag \in Int /\ Balance
<1>1. ~CanRemove
  BY DEF Siblings
<1>2. ShareInit => Inv /\ Even
  <2> SUFFICES ASSUME ShareInit PROVE Inv /\ Even
    OBVIOUS
  <2>1. Inv /\ lag = 0
    BY InitKeeps, SolventInit, CoveredInit DEF ShareInit
  <2>2. ~isBusy[One]
    BY PairFacts DEF ShareInit, Init
  <2> QED BY <2>1, <2>2 DEF Balance
<1>3. [ShareNext]_<<vars, lag>> => [Next]_vars
  BY DEF ShareNext
<1>4. Inv /\ [Next]_vars => Inv'
  BY <1>1, NextKeeps, SolventNext, CoveredNext
<1>5. Inv => HeldWithin
  BY HeldAlwaysWithin
<1>6. Inv /\ HeldWithin /\ HeldWithin' /\ Even /\ [ShareNext]_<<vars, lag>> => Even'
  BY BalanceNext
<1>7. Inv /\ HeldWithin /\ Even => SharesInProportion
  BY BalanceBounds, SpareFacts
<1> HIDE DEF Inv, Even
<1> QED BY <1>2, <1>3, <1>4, <1>5, <1>6, <1>7, PTL DEF ShareSpec
=============================================================================
