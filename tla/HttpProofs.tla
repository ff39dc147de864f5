----------------------------- MODULE HttpProofs -----------------------------
(***************************************************************************)
(* Theorems about the HTTP tools: what the controller adds up, and what    *)
(* becomes of the connections between the browser and the servers.         *)
(***************************************************************************)
EXTENDS HttpTools, SequenceTheorems, WellFoundedInduction, TLAPS

\* A nonempty set of naturals has a least element.
LEMMA LeastNatural ==
  ASSUME NEW S \in SUBSET Nat, S # {}
  PROVE  \E x \in S : \A y \in S : x <= y
<1> DEFINE R == {ss \in Nat \X Nat : ss[1] < ss[2]}
<1>1. IsWellFoundedOn(R, Nat)
  BY NatLessThanWellFounded DEF OpToRel
<1> HIDE DEF R
<1>2. PICK x \in S : \A y \in S : ~ (<<y, x>> \in R)
  BY <1>1, WFMin
<1>3. \A y \in S : x <= y
  <2> TAKE y \in S
  <2>1. ~ (<<y, x>> \in R) /\ x \in Nat /\ y \in Nat
    BY <1>2
  <2>2. ~(y < x)
    BY <2>1 DEF R
  <2> QED BY <2>1, <2>2
<1> QED BY <1>3

\* A sequence without one of its elements.
LEMMA Spliced ==
  ASSUME NEW S, NEW s \in Seq(S), NEW i \in Nat, NEW n \in Nat, n = Len(s), i \in 1 .. n
  PROVE  LET t == SubSeq(s, 1, i - 1) \o SubSeq(s, i + 1, Len(s))
         IN /\ t \in Seq(S) /\ Len(t) = n - 1
            /\ \A j \in 1 .. n - 1 : t[j] = IF j < i THEN s[j] ELSE s[j + 1]
<1> DEFINE before == SubSeq(s, 1, i - 1)
           after == SubSeq(s, i + 1, n)
           t == before \o after
<1>1. \A j \in 1 .. n : s[j] \in S
  OBVIOUS
<1>2. /\ before \in Seq(S) /\ Len(before) = i - 1
      /\ \A j \in 1 .. i - 1 : before[j] = s[j]
  <2>1. \A j \in 1 .. i - 1 : s[j] \in S
    BY <1>1
  <2>2. /\ before \in Seq(S) /\ Len(before) = IF 1 <= i - 1 THEN i - 1 - 1 + 1 ELSE 0
        /\ \A j \in 1 .. i - 1 - 1 + 1 : before[j] = s[1 + j - 1]
    BY <2>1, SubSeqProperties
  <2> HIDE DEF before
  <2> QED BY <2>2
<1>3. /\ after \in Seq(S) /\ Len(after) = n - i
      /\ \A j \in 1 .. n - i : after[j] = s[i + j]
  <2>1. \A j \in i + 1 .. n : s[j] \in S
    BY <1>1
  <2>2. /\ after \in Seq(S) /\ Len(after) = IF i + 1 <= n THEN n - (i + 1) + 1 ELSE 0
        /\ \A j \in 1 .. n - (i + 1) + 1 : after[j] = s[(i + 1) + j - 1]
    BY <2>1, SubSeqProperties
  <2> HIDE DEF after
  <2>3. ASSUME NEW j \in 1 .. n - i PROVE after[j] = s[i + j]
    <3>1. j \in 1 .. n - (i + 1) + 1 /\ (i + 1) + j - 1 = i + j
      OBVIOUS
    <3> QED BY <2>2, <3>1
  <2> QED BY <2>2, <2>3
<1> HIDE DEF before, after
<1>4. /\ t \in Seq(S) /\ Len(t) = Len(before) + Len(after)
      /\ \A j \in 1 .. Len(before) + Len(after) :
           t[j] = IF j <= Len(before) THEN before[j] ELSE after[j - Len(before)]
  BY <1>2, <1>3, ConcatProperties
<1>5. Len(before) + Len(after) = n - 1
  BY <1>2, <1>3
<1> HIDE DEF t
<1>6. ASSUME NEW j \in 1 .. n - 1
      PROVE  t[j] = IF j < i THEN s[j] ELSE s[j + 1]
  <2>1. CASE j < i
    BY <1>2, <1>4, <1>5, <2>1
  <2>2. CASE j >= i
    <3>1. j - (i - 1) \in 1 .. n - i /\ i + (j - (i - 1)) = j + 1
      BY <2>2
    <3>2. t[j] = after[j - (i - 1)]
      BY <1>2, <1>4, <1>5, <2>2
    <3>3. after[j - (i - 1)] = s[i + (j - (i - 1))]
      BY <1>3, <3>1
    <3> QED BY <2>2, <3>1, <3>2, <3>3
  <2> QED BY <2>1, <2>2
<1> QED BY <1>4, <1>5, <1>6 DEF t, before, after

-----------------------------------------------------------------------------
(***************************************************************************)
(* Adding up.  The total of f over S is what a function on the subsets of  *)
(* S, that starts at zero and grows by f[x] with each x, makes of S.       *)
(***************************************************************************)

Additive(F, f, S) ==
  /\ F \in [SUBSET S -> Nat]
  /\ F[{}] = 0
  /\ \A x \in S : f[x] \in Nat
  /\ \A T \in SUBSET S, x \in S : x \notin T => F[T \cup {x}] = F[T] + f[x]

AddsUp(total, f, S) == \E F : Additive(F, f, S) /\ total = F[S]

\* Nothing adds up to zero.
LEMMA NothingAddsUp == \A f : AddsUp(0, f, {})
<1> TAKE f
<1> DEFINE F == [T \in SUBSET {} |-> 0]
<1>1. Additive(F, f, {}) /\ F[{}] = 0
  BY DEF Additive
<1> QED BY <1>1 DEF AddsUp

\* The total depends on the values in the set only.
LEMMA SameAddsUp ==
  ASSUME NEW S, NEW f, NEW g, NEW total, AddsUp(total, f, S), \A x \in S : g[x] = f[x]
  PROVE  AddsUp(total, g, S)
BY DEF AddsUp, Additive

\* One element more.
LEMMA OneMoreAddsUp ==
  ASSUME NEW S, NEW f, NEW total, AddsUp(total, f, S), NEW d, d \notin S, f[d] \in Nat
  PROVE  AddsUp(total + f[d], f, S \cup {d})
<1>1. PICK F : Additive(F, f, S) /\ total = F[S]
  BY DEF AddsUp
<1> DEFINE rest(T) == T \ {d}
           more(T) == IF d \in T THEN f[d] ELSE 0
           E == [T \in SUBSET (S \cup {d}) |-> F[rest(T)] + more(T)]
<1>2. \A T \in SUBSET (S \cup {d}) :
        rest(T) \in SUBSET S /\ F[rest(T)] \in Nat /\ more(T) \in Nat /\ E[T] = F[rest(T)] + more(T)
  BY <1>1 DEF Additive
<1>3. E \in [SUBSET (S \cup {d}) -> Nat]
  <2> HIDE DEF rest, more
  <2>1. ASSUME NEW T \in SUBSET (S \cup {d}) PROVE F[rest(T)] + more(T) \in Nat
    <3>1. F[rest(T)] \in Nat /\ more(T) \in Nat
      BY <1>2
    <3> QED BY <3>1
  <2> QED BY <2>1
<1>4. E[{}] = 0
  <2>1. rest({}) = {} /\ {} \in SUBSET (S \cup {d}) /\ more({}) = 0
    OBVIOUS
  <2> QED BY <1>1, <1>2, <2>1 DEF Additive
<1>5. ASSUME NEW T \in SUBSET (S \cup {d}), NEW x \in S \cup {d}, x \notin T
      PROVE  E[T \cup {x}] = E[T] + f[x]
  <2>1. T \cup {x} \in SUBSET (S \cup {d})
    OBVIOUS
  <2>2. CASE x = d
    <3>1. rest(T \cup {x}) = rest(T) /\ more(T \cup {x}) = f[x] /\ more(T) = 0
      BY <1>5, <2>2
    <3> HIDE DEF E, rest, more
    <3> QED BY <1>2, <2>1, <2>2, <3>1
  <2>3. CASE x # d
    <3>1. rest(T \cup {x}) = rest(T) \cup {x} /\ more(T \cup {x}) = more(T)
      BY <2>3
    <3>2. x \in S /\ x \notin rest(T)
      BY <1>5, <2>3
    <3> HIDE DEF E, rest, more
    <3>3. F[rest(T) \cup {x}] = F[rest(T)] + f[x]
      BY <1>1, <1>2, <3>2 DEF Additive
    <3>4. F[rest(T)] \in Nat /\ F[rest(T) \cup {x}] \in Nat /\ more(T) \in Nat
      BY <1>2, <2>1, <3>1
    <3>5. E[T \cup {x}] = F[rest(T) \cup {x}] + more(T) /\ E[T] = F[rest(T)] + more(T)
      BY <1>2, <2>1, <3>1
    <3>6. f[x] \in Nat
      BY <1>1, <3>2 DEF Additive
    <3> QED BY <3>1, <3>3, <3>4, <3>5, <3>6
  <2> QED BY <2>2, <2>3
<1>6. E[S \cup {d}] = total + f[d]
  <2>1. rest(S \cup {d}) = S /\ more(S \cup {d}) = f[d] /\ S \cup {d} \in SUBSET (S \cup {d})
    OBVIOUS
  <2> QED BY <1>1, <1>2, <2>1
<1>7. Additive(E, f, S \cup {d})
  BY <1>1, <1>3, <1>4, <1>5 DEF Additive
<1> QED BY <1>6, <1>7 DEF AddsUp

\* One element less.
LEMMA OneLessAddsUp ==
  ASSUME NEW S, NEW f, NEW total, AddsUp(total, f, S), NEW d \in S, f[d] \in Nat
  PROVE  total - f[d] \in Nat /\ AddsUp(total - f[d], f, S \ {d})
<1>1. PICK F : Additive(F, f, S) /\ total = F[S]
  BY DEF AddsUp
<1> DEFINE R == S \ {d}
           E == [T \in SUBSET R |-> F[T]]
<1>2. R \in SUBSET S /\ R \cup {d} = S /\ d \notin R
  OBVIOUS
<1>3. total = F[R] + f[d] /\ F[R] \in Nat
  BY <1>1, <1>2 DEF Additive
<1>4. Additive(E, f, R)
  <2>1. E \in [SUBSET R -> Nat] /\ E[{}] = 0
    BY <1>1 DEF Additive
  <2>2. ASSUME NEW T \in SUBSET R, NEW x \in R, x \notin T
        PROVE  E[T \cup {x}] = E[T] + f[x]
    <3>1. T \cup {x} \in SUBSET R /\ T \in SUBSET S /\ x \in S
      OBVIOUS
    <3> QED BY <1>1, <2>2, <3>1 DEF Additive
  <2>3. \A x \in R : f[x] \in Nat
    BY <1>1 DEF Additive
  <2> HIDE DEF E, R
  <2> QED BY <2>1, <2>2, <2>3 DEF Additive
<1>5. E[R] = F[R]
  OBVIOUS
<1>6. total - f[d] = F[R]
  BY <1>3
<1> QED BY <1>3, <1>4, <1>5, <1>6 DEF AddsUp

-----------------------------------------------------------------------------
(* The special list.                                                       *)

Entries(list) == {list[i] : i \in DOMAIN list}
Distinct(list) == \A i, j \in DOMAIN list : list[i] = list[j] => i = j

\* No event repeats the status of a site.
Once == \A e, f \in happened : e.www = f.www => e = f

ControllerTypes ==
  /\ specialList \in Seq(Registered)
  /\ pvalue \in [Registered -> Nat] /\ pamortize \in [Registered -> Nat]
  /\ pspecial \in Int
  /\ happened \subseteq Events

ControllerInv ==
  /\ ControllerTypes
  /\ pspecial > 0 => specialList # <<>>
  /\ Once => /\ Distinct(specialList)
             /\ \A www \in Entries(specialList) : \E e \in happened : e.www = www
             /\ AddsUp(pspecial, pvalue, Entries(specialList))

LEMMA EntriesOf ==
  ASSUME NEW S, NEW list \in Seq(S)
  PROVE  Entries(list) \subseteq S
BY DEF Entries

\* The accumulated probabilities are the total over the entries so far.
LEMMA SumUpToTotal ==
  ASSUME NEW S, NEW list \in Seq(S), Distinct(list),
         NEW value, NEW total, AddsUp(total, value, Entries(list))
  PROVE  SumUpTo(list, value, Len(list)) = total
<1>1. PICK F : Additive(F, value, Entries(list)) /\ total = F[Entries(list)]
  BY DEF AddsUp
<1> DEFINE n == Len(list)
           First(i) == {list[j] : j \in 1 .. i}
           Sums(f) == f = [i \in 0 .. n |-> IF i = 0 THEN 0 ELSE f[i - 1] + value[list[i]]]
           g == [i \in 0 .. n |-> F[First(i)]]
<1>2. n \in Nat /\ DOMAIN list = 1 .. n
  OBVIOUS
<1>3. First(0) = {} /\ First(n) = Entries(list) /\ \A i \in 0 .. n : First(i) \subseteq Entries(list)
  BY <1>2 DEF Entries
<1>4. \A i \in 1 .. n : F[First(i)] = F[First(i - 1)] + value[list[i]]
  <2> TAKE i \in 1 .. n
  <2>1. First(i) = First(i - 1) \cup {list[i]} /\ list[i] \notin First(i - 1)
    BY <1>2 DEF Distinct
  <2>2. i - 1 \in 0 .. n /\ list[i] \in Entries(list)
    BY <1>2 DEF Entries
  <2> HIDE DEF First
  <2> QED BY <1>1, <1>3, <2>1, <2>2 DEF Additive
<1> HIDE DEF First
<1>5. Sums(g)
  <2>1. \A i \in 0 .. n : g[i] = IF i = 0 THEN 0 ELSE g[i - 1] + value[list[i]]
    <3> TAKE i \in 0 .. n
    <3>1. CASE i = 0
      BY <1>1, <1>2, <1>3, <3>1 DEF Additive
    <3>2. CASE i # 0
      <4>1. i - 1 \in 0 .. n /\ i \in 1 .. n
        BY <1>2, <3>2
      <4>2. g[i] = F[First(i)] /\ g[i - 1] = F[First(i - 1)]
        BY <4>1
      <4> QED BY <1>4, <3>2, <4>1, <4>2
    <3> QED BY <3>1, <3>2
  <2>2. g = [i \in 0 .. n |-> g[i]]
    OBVIOUS
  <2> HIDE DEF g
  <2> QED BY <2>1, <2>2
<1>6. PICK f : f = (CHOOSE h : Sums(h)) /\ Sums(f)
  BY <1>5
<1> HIDE DEF g
<1> DEFINE Differ == {i \in 0 .. n : f[i] # g[i]}
<1>7. Differ = {}
  <2> SUFFICES ASSUME Differ # {} PROVE FALSE
    OBVIOUS
  <2>1. PICK i \in Differ : \A j \in Differ : i <= j
    <3>1. Differ \in SUBSET Nat
      BY <1>2
    <3> HIDE DEF Differ
    <3> QED BY <3>1, LeastNatural
  <2>2. CASE i = 0
    BY <1>2, <1>5, <1>6, <2>2
  <2>3. CASE i # 0
    <3>1. i - 1 \in 0 .. n /\ i - 1 \notin Differ
      BY <1>2, <2>1, <2>3
    <3>2. f[i - 1] = g[i - 1] /\ f[i] = f[i - 1] + value[list[i]] /\ g[i] = g[i - 1] + value[list[i]]
      BY <1>5, <1>6, <2>3, <3>1
    <3> QED BY <3>2
  <2> QED BY <2>2, <2>3
<1>8. SumUpTo(list, value, n) = f[n]
  BY <1>6 DEF SumUpTo
<1>9. n \in 0 .. n
  BY <1>2
<1>10. f[n] = g[n] /\ g[n] = F[First(n)]
  BY <1>7, <1>9 DEF g
<1> QED BY <1>1, <1>3, <1>8, <1>10

\* What is left of a list of distinct entries without one of them.
LEMMA WithoutFirstFacts ==
  ASSUME NEW S, NEW list \in Seq(S), NEW www \in Entries(list)
  PROVE  LET left == WithoutFirst(list, www)
         IN /\ left \in Seq(S)
            /\ Distinct(list) => Distinct(left) /\ Entries(left) = Entries(list) \ {www}
<1> DEFINE P(i) == list[i] = www /\ \A j \in 1 .. i - 1 : list[j] # www
           i == CHOOSE i \in DOMAIN list : P(i)
           left == WithoutFirst(list, www)
           Found == {j \in DOMAIN list : list[j] = www}
<1>1. Found \in SUBSET Nat /\ Found # {} /\ DOMAIN list = 1 .. Len(list) /\ Len(list) \in Nat
  BY DEF Entries
<1>2. PICK k \in Found : \A j \in Found : k <= j
  BY <1>1, LeastNatural
<1>3. P(k) /\ k \in DOMAIN list
  BY <1>1, <1>2
<1>4. i \in DOMAIN list /\ P(i)
  BY <1>3
<1>5. left = SubSeq(list, 1, i - 1) \o SubSeq(list, i + 1, Len(list))
  BY DEF WithoutFirst
<1> HIDE DEF i, left
<1>8. i \in 1 .. Len(list)
  BY <1>1, <1>4
<1>6. /\ left \in Seq(S) /\ Len(left) = Len(list) - 1
      /\ \A j \in 1 .. Len(list) - 1 : left[j] = IF j < i THEN list[j] ELSE list[j + 1]
  <2>1. i \in Nat /\ Len(list) \in Nat
    BY <1>1, <1>8
  <2> DEFINE t == SubSeq(list, 1, i - 1) \o SubSeq(list, i + 1, Len(list))
  <2>2. /\ t \in Seq(S) /\ Len(t) = Len(list) - 1
        /\ \A j \in 1 .. Len(list) - 1 : t[j] = IF j < i THEN list[j] ELSE list[j + 1]
    BY <1>8, <2>1, Spliced
  <2> HIDE DEF t
  <2>3. left = t
    BY <1>5 DEF t
  <2> QED BY <2>2, <2>3
<1>7. ASSUME Distinct(list)
      PROVE  Distinct(left) /\ Entries(left) = Entries(list) \ {www}
  <2>1. DOMAIN left = 1 .. Len(list) - 1
    BY <1>6
  <2>2. Distinct(left)
    <3> SUFFICES ASSUME NEW a \in 1 .. Len(list) - 1, NEW b \in 1 .. Len(list) - 1, left[a] = left[b]
                 PROVE  a = b
      BY <2>1 DEF Distinct
    <3>1. \A x, y \in 1 .. Len(list) : list[x] = list[y] => x = y
      BY <1>1, <1>7 DEF Distinct
    <3> DEFINE old(j) == IF j < i THEN j ELSE j + 1
    <3>2. /\ old(a) \in 1 .. Len(list) /\ old(b) \in 1 .. Len(list)
          /\ left[a] = list[old(a)] /\ left[b] = list[old(b)]
      BY <1>1, <1>6, <1>8
    <3>3. old(a) = old(b)
      BY <3>1, <3>2
    <3> QED BY <1>8, <3>3
  <2>3. \A j \in DOMAIN left : left[j] \in Entries(list) \ {www}
    <3> SUFFICES ASSUME NEW j \in 1 .. Len(list) - 1 PROVE left[j] \in Entries(list) \ {www}
      BY <2>1, Zenon
    <3>1. \A x, y \in 1 .. Len(list) : list[x] = list[y] => x = y
      BY <1>1, <1>7 DEF Distinct
    <3>2. CASE j < i
      <4>1. left[j] = list[j] /\ j \in DOMAIN list /\ j \in 1 .. i - 1
        BY <1>1, <1>6, <1>8, <3>2
      <4>2. list[j] # www /\ list[j] \in Entries(list)
        BY <1>4, <4>1 DEF Entries
      <4> QED BY <4>1, <4>2
    <3>3. CASE j >= i
      <4>1. left[j] = list[j + 1] /\ j + 1 \in 1 .. Len(list) /\ j + 1 # i
        BY <1>1, <1>6, <1>8, <3>3
      <4>2. list[j + 1] # www
        BY <1>4, <1>8, <3>1, <4>1
      <4>3. list[j + 1] \in Entries(list)
        BY <1>1, <4>1 DEF Entries
      <4> QED BY <4>1, <4>2, <4>3
    <3> QED BY <1>8, <3>2, <3>3
  <2>4. ASSUME NEW j \in DOMAIN list, list[j] # www
        PROVE  list[j] \in Entries(left)
    <3>1. CASE j < i
      <4>1. j \in DOMAIN left /\ left[j] = list[j]
        BY <1>1, <1>6, <1>8, <2>1, <3>1
      <4> QED BY <4>1 DEF Entries
    <3>2. CASE j > i
      <4>1. j - 1 \in DOMAIN left /\ left[j - 1] = list[j]
        BY <1>1, <1>4, <1>6, <2>1, <3>2
      <4> QED BY <4>1 DEF Entries
    <3> QED BY <1>1, <1>4, <2>4, <3>1, <3>2
  <2> QED BY <2>2, <2>3, <2>4 DEF Entries
<1> QED BY <1>6, <1>7 DEF left

-----------------------------------------------------------------------------
(* What the controller counts.                                             *)

LEMMA ControllerStart == ControllerInit => ControllerInv
<1> SUFFICES ASSUME ControllerInit PROVE ControllerInv
  OBVIOUS
<1>1. ControllerTypes
  BY DEF ControllerInit, ControllerTypes
<1>2. Distinct(specialList) /\ Entries(specialList) = {} /\ pspecial = 0
  BY DEF ControllerInit, Distinct, Entries
<1>3. AddsUp(pspecial, pvalue, Entries(specialList))
  BY <1>2, NothingAddsUp
<1> QED BY <1>1, <1>2, <1>3 DEF ControllerInv

LEMMA EventFacts ==
  \A e \in Events : e.p \in Nat /\ e.amortize \in Nat
BY ControllerAssumption

\* A site that is not special yet is put in front of the list.
LEMMA StatusKeeps ==
  ASSUME ControllerInv, StatusUpdate
  PROVE  ControllerInv'
<1>1. PICK e \in Scheduled : SetSpecialStatus(e) /\ happened' = happened \cup {e}
  BY DEF StatusUpdate
<1>2. e \in Events /\ e \notin happened /\ e.p \in Nat /\ e.amortize \in Nat
  BY EventFacts DEF Scheduled
<1>3. happened' \subseteq Events
  BY <1>1, <1>2 DEF ControllerInv, ControllerTypes
<1>4. CASE ~Known(e.www)
  <2>1. UNCHANGED <<pvalue, pamortize, specialList, pspecial>>
    BY <1>1, <1>4 DEF SetSpecialStatus
  <2>2. Once' => Once
    BY <1>1 DEF Once
  <2>3. (\A www \in Entries(specialList) : \E f \in happened : f.www = www)
          => \A www \in Entries(specialList) : \E f \in happened' : f.www = www
    BY <1>1
  <2> QED BY <1>3, <2>1, <2>2, <2>3 DEF ControllerInv, ControllerTypes
<1>5. CASE Known(e.www)
  <2> DEFINE www == e.www
  <2>1. /\ www \in Registered
        /\ pvalue' = [pvalue EXCEPT ![www] = e.p]
        /\ pamortize' = [pamortize EXCEPT ![www] = e.amortize]
        /\ specialList' = <<www>> \o specialList
        /\ pspecial' = pspecial + e.p
    BY <1>1, <1>5 DEF SetSpecialStatus, Known
  <2>2. /\ specialList \in Seq(Registered) /\ pvalue \in [Registered -> Nat]
        /\ pamortize \in [Registered -> Nat] /\ pspecial \in Int
    BY DEF ControllerInv, ControllerTypes
  <2> HIDE DEF www
  <2> DEFINE n == Len(specialList)
  <2>3. /\ specialList' \in Seq(Registered) /\ Len(specialList') = n + 1 /\ n \in Nat
        /\ specialList'[1] = www /\ \A i \in 1 .. n : specialList'[i + 1] = specialList[i]
    <3>1. <<www>> \in Seq(Registered) /\ Len(<<www>>) = 1 /\ <<www>>[1] = www /\ n \in Nat
      BY <2>1, <2>2
    <3>2. /\ specialList' \in Seq(Registered) /\ Len(specialList') = 1 + n
          /\ \A i \in 1 .. 1 + n : specialList'[i] = IF i <= 1 THEN <<www>>[i] ELSE specialList[i - 1]
      BY <2>1, <2>2, <3>1, ConcatProperties
    <3>3. ASSUME NEW i \in 1 .. n PROVE specialList'[i + 1] = specialList[i]
      <4>1. i + 1 \in 1 .. 1 + n /\ ~(i + 1 <= 1) /\ i + 1 - 1 = i
        BY <3>1
      <4> QED BY <3>2, <4>1
    <3> QED BY <3>1, <3>2, <3>3
  <2>4. ControllerTypes'
    BY <1>2, <1>3, <2>1, <2>2, <2>3 DEF ControllerTypes
  <2>5. DOMAIN specialList' = 1 .. n + 1 /\ DOMAIN specialList = 1 .. n
    BY <2>2, <2>3
  <2>6. specialList' # <<>>
    BY <2>3
  <2>7. ASSUME Once'
        PROVE  /\ Distinct(specialList)'
               /\ \A x \in Entries(specialList)' : \E f \in happened' : f.www = x
               /\ AddsUp(pspecial', pvalue', Entries(specialList)')
    <3>1. Once
      BY <1>1, <2>7 DEF Once
    <3>2. /\ Distinct(specialList)
          /\ \A x \in Entries(specialList) : \E f \in happened : f.www = x
          /\ AddsUp(pspecial, pvalue, Entries(specialList))
      BY <3>1 DEF ControllerInv
    <3>3. www \notin Entries(specialList)
      BY <1>1, <1>2, <2>7, <3>2 DEF Once, www
    <3>4. Entries(specialList)' = Entries(specialList) \cup {www}
      <4>1. ASSUME NEW i \in 1 .. n + 1 PROVE specialList'[i] \in Entries(specialList) \cup {www}
        <5>1. CASE i = 1
          BY <2>3, <5>1
        <5>2. CASE i # 1
          <6>1. i - 1 \in 1 .. n /\ specialList'[(i - 1) + 1] = specialList[i - 1] /\ (i - 1) + 1 = i
            BY <2>3, <5>2
          <6> QED BY <2>5, <6>1 DEF Entries
        <5> QED BY <5>1, <5>2
      <4>2. ASSUME NEW i \in 1 .. n PROVE specialList[i] \in Entries(specialList)'
        <5>1. i + 1 \in 1 .. n + 1 /\ specialList'[i + 1] = specialList[i]
          BY <2>3
        <5> QED BY <2>5, <5>1 DEF Entries
      <4>3. www \in Entries(specialList)'
        BY <2>3, <2>5 DEF Entries
      <4> QED BY <2>5, <4>1, <4>2, <4>3 DEF Entries
    <3>5. Distinct(specialList)'
      <4> SUFFICES ASSUME NEW i \in 1 .. n + 1, NEW j \in 1 .. n + 1, specialList'[i] = specialList'[j]
                   PROVE  i = j
        BY <2>5 DEF Distinct
      <4>1. ASSUME NEW k \in 1 .. n + 1, k # 1
            PROVE  k - 1 \in 1 .. n /\ specialList'[k] = specialList[k - 1] /\ specialList'[k] # www
        <5>1. k - 1 \in 1 .. n /\ specialList'[(k - 1) + 1] = specialList[k - 1] /\ (k - 1) + 1 = k
          BY <2>3, <4>1
        <5>2. specialList[k - 1] \in Entries(specialList)
          BY <2>5, <5>1 DEF Entries
        <5> QED BY <3>3, <5>1, <5>2
      <4>2. CASE i = 1 \/ j = 1
        BY <2>3, <4>1, <4>2
      <4>3. CASE i # 1 /\ j # 1
        <5>1. i - 1 = j - 1
          BY <2>5, <3>2, <4>1, <4>3 DEF Distinct
        <5> QED BY <5>1
      <4> QED BY <4>2, <4>3
    <3>6. \A x \in Entries(specialList)' : \E f \in happened' : f.www = x
      BY <1>1, <3>2, <3>4 DEF www
    <3>7. AddsUp(pspecial', pvalue', Entries(specialList)')
      <4>1. Entries(specialList) \subseteq Registered
        BY <2>2, EntriesOf
      <4>2. \A x \in Entries(specialList) : pvalue'[x] = pvalue[x]
        BY <2>1, <2>2, <3>3, <4>1
      <4>3. AddsUp(pspecial, pvalue', Entries(specialList))
        BY <3>2, <4>2, SameAddsUp
      <4>4. pvalue'[www] = e.p /\ e.p \in Nat
        BY <1>2, <2>1, <2>2
      <4>5. AddsUp(pspecial + pvalue'[www], pvalue', Entries(specialList) \cup {www})
        BY <3>3, <4>3, <4>4, OneMoreAddsUp
      <4> QED BY <2>1, <3>4, <4>4, <4>5
    <3> QED BY <3>5, <3>6, <3>7
  <2> QED BY <2>4, <2>6, <2>7 DEF ControllerInv
<1> QED BY <1>4, <1>5

\* A site is chosen from the list, and its probability amortized.
LEMMA AmortizeKeeps ==
  ASSUME ControllerInv, NEW www \in Entries(specialList), Amortize(www), UNCHANGED happened
  PROVE  ControllerInv'
<1> DEFINE listed == Entries(specialList)
<1>1. /\ specialList \in Seq(Registered) /\ pvalue \in [Registered -> Nat]
      /\ pamortize \in [Registered -> Nat] /\ pspecial \in Int /\ happened \subseteq Events
  BY DEF ControllerInv, ControllerTypes
<1>2. listed \subseteq Registered /\ www \in Registered
  BY <1>1, EntriesOf
<1>3. specialList # <<>>
  BY DEF Entries
<1>4. Once' <=> Once
  BY DEF Once
<1>5. CASE UNCHANGED <<specialList, pvalue, pamortize, pspecial>>
  BY <1>4, <1>5 DEF ControllerInv, ControllerTypes
<1>6. CASE /\ pamortize[www] > 0 /\ pvalue[www] - pamortize[www] > 0
           /\ pvalue' = [pvalue EXCEPT ![www] = pvalue[www] - pamortize[www]]
           /\ pspecial' = pspecial - pamortize[www]
           /\ UNCHANGED <<specialList, pamortize>>
  <2>1. pvalue[www] \in Nat /\ pamortize[www] \in Nat
    BY <1>1, <1>2
  <2>2. ControllerTypes'
    BY <1>1, <1>2, <1>6, <2>1 DEF ControllerTypes
  <2>3. ASSUME Once
        PROVE  AddsUp(pspecial', pvalue', listed)
    <3>1. AddsUp(pspecial, pvalue, listed)
      BY <2>3 DEF ControllerInv
    <3>2. /\ pvalue'[www] = pvalue[www] - pamortize[www] /\ pvalue'[www] \in Nat
          /\ \A x \in listed \ {www} : pvalue'[x] = pvalue[x]
      BY <1>1, <1>2, <1>6, <2>1
    <3>3. AddsUp(pspecial - pvalue[www], pvalue, listed \ {www})
      BY <2>1, <3>1, OneLessAddsUp
    <3>4. AddsUp(pspecial - pvalue[www], pvalue', listed \ {www})
      BY <3>2, <3>3, SameAddsUp
    <3>5. AddsUp((pspecial - pvalue[www]) + pvalue'[www], pvalue', (listed \ {www}) \cup {www})
      BY <3>2, <3>4, OneMoreAddsUp
    <3>6. (pspecial - pvalue[www]) + pvalue'[www] = pspecial' /\ (listed \ {www}) \cup {www} = listed
      BY <1>1, <1>6, <2>1, <3>2
    <3> QED BY <3>5, <3>6
  <2> QED BY <1>3, <1>4, <1>6, <2>2, <2>3 DEF ControllerInv
<1>7. CASE CancelSpecialStatus(www)
  <2> DEFINE left == WithoutFirst(specialList, www)
  <2>1. /\ specialList' = left
        /\ pspecial' = IF left = <<>> \/ pspecial - pvalue[www] < 0 THEN 0 ELSE pspecial - pvalue[www]
        /\ pvalue' = [pvalue EXCEPT ![www] = 0]
        /\ pamortize' = [pamortize EXCEPT ![www] = 0]
    BY <1>7 DEF CancelSpecialStatus, Amortized
  <2>2. /\ left \in Seq(Registered)
        /\ Distinct(specialList) => Distinct(left) /\ Entries(left) = listed \ {www}
    BY <1>1, WithoutFirstFacts
  <2> HIDE DEF left
  <2>3. pvalue[www] \in Nat
    BY <1>1, <1>2
  <2>4. ControllerTypes'
    BY <1>1, <1>2, <2>1, <2>2, <2>3 DEF ControllerTypes
  <2>5. pspecial' > 0 => specialList' # <<>>
    BY <1>1, <2>1, <2>3
  <2>6. ASSUME Once
        PROVE  /\ Distinct(specialList)'
               /\ \A x \in Entries(specialList)' : \E f \in happened : f.www = x
               /\ AddsUp(pspecial', pvalue', Entries(specialList)')
    <3>1. /\ Distinct(specialList)
          /\ \A x \in listed : \E f \in happened : f.www = x
          /\ AddsUp(pspecial, pvalue, listed)
      BY <2>6 DEF ControllerInv
    <3>2. Distinct(specialList)' /\ Entries(specialList)' = listed \ {www}
      BY <2>1, <2>2, <3>1
    <3>3. \A x \in Entries(specialList)' : \E f \in happened : f.www = x
      BY <3>1, <3>2
    <3>4. AddsUp(pspecial', pvalue', listed \ {www})
      <4>1. pspecial - pvalue[www] \in Nat /\ AddsUp(pspecial - pvalue[www], pvalue, listed \ {www})
        BY <2>3, <3>1, OneLessAddsUp
      <4>2. CASE left = <<>>
        <5>1. listed \ {www} = {}
          BY <2>1, <3>2, <4>2 DEF Entries
        <5> QED BY <2>1, <4>2, <5>1, NothingAddsUp
      <4>3. CASE left # <<>>
        <5>1. pspecial' = pspecial - pvalue[www]
          BY <2>1, <4>1, <4>3
        <5>2. \A x \in listed \ {www} : pvalue'[x] = pvalue[x]
          BY <1>1, <1>2, <2>1
        <5> QED BY <4>1, <5>1, <5>2, SameAddsUp
      <4> QED BY <4>2, <4>3
    <3> QED BY <3>2, <3>3, <3>4
  <2> QED BY <1>4, <2>4, <2>5, <2>6 DEF ControllerInv
<1>8. \/ UNCHANGED <<specialList, pvalue, pamortize, pspecial>>
      \/ /\ pamortize[www] > 0 /\ pvalue[www] - pamortize[www] > 0
         /\ pvalue' = [pvalue EXCEPT ![www] = pvalue[www] - pamortize[www]]
         /\ pspecial' = pspecial - pamortize[www]
         /\ UNCHANGED <<specialList, pamortize>>
      \/ CancelSpecialStatus(www)
  BY DEF Amortize
<1> QED BY <1>5, <1>6, <1>7, <1>8

LEMMA ChoiceKeeps ==
  ASSUME ControllerInv, NEW www, GetRandomServerInfo(www), UNCHANGED happened
  PROVE  ControllerInv'
<1>1. CASE SelectFromSpecialList(www)
  <2>1. www \in Entries(specialList) /\ Amortize(www)
    BY <1>1 DEF SelectFromSpecialList, Selectable, Entries
  <2> QED BY <2>1, AmortizeKeeps
<1>2. CASE UNCHANGED <<specialList, pvalue, pamortize, pspecial>>
  BY <1>2 DEF ControllerInv, ControllerTypes, Once
<1> QED BY <1>1, <1>2 DEF GetRandomServerInfo

LEMMA StillKeeps ==
  ASSUME ControllerInv, UNCHANGED <<specialList, pvalue, pamortize, pspecial, happened>>
  PROVE  ControllerInv'
BY DEF ControllerInv, ControllerTypes, Once

LEMMA ControllerNext ==
  ASSUME ControllerInv, [Next]_vars
  PROVE  ControllerInv'
<1>1. CASE UNCHANGED controllerVars
  BY <1>1, StillKeeps DEF controllerVars
<1>2. CASE Controls
  <2>1. CASE Draw
    BY <2>1, ChoiceKeeps DEF Draw
  <2>2. CASE StatusUpdate
    BY <2>2, StatusKeeps
  <2>3. CASE Activate
    BY <2>3, StillKeeps DEF Activate
  <2> QED BY <1>2, <2>1, <2>2, <2>3 DEF Controls
<1>3. CASE SelfStartSession \/ SelfNextMessage
  BY <1>3, StillKeeps DEF SelfStartSession, SelfNextMessage
<1>4. CASE SendRequestToRandomServer
  <2>1. PICK www \in active : GetRandomServerInfo(www)
    BY <1>4 DEF SendRequestToRandomServer, GetAnyServerInfo
  <2>2. UNCHANGED happened
    BY <1>4 DEF SendRequestToRandomServer
  <2> QED BY <2>1, <2>2, ChoiceKeeps
<1>5. CASE Arrives \/ SelfActivityStart \/ SelfScriptedEvent \/ SelfDelayedRequestMessage
  <2>1. UNCHANGED controllerVars
    <3>1. CASE SelfActivityStart
      BY <3>1 DEF SelfActivityStart
    <3>2. CASE SelfScriptedEvent
      BY <3>2 DEF SelfScriptedEvent
    <3>3. CASE SelfDelayedRequestMessage
      BY <3>3 DEF SelfDelayedRequestMessage
    <3>4. ASSUME NEW id \in Ids, SocketEstablished(id) \/ SocketClosed(id) \/ SocketFailure(id) \/ ServerAccepts(id)
          PROVE  UNCHANGED controllerVars
      BY <3>4 DEF SocketEstablished, SocketClosed, SocketFailure, ServerAccepts
    <3>5. ASSUME NEW id \in Ids, SocketDataArrived(id)
          PROVE  UNCHANGED controllerVars
      BY <3>5 DEF SocketDataArrived
    <3>6. ASSUME NEW id \in Ids, ServerDataArrived(id)
          PROVE  UNCHANGED controllerVars
      BY <3>6 DEF ServerDataArrived
    <3>7. ASSUME NEW id \in Ids, ServerPeerClosed(id) \/ ServerClosed(id) \/ ServerFailure(id) \/ Breaks(id)
          PROVE  UNCHANGED controllerVars
      BY <3>7 DEF ServerPeerClosed, ServerClosed, ServerFailure, Breaks
    <3>8. CASE ServerDirect \/ BrowserDirect
      BY <3>8 DEF ServerDirect, BrowserDirect
    <3> QED BY <1>5, <3>1, <3>2, <3>3, <3>4, <3>5, <3>6, <3>7, <3>8 DEF Arrives
  <2> QED BY <1>1, <2>1
<1> QED BY <1>1, <1>2, <1>3, <1>4, <1>5 DEF Next, Browses, vars

LEMMA SpecialsFollow == ControllerInv => SpecialsCount
<1> SUFFICES ASSUME ControllerInv PROVE SpecialsCount
  OBVIOUS
<1>1. ASSUME Once
      PROVE  pspecial = SumUpTo(specialList, pvalue, Len(specialList))
  <2>1. /\ Distinct(specialList) /\ AddsUp(pspecial, pvalue, Entries(specialList))
        /\ specialList \in Seq(Registered)
    BY <1>1 DEF ControllerInv, ControllerTypes
  <2> QED BY <2>1, SumUpToTotal
<1> QED BY <1>1 DEF ControllerInv, SpecialsCount, Once

\* pspecial adds up what is on the special list as long as no event repeats
\* the status of a site, and is positive only if there is a site to choose.
THEOREM SpecialsAlwaysCount == Spec => []SpecialsCount
<1>1. Init => ControllerInv
  BY ControllerStart DEF Init
<1>2. ControllerInv /\ [Next]_vars => ControllerInv'
  BY ControllerNext
<1> QED BY <1>1, <1>2, SpecialsFollow, PTL DEF Spec

-----------------------------------------------------------------------------
(* Elements of a sequence at some of its places.                           *)

\* What holds at 0 and goes on from each number to the next holds up to n.
LEMMA UpTo ==
  ASSUME NEW n \in Nat, NEW G, 0 \in G, \A k \in 1 .. n : k - 1 \in G => k \in G
  PROVE  \A k \in 0 .. n : k \in G
<1> DEFINE Bad == (0 .. n) \ G
<1>1. Bad \in SUBSET Nat
  OBVIOUS
<1> SUFFICES ASSUME Bad # {} PROVE FALSE
  OBVIOUS
<1>2. PICK k \in Bad : \A j \in Bad : k <= j
  <2> HIDE DEF Bad
  <2> QED BY <1>1, LeastNatural
<1>3. k \in 1 .. n /\ k - 1 \in 0 .. n
  OBVIOUS
<1>4. k - 1 \in G
  BY <1>2, <1>3
<1> QED BY <1>3, <1>4

\* m[i] of the first i places are among the chosen ones.
Marks(m, n, places) ==
  /\ m \in [0 .. n -> Nat] /\ m[0] = 0
  /\ \A i \in 1 .. n : m[i] = m[i - 1] + (IF i \in places THEN 1 ELSE 0)

LEMMA MarksExist ==
  ASSUME NEW n \in Nat, NEW places
  PROVE  \E m : Marks(m, n, places)
<1> DEFINE G == {k \in 0 .. n : \E m : Marks(m, k, places)}
<1>1. 0 \in G
  <2>1. Marks([i \in 0 .. 0 |-> 0], 0, places)
    BY DEF Marks
  <2> QED BY <2>1
<1>2. ASSUME NEW k \in 1 .. n, k - 1 \in G
      PROVE  k \in G
  <2>1. PICK m : Marks(m, k - 1, places)
    BY <1>2
  <2> DEFINE one == IF k \in places THEN 1 ELSE 0
             next == [i \in 0 .. k |-> IF i < k THEN m[i] ELSE m[k - 1] + one]
  <2>2. \A i \in 0 .. k - 1 : m[i] \in Nat /\ next[i] = m[i]
    BY <2>1 DEF Marks
  <2>3. next[k] = m[k - 1] + one /\ m[k - 1] \in Nat /\ one \in Nat
    BY <2>2
  <2>4. ASSUME NEW i \in 0 .. k PROVE next[i] \in Nat
    <3>1. CASE i = k
      <4> HIDE DEF next, one
      <4> QED BY <2>3, <3>1
    <3>2. CASE i < k
      <4>1. i \in 0 .. k - 1
        BY <3>2
      <4> QED BY <2>2, <4>1
    <3> QED BY <3>1, <3>2
  <2>5. next \in [0 .. k -> Nat]
    BY <2>4
  <2>6. ASSUME NEW i \in 1 .. k
        PROVE  next[i] = next[i - 1] + (IF i \in places THEN 1 ELSE 0)
    <3>1. i - 1 \in 0 .. k - 1
      OBVIOUS
    <3>2. CASE i = k
      BY <2>2, <2>3, <3>1, <3>2
    <3>3. CASE i < k
      <4>1. i \in 1 .. k - 1 /\ i \in 0 .. k - 1
        BY <3>3
      <4>2. m[i] = m[i - 1] + (IF i \in places THEN 1 ELSE 0)
        BY <2>1, <4>1 DEF Marks
      <4> QED BY <2>2, <3>1, <4>1, <4>2
    <3> QED BY <3>2, <3>3
  <2>7. next[0] = 0
    BY <2>1, <2>2 DEF Marks
  <2> HIDE DEF next
  <2>8. Marks(next, k, places)
    BY <2>5, <2>6, <2>7 DEF Marks
  <2> QED BY <2>8
<1> HIDE DEF G
<1>3. n \in 0 .. n
  OBVIOUS
<1>4. n \in G
  BY <1>1, <1>2, <1>3, UpTo
<1> QED BY <1>4 DEF G

\* The marks grow with the places.
LEMMA MarksGrow ==
  ASSUME NEW n \in Nat, NEW places, NEW m, Marks(m, n, places),
         NEW i \in 1 .. n, NEW j \in 0 .. i - 1
  PROVE  /\ m[j] \in Nat /\ m[i] \in Nat
         /\ m[j] + (IF i \in places THEN 1 ELSE 0) <= m[i]
<1>1. \A k \in 0 .. n : m[k] \in Nat
  BY DEF Marks
<1> DEFINE G == {k \in 0 .. n : j <= k => m[j] <= m[k]}
<1>2. 0 \in G
  BY <1>1
<1>3. ASSUME NEW k \in 1 .. n, k - 1 \in G
      PROVE  k \in G
  <2>1. m[k] = m[k - 1] + (IF k \in places THEN 1 ELSE 0)
    BY DEF Marks
  <2>2. m[k] \in Nat /\ m[k - 1] \in Nat /\ m[j] \in Nat
    BY <1>1
  <2>3. j <= k - 1 => m[j] <= m[k - 1]
    BY <1>3
  <2>4. j <= k => m[j] <= m[k]
    BY <2>1, <2>2, <2>3
  <2> QED BY <2>4
<1> HIDE DEF G
<1>4. i - 1 \in G
  BY <1>2, <1>3, UpTo
<1>5. m[j] <= m[i - 1] /\ m[j] \in Nat /\ m[i - 1] \in Nat /\ m[i] \in Nat
  BY <1>1, <1>4 DEF G
<1>6. m[i] = m[i - 1] + (IF i \in places THEN 1 ELSE 0)
  BY DEF Marks
<1> QED BY <1>5, <1>6

\* The marks of the first places depend on these only.
LEMMA MarksAgree ==
  ASSUME NEW n \in Nat, NEW places, NEW m, Marks(m, n, places),
         NEW k \in 0 .. n, NEW others, NEW o, Marks(o, k, others),
         \A i \in 1 .. k : i \in others <=> i \in places
  PROVE  \A i \in 0 .. k : o[i] = m[i]
<1> DEFINE G == {i \in 0 .. k : o[i] = m[i]}
<1>1. 0 \in G
  BY DEF Marks
<1>2. ASSUME NEW i \in 1 .. k, i - 1 \in G
      PROVE  i \in G
  <2>1. o[i] = o[i - 1] + (IF i \in others THEN 1 ELSE 0)
    BY DEF Marks
  <2>2. m[i] = m[i - 1] + (IF i \in places THEN 1 ELSE 0)
    BY DEF Marks
  <2>3. o[i - 1] = m[i - 1]
    BY <1>2
  <2> QED BY <2>1, <2>2, <2>3
<1> HIDE DEF G
<1>3. \A i \in 0 .. k : i \in G
  BY <1>1, <1>2, UpTo
<1> QED BY <1>3 DEF G

\* At takes the elements at the chosen places, one for each mark.
LEMMA AtFacts ==
  ASSUME NEW S, NEW q \in Seq(S), NEW n \in Nat, n = Len(q), NEW places, NEW m, Marks(m, n, places)
  PROVE  /\ At(places, q) \in Seq(S) /\ Len(At(places, q)) = m[n]
         /\ \A x \in 1 .. m[n] : \E i \in 1 .. n : i \in places /\ m[i] = x /\ At(places, q)[x] = q[i]
<1> DEFINE Step(last, i) == IF i \in places THEN Append(last, q[i]) ELSE last
           Places(F, k) == F = [i \in 0 .. k |-> IF i = 0 THEN <<>>
                                            ELSE IF i \in places THEN Append(F[i - 1], q[i]) ELSE F[i - 1]]
<1>1. \A i \in 1 .. n : q[i] \in S
  OBVIOUS
<1>2. \E F : Places(F, n)
  <2> DEFINE G == {k \in 0 .. n : \E F : Places(F, k)}
  <2>1. 0 \in G
    <3>1. Places([i \in 0 .. 0 |-> <<>>], 0)
      OBVIOUS
    <3> HIDE DEF Places
    <3>2. 0 \in 0 .. n
      OBVIOUS
    <3> QED BY <3>1, <3>2
  <2>2. ASSUME NEW k \in 1 .. n, k - 1 \in G
        PROVE  k \in G
    <3>1. PICK F : Places(F, k - 1)
      BY <2>2
    <3> DEFINE next == Step(F[k - 1], k)
               H == [i \in 0 .. k |-> IF i < k THEN F[i] ELSE next]
    <3>2. next = IF k \in places THEN Append(F[k - 1], q[k]) ELSE F[k - 1]
      OBVIOUS
    <3> HIDE DEF next
    <3>3. (\A i \in 0 .. k - 1 : H[i] = F[i]) /\ H[k] = next
      OBVIOUS
    <3>4. ASSUME NEW i \in 0 .. k
          PROVE  H[i] = IF i = 0 THEN <<>> ELSE IF i \in places THEN Append(H[i - 1], q[i]) ELSE H[i - 1]
      <4>1. i # 0 => i - 1 \in 0 .. k - 1
        OBVIOUS
      <4>2. CASE i = k
        <5>1. i # 0 /\ H[i - 1] = F[k - 1] /\ H[i] = next
          BY <3>3, <4>1, <4>2
        <5> QED BY <3>2, <4>2, <5>1
      <4>3. CASE i < k
        <5>1. i \in 0 .. k - 1
          BY <4>3
        <5>2. F[i] = IF i = 0 THEN <<>> ELSE IF i \in places THEN Append(F[i - 1], q[i]) ELSE F[i - 1]
          BY <3>1, <5>1
        <5>3. H[i] = F[i] /\ (i # 0 => H[i - 1] = F[i - 1])
          BY <3>3, <4>1, <5>1
        <5> QED BY <5>2, <5>3
      <4> QED BY <4>2, <4>3
    <3>5. H = [i \in 0 .. k |-> H[i]]
      OBVIOUS
    <3> HIDE DEF H
    <3>6. Places(H, k)
      BY <3>4, <3>5
    <3> QED BY <3>6
  <2> HIDE DEF G
  <2>3. n \in G
    <3>1. n \in 0 .. n
      OBVIOUS
    <3> QED BY <2>1, <2>2, <3>1, UpTo
  <2> QED BY <2>3 DEF G
<1>3. PICK F : F = (CHOOSE H : Places(H, n)) /\ Places(F, n)
  BY <1>2
<1>4. At(places, q) = F[n]
  BY <1>3 DEF At
<1>5. F[0] = <<>> /\ \A i \in 1 .. n : F[i] = Step(F[i - 1], i)
  <2>1. ASSUME NEW i \in 0 .. n
        PROVE  F[i] = IF i = 0 THEN <<>> ELSE IF i \in places THEN Append(F[i - 1], q[i]) ELSE F[i - 1]
    BY <1>3
  <2>2. 0 \in 0 .. n /\ \A i \in 1 .. n : i \in 0 .. n /\ i # 0
    OBVIOUS
  <2> QED BY <2>1, <2>2
<1> DEFINE Good(k) ==
      /\ F[k] \in Seq(S) /\ Len(F[k]) = m[k]
      /\ \A x \in 1 .. m[k] : \E i \in 1 .. k : i \in places /\ m[i] = x /\ F[k][x] = q[i]
    G == {k \in 0 .. n : Good(k)}
<1>6. 0 \in G
  <2>1. F[0] = <<>> /\ m[0] = 0
    BY <1>5 DEF Marks
  <2>2. Good(0)
    BY <2>1
  <2> QED BY <2>2
<1>7. ASSUME NEW k \in 1 .. n, k - 1 \in G
      PROVE  k \in G
  <2>1. Good(k - 1)
    BY <1>7
  <2>2. m[k] = m[k - 1] + (IF k \in places THEN 1 ELSE 0) /\ m[k - 1] \in Nat
    BY DEF Marks
  <2>3. CASE k \notin places
    <3>1. F[k] = F[k - 1] /\ m[k] = m[k - 1]
      BY <1>5, <2>2, <2>3
    <3>2. \A i \in 1 .. k - 1 : i \in 1 .. k
      OBVIOUS
    <3>3. Good(k)
      BY <2>1, <3>1, <3>2
    <3> QED BY <3>3
  <2>4. CASE k \in places
    <3>1. F[k] = Append(F[k - 1], q[k]) /\ m[k] = m[k - 1] + 1
      BY <1>5, <2>2, <2>4
    <3>2. F[k - 1] \in Seq(S) /\ Len(F[k - 1]) = m[k - 1] /\ q[k] \in S
      BY <1>1, <2>1
    <3>3. /\ F[k] \in Seq(S) /\ Len(F[k]) = m[k - 1] + 1
          /\ \A x \in 1 .. m[k - 1] : F[k][x] = F[k - 1][x]
          /\ F[k][m[k - 1] + 1] = q[k]
      <4> DEFINE a == F[k - 1]
                 b == q[k]
                 t == Append(a, b)
      <4>1. a \in Seq(S) /\ Len(a) = m[k - 1] /\ b \in S /\ F[k] = t
        BY <3>1, <3>2
      <4> HIDE DEF a, b
      <4>2. t \in Seq(S) /\ Len(t) = Len(a) + 1 /\ (\A x \in 1 .. Len(a) : t[x] = a[x]) /\ t[Len(a) + 1] = b
        BY <4>1, AppendProperties
      <4> HIDE DEF t
      <4> QED BY <4>1, <4>2 DEF a, b
    <3>4. ASSUME NEW x \in 1 .. m[k] PROVE \E i \in 1 .. k : i \in places /\ m[i] = x /\ F[k][x] = q[i]
      <4>1. CASE x = m[k]
        BY <2>4, <3>1, <3>3, <4>1
      <4>2. CASE x # m[k]
        <5>1. x \in 1 .. m[k - 1]
          BY <2>2, <3>1, <4>2
        <5>2. PICK i \in 1 .. k - 1 : i \in places /\ m[i] = x /\ F[k - 1][x] = q[i]
          BY <2>1, <5>1
        <5> QED BY <3>3, <5>1, <5>2
      <4> QED BY <4>1, <4>2
    <3>5. Good(k)
      BY <3>1, <3>3, <3>4
    <3> QED BY <3>5
  <2> QED BY <2>3, <2>4
<1> HIDE DEF G
<1>8. n \in G
  <2>1. n \in 0 .. n
    OBVIOUS
  <2> QED BY <1>6, <1>7, <2>1, UpTo
<1>9. Good(n)
  BY <1>8 DEF G
<1> HIDE DEF Places
<1> QED BY <1>4, <1>9

-----------------------------------------------------------------------------
(* Sequences of anything.                                                  *)

LEMMA SequenceFacts ==
  ASSUME NEW q, IsSequence(q)
  PROVE  Len(q) \in Nat /\ DOMAIN q = 1 .. Len(q) /\ (q = <<>> <=> Len(q) = 0)
BY DEF IsSequence

LEMMA FunctionIsSequence ==
  ASSUME NEW n \in Nat, NEW q, q = [i \in 1 .. n |-> q[i]]
  PROVE  IsSequence(q) /\ Len(q) = n /\ DOMAIN q = 1 .. n
<1> DEFINE S == {q[i] : i \in 1 .. n}
<1>1. DOMAIN q = 1 .. n
  OBVIOUS
<1>2. q \in [1 .. n -> S]
  OBVIOUS
<1>3. q \in Seq(S) /\ Len(q) = n
  BY <1>2
<1> QED BY <1>1, <1>3 DEF IsSequence

LEMMA SeqIsSequence ==
  ASSUME NEW S, NEW q \in Seq(S)
  PROVE  IsSequence(q)
<1>1. Len(q) \in Nat /\ q = [i \in 1 .. Len(q) |-> q[i]]
  OBVIOUS
<1> QED BY <1>1, FunctionIsSequence

LEMMA AppendSequence ==
  ASSUME NEW q, IsSequence(q), NEW x
  PROVE  /\ IsSequence(Append(q, x)) /\ Len(Append(q, x)) = Len(q) + 1
         /\ \A i \in 1 .. Len(q) : Append(q, x)[i] = q[i]
         /\ Append(q, x)[Len(q) + 1] = x
<1> DEFINE S == {q[i] : i \in DOMAIN q} \cup {x}
<1>1. q \in Seq({q[i] : i \in DOMAIN q})
  BY DEF IsSequence
<1>2. q \in Seq(S) /\ x \in S
  BY <1>1, SeqMonotonic
<1> HIDE DEF S
<1> DEFINE t == Append(q, x)
<1>3. t \in Seq(S) /\ Len(t) = Len(q) + 1 /\ (\A i \in 1 .. Len(q) : t[i] = q[i]) /\ t[Len(q) + 1] = x
  BY <1>2, AppendProperties
<1>4. IsSequence(t)
  BY <1>3, SeqIsSequence
<1> QED BY <1>3, <1>4

LEMMA ConcatSequence ==
  ASSUME NEW q, IsSequence(q), NEW r, IsSequence(r)
  PROVE  /\ IsSequence(q \o r) /\ Len(q \o r) = Len(q) + Len(r)
         /\ \A i \in 1 .. Len(q) : (q \o r)[i] = q[i]
         /\ \A i \in 1 .. Len(r) : (q \o r)[Len(q) + i] = r[i]
<1> DEFINE A == {q[i] : i \in DOMAIN q}
           B == {r[i] : i \in DOMAIN r}
           S == A \cup B
           a == Len(q)
           b == Len(r)
           t == q \o r
<1>1. q \in Seq(A) /\ r \in Seq(B)
  BY DEF IsSequence
<1>2. q \in Seq(S) /\ r \in Seq(S)
  BY <1>1, SeqMonotonic
<1> HIDE DEF S
<1>3. a \in Nat /\ b \in Nat
  BY SequenceFacts
<1>4. /\ t \in Seq(S) /\ Len(t) = a + b
      /\ \A i \in 1 .. a + b : t[i] = IF i <= a THEN q[i] ELSE r[i - a]
  BY <1>2, ConcatProperties
<1>5. IsSequence(t)
  BY <1>4, SeqIsSequence
<1> HIDE DEF t, a, b
<1>6. \A i \in 1 .. a : t[i] = q[i]
  BY <1>3, <1>4
<1>7. ASSUME NEW i \in 1 .. b PROVE t[a + i] = r[i]
  <2>1. a + i \in 1 .. a + b /\ ~(a + i <= a) /\ (a + i) - a = i
    BY <1>3
  <2> QED BY <1>4, <2>1
<1> QED BY <1>4, <1>5, <1>6, <1>7 DEF t, a, b

\* What is left of a sequence after its first k elements, and these.
LEMMA CutSequence ==
  ASSUME NEW q, IsSequence(q), NEW n \in Nat, n = Len(q), NEW k \in 0 .. n
  PROVE  /\ IsSequence(SubSeq(q, 1, k)) /\ Len(SubSeq(q, 1, k)) = k
         /\ \A i \in 1 .. k : SubSeq(q, 1, k)[i] = q[i]
         /\ IsSequence(SubSeq(q, k + 1, n)) /\ Len(SubSeq(q, k + 1, n)) = n - k
         /\ \A i \in 1 .. n - k : SubSeq(q, k + 1, n)[i] = q[k + i]
<1> DEFINE S == {q[i] : i \in DOMAIN q}
           a == SubSeq(q, 1, k)
           b == SubSeq(q, k + 1, n)
<1>1. \A i \in 1 .. n : q[i] \in S
  BY DEF IsSequence
<1> HIDE DEF S
<1>2. IsSequence(a) /\ Len(a) = k /\ \A i \in 1 .. k : a[i] = q[i]
  <2>1. \A i \in 1 .. k : q[i] \in S
    BY <1>1
  <2>2. /\ a \in Seq(S) /\ Len(a) = IF 1 <= k THEN k - 1 + 1 ELSE 0
        /\ \A j \in 1 .. k - 1 + 1 : a[j] = q[1 + j - 1]
    BY <2>1, SubSeqProperties
  <2> HIDE DEF a
  <2> QED BY <2>2, SeqIsSequence
<1>3. IsSequence(b) /\ Len(b) = n - k /\ \A i \in 1 .. n - k : b[i] = q[k + i]
  <2>1. \A i \in k + 1 .. n : q[i] \in S
    BY <1>1
  <2>2. /\ b \in Seq(S) /\ Len(b) = IF k + 1 <= n THEN n - (k + 1) + 1 ELSE 0
        /\ \A j \in 1 .. n - (k + 1) + 1 : b[j] = q[(k + 1) + j - 1]
    BY <2>1, SubSeqProperties
  <2> HIDE DEF b
  <2>3. ASSUME NEW j \in 1 .. n - k PROVE b[j] = q[k + j]
    <3>1. j \in 1 .. n - (k + 1) + 1 /\ (k + 1) + j - 1 = k + j
      OBVIOUS
    <3> QED BY <2>2, <3>1
  <2> QED BY <2>2, <2>3, SeqIsSequence
<1> QED BY <1>2, <1>3 DEF a, b

LEMMA EmptySequence == IsSequence(<<>>) /\ Len(<<>>) = 0
<1>1. <<>> = [i \in 1 .. 0 |-> <<>>[i]]
  OBVIOUS
<1> QED BY <1>1, FunctionIsSequence

LEMMA SequencesEqual ==
  ASSUME NEW q, IsSequence(q), NEW r, IsSequence(r), Len(q) = Len(r), \A i \in 1 .. Len(q) : q[i] = r[i]
  PROVE  q = r
<1> DEFINE S == {q[i] : i \in DOMAIN q} \cup {r[i] : i \in DOMAIN r}
<1>1. q \in Seq({q[i] : i \in DOMAIN q}) /\ r \in Seq({r[i] : i \in DOMAIN r})
  BY DEF IsSequence
<1>2. q \in Seq(S) /\ r \in Seq(S)
  BY <1>1, SeqMonotonic
<1> HIDE DEF S
<1> QED BY <1>2, SeqEqual

-----------------------------------------------------------------------------
(* What the browser does with a page: it opens connections, asks for pages *)
(* directly, and leaves the connections it has as they are.                *)

Asks(requests) == IsSequence(requests) /\ \A i \in 1 .. Len(requests) : requests[i].www \in Registered

StateFields == {"browser", "conns", "wire", "made"}

State(s) == DOMAIN s = StateFields /\ IsSequence(s.conns)

\* From s to t there are only new connections and new direct requests.
Extends(s, t) ==
  /\ State(t) /\ Len(s.conns) <= Len(t.conns)
  /\ \A id \in 1 .. Len(s.conns) : t.conns[id] = s.conns[id]
  /\ \A id \in 1 .. Len(t.conns) : id > Len(s.conns) =>
       \E requests : t.conns[id] = Connection(requests) /\ requests # <<>> /\ Asks(requests)
  /\ \A m \in t.wire : m \in s.wire \/ (m.to = "server" /\ m.m.www \in Registered)

LEMMA ExtendsItself == ASSUME NEW s, State(s) PROVE Extends(s, s)
BY SequenceFacts DEF Extends, State

LEMMA ExtendsOn ==
  ASSUME NEW s, NEW t, NEW u, State(s), Extends(s, t), Extends(t, u)
  PROVE  Extends(s, u)
<1>1. Len(s.conns) \in Nat /\ Len(t.conns) \in Nat /\ Len(u.conns) \in Nat
  BY SequenceFacts DEF Extends, State
<1>2. \A id \in 1 .. Len(u.conns) : id > Len(s.conns) =>
       \E requests : u.conns[id] = Connection(requests) /\ requests # <<>> /\ Asks(requests)
  <2> SUFFICES ASSUME NEW id \in 1 .. Len(u.conns), id > Len(s.conns)
               PROVE  \E requests : u.conns[id] = Connection(requests) /\ requests # <<>> /\ Asks(requests)
    OBVIOUS
  <2>1. CASE id > Len(t.conns)
    BY <2>1 DEF Extends
  <2>2. CASE id <= Len(t.conns)
    <3>1. id \in 1 .. Len(t.conns)
      BY <1>1, <2>2
    <3>2. u.conns[id] = t.conns[id]
      BY <3>1 DEF Extends
    <3> QED BY <3>1, <3>2 DEF Extends
  <2> QED BY <1>1, <2>1, <2>2
<1>3. \A id \in 1 .. Len(s.conns) : u.conns[id] = s.conns[id]
  <2> TAKE id \in 1 .. Len(s.conns)
  <2>1. id \in 1 .. Len(t.conns)
    BY <1>1 DEF Extends
  <2> QED BY <2>1 DEF Extends
<1>4. Len(s.conns) <= Len(u.conns)
  BY <1>1 DEF Extends
<1> QED BY <1>2, <1>3, <1>4 DEF Extends

\* Requests to a site.
LEMMA SendExtends ==
  ASSUME NEW s, State(s), NEW www, NEW requests, IsSequence(requests),
         \A i \in 1 .. Len(requests) : requests[i].www = www
  PROVE  Extends(s, SendRequestsToServer(s, www, requests))
<1> DEFINE t == SendRequestsToServer(s, www, requests)
<1>1. CASE ~Known(www) \/ requests = <<>>
  BY <1>1, ExtendsItself DEF SendRequestsToServer
<1>2. CASE Known(www) /\ requests # <<>> /\ s.browser.direct
  <2>1. t = [s EXCEPT !.wire = @ \cup {SendDirectToModule("server", requests[i]) : i \in DOMAIN requests}]
    BY <1>2 DEF SendRequestsToServer, SendsDirect
  <2>2. /\ DOMAIN t = StateFields /\ t.conns = s.conns
        /\ t.wire = s.wire \cup {SendDirectToModule("server", requests[i]) : i \in DOMAIN requests}
    BY <2>1 DEF State, StateFields
  <2>3. www \in Registered /\ DOMAIN requests = 1 .. Len(requests)
    BY <1>2, SequenceFacts DEF Known
  <2> HIDE DEF t
  <2>4. \A m \in t.wire : m \in s.wire \/ (m.to = "server" /\ m.m.www \in Registered)
    BY <2>2, <2>3 DEF SendDirectToModule
  <2>5. Len(s.conns) \in Nat
    BY SequenceFacts DEF State
  <2>6. Extends(s, t)
    BY <2>2, <2>4, <2>5 DEF Extends, State
  <2> QED BY <2>6 DEF t
<1>3. CASE Known(www) /\ requests # <<>> /\ ~s.browser.direct
  <2> DEFINE conns1 == Append(s.conns, Connection(requests))
  <2>1. t = [s EXCEPT !.conns = conns1]
    BY <1>3 DEF SendRequestsToServer, SubmitToSocket
  <2>2. IsSequence(s.conns) /\ Len(s.conns) \in Nat
    BY SequenceFacts DEF State
  <2>3. /\ IsSequence(conns1) /\ Len(conns1) = Len(s.conns) + 1
        /\ \A id \in 1 .. Len(s.conns) : conns1[id] = s.conns[id]
        /\ conns1[Len(s.conns) + 1] = Connection(requests)
    BY <2>2, AppendSequence
  <2>4. DOMAIN t = StateFields /\ t.conns = conns1 /\ t.wire = s.wire
    BY <2>1 DEF State, StateFields
  <2>5. Asks(requests) /\ requests # <<>>
    BY <1>3 DEF Asks, Known
  <2> HIDE DEF t, conns1
  <2>6. \A id \in 1 .. Len(t.conns) : id > Len(s.conns) => id = Len(s.conns) + 1
    BY <2>2, <2>3, <2>4
  <2>7. \A id \in 1 .. Len(t.conns) : id > Len(s.conns) =>
          \E r : t.conns[id] = Connection(r) /\ r # <<>> /\ Asks(r)
    BY <2>3, <2>4, <2>5, <2>6
  <2>8. Extends(s, t)
    BY <2>2, <2>3, <2>4, <2>7 DEF Extends, State
  <2> QED BY <2>8 DEF t
<1> QED BY <1>1, <1>2, <1>3

\* The references of a page that are for one site.
LEMMA QueueAsks ==
  ASSUME NEW requests, IsSequence(requests), NEW places, NEW to,
         \A i \in places : i \in 1 .. Len(requests) => requests[i].www = to
  PROVE  /\ IsSequence(At(places, requests))
         /\ \A x \in 1 .. Len(At(places, requests)) : At(places, requests)[x].www = to
<1> DEFINE S == {requests[i] : i \in DOMAIN requests}
           n == Len(requests)
           q == At(places, requests)
<1>1. requests \in Seq(S) /\ n \in Nat
  BY SequenceFacts DEF IsSequence
<1> HIDE DEF S
<1>2. PICK m : Marks(m, n, places)
  BY <1>1, MarksExist
<1>3. /\ q \in Seq(S) /\ Len(q) = m[n]
      /\ \A x \in 1 .. m[n] : \E i \in 1 .. n : i \in places /\ m[i] = x /\ q[x] = requests[i]
  BY <1>1, <1>2, AtFacts
<1>4. IsSequence(q)
  BY <1>3, SeqIsSequence
<1>5. \A x \in 1 .. Len(q) : q[x].www = to
  <2> HIDE DEF q
  <2> TAKE x \in 1 .. Len(q)
  <2>1. PICK i \in 1 .. n : i \in places /\ m[i] = x /\ q[x] = requests[i]
    BY <1>3
  <2> QED BY <2>1
<1> QED BY <1>4, <1>5

LEMMA RequestsSequence ==
  ASSUME NEW s, NEW www, NEW body, IsSequence(body)
  PROVE  IsSequence(RequestsOf(s, www, body)) /\ Len(RequestsOf(s, www, body)) = Len(body)
<1> DEFINE requests == RequestsOf(s, www, body)
           n == Len(body)
<1>1. n \in Nat /\ DOMAIN body = 1 .. n
  BY SequenceFacts
<1>2. requests = [i \in 1 .. n |-> requests[i]]
  BY <1>1 DEF RequestsOf
<1> HIDE DEF requests
<1> QED BY <1>1, <1>2, FunctionIsSequence DEF requests

LEMMA ProcessExtends ==
  ASSUME NEW s, State(s), NEW www, NEW body, IsSequence(body)
  PROVE  Extends(s, ProcessBody(s, www, body))
<1> DEFINE requests == RequestsOf(s, www, body)
           Queue(to) == At({i \in DOMAIN body : ~body[i].delayed /\ requests[i].www = to}, requests)
           base == [s EXCEPT !.browser.requests = @ + Len(body),
                             !.browser.delayed = @ \cup {requests[j] : j \in {j \in DOMAIN body : body[j].delayed}}]
           Step(last, i) == SendRequestsToServer(last, Sites[i], Queue(Sites[i]))
           Asked(F, k) == F = [i \in 0 .. k |-> IF i = 0 THEN base
                                           ELSE SendRequestsToServer(F[i - 1], Sites[i], Queue(Sites[i]))]
           n == Len(Sites)
<1>1. n \in Nat
  BY ControllerAssumption
<1>2. IsSequence(requests)
  BY RequestsSequence
<1>3. State(base) /\ Extends(s, base)
  <2>1. DOMAIN base = StateFields /\ base.conns = s.conns /\ base.wire = s.wire
    BY DEF State, StateFields
  <2> HIDE DEF base
  <2>2. Len(s.conns) \in Nat
    BY SequenceFacts DEF State
  <2> QED BY <2>1, <2>2 DEF Extends, State
<1>4. \A to : IsSequence(Queue(to)) /\ \A x \in 1 .. Len(Queue(to)) : Queue(to)[x].www = to
  <2> TAKE to
  <2> DEFINE places == {i \in DOMAIN body : ~body[i].delayed /\ requests[i].www = to}
  <2>1. \A i \in places : i \in 1 .. Len(requests) => requests[i].www = to
    OBVIOUS
  <2> HIDE DEF places, requests
  <2>2. /\ IsSequence(At(places, requests))
        /\ \A x \in 1 .. Len(At(places, requests)) : At(places, requests)[x].www = to
    BY <1>2, <2>1, QueueAsks
  <2> QED BY <2>2 DEF places
<1> HIDE DEF base, requests, Queue, n
<1>5. \E F : Asked(F, n)
  <2> DEFINE G == {k \in 0 .. n : \E F : Asked(F, k)}
  <2>1. 0 \in G
    <3>1. Asked([i \in 0 .. 0 |-> base], 0)
      OBVIOUS
    <3> HIDE DEF Asked
    <3>2. 0 \in 0 .. n
      BY <1>1
    <3> QED BY <3>1, <3>2
  <2>2. ASSUME NEW k \in 1 .. n, k - 1 \in G
        PROVE  k \in G
    <3>1. PICK F : Asked(F, k - 1)
      BY <2>2
    <3> DEFINE next == Step(F[k - 1], k)
               H == [i \in 0 .. k |-> IF i < k THEN F[i] ELSE next]
    <3>2. next = Step(F[k - 1], k)
      OBVIOUS
    <3> HIDE DEF next
    <3>3. (\A i \in 0 .. k - 1 : H[i] = F[i]) /\ H[k] = next
      BY <1>1
    <3>4. ASSUME NEW i \in 0 .. k
          PROVE  H[i] = IF i = 0 THEN base ELSE Step(H[i - 1], i)
      <4>1. i # 0 => i - 1 \in 0 .. k - 1
        BY <1>1
      <4>2. CASE i = k
        <5>1. i # 0 /\ H[i - 1] = F[k - 1] /\ H[i] = next
          BY <1>1, <3>3, <4>1, <4>2
        <5> QED BY <3>2, <4>2, <5>1
      <4>3. CASE i < k
        <5>1. i \in 0 .. k - 1
          BY <1>1, <4>3
        <5>2. F[i] = IF i = 0 THEN base ELSE Step(F[i - 1], i)
          BY <3>1, <5>1
        <5>3. H[i] = F[i] /\ (i # 0 => H[i - 1] = F[i - 1])
          BY <3>3, <4>1, <5>1
        <5> QED BY <5>2, <5>3
      <4> QED BY <1>1, <4>2, <4>3
    <3>5. H = [i \in 0 .. k |-> H[i]]
      OBVIOUS
    <3> HIDE DEF H
    <3>6. Asked(H, k)
      BY <3>4, <3>5
    <3> HIDE DEF Asked
    <3>7. k \in 0 .. n
      BY <1>1
    <3> QED BY <3>6, <3>7
  <2> HIDE DEF G
  <2>3. n \in G
    <3>1. n \in 0 .. n
      BY <1>1
    <3> QED BY <1>1, <2>1, <2>2, <3>1, UpTo
  <2> QED BY <2>3 DEF G
<1>6. PICK F : F = (CHOOSE H : Asked(H, n)) /\ Asked(F, n)
  BY <1>5
<1>7. ProcessBody(s, www, body) = F[n]
  BY <1>6 DEF ProcessBody, base, requests, Queue, n
<1>8. F[0] = base /\ \A i \in 1 .. n : F[i] = Step(F[i - 1], i)
  <2>1. ASSUME NEW i \in 0 .. n PROVE F[i] = IF i = 0 THEN base ELSE Step(F[i - 1], i)
    BY <1>6
  <2>2. 0 \in 0 .. n /\ \A i \in 1 .. n : i \in 0 .. n /\ i # 0
    BY <1>1
  <2> QED BY <2>1, <2>2
<1> DEFINE G == {k \in 0 .. n : Extends(s, F[k])}
<1>9. 0 \in G
  BY <1>1, <1>3, <1>8
<1>10. ASSUME NEW k \in 1 .. n, k - 1 \in G
       PROVE  k \in G
  <2>1. Extends(s, F[k - 1]) /\ State(F[k - 1])
    BY <1>10 DEF Extends
  <2>2. F[k] = SendRequestsToServer(F[k - 1], Sites[k], Queue(Sites[k]))
    BY <1>8
  <2>3. Extends(F[k - 1], F[k])
    BY <1>4, <2>1, <2>2, SendExtends
  <2>4. Extends(s, F[k])
    BY <2>1, <2>3, ExtendsOn
  <2>5. k \in 0 .. n
    BY <1>1
  <2> QED BY <2>4, <2>5
<1> HIDE DEF G
<1>11. n \in G
  <2>1. n \in 0 .. n
    BY <1>1
  <2> QED BY <1>1, <1>9, <1>10, <2>1, UpTo
<1> QED BY <1>7, <1>11 DEF G

LEMMA MessageExtends ==
  ASSUME NEW s, State(s), NEW www, NEW reply, IsSequence(reply.body)
  PROVE  Extends(s, HandleDataMessage(s, www, reply))
BY ProcessExtends, ExtendsItself DEF HandleDataMessage

LEMMA AllExtends ==
  ASSUME NEW s, State(s), NEW www, NEW replies, IsSequence(replies),
         \A i \in 1 .. Len(replies) : IsSequence(replies[i].body)
  PROVE  /\ Extends(s, HandleAll(s, www, replies)[1])
         /\ HandleAll(s, www, replies)[2] = [i \in 1 .. Len(replies) |-> replies[i].n]
<1> DEFINE n == Len(replies)
           Step(last, i) == HandleDataMessage(last, www, replies[i])
           Handled(F, k) == F = [i \in 0 .. k |-> IF i = 0 THEN s ELSE HandleDataMessage(F[i - 1], www, replies[i])]
<1>1. n \in Nat /\ DOMAIN replies = 1 .. n
  BY SequenceFacts
<1>2. \A i \in 1 .. n : IsSequence(replies[i].body)
  OBVIOUS
<1> HIDE DEF n
<1>5. \E F : Handled(F, n)
  <2> DEFINE G == {k \in 0 .. n : \E F : Handled(F, k)}
  <2>1. 0 \in G
    <3>1. Handled([i \in 0 .. 0 |-> s], 0)
      OBVIOUS
    <3> HIDE DEF Handled
    <3>2. 0 \in 0 .. n
      BY <1>1
    <3> QED BY <3>1, <3>2
  <2>2. ASSUME NEW k \in 1 .. n, k - 1 \in G
        PROVE  k \in G
    <3>1. PICK F : Handled(F, k - 1)
      BY <2>2
    <3> DEFINE next == Step(F[k - 1], k)
               H == [i \in 0 .. k |-> IF i < k THEN F[i] ELSE next]
    <3>2. next = Step(F[k - 1], k)
      OBVIOUS
    <3> HIDE DEF next
    <3>3. (\A i \in 0 .. k - 1 : H[i] = F[i]) /\ H[k] = next
      BY <1>1
    <3>4. ASSUME NEW i \in 0 .. k
          PROVE  H[i] = IF i = 0 THEN s ELSE Step(H[i - 1], i)
      <4>1. i # 0 => i - 1 \in 0 .. k - 1
        BY <1>1
      <4>2. CASE i = k
        <5>1. i # 0 /\ H[i - 1] = F[k - 1] /\ H[i] = next
          BY <1>1, <3>3, <4>1, <4>2
        <5> QED BY <3>2, <4>2, <5>1
      <4>3. CASE i < k
        <5>1. i \in 0 .. k - 1
          BY <1>1, <4>3
        <5>2. F[i] = IF i = 0 THEN s ELSE Step(F[i - 1], i)
          BY <3>1, <5>1
        <5>3. H[i] = F[i] /\ (i # 0 => H[i - 1] = F[i - 1])
          BY <3>3, <4>1, <5>1
        <5> QED BY <5>2, <5>3
      <4> QED BY <1>1, <4>2, <4>3
    <3>5. H = [i \in 0 .. k |-> H[i]]
      OBVIOUS
    <3> HIDE DEF H
    <3>6. Handled(H, k)
      BY <3>4, <3>5
    <3> HIDE DEF Handled
    <3>7. k \in 0 .. n
      BY <1>1
    <3> QED BY <3>6, <3>7
  <2> HIDE DEF G
  <2>3. n \in G
    <3>1. n \in 0 .. n
      BY <1>1
    <3> QED BY <1>1, <2>1, <2>2, <3>1, UpTo
  <2> QED BY <2>3 DEF G
<1>6. PICK F : F = (CHOOSE H : Handled(H, n)) /\ Handled(F, n)
  BY <1>5
<1>7. HandleAll(s, www, replies) = <<F[n], [i \in DOMAIN replies |-> replies[i].n]>>
  BY <1>6 DEF HandleAll, n
<1>8. F[0] = s /\ \A i \in 1 .. n : F[i] = Step(F[i - 1], i)
  <2>1. ASSUME NEW i \in 0 .. n PROVE F[i] = IF i = 0 THEN s ELSE Step(F[i - 1], i)
    BY <1>6
  <2>2. 0 \in 0 .. n /\ \A i \in 1 .. n : i \in 0 .. n /\ i # 0
    BY <1>1
  <2> QED BY <2>1, <2>2
<1> DEFINE G == {k \in 0 .. n : Extends(s, F[k])}
<1>9. 0 \in G
  BY <1>1, <1>8, ExtendsItself
<1>10. ASSUME NEW k \in 1 .. n, k - 1 \in G
       PROVE  k \in G
  <2>1. Extends(s, F[k - 1]) /\ State(F[k - 1])
    BY <1>10 DEF Extends
  <2>2. F[k] = HandleDataMessage(F[k - 1], www, replies[k])
    BY <1>8
  <2>3. Extends(F[k - 1], F[k])
    BY <1>2, <2>1, <2>2, MessageExtends
  <2>4. Extends(s, F[k])
    BY <2>1, <2>3, ExtendsOn
  <2>5. k \in 0 .. n
    BY <1>1
  <2> QED BY <2>4, <2>5
<1> HIDE DEF G
<1>11. n \in G
  <2>1. n \in 0 .. n
    BY <1>1
  <2> QED BY <1>1, <1>9, <1>10, <2>1, UpTo
<1> HIDE DEF Handled
<1> QED BY <1>1, <1>7, <1>11 DEF G, n

-----------------------------------------------------------------------------
(* Replies of the servers.                                                 *)

LEMMA Largest ==
  ASSUME NEW n \in Nat, NEW S \in SUBSET (1 .. n), S # {}
  PROVE  \E x \in S : \A y \in S : y <= x
<1> DEFINE D == {n - y : y \in S}
<1>1. D \in SUBSET Nat /\ D # {}
  <2>1. \A y \in S : y \in 1 .. n
    OBVIOUS
  <2>2. \A y \in S : n - y \in Nat
    BY <2>1
  <2>3. PICK y \in S : TRUE
    OBVIOUS
  <2>4. n - y \in D
    OBVIOUS
  <2> QED BY <2>2, <2>4
<1>2. PICK d \in D : \A e \in D : d <= e
  <2> HIDE DEF D
  <2> QED BY <1>1, LeastNatural
<1>3. PICK x \in S : d = n - x
  OBVIOUS
<1>4. ASSUME NEW y \in S PROVE y <= x
  <2>1. n - y \in D
    OBVIOUS
  <2>2. n - x <= n - y
    BY <1>2, <1>3, <2>1
  <2>3. x \in 1 .. n /\ y \in 1 .. n
    OBVIOUS
  <2> QED BY <2>2, <2>3
<1> QED BY <1>4

\* A page of a site definition has the body of one of its lines.
LEMMA PageBody ==
  ASSUME NEW www \in Registered, NEW page \in DOMAIN Site[www].htmlPages
  PROVE  IsSequence(Site[www].htmlPages[page])
<1> DEFINE lines == Content[www].definition
           In == {i \in DOMAIN lines : lines[i].section = "HTML"}
           Key(i) == IF lines[i].key = "" THEN "root" ELSE lines[i].key
           P(i, key) == Key(i) = key /\ \A j \in In : Key(j) = key => j <= i
           Last(key) == CHOOSE i \in In : P(i, key)
           pages == [key \in {Key(i) : i \in In} |-> lines[Last(key)].body]
<1>1. Site[www].htmlPages = pages
  BY DEF Site, ReadSiteDefinition
<1>2. /\ Len(lines) \in Nat /\ DOMAIN lines = 1 .. Len(lines)
      /\ \A i \in 1 .. Len(lines) : IsSequence(lines[i].body)
  <2>1. IsSequence(lines) /\ \A i \in DOMAIN lines : IsSequence(lines[i].body)
    BY ContentAssumption
  <2> QED BY <2>1, SequenceFacts
<1> HIDE DEF lines
<1>3. DOMAIN pages = {Key(i) : i \in In}
  OBVIOUS
<1>4. \E i \in In : P(i, page)
  <2> DEFINE S == {i \in In : Key(i) = page}
  <2>1. S \in SUBSET (1 .. Len(lines)) /\ S # {}
    <3>1. PICK i \in In : page = Key(i)
      BY <1>1, <1>3
    <3>2. i \in S
      BY <3>1
    <3>3. \A j \in S : j \in 1 .. Len(lines)
      BY <1>2
    <3> HIDE DEF S
    <3> QED BY <3>2, <3>3
  <2>2. PICK x \in S : \A y \in S : y <= x
    <3> HIDE DEF S
    <3> QED BY <1>2, <2>1, Largest
  <2> QED BY <2>2
<1>5. Last(page) \in In
  <2> HIDE DEF P, In
  <2> QED BY <1>4
<1>6. pages[page] = lines[Last(page)].body
  BY <1>1, <1>3
<1> HIDE DEF Last
<1> QED BY <1>1, <1>2, <1>5, <1>6

LEMMA GeneratedBody ==
  ASSUME NEW www \in Registered, NEW body \in Generated(Content[www])
  PROVE  IsSequence(body)
<1>1. PICK d \in Nat \X Nat : body = GenerateBody(d[1], d[2])
  BY ContentAssumption DEF Generated
<1> DEFINE images == Copies(d[1], Ref("own", "img", FALSE, FALSE))
           texts == Copies(d[2], Ref("own", "txt", FALSE, FALSE))
<1>2. images = [i \in 1 .. d[1] |-> images[i]] /\ texts = [i \in 1 .. d[2] |-> texts[i]]
  BY DEF Copies
<1>3. body = images \o texts
  BY <1>1 DEF GenerateBody
<1> HIDE DEF images, texts
<1>4. d[1] \in Nat /\ d[2] \in Nat
  OBVIOUS
<1>5. IsSequence(images) /\ IsSequence(texts)
  BY <1>2, <1>4, FunctionIsSequence
<1> QED BY <1>3, <1>5, ConcatSequence

LEMMA ReplyFacts ==
  ASSUME NEW request, request.www \in Registered, NEW www \in Registered, NEW body \in Generated(Content[www])
  PROVE  /\ HandleReceivedMessage(request, body).n = request.n
         /\ IsSequence(HandleReceivedMessage(request, body).body)
<1>1. IsSequence(body)
  BY GeneratedBody
<1>2. IsSequence(<<>>)
  BY EmptySequence
<1>3. ErrorReply(request).n = request.n /\ IsSequence(ErrorReply(request).body)
  BY <1>2 DEF ErrorReply
<1>4. Document(request, body).n = request.n /\ IsSequence(Document(request, body).body)
  BY <1>1 DEF Document
<1>5. Resource(request).n = request.n /\ IsSequence(Resource(request).body)
  BY <1>2 DEF Resource
<1>6. \A page \in DOMAIN Site[request.www].htmlPages :
        LET reply == Document(request, Site[request.www].htmlPages[page])
        IN reply.n = request.n /\ IsSequence(reply.body)
  BY PageBody DEF Document
<1> HIDE DEF Document, ErrorReply, Resource
<1> QED BY <1>3, <1>4, <1>5, <1>6 DEF HandleReceivedMessage, HandleGetRequest

-----------------------------------------------------------------------------
(* A connection.                                                           *)

ConnFields == {"browser", "queue", "pending", "server", "up", "down", "finUp", "finDown",
               "broken", "asked", "got", "merged"}

Shaped(c) ==
  /\ DOMAIN c = ConnFields
  /\ c.browser \in {"CONNECTING", "CONNECTED", "LOCALLY_CLOSED", "deleted"}
  /\ c.server \in {"syn", "CONNECTED", "CLOSED", "deleted"}
  /\ Asks(c.queue) /\ Asks(c.up)
  /\ IsSequence(c.down) /\ \A i \in 1 .. Len(c.down) : IsSequence(c.down[i].reply.body)
  /\ IsSequence(c.asked) /\ IsSequence(c.got)
  /\ c.pending \in Int

\* Before it is established nothing has been sent.
Opening(c) ==
  c.browser = "CONNECTING" =>
    /\ c.queue # <<>> /\ c.up = <<>> /\ c.down = <<>> /\ c.asked = <<>> /\ c.got = <<>>
    /\ c.server = "syn" /\ ~c.finUp /\ ~c.finDown

\* The places of the last pieces, one for each reply.
Lasts(down) == {i \in DOMAIN down : down[i].last}

\* The replies on their way answer what was asked after the first `skip'
\* requests, in order; there are `total' of them.
Carries(down, asked, skip, total) ==
  \E m : /\ Marks(m, Len(down), Lasts(down)) /\ m[Len(down)] = total
         /\ \A i \in Lasts(down) : down[i].reply.n = asked[skip + m[i]]

\* What was asked has been answered, or is on its way to the server or back.
Flow(c) ==
  \E total \in Nat :
    /\ Carries(c.down, c.asked, Len(c.got), total)
    /\ Len(c.asked) = Len(c.got) + total + Len(c.up)
    /\ \A i \in 1 .. Len(c.up) : c.up[i].n = c.asked[Len(c.got) + total + i]

\* Who has closed, and when the browser will.
Closes(c) ==
  /\ c.browser = "CONNECTED" => c.pending >= 1 /\ (~c.merged => c.pending <= Len(c.asked) - Len(c.got))
  /\ c.browser = "LOCALLY_CLOSED" => c.finUp
  /\ c.browser = "deleted" => c.down = <<>> /\ c.server \in {"CLOSED", "deleted"}
  /\ c.server = "CLOSED" => c.finDown
  /\ c.finDown => c.up = <<>> /\ c.server \in {"CLOSED", "deleted"}
  /\ c.server = "deleted" => c.browser = "deleted"

Sound(c) ==
  /\ Shaped(c)
  /\ Opening(c)
  /\ Prefix(c.got, c.asked)
  /\ c.broken => c.up = <<>> /\ c.down = <<>>
  /\ ~c.broken => Closes(c) /\ (c.browser # "CONNECTING" => Flow(c))

ConnsSound(q) == IsSequence(q) /\ \A id \in 1 .. Len(q) : Sound(q[id])

\* Requests go to sites that exist, and what comes back has a body.
WireSound(w) ==
  \A m \in w : IF m.to = "server" THEN m.m.www \in Registered ELSE IsSequence(m.m.body)

HttpInv == ConnsSound(conns) /\ WireSound(wire)

-----------------------------------------------------------------------------
(* What the callbacks make of a connection.                                *)

LEMMA AsksFacts ==
  ASSUME NEW q, Asks(q)
  PROVE  IsSequence(q) /\ Len(q) \in Nat /\ DOMAIN q = 1 .. Len(q) /\ \A i \in 1 .. Len(q) : q[i].www \in Registered
BY SequenceFacts DEF Asks

LEMMA AsksNothing == Asks(<<>>)
BY EmptySequence DEF Asks

LEMMA NewSound ==
  ASSUME NEW requests, requests # <<>>, Asks(requests)
  PROVE  Sound(Connection(requests))
<1> DEFINE c == Connection(requests)
<1>1. /\ DOMAIN c = ConnFields
      /\ c.browser = "CONNECTING" /\ c.queue = requests /\ c.pending = 0 /\ c.server = "syn"
      /\ c.up = <<>> /\ c.down = <<>> /\ ~c.finUp /\ ~c.finDown /\ ~c.broken
      /\ c.asked = <<>> /\ c.got = <<>> /\ ~c.merged
  BY DEF Connection, ConnFields
<1> HIDE DEF c
<1>2. Shaped(c)
  BY <1>1, AsksNothing, EmptySequence DEF Shaped
<1>3. Prefix(c.got, c.asked)
  <2>1. SubSeq(<<>>, 1, 0) = <<>>
    BY SubSeqEmpty
  <2> QED BY <1>1, <2>1, EmptySequence DEF Prefix
<1>4. Opening(c) /\ Closes(c)
  BY <1>1 DEF Opening, Closes
<1> QED BY <1>1, <1>2, <1>3, <1>4 DEF Sound, c

\* A stream without replies.
LEMMA CarriesNothing ==
  ASSUME NEW asked, NEW skip
  PROVE  Carries(<<>>, asked, skip, 0)
<1>1. PICK m : Marks(m, 0, Lasts(<<>>))
  BY MarksExist
<1>2. m[0] = 0 /\ Len(<<>>) = 0 /\ Lasts(<<>>) = {}
  BY <1>1, EmptySequence DEF Marks, Lasts
<1> QED BY <1>1, <1>2 DEF Carries

\* With nothing on its way the number of replies that are is 0.
LEMMA CarriesNone ==
  ASSUME NEW asked, NEW skip, NEW total, Carries(<<>>, asked, skip, total)
  PROVE  total = 0
BY EmptySequence DEF Carries, Marks

LEMMA FlowFrom ==
  ASSUME NEW c, NEW total \in Nat, Carries(c.down, c.asked, Len(c.got), total),
         Len(c.asked) = Len(c.got) + total + Len(c.up),
         \A i \in 1 .. Len(c.up) : c.up[i].n = c.asked[Len(c.got) + total + i]
  PROVE  Flow(c)
BY DEF Flow

\* The whole queue is sent.
LEMMA EstablishedSound ==
  ASSUME NEW c, Sound(c), c.browser = "CONNECTING", ~c.broken,
         NEW d, DOMAIN d = ConnFields, d.browser = "CONNECTED", d.queue = <<>>,
         d.up = c.queue, d.pending = Len(c.queue), d.asked = [i \in DOMAIN c.queue |-> c.queue[i].n],
         d.server = c.server, d.down = c.down, d.finUp = c.finUp, d.finDown = c.finDown,
         d.broken = c.broken, d.got = c.got, d.merged = c.merged
  PROVE  Sound(d)
<1> DEFINE n == Len(c.queue)
<1>1. /\ Asks(c.queue) /\ c.queue # <<>> /\ c.down = <<>> /\ c.got = <<>> /\ c.server = "syn" /\ ~c.finUp /\ ~c.finDown
      /\ Shaped(c)
  BY DEF Sound, Opening, Shaped
<1>2. n \in Nat /\ n > 0 /\ DOMAIN c.queue = 1 .. n
  BY <1>1, AsksFacts, SequenceFacts
<1>3. IsSequence(d.asked) /\ Len(d.asked) = n /\ \A i \in 1 .. n : d.asked[i] = d.up[i].n
  <2>1. d.asked = [i \in 1 .. n |-> d.asked[i]] /\ \A i \in 1 .. n : d.asked[i] = c.queue[i].n
    BY <1>2
  <2> QED BY <1>2, <2>1, FunctionIsSequence
<1> HIDE DEF n
<1>4. Shaped(d)
  BY <1>1, <1>2, <1>3, AsksNothing, EmptySequence DEF Shaped, n
<1>5. Flow(d)
  <2>1. PICK total \in Nat : total = 0
    OBVIOUS
  <2>2. Carries(d.down, d.asked, Len(d.got), total) /\ Len(d.got) = 0 /\ Len(d.up) = n
    BY <1>1, <2>1, CarriesNothing, EmptySequence DEF n
  <2>3. Len(d.asked) = Len(d.got) + total + Len(d.up)
    BY <1>2, <1>3, <2>1, <2>2
  <2>4. \A i \in 1 .. Len(d.up) : d.up[i].n = d.asked[Len(d.got) + total + i]
    BY <1>2, <1>3, <2>1, <2>2
  <2> QED BY <2>2, <2>3, <2>4, FlowFrom
<1>6. Prefix(d.got, d.asked)
  <2>1. SubSeq(d.asked, 1, 0) = <<>>
    BY SubSeqEmpty
  <2> QED BY <1>1, <1>2, <1>3, <2>1, EmptySequence DEF Prefix
<1>7. Closes(d)
  <2>1. d.pending = n /\ Len(d.asked) = n /\ Len(d.got) = 0
    BY <1>1, <1>3, EmptySequence DEF n
  <2> QED BY <1>1, <1>2, <2>1 DEF Closes
<1>8. Opening(d)
  BY DEF Opening
<1> QED BY <1>4, <1>5, <1>6, <1>7, <1>8 DEF Sound

\* Only flags change: who has closed or deleted its socket.
LEMMA ClosingSound ==
  ASSUME NEW c, Sound(c), c.browser # "CONNECTING", NEW d, DOMAIN d = ConnFields,
         d.browser \in {"CONNECTED", "LOCALLY_CLOSED", "deleted"},
         d.server \in {"syn", "CONNECTED", "CLOSED", "deleted"},
         d.queue = c.queue, d.pending = c.pending, d.up = c.up, d.down = c.down, d.broken = c.broken,
         d.asked = c.asked, d.got = c.got, d.merged = c.merged,
         ~c.broken => Closes(d)
  PROVE  Sound(d)
BY DEF Sound, Shaped, Opening, Flow

\* A broken connection, whatever becomes of the sockets.
LEMMA BrokenSound ==
  ASSUME NEW c, Sound(c), NEW d, DOMAIN d = ConnFields, d.broken, d.up = <<>>, d.down = <<>>,
         d.browser \in {"CONNECTING", "CONNECTED", "LOCALLY_CLOSED", "deleted"},
         d.server \in {"syn", "CONNECTED", "CLOSED", "deleted"}, Opening(d),
         d.queue = c.queue \/ d.queue = <<>>, d.pending = c.pending, d.asked = c.asked, d.got = c.got
  PROVE  Sound(d)
<1>1. Shaped(d)
  BY AsksNothing, EmptySequence DEF Sound, Shaped
<1> QED BY <1>1 DEF Sound

-----------------------------------------------------------------------------
(* Replies arrive.                                                         *)

\* The elements that At takes from a sequence of anything.
LEMMA MarkedElements ==
  ASSUME NEW q, IsSequence(q), NEW n \in Nat, n = Len(q), NEW places, NEW m, Marks(m, n, places)
  PROVE  /\ IsSequence(At(places, q)) /\ Len(At(places, q)) = m[n]
         /\ \A x \in 1 .. m[n] : \E i \in 1 .. n : i \in places /\ m[i] = x /\ At(places, q)[x] = q[i]
<1> DEFINE S == {q[i] : i \in DOMAIN q}
<1>1. q \in Seq(S)
  BY DEF IsSequence
<1> HIDE DEF S
<1>2. /\ At(places, q) \in Seq(S) /\ Len(At(places, q)) = m[n]
      /\ \A x \in 1 .. m[n] : \E i \in 1 .. n : i \in places /\ m[i] = x /\ At(places, q)[x] = q[i]
  BY <1>1, AtFacts
<1> QED BY <1>2, SeqIsSequence

\* What Carries says of its marks, the first k elements of a sequence, and
\* replies in the order of the requests.
Answers(down, n, m, asked, skip) ==
  /\ IsSequence(down) /\ n = Len(down) /\ Marks(m, n, Lasts(down))
  /\ \A i \in Lasts(down) : down[i].reply.n = asked[skip + m[i]]
Begins(came, k, down) == IsSequence(came) /\ Len(came) = k /\ \A i \in 1 .. k : came[i] = down[i]
Replies(whole, w, down, n, asked, skip) ==
  /\ IsSequence(whole) /\ Len(whole) = w
  /\ \A x \in 1 .. w : whole[x].reply.n = asked[skip + x] /\ \E i \in 1 .. n : whole[x] = down[i]

\* The first k pieces are the whole replies to the next m[k] requests.
LEMMA WholeReplies ==
  ASSUME NEW down, NEW n \in Nat, NEW m, NEW asked, NEW skip \in Nat, Answers(down, n, m, asked, skip),
         NEW k \in Nat, k <= n, NEW came, Begins(came, k, down)
  PROVE  m[k] \in Nat /\ Replies(At(Lasts(came), came), m[k], down, n, asked, skip)
<1> DEFINE whole == At(Lasts(came), came)
<1>0. /\ IsSequence(down) /\ n = Len(down) /\ Marks(m, n, Lasts(down))
      /\ \A i \in Lasts(down) : down[i].reply.n = asked[skip + m[i]]
      /\ IsSequence(came) /\ k = Len(came) /\ \A i \in 1 .. k : came[i] = down[i]
  BY DEF Answers, Begins
<1>2. DOMAIN came = 1 .. k /\ DOMAIN down = 1 .. n
  BY <1>0, SequenceFacts
<1>3. PICK o : Marks(o, k, Lasts(came))
  BY MarksExist
<1>4. \A i \in 1 .. k : i \in Lasts(came) <=> i \in Lasts(down)
  BY <1>0, <1>2 DEF Lasts
<1>5. \A i \in 0 .. k : o[i] = m[i]
  <2>1. k \in 0 .. n
    OBVIOUS
  <2> QED BY <1>0, <1>3, <1>4, <2>1, MarksAgree
<1>6. m[k] \in Nat /\ o[k] = m[k]
  BY <1>0, <1>5 DEF Marks
<1>8. /\ IsSequence(whole) /\ Len(whole) = o[k]
      /\ \A x \in 1 .. o[k] : \E i \in 1 .. k : i \in Lasts(came) /\ o[i] = x /\ whole[x] = came[i]
  BY <1>0, <1>3, MarkedElements
<1> HIDE DEF whole
<1>10. ASSUME NEW x \in 1 .. m[k]
       PROVE  whole[x].reply.n = asked[skip + x] /\ \E i \in 1 .. n : whole[x] = down[i]
  <2>1. PICK i \in 1 .. k : i \in Lasts(came) /\ o[i] = x /\ whole[x] = came[i]
    BY <1>6, <1>8
  <2>2. i \in Lasts(down) /\ m[i] = x /\ whole[x] = down[i] /\ i \in 1 .. n
    BY <1>0, <1>4, <1>5, <2>1
  <2> QED BY <1>0, <2>2
<1> QED BY <1>6, <1>8, <1>10 DEF whole, Replies

\* What is left after the first k pieces.
LEMMA CarriesRest ==
  ASSUME NEW down, NEW n \in Nat, NEW m, NEW asked, NEW skip \in Nat, Answers(down, n, m, asked, skip),
         NEW k \in 0 .. n
  PROVE  /\ m[k] \in Nat /\ m[n] - m[k] \in Nat
         /\ Carries(SubSeq(down, k + 1, n), asked, skip + m[k], m[n] - m[k])
<1> DEFINE rest == SubSeq(down, k + 1, n)
           o == [j \in 0 .. n - k |-> m[k + j] - m[k]]
<1>0. /\ IsSequence(down) /\ n = Len(down) /\ Marks(m, n, Lasts(down))
      /\ \A i \in Lasts(down) : down[i].reply.n = asked[skip + m[i]]
  BY DEF Answers
<1>1. IsSequence(rest) /\ Len(rest) = n - k /\ \A i \in 1 .. n - k : rest[i] = down[k + i]
  BY <1>0, CutSequence
<1>2. \A i \in 0 .. n : m[i] \in Nat
  BY <1>0 DEF Marks
<1>3. ASSUME NEW j \in 0 .. n - k
      PROVE  o[j] \in Nat /\ m[k + j] = m[k] + o[j]
  <2>1. CASE j = 0
    BY <1>2, <2>1
  <2>2. CASE j # 0
    <3>1. k + j \in 1 .. n /\ k \in 0 .. (k + j) - 1
      BY <2>2
    <3>2. m[k] \in Nat /\ m[k + j] \in Nat /\ m[k] + (IF k + j \in Lasts(down) THEN 1 ELSE 0) <= m[k + j]
      BY <1>0, <3>1, MarksGrow
    <3>3. o[j] = m[k + j] - m[k]
      OBVIOUS
    <3> HIDE DEF o
    <3> QED BY <3>2, <3>3
  <2> QED BY <2>1, <2>2
<1>4. DOMAIN rest = 1 .. n - k /\ DOMAIN down = 1 .. n
  BY <1>0, <1>1, SequenceFacts
<1>5. \A i \in 1 .. n - k : i \in Lasts(rest) <=> k + i \in Lasts(down)
  BY <1>1, <1>4 DEF Lasts
<1>6. o \in [0 .. n - k -> Nat] /\ o[0] = 0
  <2>1. o[0] = 0
    BY <1>2
  <2>2. o = [j \in 0 .. n - k |-> o[j]]
    OBVIOUS
  <2> HIDE DEF o
  <2> QED BY <1>3, <2>1, <2>2
<1> HIDE DEF o, rest
<1>7. ASSUME NEW i \in 1 .. n - k
      PROVE  o[i] = o[i - 1] + (IF i \in Lasts(rest) THEN 1 ELSE 0)
  <2>1. k + i \in 1 .. n /\ (k + i) - 1 = k + (i - 1) /\ i - 1 \in 0 .. n - k /\ i \in 0 .. n - k
    OBVIOUS
  <2>2. m[k + i] = m[k + (i - 1)] + (IF k + i \in Lasts(down) THEN 1 ELSE 0)
    BY <1>0, <2>1 DEF Marks
  <2>3. m[k + i] = m[k] + o[i] /\ m[k + (i - 1)] = m[k] + o[i - 1] /\ o[i] \in Nat /\ o[i - 1] \in Nat /\ m[k] \in Nat
    BY <1>2, <1>3, <2>1
  <2> QED BY <1>5, <2>2, <2>3
<1>8. Marks(o, n - k, Lasts(rest))
  BY <1>6, <1>7 DEF Marks
<1>9. n - k \in 0 .. n - k /\ n - k \in Nat /\ k + (n - k) = n
  OBVIOUS
<1>10. o[n - k] = m[n] - m[k] /\ m[n] - m[k] \in Nat /\ m[k] \in Nat
  <2>1. o[n - k] \in Nat /\ m[k + (n - k)] = m[k] + o[n - k] /\ m[k] \in Nat
    BY <1>2, <1>3, <1>9
  <2> QED BY <1>9, <2>1
<1>11. ASSUME NEW i \in Lasts(rest) PROVE rest[i].reply.n = asked[(skip + m[k]) + o[i]]
  <2>1. i \in 1 .. n - k /\ k + i \in Lasts(down) /\ rest[i] = down[k + i] /\ i \in 0 .. n - k
    BY <1>1, <1>4, <1>5 DEF Lasts
  <2>2. skip + m[k + i] = (skip + m[k]) + o[i]
    BY <1>2, <1>3, <2>1
  <2> QED BY <1>0, <2>1, <2>2
<1>12. Carries(rest, asked, skip + m[k], m[n] - m[k])
  BY <1>1, <1>8, <1>10, <1>11 DEF Carries
<1> QED BY <1>10, <1>12 DEF rest

Continues(got, g, more, w, asked, a) ==
  /\ IsSequence(got) /\ IsSequence(asked) /\ IsSequence(more) /\ Prefix(got, asked)
  /\ g = Len(got) /\ w = Len(more) /\ a = Len(asked) /\ \A x \in 1 .. w : more[x] = asked[g + x]

\* What has been answered grows by the replies to the next requests.
LEMMA PrefixGrows ==
  ASSUME NEW got, NEW asked, NEW more, NEW g \in Nat, NEW w \in Nat, NEW a \in Nat, g + w <= a,
         Continues(got, g, more, w, asked, a)
  PROVE  Prefix(got \o more, asked)
<1>0. /\ IsSequence(got) /\ IsSequence(asked) /\ IsSequence(more) /\ Prefix(got, asked)
      /\ g = Len(got) /\ w = Len(more) /\ a = Len(asked) /\ \A x \in 1 .. w : more[x] = asked[g + x]
  BY DEF Continues
<1> DEFINE t == got \o more
           p == SubSeq(asked, 1, g + w)
<1>1. /\ IsSequence(t) /\ Len(t) = g + w
      /\ \A i \in 1 .. g : t[i] = got[i]
      /\ \A x \in 1 .. w : t[g + x] = more[x]
  BY <1>0, ConcatSequence
<1>2. g + w \in 0 .. a /\ g \in 0 .. a
  OBVIOUS
<1>3. IsSequence(p) /\ Len(p) = g + w /\ \A i \in 1 .. g + w : p[i] = asked[i]
  BY <1>0, <1>2, CutSequence
<1>4. \A i \in 1 .. g : got[i] = asked[i]
  <2>1. got = SubSeq(asked, 1, g)
    BY <1>0 DEF Prefix
  <2> QED BY <1>0, <1>2, <2>1, CutSequence
<1> HIDE DEF t, p
<1>5. ASSUME NEW i \in 1 .. g + w PROVE t[i] = p[i]
  <2>1. CASE i <= g
    BY <1>1, <1>3, <1>4, <2>1
  <2>2. CASE i > g
    <3>1. i - g \in 1 .. w /\ g + (i - g) = i
      BY <2>2
    <3>2. t[i] = more[i - g] /\ more[i - g] = asked[i]
      BY <1>0, <1>1, <3>1
    <3> QED BY <1>3, <3>2
  <2> QED BY <2>1, <2>2
<1>6. t = p
  BY <1>1, <1>3, <1>5, SequencesEqual
<1> QED BY <1>0, <1>1, <1>2, <1>6 DEF Prefix, t, p

\* A connection after k of its n pieces have come, with these replies.
Arrival(c, d, rest, numbers) ==
  /\ DOMAIN d = ConnFields
  /\ d.queue = c.queue /\ d.server = c.server /\ d.up = c.up /\ d.finDown = c.finDown /\ d.broken = c.broken
  /\ d.asked = c.asked /\ d.down = rest /\ d.pending = c.pending - 1 /\ d.got = c.got \o numbers
  /\ d.merged = (c.merged \/ Len(numbers) > 1)
  /\ IF c.pending = 1 THEN d.browser = "LOCALLY_CLOSED" /\ d.finUp ELSE d.browser = c.browser /\ d.finUp = c.finUp

LEMMA ArrivedSound ==
  ASSUME NEW c, Sound(c), c.browser \in {"CONNECTED", "LOCALLY_CLOSED"},
         NEW n \in Nat, n = Len(c.down), NEW k \in 1 .. n,
         NEW came, Begins(came, k, c.down),
         NEW numbers, numbers = [x \in 1 .. Len(At(Lasts(came), came)) |-> At(Lasts(came), came)[x].reply.n],
         NEW d, Arrival(c, d, SubSeq(c.down, k + 1, n), numbers)
  PROVE  Sound(d)
<1> DEFINE g == Len(c.got)
           a == Len(c.asked)
           u == Len(c.up)
           rest == SubSeq(c.down, k + 1, n)
           whole == At(Lasts(came), came)
<1>1. /\ IsSequence(c.down) /\ IsSequence(c.up) /\ IsSequence(c.got) /\ IsSequence(c.asked)
      /\ g \in Nat /\ a \in Nat /\ u \in Nat
      /\ \A i \in 1 .. n : IsSequence(c.down[i].reply.body)
  <2>1. IsSequence(c.down) /\ IsSequence(c.up) /\ IsSequence(c.got) /\ IsSequence(c.asked)
    BY DEF Sound, Shaped, Asks
  <2>2. \A i \in 1 .. n : IsSequence(c.down[i].reply.body)
    BY DEF Sound, Shaped
  <2> QED BY <2>1, <2>2, SequenceFacts
<1>2. ~c.broken /\ Flow(c) /\ Closes(c)
  <2>1. c.down # <<>>
    BY <1>1, SequenceFacts
  <2> QED BY <2>1 DEF Sound
<1>3. PICK total \in Nat : /\ Carries(c.down, c.asked, g, total) /\ a = g + total + u
                           /\ \A i \in 1 .. u : c.up[i].n = c.asked[g + total + i]
  BY <1>2 DEF Flow
<1> HIDE DEF g, a, u
<1>4. PICK m : Answers(c.down, n, m, c.asked, g) /\ m[n] = total
  BY <1>1, <1>3 DEF Carries, Answers
<1>5. /\ IsSequence(whole) /\ m[k] \in Nat /\ Len(whole) = m[k]
      /\ \A x \in 1 .. m[k] : whole[x].reply.n = c.asked[g + x]
  <2>1. k \in Nat /\ k <= n
    OBVIOUS
  <2>2. m[k] \in Nat /\ Replies(whole, m[k], c.down, n, c.asked, g)
    BY <1>1, <1>4, <2>1, WholeReplies
  <2> HIDE DEF whole
  <2> QED BY <2>2 DEF Replies
<1> DEFINE w == m[k]
<1>6. IsSequence(numbers) /\ Len(numbers) = w /\ \A x \in 1 .. w : numbers[x] = c.asked[g + x]
  <2>1. numbers = [x \in 1 .. w |-> numbers[x]] /\ \A x \in 1 .. w : numbers[x] = whole[x].reply.n
    BY <1>5
  <2>2. w \in Nat
    BY <1>5
  <2> QED BY <1>5, <2>1, <2>2, FunctionIsSequence
<1>7. total - w \in Nat /\ w \in Nat /\ Carries(rest, c.asked, g + w, total - w)
  <2>1. k \in 0 .. n
    OBVIOUS
  <2> HIDE DEF whole
  <2>2. m[k] \in Nat /\ m[n] - m[k] \in Nat /\ Carries(SubSeq(c.down, k + 1, n), c.asked, g + m[k], m[n] - m[k])
    BY <1>1, <1>4, <2>1, CarriesRest
  <2> QED BY <1>4, <2>2
<1> HIDE DEF w, whole
<1>8. IsSequence(c.got \o numbers) /\ Len(c.got \o numbers) = g + w
  BY <1>1, <1>6, ConcatSequence DEF g
<1>9. /\ IsSequence(rest) /\ Len(rest) = n - k /\ \A i \in 1 .. n - k : rest[i] = c.down[k + i]
  <2>1. k \in 0 .. n
    OBVIOUS
  <2> QED BY <1>1, <2>1, CutSequence
<1>10. Prefix(c.got \o numbers, c.asked)
  <2>1. g + w <= a /\ Prefix(c.got, c.asked)
    BY <1>1, <1>3, <1>7 DEF Sound
  <2>2. Continues(c.got, g, numbers, w, c.asked, a)
    BY <1>1, <1>6, <2>1 DEF g, a, Continues
  <2> QED BY <1>1, <1>7, <2>1, <2>2, PrefixGrows
<1> HIDE DEF rest
<1>11. /\ DOMAIN d = ConnFields
       /\ d.queue = c.queue /\ d.server = c.server /\ d.up = c.up /\ d.finDown = c.finDown /\ d.broken = c.broken
       /\ d.asked = c.asked /\ d.down = rest /\ d.pending = c.pending - 1 /\ d.got = c.got \o numbers
       /\ d.merged = (c.merged \/ Len(numbers) > 1)
       /\ IF c.pending = 1 THEN d.browser = "LOCALLY_CLOSED" /\ d.finUp ELSE d.browser = c.browser /\ d.finUp = c.finUp
  BY DEF Arrival, rest
<1>12. Flow(d)
  <2> DEFINE left == total - w
  <2>1. left \in Nat /\ Len(d.got) = g + w /\ Len(d.asked) = a /\ Len(d.up) = u
    BY <1>7, <1>8, <1>11 DEF a, u
  <2>2. Carries(d.down, d.asked, Len(d.got), left)
    BY <1>7, <1>8, <1>11
  <2>3. g + w + left = g + total
    BY <1>1, <1>7
  <2> HIDE DEF left
  <2>4. Len(d.asked) = Len(d.got) + left + Len(d.up)
    BY <1>3, <2>1, <2>3
  <2>5. \A i \in 1 .. Len(d.up) : d.up[i].n = d.asked[Len(d.got) + left + i]
    BY <1>3, <1>11, <2>1, <2>3
  <2> QED BY <2>1, <2>2, <2>4, <2>5, FlowFrom
<1>13. Shaped(d)
  <2>1. \A i \in 1 .. Len(rest) : IsSequence(rest[i].reply.body)
    <3> TAKE i \in 1 .. Len(rest)
    <3>1. k + i \in 1 .. n /\ i \in 1 .. n - k
      BY <1>9
    <3> QED BY <1>1, <1>9, <3>1
  <2> QED BY <1>1, <1>8, <1>9, <1>11, <2>1 DEF Sound, Shaped
<1>14. Closes(d)
  <2>1. c.pending \in Int
    BY DEF Sound, Shaped
  <2>2. ASSUME d.browser = "CONNECTED"
        PROVE  d.pending >= 1 /\ (~d.merged => d.pending <= Len(d.asked) - Len(d.got))
    <3>1. c.browser = "CONNECTED" /\ c.pending # 1
      BY <1>11, <2>2
    <3>2. c.pending >= 1 /\ (~c.merged => c.pending <= a - g)
      BY <1>2, <3>1 DEF Closes, a, g
    <3>5. Len(d.asked) = a /\ Len(d.got) = g + w
      BY <1>8, <1>11 DEF a
    <3>6. ~d.merged => ~c.merged /\ ~(w > 1)
      BY <1>6, <1>11
    <3>3. Len(d.asked) = a /\ Len(d.got) = g + w /\ (~d.merged => ~c.merged /\ w <= 1)
      BY <1>7, <3>5, <3>6
    <3>4. d.pending = c.pending - 1
      BY <1>11
    <3> QED BY <1>1, <1>7, <2>1, <3>1, <3>2, <3>3, <3>4
  <2>3. d.browser = "LOCALLY_CLOSED" => d.finUp
    BY <1>2, <1>11 DEF Closes
  <2>4. d.browser # "deleted" /\ c.browser # "deleted"
    BY <1>11
  <2> QED BY <1>2, <1>11, <2>2, <2>3, <2>4 DEF Closes
<1>15. d.browser # "CONNECTING"
  BY <1>11
<1> QED BY <1>2, <1>10, <1>11, <1>12, <1>13, <1>14, <1>15 DEF Sound, Opening

-----------------------------------------------------------------------------
(* Replies are sent.                                                       *)

\* The pieces have replies with a body.
Bodies(down) == IsSequence(down) /\ \A i \in 1 .. Len(down) : IsSequence(down[i].reply.body)

\* The pieces of one more reply.
LEMMA PiecesCarry ==
  ASSUME NEW down, Bodies(down), NEW asked, NEW skip \in Nat, NEW total \in Nat,
         Carries(down, asked, skip, total), NEW size \in {1, 2}, NEW www, NEW reply,
         reply.n = asked[skip + (total + 1)], IsSequence(reply.body)
  PROVE  /\ Bodies(down \o Pieces(www, reply, size))
         /\ Carries(down \o Pieces(www, reply, size), asked, skip, total + 1)
<1> DEFINE n == Len(down)
           more == Pieces(www, reply, size)
           t == down \o more
<1>1. /\ IsSequence(down) /\ n \in Nat /\ DOMAIN down = 1 .. n
      /\ \A i \in 1 .. n : IsSequence(down[i].reply.body)
  BY SequenceFacts DEF Bodies
<1>2. PICK m : /\ Marks(m, n, Lasts(down)) /\ m[n] = total
               /\ \A i \in Lasts(down) : down[i].reply.n = asked[skip + m[i]]
  BY DEF Carries
<1>3. /\ IsSequence(more) /\ Len(more) = size
      /\ \A j \in 1 .. size : more[j].reply = reply /\ (more[j].last <=> j = size)
  <2>1. more = [j \in 1 .. size |-> more[j]] /\ size \in Nat
    BY DEF Pieces
  <2>2. \A j \in 1 .. size : more[j] = [www |-> www, reply |-> reply, last |-> j = size]
    BY DEF Pieces
  <2> HIDE DEF more
  <2>3. IsSequence(more) /\ Len(more) = size
    BY <2>1, FunctionIsSequence
  <2>4. \A j \in 1 .. size : more[j].reply = reply /\ (more[j].last <=> j = size)
    <3> TAKE j \in 1 .. size
    <3> DEFINE ends == j = size
               piece == [www |-> www, reply |-> reply, last |-> ends]
    <3>1. more[j] = piece
      BY <2>2
    <3>2. piece.reply = reply /\ piece.last = ends
      OBVIOUS
    <3> HIDE DEF piece
    <3>3. more[j].reply = reply /\ more[j].last = ends
      BY <3>1, <3>2, Zenon
    <3> QED BY <3>3, Zenon
  <2> QED BY <2>3, <2>4
<1> HIDE DEF more, n
<1>4. /\ IsSequence(t) /\ Len(t) = n + size
      /\ \A i \in 1 .. n : t[i] = down[i]
      /\ \A j \in 1 .. size : t[n + j] = more[j]
  BY <1>1, <1>3, ConcatSequence DEF n
<1>5. DOMAIN t = 1 .. n + size
  BY <1>4, SequenceFacts
<1> HIDE DEF t
<1>6. ASSUME NEW i \in n + 1 .. n + size
      PROVE  t[i].reply = reply /\ (t[i].last <=> i = n + size)
  <2>1. i - n \in 1 .. size /\ n + (i - n) = i
    BY <1>1
  <2>2. t[i] = more[i - n]
    BY <1>4, <2>1
  <2> QED BY <1>1, <1>3, <2>1, <2>2
<1>7. Bodies(t)
  <2>1. ASSUME NEW i \in 1 .. Len(t) PROVE IsSequence(t[i].reply.body)
    <3>1. CASE i \in 1 .. n
      BY <1>1, <1>4, <3>1
    <3>2. CASE i \in n + 1 .. n + size
      BY <1>6, <3>2
    <3> QED BY <1>1, <1>4, <3>1, <3>2
  <2> QED BY <1>4, <2>1 DEF Bodies
<1>8. \A i \in 1 .. n : i \in Lasts(t) <=> i \in Lasts(down)
  <2> TAKE i \in 1 .. n
  <2>1. i \in DOMAIN t /\ i \in DOMAIN down /\ t[i] = down[i]
    BY <1>1, <1>4, <1>5
  <2> QED BY <2>1 DEF Lasts
<1>9. \A i \in n + 1 .. n + size : i \in Lasts(t) <=> i = n + size
  <2> TAKE i \in n + 1 .. n + size
  <2>1. i \in DOMAIN t
    BY <1>1, <1>5
  <2> QED BY <1>6, <2>1 DEF Lasts
<1> DEFINE o == [j \in 0 .. n + size |-> IF j <= n THEN m[j] ELSE IF j = n + size THEN total + 1 ELSE total]
<1>10. \A j \in 0 .. n : m[j] \in Nat /\ o[j] = m[j]
  BY <1>1, <1>2 DEF Marks
<1>11. \A j \in n + 1 .. n + size : o[j] = IF j = n + size THEN total + 1 ELSE total
  BY <1>1
<1>12. o \in [0 .. n + size -> Nat]
  <2>1. ASSUME NEW j \in 0 .. n + size PROVE o[j] \in Nat
    <3>1. j \in 0 .. n \/ j \in n + 1 .. n + size
      BY <1>1
    <3> HIDE DEF o
    <3> QED BY <1>10, <1>11, <3>1
  <2>2. o = [j \in 0 .. n + size |-> o[j]]
    OBVIOUS
  <2> HIDE DEF o
  <2> QED BY <2>1, <2>2
<1> HIDE DEF o
<1>13. ASSUME NEW i \in 1 .. n + size
       PROVE  o[i] = o[i - 1] + (IF i \in Lasts(t) THEN 1 ELSE 0)
  <2>1. CASE i \in 1 .. n
    <3>1. m[i] = m[i - 1] + (IF i \in Lasts(down) THEN 1 ELSE 0)
      BY <1>2, <2>1 DEF Marks
    <3>2. i \in 0 .. n /\ i - 1 \in 0 .. n
      BY <1>1, <2>1
    <3> QED BY <1>8, <1>10, <2>1, <3>1, <3>2
  <2>2. CASE i = n + 1
    <3>1. i \in n + 1 .. n + size /\ i - 1 = n /\ n \in 0 .. n
      BY <1>1, <2>2
    <3>2. o[i - 1] = total
      BY <1>2, <1>10, <3>1
    <3> QED BY <1>9, <1>11, <3>1, <3>2
  <2>3. CASE i = n + 2
    <3>1. i \in n + 1 .. n + size /\ i - 1 \in n + 1 .. n + size /\ i = n + size /\ i - 1 # n + size
      BY <1>1, <2>3
    <3> QED BY <1>9, <1>11, <3>1
  <2> QED BY <1>1, <2>1, <2>2, <2>3
<1>14. Marks(o, n + size, Lasts(t))
  <2>1. o[0] = 0
    BY <1>1, <1>2, <1>10 DEF Marks
  <2> QED BY <1>12, <1>13, <2>1 DEF Marks
<1>15. n + size \in n + 1 .. n + size
  BY <1>1
<1>16. o[n + size] = total + 1
  BY <1>11, <1>15
<1>17. ASSUME NEW i \in Lasts(t) PROVE t[i].reply.n = asked[skip + o[i]]
  <2>1. i \in 1 .. n + size
    BY <1>5 DEF Lasts
  <2>2. CASE i \in 1 .. n
    BY <1>2, <1>4, <1>8, <1>10, <2>2
  <2>3. CASE i \in n + 1 .. n + size
    BY <1>6, <1>9, <1>16, <2>3
  <2> QED BY <1>1, <2>1, <2>2, <2>3
<1>18. Carries(t, asked, skip, total + 1)
  BY <1>4, <1>14, <1>16, <1>17 DEF Carries
<1> QED BY <1>7, <1>18 DEF t, more

\* The replies to the first k requests.
Asking(requests, k, asked, skip, total) ==
  \A i \in 1 .. k : requests[i].www \in Registered /\ requests[i].n = asked[skip + (total + i)]

LEMMA RepliesCarry ==
  ASSUME NEW down, Bodies(down), NEW asked, NEW skip \in Nat, NEW total \in Nat,
         Carries(down, asked, skip, total), NEW size \in {1, 2},
         NEW k \in Nat, NEW requests, NEW www \in Registered, NEW body \in Generated(Content[www]),
         Asking(requests, k, asked, skip, total)
  PROVE  /\ Bodies(RepliesTo(requests, k, size, body, down))
         /\ Carries(RepliesTo(requests, k, size, body, down), asked, skip, total + k)
<1> DEFINE Step(last, i) == last \o Pieces(requests[i].www, HandleReceivedMessage(requests[i], body), size)
           Sent(F, j) == F = [i \in 0 .. j |-> IF i = 0 THEN down
                                ELSE F[i - 1] \o Pieces(requests[i].www, HandleReceivedMessage(requests[i], body), size)]
<1>1. \E F : Sent(F, k)
  <2> DEFINE G == {j \in 0 .. k : \E F : Sent(F, j)}
  <2>1. 0 \in G
    <3>1. Sent([i \in 0 .. 0 |-> down], 0)
      OBVIOUS
    <3> HIDE DEF Sent
    <3>2. 0 \in 0 .. k
      OBVIOUS
    <3> QED BY <3>1, <3>2
  <2>2. ASSUME NEW j \in 1 .. k, j - 1 \in G
        PROVE  j \in G
    <3>1. PICK F : Sent(F, j - 1)
      BY <2>2
    <3> DEFINE next == Step(F[j - 1], j)
               H == [i \in 0 .. j |-> IF i < j THEN F[i] ELSE next]
    <3>2. next = Step(F[j - 1], j)
      OBVIOUS
    <3> HIDE DEF next
    <3>3. (\A i \in 0 .. j - 1 : H[i] = F[i]) /\ H[j] = next
      OBVIOUS
    <3>4. ASSUME NEW i \in 0 .. j
          PROVE  H[i] = IF i = 0 THEN down ELSE Step(H[i - 1], i)
      <4>1. i # 0 => i - 1 \in 0 .. j - 1
        OBVIOUS
      <4>2. CASE i = j
        <5>1. i # 0 /\ H[i - 1] = F[j - 1] /\ H[i] = next
          BY <3>3, <4>1, <4>2
        <5> QED BY <3>2, <4>2, <5>1
      <4>3. CASE i < j
        <5>1. i \in 0 .. j - 1
          BY <4>3
        <5>2. F[i] = IF i = 0 THEN down ELSE Step(F[i - 1], i)
          BY <3>1, <5>1
        <5>3. H[i] = F[i] /\ (i # 0 => H[i - 1] = F[i - 1])
          BY <3>3, <4>1, <5>1
        <5> QED BY <5>2, <5>3
      <4> QED BY <4>2, <4>3
    <3>5. H = [i \in 0 .. j |-> H[i]]
      OBVIOUS
    <3> HIDE DEF H
    <3>6. Sent(H, j)
      BY <3>4, <3>5
    <3> HIDE DEF Sent
    <3>7. j \in 0 .. k
      OBVIOUS
    <3> QED BY <3>6, <3>7
  <2> HIDE DEF G
  <2>3. k \in G
    <3>1. k \in 0 .. k
      OBVIOUS
    <3> QED BY <2>1, <2>2, <3>1, UpTo
  <2> QED BY <2>3 DEF G
<1>2. PICK F : F = (CHOOSE H : Sent(H, k)) /\ Sent(F, k)
  BY <1>1
<1>3. RepliesTo(requests, k, size, body, down) = F[k]
  BY <1>2 DEF RepliesTo
<1>4. F[0] = down /\ \A i \in 1 .. k : F[i] = Step(F[i - 1], i)
  <2>1. ASSUME NEW i \in 0 .. k PROVE F[i] = IF i = 0 THEN down ELSE Step(F[i - 1], i)
    BY <1>2
  <2>2. 0 \in 0 .. k /\ \A i \in 1 .. k : i \in 0 .. k /\ i # 0
    OBVIOUS
  <2> QED BY <2>1, <2>2
<1> HIDE DEF Sent
<1> DEFINE G == {j \in 0 .. k : Bodies(F[j]) /\ Carries(F[j], asked, skip, total + j)}
<1>5. 0 \in G
  BY <1>4
<1>6. ASSUME NEW j \in 1 .. k, j - 1 \in G
      PROVE  j \in G
  <2> DEFINE before == F[j - 1]
             t == total + (j - 1)
             reply == HandleReceivedMessage(requests[j], body)
  <2>1. Bodies(before) /\ Carries(before, asked, skip, t)
    BY <1>6
  <2>2. t \in Nat /\ t + 1 = total + j /\ j \in 0 .. k
    OBVIOUS
  <2>3. reply.n = requests[j].n /\ IsSequence(reply.body)
    BY ReplyFacts DEF Asking
  <2>4. F[j] = before \o Pieces(requests[j].www, reply, size)
    BY <1>4
  <2> HIDE DEF before, t, reply
  <2>5. reply.n = asked[skip + (t + 1)]
    BY <2>2, <2>3 DEF Asking
  <2>6. Bodies(F[j]) /\ Carries(F[j], asked, skip, t + 1)
    BY <2>1, <2>2, <2>3, <2>4, <2>5, PiecesCarry
  <2> QED BY <2>2, <2>6
<1> HIDE DEF G
<1>7. k \in G
  <2>1. k \in 0 .. k
    OBVIOUS
  <2> QED BY <1>5, <1>6, <2>1, UpTo
<1> QED BY <1>3, <1>7 DEF G

\* A connection after k of the n requests that have come have been answered.
Replied(c, d, rest, down) ==
  /\ DOMAIN d = ConnFields /\ d.browser = c.browser /\ d.queue = c.queue /\ d.pending = c.pending
  /\ d.server = c.server /\ d.finUp = c.finUp /\ d.finDown = c.finDown /\ d.broken = c.broken
  /\ d.asked = c.asked /\ d.got = c.got /\ d.merged = c.merged /\ d.up = rest /\ d.down = down

LEMMA RepliedSound ==
  ASSUME NEW c, Sound(c), c.server = "CONNECTED",
         NEW n \in Nat, n = Len(c.up), NEW k \in 1 .. n, NEW size \in {1, 2},
         NEW www \in Registered, NEW body \in Generated(Content[www]),
         NEW d, Replied(c, d, SubSeq(c.up, k + 1, n), RepliesTo(c.up, k, size, body, c.down))
  PROVE  Sound(d)
<1> DEFINE g == Len(c.got)
           rest == SubSeq(c.up, k + 1, n)
           down == RepliesTo(c.up, k, size, body, c.down)
<1>1. /\ IsSequence(c.up) /\ IsSequence(c.got) /\ Bodies(c.down) /\ g \in Nat
      /\ \A i \in 1 .. n : c.up[i].www \in Registered
  <2>1. /\ IsSequence(c.up) /\ IsSequence(c.got) /\ Bodies(c.down)
        /\ \A i \in 1 .. n : c.up[i].www \in Registered
    BY DEF Sound, Shaped, Asks, Bodies
  <2> QED BY <2>1, SequenceFacts
<1>2. ~c.broken /\ Closes(c) /\ c.browser # "CONNECTING"
  <2>1. c.up # <<>>
    BY <1>1, SequenceFacts
  <2> QED BY <2>1 DEF Sound, Opening
<1>3. PICK total \in Nat : /\ Carries(c.down, c.asked, g, total) /\ Len(c.asked) = g + total + n
                           /\ \A i \in 1 .. n : c.up[i].n = c.asked[g + total + i]
  BY <1>2 DEF Sound, Flow
<1> HIDE DEF g
<1>4. Asking(c.up, k, c.asked, g, total)
  <2> SUFFICES \A i \in 1 .. k : c.up[i].www \in Registered /\ c.up[i].n = c.asked[g + (total + i)]
    BY DEF Asking
  <2> TAKE i \in 1 .. k
  <2>1. i \in 1 .. n /\ g + (total + i) = g + total + i
    BY <1>1
  <2> QED BY <1>1, <1>3, <2>1
<1>5. Bodies(down) /\ Carries(down, c.asked, g, total + k)
  <2>1. k \in Nat
    OBVIOUS
  <2> QED BY <1>1, <1>3, <1>4, <2>1, RepliesCarry
<1>6. IsSequence(rest) /\ Len(rest) = n - k /\ \A i \in 1 .. n - k : rest[i] = c.up[k + i]
  <2>1. k \in 0 .. n
    OBVIOUS
  <2> QED BY <1>1, <2>1, CutSequence
<1>7. /\ DOMAIN d = ConnFields /\ d.browser = c.browser /\ d.queue = c.queue /\ d.pending = c.pending
      /\ d.server = c.server /\ d.finUp = c.finUp /\ d.finDown = c.finDown /\ d.broken = c.broken
      /\ d.asked = c.asked /\ d.got = c.got /\ d.merged = c.merged /\ d.up = rest /\ d.down = down
  BY DEF Replied
<1> HIDE DEF rest, down
<1>8. \A i \in 1 .. n - k : rest[i].www \in Registered /\ rest[i].n = c.asked[g + (total + k) + i]
  <2> TAKE i \in 1 .. n - k
  <2>1. k + i \in 1 .. n /\ g + (total + k) + i = g + total + (k + i)
    BY <1>1
  <2> QED BY <1>1, <1>3, <1>6, <2>1
<1>9. Asks(rest)
  BY <1>6, <1>8 DEF Asks
<1>10. Flow(d)
  <2> DEFINE now == total + k
  <2>1. now \in Nat /\ Len(d.got) = g
    BY <1>7 DEF g
  <2>2. Carries(d.down, d.asked, Len(d.got), now)
    BY <1>5, <1>7, <2>1
  <2>3. g + now + (n - k) = g + total + n
    BY <1>1
  <2>4. \A i \in 1 .. n - k : rest[i].n = c.asked[g + now + i]
    BY <1>8
  <2> HIDE DEF now
  <2>7. d.asked = c.asked
    BY <1>7
  <2>5. Len(d.asked) = Len(d.got) + now + Len(d.up)
    BY <1>3, <1>6, <1>7, <2>1, <2>3, <2>7
  <2>6. \A i \in 1 .. Len(d.up) : d.up[i].n = d.asked[Len(d.got) + now + i]
    BY <1>6, <1>7, <2>1, <2>4
  <2> QED BY <2>1, <2>2, <2>5, <2>6, FlowFrom
<1>11. Shaped(d)
  BY <1>5, <1>7, <1>9 DEF Sound, Shaped, Bodies
<1>12. Closes(d)
  BY <1>2, <1>7 DEF Closes
<1>13. Prefix(d.got, d.asked) /\ d.browser # "CONNECTING" /\ ~d.broken
  BY <1>2, <1>7 DEF Sound
<1> QED BY <1>10, <1>11, <1>12, <1>13 DEF Sound, Opening

-----------------------------------------------------------------------------
(* All connections, and what goes without any.                             *)

\* One connection has changed.
LEMMA OneChanged ==
  ASSUME NEW q, ConnsSound(q), NEW id \in DOMAIN q, NEW t, t = [j \in DOMAIN q |-> t[j]],
         \A j \in DOMAIN q : j # id => t[j] = q[j], Sound(t[id])
  PROVE  ConnsSound(t)
<1>1. Len(q) \in Nat /\ DOMAIN q = 1 .. Len(q) /\ \A j \in 1 .. Len(q) : Sound(q[j])
  BY SequenceFacts DEF ConnsSound
<1>2. IsSequence(t) /\ Len(t) = Len(q)
  <2> DEFINE n == Len(q)
  <2>1. n \in Nat /\ t = [j \in 1 .. n |-> t[j]]
    BY <1>1
  <2> HIDE DEF n
  <2>2. IsSequence(t) /\ Len(t) = n
    BY <2>1, FunctionIsSequence
  <2> QED BY <2>2 DEF n
<1>3. ASSUME NEW j \in 1 .. Len(q) PROVE Sound(t[j])
  BY <1>1
<1> QED BY <1>2, <1>3 DEF ConnsSound

\* What the browser does for a page keeps the invariant.
LEMMA ExtendsSound ==
  ASSUME NEW s, NEW t, ConnsSound(s.conns), WireSound(s.wire), Extends(s, t)
  PROVE  ConnsSound(t.conns) /\ WireSound(t.wire)
<1>1. Len(s.conns) \in Nat /\ Len(t.conns) \in Nat /\ IsSequence(t.conns)
  BY SequenceFacts DEF ConnsSound, Extends, State
<1>2. ASSUME NEW id \in 1 .. Len(t.conns)
      PROVE  Sound(t.conns[id])
  <2>1. CASE id > Len(s.conns)
    <3>1. PICK requests : t.conns[id] = Connection(requests) /\ requests # <<>> /\ Asks(requests)
      BY <2>1 DEF Extends
    <3> QED BY <3>1, NewSound
  <2>2. CASE id <= Len(s.conns)
    <3>1. id \in 1 .. Len(s.conns)
      BY <1>1, <2>2
    <3> QED BY <3>1 DEF Extends, ConnsSound
  <2> QED BY <1>1, <2>1, <2>2
<1>3. WireSound(t.wire)
  BY DEF WireSound, Extends
<1> QED BY <1>1, <1>2, <1>3 DEF ConnsSound

LEMMA NowState == ConnsSound(conns) => State(Now) /\ Now.conns = conns /\ Now.wire = wire
BY DEF Now, State, StateFields, ConnsSound

\* A state that differs in what the browser keeps only.
LEMMA OnlyBrowser ==
  ASSUME NEW s, NEW t, Extends(s, t), NEW u, DOMAIN u = StateFields, u.conns = t.conns, u.wire = t.wire
  PROVE  Extends(s, u)
BY DEF Extends, State

\* One page is asked for.
LEMMA PageExtends ==
  ASSUME NEW s, State(s), NEW www, NEW resource
  PROVE  LET g == GeneratePageRequest(s, www, resource)
         IN Extends(s, SendRequestsToServer(g, www, <<g.made>>))
<1> DEFINE g == GeneratePageRequest(s, www, resource)
           made == Request(www, resource, FALSE, s.browser.requests + 1)
<1>1. DOMAIN g = StateFields /\ g.conns = s.conns /\ g.wire = s.wire /\ g.made = made
  BY DEF GeneratePageRequest, State, StateFields
<1>2. made.www = www
  BY DEF Request
<1> HIDE DEF g, made
<1>3. Extends(s, g)
  BY <1>1, ExtendsItself, OnlyBrowser
<1>4. State(g)
  BY <1>3 DEF Extends
<1>5. IsSequence(<<made>>) /\ \A i \in 1 .. Len(<<made>>) : <<made>>[i].www = www
  <2>1. <<made>> \in Seq({made})
    OBVIOUS
  <2>2. IsSequence(<<made>>)
    BY <2>1, SeqIsSequence
  <2> QED BY <1>2, <2>2
<1>6. Extends(g, SendRequestsToServer(g, www, <<made>>))
  BY <1>4, <1>5, SendExtends
<1>7. Extends(s, SendRequestsToServer(g, www, <<made>>))
  BY <1>3, <1>6, ExtendsOn
<1> QED BY <1>1, <1>7 DEF g

-----------------------------------------------------------------------------
(* Every step keeps the invariant.                                         *)

LEMMA BrowsesKeep ==
  ASSUME HttpInv, Browses
  PROVE  HttpInv'
<1>1. ConnsSound(conns) /\ WireSound(wire) /\ State(Now) /\ Now.conns = conns /\ Now.wire = wire
  BY NowState DEF HttpInv
<1>2. ASSUME NEW s, Extends(Now, s), conns' = s.conns, wire' = s.wire
      PROVE  HttpInv'
  <2>1. ConnsSound(s.conns) /\ WireSound(s.wire)
    BY <1>1, <1>2, ExtendsSound
  <2> QED BY <1>2, <2>1 DEF HttpInv
<1>3. ASSUME NEW s, DOMAIN s = StateFields, s.conns = conns, s.wire = wire
      PROVE  Extends(Now, s) /\ State(s)
  <2>1. Extends(Now, Now)
    BY <1>1, ExtendsItself
  <2>2. Extends(Now, s)
    BY <1>1, <1>3, <2>1, OnlyBrowser
  <2> QED BY <2>2 DEF Extends
<1>4. CASE SelfActivityStart \/ SelfStartSession \/ SelfNextMessage
  BY <1>1, <1>4 DEF HttpInv, SelfActivityStart, SelfStartSession, SelfNextMessage
<1>5. CASE SendRequestToRandomServer
  <2>1. PICK www, over :
          LET s == GeneratePageRequest(Now, www, "page")
              submitted == SendRequestsToServer(s, www, <<s.made>>)
          IN Becomes([submitted EXCEPT !.browser = ScheduleNextBrowseEvent(@, over)])
    BY <1>5 DEF SendRequestToRandomServer
  <2> DEFINE s == GeneratePageRequest(Now, www, "page")
             submitted == SendRequestsToServer(s, www, <<s.made>>)
             u == [submitted EXCEPT !.browser = ScheduleNextBrowseEvent(@, over)]
  <2>2. Extends(Now, submitted)
    BY <1>1, PageExtends
  <2>3. Becomes(u)
    BY <2>1
  <2> HIDE DEF submitted
  <2>4. DOMAIN u = StateFields /\ u.conns = submitted.conns /\ u.wire = submitted.wire
    BY <2>2 DEF Extends, State, StateFields
  <2> HIDE DEF u
  <2>5. Extends(Now, u)
    BY <2>2, <2>4, OnlyBrowser
  <2> QED BY <1>2, <2>3, <2>5 DEF Becomes
<1>6. CASE SelfScriptedEvent
  <2> DEFINE be == Head(browser.events)
             opened == [Now EXCEPT !.browser.events = Tail(@)]
             s == GeneratePageRequest(opened, be.www, be.resource)
             submitted == SendRequestsToServer(s, be.www, <<s.made>>)
             u == [submitted EXCEPT !.browser.timer = IF s.browser.events = <<>> THEN "off" ELSE @]
  <2>1. Becomes(u)
    BY <1>6 DEF SelfScriptedEvent
  <2>2. DOMAIN opened = StateFields /\ opened.conns = conns /\ opened.wire = wire
    BY <1>1 DEF Now, State, StateFields
  <2> HIDE DEF opened, be
  <2>3. Extends(Now, opened) /\ State(opened)
    BY <1>3, <2>2
  <2>4. Extends(opened, submitted)
    BY <2>3, PageExtends
  <2>5. Extends(Now, submitted)
    BY <1>1, <2>3, <2>4, ExtendsOn
  <2> HIDE DEF submitted, s
  <2>6. DOMAIN u = StateFields /\ u.conns = submitted.conns /\ u.wire = submitted.wire
    BY <2>5 DEF Extends, State, StateFields
  <2> HIDE DEF u
  <2>7. Extends(Now, u)
    BY <2>5, <2>6, OnlyBrowser
  <2> QED BY <1>2, <2>1, <2>7 DEF Becomes
<1>7. CASE SelfDelayedRequestMessage
  <2>1. PICK request : Becomes(SendRequestsToServer([Now EXCEPT !.browser.delayed = @ \ {request}],
                                                    request.www, <<request>>))
    BY <1>7 DEF SelfDelayedRequestMessage
  <2> DEFINE sent == [Now EXCEPT !.browser.delayed = @ \ {request}]
  <2>2. DOMAIN sent = StateFields /\ sent.conns = conns /\ sent.wire = wire
    BY <1>1 DEF Now, State, StateFields
  <2>3. Becomes(SendRequestsToServer(sent, request.www, <<request>>))
    BY <2>1
  <2> HIDE DEF sent
  <2>4. Extends(Now, sent) /\ State(sent)
    BY <1>3, <2>2
  <2>5. IsSequence(<<request>>) /\ \A i \in 1 .. Len(<<request>>) : <<request>>[i].www = request.www
    <3>1. <<request>> \in Seq({request})
      OBVIOUS
    <3>2. IsSequence(<<request>>)
      BY <3>1, SeqIsSequence
    <3> QED BY <3>2
  <2> DEFINE u == SendRequestsToServer(sent, request.www, <<request>>)
  <2>6. Extends(sent, u)
    BY <2>4, <2>5, SendExtends
  <2> HIDE DEF u
  <2>7. Extends(Now, u)
    BY <1>1, <2>4, <2>6, ExtendsOn
  <2> QED BY <1>2, <2>3, <2>7 DEF Becomes, u
<1> QED BY <1>4, <1>5, <1>6, <1>7 DEF Browses

LEMMA DirectKeeps ==
  ASSUME HttpInv, ServerDirect \/ BrowserDirect
  PROVE  HttpInv'
<1>1. ConnsSound(conns) /\ WireSound(wire) /\ State(Now) /\ Now.conns = conns /\ Now.wire = wire
  BY NowState DEF HttpInv
<1>2. CASE ServerDirect
  <2>1. PICK m \in wire : \E body \in Generated(Content[m.m.www]) :
          /\ m.to = "server"
          /\ wire' = (wire \ {m}) \cup {SendDirectToModule(m.m.www, HandleReceivedMessage(m.m, body))}
          /\ conns' = conns
    BY <1>2 DEF ServerDirect
  <2>0. PICK body \in Generated(Content[m.m.www]) :
          wire' = (wire \ {m}) \cup {SendDirectToModule(m.m.www, HandleReceivedMessage(m.m, body))}
    BY <2>1
  <2>2. m.m.www \in Registered /\ m.m.www # "server"
    BY <1>1, <2>1, ContentAssumption DEF WireSound
  <2> DEFINE reply == HandleReceivedMessage(m.m, body)
             new == SendDirectToModule(m.m.www, reply)
  <2>3. IsSequence(reply.body)
    BY <2>2, ReplyFacts
  <2> HIDE DEF reply
  <2>4. new.to = m.m.www /\ new.m = reply
    BY DEF SendDirectToModule
  <2>5. wire' = (wire \ {m}) \cup {new}
    BY <2>0 DEF reply
  <2> HIDE DEF new
  <2>6. WireSound(wire')
    BY <1>1, <2>2, <2>3, <2>4, <2>5 DEF WireSound
  <2> QED BY <1>1, <2>1, <2>6 DEF HttpInv
<1>3. CASE BrowserDirect
  <2>1. PICK m \in wire : m.to # "server" /\ Becomes(HandleDataMessage([Now EXCEPT !.wire = @ \ {m}], m.to, m.m))
    BY <1>3 DEF BrowserDirect
  <2> DEFINE base == [Now EXCEPT !.wire = @ \ {m}]
             t == HandleDataMessage(base, m.to, m.m)
  <2>2. DOMAIN base = StateFields /\ base.conns = conns /\ base.wire = wire \ {m}
    BY <1>1 DEF Now, State, StateFields
  <2> HIDE DEF base
  <2>3. State(base) /\ ConnsSound(base.conns) /\ WireSound(base.wire)
    BY <1>1, <2>2 DEF State, ConnsSound, WireSound
  <2>4. IsSequence(m.m.body)
    BY <1>1, <2>1 DEF WireSound
  <2>5. Extends(base, t)
    BY <2>3, <2>4, MessageExtends
  <2>6. Becomes(t)
    BY <2>1 DEF base
  <2> HIDE DEF t
  <2>7. ConnsSound(t.conns) /\ WireSound(t.wire)
    BY <2>3, <2>5, ExtendsSound
  <2> QED BY <2>6, <2>7 DEF Becomes, HttpInv
<1> QED BY <1>2, <1>3

\* Only this connection has changed, and it is sound.
LEMMA ConnectionKeeps ==
  ASSUME HttpInv, NEW id \in Ids, conns' = [j \in DOMAIN conns |-> conns'[j]],
         \A j \in DOMAIN conns : j # id => conns'[j] = conns[j], Sound(conns'[id]), wire' = wire
  PROVE  HttpInv'
<1>1. ConnsSound(conns) /\ WireSound(wire) /\ id \in DOMAIN conns
  BY DEF HttpInv, Ids
<1> DEFINE t == conns'
<1>2. t = [j \in DOMAIN conns |-> t[j]] /\ (\A j \in DOMAIN conns : j # id => t[j] = conns[j]) /\ Sound(t[id])
  OBVIOUS
<1> HIDE DEF t
<1>3. ConnsSound(t)
  BY <1>1, <1>2, OneChanged
<1> QED BY <1>1, <1>3 DEF HttpInv, t

LEMMA ConnectionFacts ==
  ASSUME HttpInv, NEW id \in Ids
  PROVE  /\ id \in DOMAIN conns /\ conns = [j \in DOMAIN conns |-> conns[j]]
         /\ Sound(conns[id]) /\ DOMAIN conns[id] = ConnFields
<1>1. IsSequence(conns) /\ \A j \in 1 .. Len(conns) : Sound(conns[j])
  BY DEF HttpInv, ConnsSound
<1>2. DOMAIN conns = 1 .. Len(conns)
  BY <1>1, SequenceFacts
<1>3. conns = [j \in DOMAIN conns |-> conns[j]]
  BY <1>1 DEF IsSequence
<1> QED BY <1>1, <1>2, <1>3 DEF Ids, Sound, Shaped

LEMMA EstablishedKeeps ==
  ASSUME HttpInv, NEW id \in Ids, SocketEstablished(id)
  PROVE  HttpInv'
<1> DEFINE c == conns[id]
           d == conns'[id]
<1>1. id \in DOMAIN conns /\ Sound(c) /\ DOMAIN c = ConnFields
  BY ConnectionFacts
<1>2. c.browser = "CONNECTING" /\ ~c.broken /\ wire' = wire
  BY DEF SocketEstablished
<1>3. /\ conns' = [j \in DOMAIN conns |-> conns'[j]]
      /\ \A j \in DOMAIN conns : j # id => conns'[j] = conns[j]
  BY <1>1 DEF SocketEstablished
<1>4. /\ DOMAIN d = ConnFields /\ d.browser = "CONNECTED" /\ d.queue = <<>>
      /\ d.up = c.queue /\ d.pending = Len(c.queue) /\ d.asked = [i \in DOMAIN c.queue |-> c.queue[i].n]
      /\ d.server = c.server /\ d.down = c.down /\ d.finUp = c.finUp /\ d.finDown = c.finDown
      /\ d.broken = c.broken /\ d.got = c.got /\ d.merged = c.merged
  BY <1>1 DEF SocketEstablished, ConnFields
<1> HIDE DEF c, d
<1>5. Sound(d)
  BY <1>1, <1>2, <1>4, EstablishedSound
<1> QED BY <1>2, <1>3, <1>5, ConnectionKeeps DEF d

LEMMA RepliedKeeps ==
  ASSUME HttpInv, NEW id \in Ids, ServerDataArrived(id)
  PROVE  HttpInv'
<1> DEFINE c == conns[id]
           d == conns'[id]
           n == Len(c.up)
<1>1. id \in DOMAIN conns /\ Sound(c) /\ DOMAIN c = ConnFields /\ c.up # <<>> /\ c.server = "CONNECTED" /\ wire' = wire
  BY ConnectionFacts DEF ServerDataArrived
<1>2. IsSequence(c.up) /\ n \in Nat /\ \A i \in 1 .. n : c.up[i].www \in Registered
  <2>1. IsSequence(c.up) /\ \A i \in 1 .. n : c.up[i].www \in Registered
    BY <1>1 DEF Sound, Shaped, Asks
  <2> QED BY <2>1, SequenceFacts
<1>3. PICK k \in 1 .. n : \E size \in {1, 2}, body \in Generated(Content[c.up[1].www]) :
        conns' = [conns EXCEPT ![id].up = SubSeq(@, k + 1, Len(@)), ![id].down = RepliesTo(c.up, k, size, body, @)]
  BY DEF ServerDataArrived
<1>4. PICK size \in {1, 2}, body \in Generated(Content[c.up[1].www]) :
        conns' = [conns EXCEPT ![id].up = SubSeq(@, k + 1, Len(@)), ![id].down = RepliesTo(c.up, k, size, body, @)]
  BY <1>3
<1> DEFINE www == c.up[1].www
           rest == SubSeq(c.up, k + 1, n)
           down == RepliesTo(c.up, k, size, body, c.down)
<1>5. www \in Registered /\ body \in Generated(Content[www])
  BY <1>2
<1>6. /\ conns' = [j \in DOMAIN conns |-> conns'[j]]
      /\ \A j \in DOMAIN conns : j # id => conns'[j] = conns[j]
  BY <1>1, <1>4
<1>7. Replied(c, d, rest, down)
  BY <1>1, <1>4 DEF Replied, ConnFields
<1> HIDE DEF c, d, www
<1>8. n = Len(c.up)
  OBVIOUS
<1> HIDE DEF n
<1>9. Sound(d)
  BY <1>1, <1>2, <1>5, <1>7, <1>8, RepliedSound
<1> QED BY <1>1, <1>6, <1>9, ConnectionKeeps DEF d

\* The sockets are accepted, closed and deleted.
LEMMA SocketsKeep ==
  ASSUME HttpInv, NEW id \in Ids,
         \/ SocketClosed(id) \/ ServerAccepts(id) \/ ServerPeerClosed(id) \/ ServerClosed(id)
  PROVE  HttpInv'
<1> DEFINE c == conns[id]
           d == conns'[id]
<1>1. id \in DOMAIN conns /\ Sound(c) /\ DOMAIN c = ConnFields
  BY ConnectionFacts
<1>2. wire' = wire
  BY DEF SocketClosed, ServerAccepts, ServerPeerClosed, ServerClosed
<1>3. /\ conns' = [j \in DOMAIN conns |-> conns'[j]]
      /\ \A j \in DOMAIN conns : j # id => conns'[j] = conns[j]
  BY <1>1 DEF SocketClosed, ServerAccepts, ServerPeerClosed, ServerClosed
<1>4. /\ DOMAIN d = ConnFields /\ d.queue = c.queue /\ d.pending = c.pending /\ d.up = c.up /\ d.down = c.down
      /\ d.broken = c.broken /\ d.asked = c.asked /\ d.got = c.got /\ d.merged = c.merged /\ d.finUp = c.finUp
  <2>1. CASE SocketClosed(id)
    BY <1>1, <2>1 DEF SocketClosed, ConnFields
  <2>2. CASE ServerAccepts(id)
    BY <1>1, <2>2 DEF ServerAccepts, ConnFields
  <2>3. CASE ServerPeerClosed(id)
    BY <1>1, <2>3 DEF ServerPeerClosed, ServerCloses, ConnFields
  <2>4. CASE ServerClosed(id)
    BY <1>1, <2>4 DEF ServerClosed, ConnFields
  <2> QED BY <2>1, <2>2, <2>3, <2>4
<1>5. CASE SocketClosed(id)
  <2>1. /\ c.browser = "LOCALLY_CLOSED" /\ c.finDown /\ c.down = <<>>
        /\ d.browser = "deleted" /\ d.server = c.server /\ d.finDown = c.finDown
    BY <1>1, <1>5 DEF SocketClosed, StreamEnds, ConnFields
  <2> HIDE DEF c, d
  <2>2. ~c.broken => Closes(d)
    BY <1>1, <1>4, <2>1 DEF Sound, Closes
  <2>3. d.server \in {"syn", "CONNECTED", "CLOSED", "deleted"}
    BY <1>1, <2>1 DEF Sound, Shaped
  <2>4. Sound(d)
    BY <1>1, <1>4, <2>1, <2>2, <2>3, ClosingSound
  <2> QED BY <1>2, <1>3, <2>4, ConnectionKeeps DEF d
<1>6. CASE ServerAccepts(id)
  <2>1. /\ c.browser # "CONNECTING" /\ c.server = "syn"
        /\ d.browser = c.browser /\ d.server = "CONNECTED" /\ d.finDown = c.finDown
    BY <1>1, <1>6 DEF ServerAccepts, ConnFields
  <2> HIDE DEF c, d
  <2>2. ~c.broken => Closes(d)
    BY <1>1, <1>4, <2>1 DEF Sound, Closes
  <2>3. d.browser \in {"CONNECTED", "LOCALLY_CLOSED", "deleted"}
    BY <1>1, <2>1 DEF Sound, Shaped
  <2>4. Sound(d)
    BY <1>1, <1>4, <2>1, <2>2, <2>3, ClosingSound
  <2> QED BY <1>2, <1>3, <2>4, ConnectionKeeps DEF d
<1>7. CASE ServerPeerClosed(id)
  <2>1. /\ c.server = "CONNECTED" /\ c.finUp /\ c.up = <<>>
        /\ d.browser = c.browser /\ d.server = "CLOSED" /\ d.finDown
    BY <1>1, <1>7 DEF ServerPeerClosed, PeerCloses, ServerCloses, ConnFields
  <2> HIDE DEF c, d
  <2>2. ~c.broken => Closes(d)
    BY <1>1, <1>4, <2>1 DEF Sound, Closes
  <2>3. c.browser # "CONNECTING" /\ d.browser \in {"CONNECTED", "LOCALLY_CLOSED", "deleted"}
    BY <1>1, <2>1 DEF Sound, Shaped, Opening
  <2>4. Sound(d)
    BY <1>1, <1>4, <2>1, <2>2, <2>3, ClosingSound
  <2> QED BY <1>2, <1>3, <2>4, ConnectionKeeps DEF d
<1>8. CASE ServerClosed(id)
  <2>1. /\ c.server = "CLOSED" /\ c.browser = "deleted"
        /\ d.browser = c.browser /\ d.server = "deleted" /\ d.finDown = c.finDown
    BY <1>1, <1>8 DEF ServerClosed, BothClosed, ConnFields
  <2> HIDE DEF c, d
  <2>2. ~c.broken => Closes(d)
    BY <1>1, <1>4, <2>1 DEF Sound, Closes
  <2>4. Sound(d)
    BY <1>1, <1>4, <2>1, <2>2, ClosingSound
  <2> QED BY <1>2, <1>3, <2>4, ConnectionKeeps DEF d
<1> QED BY <1>5, <1>6, <1>7, <1>8

\* A connection breaks, and both sides notice.
LEMMA BreaksKeep ==
  ASSUME HttpInv, NEW id \in Ids, Breaks(id) \/ SocketFailure(id) \/ ServerFailure(id)
  PROVE  HttpInv'
<1> DEFINE c == conns[id]
           d == conns'[id]
<1>1. id \in DOMAIN conns /\ Sound(c) /\ DOMAIN c = ConnFields
  BY ConnectionFacts
<1>2. wire' = wire
  BY DEF Breaks, SocketFailure, ServerFailure
<1>3. /\ conns' = [j \in DOMAIN conns |-> conns'[j]]
      /\ \A j \in DOMAIN conns : j # id => conns'[j] = conns[j]
  BY <1>1 DEF Breaks, SocketFailure, ServerFailure
<1>4. /\ c.pending = d.pending /\ d.asked = c.asked /\ d.got = c.got /\ DOMAIN d = ConnFields
      /\ d.queue = c.queue \/ d.queue = <<>>
  <2>1. CASE Breaks(id)
    BY <1>1, <2>1 DEF Breaks, ConnFields
  <2>2. CASE SocketFailure(id)
    BY <1>1, <2>2 DEF SocketFailure, ConnFields
  <2>3. CASE ServerFailure(id)
    BY <1>1, <2>3 DEF ServerFailure, ConnFields
  <2> QED BY <2>1, <2>2, <2>3
<1>5. CASE Breaks(id)
  <2>1. /\ d.broken /\ d.up = <<>> /\ d.down = <<>> /\ d.browser = c.browser /\ d.server = c.server
        /\ d.queue = c.queue /\ d.finUp = c.finUp /\ d.finDown = c.finDown
    BY <1>1, <1>5 DEF Breaks, ConnFields
  <2> HIDE DEF c, d
  <2>2. Opening(d)
    BY <1>1, <1>4, <2>1 DEF Sound, Opening
  <2>3. /\ d.browser \in {"CONNECTING", "CONNECTED", "LOCALLY_CLOSED", "deleted"}
        /\ d.server \in {"syn", "CONNECTED", "CLOSED", "deleted"}
    BY <1>1, <2>1 DEF Sound, Shaped
  <2>4. Sound(d)
    BY <1>1, <1>4, <2>1, <2>2, <2>3, BrokenSound
  <2> QED BY <1>2, <1>3, <2>4, ConnectionKeeps DEF d
<1>6. CASE SocketFailure(id)
  <2>1. c.broken /\ d.broken /\ d.up = c.up /\ d.down = c.down /\ d.browser = "deleted" /\ d.server = c.server
    BY <1>1, <1>6 DEF SocketFailure, ConnFields
  <2> HIDE DEF c, d
  <2>2. Opening(d) /\ d.up = <<>> /\ d.down = <<>>
    BY <1>1, <2>1 DEF Sound, Opening
  <2>3. d.server \in {"syn", "CONNECTED", "CLOSED", "deleted"}
    BY <1>1, <2>1 DEF Sound, Shaped
  <2>4. Sound(d)
    BY <1>1, <1>4, <2>1, <2>2, <2>3, BrokenSound
  <2> QED BY <1>2, <1>3, <2>4, ConnectionKeeps DEF d
<1>7. CASE ServerFailure(id)
  <2>1. /\ c.broken /\ c.server # "syn" /\ d.broken /\ d.up = c.up /\ d.down = c.down
        /\ d.browser = c.browser /\ d.server = "deleted"
    BY <1>1, <1>7 DEF ServerFailure, ConnFields
  <2> HIDE DEF c, d
  <2>2. Opening(d) /\ d.up = <<>> /\ d.down = <<>>
    BY <1>1, <2>1 DEF Sound, Opening
  <2>3. d.browser \in {"CONNECTING", "CONNECTED", "LOCALLY_CLOSED", "deleted"}
    BY <1>1, <2>1 DEF Sound, Shaped
  <2>4. Sound(d)
    BY <1>1, <1>4, <2>1, <2>2, <2>3, BrokenSound
  <2> QED BY <1>2, <1>3, <2>4, ConnectionKeeps DEF d
<1> QED BY <1>5, <1>6, <1>7

\* The pieces that arrive are handled one after the other, and the pages
\* among them may open further connections.
LEMMA ArrivedKeeps ==
  ASSUME HttpInv, NEW id \in Ids, SocketDataArrived(id)
  PROVE  HttpInv'
<1> DEFINE c == conns[id]
           d == conns'[id]
           n == Len(c.down)
<1>1. /\ id \in DOMAIN conns /\ Sound(c) /\ DOMAIN c = ConnFields
      /\ c.down # <<>> /\ c.browser \in {"CONNECTED", "LOCALLY_CLOSED"}
  BY ConnectionFacts DEF SocketDataArrived
<1>2. /\ IsSequence(conns) /\ (\A j \in 1 .. Len(conns) : Sound(conns[j])) /\ WireSound(wire)
      /\ Len(conns) \in Nat /\ DOMAIN conns = 1 .. Len(conns)
  BY SequenceFacts DEF HttpInv, ConnsSound
<1>3. IsSequence(c.down) /\ n \in Nat /\ \A i \in 1 .. n : IsSequence(c.down[i].reply.body)
  <2>1. IsSequence(c.down) /\ \A i \in 1 .. n : IsSequence(c.down[i].reply.body)
    BY <1>1 DEF Sound, Shaped
  <2> QED BY <2>1, SequenceFacts
<1>4. PICK k \in 1 .. n :
        LET came == SubSeq(c.down, 1, k)
            whole == At({i \in DOMAIN came : came[i].last}, came)
            replies == [i \in DOMAIN whole |-> whole[i].reply]
            www == IF replies = <<>> THEN "" ELSE whole[1].www
            handled == HandleAll([Now EXCEPT !.conns[id].down = SubSeq(@, k + 1, Len(@)),
                                             !.conns[id].pending = @ - 1], www, replies)
            s == [handled[1] EXCEPT !.conns[id] = Counted(@, handled[2], Len(whole) > 1)]
        IN Becomes(IF c.pending = 1 THEN [s EXCEPT !.conns[id] = Closing(@)] ELSE s)
  BY DEF SocketDataArrived
<1> DEFINE came == SubSeq(c.down, 1, k)
           whole == At(Lasts(came), came)
           replies == [i \in DOMAIN whole |-> whole[i].reply]
           www == IF replies = <<>> THEN "" ELSE whole[1].www
           base == [Now EXCEPT !.conns[id].down = SubSeq(@, k + 1, Len(@)), !.conns[id].pending = @ - 1]
           handled == HandleAll(base, www, replies)
           s == [handled[1] EXCEPT !.conns[id] = Counted(@, handled[2], Len(whole) > 1)]
           u == IF c.pending = 1 THEN [s EXCEPT !.conns[id] = Closing(@)] ELSE s
           numbers == [x \in 1 .. Len(whole) |-> whole[x].reply.n]
           rest == SubSeq(c.down, k + 1, n)
<1>5. Becomes(u)
  BY <1>4 DEF Lasts
\* The state in which the replies are handled.
<1>6. /\ DOMAIN base = StateFields /\ base.wire = wire
      /\ base.conns = [j \in DOMAIN conns |-> base.conns[j]]
      /\ \A j \in DOMAIN conns : j # id => base.conns[j] = conns[j]
      /\ base.conns[id] = [c EXCEPT !.down = rest, !.pending = @ - 1]
  <2>1. DOMAIN Now = StateFields /\ Now.conns = conns /\ Now.wire = wire
    BY DEF Now, StateFields
  <2>2. base = [Now EXCEPT !.conns = [conns EXCEPT ![id] = [c EXCEPT !.down = rest, !.pending = @ - 1]]]
    BY <1>1, <2>1 DEF ConnFields, StateFields
  <2> HIDE DEF base, rest
  <2> QED BY <1>1, <2>1, <2>2 DEF StateFields
<1> HIDE DEF base
<1>7. State(base)
  <2> DEFINE q == base.conns
             a == Len(conns)
  <2>1. a \in Nat /\ q = [j \in 1 .. a |-> q[j]]
    BY <1>2, <1>6
  <2> HIDE DEF q, a
  <2>2. IsSequence(q)
    BY <2>1, FunctionIsSequence
  <2> QED BY <1>6, <2>2 DEF State, q
<1>8. Len(base.conns) = Len(conns)
  <2> DEFINE q == base.conns
             a == Len(conns)
  <2>1. a \in Nat /\ q = [j \in 1 .. a |-> q[j]]
    BY <1>2, <1>6
  <2> HIDE DEF q, a
  <2>2. Len(q) = a
    BY <2>1, FunctionIsSequence
  <2> QED BY <2>2 DEF q, a
\* What has come.
<1>9. Begins(came, k, c.down)
  <2>1. k \in 0 .. n
    OBVIOUS
  <2> QED BY <1>3, <2>1, CutSequence DEF Begins
<1>10. Arrival(c, u.conns[id], rest, numbers) => Sound(u.conns[id])
  <2> HIDE DEF c, came, u
  <2>1. n \in Nat /\ n = Len(c.down)
    BY <1>3
  <2> HIDE DEF n
  <2> QED BY <1>1, <1>9, <2>1, ArrivedSound
<1>11. IsSequence(whole) /\ \A x \in 1 .. Len(whole) : IsSequence(whole[x].reply.body)
  <2>1. IsSequence(came) /\ k \in Nat /\ k = Len(came) /\ \A i \in 1 .. k : came[i] = c.down[i]
    BY <1>9 DEF Begins
  <2> HIDE DEF came
  <2>2. PICK m : Marks(m, k, Lasts(came))
    BY <2>1, MarksExist
  <2>3. /\ IsSequence(whole) /\ Len(whole) = m[k]
        /\ \A x \in 1 .. m[k] : \E i \in 1 .. k : i \in Lasts(came) /\ m[i] = x /\ whole[x] = came[i]
    BY <2>1, <2>2, MarkedElements
  <2> HIDE DEF whole
  <2>4. ASSUME NEW x \in 1 .. Len(whole) PROVE IsSequence(whole[x].reply.body)
    <3>1. PICK i \in 1 .. k : whole[x] = came[i]
      BY <2>3
    <3>2. i \in 1 .. n /\ came[i] = c.down[i]
      BY <1>3, <2>1
    <3> QED BY <1>3, <3>1, <3>2
  <2> QED BY <2>3, <2>4
<1> HIDE DEF whole, came
<1>12. /\ IsSequence(replies) /\ Len(replies) = Len(whole) /\ DOMAIN whole = 1 .. Len(whole)
       /\ \A i \in 1 .. Len(whole) : replies[i] = whole[i].reply
  <2>1. Len(whole) \in Nat /\ DOMAIN whole = 1 .. Len(whole)
    BY <1>11, SequenceFacts
  <2> DEFINE w == Len(whole)
  <2>2. w \in Nat /\ replies = [i \in 1 .. w |-> replies[i]] /\ \A i \in 1 .. w : replies[i] = whole[i].reply
    BY <2>1
  <2> HIDE DEF replies, w
  <2>3. IsSequence(replies) /\ Len(replies) = w
    BY <2>2, FunctionIsSequence
  <2> QED BY <2>1, <2>2, <2>3 DEF w
<1> HIDE DEF replies
\* The state after they have been handled.
<1>13. Extends(base, handled[1]) /\ handled[2] = [i \in 1 .. Len(replies) |-> replies[i].n]
  <2>1. \A i \in 1 .. Len(replies) : IsSequence(replies[i].body)
    BY <1>11, <1>12
  <2> HIDE DEF www
  <2> QED BY <1>7, <1>12, <2>1, AllExtends
<1>14. handled[2] = numbers
  BY <1>12, <1>13
<1> HIDE DEF handled
<1> DEFINE h == handled[1]
<1>15. /\ DOMAIN h = StateFields /\ IsSequence(h.conns) /\ Len(h.conns) \in Nat /\ DOMAIN h.conns = 1 .. Len(h.conns)
       /\ Len(conns) <= Len(h.conns)
       /\ \A j \in 1 .. Len(conns) : h.conns[j] = base.conns[j]
       /\ \A j \in 1 .. Len(h.conns) : j > Len(conns) =>
            \E requests : h.conns[j] = Connection(requests) /\ requests # <<>> /\ Asks(requests)
  <2>1. DOMAIN h = StateFields /\ IsSequence(h.conns)
    BY <1>13 DEF Extends, State
  <2>2. Len(h.conns) \in Nat /\ DOMAIN h.conns = 1 .. Len(h.conns)
    BY <2>1, SequenceFacts
  <2> QED BY <1>8, <1>13, <2>1, <2>2 DEF Extends
<1>16. WireSound(h.wire)
  BY <1>2, <1>6, <1>13 DEF Extends, WireSound
<1>17. id \in DOMAIN h.conns /\ h.conns[id] = [c EXCEPT !.down = rest, !.pending = @ - 1]
  BY <1>1, <1>2, <1>6, <1>15
<1>18. h.conns = [j \in DOMAIN h.conns |-> h.conns[j]]
  <2>1. IsSequence(h.conns)
    BY <1>15
  <2> DEFINE q == h.conns
  <2>2. IsSequence(q)
    BY <2>1
  <2> HIDE DEF q
  <2>3. q = [j \in DOMAIN q |-> q[j]]
    BY <2>2 DEF IsSequence
  <2> QED BY <2>3 DEF q
<1> DEFINE b == [c EXCEPT !.down = rest, !.pending = @ - 1]
           several == Len(whole) > 1
           e == Counted(b, numbers, several)
           f == IF c.pending = 1 THEN Closing(e) ELSE e
<1>19. /\ DOMAIN u = StateFields /\ u.wire = h.wire
       /\ u.conns = [h.conns EXCEPT ![id] = f]
  <2> DEFINE q == h.conns
  <2>1. q[id] = b /\ id \in DOMAIN q /\ DOMAIN h = StateFields /\ h.conns = q /\ q = [j \in DOMAIN q |-> q[j]]
    BY <1>15, <1>17, <1>18
  <2>2. s = [h EXCEPT !.conns[id] = Counted(@, numbers, several)]
    BY <1>14
  <2> HIDE DEF h, numbers, b, several, s, q
  <2>3. DOMAIN s = StateFields /\ s.wire = h.wire /\ s.conns = [q EXCEPT ![id] = e]
    <3>1. s = [h EXCEPT !.conns = [q EXCEPT ![id] = e]]
      BY <2>1, <2>2
    <3> HIDE DEF e
    <3> QED BY <2>1, <3>1 DEF StateFields
  <2>4. CASE c.pending = 1
    <3>1. u = [s EXCEPT !.conns[id] = Closing(@)] /\ f = Closing(e)
      BY <2>4
    <3>2. s.conns[id] = e
      BY <2>1, <2>3
    <3> HIDE DEF e, f, u
    <3>3. u = [s EXCEPT !.conns = [s.conns EXCEPT ![id] = f]]
      BY <3>1, <3>2
    <3>4. u.conns = [s.conns EXCEPT ![id] = f] /\ DOMAIN u = StateFields /\ u.wire = s.wire
      BY <2>3, <3>3 DEF StateFields
    <3>5. [s.conns EXCEPT ![id] = f] = [q EXCEPT ![id] = f]
      BY <2>1, <2>3
    <3> QED BY <2>3, <3>4, <3>5 DEF q
  <2>5. CASE c.pending # 1
    <3>1. u = s /\ f = e
      BY <2>5
    <3> QED BY <2>3, <3>1 DEF q
  <2> QED BY <2>4, <2>5
<1>20. Arrival(c, f, rest, numbers)
  <2>1. Len(numbers) = Len(whole)
    <3> DEFINE w == Len(whole)
    <3>1. w \in Nat /\ numbers = [x \in 1 .. w |-> numbers[x]]
      BY <1>11, SequenceFacts
    <3> HIDE DEF w, numbers
    <3>2. Len(numbers) = w
      BY <3>1, FunctionIsSequence
    <3> QED BY <3>2 DEF w
  <2> HIDE DEF numbers, rest
  <2>2. /\ DOMAIN b = ConnFields /\ b.down = rest /\ b.pending = c.pending - 1
        /\ b.browser = c.browser /\ b.queue = c.queue /\ b.server = c.server /\ b.up = c.up /\ b.finUp = c.finUp
        /\ b.finDown = c.finDown /\ b.broken = c.broken /\ b.asked = c.asked /\ b.got = c.got /\ b.merged = c.merged
    BY <1>1 DEF ConnFields
  <2> HIDE DEF b, several, c
  <2>3. /\ DOMAIN e = ConnFields /\ e.down = rest /\ e.pending = c.pending - 1
        /\ e.browser = c.browser /\ e.queue = c.queue /\ e.server = c.server /\ e.up = c.up /\ e.finUp = c.finUp
        /\ e.finDown = c.finDown /\ e.broken = c.broken /\ e.asked = c.asked /\ e.got = c.got \o numbers
    BY <2>2 DEF Counted, ConnFields
  <2>4. e.merged = (c.merged \/ several)
    <3>1. e.merged = (b.merged \/ several)
      BY <2>2 DEF Counted, ConnFields
    <3> QED BY <2>2, <3>1
  <2>5. e.merged = (c.merged \/ Len(numbers) > 1)
    BY <2>1, <2>4 DEF several
  <2> HIDE DEF e
  <2>6. CASE c.pending = 1
    <3>1. f = Closing(e)
      BY <2>6
    <3> HIDE DEF f
    <3>2. /\ DOMAIN f = ConnFields /\ f.down = e.down /\ f.pending = e.pending /\ f.browser = "LOCALLY_CLOSED" /\ f.finUp
          /\ f.queue = e.queue /\ f.server = e.server /\ f.up = e.up /\ f.finDown = e.finDown /\ f.broken = e.broken
          /\ f.asked = e.asked /\ f.got = e.got /\ f.merged = e.merged
      BY <2>3, <3>1 DEF Closing, ConnFields
    <3> QED BY <2>3, <2>5, <2>6, <3>2 DEF Arrival
  <2>7. CASE c.pending # 1
    <3>1. f = e
      BY <2>7
    <3> HIDE DEF f
    <3> QED BY <2>3, <2>5, <2>7, <3>1 DEF Arrival
  <2> QED BY <2>6, <2>7
<1> HIDE DEF f, u, h
<1>21. u.conns[id] = f /\ DOMAIN u.conns = DOMAIN h.conns /\ \A j \in DOMAIN h.conns : j # id => u.conns[j] = h.conns[j]
  BY <1>17, <1>19
<1>22. Sound(u.conns[id])
  BY <1>10, <1>20, <1>21
<1>23. IsSequence(u.conns) /\ Len(u.conns) = Len(h.conns)
  <2> DEFINE q == u.conns
             a == Len(h.conns)
  <2>1. a \in Nat /\ q = [j \in 1 .. a |-> q[j]]
    BY <1>15, <1>19, <1>21
  <2> HIDE DEF q, a
  <2>2. IsSequence(q) /\ Len(q) = a
    BY <2>1, FunctionIsSequence
  <2> QED BY <2>2 DEF q, a
<1>24. ASSUME NEW j \in 1 .. Len(h.conns) PROVE Sound(u.conns[j])
  <2>1. CASE j = id
    BY <1>22, <2>1
  <2>2. CASE j # id /\ j \in 1 .. Len(conns)
    <3>1. u.conns[j] = conns[j]
      BY <1>2, <1>6, <1>15, <1>21, <2>2
    <3> QED BY <1>2, <2>2, <3>1
  <2>3. CASE j # id /\ j > Len(conns)
    <3>1. PICK requests : h.conns[j] = Connection(requests) /\ requests # <<>> /\ Asks(requests)
      BY <1>15, <2>3
    <3>2. u.conns[j] = h.conns[j]
      BY <1>15, <1>21, <2>3
    <3> QED BY <3>1, <3>2, NewSound
  <2> QED BY <1>2, <1>15, <2>1, <2>2, <2>3
<1>25. ConnsSound(u.conns) /\ WireSound(u.wire)
  BY <1>16, <1>19, <1>23, <1>24 DEF ConnsSound
<1> QED BY <1>5, <1>25 DEF Becomes, HttpInv

LEMMA HttpNext == HttpInv /\ [Next]_vars => HttpInv'
<1> SUFFICES ASSUME HttpInv, [Next]_vars PROVE HttpInv'
  OBVIOUS
<1>1. CASE Browses
  BY <1>1, BrowsesKeep
<1>2. CASE Controls \/ UNCHANGED vars
  BY <1>2 DEF Controls, vars, HttpInv
<1>3. CASE Arrives
  <2>1. CASE ServerDirect \/ BrowserDirect
    BY <2>1, DirectKeeps
  <2>2. ASSUME NEW id \in Ids, SocketEstablished(id) PROVE HttpInv'
    BY <2>2, EstablishedKeeps
  <2>3. ASSUME NEW id \in Ids, SocketDataArrived(id) PROVE HttpInv'
    BY <2>3, ArrivedKeeps
  <2>4. ASSUME NEW id \in Ids, ServerDataArrived(id) PROVE HttpInv'
    BY <2>4, RepliedKeeps
  <2>5. ASSUME NEW id \in Ids, SocketClosed(id) \/ ServerAccepts(id) \/ ServerPeerClosed(id) \/ ServerClosed(id)
        PROVE  HttpInv'
    BY <2>5, SocketsKeep
  <2>6. ASSUME NEW id \in Ids, Breaks(id) \/ SocketFailure(id) \/ ServerFailure(id) PROVE HttpInv'
    BY <2>6, BreaksKeep
  <2> QED BY <1>3, <2>1, <2>2, <2>3, <2>4, <2>5, <2>6 DEF Arrives
<1> QED BY <1>1, <1>2, <1>3 DEF Next

LEMMA HttpStart == Init => HttpInv
BY EmptySequence DEF Init, HttpInv, ConnsSound, WireSound

-----------------------------------------------------------------------------
\* When nothing is under way all that was asked has been answered.
LEMMA StuckFacts ==
  ASSUME NEW c, Sound(c), Stuck(c)
  PROVE  Len(c.got) = Len(c.asked) /\ Len(c.got) \in Nat /\ IsSequence(c.asked) /\ Closes(c) /\ Shaped(c)
<1>1. /\ Flow(c) /\ Closes(c) /\ Shaped(c) /\ c.up = <<>> /\ c.down = <<>>
      /\ IsSequence(c.got) /\ IsSequence(c.asked)
  BY DEF Sound, Stuck, Shaped
<1>2. PICK total \in Nat : Carries(<<>>, c.asked, Len(c.got), total) /\ Len(c.asked) = Len(c.got) + total + Len(<<>>)
  BY <1>1 DEF Flow
<1>3. total = 0
  BY <1>2, CarriesNone
<1>4. Len(c.got) \in Nat /\ Len(c.asked) \in Nat /\ Len(<<>>) = 0
  BY <1>1, SequenceFacts, EmptySequence
<1> QED BY <1>1, <1>2, <1>3, <1>4

LEMMA AnsweredFollows == HttpInv => Answered
<1> SUFFICES ASSUME HttpInv, NEW id \in Ids
             PROVE  Prefix(conns[id].got, conns[id].asked) /\ (Stuck(conns[id]) => conns[id].got = conns[id].asked)
  BY DEF Answered
<1> DEFINE c == conns[id]
<1>1. Sound(c)
  BY ConnectionFacts
<1> HIDE DEF c
<1>2. Prefix(c.got, c.asked)
  BY <1>1 DEF Sound
<1>3. ASSUME Stuck(c) PROVE c.got = c.asked
  <2>1. Len(c.got) = Len(c.asked) /\ Len(c.got) \in Nat /\ IsSequence(c.asked)
    BY <1>1, <1>3, StuckFacts
  <2> DEFINE n == Len(c.asked)
             asked == c.asked
  <2>2. n \in Nat /\ n \in 0 .. n /\ n = Len(asked) /\ IsSequence(asked) /\ c.got = SubSeq(asked, 1, n)
    BY <1>2, <2>1 DEF Prefix
  <2> HIDE DEF n, asked
  <2>3. IsSequence(SubSeq(asked, 1, n)) /\ Len(SubSeq(asked, 1, n)) = n /\ \A i \in 1 .. n : SubSeq(asked, 1, n)[i] = asked[i]
    BY <2>2, CutSequence
  <2>4. SubSeq(asked, 1, n) = asked
    BY <2>2, <2>3, SequencesEqual
  <2> QED BY <2>2, <2>4 DEF asked
<1> QED BY <1>2, <1>3 DEF c

LEMMA OpenFollows == HttpInv => NoneLeftOpen
<1> SUFFICES ASSUME HttpInv, NEW id \in Ids, Stuck(conns[id]),
                    ~StreamEnds(conns[id]), ~PeerCloses(conns[id]), ~BothClosed(conns[id])
             PROVE  (conns[id].browser = "deleted" /\ conns[id].server = "deleted") \/ conns[id].merged
  BY DEF NoneLeftOpen
<1> DEFINE c == conns[id]
<1>1. Sound(c)
  BY ConnectionFacts
<1>2. Stuck(c) /\ ~StreamEnds(c) /\ ~PeerCloses(c) /\ ~BothClosed(c)
  OBVIOUS
<1> HIDE DEF c
<1>3. Len(c.got) = Len(c.asked) /\ Len(c.got) \in Nat /\ Closes(c) /\ Shaped(c)
  BY <1>1, <1>2, StuckFacts
<1>4. c.pending \in Int /\ c.browser \in {"CONNECTED", "LOCALLY_CLOSED", "deleted"} /\ c.server \in {"CONNECTED", "CLOSED", "deleted"}
  BY <1>2, <1>3 DEF Shaped, Stuck
<1>5. CASE c.browser = "CONNECTED"
  <2>1. c.pending >= 1 /\ (~c.merged => c.pending <= Len(c.asked) - Len(c.got))
    BY <1>3, <1>5 DEF Closes
  <2> QED BY <1>3, <1>4, <2>1 DEF c
<1>6. CASE c.browser = "LOCALLY_CLOSED"
  BY <1>2, <1>3, <1>4, <1>6 DEF Closes, Stuck, StreamEnds, PeerCloses
<1>7. CASE c.browser = "deleted"
  BY <1>2, <1>3, <1>4, <1>7 DEF Closes, BothClosed, c
<1> QED BY <1>4, <1>5, <1>6, <1>7

\* What comes back on a connection are the answers to its requests, in their
\* order and once, and when nothing is under way all of them have come.
THEOREM AlwaysAnswered == Spec => []Answered
BY HttpStart, HttpNext, AnsweredFollows, PTL DEF Spec

\* Both sides close and delete their sockets, unless one arrival brought
\* several replies.
THEOREM NoneEverLeftOpen == Spec => []NoneLeftOpen
BY HttpStart, HttpNext, OpenFollows, PTL DEF Spec
=============================================================================
