----------------------------- MODULE HtbProofs -----------------------------
(***************************************************************************)
(* Theorems about HtbScheduler, for every tree and all numbers: its feeds  *)
(* and wait queues first; then its timer, stored modes and choices, which  *)
(* follow the buckets; last that it implements HtbPolicy.                  *)
(***************************************************************************)
EXTENDS HtbRefinement, FiniteSetTheorems, WellFoundedInduction, TLAPS

(***************************************************************************)
(* Least elements, and the current class of a feed.                        *)
(***************************************************************************)

\* A nonempty set of naturals has a least element, and Least is it.
LEMMA LeastElement ==
  ASSUME NEW S \in SUBSET Nat, S # {}
  PROVE  Least(S) \in S /\ \A y \in S : Least(S) <= y
<1> DEFINE R == {ss \in Nat \X Nat : ss[1] < ss[2]}
<1>1. IsWellFoundedOn(R, Nat)
  BY NatLessThanWellFounded DEF OpToRel
<1> HIDE DEF R
<1>2. \E x \in S : \A y \in S : ~ (<<y, x>> \in R)
  BY <1>1, WFMin
<1>3. PICK x \in S : \A y \in S : ~ (<<y, x>> \in R)
  BY <1>2
<1>4. \A y \in S : x <= y
  <2> TAKE y \in S
  <2>1. ~ (<<y, x>> \in R) /\ x \in Nat /\ y \in Nat
    BY <1>3
  <2>2. ~(y < x)
    BY <2>1 DEF R
  <2> QED BY <2>1, <2>2
<1> QED BY <1>4 DEF Least

\* The current class of a nonempty feed is in the feed; that of an empty feed
\* is where the pointer points to.
LEMMA CurrentClass ==
  ASSUME NEW S \in SUBSET Classes, NEW ptr \in Classes \cup {NULL}
  PROVE  /\ S # {} => Current(S, ptr) \in S
         /\ S = {} => Current(S, ptr) = ptr
<1>1. Classes \subseteq Nat /\ NULL \in Nat
  BY TreeAssumption DEF Classes, NULL
<1>2. CASE S = {}
  <2>1. Least({ptr}) = ptr
    BY <1>1, LeastElement
  <2> QED BY <1>2, <2>1, <1>1 DEF Current, CyclicNext
<1>3. CASE S # {} /\ ptr \notin S
  <2> DEFINE T == {x \in S \cup {ptr} : ptr < x}
  <2>1. CASE T # {}
    <3>1. Least(T) \in T
      BY <2>1, <1>1, LeastElement
    <3>2. T \subseteq S
      BY <1>1
    <3> QED BY <1>3, <2>1, <3>1, <3>2 DEF Current, CyclicNext
  <2>2. CASE T = {}
    <3>1. Least(S \cup {ptr}) \in S \cup {ptr} /\ \A y \in S \cup {ptr} : Least(S \cup {ptr}) <= y
      BY <1>1, LeastElement
    <3>2. PICK x \in S : x < ptr
      <4>1. PICK x \in S : TRUE
        BY <1>3
      <4>2. x \in Nat /\ ptr \in Nat /\ x # ptr /\ ~(ptr < x)
        BY <1>1, <1>3, <2>2, <4>1
      <4> QED BY <4>1, <4>2
    <3>3. Least(S \cup {ptr}) # ptr
      BY <1>1, <3>1, <3>2
    <3> QED BY <1>3, <2>2, <3>1, <3>3 DEF Current, CyclicNext
  <2> QED BY <2>1, <2>2
<1>4. CASE ptr \in S
  BY <1>4 DEF Current
<1> QED BY <1>2, <1>3, <1>4

(***************************************************************************)
(* Paths: the least sets closed under Parent.  A statement about all       *)
(* members of Path[c] holds when the set of the classes it is true of      *)
(* holds c and is closed.                                                  *)
(***************************************************************************)

LEMMA PathLeast ==
  ASSUME NEW c \in Classes, NEW S \in SUBSET Classes,
         c \in S, \A x \in S : Parent[x] # NULL => Parent[x] \in S
  PROVE  Path[c] \subseteq S
BY DEF Path

\* A path has its beginning and the parents of its classes, and only classes.
LEMMA PathClosed ==
  ASSUME NEW c \in Classes
  PROVE  /\ Path[c] \subseteq Classes
         /\ c \in Path[c]
         /\ \A d \in Path[c] : d # Root => Parent[d] \in Path[c] /\ Parent[d] \in Classes
<1>1. Path[c] \subseteq Classes /\ c \in Path[c]
  BY DEF Path
<1>2. ASSUME NEW d \in Path[c], d # Root
      PROVE  Parent[d] \in Path[c] /\ Parent[d] \in Classes
  <2>1. Parent[d] \in Classes /\ Parent[d] # NULL
    BY <1>1, <1>2, TreeAssumption
  <2> QED BY <1>1, <1>2, <2>1 DEF Path
<1> QED BY <1>1, <1>2

\* The rest of a path is the path of the parent.
LEMMA PathStep ==
  ASSUME NEW c \in Classes, NEW d \in Path[c], d # c
  PROVE  c # Root /\ Parent[c] \in Classes /\ d \in Path[Parent[c]]
<1>1. CASE c = Root
  <2> DEFINE S == {c}
  <2>1. \A x \in S : Parent[x] # NULL => Parent[x] \in S
    BY <1>1, TreeAssumption
  <2>2. S \subseteq Classes /\ c \in S
    OBVIOUS
  <2>3. Path[c] \subseteq S
    BY <2>1, <2>2, PathLeast
  <2> QED BY <2>3
<1>2. CASE c # Root
  <2>1. Parent[c] \in Classes
    BY <1>2, TreeAssumption
  <2> DEFINE S == {c} \cup Path[Parent[c]]
  <2>2. \A x \in S : Parent[x] # NULL => Parent[x] \in S
    BY <2>1, PathClosed, TreeAssumption
  <2>3. S \subseteq Classes /\ c \in S
    BY <2>1, PathClosed
  <2>4. Path[c] \subseteq S
    BY <2>2, <2>3, PathLeast
  <2> QED BY <1>2, <2>1, <2>4
<1> QED BY <1>1, <1>2

\* Levels rise along a path.
LEMMA PathRises ==
  ASSUME NEW c \in Classes, NEW d \in Path[c]
  PROVE  d = c \/ Level[c] < Level[d]
<1> DEFINE S == {x \in Classes : x = c \/ Level[c] < Level[x]}
<1>1. ASSUME NEW x \in S, Parent[x] # NULL
      PROVE  Parent[x] \in S
  <2>1. x # Root /\ Parent[x] \in Classes /\ Level[x] < Level[Parent[x]]
    BY <1>1, TreeAssumption
  <2>2. Level[x] \in Nat /\ Level[c] \in Nat /\ Level[Parent[x]] \in Nat
    BY <2>1, TreeAssumption
  <2> QED BY <1>1, <2>1, <2>2
<1>2. Path[c] \subseteq S
  BY <1>1, PathLeast
<1> QED BY <1>2

\* Every class of a path but the first is the parent of one on the path.
LEMMA PathChild ==
  ASSUME NEW c \in Classes, NEW d \in Path[c], d # c
  PROVE  \E e \in Path[c] : Parent[e] = d
<1> DEFINE S == {x \in Path[c] : x = c \/ \E e \in Path[c] : Parent[e] = x}
<1>1. \A x \in S : Parent[x] # NULL => Parent[x] \in S
  BY PathClosed, TreeAssumption
<1>2. S \subseteq Classes /\ c \in S
  BY PathClosed
<1>3. Path[c] \subseteq S
  BY <1>1, <1>2, PathLeast
<1> QED BY <1>3

\* Of two classes on a path one is on the path of the other.
LEMMA PathLinear ==
  ASSUME NEW c \in Classes, NEW d \in Path[c], NEW e \in Path[c]
  PROVE  d \in Path[e] \/ e \in Path[d]
<1> DEFINE S == {x \in Path[c] : \A y \in Path[c] : y \in Path[x] \/ x \in Path[y]}
<1>1. Path[c] \subseteq Classes
  BY PathClosed
<1>2. ASSUME NEW x \in S, Parent[x] # NULL
      PROVE  Parent[x] \in S
  <2>1. x \in Classes /\ x # Root /\ Parent[x] \in Path[c] /\ Parent[x] \in Classes
    BY <1>1, <1>2, PathClosed, TreeAssumption
  <2>2. ASSUME NEW y \in Path[c]
        PROVE  y \in Path[Parent[x]] \/ Parent[x] \in Path[y]
    <3>0. y \in Classes
      BY <1>1
    <3>1. CASE x \in Path[y]
      BY <3>0, <3>1, <2>1, PathClosed
    <3>2. CASE y \in Path[x] /\ y # x
      BY <3>0, <3>2, <2>1, PathStep
    <3>3. CASE y = x
      BY <3>3, <2>1, PathClosed
    <3> QED BY <1>2, <3>1, <3>2, <3>3
  <2> QED BY <2>1, <2>2
<1>3. c \in S
  BY PathClosed
<1>4. Path[c] \subseteq S
  BY <1>1, <1>2, <1>3, PathLeast
<1> QED BY <1>4

\* So the classes of a path differ in their levels, and a class is the only
\* one on the path whose parent is the parent of another.
LEMMA PathLevels ==
  ASSUME NEW c \in Classes, NEW d \in Path[c], NEW e \in Path[c]
  PROVE  /\ Level[d] = Level[e] => d = e
         /\ Level[d] < Level[e] => e \in Path[d]
         /\ d # Root /\ e # Root /\ Parent[d] = Parent[e] => d = e
<1>1. d \in Classes /\ e \in Classes /\ Level[d] \in Nat /\ Level[e] \in Nat
  BY PathClosed, TreeAssumption
<1>2. d = e \/ (Level[d] < Level[e] /\ e \in Path[d]) \/ (Level[e] < Level[d] /\ d \in Path[e])
  BY <1>1, PathLinear, PathRises
<1>3. ASSUME NEW x \in Path[c], NEW y \in Path[c], x # Root, y # Root,
             Parent[x] = Parent[y], x # y, y \in Path[x]
      PROVE  FALSE
  <2>1. x \in Classes /\ y \in Classes /\ Parent[x] \in Classes
    BY <1>3, PathClosed
  <2>2. y \in Path[Parent[y]]
    BY <1>3, <2>1, PathStep
  <2>3. y = Parent[y] \/ Level[Parent[y]] < Level[y]
    BY <2>1, <2>2, <1>3, PathRises
  <2> QED BY <2>1, <2>3, <1>3, TreeAssumption
<1> QED BY <1>1, <1>2, <1>3

(***************************************************************************)
(* Chains of classes that borrow.                                          *)
(***************************************************************************)

\* A chain begins at cl and climbs over every yellow class.
LEMMA ChainClimbs ==
  ASSUME NEW m, NEW cl \in Classes
  PROVE  /\ Chain(m, cl) \subseteq Path[cl] /\ Chain(m, cl) \subseteq Classes
         /\ cl \in Chain(m, cl)
         /\ \A d \in Chain(m, cl) :
              m[d] = Yellow /\ d # Root => Parent[d] \in Chain(m, cl) \ {cl}
<1>1. Chain(m, cl) \subseteq Path[cl] /\ Path[cl] \subseteq Classes
  BY PathClosed DEF Chain
<1>2. cl \in Chain(m, cl)
  <2>1. \A e \in Path[cl] : ~(Level[e] < Level[cl])
    BY <1>1, PathRises, TreeAssumption
  <2> QED BY <2>1, PathClosed DEF Chain
<1>3. ASSUME NEW d \in Chain(m, cl), m[d] = Yellow, d # Root
      PROVE  Parent[d] \in Chain(m, cl) \ {cl}
  <2>1. d \in Path[cl] /\ Parent[d] \in Path[cl] /\ Parent[d] \in Classes /\ d \in Classes
    BY <1>1, <1>3, PathClosed
  <2>2. Level[d] < Level[Parent[d]] /\ (d = cl \/ Level[cl] < Level[d])
    BY <1>3, <2>1, PathRises, TreeAssumption
  <2>3. Parent[d] # cl
    BY <2>1, <2>2, TreeAssumption
  <2>4. ASSUME NEW e \in Path[cl], Level[e] < Level[Parent[d]]
        PROVE  m[e] = Yellow
    <3>0. e \in Classes /\ Level[e] \in Nat /\ Level[d] \in Nat /\ Level[Parent[d]] \in Nat
      BY <1>1, <2>1, TreeAssumption
    <3>1. CASE e \in Path[d] /\ e # d
      <4>1. e \in Path[Parent[d]]
        BY <2>1, <3>1, PathStep
      <4>2. e = Parent[d] \/ Level[Parent[d]] < Level[e]
        BY <2>1, <4>1, PathRises
      <4> QED BY <3>0, <4>2, <2>4
    <3>2. CASE e = d
      BY <3>2, <1>3
    <3>3. CASE d \in Path[e] /\ e # d
      <4>1. Level[e] < Level[d]
        BY <3>0, <3>3, PathRises
      <4> QED BY <4>1, <1>3 DEF Chain
    <3> QED BY <2>1, <2>4, <3>1, <3>2, <3>3, PathLinear
  <2> QED BY <2>1, <2>3, <2>4 DEF Chain
<1> QED BY <1>1, <1>2, <1>3

\* The child of a class c above cl on the chain: it is yellow, the only class
\* of the chain whose parent is c, and the one directly below c.
LEMMA ChainHasChild ==
  ASSUME NEW m, NEW cl \in Classes, NEW c \in Chain(m, cl), c # cl
  PROVE  /\ c \in Inners /\ Level[cl] < Level[c]
         /\ \E k \in Chain(m, cl) :
              /\ k # Root /\ m[k] = Yellow
              /\ ChainChild(m, cl, c) = {k}
              /\ \A e \in Chain(m, cl) :
                   Level[e] <= Level[c] <=> (e = c \/ Level[e] <= Level[k])
<1>1. Chain(m, cl) \subseteq Path[cl] /\ Path[cl] \subseteq Classes /\ c \in Classes
  BY ChainClimbs, PathClosed
<1>2. Level[cl] < Level[c] /\ c \in Inners
  BY <1>1, PathRises, TreeAssumption DEF Inners, Leaves
<1>3. PICK k \in Path[cl] : Parent[k] = c
  BY <1>1, PathChild
<1>4. k \in Classes /\ k # Root /\ Level[k] < Level[c]
  BY <1>1, <1>3, TreeAssumption DEF Classes, NULL
<1>5. Level[k] \in Nat /\ Level[c] \in Nat
  BY <1>1, <1>4, TreeAssumption
<1>6. m[k] = Yellow
  BY <1>3, <1>4 DEF Chain
<1>7. k \in Chain(m, cl)
  <2>1. ASSUME NEW e \in Path[cl], Level[e] < Level[k] PROVE m[e] = Yellow
    <3>1. Level[e] \in Nat
      BY <1>1, TreeAssumption
    <3>2. Level[e] < Level[c]
      BY <2>1, <3>1, <1>4, <1>5
    <3> QED BY <3>2 DEF Chain
  <2> QED BY <1>3, <2>1 DEF Chain
<1>8. ChainChild(m, cl, c) = {k}
  <2>1. ASSUME NEW d \in Chain(m, cl), Parent[d] = c PROVE d = k
    <3>1. d \in Path[cl] /\ d # Root
      BY <1>1, <2>1, TreeAssumption DEF Classes, NULL
    <3> QED BY <3>1, <2>1, <1>3, <1>4, PathLevels
  <2> QED BY <1>3, <1>7, <2>1 DEF ChainChild
<1>9. ASSUME NEW e \in Chain(m, cl)
      PROVE  Level[e] <= Level[c] <=> (e = c \/ Level[e] <= Level[k])
  <2>1. e \in Path[cl] /\ e \in Classes /\ Level[e] \in Nat
    BY <1>1, TreeAssumption
  <2>2. ASSUME Level[k] < Level[e], e # c PROVE Level[c] < Level[e]
    <3>1. e \in Path[k] /\ e # k
      BY <2>1, <2>2, <1>3, <1>5, PathLevels
    <3>2. e \in Path[c]
      BY <3>1, <1>3, <1>4, PathStep
    <3> QED BY <3>2, <2>2, <1>1, PathRises
  <2> QED BY <2>1, <2>2, <1>4, <1>5
<1> QED BY <1>2, <1>4, <1>6, <1>7, <1>8, <1>9

(***************************************************************************)
(* The feeds.  Held(F, m, x): the feeds F are consistent with the modes m, *)
(* but for the class x, which is held out of them; x = NULL holds none.    *)
(***************************************************************************)

Pointers == Classes \cup {NULL}

FeedsType ==
  [active    : [Classes -> SUBSET Prios],
   inner     : [Classes -> [Prios -> SUBSET Classes]],
   innerNext : [Classes -> [Prios -> Pointers]],
   self      : [Levels -> [Prios -> SUBSET Classes]],
   selfNext  : [Levels -> [Prios -> Pointers]]]

SelfFeeds(F, m, x) ==
  \A l \in Levels, p \in Prios, c \in Classes :
    c \in F.self[l][p] <=>
      (Level[c] = l /\ m[c] = Green /\ p \in F.active[c] /\ c # x)

InnerFeeds(F, m, x) ==
  \A c, d \in Classes, p \in Prios :
    d \in F.inner[c][p] <=>
      (Parent[d] = c /\ m[d] = Yellow /\ p \in F.active[d] /\ d # x)

InnerActive(F) ==
  \A c \in Inners, p \in Prios : p \in F.active[c] <=> F.inner[c][p] # {}

LeafActive(F) == \A c \in Leaves : F.active[c] \subseteq {LeafPrio[c]}

Held(F, m, x) ==
  SelfFeeds(F, m, x) /\ InnerFeeds(F, m, x) /\ InnerActive(F) /\ LeafActive(F)

LEMMA NullIsNoClass == NULL \notin Classes
BY DEF NULL, Classes

LEMMA FeedsConsistentHeld == mode \in [Classes -> Modes] => (FeedsConsistent <=> Held(feeds, mode, NULL))
BY TreeAssumption DEF FeedsConsistent, Held, SelfFeeds, InnerFeeds, InnerActive, LeafActive,
   Classes, NULL

\* What deactivateClassPrios withdraws goes up the chain from child to parent.
LEMMA WithdrawnClimbs ==
  ASSUME NEW F \in FeedsType, NEW m, NEW cl \in Classes
  PROVE  /\ Withdrawn(F, m, cl, cl) = F.active[cl]
         /\ \A c \in Chain(m, cl) \ {cl} : \A k \in Chain(m, cl) :
              (\A e \in Chain(m, cl) : Level[e] <= Level[c] <=> (e = c \/ Level[e] <= Level[k]))
              => Withdrawn(F, m, cl, c) =
                   {p \in Withdrawn(F, m, cl, k) : F.inner[c][p] \subseteq Chain(m, cl)}
<1>1. Chain(m, cl) \subseteq Classes
  BY ChainClimbs
<1>2. \A e \in Chain(m, cl) \ {cl} : ~(Level[e] <= Level[cl])
  BY <1>1, ChainHasChild, TreeAssumption
<1>3. Withdrawn(F, m, cl, cl) = F.active[cl]
  BY <1>2 DEF Withdrawn
<1>4. ASSUME NEW c \in Chain(m, cl) \ {cl}, NEW k \in Chain(m, cl),
             \A e \in Chain(m, cl) : Level[e] <= Level[c] <=> (e = c \/ Level[e] <= Level[k])
      PROVE  Withdrawn(F, m, cl, c) =
                   {p \in Withdrawn(F, m, cl, k) : F.inner[c][p] \subseteq Chain(m, cl)}
  BY <1>4 DEF Withdrawn
<1> QED BY <1>3, <1>4

\* deactivateClassPrios takes cl out of all the feeds and leaves the others
\* consistent.
LEMMA DeactivatedHeld ==
  ASSUME NEW F \in FeedsType, NEW m \in [Classes -> Modes], NEW cl \in Classes,
         Held(F, m, NULL)
  PROVE  /\ Deactivated(F, m, cl) \in FeedsType
         /\ Held(Deactivated(F, m, cl), m, cl)
         /\ \A c \in Leaves \cup {cl} : Deactivated(F, m, cl).active[c] = F.active[c]
<1> DEFINE G == Deactivated(F, m, cl)
           C == Chain(m, cl)
           above == C \ {cl}
           W(d) == Withdrawn(F, m, cl, d)
<1>0. /\ C \subseteq Classes /\ cl \in C
      /\ \A d \in C : m[d] = Yellow /\ d # Root => Parent[d] \in above
      /\ above \cap Leaves = {}
  BY ChainClimbs, ChainHasChild DEF Inners
<1>1. \A d \in Classes : W(d) \subseteq F.active[cl] /\ W(d) \subseteq Prios
  BY DEF Withdrawn, FeedsType
<1>2. /\ G.active = [c \in Classes |->
                       IF c \in above THEN F.active[c] \ W(c) ELSE F.active[c]]
      /\ G.inner = [c \in Classes |-> [p \in Prios |->
                       IF c \in above
                       THEN F.inner[c][p] \ {d \in ChainChild(m, cl, c) : p \in W(d)}
                       ELSE F.inner[c][p]]]
      /\ G.innerNext = F.innerNext
      /\ G.self = [l \in Levels |-> [p \in Prios |->
                       F.self[l][p] \ {d \in C : m[d] = Green /\ p \in W(d)}]]
      /\ G.selfNext = F.selfNext
  BY DEF Deactivated, FeedsType
<1>3. G \in FeedsType
  <2>1. /\ G.active \in [Classes -> SUBSET Prios]
        /\ G.inner \in [Classes -> [Prios -> SUBSET Classes]]
        /\ G.innerNext \in [Classes -> [Prios -> Pointers]]
        /\ G.self \in [Levels -> [Prios -> SUBSET Classes]]
        /\ G.selfNext \in [Levels -> [Prios -> Pointers]]
    BY <1>2 DEF FeedsType
  <2> QED BY <2>1 DEF Deactivated, FeedsType
<1>4. \A c \in Leaves \cup {cl} : G.active[c] = F.active[c]
  BY <1>0, <1>2 DEF Leaves
<1>5. W(cl) = F.active[cl]
  BY WithdrawnClimbs
<1>6. SelfFeeds(G, m, cl)
  <2>1. ASSUME NEW l \in Levels, NEW p \in Prios, NEW c \in Classes
        PROVE  c \in G.self[l][p] <=>
                 (Level[c] = l /\ m[c] = Green /\ p \in G.active[c] /\ c # cl)
    <3>1. c \in F.self[l][p] <=> (Level[c] = l /\ m[c] = Green /\ p \in F.active[c])
      BY DEF Held, SelfFeeds, NULL, Classes
    <3>2. c \in G.self[l][p] <=> c \in F.self[l][p] /\ ~(c \in C /\ m[c] = Green /\ p \in W(c))
      BY <1>2
    <3>3. p \in G.active[c] <=> p \in F.active[c] /\ ~(c \in above /\ p \in W(c))
      BY <1>2
    <3> QED BY <3>1, <3>2, <3>3, <1>0, <1>5
  <2> QED BY <2>1 DEF SelfFeeds
<1>7. InnerFeeds(G, m, cl)
  <2>1. ASSUME NEW c \in Classes, NEW d \in Classes, NEW p \in Prios
        PROVE  d \in G.inner[c][p] <=>
                 (Parent[d] = c /\ m[d] = Yellow /\ p \in G.active[d] /\ d # cl)
    <3>1. d \in F.inner[c][p] <=> (Parent[d] = c /\ m[d] = Yellow /\ p \in F.active[d])
      BY DEF Held, InnerFeeds, NULL, Classes
    <3>2. d \in G.inner[c][p] <=>
            d \in F.inner[c][p] /\ ~(c \in above /\ d \in C /\ Parent[d] = c /\ p \in W(d))
      BY <1>2 DEF ChainChild
    <3>3. p \in G.active[d] <=> p \in F.active[d] /\ ~(d \in above /\ p \in W(d))
      BY <1>2
    <3>4. Parent[d] = c => d # Root
      BY TreeAssumption DEF NULL, Classes
    <3> QED BY <3>1, <3>2, <3>3, <3>4, <1>0, <1>5
  <2> QED BY <2>1 DEF InnerFeeds
<1>8. InnerActive(G)
  <2>1. ASSUME NEW c \in Inners, NEW p \in Prios
        PROVE  p \in G.active[c] <=> G.inner[c][p] # {}
    <3>0. c \in Classes /\ (p \in F.active[c] <=> F.inner[c][p] # {})
      BY DEF Held, InnerActive, Inners
    <3>1. CASE c \notin above
      BY <3>0, <3>1, <1>2
    <3>2. CASE c \in above
      <4>1. PICK k \in C : /\ ChainChild(m, cl, c) = {k}
                           /\ \A e \in C : Level[e] <= Level[c] <=> (e = c \/ Level[e] <= Level[k])
        BY <3>2, ChainHasChild
      <4>2. p \in W(c) <=> p \in W(k) /\ F.inner[c][p] \subseteq C
        BY <3>2, <4>1, WithdrawnClimbs
      <4>3. \A d \in F.inner[c][p] : d \in C => d = k
        <5>1. \A d \in F.inner[c][p] : d \in Classes /\ Parent[d] = c
          BY <3>0 DEF Held, InnerFeeds, FeedsType
        <5> QED BY <4>1, <5>1 DEF ChainChild
      <4>4. G.inner[c][p] = F.inner[c][p] \ (IF p \in W(k) THEN {k} ELSE {})
        BY <3>0, <3>2, <1>2, <4>1
      <4>5. p \in G.active[c] <=> p \in F.active[c] /\ p \notin W(c)
        BY <3>0, <3>2, <1>2
      <4> QED BY <3>0, <4>1, <4>2, <4>3, <4>4, <4>5
    <3> QED BY <3>1, <3>2
  <2> QED BY <2>1 DEF InnerActive
<1>9. LeafActive(G)
  BY <1>4 DEF LeafActive, Held
<1> QED BY <1>3, <1>4, <1>6, <1>7, <1>8, <1>9 DEF Held

\* activateClassPrios puts a class that was held out back into the feeds.
LEMMA ActivatedHeld ==
  ASSUME NEW F \in FeedsType, NEW m \in [Classes -> Modes], NEW cl \in Classes,
         Held(F, m, cl)
  PROVE  /\ Activated(F, m, cl) \in FeedsType
         /\ Held(Activated(F, m, cl), m, NULL)
         /\ \A c \in Leaves \cup {cl} : Activated(F, m, cl).active[c] = F.active[c]
<1> DEFINE H == Activated(F, m, cl)
           C == Chain(m, cl)
           above == C \ {cl}
           A == F.active[cl]
           top(l) == {d \in C : m[d] = Green /\ Level[d] = l}
<1>0. /\ C \subseteq Classes /\ cl \in C
      /\ \A d \in C : m[d] = Yellow /\ d # Root => Parent[d] \in above
      /\ above \cap Leaves = {}
  BY ChainClimbs, ChainHasChild DEF Inners
<1>1. /\ H.active = [c \in Classes |-> IF c \in above THEN F.active[c] \cup A ELSE F.active[c]]
      /\ H.inner = [c \in Classes |-> [p \in Prios |->
                      IF c \in above /\ p \in A
                      THEN F.inner[c][p] \cup ChainChild(m, cl, c) ELSE F.inner[c][p]]]
      /\ H.self = [l \in Levels |-> [p \in Prios |->
                      IF p \in A THEN F.self[l][p] \cup top(l) ELSE F.self[l][p]]]
  BY DEF Activated
<1>2. /\ H.innerNext \in [Classes -> [Prios -> Pointers]]
      /\ H.selfNext \in [Levels -> [Prios -> Pointers]]
  <2>1. \A ptr \in Pointers, S \in SUBSET Classes : Joined(ptr, S) \in Pointers
    BY DEF Joined, Pointers
  <2>2. \A c \in Classes : ChainChild(m, cl, c) \subseteq Classes
    BY <1>0 DEF ChainChild
  <2>3. /\ \A c \in Classes, p \in Prios : F.innerNext[c][p] \in Pointers
        /\ \A l \in Levels, p \in Prios : F.selfNext[l][p] \in Pointers
    BY DEF FeedsType
  <2> QED BY <1>0, <2>1, <2>2, <2>3 DEF Activated
<1>3. H \in FeedsType
  <2>1. /\ H.active \in [Classes -> SUBSET Prios]
        /\ H.inner \in [Classes -> [Prios -> SUBSET Classes]]
        /\ H.self \in [Levels -> [Prios -> SUBSET Classes]]
    BY <1>0, <1>1 DEF FeedsType, ChainChild
  <2> QED BY <2>1, <1>2 DEF Activated, FeedsType
<1>4. \A c \in Leaves \cup {cl} : H.active[c] = F.active[c]
  BY <1>0, <1>1 DEF Leaves
<1>5. SelfFeeds(H, m, NULL)
  <2>1. ASSUME NEW l \in Levels, NEW p \in Prios, NEW c \in Classes
        PROVE  c \in H.self[l][p] <=> (Level[c] = l /\ m[c] = Green /\ p \in H.active[c])
    <3>1. c \in F.self[l][p] <=> (Level[c] = l /\ m[c] = Green /\ p \in F.active[c] /\ c # cl)
      BY DEF Held, SelfFeeds
    <3>2. c \in H.self[l][p] <=>
            c \in F.self[l][p] \/ (p \in A /\ c \in C /\ m[c] = Green /\ Level[c] = l)
      BY <1>1
    <3>3. p \in H.active[c] <=> p \in F.active[c] \/ (c \in above /\ p \in A)
      BY <1>1
    <3> QED BY <3>1, <3>2, <3>3, <1>0
  <2> QED BY <2>1, NullIsNoClass DEF SelfFeeds
<1>6. InnerFeeds(H, m, NULL)
  <2>1. ASSUME NEW c \in Classes, NEW d \in Classes, NEW p \in Prios
        PROVE  d \in H.inner[c][p] <=> (Parent[d] = c /\ m[d] = Yellow /\ p \in H.active[d])
    <3>1. d \in F.inner[c][p] <=>
            (Parent[d] = c /\ m[d] = Yellow /\ p \in F.active[d] /\ d # cl)
      BY DEF Held, InnerFeeds
    <3>2. d \in H.inner[c][p] <=>
            d \in F.inner[c][p] \/ (c \in above /\ p \in A /\ d \in ChainChild(m, cl, c))
      BY <1>1
    <3>3. p \in H.active[d] <=> p \in F.active[d] \/ (d \in above /\ p \in A)
      BY <1>1
    <3>4. Parent[d] = c => d # Root
      BY TreeAssumption DEF NULL, Classes
    <3>5. ASSUME c \in above
          PROVE  d \in ChainChild(m, cl, c) <=> (d \in C /\ Parent[d] = c /\ m[d] = Yellow)
      BY <3>5, ChainHasChild DEF ChainChild
    <3> QED BY <3>1, <3>2, <3>3, <3>4, <3>5, <1>0
  <2> QED BY <2>1, NullIsNoClass DEF InnerFeeds
<1>7. InnerActive(H)
  <2>1. ASSUME NEW c \in Inners, NEW p \in Prios
        PROVE  p \in H.active[c] <=> H.inner[c][p] # {}
    <3>0. c \in Classes /\ (p \in F.active[c] <=> F.inner[c][p] # {})
      BY DEF Held, InnerActive, Inners
    <3>1. CASE c \notin above
      BY <3>0, <3>1, <1>1
    <3>2. CASE c \in above
      <4>1. PICK k \in C : ChainChild(m, cl, c) = {k}
        BY <3>2, ChainHasChild
      <4>2. H.inner[c][p] =
              IF p \in A THEN F.inner[c][p] \cup ChainChild(m, cl, c) ELSE F.inner[c][p]
        BY <3>0, <3>2, <1>1
      <4>3. p \in H.active[c] <=> p \in F.active[c] \/ p \in A
        BY <3>0, <3>2, <1>1
      <4> QED BY <3>0, <4>1, <4>2, <4>3
    <3> QED BY <3>1, <3>2
  <2> QED BY <2>1 DEF InnerActive
<1>8. LeafActive(H)
  BY <1>4 DEF LeafActive, Held
<1> QED BY <1>3, <1>4, <1>5, <1>6, <1>7, <1>8 DEF Held, SelfFeeds, InnerFeeds

(***************************************************************************)
(* The next pointers.  Reaches(F, d, p): getLeaf can go down from d.       *)
(***************************************************************************)

Reaches(F, d, p) == d \in Inners => F.innerNext[d][p] # NULL

SelfPointers(F) ==
  \A l \in Levels, p \in Prios :
    /\ F.self[l][p] # {} => F.selfNext[l][p] # NULL
    /\ F.selfNext[l][p] # NULL =>
         Level[F.selfNext[l][p]] = l /\ Reaches(F, F.selfNext[l][p], p)

InnerPointers(F) ==
  \A c \in Classes, p \in Prios :
    /\ F.inner[c][p] # {} => F.innerNext[c][p] # NULL
    /\ F.innerNext[c][p] # NULL =>
         Parent[F.innerNext[c][p]] = c /\ Reaches(F, F.innerNext[c][p], p)

PointersGood(F) == SelfPointers(F) /\ InnerPointers(F)

Good(F, m, x) == F \in FeedsType /\ Held(F, m, x) /\ PointersGood(F)

\* A class that is in a feed for a priority is one that getLeaf can go down from.
LEMMA FedReaches ==
  ASSUME NEW F, NEW m, NEW x, Good(F, m, x), NEW p \in Prios, NEW d \in Classes,
         p \in F.active[d]
  PROVE  Reaches(F, d, p)
BY DEF Good, Held, InnerActive, PointersGood, InnerPointers, Reaches, Inners

\* Pointers may move to any class of their feeds.
Repointed(F, G) ==
  /\ G.active = F.active /\ G.inner = F.inner /\ G.self = F.self
  /\ \A l \in Levels, p \in Prios : G.selfNext[l][p] \in F.self[l][p] \cup {F.selfNext[l][p]}
  /\ \A c \in Classes, p \in Prios :
       G.innerNext[c][p] \in F.inner[c][p] \cup {F.innerNext[c][p]}

LEMMA RepointedGood ==
  ASSUME NEW F, NEW m, Good(F, m, NULL), NEW G \in FeedsType, Repointed(F, G)
  PROVE  Good(G, m, NULL)
<1>1. Held(G, m, NULL)
  BY DEF Good, Held, SelfFeeds, InnerFeeds, InnerActive, LeafActive, Repointed
<1>2. /\ \A l \in Levels, p \in Prios : F.self[l][p] \subseteq Classes
      /\ \A c \in Classes, p \in Prios : F.inner[c][p] \subseteq Classes
  BY DEF Good, FeedsType
<1>3. ASSUME NEW d \in Classes, NEW p \in Prios, Reaches(F, d, p)
      PROVE  Reaches(G, d, p)
  <2>1. ASSUME d \in Inners PROVE G.innerNext[d][p] # NULL
    <3>1. F.innerNext[d][p] # NULL
      BY <1>3, <2>1 DEF Reaches
    <3> QED BY <3>1, <1>2, NullIsNoClass DEF Repointed
  <2> QED BY <2>1 DEF Reaches
<1>4. SelfPointers(G)
  <2>1. ASSUME NEW l \in Levels, NEW p \in Prios
        PROVE  /\ G.self[l][p] # {} => G.selfNext[l][p] # NULL
               /\ G.selfNext[l][p] # NULL =>
                    Level[G.selfNext[l][p]] = l /\ Reaches(G, G.selfNext[l][p], p)
    <3> DEFINE q == G.selfNext[l][p]
    <3>1. F.self[l][p] # {} => F.selfNext[l][p] # NULL
      BY DEF Good, PointersGood, SelfPointers
    <3>2. CASE q \in F.self[l][p]
      <4>1. q \in Classes /\ Level[q] = l /\ p \in F.active[q]
        BY <3>2, <1>2 DEF Good, Held, SelfFeeds
      <4>2. Reaches(F, q, p)
        BY <4>1, FedReaches
      <4>3. Reaches(G, q, p)
        BY <4>1, <4>2, <1>3
      <4> QED BY <4>1, <4>3, NullIsNoClass
    <3>3. CASE q = F.selfNext[l][p]
      <4>1. q \in Pointers
        BY <3>3 DEF Good, FeedsType
      <4>2. q # NULL => Level[q] = l /\ Reaches(F, q, p)
        BY <3>3 DEF Good, PointersGood, SelfPointers
      <4>3. q # NULL => Reaches(G, q, p)
        BY <4>1, <4>2, <1>3 DEF Pointers
      <4> QED BY <4>2, <4>3, <3>1, <3>3 DEF Repointed
    <3>4. q \in F.self[l][p] \cup {F.selfNext[l][p]}
      BY DEF Repointed
    <3> QED BY <3>2, <3>3, <3>4
  <2> QED BY <2>1 DEF SelfPointers
<1>5. InnerPointers(G)
  <2>1. ASSUME NEW c \in Classes, NEW p \in Prios
        PROVE  /\ G.inner[c][p] # {} => G.innerNext[c][p] # NULL
               /\ G.innerNext[c][p] # NULL =>
                    Parent[G.innerNext[c][p]] = c /\ Reaches(G, G.innerNext[c][p], p)
    <3> DEFINE q == G.innerNext[c][p]
    <3>1. F.inner[c][p] # {} => F.innerNext[c][p] # NULL
      BY DEF Good, PointersGood, InnerPointers
    <3>2. CASE q \in F.inner[c][p]
      <4>1. q \in Classes /\ Parent[q] = c /\ p \in F.active[q]
        BY <3>2, <1>2 DEF Good, Held, InnerFeeds
      <4>2. Reaches(F, q, p)
        BY <4>1, FedReaches
      <4>3. Reaches(G, q, p)
        BY <4>1, <4>2, <1>3
      <4> QED BY <4>1, <4>3, NullIsNoClass
    <3>3. CASE q = F.innerNext[c][p]
      <4>1. q \in Pointers
        BY <3>3 DEF Good, FeedsType
      <4>2. q # NULL => Parent[q] = c /\ Reaches(F, q, p)
        BY <3>3 DEF Good, PointersGood, InnerPointers
      <4>3. q # NULL => Reaches(G, q, p)
        BY <4>1, <4>2, <1>3 DEF Pointers
      <4> QED BY <4>2, <4>3, <3>1, <3>3 DEF Repointed
    <3>4. q \in F.inner[c][p] \cup {F.innerNext[c][p]}
      BY DEF Repointed
    <3> QED BY <3>2, <3>3, <3>4
  <2> QED BY <2>1 DEF InnerPointers
<1> QED BY <1>1, <1>4, <1>5 DEF Good, PointersGood

\* deactivateClassPrios leaves the pointers alone.
LEMMA DeactivatedGood ==
  ASSUME NEW F, NEW m \in [Classes -> Modes], NEW cl \in Classes, Good(F, m, NULL)
  PROVE  /\ Good(Deactivated(F, m, cl), m, cl)
         /\ \A c \in Leaves \cup {cl} : Deactivated(F, m, cl).active[c] = F.active[c]
<1> DEFINE G == Deactivated(F, m, cl)
<1>1. /\ G \in FeedsType /\ Held(G, m, cl)
      /\ \A c \in Leaves \cup {cl} : G.active[c] = F.active[c]
  BY DeactivatedHeld DEF Good
<1>2. G.innerNext = F.innerNext /\ G.selfNext = F.selfNext
  BY DEF Deactivated, FeedsType, Good
<1>3. /\ \A l \in Levels, p \in Prios : G.self[l][p] \subseteq F.self[l][p]
      /\ \A c \in Classes, p \in Prios : G.inner[c][p] \subseteq F.inner[c][p]
  BY DEF Deactivated, FeedsType, Good
<1>4. SelfPointers(G)
  BY <1>2, <1>3 DEF Good, PointersGood, SelfPointers, Reaches
<1>5. InnerPointers(G)
  BY <1>2, <1>3 DEF Good, PointersGood, InnerPointers, Reaches
<1> QED BY <1>1, <1>4, <1>5 DEF Good, PointersGood

\* activateClassPrios points to a class that joins a feed without a pointer.
LEMMA ActivatedGood ==
  ASSUME NEW F, NEW m \in [Classes -> Modes], NEW cl \in Classes, Good(F, m, cl)
  PROVE  /\ Good(Activated(F, m, cl), m, NULL)
         /\ \A c \in Leaves \cup {cl} : Activated(F, m, cl).active[c] = F.active[c]
<1> DEFINE H == Activated(F, m, cl)
           C == Chain(m, cl)
           above == C \ {cl}
           A == F.active[cl]
           top(l) == {d \in C : m[d] = Green /\ Level[d] = l}
<1>0. F \in FeedsType /\ Held(F, m, cl) /\ PointersGood(F)
  BY DEF Good
<1>1. /\ H \in FeedsType /\ Held(H, m, NULL)
      /\ \A c \in Leaves \cup {cl} : H.active[c] = F.active[c]
  BY <1>0, ActivatedHeld
<1>2. /\ H.inner = [c \in Classes |-> [p \in Prios |->
                      IF c \in above /\ p \in A
                      THEN F.inner[c][p] \cup ChainChild(m, cl, c) ELSE F.inner[c][p]]]
      /\ H.innerNext = [c \in Classes |-> [p \in Prios |->
                      IF c \in above /\ p \in A
                      THEN Joined(F.innerNext[c][p], ChainChild(m, cl, c))
                      ELSE F.innerNext[c][p]]]
      /\ H.self = [l \in Levels |-> [p \in Prios |->
                      IF p \in A THEN F.self[l][p] \cup top(l) ELSE F.self[l][p]]]
      /\ H.selfNext = [l \in Levels |-> [p \in Prios |->
                      IF p \in A THEN Joined(F.selfNext[l][p], top(l))
                      ELSE F.selfNext[l][p]]]
  BY DEF Activated
<1> HIDE DEF H
<1>3. C \subseteq Classes /\ (\A c \in above : ChainChild(m, cl, c) # {} /\ c \in Inners)
  <2>1. C \subseteq Classes
    BY ChainClimbs
  <2>2. ASSUME NEW c \in above PROVE ChainChild(m, cl, c) # {} /\ c \in Inners
    BY ChainHasChild
  <2> QED BY <2>1, <2>2
<1>4. ASSUME NEW ptr \in Pointers, NEW S \in SUBSET Classes
      PROVE  /\ ptr # NULL => Joined(ptr, S) = ptr
             /\ S # {} => Joined(ptr, S) # NULL
             /\ Joined(ptr, S) \in S \cup {ptr}
  <2>1. S # {} => (CHOOSE d \in S : TRUE) \in S
    OBVIOUS
  <2> QED BY <2>1, NullIsNoClass DEF Joined
<1>5. \A c \in Classes, p \in Prios :
        /\ F.innerNext[c][p] \in Pointers
        /\ F.innerNext[c][p] # NULL => H.innerNext[c][p] = F.innerNext[c][p]
  BY <1>0, <1>2, <1>3, <1>4 DEF FeedsType, ChainChild
<1>6. \A d \in Classes, p \in Prios : Reaches(F, d, p) => Reaches(H, d, p)
  BY <1>5 DEF Reaches, Inners
<1>7. ASSUME NEW d \in C, NEW p \in A
      PROVE  Reaches(H, d, p)
  <2>0. p \in Prios /\ d \in Classes
    BY <1>0, <1>3 DEF FeedsType
  <2>1. CASE d = cl
    BY <2>0, <2>1, <1>6, FedReaches
  <2>2. CASE d \in above
    <3>1. H.innerNext[d][p] = Joined(F.innerNext[d][p], ChainChild(m, cl, d))
      BY <2>0, <2>2, <1>2
    <3>2. ChainChild(m, cl, d) # {} /\ ChainChild(m, cl, d) \in SUBSET Classes
      BY <2>2, <1>3 DEF ChainChild
    <3> QED BY <3>1, <3>2, <2>0, <1>4, <1>5 DEF Reaches
  <2> QED BY <2>1, <2>2
<1>8. SelfPointers(H)
  <2>1. ASSUME NEW l \in Levels, NEW p \in Prios
        PROVE  /\ H.self[l][p] # {} => H.selfNext[l][p] # NULL
               /\ H.selfNext[l][p] # NULL =>
                    Level[H.selfNext[l][p]] = l /\ Reaches(H, H.selfNext[l][p], p)
    <3> DEFINE q == F.selfNext[l][p]
    <3>1. /\ q \in Pointers
          /\ F.self[l][p] # {} => q # NULL
          /\ q # NULL => Level[q] = l /\ Reaches(F, q, p)
      BY <1>0 DEF FeedsType, PointersGood, SelfPointers
    <3>2. q # NULL => Reaches(H, q, p)
      BY <3>1, <1>6 DEF Pointers
    <3>3. CASE p \notin A
      BY <3>1, <3>2, <3>3, <1>2
    <3>4. CASE p \in A
      <4>1. H.selfNext[l][p] = Joined(q, top(l)) /\ H.self[l][p] = F.self[l][p] \cup top(l)
        BY <3>4, <1>2
      <4>2. top(l) \in SUBSET Classes /\ \A d \in top(l) : Level[d] = l /\ Reaches(H, d, p)
        BY <1>3, <1>7, <3>4
      <4>3. /\ q # NULL => Joined(q, top(l)) = q
            /\ top(l) # {} => Joined(q, top(l)) # NULL
            /\ Joined(q, top(l)) \in top(l) \cup {q}
        BY <3>1, <4>2, <1>4
      <4> HIDE DEF q, top
      <4>4. Joined(q, top(l)) # NULL =>
              Level[Joined(q, top(l))] = l /\ Reaches(H, Joined(q, top(l)), p)
        BY <3>1, <3>2, <4>2, <4>3
      <4>5. F.self[l][p] \cup top(l) # {} => Joined(q, top(l)) # NULL
        BY <3>1, <4>3
      <4> QED BY <4>1, <4>4, <4>5
    <3> QED BY <3>3, <3>4
  <2> QED BY <2>1 DEF SelfPointers
<1>9. InnerPointers(H)
  <2>1. ASSUME NEW c \in Classes, NEW p \in Prios
        PROVE  /\ H.inner[c][p] # {} => H.innerNext[c][p] # NULL
               /\ H.innerNext[c][p] # NULL =>
                    Parent[H.innerNext[c][p]] = c /\ Reaches(H, H.innerNext[c][p], p)
    <3> DEFINE q == F.innerNext[c][p]
               S == ChainChild(m, cl, c)
    <3>1. /\ q \in Pointers
          /\ F.inner[c][p] # {} => q # NULL
          /\ q # NULL => Parent[q] = c /\ Reaches(F, q, p)
      BY <1>0 DEF FeedsType, PointersGood, InnerPointers
    <3>2. q # NULL => Reaches(H, q, p)
      BY <3>1, <1>6 DEF Pointers
    <3>3. CASE ~(c \in above /\ p \in A)
      <4>1. H.innerNext[c][p] = q /\ H.inner[c][p] = F.inner[c][p]
        BY <3>3, <1>2
      <4> HIDE DEF q
      <4> QED BY <4>1, <3>1, <3>2
    <3>4. CASE c \in above /\ p \in A
      <4>1. H.innerNext[c][p] = Joined(q, S) /\ H.inner[c][p] = F.inner[c][p] \cup S
        BY <3>4, <1>2
      <4>2. S \in SUBSET Classes /\ \A d \in S : Parent[d] = c /\ Reaches(H, d, p)
        BY <1>3, <1>7, <3>4 DEF ChainChild
      <4>3. /\ q # NULL => Joined(q, S) = q
            /\ S # {} => Joined(q, S) # NULL
            /\ Joined(q, S) \in S \cup {q}
        BY <3>1, <4>2, <1>4
      <4> HIDE DEF q, S
      <4>4. Joined(q, S) # NULL => Parent[Joined(q, S)] = c /\ Reaches(H, Joined(q, S), p)
        BY <3>1, <3>2, <4>2, <4>3
      <4>5. F.inner[c][p] \cup S # {} => Joined(q, S) # NULL
        BY <3>1, <4>3
      <4> QED BY <4>1, <4>4, <4>5
    <3> QED BY <3>3, <3>4
  <2> QED BY <2>1 DEF InnerPointers
<1> QED BY <1>1, <1>8, <1>9 DEF Good, PointersGood, H

\* updateClassMode keeps the feeds consistent with the modes.
LEMMA MovedGood ==
  ASSUME NEW F, NEW m \in [Classes -> Modes], NEW c \in Classes, NEW new \in Modes,
         Good(F, m, NULL)
  PROVE  /\ Good(Moved(F, m, c, new), [m EXCEPT ![c] = new], NULL)
         /\ \A d \in Leaves : Moved(F, m, c, new).active[d] = F.active[d]
<1> DEFINE n == [m EXCEPT ![c] = new]
           out == IF m[c] # Red THEN Deactivated(F, m, c) ELSE F
<1>0. n \in [Classes -> Modes] /\ n[c] = new /\ \A d \in Classes \ {c} : n[d] = m[d]
  OBVIOUS
<1>1. CASE new = m[c]
  <2>1. n = m
    BY <1>1
  <2> QED BY <1>1, <2>1 DEF Moved
<1>2. CASE F.active[c] = {}
  <2>1. Held(F, n, NULL)
    BY <1>0, <1>2 DEF Good, Held, SelfFeeds, InnerFeeds
  <2> QED BY <1>2, <2>1 DEF Moved, Good
<1>3. CASE new # m[c] /\ F.active[c] # {}
  <2>1. Good(out, m, c) /\ \A d \in Leaves : out.active[d] = F.active[d]
    <3>1. CASE m[c] # Red
      BY <3>1, DeactivatedGood
    <3>2. CASE m[c] = Red
      <4>1. Held(F, m, c)
        BY <3>2, NullIsNoClass DEF Good, Held, SelfFeeds, InnerFeeds, Red, Green, Yellow
      <4> QED BY <3>2, <4>1 DEF Good
    <3> QED BY <3>1, <3>2
  <2>2. Good(out, n, c)
    <3>1. Held(out, n, c)
      BY <2>1, <1>0 DEF Good, Held, SelfFeeds, InnerFeeds
    <3> QED BY <3>1, <2>1 DEF Good
  <2> HIDE DEF out, n
  <2>3. CASE new = Red
    <3>1. Held(out, n, NULL)
      BY <2>2, <2>3, <1>0, NullIsNoClass
      DEF Good, Held, SelfFeeds, InnerFeeds, Red, Green, Yellow
    <3> QED BY <3>1, <2>1, <2>2, <2>3, <1>3 DEF Moved, Good, n, out
  <2>4. CASE new # Red
    <3>1. Moved(F, m, c, new) = Activated(out, n, c)
      BY <2>4, <1>3 DEF Moved, n, out
    <3>2. /\ Good(Activated(out, n, c), n, NULL)
          /\ \A d \in Leaves : Activated(out, n, c).active[d] = out.active[d]
      BY <2>2, <1>0, ActivatedGood
    <3> QED BY <3>1, <3>2, <2>1 DEF n
  <2> QED BY <2>3, <2>4
<1> QED BY <1>1, <1>2, <1>3

\* To store in a table what it holds changes nothing.
LEMMA SameExcept ==
  ASSUME NEW X, NEW Y, NEW Z, NEW f \in [X -> [Y -> Z]], NEW a, NEW b
  PROVE  [f EXCEPT ![a][b] = f[a][b]] = f
<1> DEFINE g == [f EXCEPT ![a][b] = f[a][b]]
<1>1. ASSUME NEW x \in X PROVE g[x] = f[x]
  <2>1. CASE x = a
    <3>1. g[x] = [f[a] EXCEPT ![b] = f[a][b]]
      BY <2>1
    <3>2. f[a] \in [Y -> Z]
      BY <2>1
    <3>3. [f[a] EXCEPT ![b] = f[a][b]] = f[a]
      BY <3>2
    <3> QED BY <3>1, <3>3, <2>1
  <2>2. CASE x # a
    BY <2>2
  <2> QED BY <2>1, <2>2
<1>2. g = [x \in X |-> g[x]] /\ f = [x \in X |-> f[x]]
  OBVIOUS
<1> HIDE DEF g
<1> QED BY <1>1, <1>2 DEF g

\* deactivateClass: what it leaves of the activity of the leaf, and the feeds.
LEMMA LeafDeactivatedGood ==
  ASSUME NEW F, NEW m \in [Classes -> Modes], NEW cl \in Leaves, NEW prio,
         Good(F, m, NULL)
  PROVE  /\ Good(LeafDeactivated(F, m, cl, prio), m, NULL)
         /\ LeafDeactivated(F, m, cl, prio).selfNext = F.selfNext
         /\ LeafDeactivated(F, m, cl, prio).active[cl] = F.active[cl] \ {prio}
         /\ \A d \in Leaves \ {cl} : LeafDeactivated(F, m, cl, prio).active[d] = F.active[d]
<1> DEFINE out == Deactivated(F, m, cl)
           R == [out EXCEPT !.active[cl] = @ \ {prio},
                            !.self[Level[cl]][prio] = @ \ {cl},
                            !.inner[Parent[cl]][prio] = @ \ {cl}]
<1>0. /\ cl \in Classes /\ cl \notin Inners /\ cl # Root
      /\ Leaves \subseteq Classes
      /\ Level[cl] \in Levels /\ Parent[cl] \in Classes
  BY TreeAssumption DEF Leaves, Inners, Levels
<1>1. CASE prio \notin F.active[cl]
  <2>1. LeafDeactivated(F, m, cl, prio) = F
    BY <1>1 DEF LeafDeactivated
  <2> QED BY <1>1, <2>1
<1>2. CASE prio \in F.active[cl]
  <2>1. Good(out, m, cl) /\ \A d \in Leaves : out.active[d] = F.active[d]
    BY <1>0, DeactivatedGood
  <2>2. out.selfNext = F.selfNext
    BY DEF Deactivated, FeedsType, Good
  <2>3. LeafDeactivated(F, m, cl, prio) = R
    BY <1>2 DEF LeafDeactivated
  <2>4. out \in FeedsType /\ Held(out, m, cl) /\ PointersGood(out)
    BY <2>1 DEF Good
  <2>5. prio \in Prios /\ out.active[cl] = {prio}
    <3>1. F.active[cl] \subseteq Prios /\ F.active[cl] \subseteq {LeafPrio[cl]}
      BY <1>0 DEF Good, FeedsType, Held, LeafActive
    <3> QED BY <3>1, <2>1, <1>2
  <2> HIDE DEF out
  <2>6. cl \notin out.self[Level[cl]][prio] /\ cl \notin out.inner[Parent[cl]][prio]
    BY <2>4, <2>5, <1>0 DEF Held, SelfFeeds, InnerFeeds
  <2>7. /\ R.active = [out.active EXCEPT ![cl] = {}]
        /\ R.self = out.self
        /\ R.inner = out.inner
        /\ R.innerNext = out.innerNext
        /\ R.selfNext = out.selfNext
    <3>1. R.active = [out.active EXCEPT ![cl] = @ \ {prio}]
      BY <2>4 DEF FeedsType
    <3>2. R.active = [out.active EXCEPT ![cl] = {}]
      BY <3>1, <2>5, <1>0, <2>4 DEF FeedsType
    <3>3. R.self = [out.self EXCEPT ![Level[cl]][prio] = @ \ {cl}]
      BY <2>4 DEF FeedsType
    <3>4. out.self[Level[cl]][prio] \ {cl} = out.self[Level[cl]][prio]
      BY <2>6
    <3>5. R.self = out.self
      <4>1. out.self \in [Levels -> [Prios -> SUBSET Classes]]
        BY <2>4 DEF FeedsType
      <4>2. [out.self EXCEPT ![Level[cl]][prio] = out.self[Level[cl]][prio]] = out.self
        BY <4>1, SameExcept
      <4>3. R.self = [out.self EXCEPT ![Level[cl]][prio] = out.self[Level[cl]][prio]]
        BY <3>3, <3>4
      <4> QED BY <4>2, <4>3
    <3>6. R.inner = [out.inner EXCEPT ![Parent[cl]][prio] = @ \ {cl}]
      BY <2>4 DEF FeedsType
    <3>7. out.inner[Parent[cl]][prio] \ {cl} = out.inner[Parent[cl]][prio]
      BY <2>6
    <3>8. R.inner = out.inner
      <4>1. out.inner \in [Classes -> [Prios -> SUBSET Classes]]
        BY <2>4 DEF FeedsType
      <4>2. [out.inner EXCEPT ![Parent[cl]][prio] = out.inner[Parent[cl]][prio]] = out.inner
        BY <4>1, SameExcept
      <4>3. R.inner = [out.inner EXCEPT ![Parent[cl]][prio] = out.inner[Parent[cl]][prio]]
        BY <3>6, <3>7
      <4> QED BY <4>2, <4>3
    <3>9. R.innerNext = out.innerNext /\ R.selfNext = out.selfNext
      BY <2>4 DEF FeedsType
    <3> QED BY <3>2, <3>5, <3>8, <3>9
  <2>8. R \in FeedsType
    <3>1. R.active \in [Classes -> SUBSET Prios]
      BY <2>4, <2>7 DEF FeedsType
    <3> QED BY <3>1, <2>4, <2>7 DEF FeedsType
  <2> HIDE DEF R
  <2>9. R.active[cl] = {} /\ \A d \in Classes \ {cl} : R.active[d] = out.active[d]
    BY <2>4, <2>7, <1>0 DEF FeedsType
  <2>10. Held(R, m, NULL)
    <3>1. SelfFeeds(R, m, NULL) /\ InnerFeeds(R, m, NULL)
      BY <2>4, <2>7, <2>9, <1>0, NullIsNoClass DEF Held, SelfFeeds, InnerFeeds
    <3>2. InnerActive(R)
      BY <2>4, <2>7, <2>9, <1>0 DEF Held, InnerActive, Inners
    <3>3. LeafActive(R)
      BY <2>4, <2>9, <1>0 DEF Held, LeafActive
    <3> QED BY <3>1, <3>2, <3>3 DEF Held
  <2>11. PointersGood(R)
    BY <2>4, <2>7 DEF PointersGood, SelfPointers, InnerPointers, Reaches
  <2>12. \A d \in Leaves \ {cl} : R.active[d] = F.active[d]
    BY <2>1, <2>9, <1>0
  <2>13. R.active[cl] = F.active[cl] \ {prio}
    BY <2>1, <2>5, <2>9
  <2> QED BY <2>2, <2>3, <2>7, <2>8, <2>10, <2>11, <2>12, <2>13 DEF Good
<1> QED BY <1>1, <1>2

\* Deficit round robin gives a turn to a class of the same feed.
LEMMA TurnInFeed ==
  ASSUME NEW S \in SUBSET Classes, NEW ptr \in Pointers, NEW movers
  PROVE  Turn(S, ptr, movers) \in S \cup {ptr}
<1>1. CASE S = {}
  <2>1. Cardinality(S) = 0
    BY <1>1, FS_EmptySet
  <2> QED BY <2>1 DEF Turn
<1>2. CASE S # {}
  <2>1. S \subseteq Nat /\ {x \in S : ptr < x} \subseteq Nat
    <3>1. Classes \subseteq Nat
      BY TreeAssumption DEF Classes
    <3> QED BY <3>1
  <2>2. Least(S) \in S
    BY <1>2, <2>1, LeastElement
  <2>3. {x \in S : ptr < x} # {} => Least({x \in S : ptr < x}) \in S
    BY <2>1, LeastElement
  <2> QED BY <2>2, <2>3 DEF Turn, CyclicNext
<1> QED BY <1>1, <1>2

LEMMA RotatedGood ==
  ASSUME NEW F, NEW m, NEW leaf, NEW prio, Good(F, m, NULL)
  PROVE  /\ Good(Rotated(F, m, leaf, prio), m, NULL)
         /\ Rotated(F, m, leaf, prio).active = F.active
<1> DEFINE G == Rotated(F, m, leaf, prio)
           yellow == {d \in Climb(F, m, leaf, prio) : m[d] = Yellow}
           green  == {d \in Climb(F, m, leaf, prio) : m[d] = Green}
<1>0. F \in FeedsType
  BY DEF Good
<1>1. /\ G.active = F.active /\ G.inner = F.inner /\ G.self = F.self
      /\ G.innerNext = [c \in Classes |-> [p \in Prios |->
            IF p = prio
            THEN Turn(F.inner[c][p], F.innerNext[c][p], {d \in yellow : Parent[d] = c})
            ELSE F.innerNext[c][p]]]
      /\ G.selfNext = [l \in Levels |-> [p \in Prios |->
            IF p = prio
            THEN Turn(F.self[l][p], F.selfNext[l][p], {d \in green : Level[d] = l})
            ELSE F.selfNext[l][p]]]
  BY <1>0 DEF Rotated, FeedsType
<1>2. ASSUME NEW c \in Classes, NEW p \in Prios
      PROVE  G.innerNext[c][p] \in F.inner[c][p] \cup {F.innerNext[c][p]}
  <2>1. F.inner[c][p] \in SUBSET Classes /\ F.innerNext[c][p] \in Pointers
    BY <1>0 DEF FeedsType
  <2> QED BY <1>1, <2>1, TurnInFeed
<1>3. ASSUME NEW l \in Levels, NEW p \in Prios
      PROVE  G.selfNext[l][p] \in F.self[l][p] \cup {F.selfNext[l][p]}
  <2>1. F.self[l][p] \in SUBSET Classes /\ F.selfNext[l][p] \in Pointers
    BY <1>0 DEF FeedsType
  <2> QED BY <1>1, <2>1, TurnInFeed
<1>4. G \in FeedsType
  <2>1. /\ \A c \in Classes, p \in Prios : F.inner[c][p] \subseteq Pointers /\ F.innerNext[c][p] \in Pointers
        /\ \A l \in Levels, p \in Prios : F.self[l][p] \subseteq Pointers /\ F.selfNext[l][p] \in Pointers
    BY <1>0 DEF FeedsType, Pointers
  <2>2. /\ \A c \in Classes, p \in Prios : G.innerNext[c][p] \in Pointers
        /\ \A l \in Levels, p \in Prios : G.selfNext[l][p] \in Pointers
    BY <1>2, <1>3, <2>1
  <2>3. /\ G.innerNext = [c \in Classes |-> [p \in Prios |-> G.innerNext[c][p]]]
        /\ G.selfNext = [l \in Levels |-> [p \in Prios |-> G.selfNext[l][p]]]
    BY <1>1
  <2>4. G.innerNext \in [Classes -> [Prios -> Pointers]] /\ G.selfNext \in [Levels -> [Prios -> Pointers]]
    BY <2>2, <2>3
  <2>5. G = [F EXCEPT !.innerNext = G.innerNext, !.selfNext = G.selfNext]
    BY <1>1, <1>0 DEF Rotated
  <2> HIDE DEF G
  <2> QED BY <1>0, <2>4, <2>5 DEF FeedsType
<1>5. Repointed(F, G)
  BY <1>1, <1>2, <1>3 DEF Repointed
<1> QED BY <1>1, <1>4, <1>5, RepointedGood

\* The class a feed is served from next, by getLeaf, and its pointer.
LEMMA SelfNextGood ==
  ASSUME NEW F, NEW m, Good(F, m, NULL), NEW l \in Levels, NEW p \in Prios,
         F.selfNext[l][p] # NULL,
         NEW c, c = Current(F.self[l][p], F.selfNext[l][p])
  PROVE  LET G == [F EXCEPT !.selfNext[l][p] = c]
         IN  /\ Good(G, m, NULL) /\ G.active = F.active
             /\ c \in Classes /\ G.selfNext[l][p] = c /\ Reaches(G, c, p)
<1> DEFINE G == [F EXCEPT !.selfNext[l][p] = c]
           S == F.self[l][p]
           ptr == F.selfNext[l][p]
<1>0. F \in FeedsType /\ S \subseteq Classes /\ ptr \in Classes
  BY DEF Good, FeedsType, Pointers
<1>1. c \in S \cup {ptr} /\ c \in Classes
  BY <1>0, CurrentClass
<1>2. /\ G.active = F.active /\ G.inner = F.inner /\ G.self = F.self
      /\ G.innerNext = F.innerNext
      /\ G.selfNext = [F.selfNext EXCEPT ![l][p] = c]
  BY <1>0 DEF FeedsType
<1>3. /\ G.selfNext \in [Levels -> [Prios -> Pointers]]
      /\ G.selfNext[l][p] = c
      /\ \A k \in Levels, q \in Prios :
           G.selfNext[k][q] = IF k = l /\ q = p THEN c ELSE F.selfNext[k][q]
  BY <1>0, <1>1, <1>2 DEF FeedsType, Pointers
<1>4. G = [F EXCEPT !.selfNext = G.selfNext]
  BY <1>0 DEF FeedsType
<1> HIDE DEF G
<1>5. G \in FeedsType
  BY <1>0, <1>3, <1>4 DEF FeedsType
<1>6. Repointed(F, G)
  BY <1>1, <1>2, <1>3 DEF Repointed
<1>7. Good(G, m, NULL)
  BY <1>5, <1>6, RepointedGood
<1>8. Reaches(G, c, p)
  BY <1>3, <1>5, <1>7, <1>1, NullIsNoClass DEF Good, PointersGood, SelfPointers
<1> QED BY <1>1, <1>2, <1>3, <1>7, <1>8 DEF G

LEMMA InnerNextGood ==
  ASSUME NEW F, NEW m, Good(F, m, NULL), NEW k \in Classes, NEW p \in Prios,
         F.innerNext[k][p] # NULL,
         NEW d, d = Current(F.inner[k][p], F.innerNext[k][p])
  PROVE  LET G == [F EXCEPT !.innerNext[k][p] = d]
         IN  /\ Good(G, m, NULL) /\ G.active = F.active /\ G.selfNext = F.selfNext
             /\ d \in Classes /\ Reaches(G, d, p)
<1> DEFINE G == [F EXCEPT !.innerNext[k][p] = d]
           S == F.inner[k][p]
           ptr == F.innerNext[k][p]
<1>0. F \in FeedsType /\ S \subseteq Classes /\ ptr \in Classes
  BY DEF Good, FeedsType, Pointers
<1>1. d \in S \cup {ptr} /\ d \in Classes
  BY <1>0, CurrentClass
<1>2. /\ G.active = F.active /\ G.inner = F.inner /\ G.self = F.self
      /\ G.selfNext = F.selfNext
      /\ G.innerNext = [F.innerNext EXCEPT ![k][p] = d]
  BY <1>0 DEF FeedsType
<1>3. /\ G.innerNext \in [Classes -> [Prios -> Pointers]]
      /\ G.innerNext[k][p] = d
      /\ \A c \in Classes, q \in Prios :
           G.innerNext[c][q] = IF c = k /\ q = p THEN d ELSE F.innerNext[c][q]
  BY <1>0, <1>1, <1>2 DEF FeedsType, Pointers
<1>4. G = [F EXCEPT !.innerNext = G.innerNext]
  BY <1>0 DEF FeedsType
<1> HIDE DEF G
<1>5. G \in FeedsType
  BY <1>0, <1>3, <1>4 DEF FeedsType
<1>6. Repointed(F, G)
  BY <1>1, <1>2, <1>3 DEF Repointed
<1>7. Good(G, m, NULL)
  BY <1>5, <1>6, RepointedGood
<1>8. Reaches(G, d, p)
  BY <1>3, <1>5, <1>7, <1>1, NullIsNoClass DEF Good, PointersGood, InnerPointers
<1> QED BY <1>1, <1>2, <1>7, <1>8 DEF G

(***************************************************************************)
(* The inductive invariant.  The search stands at a class from which it    *)
(* can go on; the leaf that was served is active until the charge ends.    *)
(***************************************************************************)

SearchType == [level : Levels, prio : Prios, cl : Classes,
               start : Leaves \cup {NULL}, del : Leaves \cup {NULL}]

NextType == [leaf : Leaves, level : Levels, prio : Prios]

Cursor ==
  pc = "descend" =>
    /\ find \in SearchType
    /\ feeds.selfNext[find.level][find.prio] # NULL
    /\ Reaches(feeds, find.cl, find.prio)

Charging ==
  pc = "charge" =>
    /\ next \in NextType
    /\ charge \in [cl : Pointers, size : Sizes]
    /\ charge.cl \in Leaves => charge.cl = next.leaf
    /\ feeds.active[next.leaf] # {}

\* The type invariant, in parts.
BucketTypes ==
  /\ mode \in [Classes -> Modes]
  /\ tokens \in [Classes -> Int] /\ ctokens \in [Classes -> Int] /\ age \in [Classes -> Nat]

WaitTypes ==
  waiting \subseteq Classes /\ nextEvent \in [Classes -> Nat] /\ timer \in Nat \cup {Off}

QueueTypes == deficit \in [Leaves -> [Levels -> Int]] /\ qlen \in [Leaves -> 0..MaxQueue]

FlowTypes ==
  /\ pc \in {"idle", "charge", "events", "search", "descend", "schedule", "error"}
  /\ linkBusy \in BOOLEAN
  /\ error \in {"none", "negative deficit", "not next to dequeue",
                "already updated exactly now", "already waiting"}

LocalTypes ==
  /\ next \in NextType \cup {None}
  /\ find \in SearchType \cup {NoFind}
  /\ charge \in [cl : Pointers, size : Sizes] \cup {NoCharge}

IInv ==
  /\ BucketTypes /\ WaitTypes /\ QueueTypes /\ FlowTypes /\ LocalTypes
  /\ Good(feeds, mode, NULL)
  /\ WaitTreeConsistent
  /\ Cursor
  /\ Charging

LEMMA InvariantTypes == IInv => TypeOK
BY DEF IInv, TypeOK, BucketTypes, WaitTypes, QueueTypes, FlowTypes, LocalTypes,
   Good, FeedsType, Pointers, NextType, SearchType

LEMMA TickKeeps == IInv /\ Tick => IInv'
<1> SUFFICES ASSUME IInv, Tick PROVE IInv'
  OBVIOUS
<1>1. age' \in [Classes -> Nat]
  <2>1. \A c \in Classes : Lesser(age[c] + 1, MBuffer[c]) \in Nat
    <3> TAKE c \in Classes
    <3>1. age[c] + 1 \in Nat /\ MBuffer[c] \in Nat
      BY NumberAssumption DEF IInv, BucketTypes
    <3> QED BY <3>1 DEF Lesser
  <2> QED BY <2>1 DEF Tick
<1>2. nextEvent' \in [Classes -> Nat]
  <2>1. \A c \in Classes : Greater(nextEvent[c] - 1, 0) \in Nat
    <3> TAKE c \in Classes
    <3>1. nextEvent[c] - 1 \in Int
      BY DEF IInv, WaitTypes
    <3> QED BY <3>1 DEF Greater
  <2> QED BY <2>1 DEF Tick
<1>3. timer' \in Nat \cup {Off}
  <2>1. timer \in Nat \cup {Off} /\ timer # 0
    BY DEF IInv, WaitTypes, Tick
  <2> QED BY <2>1 DEF Tick, Off
<1>4. /\ UNCHANGED <<pc, mode, tokens, ctokens, feeds, waiting, deficit, next>>
      /\ UNCHANGED <<find, charge, qlen, error>> /\ linkBusy' = FALSE
  BY DEF Tick, locals
<1>5. (BucketTypes /\ WaitTypes /\ QueueTypes /\ FlowTypes /\ LocalTypes)'
  BY <1>1, <1>2, <1>3, <1>4
     DEF IInv, BucketTypes, WaitTypes, QueueTypes, FlowTypes, LocalTypes
<1>6. (Good(feeds, mode, NULL) /\ WaitTreeConsistent /\ Cursor /\ Charging)'
  BY <1>4 DEF IInv, WaitTreeConsistent, Cursor, Charging
<1> QED BY <1>5, <1>6 DEF IInv

\* What a leaf is: a class below the root.
LEMMA LeafClass ==
  ASSUME NEW c \in Leaves
  PROVE  /\ c \in Classes /\ c \notin Inners /\ c # Root /\ Level[c] \in Levels
         /\ Parent[c] \in Classes /\ LeafPrio[c] \in Prios
BY TreeAssumption DEF Leaves, Inners, Levels

\* A leaf that has packets to send is put into the feeds.
LEMMA JoinedGood ==
  ASSUME NEW F, NEW m \in [Classes -> Modes], NEW c \in Leaves, Good(F, m, NULL),
         LeafPrio[c] \notin F.active[c],
         NEW G, G = Activated([F EXCEPT !.active[c] = @ \cup {LeafPrio[c]}], m, c)
  PROVE  /\ Good(G, m, NULL) /\ F.active[c] = {} /\ G.active[c] = {LeafPrio[c]}
         /\ \A d \in Leaves \ {c} : G.active[d] = F.active[d]
<1> DEFINE H == [F EXCEPT !.active[c] = @ \cup {LeafPrio[c]}]
<1>0. /\ F \in FeedsType /\ Held(F, m, NULL) /\ PointersGood(F)
      /\ c \in Classes /\ c \notin Inners /\ LeafPrio[c] \in Prios
  BY LeafClass DEF Good
<1>1. F.active[c] = {}
  BY <1>0 DEF Held, LeafActive
<1>2. /\ H.active = [F.active EXCEPT ![c] = F.active[c] \cup {LeafPrio[c]}]
      /\ H.inner = F.inner /\ H.self = F.self
      /\ H.innerNext = F.innerNext /\ H.selfNext = F.selfNext
  BY <1>0 DEF FeedsType
<1>3. H.active[c] = {LeafPrio[c]} /\ \A d \in Classes \ {c} : H.active[d] = F.active[d]
  BY <1>0, <1>1, <1>2 DEF FeedsType
<1>4. H \in FeedsType
  BY <1>0 DEF FeedsType
<1> HIDE DEF H
<1>5. SelfFeeds(H, m, c) /\ InnerFeeds(H, m, c)
  BY <1>0, <1>1, <1>2, <1>3, NullIsNoClass DEF Held, SelfFeeds, InnerFeeds
<1>6. InnerActive(H) /\ LeafActive(H)
  BY <1>0, <1>2, <1>3 DEF Held, InnerActive, LeafActive, Inners, Leaves
<1>7. PointersGood(H)
  BY <1>0, <1>2 DEF PointersGood, SelfPointers, InnerPointers, Reaches
<1>8. Good(H, m, c)
  BY <1>4, <1>5, <1>6, <1>7 DEF Good, Held
<1>9. /\ Good(Activated(H, m, c), m, NULL)
      /\ \A d \in Leaves : Activated(H, m, c).active[d] = H.active[d]
  BY <1>0, <1>8, ActivatedGood
<1> QED BY <1>1, <1>3, <1>9, LeafClass DEF H

LEMMA PushKeeps == ASSUME NEW c \in Leaves PROVE IInv /\ Push(c) => IInv'
<1> SUFFICES ASSUME IInv, Push(c) PROVE IInv'
  OBVIOUS
<1>0. /\ Good(feeds, mode, NULL) /\ WaitTreeConsistent
      /\ c \in Classes /\ c \notin Inners /\ mode \in [Classes -> Modes]
  BY LeafClass DEF IInv, BucketTypes
<1>1. /\ UNCHANGED <<mode, tokens, ctokens, age, timer, deficit, next, find, charge, linkBusy>>
      /\ pc' \in {"events", "error"} /\ error' \in {error, "already waiting"}
  BY DEF Push, Throw, buckets, locals
<1>2. qlen' \in [Leaves -> 0..MaxQueue] /\ \A d \in Leaves : qlen'[d] > 0 => qlen[d] > 0 \/ d = c
  <2>1. qlen' = [qlen EXCEPT ![c] = Lesser(qlen[c] + 1, MaxQueue)]
    BY DEF Push
  <2>2. qlen \in [Leaves -> 0..MaxQueue] /\ MaxQueue \in Nat
    BY NumberAssumption DEF IInv, QueueTypes
  <2>3. Lesser(qlen[c] + 1, MaxQueue) \in 0..MaxQueue
    BY <2>2 DEF Lesser
  <2> QED BY <2>1, <2>2, <2>3
<1>3. CASE LeafPrio[c] \in feeds.active[c]
  <2>1. UNCHANGED <<feeds, waiting, nextEvent>> /\ feeds.active[c] # {}
    BY <1>3 DEF Push
  <2>2. (BucketTypes /\ WaitTypes /\ QueueTypes /\ FlowTypes /\ LocalTypes)'
    BY <1>1, <1>2, <2>1
       DEF IInv, BucketTypes, WaitTypes, QueueTypes, FlowTypes, LocalTypes
  <2>3. WaitTreeConsistent'
    BY <1>0, <1>1, <1>2, <2>1 DEF WaitTreeConsistent
  <2> QED BY <1>0, <1>1, <2>1, <2>2, <2>3 DEF IInv, Cursor, Charging
<1>4. CASE LeafPrio[c] \notin feeds.active[c]
  <2>1. feeds' = Activated([feeds EXCEPT !.active[c] = @ \cup {LeafPrio[c]}], mode, c)
    BY <1>4 DEF Push
  <2>2. /\ Good(feeds', mode, NULL) /\ feeds.active[c] = {} /\ feeds'.active[c] = {LeafPrio[c]}
        /\ \A d \in Leaves \ {c} : feeds'.active[d] = feeds.active[d]
    BY <1>0, <1>4, <2>1, JoinedGood
  <2>3. /\ mode[c] # Green => waiting' = waiting \cup {c} /\ nextEvent' = [nextEvent EXCEPT ![c] = 0]
        /\ mode[c] = Green => waiting' = waiting /\ nextEvent' = nextEvent
    BY <1>4 DEF Push
  <2>4. WaitTypes'
    <3>1. WaitTypes
      BY DEF IInv
    <3>2. nextEvent' \in [Classes -> Nat] /\ waiting' \subseteq Classes
      <4>1. CASE mode[c] = Green
        BY <4>1, <3>1, <2>3 DEF WaitTypes
      <4>2. CASE mode[c] # Green
        BY <4>2, <3>1, <2>3, <1>0 DEF WaitTypes
      <4> QED BY <4>1, <4>2
    <3> QED BY <3>1, <3>2, <1>1 DEF WaitTypes
  <2>5. (BucketTypes /\ QueueTypes /\ FlowTypes /\ LocalTypes)'
    BY <1>1, <1>2 DEF IInv, BucketTypes, QueueTypes, FlowTypes, LocalTypes
  <2>6. WaitTreeConsistent'
    <3>1. \A d \in Inners : d \in waiting' <=> mode[d] # Green
      BY <1>0, <2>3 DEF WaitTreeConsistent
    <3>2. \A d \in Leaves : d \in waiting' <=> mode[d] # Green /\ feeds'.active[d] # {}
      BY <1>0, <2>2, <2>3 DEF WaitTreeConsistent
    <3>3. \A d \in Leaves : qlen'[d] > 0 => feeds'.active[d] # {}
      BY <1>0, <1>2, <2>2 DEF WaitTreeConsistent
    <3> QED BY <1>1, <3>1, <3>2, <3>3 DEF WaitTreeConsistent
  <2> QED BY <1>1, <2>2, <2>4, <2>5, <2>6 DEF IInv, Cursor, Charging
<1> QED BY <1>3, <1>4

LEMMA RemoveKeeps ==
  IInv /\ (Timer \/ RemoveAll \/ \E c \in Leaves : Remove(c)) => IInv'
<1> SUFFICES ASSUME IInv, Timer \/ RemoveAll \/ \E c \in Leaves : Remove(c) PROVE IInv'
  OBVIOUS
<1>0. qlen \in [Leaves -> 0..MaxQueue] /\ MaxQueue \in Nat
  BY NumberAssumption DEF IInv, QueueTypes
<1>1. /\ pc \in {"idle"} /\ pc' \in {"idle", "events"} /\ timer' \in {timer, Off}
      /\ UNCHANGED <<mode, tokens, ctokens, age, feeds, waiting, nextEvent, deficit>>
      /\ UNCHANGED <<next, find, charge, linkBusy, error>>
  BY DEF Timer, RemoveAll, Remove, buckets, locals
<1>2. qlen' \in [Leaves -> 0..MaxQueue] /\ \A d \in Leaves : qlen'[d] > 0 => qlen[d] > 0
  <2>1. CASE Timer
    BY <1>0, <2>1 DEF Timer
  <2>2. CASE RemoveAll
    BY <1>0, <2>2 DEF RemoveAll
  <2>3. ASSUME NEW c \in Leaves, Remove(c)
        PROVE  qlen' \in [Leaves -> 0..MaxQueue] /\ \A d \in Leaves : qlen'[d] > 0 => qlen[d] > 0
    <3>1. qlen' = [qlen EXCEPT ![c] = qlen[c] - 1] /\ qlen[c] > 0
      BY <2>3 DEF Remove
    <3> QED BY <1>0, <3>1
  <2> QED BY <2>1, <2>2, <2>3
<1>3. (BucketTypes /\ WaitTypes /\ QueueTypes /\ FlowTypes /\ LocalTypes)'
  BY <1>1, <1>2 DEF IInv, BucketTypes, WaitTypes, QueueTypes, FlowTypes, LocalTypes
<1>4. WaitTreeConsistent'
  BY <1>1, <1>2 DEF IInv, WaitTreeConsistent
<1> QED BY <1>1, <1>3, <1>4 DEF IInv, Cursor, Charging

LEMMA NoneIsNull == None.leaf = NULL /\ NoCharge.cl = NULL
BY DEF None, NoCharge

\* An error ends the simulation, and leaves what the other handlers rely on.
LEMMA PullKeeps == ASSUME NEW s \in Sizes PROVE IInv /\ Pull(s) => IInv'
<1> SUFFICES ASSUME IInv, Pull(s) PROVE IInv'
  OBVIOUS
<1> DEFINE c == next.leaf
           l == next.level
           left == deficit[c][l] - (s + PhyHeader)
<1>1. /\ UNCHANGED <<mode, tokens, ctokens, age, waiting, nextEvent, timer, next, find>>
      /\ linkBusy' = TRUE /\ pc' \in {"error", "charge"}
      /\ error' \in {error, "negative deficit", "not next to dequeue"}
      /\ qlen' = [qlen EXCEPT ![c] = qlen[c] - 1] /\ qlen[c] > 0 /\ c # NULL
  BY DEF Pull, Throw, CanPull, buckets
<1>2. next \in NextType
  BY <1>1, NoneIsNull DEF IInv, LocalTypes
<1>3. c \in Leaves /\ l \in Levels /\ next.prio \in Prios /\ c \in Classes
  BY <1>2, LeafClass DEF NextType
<1>4. feeds.active[c] # {}
  BY <1>1, <1>3 DEF IInv, WaitTreeConsistent
<1>5. feeds' = feeds \/ feeds' = Rotated(feeds, mode, c, next.prio)
  BY DEF Pull
<1>6. Good(feeds', mode, NULL) /\ feeds'.active = feeds.active
  BY <1>5, RotatedGood DEF IInv
<1>7. /\ charge' \in {charge, [cl |-> c, size |-> s]}
      /\ pc' = "charge" => charge' = [cl |-> c, size |-> s]
  BY DEF Pull, Throw
<1>8. deficit' \in [Leaves -> [Levels -> Int]]
  <2>1. deficit \in [Leaves -> [Levels -> Int]] /\ s \in Int /\ PhyHeader \in Int /\ Quantum[c] \in Int
    BY <1>3, NumberAssumption DEF IInv, QueueTypes
  <2>2. deficit' \in {deficit, [deficit EXCEPT ![c][l] = Refilled(c, left)]}
    BY DEF Pull
  <2>3. left \in Int
    BY <2>1, <1>3
  <2>4. Refilled(c, left) \in Int
    BY <2>1, <2>3 DEF Refilled
  <2> QED BY <2>1, <2>2, <2>4
<1>9. qlen' \in [Leaves -> 0..MaxQueue] /\ \A d \in Leaves : qlen'[d] > 0 => qlen[d] > 0
  <2>1. qlen \in [Leaves -> 0..MaxQueue] /\ MaxQueue \in Nat
    BY NumberAssumption DEF IInv, QueueTypes
  <2>2. qlen' = [qlen EXCEPT ![c] = qlen[c] - 1] /\ qlen[c] > 0 /\ c \in Leaves
    BY <1>1, <1>3
  <2> HIDE DEF c
  <2> QED BY <2>1, <2>2
<1>10. (BucketTypes /\ WaitTypes /\ QueueTypes /\ FlowTypes)'
  BY <1>1, <1>8, <1>9 DEF IInv, BucketTypes, WaitTypes, QueueTypes, FlowTypes
<1>11. (LocalTypes /\ Charging)'
  <2>1. [cl |-> c, size |-> s] \in [cl : Pointers, size : Sizes]
    BY <1>3 DEF Pointers
  <2>2. LocalTypes'
    BY <2>1, <1>1, <1>7 DEF IInv, LocalTypes
  <2>3. feeds'.active[next'.leaf] # {} /\ next' \in NextType
    BY <1>1, <1>2, <1>4, <1>6
  <2>4. pc' = "charge" => charge' \in [cl : Pointers, size : Sizes] /\ charge'.cl = next'.leaf
    <3>1. next'.leaf = c /\ [cl |-> c, size |-> s].cl = c
      BY <1>1
    <3>2. pc' = "charge" => charge' = [cl |-> c, size |-> s]
      BY <1>7
    <3> HIDE DEF c
    <3> QED BY <2>1, <3>1, <3>2
  <2>5. Charging'
    BY <2>3, <2>4 DEF Charging
  <2> QED BY <2>2, <2>5
<1>12. (WaitTreeConsistent /\ Cursor)'
  BY <1>1, <1>6, <1>9 DEF IInv, WaitTreeConsistent, Cursor
<1> QED BY <1>1, <1>6, <1>10, <1>11, <1>12 DEF IInv

\* What classMode returns is a mode, and the delay is not negative.
LEMMA ModeDebt ==
  ASSUME NEW c \in Classes, NEW old \in Modes, NEW tok \in Int, NEW ctok \in Int,
         NEW diff \in Nat
  PROVE  /\ ClassMode(c, old, tok, ctok, diff) \in Modes
         /\ Debt(ClassMode(c, old, tok, ctok, diff), tok, ctok, diff) \in Nat
<1> DEFINE new == ClassMode(c, old, tok, ctok, diff)
<1>1. /\ Lowater(c, old) \in Int /\ Lowater(c, old) <= 0
      /\ Hiwater(c, old) \in Int /\ Hiwater(c, old) <= 0
  BY NumberAssumption DEF Lowater, Hiwater
<1>2. \/ new = Red /\ ctok + diff < Lowater(c, old)
      \/ new = Green
      \/ new = Yellow /\ tok + diff < Hiwater(c, old)
  BY <1>1 DEF ClassMode
<1> HIDE DEF new
<1> QED BY <1>1, <1>2 DEF Debt, Modes, Red, Yellow, Green, new

LEMMA AccountInt ==
  ASSUME NEW tok \in Int, NEW diff \in Int, NEW burst \in Int, NEW cost \in Int,
         NEW mbuffer \in Int
  PROVE  Account(tok, diff, burst, cost, mbuffer) \in Int
BY DEF Account, Lesser

LEMMA ChargeClassKeeps == IInv /\ ChargeClass => IInv'
<1> SUFFICES ASSUME IInv, ChargeClass PROVE IInv'
  OBVIOUS
<1> DEFINE c     == charge.cl
           s     == charge.size
           spent == Account(tokens[c], age[c], Burst[c], Cost[c][s], MBuffer[c])
           tok   == IF Level[c] >= next.level THEN spent ELSE tokens[c] + age[c]
           ctok  == Account(ctokens[c], age[c], CBurst[c], CCost[c][s], MBuffer[c])
           new   == ClassMode(c, mode[c], tok, ctok, 0)
           left  == IF mode[c] # Green THEN waiting \ {c} ELSE waiting
<1>1. /\ BucketTypes /\ WaitTypes /\ LocalTypes /\ Good(feeds, mode, NULL)
      /\ WaitTreeConsistent /\ pc = "charge" /\ c # NULL
      /\ next \in NextType /\ charge \in [cl : Pointers, size : Sizes]
      /\ c \in Leaves => c = next.leaf
      /\ feeds.active[next.leaf] # {}
  BY DEF IInv, Charging, ChargeClass
<1>2. c \in Classes /\ s \in Sizes /\ next.leaf \in Leaves
  BY <1>1 DEF Pointers, NextType
<1>3. /\ UNCHANGED <<timer, deficit, next, find, qlen, linkBusy>>
      /\ pc' \in {"charge", "error"}
      /\ error' \in {error, "already updated exactly now", "already waiting"}
  BY <1>1 DEF ChargeClass, Throw
<1>4. CASE age[c] = 0
  <2>1. /\ UNCHANGED <<mode, tokens, ctokens, age, feeds, waiting, nextEvent, charge>>
        /\ pc' = "error"
    BY <1>4 DEF ChargeClass, buckets, Throw
  <2>2. (BucketTypes /\ WaitTypes /\ QueueTypes /\ FlowTypes /\ LocalTypes)'
    BY <1>3, <2>1 DEF IInv, BucketTypes, WaitTypes, QueueTypes, FlowTypes, LocalTypes
  <2>3. (WaitTreeConsistent /\ Cursor /\ Charging)'
    BY <1>1, <1>3, <2>1 DEF WaitTreeConsistent, Cursor, Charging
  <2> QED BY <1>1, <2>1, <2>2, <2>3 DEF IInv
<1>5. CASE age[c] # 0
  <2>1. /\ tokens' = [tokens EXCEPT ![c] = tok]
        /\ ctokens' = [ctokens EXCEPT ![c] = ctok]
        /\ age' = [age EXCEPT ![c] = 0]
        /\ mode' = [mode EXCEPT ![c] = new]
        /\ feeds' = Moved(feeds, mode, c, new)
        /\ charge' = [charge EXCEPT !.cl = Parent[c]]
        /\ new = mode[c] => waiting' = waiting /\ nextEvent' = nextEvent
        /\ new # mode[c] /\ new = Green => waiting' = left /\ nextEvent' = nextEvent
        /\ new # mode[c] /\ new # Green =>
             /\ waiting' = left \cup {c}
             /\ nextEvent' = [nextEvent EXCEPT ![c] = Debt(new, tok, ctok, 0)]
    BY <1>5 DEF ChargeClass
  <2>2. tok \in Int /\ ctok \in Int
    <3> HIDE DEF c, s
    <3>1. tokens[c] \in Int /\ ctokens[c] \in Int /\ age[c] \in Int
      BY <1>1, <1>2 DEF BucketTypes
    <3>2. /\ Burst[c] \in Int /\ CBurst[c] \in Int /\ MBuffer[c] \in Int
          /\ Cost[c][s] \in Int /\ CCost[c][s] \in Int
      BY <1>2, NumberAssumption
    <3> HIDE DEF spent
    <3>3. spent \in Int
      BY <3>1, <3>2, AccountInt DEF spent
    <3>4. tokens[c] + age[c] \in Int
      BY <3>1
    <3>5. tok \in Int
      BY <3>3, <3>4 DEF tok
    <3>6. ctok \in Int
      BY <3>1, <3>2, AccountInt DEF ctok
    <3> QED BY <3>5, <3>6
  <2>3. mode \in [Classes -> Modes] /\ mode[c] \in Modes
    BY <1>1, <1>2 DEF BucketTypes
  <2>4. new \in Modes /\ Debt(new, tok, ctok, 0) \in Nat
    BY <1>2, <2>2, <2>3, ModeDebt
  <2> HIDE DEF tok, ctok, new, c, s, spent, left
  <2>5. /\ Good(feeds', mode', NULL)
        /\ \A d \in Leaves : feeds'.active[d] = feeds.active[d]
    <3>1. /\ Good(Moved(feeds, mode, c, new), [mode EXCEPT ![c] = new], NULL)
          /\ \A d \in Leaves : Moved(feeds, mode, c, new).active[d] = feeds.active[d]
      BY <1>1, <1>2, <2>3, <2>4, MovedGood
    <3> QED BY <2>1, <3>1
  <2>6. BucketTypes'
    BY <1>1, <1>2, <2>1, <2>2, <2>4 DEF BucketTypes
  <2>7. WaitTypes'
    <3>1. waiting \subseteq Classes /\ nextEvent \in [Classes -> Nat]
      BY <1>1 DEF WaitTypes
    <3>2. waiting' \subseteq Classes
      BY <2>1, <3>1, <1>2 DEF left
    <3>3. nextEvent' \in [Classes -> Nat]
      <4>1. nextEvent' \in {nextEvent, [nextEvent EXCEPT ![c] = Debt(new, tok, ctok, 0)]}
        BY <2>1
      <4> QED BY <4>1, <3>1, <2>4
    <3> QED BY <1>1, <1>3, <3>2, <3>3 DEF WaitTypes
  <2>8. charge' \in [cl : Pointers, size : Sizes] /\ charge'.cl = Parent[c]
    BY <1>1, <1>2, <2>1, TreeAssumption DEF Pointers
  <2>9. Parent[c] \notin Leaves
    <3>1. CASE c = Root
      BY <3>1, TreeAssumption, NullIsNoClass DEF Leaves, Root, Classes
    <3>2. CASE c # Root
      <4>1. Level[c] < Level[Parent[c]] /\ Level[c] \in Nat
        BY <3>2, <1>2, TreeAssumption
      <4>2. ~(Level[Parent[c]] = 0)
        BY <4>1
      <4> QED BY <4>2 DEF Leaves
    <3> QED BY <3>1, <3>2
  <2>10. (QueueTypes /\ FlowTypes /\ LocalTypes)'
    BY <1>3, <2>8 DEF IInv, QueueTypes, FlowTypes, LocalTypes
  <2>11. (Cursor /\ Charging)'
    BY <1>1, <1>2, <1>3, <2>5, <2>8, <2>9 DEF Cursor, Charging, c
  <2>12. WaitTreeConsistent'
    <3>1. \A d \in Classes : mode'[d] = IF d = c THEN new ELSE mode[d]
      BY <1>2, <2>1, <2>3
    <3>2. c \in Leaves => feeds.active[c] # {}
      BY <1>1 DEF c
    <3>3. waiting' = IF new = mode[c] THEN waiting
                     ELSE IF new = Green THEN waiting \ {c} ELSE waiting \cup {c}
      BY <2>1, <1>1, <1>2, <3>2 DEF WaitTreeConsistent, Inners, left
    <3>4. \A d \in Inners : d \in waiting' <=> mode'[d] # Green
      BY <1>1, <3>1, <3>3 DEF WaitTreeConsistent, Inners
    <3>5. \A d \in Leaves : d \in waiting' <=> mode'[d] # Green /\ feeds'.active[d] # {}
      BY <1>1, <2>5, <3>1, <3>2, <3>3, LeafClass DEF WaitTreeConsistent
    <3> QED BY <1>1, <1>3, <2>5, <3>4, <3>5 DEF WaitTreeConsistent
  <2> QED BY <2>5, <2>6, <2>7, <2>10, <2>11, <2>12 DEF IInv
<1> QED BY <1>4, <1>5

\* A leaf whose queue is empty leaves the feeds, and the wait tree with them.
LEMMA LeafLeaves ==
  ASSUME IInv, NEW c \in Leaves, qlen[c] = 0, NEW prio
  PROVE  LET e == LeafDeactivated(feeds, mode, c, prio)
             w == StillWaiting(c, prio)
         IN  /\ Good(e, mode, NULL) /\ e.selfNext = feeds.selfNext
             /\ w \subseteq Classes
             /\ \A d \in Inners : d \in w <=> mode[d] # Green
             /\ \A d \in Leaves : d \in w <=> mode[d] # Green /\ e.active[d] # {}
             /\ \A d \in Leaves : qlen[d] > 0 => e.active[d] # {}
<1> DEFINE e == LeafDeactivated(feeds, mode, c, prio)
           w == StillWaiting(c, prio)
<1>0. /\ Good(feeds, mode, NULL) /\ WaitTreeConsistent /\ waiting \subseteq Classes
      /\ mode \in [Classes -> Modes] /\ c \in Classes /\ c \notin Inners
      /\ feeds.active[c] \subseteq {LeafPrio[c]}
  BY LeafClass DEF IInv, WaitTypes, BucketTypes, Good, Held, LeafActive
<1>1. /\ Good(e, mode, NULL) /\ e.selfNext = feeds.selfNext
      /\ e.active[c] = feeds.active[c] \ {prio}
      /\ \A d \in Leaves \ {c} : e.active[d] = feeds.active[d]
  BY <1>0, LeafDeactivatedGood
<1> HIDE DEF e
<1>2. w = IF prio \in feeds.active[c] THEN waiting \ {c} ELSE waiting
  BY DEF StillWaiting
<1>3. prio \in feeds.active[c] => e.active[c] = {}
  BY <1>0, <1>1
<1>4. prio \notin feeds.active[c] => e.active[c] = feeds.active[c]
  BY <1>1
<1> HIDE DEF w
<1>5. \A d \in Inners : d \in w <=> mode[d] # Green
  BY <1>0, <1>2 DEF WaitTreeConsistent
<1>6. \A d \in Leaves : d \in w <=> mode[d] # Green /\ e.active[d] # {}
  BY <1>0, <1>1, <1>2, <1>3, <1>4 DEF WaitTreeConsistent
<1>7. \A d \in Leaves : qlen[d] > 0 => e.active[d] # {}
  BY <1>0, <1>1 DEF WaitTreeConsistent
<1> QED BY <1>0, <1>1, <1>2, <1>5, <1>6, <1>7 DEF e, w

LEMMA EndChargeKeeps == IInv /\ EndCharge => IInv'
<1> SUFFICES ASSUME IInv, EndCharge PROVE IInv'
  OBVIOUS
<1>1. /\ UNCHANGED <<mode, tokens, ctokens, age, nextEvent, timer, deficit>>
      /\ UNCHANGED <<next, find, qlen, linkBusy, error>>
      /\ charge' = NoCharge /\ pc' = "events" /\ pc = "charge"
  BY DEF EndCharge, buckets
<1>2. next.leaf \in Leaves
  BY <1>1 DEF IInv, Charging, NextType
<1>3. /\ Good(feeds', mode', NULL) /\ waiting' \subseteq Classes /\ WaitTreeConsistent'
  <2>1. CASE qlen[next.leaf] = 0
    <3>1. /\ feeds' = LeafDeactivated(feeds, mode, next.leaf, next.prio)
          /\ waiting' = StillWaiting(next.leaf, next.prio)
      BY <2>1 DEF EndCharge
    <3> QED BY <1>1, <1>2, <2>1, <3>1, LeafLeaves DEF WaitTreeConsistent
  <2>2. CASE qlen[next.leaf] # 0
    <3>1. UNCHANGED <<feeds, waiting>>
      BY <2>2 DEF EndCharge
    <3> QED BY <1>1, <3>1 DEF IInv, WaitTreeConsistent, WaitTypes
  <2> QED BY <2>1, <2>2
<1>4. (BucketTypes /\ WaitTypes /\ QueueTypes /\ FlowTypes /\ LocalTypes)'
  BY <1>1, <1>3 DEF IInv, BucketTypes, WaitTypes, QueueTypes, FlowTypes, LocalTypes
<1>5. (Cursor /\ Charging)'
  BY <1>1 DEF Cursor, Charging
<1> QED BY <1>3, <1>4, <1>5 DEF IInv

LEMMA DoEventKeeps == ASSUME NEW c \in Classes PROVE IInv /\ DoEvent(c) => IInv'
<1> SUFFICES ASSUME IInv, DoEvent(c) PROVE IInv'
  OBVIOUS
<1> DEFINE new == ClassMode(c, mode[c], tokens[c], ctokens[c], age[c])
           debt == Debt(new, tokens[c], ctokens[c], age[c])
<1>1. /\ UNCHANGED <<pc, tokens, ctokens, age, timer, deficit>>
      /\ UNCHANGED <<next, find, charge, qlen, linkBusy, error>>
      /\ pc = "events" /\ c \in waiting
      /\ mode' = [mode EXCEPT ![c] = new]
      /\ feeds' = Moved(feeds, mode, c, new)
      /\ new = Green => waiting' = waiting \ {c} /\ nextEvent' = nextEvent
      /\ new # Green => waiting' = waiting /\ nextEvent' = [nextEvent EXCEPT ![c] = debt]
  BY DEF DoEvent, FirstDue, Due, buckets, locals
<1>2. /\ BucketTypes /\ WaitTypes /\ Good(feeds, mode, NULL) /\ WaitTreeConsistent
      /\ mode \in [Classes -> Modes]
  BY DEF IInv, BucketTypes
<1>3. new \in Modes /\ debt \in Nat
  BY <1>2, ModeDebt DEF BucketTypes
<1> HIDE DEF new, debt
<1>4. /\ Good(feeds', mode', NULL)
      /\ \A d \in Leaves : feeds'.active[d] = feeds.active[d]
  <2>1. /\ Good(Moved(feeds, mode, c, new), [mode EXCEPT ![c] = new], NULL)
        /\ \A d \in Leaves : Moved(feeds, mode, c, new).active[d] = feeds.active[d]
    BY <1>2, <1>3, MovedGood
  <2> QED BY <2>1, <1>1
<1>5. waiting' \subseteq Classes /\ nextEvent' \in [Classes -> Nat]
  BY <1>1, <1>2, <1>3 DEF WaitTypes
<1>6. mode' \in [Classes -> Modes] /\ \A d \in Classes : mode'[d] = IF d = c THEN new ELSE mode[d]
  BY <1>1, <1>2, <1>3
<1>7. (BucketTypes /\ WaitTypes /\ QueueTypes /\ FlowTypes /\ LocalTypes)'
  BY <1>1, <1>2, <1>5, <1>6 DEF IInv, BucketTypes, WaitTypes, QueueTypes, FlowTypes, LocalTypes
<1>8. WaitTreeConsistent'
  <2>1. \A d \in Inners : d \in waiting' <=> mode'[d] # Green
    BY <1>1, <1>2, <1>6 DEF WaitTreeConsistent, Inners
  <2>2. \A d \in Leaves : d \in waiting' <=> mode'[d] # Green /\ feeds'.active[d] # {}
    <3>1. c \in Leaves => feeds.active[c] # {}
      BY <1>1, <1>2 DEF WaitTreeConsistent
    <3> QED BY <1>1, <1>2, <1>4, <1>6, <3>1, LeafClass DEF WaitTreeConsistent
  <2> QED BY <1>1, <1>2, <1>4, <2>1, <2>2 DEF WaitTreeConsistent
<1>9. (Cursor /\ Charging)'
  BY <1>1 DEF Cursor, Charging
<1> QED BY <1>4, <1>7, <1>8, <1>9 DEF IInv

LEMMA EndEventsKeeps == IInv /\ EndEvents => IInv'
<1> SUFFICES ASSUME IInv, EndEvents PROVE IInv'
  OBVIOUS
<1>1. /\ UNCHANGED <<mode, tokens, ctokens, age, feeds, waiting, nextEvent, timer>>
      /\ UNCHANGED <<deficit, charge, qlen, linkBusy, error>>
      /\ pc' = "search" /\ next' = None /\ find' = NoFind
  BY DEF EndEvents, buckets
<1>2. (BucketTypes /\ WaitTypes /\ QueueTypes /\ FlowTypes /\ LocalTypes)'
  BY <1>1 DEF IInv, BucketTypes, WaitTypes, QueueTypes, FlowTypes, LocalTypes
<1> QED BY <1>1, <1>2 DEF IInv, WaitTreeConsistent, Cursor, Charging

LEMMA SearchKeeps == IInv /\ Search => IInv'
<1> SUFFICES ASSUME IInv, Search PROVE IInv'
  OBVIOUS
<1>1. /\ UNCHANGED <<mode, tokens, ctokens, age, waiting, nextEvent, timer, deficit>>
      /\ UNCHANGED <<next, charge, qlen, linkBusy, error>>
      /\ pc = "search"
  BY DEF Search, buckets
<1>2. CASE Ahead = {}
  <2>1. UNCHANGED <<feeds, find>> /\ pc' = "schedule"
    BY <1>2 DEF Search
  <2>2. (BucketTypes /\ WaitTypes /\ QueueTypes /\ FlowTypes /\ LocalTypes)'
    BY <1>1, <2>1 DEF IInv, BucketTypes, WaitTypes, QueueTypes, FlowTypes, LocalTypes
  <2> QED BY <1>1, <2>1, <2>2 DEF IInv, WaitTreeConsistent, Cursor, Charging
<1>3. ASSUME NEW l \in Levels, NEW p \in Prios, EnterFeed(l, p)
      PROVE  IInv'
  <2> DEFINE c == Current(feeds.self[l][p], feeds.selfNext[l][p])
  <2>1. /\ feeds' = [feeds EXCEPT !.selfNext[l][p] = c]
        /\ find' = [level |-> l, prio |-> p, cl |-> c, start |-> NULL, del |-> NULL]
        /\ pc' = "descend"
    BY <1>3 DEF EnterFeed, NoFind
  <2>2. feeds.self[l][p] # {}
    BY <1>3 DEF EnterFeed, Ahead
  <2>3. Good(feeds, mode, NULL) /\ feeds.selfNext[l][p] # NULL
    BY <2>2 DEF IInv, Good, PointersGood, SelfPointers
  <2>4. /\ Good(feeds', mode, NULL) /\ feeds'.active = feeds.active
        /\ c \in Classes /\ feeds'.selfNext[l][p] = c /\ Reaches(feeds', c, p)
    BY <2>1, <2>3, SelfNextGood
  <2> HIDE DEF c
  <2>5. find' \in SearchType
    BY <2>1, <2>4 DEF SearchType
  <2>6. (BucketTypes /\ WaitTypes /\ QueueTypes /\ FlowTypes /\ LocalTypes)'
    BY <1>1, <2>1, <2>5 DEF IInv, BucketTypes, WaitTypes, QueueTypes, FlowTypes, LocalTypes
  <2>7. Cursor'
    BY <2>1, <2>4, <2>5, NullIsNoClass DEF Cursor
  <2>8. (WaitTreeConsistent /\ Charging)'
    BY <1>1, <2>1, <2>4 DEF IInv, WaitTreeConsistent, Charging
  <2> QED BY <1>1, <2>4, <2>6, <2>7, <2>8 DEF IInv
<1> QED BY <1>2, <1>3 DEF Search

LEMMA DescendKeeps == IInv /\ Descend => IInv'
<1> SUFFICES ASSUME IInv, Descend PROVE IInv'
  OBVIOUS
<1> DEFINE c == find.cl
           p == find.prio
           d == Current(feeds.inner[c][p], feeds.innerNext[c][p])
<1>1. /\ UNCHANGED <<pc, mode, tokens, ctokens, age, waiting, nextEvent, timer, deficit>>
      /\ UNCHANGED <<next, charge, qlen, linkBusy, error>>
      /\ pc = "descend" /\ Level[c] > 0
      /\ feeds' = [feeds EXCEPT !.innerNext[c][p] = d]
      /\ find' = [find EXCEPT !.cl = d]
  BY DEF Descend, buckets
<1>2. /\ find \in SearchType /\ c \in Classes /\ p \in Prios /\ find.level \in Levels
      /\ feeds.selfNext[find.level][p] # NULL
      /\ Reaches(feeds, c, p)
  BY <1>1 DEF IInv, Cursor, SearchType
<1>3. feeds.innerNext[c][p] # NULL
  BY <1>1, <1>2 DEF Reaches, Inners, Leaves
<1>4. /\ Good(feeds', mode, NULL) /\ feeds'.active = feeds.active
      /\ feeds'.selfNext = feeds.selfNext
      /\ d \in Classes /\ Reaches(feeds', d, p)
  BY <1>1, <1>2, <1>3, InnerNextGood DEF IInv
<1> HIDE DEF d
<1>5. find' \in SearchType /\ find'.cl = d /\ find'.prio = p /\ find'.level = find.level
  BY <1>1, <1>2, <1>4 DEF SearchType
<1>6. (BucketTypes /\ WaitTypes /\ QueueTypes /\ FlowTypes /\ LocalTypes)'
  BY <1>1, <1>5 DEF IInv, BucketTypes, WaitTypes, QueueTypes, FlowTypes, LocalTypes
<1>7. Cursor'
  BY <1>2, <1>4, <1>5 DEF Cursor
<1>8. (WaitTreeConsistent /\ Charging)'
  BY <1>1, <1>4 DEF IInv, WaitTreeConsistent, Charging
<1> QED BY <1>1, <1>4, <1>6, <1>7, <1>8 DEF IInv

LEMMA TryLeafKeeps == IInv /\ TryLeaf => IInv'
<1> SUFFICES ASSUME IInv, TryLeaf PROVE IInv'
  OBVIOUS
<1> DEFINE c     == find.cl
           l     == find.level
           p     == find.prio
           e     == LeafDeactivated(feeds, mode, c, p)
           again == Current(e.self[l][p], e.selfNext[l][p])
<1>1. /\ UNCHANGED <<mode, tokens, ctokens, age, nextEvent, timer, deficit>>
      /\ UNCHANGED <<charge, qlen, linkBusy, error>>
      /\ pc = "descend" /\ Level[c] = 0
      /\ \/ pc' = "search" /\ UNCHANGED <<feeds, waiting, next, find>>
         \/ /\ next' = [leaf |-> c, level |-> l, prio |-> p]
            /\ pc' = "schedule"
            /\ UNCHANGED <<feeds, waiting, find>>
         \/ /\ qlen[c] = 0
            /\ feeds' = [e EXCEPT !.selfNext[l][p] = again]
            /\ waiting' = StillWaiting(c, p)
            /\ \E s \in {c, find.start} :
                 find' = [find EXCEPT !.cl = again, !.del = c, !.start = s]
            /\ UNCHANGED <<pc, next>>
  BY DEF TryLeaf, buckets
<1>2. /\ find \in SearchType /\ c \in Leaves /\ l \in Levels /\ p \in Prios
      /\ feeds.selfNext[l][p] # NULL
      /\ Good(feeds, mode, NULL)
  BY <1>1 DEF IInv, Cursor, SearchType, Leaves
<1>3. CASE pc' = "search" /\ UNCHANGED <<feeds, waiting, next, find>>
  <2>1. (BucketTypes /\ WaitTypes /\ QueueTypes /\ FlowTypes /\ LocalTypes)'
    BY <1>1, <1>3 DEF IInv, BucketTypes, WaitTypes, QueueTypes, FlowTypes, LocalTypes
  <2> QED BY <1>1, <1>3, <2>1 DEF IInv, WaitTreeConsistent, Cursor, Charging
<1>4. CASE /\ next' = [leaf |-> c, level |-> l, prio |-> p]
           /\ pc' = "schedule"
           /\ UNCHANGED <<feeds, waiting, find>>
  <2>1. next' \in NextType
    BY <1>2, <1>4 DEF NextType
  <2>2. (BucketTypes /\ WaitTypes /\ QueueTypes /\ FlowTypes /\ LocalTypes)'
    BY <1>1, <1>4, <2>1 DEF IInv, BucketTypes, WaitTypes, QueueTypes, FlowTypes, LocalTypes
  <2> QED BY <1>1, <1>4, <2>2 DEF IInv, WaitTreeConsistent, Cursor, Charging
<1>5. CASE /\ qlen[c] = 0
           /\ feeds' = [e EXCEPT !.selfNext[l][p] = again]
           /\ waiting' = StillWaiting(c, p)
           /\ \E s \in {c, find.start} :
                find' = [find EXCEPT !.cl = again, !.del = c, !.start = s]
           /\ UNCHANGED <<pc, next>>
  <2>1. /\ Good(e, mode, NULL) /\ e.selfNext = feeds.selfNext
        /\ waiting' \subseteq Classes
        /\ \A d \in Inners : d \in waiting' <=> mode[d] # Green
        /\ \A d \in Leaves : d \in waiting' <=> mode[d] # Green /\ e.active[d] # {}
        /\ \A d \in Leaves : qlen[d] > 0 => e.active[d] # {}
    BY <1>2, <1>5, LeafLeaves
  <2> HIDE DEF e
  <2>2. /\ Good(feeds', mode, NULL) /\ feeds'.active = e.active
        /\ again \in Classes /\ feeds'.selfNext[l][p] = again /\ Reaches(feeds', again, p)
    BY <1>2, <1>5, <2>1, SelfNextGood
  <2> HIDE DEF again
  <2>3. find' \in SearchType /\ find'.cl = again /\ find'.level = l /\ find'.prio = p
    BY <1>2, <1>5, <2>2 DEF SearchType
  <2> HIDE DEF l, p, c
  <2>4. (BucketTypes /\ WaitTypes /\ QueueTypes /\ FlowTypes /\ LocalTypes)'
    BY <1>1, <1>5, <2>1, <2>3
       DEF IInv, BucketTypes, WaitTypes, QueueTypes, FlowTypes, LocalTypes
  <2>5. Cursor'
    BY <2>2, <2>3, NullIsNoClass DEF Cursor
  <2>6. WaitTreeConsistent'
    BY <1>1, <2>1, <2>2 DEF WaitTreeConsistent
  <2>7. Charging'
    BY <1>1, <1>5 DEF Charging
  <2> QED BY <1>1, <2>2, <2>4, <2>5, <2>6, <2>7 DEF IInv
<1> QED BY <1>1, <1>3, <1>4, <1>5

LEMMA ScheduleKeeps == IInv /\ Schedule => IInv'
<1> SUFFICES ASSUME IInv, Schedule PROVE IInv'
  OBVIOUS
<1>1. /\ UNCHANGED <<mode, tokens, ctokens, age, feeds, waiting, nextEvent, deficit>>
      /\ UNCHANGED <<next, charge, qlen, linkBusy, error>>
      /\ find' = NoFind /\ pc' = "idle" /\ timer' = NextTimer
  BY DEF Schedule, buckets
<1>2. timer' \in Nat \cup {Off}
  <2>1. CASE waiting = {}
    BY <1>1, <2>1 DEF NextTimer
  <2>2. CASE waiting # {}
    <3> DEFINE S == {nextEvent[c] : c \in waiting}
    <3>1. S \in SUBSET Nat /\ S # {}
      BY <2>2 DEF IInv, WaitTypes
    <3>2. Least(S) \in Nat
      BY <3>1, LeastElement
    <3> HIDE DEF S
    <3>3. Greater(Least(S), 1) \in Nat
      BY <3>2 DEF Greater
    <3> QED BY <1>1, <2>2, <3>3 DEF NextTimer, S
  <2> QED BY <2>1, <2>2
<1>3. (BucketTypes /\ WaitTypes /\ QueueTypes /\ FlowTypes /\ LocalTypes)'
  BY <1>1, <1>2 DEF IInv, BucketTypes, WaitTypes, QueueTypes, FlowTypes, LocalTypes
<1> QED BY <1>1, <1>3 DEF IInv, WaitTreeConsistent, Cursor, Charging

LEMMA InitHolds == Init => IInv
<1> SUFFICES ASSUME Init PROVE IInv
  OBVIOUS
<1>1. BucketTypes
  <2>1. \A c \in Classes : Lesser(InitialAge, MBuffer[c]) \in Nat
    BY NumberAssumption DEF Lesser
  <2> QED BY <2>1, NumberAssumption DEF Init, BucketTypes, Modes
<1>2. WaitTypes /\ QueueTypes
  BY NumberAssumption DEF Init, WaitTypes, QueueTypes
<1>6. FlowTypes /\ LocalTypes
  BY DEF Init, FlowTypes, LocalTypes
<1>3. Good(feeds, mode, NULL)
  <2>1. feeds \in FeedsType
    BY DEF Init, FeedsType, Pointers
  <2>2. /\ \A c \in Classes : feeds.active[c] = {}
        /\ \A c \in Classes, p \in Prios : feeds.inner[c][p] = {} /\ feeds.innerNext[c][p] = NULL
        /\ \A l \in Levels, p \in Prios : feeds.self[l][p] = {} /\ feeds.selfNext[l][p] = NULL
    BY DEF Init
  <2> QED BY <2>1, <2>2, LeafClass DEF Good, Held, SelfFeeds, InnerFeeds, InnerActive,
         LeafActive, PointersGood, SelfPointers, InnerPointers, Inners
<1>4. WaitTreeConsistent
  BY LeafClass DEF Init, WaitTreeConsistent, Inners
<1>5. Cursor /\ Charging
  BY DEF Init, Cursor, Charging
<1> QED BY <1>1, <1>2, <1>3, <1>4, <1>5, <1>6 DEF IInv

(***************************************************************************)
(* The theorems.                                                           *)
(***************************************************************************)

LEMMA NextKeeps == IInv /\ [Next]_vars => IInv'
<1> SUFFICES ASSUME IInv, [Next]_vars PROVE IInv'
  OBVIOUS
<1>1. CASE Next
  <2>1. CASE Tick
    BY <2>1, TickKeeps
  <2>2. CASE Timer \/ RemoveAll \/ \E c \in Leaves : Remove(c)
    BY <2>2, RemoveKeeps
  <2>3. ASSUME NEW c \in Leaves, Push(c) PROVE IInv'
    BY <2>3, PushKeeps
  <2>4. ASSUME NEW s \in Sizes, Pull(s) PROVE IInv'
    BY <2>4, PullKeeps
  <2>5. CASE Handler
    <3>1. ASSUME NEW c \in Classes, DoEvent(c) PROVE IInv'
      BY <3>1, DoEventKeeps
    <3> QED BY <2>5, <3>1, ChargeClassKeeps, EndChargeKeeps, EndEventsKeeps, SearchKeeps,
           DescendKeeps, TryLeafKeeps, ScheduleKeeps DEF Handler
  <2> QED BY <1>1, <2>1, <2>2, <2>3, <2>4, <2>5 DEF Next
<1>2. CASE UNCHANGED vars
  <2>1. /\ UNCHANGED <<pc, mode, tokens, ctokens, age, feeds, waiting, nextEvent, timer>>
        /\ UNCHANGED <<deficit, next, find, charge, qlen, linkBusy, error>>
    BY <1>2 DEF vars
  <2>2. (BucketTypes /\ WaitTypes /\ QueueTypes /\ FlowTypes /\ LocalTypes)'
    BY <2>1 DEF IInv, BucketTypes, WaitTypes, QueueTypes, FlowTypes, LocalTypes
  <2> QED BY <2>1, <2>2 DEF IInv, WaitTreeConsistent, Cursor, Charging
<1> QED BY <1>1, <1>2

\* The invariant holds in every state: the feeds, the modes, the wait tree and
\* the place of the running handler fit together.
THEOREM Invariant == Spec => []IInv
<1>1. Init => IInv
  BY InitHolds
<1>2. IInv /\ [Next]_vars => IInv'
  BY NextKeeps
<1> QED BY <1>1, <1>2, PTL DEF Spec

\* No handler leaves its variables' types; the pointers that getLeaf, the
\* charge and the search follow are never null where they are dereferenced.
THEOREM TypeCorrect == Spec => []TypeOK
<1>1. IInv => TypeOK
  BY InvariantTypes
<1> QED BY <1>1, Invariant, PTL

\* The climbs of activateClassPrios and deactivateClassPrios keep the self
\* feeds, the inner feeds, the active priorities and the modes consistent.
THEOREM FeedsAlwaysConsistent == Spec => []FeedsConsistent
<1>1. IInv => FeedsConsistent
  BY FeedsConsistentHeld DEF IInv, BucketTypes, Good
<1> QED BY <1>1, Invariant, PTL

\* A next pointer that getLeaf needs is set, and points to a class of the
\* level, or to a child of the class, whose feed it belongs to.
THEOREM PointersAlwaysValid == Spec => []PointersValid
<1>1. IInv => PointersValid
  BY DEF IInv, Good, PointersGood, SelfPointers, InnerPointers, PointersValid
<1> QED BY <1>1, Invariant, PTL

\* The wait trees hold the classes that wait for a mode change, no less and no
\* more, and no packet waits in the queue of an inactive leaf.
THEOREM WaitTreeAlwaysConsistent == Spec => []WaitTreeConsistent
<1>1. IInv => WaitTreeConsistent
  BY DEF IInv
<1> QED BY <1>1, Invariant, PTL

\* A quantum that covers every packet with the header of the physical layer.
QuantumCovers == \A c \in Leaves, s \in Sizes : Quantum[c] >= s + PhyHeader

NoDebt == error # "negative deficit" /\ \A c \in Leaves, l \in Levels : deficit[c][l] >= 0

\* The check of htbChargeLeaf never fails when every quantum covers a packet
\* and the header that htbChargeLeaf adds to it; the constructor of the
\* classes asks for less, that it covers a packet.
THEOREM QuantumSuffices == ASSUME QuantumCovers PROVE Spec => []DeficitNotNegative
<1>1. Init => NoDebt
  BY DEF Init, NoDebt
<1>2. ASSUME NEW s \in Sizes, IInv, NoDebt, Pull(s) PROVE NoDebt'
  <2> DEFINE c == next.leaf
             l == next.level
             left == deficit[c][l] - (s + PhyHeader)
  <2>1. c \in Leaves /\ l \in Levels
    BY <1>2, NoneIsNull DEF Pull, CanPull, IInv, LocalTypes, NextType
  <2>2. /\ deficit \in [Leaves -> [Levels -> Int]] /\ s \in Nat /\ PhyHeader \in Nat
        /\ Quantum[c] \in Nat /\ Quantum[c] >= s + PhyHeader
    BY <1>2, <2>1, NumberAssumption, QuantumCovers DEF IInv, QueueTypes, QuantumCovers
  <2>3. deficit[c][l] \in Int /\ deficit[c][l] >= 0
    BY <1>2, <2>1, <2>2 DEF NoDebt
  <2>4. /\ deficit' = [deficit EXCEPT ![c][l] = Refilled(c, left)]
        /\ error' \in {error, "not next to dequeue"}
    <3>1. ~(deficit[c][l] < 0)
      BY <2>3
    <3> QED BY <1>2, <3>1 DEF Pull, Throw
  <2> HIDE DEF c, l
  <2>5. left \in Int /\ (left < 0 => left + Quantum[c] >= 0)
    BY <2>2, <2>3
  <2> HIDE DEF left
  <2>6. Refilled(c, left) \in Int /\ Refilled(c, left) >= 0
    BY <2>2, <2>5 DEF Refilled
  <2>7. \A d \in Leaves, k \in Levels :
          deficit'[d][k] = IF d = c /\ k = l THEN Refilled(c, left) ELSE deficit[d][k]
    BY <2>1, <2>2, <2>4
  <2>8. \A d \in Leaves, k \in Levels : deficit'[d][k] >= 0
    BY <1>2, <2>6, <2>7 DEF NoDebt
  <2> QED BY <1>2, <2>4, <2>8 DEF NoDebt
<1>3. ASSUME IInv, NoDebt, [Next]_vars PROVE NoDebt'
  <2>1. CASE \E s \in Sizes : Pull(s)
    BY <1>2, <1>3, <2>1
  <2>2. CASE ~ \E s \in Sizes : Pull(s)
    <3>1. deficit' = deficit /\ error' \in {error, "already updated exactly now", "already waiting"}
      BY <1>3, <2>2 DEF Next, vars, Tick, Timer, Push, Remove, RemoveAll, Handler, ChargeClass,
         EndCharge, DoEvent, EndEvents, Search, Descend, TryLeaf, Schedule, Throw
    <3> QED BY <1>3, <3>1 DEF NoDebt
  <2> QED BY <2>1, <2>2
<1>4. NoDebt => DeficitNotNegative
  BY DEF NoDebt, DeficitNotNegative
<1> QED BY <1>1, <1>3, <1>4, Invariant, PTL DEF Spec

\* No class was to be added to the wait tree that was in it.
WaitsOnce == error # "already waiting"

\* htbAddToWaitTree never finds the class in the wait tree: neither the push
\* that activates a leaf nor the change of a mode adds a class that waits.
THEOREM NeverWaitsTwice == Spec => []WaitsOnce
<1>1. Init => WaitsOnce
  BY DEF Init, WaitsOnce
<1>2. ASSUME NEW c \in Leaves, IInv, error # "already waiting", Push(c)
      PROVE  error' # "already waiting"
  <2>1. LeafPrio[c] \notin feeds.active[c] => feeds.active[c] = {}
    BY <1>2 DEF IInv, Good, Held, LeafActive
  <2>2. LeafPrio[c] \notin feeds.active[c] => c \notin waiting
    BY <1>2, <2>1 DEF IInv, WaitTreeConsistent
  <2> QED BY <1>2, <2>2 DEF Push
<1>3. ASSUME IInv, error # "already waiting", ChargeClass
      PROVE  error' # "already waiting"
  <2> DEFINE c == charge.cl
             left == IF mode[c] # Green THEN waiting \ {c} ELSE waiting
  <2>1. c \in Classes /\ (c \in Leaves => feeds.active[c] # {})
    BY <1>3 DEF IInv, ChargeClass, Charging, Pointers
  <2>2. c \in waiting => mode[c] # Green
    BY <1>3, <2>1 DEF IInv, WaitTreeConsistent, Inners
  <2>3. c \notin left
    BY <2>2
  <2> QED BY <1>3, <2>3 DEF ChargeClass, Throw
<1>4. ASSUME IInv, WaitsOnce, [Next]_vars
      PROVE  WaitsOnce'
  <2>1. CASE \E c \in Leaves : Push(c)
    BY <1>2, <1>4, <2>1 DEF WaitsOnce
  <2>2. CASE ChargeClass
    BY <1>3, <1>4, <2>2 DEF WaitsOnce
  <2>3. CASE ~ChargeClass /\ ~ \E c \in Leaves : Push(c)
    <3>1. error' \in {error, "negative deficit", "not next to dequeue"}
      BY <1>4, <2>3 DEF Next, vars, Tick, Timer, Remove, RemoveAll, Pull, Handler,
         EndCharge, DoEvent, EndEvents, Search, Descend, TryLeaf, Schedule, Throw
    <3> QED BY <1>4, <3>1 DEF WaitsOnce
  <2> QED BY <2>1, <2>2, <2>3
<1> QED BY <1>1, <1>4, Invariant, PTL DEF Spec

-----------------------------------------------------------------------------
(***************************************************************************)
(* The first invariant: expected mode changes.                             *)
(***************************************************************************)

\* The mode a class keeps while nothing but time changes its buckets.
Solid ==
  \A c \in Classes :
    /\ tokens[c] > -MBuffer[c] /\ ctokens[c] > -MBuffer[c]
    /\ mode[c] # Red => ctokens[c] + age[c] >= Lowater(c, mode[c])
    /\ mode[c] = Green => tokens[c] + age[c] >= Hiwater(c, Green) /\ nextEvent[c] = 0

\* What a class that is not green owes before its mode can change.
Owes(c) == IF mode[c] = Red THEN -(ctokens[c] + age[c]) ELSE -(tokens[c] + age[c])

\* No change is expected too late.  activateClass expects one at once, until
\* doEvents has looked at the class.
InTime ==
  pc # "error" =>
    \A c \in waiting : (pc = "events" /\ nextEvent[c] = 0) \/ nextEvent[c] <= Owes(c)

\* What was due is done before the search.
Awaited == pc \in {"search", "descend", "schedule"} => \A c \in waiting : nextEvent[c] > 0

Timing == Solid /\ InTime /\ Awaited /\ TimerArmed

\* What the water marks are.
LEMMA WaterMarks ==
  ASSUME NEW c \in Classes, NEW old \in Modes
  PROVE  /\ Lowater(c, old) \in Int /\ Lowater(c, old) <= 0
         /\ Hiwater(c, old) \in Int /\ Hiwater(c, old) <= 0
         /\ old # Green => Hiwater(c, old) = 0
         /\ Lowater(c, Red) = 0
         /\ old # Red => Lowater(c, old) = IF Hysteresis THEN -CBurst[c] ELSE 0
BY NumberAssumption DEF Lowater, Hiwater, Modes, Green, Yellow, Red

\* What the result of classMode says of the buckets.
LEMMA ModeMeans ==
  ASSUME NEW c \in Classes, NEW old \in Modes, NEW tok \in Int, NEW ctok \in Int,
         NEW diff \in Nat, NEW new, new = ClassMode(c, old, tok, ctok, diff)
  PROVE  /\ new \in Modes
         /\ new # Red => ctok + diff >= Lowater(c, new)
         /\ new = Green => tok + diff >= Hiwater(c, Green)
         /\ new = Green /\ old # Green => tok + diff >= 0
         /\ new # Red /\ old = Red => ctok + diff >= 0
         /\ new # Green => /\ Debt(new, tok, ctok, diff) > 0
                           /\ Debt(new, tok, ctok, diff)
                                = IF new = Red THEN -(ctok + diff) ELSE -(tok + diff)
<1>1. /\ Lowater(c, old) \in Int /\ Lowater(c, old) <= 0
      /\ Hiwater(c, old) \in Int /\ Hiwater(c, old) <= 0
      /\ old # Green => Hiwater(c, old) = 0
      /\ old = Red => Lowater(c, old) = 0
  BY WaterMarks
<1>2. \/ new = Red /\ ctok + diff < Lowater(c, old)
      \/ new = Green /\ ctok + diff >= Lowater(c, old) /\ tok + diff >= Hiwater(c, old)
      \/ new = Yellow /\ ctok + diff >= Lowater(c, old) /\ tok + diff < Hiwater(c, old)
  BY <1>1 DEF ClassMode
<1>3. Green # Red /\ Yellow # Red /\ Yellow # Green /\ {Green, Yellow, Red} = Modes
  BY DEF Modes, Green, Yellow, Red
<1>4. ASSUME new # Red PROVE Lowater(c, new) <= Lowater(c, old) /\ Lowater(c, new) \in Int
  <2>1. Lowater(c, new) = (IF Hysteresis THEN -CBurst[c] ELSE 0) /\ new \in Modes
    BY <1>2, <1>3, <1>4, WaterMarks
  <2>2. old # Red => Lowater(c, old) = Lowater(c, new)
    BY <2>1, WaterMarks
  <2>3. Lowater(c, new) \in Int /\ Lowater(c, new) <= 0
    BY <2>1, WaterMarks
  <2> QED BY <1>1, <2>2, <2>3
<1>5. Hiwater(c, Green) \in Int /\ Hiwater(c, Green) <= 0
  BY <1>3, WaterMarks
<1>6. new = Green => tok + diff >= Hiwater(c, Green)
  BY <1>1, <1>2, <1>3, <1>5
<1>7. new # Green => /\ Debt(new, tok, ctok, diff) > 0
                     /\ Debt(new, tok, ctok, diff)
                          = IF new = Red THEN -(ctok + diff) ELSE -(tok + diff)
  BY <1>1, <1>2, <1>3 DEF Debt
<1> QED BY <1>1, <1>2, <1>3, <1>4, <1>6, <1>7

\* What accountTokens leaves in a bucket.
LEMMA AccountBounds ==
  ASSUME NEW tok \in Int, NEW diff \in Nat, NEW burst \in Nat, NEW cost \in Nat,
         NEW mbuffer \in Nat \ {0}, tok > -mbuffer
  PROVE  /\ Account(tok, diff, burst, cost, mbuffer) \in Int
         /\ Account(tok, diff, burst, cost, mbuffer) > -mbuffer
         /\ Account(tok, diff, burst, cost, mbuffer) <= tok + diff
         /\ Account(tok, diff, burst, cost, mbuffer) <= burst
         /\ Account(tok, diff, burst, cost, mbuffer) >= Lesser(tok + diff, burst) - cost
BY DEF Account, Lesser

\* A step that changes nothing of the buckets and may only shorten the wait.
LEMMA QuietTimes ==
  ASSUME Timing, UNCHANGED <<mode, tokens, ctokens, age, nextEvent>>, waiting' \subseteq waiting,
         pc # "error", pc = "events" => pc' = "events",
         Awaited', TimerArmed'
  PROVE  Timing'
<1>1. Solid'
  BY DEF Timing, Solid
<1>2. InTime'
  BY DEF Timing, InTime, Owes
<1> QED BY <1>1, <1>2 DEF Timing
\* Time shortens what a class owes by one unit, and the wait with it.
LEMMA TickTimes == IInv /\ Timing /\ Tick => Timing'
<1> SUFFICES ASSUME IInv, Timing, Tick PROVE Timing'
  OBVIOUS
<1>1. /\ UNCHANGED <<pc, mode, tokens, ctokens, waiting>> /\ pc = "idle" /\ timer # 0
      /\ age' = [c \in Classes |-> Lesser(age[c] + 1, MBuffer[c])]
      /\ nextEvent' = [c \in Classes |-> Greater(nextEvent[c] - 1, 0)]
      /\ timer' = IF timer = Off THEN Off ELSE timer - 1
  BY DEF Tick
<1>2. BucketTypes /\ WaitTypes
  BY DEF IInv
<1>3. \A c \in waiting : c \in Classes /\ nextEvent[c] \in Nat /\ nextEvent[c] > 0
  <2> SUFFICES ASSUME NEW c \in waiting PROVE c \in Classes /\ nextEvent[c] \in Nat /\ nextEvent[c] > 0
    OBVIOUS
  <2> DEFINE S == {nextEvent[d] : d \in waiting}
  <2>1. c \in Classes /\ nextEvent[c] \in S /\ S \in SUBSET Nat
    BY <1>2 DEF WaitTypes
  <2>2. timer = Least(S)
    BY <1>1 DEF Timing, TimerArmed
  <2> HIDE DEF S
  <2>3. Least(S) <= nextEvent[c] /\ Least(S) \in Nat
    BY <2>1, LeastElement
  <2>4. Least(S) # 0 /\ nextEvent[c] \in Nat
    BY <1>1, <2>1, <2>2
  <2> QED BY <2>1, <2>3, <2>4
<1>4. \A c \in Classes :
        /\ tokens[c] \in Int /\ ctokens[c] \in Int /\ mode[c] \in Modes
        /\ age[c] \in Nat /\ age'[c] \in Nat
        /\ age'[c] = age[c] \/ age'[c] = age[c] + 1 \/ age'[c] = MBuffer[c]
        /\ age'[c] <= age[c] + 1
        /\ MBuffer[c] \in Nat
  BY <1>1, <1>2, NumberAssumption DEF BucketTypes, Lesser
<1>5. \A c \in Classes : nextEvent[c] \in Nat /\ nextEvent'[c] = Greater(nextEvent[c] - 1, 0)
  BY <1>1, <1>2 DEF WaitTypes
<1>6. Solid'
  <2> SUFFICES ASSUME NEW c \in Classes
               PROVE  /\ tokens[c] > -MBuffer[c] /\ ctokens[c] > -MBuffer[c]
                      /\ mode[c] # Red => ctokens[c] + age'[c] >= Lowater(c, mode[c])
                      /\ mode[c] = Green => /\ tokens[c] + age'[c] >= Hiwater(c, Green)
                                            /\ nextEvent'[c] = 0
    BY <1>1 DEF Solid
  <2>1. /\ tokens[c] > -MBuffer[c] /\ ctokens[c] > -MBuffer[c]
        /\ mode[c] # Red => ctokens[c] + age[c] >= Lowater(c, mode[c])
        /\ mode[c] = Green => tokens[c] + age[c] >= Hiwater(c, Green) /\ nextEvent[c] = 0
    BY DEF Timing, Solid
  <2>2. /\ Lowater(c, mode[c]) \in Int /\ Lowater(c, mode[c]) <= 0
        /\ Hiwater(c, Green) \in Int /\ Hiwater(c, Green) <= 0
    BY <1>4, WaterMarks DEF Modes
  <2>3. mode[c] = Green => nextEvent'[c] = 0
    BY <1>5, <2>1 DEF Greater
  <2>4. age'[c] >= age[c] \/ age'[c] = MBuffer[c]
    BY <1>4
  <2>5. mode[c] # Red => ctokens[c] + age'[c] >= Lowater(c, mode[c])
    BY <1>4, <2>1, <2>2, <2>4
  <2>6. mode[c] = Green => tokens[c] + age'[c] >= Hiwater(c, Green)
    BY <1>4, <2>1, <2>2, <2>4
  <2> QED BY <2>1, <2>3, <2>5, <2>6
<1>7. \A c \in waiting : nextEvent'[c] = nextEvent[c] - 1
  BY <1>3, <1>5 DEF Greater
<1>8. InTime'
  <2> SUFFICES ASSUME NEW c \in waiting
               PROVE  nextEvent'[c] <= IF mode[c] = Red THEN -(ctokens[c] + age'[c])
                                                        ELSE -(tokens[c] + age'[c])
    BY <1>1 DEF InTime, Owes
  <2>1. nextEvent[c] <= IF mode[c] = Red THEN -(ctokens[c] + age[c]) ELSE -(tokens[c] + age[c])
    BY <1>1 DEF Timing, InTime, Owes
  <2> QED BY <1>3, <1>4, <1>7, <2>1
<1>9. TimerArmed'
  <2>1. CASE waiting = {}
    BY <1>1, <2>1 DEF Timing, TimerArmed
  <2>2. CASE waiting # {}
    <3> DEFINE S == {nextEvent[c] : c \in waiting}
               T == {nextEvent'[c] : c \in waiting}
    <3>1. S \in SUBSET Nat /\ S # {}
      BY <1>3, <2>2
    <3>2. T \in SUBSET Nat /\ T # {}
      BY <1>3, <1>7, <2>2
    <3>3. timer = Least(S)
      BY <1>1, <2>2 DEF Timing, TimerArmed
    <3>4. \A y \in T : y + 1 \in S
      BY <1>3, <1>7
    <3>5. \A x \in S : x - 1 \in T
      BY <1>3, <1>7
    <3>6. timer' = IF waiting' = {} THEN Off ELSE timer - 1
      <4>1. Least(S) \in Nat
        <5> HIDE DEF S
        <5> QED BY <3>1, LeastElement
      <4> QED BY <1>1, <2>2, <3>3, <4>1 DEF Off
    <3> HIDE DEF S, T
    <3>7. /\ Least(S) \in S /\ \A y \in S : Least(S) <= y
          /\ Least(T) \in T /\ \A y \in T : Least(T) <= y
      BY <3>1, <3>2, LeastElement
    <3>8. Least(S) \in Nat /\ Least(T) \in Nat
      BY <3>1, <3>2, <3>7
    <3>9. Least(T) = Least(S) - 1
      <4>1. Least(S) <= Least(T) + 1
        BY <3>4, <3>7
      <4>2. Least(T) <= Least(S) - 1
        BY <3>5, <3>7
      <4> QED BY <3>8, <4>1, <4>2
    <3>10. timer' = Least(T)
      BY <1>1, <2>2, <3>3, <3>6, <3>9
    <3> QED BY <1>1, <2>2, <3>10 DEF TimerArmed, T
  <2> QED BY <2>1, <2>2
<1>10. Awaited'
  BY <1>1 DEF Awaited
<1> QED BY <1>6, <1>8, <1>9, <1>10 DEF Timing

\* A leaf that joins the feeds is looked at at once.
LEMMA PushTimes ==
  ASSUME NEW c \in Leaves PROVE IInv /\ Timing /\ Push(c) => Timing'
<1> SUFFICES ASSUME IInv, Timing, Push(c) PROVE Timing'
  OBVIOUS
<1>1. /\ UNCHANGED <<mode, tokens, ctokens, age>>
      /\ pc = "idle" /\ pc' \in {"events", "error"}
      /\ \/ UNCHANGED <<nextEvent, waiting>>
         \/ /\ mode[c] # Green
            /\ nextEvent' = [nextEvent EXCEPT ![c] = 0]
            /\ waiting' = waiting \cup {c}
  BY DEF Push, buckets, Throw
<1>2. nextEvent \in [Classes -> Nat] /\ waiting \subseteq Classes /\ c \in Classes
  BY LeafClass DEF IInv, WaitTypes
<1>3. \A d \in Classes : nextEvent'[d] = nextEvent[d] \/ (d = c /\ mode[c] # Green /\ nextEvent'[d] = 0)
  BY <1>1, <1>2
<1>4. \A d \in waiting' : d \in waiting \/ (d = c /\ nextEvent'[d] = 0)
  BY <1>1, <1>2
<1>5. Solid'
  BY <1>1, <1>3 DEF Timing, Solid
<1>6. InTime'
  <2> SUFFICES ASSUME pc' = "events", NEW d \in waiting'
               PROVE  nextEvent'[d] = 0 \/ nextEvent'[d] <= Owes(d)'
    BY <1>1 DEF InTime
  <2>1. CASE nextEvent'[d] # 0
    <3>1. d \in waiting /\ d \in Classes /\ nextEvent'[d] = nextEvent[d]
      BY <1>2, <1>3, <1>4, <2>1
    <3>2. nextEvent[d] <= Owes(d) /\ Owes(d)' = Owes(d)
      BY <1>1, <3>1 DEF Timing, InTime, Owes
    <3> QED BY <3>1, <3>2
  <2> QED BY <2>1
<1> QED BY <1>1, <1>5, <1>6 DEF Timing, Awaited, TimerArmed

\* A class that is charged owes more than before, and its wait is only
\* extended when its mode has changed.
LEMMA ChargeTimes == IInv /\ Timing /\ ChargeClass => Timing'
<1> SUFFICES ASSUME IInv, Timing, ChargeClass PROVE Timing'
  OBVIOUS
<1> DEFINE c     == charge.cl
           s     == charge.size
           spent == Account(tokens[c], age[c], Burst[c], Cost[c][s], MBuffer[c])
           tok   == IF Level[c] >= next.level THEN spent ELSE tokens[c] + age[c]
           ctok  == Account(ctokens[c], age[c], CBurst[c], CCost[c][s], MBuffer[c])
           new   == ClassMode(c, mode[c], tok, ctok, 0)
           left  == IF mode[c] # Green THEN waiting \ {c} ELSE waiting
<1>1. /\ BucketTypes /\ WaitTypes /\ WaitTreeConsistent /\ pc = "charge" /\ c # NULL
      /\ c \in Classes /\ s \in Sizes
      /\ c \in Leaves => feeds.active[c] # {}
      /\ pc' \in {"charge", "error"}
  BY DEF IInv, Charging, ChargeClass, Pointers, Throw
<1>2. CASE age[c] = 0
  <2>1. UNCHANGED <<mode, tokens, ctokens, age, waiting, nextEvent>> /\ pc' = "error"
    BY <1>2 DEF ChargeClass, buckets, Throw
  <2> QED BY <2>1 DEF Timing, Solid, InTime, Awaited, TimerArmed
<1>3. CASE age[c] # 0
  <2>1. /\ tokens' = [tokens EXCEPT ![c] = tok]
        /\ ctokens' = [ctokens EXCEPT ![c] = ctok]
        /\ age' = [age EXCEPT ![c] = 0]
        /\ mode' = [mode EXCEPT ![c] = new]
        /\ new = mode[c] => waiting' = waiting /\ nextEvent' = nextEvent
        /\ new # mode[c] /\ new = Green => waiting' = left /\ nextEvent' = nextEvent
        /\ new # mode[c] /\ new # Green =>
             /\ waiting' = left \cup {c}
             /\ nextEvent' = [nextEvent EXCEPT ![c] = Debt(new, tok, ctok, 0)]
    BY <1>3 DEF ChargeClass
  <2>2. /\ tokens[c] \in Int /\ ctokens[c] \in Int /\ age[c] \in Nat /\ mode[c] \in Modes
        /\ nextEvent[c] \in Nat
        /\ tokens[c] > -MBuffer[c] /\ ctokens[c] > -MBuffer[c]
        /\ mode[c] = Green => nextEvent[c] = 0
    BY <1>1 DEF BucketTypes, WaitTypes, Timing, Solid
  <2>3. /\ Burst[c] \in Nat /\ CBurst[c] \in Nat /\ MBuffer[c] \in Nat \ {0}
        /\ Cost[c][s] \in Nat /\ CCost[c][s] \in Nat /\ Level[c] \in Nat
    BY <1>1, NumberAssumption, TreeAssumption
  <2>4. mode[c] # Green => c \in waiting
    BY <1>1 DEF WaitTreeConsistent, Inners
  <2>5. mode[c] # Green =>
          nextEvent[c] <= IF mode[c] = Red THEN -(ctokens[c] + age[c]) ELSE -(tokens[c] + age[c])
    BY <1>1, <2>4 DEF Timing, InTime, Owes
  <2> HIDE DEF c, s, spent, ctok
  <2>6. spent \in Int /\ spent > -MBuffer[c] /\ spent <= tokens[c] + age[c]
    BY <2>2, <2>3, AccountBounds DEF spent
  <2>7. ctok \in Int /\ ctok > -MBuffer[c] /\ ctok <= ctokens[c] + age[c]
    BY <2>2, <2>3, AccountBounds DEF ctok
  <2>8. tok \in Int /\ tok > -MBuffer[c] /\ tok <= tokens[c] + age[c]
    BY <2>2, <2>3, <2>6
  <2> HIDE DEF tok
  <2>9. /\ new \in Modes
        /\ new # Red => ctok >= Lowater(c, new)
        /\ new = Green => tok >= Hiwater(c, Green)
        /\ new = Green /\ mode[c] # Green => tok >= 0
        /\ new # Red /\ mode[c] = Red => ctok >= 0
        /\ new # Green => /\ Debt(new, tok, ctok, 0) > 0
                          /\ Debt(new, tok, ctok, 0) = IF new = Red THEN -ctok ELSE -tok
    <3>1. tok + 0 = tok /\ ctok + 0 = ctok
      BY <2>7, <2>8
    <3> HIDE DEF new
    <3> QED BY <1>1, <2>2, <2>7, <2>8, <3>1, ModeMeans DEF new
  <2> HIDE DEF new, left
  <2>10. /\ mode'[c] = new /\ tokens'[c] = tok /\ ctokens'[c] = ctok /\ age'[c] = 0
         /\ \A d \in Classes \ {c} :
              /\ mode'[d] = mode[d] /\ tokens'[d] = tokens[d]
              /\ ctokens'[d] = ctokens[d] /\ age'[d] = age[d]
              /\ nextEvent'[d] = nextEvent[d]
    BY <1>1, <2>1 DEF BucketTypes, WaitTypes
  <2>11. nextEvent'[c] = IF new = mode[c] \/ new = Green THEN nextEvent[c] ELSE Debt(new, tok, ctok, 0)
    BY <1>1, <2>1 DEF WaitTypes
  <2>12. waiting' \ {c} \subseteq waiting /\ (c \in waiting' => new # Green)
    <3>1. Green \in Modes
      BY DEF Modes
    <3>2. mode[c] = Green => c \notin waiting
      BY <1>1 DEF WaitTreeConsistent, Inners
    <3> QED BY <2>1, <3>2 DEF left
  <2>13. Solid'
    <3>1. new = Green => nextEvent'[c] = 0
      <4>1. ASSUME new = Green, mode[c] # Green PROVE nextEvent[c] = 0
        <5>1. tok >= 0 /\ (mode[c] = Red => ctok >= 0)
          BY <2>9, <4>1 DEF Green, Red
        <5> QED BY <2>2, <2>5, <2>7, <2>8, <4>1, <5>1
      <4> QED BY <2>2, <2>11, <4>1
    <3>2. /\ new # Red => ctok + 0 >= Lowater(c, new)
          /\ new = Green => tok + 0 >= Hiwater(c, Green)
      BY <2>7, <2>8, <2>9
    <3>3. /\ tokens'[c] > -MBuffer[c] /\ ctokens'[c] > -MBuffer[c]
          /\ mode'[c] # Red => ctokens'[c] + age'[c] >= Lowater(c, mode'[c])
          /\ mode'[c] = Green => tokens'[c] + age'[c] >= Hiwater(c, Green) /\ nextEvent'[c] = 0
      BY <2>7, <2>8, <2>10, <3>1, <3>2
    <3>4. \A d \in Classes \ {c} :
            /\ tokens'[d] > -MBuffer[d] /\ ctokens'[d] > -MBuffer[d]
            /\ mode'[d] # Red => ctokens'[d] + age'[d] >= Lowater(d, mode'[d])
            /\ mode'[d] = Green => tokens'[d] + age'[d] >= Hiwater(d, Green) /\ nextEvent'[d] = 0
      BY <2>10 DEF Timing, Solid
    <3> QED BY <3>3, <3>4 DEF Solid
  <2>14. InTime'
    <3> SUFFICES ASSUME NEW d \in waiting', pc' = "charge"
                 PROVE  nextEvent'[d] <= IF mode'[d] = Red THEN -(ctokens'[d] + age'[d])
                                                           ELSE -(tokens'[d] + age'[d])
      BY <1>1 DEF InTime, Owes
    <3>1. CASE d = c
      <4>1. CASE new = mode[c]
        <5>1. new # Green
          BY <2>12, <3>1
        <5> QED BY <2>2, <2>5, <2>7, <2>8, <2>10, <2>11, <3>1, <4>1, <5>1
      <4>2. CASE new # mode[c]
        <5>1. new # Green /\ nextEvent'[c] = IF new = Red THEN -ctok ELSE -tok
          BY <2>9, <2>11, <2>12, <3>1, <4>2
        <5> QED BY <2>7, <2>8, <2>10, <3>1, <5>1
      <4> QED BY <4>1, <4>2
    <3>2. CASE d # c
      <4>1. d \in waiting /\ d \in Classes
        BY <1>1, <2>12, <3>2 DEF WaitTypes
      <4>2. nextEvent[d] <= Owes(d)
        BY <1>1, <4>1 DEF Timing, InTime
      <4> QED BY <2>10, <3>2, <4>1, <4>2 DEF Owes
    <3> QED BY <3>1, <3>2
  <2> QED BY <1>1, <2>13, <2>14 DEF Timing, Awaited, TimerArmed
<1> QED BY <1>2, <1>3
\* A class that is due takes its mode and knows what it owes.
LEMMA DoEventTimes ==
  ASSUME NEW c \in Classes PROVE IInv /\ Timing /\ DoEvent(c) => Timing'
<1> SUFFICES ASSUME IInv, Timing, DoEvent(c) PROVE Timing'
  OBVIOUS
<1> DEFINE new == ClassMode(c, mode[c], tokens[c], ctokens[c], age[c])
           debt == Debt(new, tokens[c], ctokens[c], age[c])
<1>1. /\ UNCHANGED <<pc, tokens, ctokens, age>>
      /\ pc = "events" /\ c \in waiting /\ nextEvent[c] = 0
      /\ mode' = [mode EXCEPT ![c] = new]
      /\ new = Green => waiting' = waiting \ {c} /\ nextEvent' = nextEvent
      /\ new # Green => waiting' = waiting /\ nextEvent' = [nextEvent EXCEPT ![c] = debt]
  BY DEF DoEvent, FirstDue, Due, buckets
<1>2. /\ BucketTypes /\ WaitTypes
      /\ tokens[c] \in Int /\ ctokens[c] \in Int /\ age[c] \in Nat /\ mode[c] \in Modes
  BY DEF IInv, BucketTypes
<1> HIDE DEF new
<1>3. /\ new \in Modes
      /\ new # Red => ctokens[c] + age[c] >= Lowater(c, new)
      /\ new = Green => tokens[c] + age[c] >= Hiwater(c, Green)
      /\ new # Green => debt = IF new = Red THEN -(ctokens[c] + age[c]) ELSE -(tokens[c] + age[c])
  BY <1>2, ModeMeans DEF new
<1> HIDE DEF debt
<1>4. /\ \A d \in Classes : mode'[d] = IF d = c THEN new ELSE mode[d]
      /\ \A d \in Classes : nextEvent'[d] = IF d = c /\ new # Green THEN debt ELSE nextEvent[d]
      /\ waiting' \subseteq waiting /\ (c \in waiting' => new # Green)
  BY <1>1, <1>2 DEF BucketTypes, WaitTypes
<1>5. Solid'
  <2> SUFFICES ASSUME NEW d \in Classes
               PROVE  /\ tokens[d] > -MBuffer[d] /\ ctokens[d] > -MBuffer[d]
                      /\ mode'[d] # Red => ctokens[d] + age[d] >= Lowater(d, mode'[d])
                      /\ mode'[d] = Green => /\ tokens[d] + age[d] >= Hiwater(d, Green)
                                             /\ nextEvent'[d] = 0
    BY <1>1 DEF Solid
  <2>1. /\ tokens[d] > -MBuffer[d] /\ ctokens[d] > -MBuffer[d]
        /\ mode[d] # Red => ctokens[d] + age[d] >= Lowater(d, mode[d])
        /\ mode[d] = Green => tokens[d] + age[d] >= Hiwater(d, Green) /\ nextEvent[d] = 0
    BY DEF Timing, Solid
  <2>2. CASE d = c
    BY <1>1, <1>3, <1>4, <2>1, <2>2
  <2>3. CASE d # c
    BY <1>4, <2>1, <2>3
  <2> QED BY <2>2, <2>3
<1>6. InTime'
  <2> SUFFICES ASSUME NEW d \in waiting'
               PROVE  nextEvent'[d] = 0 \/ nextEvent'[d] <= Owes(d)'
    BY <1>1 DEF InTime
  <2>1. d \in waiting /\ d \in Classes
    BY <1>2, <1>4 DEF WaitTypes
  <2>2. CASE d = c
    <3>1. nextEvent'[c] = Owes(c)' /\ nextEvent'[c] \in Int
      BY <1>1, <1>2, <1>3, <1>4, <2>2 DEF Owes
    <3> QED BY <2>2, <3>1
  <2>3. CASE d # c
    <3>1. nextEvent[d] = 0 \/ nextEvent[d] <= Owes(d)
      BY <1>1, <2>1 DEF Timing, InTime
    <3>2. nextEvent'[d] = nextEvent[d] /\ Owes(d)' = Owes(d)
      BY <1>1, <1>4, <2>1, <2>3 DEF Owes
    <3> QED BY <3>1, <3>2
  <2> QED BY <2>2, <2>3
<1> QED BY <1>1, <1>5, <1>6 DEF Timing, Awaited, TimerArmed

\* Nothing is due any more.
LEMMA EndEventsTimes == IInv /\ Timing /\ EndEvents => Timing'
<1> SUFFICES ASSUME IInv, Timing, EndEvents PROVE Timing'
  OBVIOUS
<1>1. /\ UNCHANGED <<mode, tokens, ctokens, age, waiting, nextEvent>>
      /\ pc = "events" /\ pc' = "search"
      /\ \A c \in waiting : nextEvent[c] # 0
  BY DEF EndEvents, Due, buckets
<1>2. \A c \in waiting : nextEvent[c] > 0
  BY <1>1 DEF IInv, WaitTypes
<1>3. Solid'
  BY <1>1 DEF Timing, Solid
<1>4. InTime'
  BY <1>1 DEF Timing, InTime, Owes
<1> QED BY <1>1, <1>2, <1>3, <1>4 DEF Timing, Awaited, TimerArmed

\* The search changes neither modes nor buckets.
LEMMA SearchTimes == IInv /\ Timing /\ (Search \/ Descend \/ TryLeaf) => Timing'
<1> SUFFICES ASSUME IInv, Timing, Search \/ Descend \/ TryLeaf PROVE Timing'
  OBVIOUS
<1>1. /\ UNCHANGED <<mode, tokens, ctokens, age, nextEvent>>
      /\ pc \in {"search", "descend"} /\ pc' \in {"search", "descend", "schedule"}
  BY DEF Search, EnterFeed, Descend, TryLeaf, buckets
<1>2. waiting' \subseteq waiting
  BY DEF Search, EnterFeed, Descend, TryLeaf, StillWaiting
<1>3. Awaited'
  BY <1>1, <1>2 DEF Timing, Awaited
<1> QED BY <1>1, <1>2, <1>3, QuietTimes DEF TimerArmed

\* The timer is set for the first change, which is not now.
LEMMA ScheduleTimes == IInv /\ Timing /\ Schedule => Timing'
<1> SUFFICES ASSUME IInv, Timing, Schedule PROVE Timing'
  OBVIOUS
<1>1. /\ UNCHANGED <<mode, tokens, ctokens, age, waiting, nextEvent>>
      /\ pc = "schedule" /\ pc' = "idle" /\ timer' = NextTimer
  BY DEF Schedule, buckets
<1>2. TimerArmed'
  <2>1. CASE waiting = {}
    BY <1>1, <2>1 DEF TimerArmed, NextTimer
  <2>2. CASE waiting # {}
    <3> DEFINE S == {nextEvent[c] : c \in waiting}
    <3>1. S \in SUBSET Nat /\ S # {} /\ \A x \in S : x > 0
      BY <1>1, <2>2 DEF IInv, WaitTypes, Timing, Awaited
    <3>2. timer' = Greater(Least(S), 1)
      BY <1>1, <2>2 DEF NextTimer
    <3> HIDE DEF S
    <3>3. Least(S) \in Nat /\ Least(S) > 0
      BY <3>1, LeastElement
    <3>4. timer' = Least(S)
      BY <3>2, <3>3 DEF Greater
    <3> QED BY <1>1, <2>2, <3>4 DEF TimerArmed, S
  <2> QED BY <2>1, <2>2
<1> QED BY <1>1, <1>2, QuietTimes DEF Awaited

\* The other steps touch neither modes nor buckets.
LEMMA OtherTimes ==
  IInv /\ Timing /\ (Timer \/ RemoveAll \/ EndCharge \/ (\E c \in Leaves : Remove(c))
                     \/ (\E s \in Sizes : Pull(s)) \/ UNCHANGED vars) => Timing'
<1> SUFFICES ASSUME IInv, Timing,
                    Timer \/ RemoveAll \/ EndCharge \/ (\E c \in Leaves : Remove(c))
                      \/ (\E s \in Sizes : Pull(s)) \/ UNCHANGED vars
             PROVE  Timing'
  OBVIOUS
<1>1. CASE Timer \/ EndCharge \/ \E s \in Sizes : Pull(s)
  <2>1. /\ UNCHANGED <<mode, tokens, ctokens, age, nextEvent>>
        /\ pc \in {"idle", "charge"} /\ pc' \in {"events", "charge", "error"}
    BY <1>1 DEF Timer, EndCharge, Pull, Throw, buckets
  <2>2. waiting' \subseteq waiting
    BY <1>1 DEF Timer, EndCharge, Pull, StillWaiting
  <2> QED BY <2>1, <2>2, QuietTimes DEF Awaited, TimerArmed
<1>2. CASE RemoveAll \/ (\E c \in Leaves : Remove(c)) \/ UNCHANGED vars
  <2>1. UNCHANGED <<mode, tokens, ctokens, age, nextEvent, waiting, pc, timer>>
    BY <1>2 DEF RemoveAll, Remove, vars, buckets
  <2> QED BY <2>1 DEF Timing, Solid, InTime, Owes, Awaited, TimerArmed
<1> QED BY <1>1, <1>2

LEMMA TimingInit == Init => Timing
<1> SUFFICES ASSUME Init PROVE Timing
  OBVIOUS
<1>1. Solid
  <2> SUFFICES ASSUME NEW c \in Classes
               PROVE  /\ Burst[c] > -MBuffer[c] /\ CBurst[c] > -MBuffer[c]
                      /\ CBurst[c] + age[c] >= Lowater(c, Green)
                      /\ Burst[c] + age[c] >= Hiwater(c, Green)
    BY DEF Init, Solid
  <2>1. Burst[c] \in Nat /\ CBurst[c] \in Nat /\ MBuffer[c] \in Nat \ {0} /\ age[c] \in Nat
    BY InitHolds, NumberAssumption DEF IInv, BucketTypes
  <2>2. /\ Lowater(c, Green) \in Int /\ Lowater(c, Green) <= 0
        /\ Hiwater(c, Green) \in Int /\ Hiwater(c, Green) <= 0
    BY WaterMarks DEF Modes
  <2> QED BY <2>1, <2>2
<1> QED BY <1>1 DEF Init, Timing, InTime, Awaited, TimerArmed

LEMMA TimingKept == IInv /\ Timing /\ [Next]_vars => Timing'
<1> SUFFICES ASSUME IInv, Timing, [Next]_vars PROVE Timing'
  OBVIOUS
<1>1. ASSUME NEW c \in Leaves, Push(c) PROVE Timing'
  BY <1>1, PushTimes
<1>2. ASSUME NEW c \in Classes, DoEvent(c) PROVE Timing'
  BY <1>2, DoEventTimes
<1> QED BY <1>1, <1>2, TickTimes, ChargeTimes, EndEventsTimes, SearchTimes, ScheduleTimes,
       OtherTimes DEF Next, Handler

\* The mode of a class that is green, or has yet to wait, is the one its buckets have.
LEMMA OwingMeans ==
  ASSUME IInv, Timing, NEW c \in Classes, mode[c] # Green => Owes(c) > 0
  PROVE  mode[c] = ModeNow[c]
<1>1. /\ tokens[c] \in Int /\ ctokens[c] \in Int /\ age[c] \in Nat /\ mode[c] \in Modes
      /\ ModeNow[c] = ClassMode(c, mode[c], tokens[c], ctokens[c], age[c])
  BY DEF IInv, BucketTypes, ModeNow
<1>2. /\ mode[c] # Red => ctokens[c] + age[c] >= Lowater(c, mode[c])
      /\ mode[c] = Green => tokens[c] + age[c] >= Hiwater(c, Green)
  BY DEF Timing, Solid
<1>3. /\ Lowater(c, mode[c]) \in Int /\ Hiwater(c, mode[c]) \in Int
      /\ mode[c] # Green => Hiwater(c, mode[c]) = 0
      /\ Lowater(c, Red) = 0
  BY <1>1, WaterMarks
<1>4. Green # Red /\ Yellow # Red /\ Yellow # Green /\ {Green, Yellow, Red} = Modes
  BY DEF Modes, Green, Yellow, Red
<1>5. CASE mode[c] = Green
  BY <1>1, <1>2, <1>3, <1>4, <1>5 DEF ClassMode
<1>6. CASE mode[c] = Yellow
  <2>1. tokens[c] + age[c] < 0
    BY <1>1, <1>4, <1>6 DEF Owes
  <2> QED BY <1>1, <1>2, <1>3, <1>4, <1>6, <2>1 DEF ClassMode
<1>7. CASE mode[c] = Red
  <2>1. ctokens[c] + age[c] < 0
    BY <1>1, <1>4, <1>7 DEF Owes
  <2> QED BY <1>1, <1>3, <1>4, <1>7, <2>1 DEF ClassMode
<1> QED BY <1>1, <1>4, <1>5, <1>6, <1>7

\* The modes are up to date: doEvents has just run, or nothing is due.
Fresh == pc = "schedule" \/ (pc = "idle" /\ timer # 0)

LEMMA FreshWaits ==
  ASSUME IInv, Timing, Fresh, NEW c \in waiting PROVE Owes(c) > 0
<1>1. nextEvent[c] \in Nat /\ c \in Classes
  BY DEF IInv, WaitTypes
<1>2. nextEvent[c] <= Owes(c)
  BY DEF Fresh, Timing, InTime
<1>3. Owes(c) \in Int
  BY <1>1 DEF IInv, BucketTypes, Owes
<1>4. nextEvent[c] > 0
  <2>1. CASE pc = "schedule"
    BY <2>1 DEF Timing, Awaited
  <2>2. CASE pc = "idle" /\ timer # 0
    <3> DEFINE S == {nextEvent[d] : d \in waiting}
    <3>1. S \in SUBSET Nat /\ nextEvent[c] \in S /\ timer = Least(S)
      BY <2>2 DEF IInv, WaitTypes, Timing, TimerArmed
    <3> HIDE DEF S
    <3>2. Least(S) \in Nat /\ Least(S) <= nextEvent[c]
      BY <3>1, LeastElement
    <3> QED BY <1>1, <2>2, <3>1, <3>2
  <2> QED BY <2>1, <2>2 DEF Fresh
<1> QED BY <1>1, <1>2, <1>3, <1>4

LEMMA TimingMeans ==
  ASSUME IInv, Timing, Fresh, NEW c \in Classes, feeds.active[c] # {} \/ c \in Inners
  PROVE  mode[c] = ModeNow[c]
<1>1. ASSUME mode[c] # Green PROVE c \in waiting
  BY <1>1 DEF IInv, WaitTreeConsistent, Inners
<1> QED BY <1>1, FreshWaits, OwingMeans

\* classModeChangeEvent is scheduled for the first expected mode change, and no
\* stored mode is older than the buckets: what the wait trees, the expected
\* times and the timer do together, for every tree and all rates.
THEOREM ModesAlwaysFollow == Spec => []ModesFollowBuckets
<1>1. IInv /\ Timing => ModesFollowBuckets
  BY TimingMeans DEF ModesFollowBuckets, ModesCurrent, Fresh, Timing
<1> QED BY <1>1, TimingInit, TimingKept, Invariant, PTL DEF Spec

(***************************************************************************)
(* The second invariant: what is selected, and what it is charged.         *)
(***************************************************************************)

\* A class below level l borrows, the one at that level can send.
Lends(c, l) ==
  \A d \in Path[c] : /\ Level[d] < l => mode[d] = Yellow
                     /\ Level[d] = l => mode[d] = Green

Lender(c, l) == Lends(c, l) /\ \E d \in Path[c] : Level[d] = l

\* An active leaf has something to send, unless it has just sent its last packet.
Backlogged ==
  \A c \in Leaves :
    feeds.active[c] # {} => qlen[c] > 0 \/ (pc \in {"charge", "error"} /\ c = next.leaf)

\* There is nothing in the feeds that come before those of level l, priority p.
EmptyBefore(l, p) == \A k \in Levels, q \in Prios : Before(k, q, l, p) => feeds.self[k][q] = {}

\* The search finds a leaf in the first feed it looks into.
Finding ==
  /\ pc = "search" => find = NoFind
  /\ pc \in {"search", "descend"} => next = None
  /\ pc = "descend" =>
       /\ find.start = NULL
       /\ find.prio \in feeds.active[find.cl]
       /\ Level[find.cl] <= find.level
       /\ Lender(find.cl, find.level)
       /\ EmptyBefore(find.level, find.prio)

Chosen ==
  pc \in {"schedule", "idle"} =>
    IF next = None THEN \A k \in Levels, q \in Prios : feeds.self[k][q] = {}
    ELSE /\ next.prio \in feeds.active[next.leaf]
         /\ Lender(next.leaf, next.level)
         /\ EmptyBefore(next.level, next.prio)

\* The classes that are still to be charged are as they were when the leaf was chosen.
Borrowing ==
  pc = "charge" =>
    /\ next.prio \in feeds.active[next.leaf]
    /\ charge.cl # NULL => Lends(charge.cl, next.level)

Selecting == Backlogged /\ Finding /\ Chosen /\ Borrowing /\ BucketsRespected

\* A path goes on with the path of the parent, which does not come back.
LEMMA PathParent ==
  ASSUME NEW c \in Classes, c # Root
  PROVE  Parent[c] \in Classes /\ Path[Parent[c]] \subseteq Path[c] \ {c}
<1>1. Parent[c] \in Classes /\ Parent[c] \in Path[c] /\ Level[c] < Level[Parent[c]]
  BY PathClosed, TreeAssumption
<1> DEFINE S == Path[c]
<1>2. S \subseteq Classes /\ \A x \in S : Parent[x] # NULL => Parent[x] \in S
  BY PathClosed, TreeAssumption
<1>3. Path[Parent[c]] \subseteq S
  BY <1>1, <1>2, PathLeast
<1>4. c \notin Path[Parent[c]]
  <2>1. ASSUME c \in Path[Parent[c]] PROVE FALSE
    <3>1. c = Parent[c] \/ Level[Parent[c]] < Level[c]
      BY <1>1, <2>1, PathRises
    <3> QED BY <1>1, <3>1, TreeAssumption
  <2> QED BY <2>1
<1> QED BY <1>1, <1>3, <1>4

\* A step that leaves what the selection is about alone.
LEMMA QuietSelection ==
  ASSUME Selecting, UNCHANGED <<pc, mode, tokens, ctokens, feeds, qlen, next, find, charge>>
  PROVE  Selecting'
BY DEF Selecting, Backlogged, Finding, Chosen, Borrowing, Lender, Lends, EmptyBefore,
   BucketsRespected, BurstRespected, CeilingRespected

\* The buckets are not touched.
LEMMA QuietBuckets ==
  ASSUME BucketsRespected, UNCHANGED <<tokens, ctokens>>
  PROVE  BucketsRespected'
BY DEF BucketsRespected, BurstRespected, CeilingRespected

\* A handler begins with doEvents.
LEMMA TimerSelects == Selecting /\ Timer => Selecting'
<1> SUFFICES ASSUME Selecting, Timer PROVE Selecting'
  OBVIOUS
<1>1. UNCHANGED <<tokens, ctokens, feeds, qlen, next>> /\ pc = "idle" /\ pc' = "events"
  BY DEF Timer, buckets
<1> QED BY <1>1, QuietBuckets DEF Selecting, Backlogged, Finding, Chosen, Borrowing

LEMMA PushSelects ==
  ASSUME NEW c \in Leaves PROVE IInv /\ Selecting /\ Push(c) => Selecting'
<1> SUFFICES ASSUME IInv, Selecting, Push(c) PROVE Selecting'
  OBVIOUS
<1> DEFINE G == Activated([feeds EXCEPT !.active[c] = @ \cup {LeafPrio[c]}], mode, c)
<1>1. /\ UNCHANGED <<tokens, ctokens, next>> /\ pc = "idle" /\ pc' \in {"events", "error"}
      /\ qlen' = [qlen EXCEPT ![c] = Lesser(@ + 1, MaxQueue)]
      /\ feeds' = feeds \/ (LeafPrio[c] \notin feeds.active[c] /\ feeds' = G)
  BY DEF Push, Throw, buckets
<1> HIDE DEF G
<1>2. \A d \in Leaves \ {c} : feeds'.active[d] = feeds.active[d]
  <2>1. CASE feeds' = feeds
    BY <2>1
  <2>2. CASE LeafPrio[c] \notin feeds.active[c] /\ feeds' = G
    BY <2>2, JoinedGood DEF IInv, BucketTypes, G
  <2> QED BY <1>1, <2>1, <2>2
<1>3. qlen'[c] > 0 /\ \A d \in Leaves \ {c} : qlen'[d] = qlen[d]
  <2>1. qlen[c] \in Nat /\ MaxQueue \in Nat \ {0} /\ qlen \in [Leaves -> 0..MaxQueue]
    BY NumberAssumption DEF IInv, QueueTypes
  <2>2. Lesser(qlen[c] + 1, MaxQueue) > 0
    BY <2>1 DEF Lesser
  <2> QED BY <1>1, <2>1, <2>2
<1>4. Backlogged'
  BY <1>1, <1>2, <1>3 DEF Selecting, Backlogged
<1> QED BY <1>1, <1>4, QuietBuckets DEF Selecting, Finding, Chosen, Borrowing

\* The leaf that was chosen pays.
LEMMA PullSelects ==
  ASSUME NEW s \in Sizes PROVE IInv /\ Selecting /\ Pull(s) => Selecting'
<1> SUFFICES ASSUME IInv, Selecting, Pull(s) PROVE Selecting'
  OBVIOUS
<1> DEFINE c == next.leaf
<1>1. /\ UNCHANGED <<mode, tokens, ctokens, next>> /\ pc = "idle" /\ c # NULL
      /\ qlen' = [qlen EXCEPT ![c] = @ - 1]
      /\ \/ pc' = "error"
         \/ pc' = "charge" /\ charge' = [cl |-> c, size |-> s]
      /\ feeds' = feeds \/ feeds' = Rotated(feeds, mode, c, next.prio)
  BY DEF Pull, Throw, buckets, CanPull
<1>6. feeds'.active = feeds.active
  <2>1. feeds \in FeedsType
    BY DEF IInv, Good
  <2>2. Rotated(feeds, mode, c, next.prio).active = feeds.active
    BY <2>1 DEF Rotated, FeedsType
  <2> QED BY <1>1, <2>2
<1>2. next # None
  BY <1>1, NoneIsNull
<1>3. next.prio \in feeds.active[c] /\ Lends(c, next.level)
  BY <1>1, <1>2 DEF Selecting, Chosen, Lender
<1> HIDE DEF c
<1>4. Backlogged'
  <2>1. \A d \in Leaves : d # next.leaf => qlen'[d] = qlen[d]
    BY <1>1 DEF IInv, QueueTypes, c
  <2> QED BY <1>1, <1>6, <2>1 DEF Selecting, Backlogged
<1>5. Borrowing'
  <2>1. pc' = "charge" => charge'.cl = c
    BY <1>1
  <2> QED BY <1>1, <1>3, <1>6, <2>1 DEF Borrowing, Lends, c
<1> QED BY <1>1, <1>4, <1>5, QuietBuckets DEF Selecting, Finding, Chosen

\* A class pays: below the lender it owes what it waited for, so that the time
\* that has passed does not fill its bucket; and the leaf had not used up its
\* ceiling.
LEMMA ChargeSelects == IInv /\ Timing /\ Selecting /\ ChargeClass => Selecting'
<1> SUFFICES ASSUME IInv, Timing, Selecting, ChargeClass PROVE Selecting'
  OBVIOUS
<1> DEFINE c     == charge.cl
           s     == charge.size
           spent == Account(tokens[c], age[c], Burst[c], Cost[c][s], MBuffer[c])
           tok   == IF Level[c] >= next.level THEN spent ELSE tokens[c] + age[c]
           ctok  == Account(ctokens[c], age[c], CBurst[c], CCost[c][s], MBuffer[c])
           new   == ClassMode(c, mode[c], tok, ctok, 0)
<1>1. /\ BucketTypes /\ WaitTypes /\ WaitTreeConsistent /\ pc = "charge" /\ c # NULL
      /\ c \in Classes /\ s \in Sizes /\ next.level \in Levels /\ next.leaf \in Leaves
      /\ c \in Leaves => feeds.active[c] # {}
      /\ pc' \in {"charge", "error"} /\ UNCHANGED <<next, qlen>>
  BY DEF IInv, Charging, ChargeClass, Pointers, Throw, NextType
<1>2. CASE age[c] = 0
  <2>1. UNCHANGED <<feeds, tokens, ctokens>> /\ pc' = "error"
    BY <1>2 DEF ChargeClass, buckets, Throw
  <2> QED BY <1>1, <2>1, QuietBuckets DEF Selecting, Backlogged, Finding, Chosen, Borrowing
<1>3. CASE age[c] # 0
  <2>1. /\ tokens' = [tokens EXCEPT ![c] = tok]
        /\ ctokens' = [ctokens EXCEPT ![c] = ctok]
        /\ mode' = [mode EXCEPT ![c] = new]
        /\ feeds' = Moved(feeds, mode, c, new)
        /\ charge' = [charge EXCEPT !.cl = Parent[c]]
    BY <1>3 DEF ChargeClass
  <2>2. /\ tokens[c] \in Int /\ ctokens[c] \in Int /\ age[c] \in Nat /\ mode[c] \in Modes
        /\ tokens[c] > -MBuffer[c] /\ ctokens[c] > -MBuffer[c]
    BY <1>1 DEF BucketTypes, Timing, Solid
  <2>3. /\ Burst[c] \in Nat /\ CBurst[c] \in Nat /\ MBuffer[c] \in Nat \ {0}
        /\ Cost[c][s] \in Nat /\ CCost[c][s] \in Nat
        /\ Level[c] \in Nat /\ next.level \in Nat
    <3>1. Levels \subseteq Nat
      BY TreeAssumption DEF Levels
    <3>2. next.level \in Nat
      BY <1>1, <3>1
    <3> HIDE DEF c, s
    <3> QED BY <1>1, <3>2, NumberAssumption, TreeAssumption
  <2>4. /\ Level[c] < next.level => mode[c] = Yellow
        /\ Level[c] = next.level => mode[c] = Green
    BY <1>1, PathClosed DEF Selecting, Borrowing, Lends
  <2>5. charge'.cl = Parent[c]
    BY <1>1, <2>1 DEF IInv, Charging
  <2>6. \A d \in Leaves : feeds'.active[d] = feeds.active[d]
    <3>1. tok \in Int /\ ctok \in Int
      <4>1. spent \in Int /\ ctok \in Int
        <5> HIDE DEF c, s
        <5> QED BY <2>2, <2>3, AccountBounds
      <4> HIDE DEF spent, ctok, c
      <4> QED BY <2>2, <4>1
    <3>2. new \in Modes
      <4> HIDE DEF tok, ctok, c
      <4> QED BY <1>1, <2>2, <3>1, ModeDebt
    <3> HIDE DEF new
    <3> QED BY <1>1, <2>1, <3>2, MovedGood DEF IInv, BucketTypes
  <2>7. Backlogged'
    BY <1>1, <2>6 DEF Selecting, Backlogged
  <2>8. Borrowing'
    <3>1. next'.prio \in feeds'.active[next'.leaf]
      BY <1>1, <2>6 DEF Selecting, Borrowing
    <3>2. ASSUME Parent[c] # NULL
          PROVE  \A d \in Path[Parent[c]] : /\ Level[d] < next.level => mode'[d] = Yellow
                                            /\ Level[d] = next.level => mode'[d] = Green
      <4>1. c # Root
        BY <1>1, <3>2, TreeAssumption
      <4>2. Path[Parent[c]] \subseteq Path[c] \ {c}
        BY <1>1, <4>1, PathParent
      <4>3. Path[c] \subseteq Classes
        BY <1>1, PathClosed
      <4> HIDE DEF new
      <4>4. \A d \in Path[Parent[c]] : mode'[d] = mode[d]
        BY <1>1, <2>1, <4>2, <4>3 DEF BucketTypes
      <4>5. Lends(c, next.level)
        BY <1>1 DEF Selecting, Borrowing
      <4> HIDE DEF c
      <4> QED BY <4>2, <4>4, <4>5 DEF Lends
    <3>3. next' = next
      BY <1>1
    <3> HIDE DEF c
    <3> QED BY <2>5, <3>1, <3>2, <3>3 DEF Borrowing, Lends
  <2> HIDE DEF new
  <2>9. tok <= Burst[c] /\ ctok <= CBurst[c]
    <3>1. spent <= Burst[c] /\ ctok <= CBurst[c]
      <4> HIDE DEF c, s
      <4> QED BY <2>2, <2>3, AccountBounds
    <3>2. ASSUME Level[c] < next.level PROVE tokens[c] + age[c] <= 0
      <4>1. mode[c] = Yellow /\ mode[c] # Green /\ mode[c] # Red
        BY <2>4, <3>2 DEF Yellow, Green, Red
      <4>2. c \in waiting
        BY <1>1, <4>1 DEF WaitTreeConsistent, Inners
      <4>3. nextEvent[c] <= -(tokens[c] + age[c])
        BY <1>1, <4>1, <4>2 DEF Timing, InTime, Owes
      <4>4. nextEvent[c] \in Nat
        BY <1>1 DEF WaitTypes
      <4> QED BY <2>2, <4>3, <4>4
    <3> HIDE DEF spent, ctok, c
    <3> QED BY <2>2, <2>3, <3>1, <3>2
  <2>10. c \in Leaves => ctok >= (IF Hysteresis THEN -CBurst[c] ELSE 0) - CCost[c][s]
    <3> SUFFICES ASSUME c \in Leaves
                 PROVE  ctok >= (IF Hysteresis THEN -CBurst[c] ELSE 0) - CCost[c][s]
      OBVIOUS
    <3>1. mode[c] # Red
      <4>1. Level[c] = 0
        BY DEF Leaves
      <4> QED BY <2>3, <2>4, <4>1 DEF Yellow, Green, Red
    <3>2. /\ ctokens[c] + age[c] >= Lowater(c, mode[c])
          /\ Lowater(c, mode[c]) = IF Hysteresis THEN -CBurst[c] ELSE 0
      BY <1>1, <2>2, <3>1, WaterMarks DEF Timing, Solid
    <3>3. /\ ctok \in Int
          /\ ctok >= Lesser(ctokens[c] + age[c], CBurst[c]) - CCost[c][s]
      <4> HIDE DEF c, s
      <4> QED BY <2>2, <2>3, AccountBounds
    <3>4. Hysteresis \in BOOLEAN
      BY NumberAssumption
    <3> HIDE DEF ctok, c, s
    <3>5. Lesser(ctokens[c] + age[c], CBurst[c]) >= IF Hysteresis THEN -CBurst[c] ELSE 0
      BY <2>2, <2>3, <3>2, <3>4 DEF Lesser
    <3>6. Lesser(ctokens[c] + age[c], CBurst[c]) \in Int
      BY <2>2, <2>3 DEF Lesser
    <3> QED BY <2>3, <3>3, <3>4, <3>5, <3>6
  <2> HIDE DEF tok, ctok, c, s
  <2>11. /\ \A d \in Classes : tokens'[d] = IF d = c THEN tok ELSE tokens[d]
         /\ \A d \in Classes : ctokens'[d] = IF d = c THEN ctok ELSE ctokens[d]
    BY <1>1, <2>1 DEF BucketTypes
  <2>12. BurstRespected'
    BY <2>9, <2>11 DEF Selecting, BucketsRespected, BurstRespected
  <2>13. CeilingRespected'
    <3> SUFFICES ASSUME NEW d \in Leaves
                 PROVE  \E z \in Sizes :
                          ctokens'[d] >= (IF Hysteresis THEN -CBurst[d] ELSE 0) - CCost[d][z]
      BY DEF CeilingRespected
    <3>1. CASE d = c
      BY <1>1, <2>10, <2>11, <3>1
    <3>2. CASE d # c
      <4>1. ctokens'[d] = ctokens[d]
        BY <2>11, <3>2, LeafClass
      <4> QED BY <4>1 DEF Selecting, BucketsRespected, CeilingRespected
    <3> QED BY <3>1, <3>2
  <2> QED BY <1>1, <2>7, <2>8, <2>12, <2>13
          DEF Selecting, BucketsRespected, Finding, Chosen
<1> QED BY <1>2, <1>3

\* A leaf that has sent its last packet leaves the feeds.
LEMMA EndChargeSelects == IInv /\ Selecting /\ EndCharge => Selecting'
<1> SUFFICES ASSUME IInv, Selecting, EndCharge PROVE Selecting'
  OBVIOUS
<1> DEFINE c == next.leaf
<1>1. /\ UNCHANGED <<tokens, ctokens, qlen, next>> /\ pc = "charge" /\ pc' = "events"
      /\ feeds' = IF qlen[c] = 0 THEN LeafDeactivated(feeds, mode, c, next.prio) ELSE feeds
  BY DEF EndCharge, buckets
<1>2. /\ c \in Leaves /\ mode \in [Classes -> Modes] /\ Good(feeds, mode, NULL)
      /\ qlen[c] \in Nat
  BY <1>1 DEF IInv, Charging, NextType, BucketTypes, QueueTypes
<1>3. feeds.active[c] \subseteq {next.prio}
  <2>1. next.prio \in feeds.active[c] /\ feeds.active[c] \subseteq {LeafPrio[c]}
    BY <1>1, <1>2 DEF Selecting, Borrowing, Good, Held, LeafActive
  <2> QED BY <2>1
<1>4. Backlogged'
  <2>1. CASE qlen[c] = 0
    <3>1. /\ feeds'.active[c] = feeds.active[c] \ {next.prio}
          /\ \A d \in Leaves \ {c} : feeds'.active[d] = feeds.active[d]
      BY <1>1, <1>2, <2>1, LeafDeactivatedGood
    <3>2. feeds'.active[c] = {}
      BY <1>3, <3>1
    <3> QED BY <1>1, <3>1, <3>2 DEF Selecting, Backlogged
  <2>2. CASE qlen[c] # 0
    <3>1. feeds' = feeds /\ qlen[c] > 0
      BY <1>1, <1>2, <2>2
    <3> QED BY <1>1, <3>1 DEF Selecting, Backlogged
  <2> QED BY <2>1, <2>2
<1> QED BY <1>1, <1>4, QuietBuckets DEF Selecting, Finding, Chosen, Borrowing

LEMMA DoEventSelects ==
  ASSUME NEW c \in Classes PROVE IInv /\ Selecting /\ DoEvent(c) => Selecting'
<1> SUFFICES ASSUME IInv, Selecting, DoEvent(c) PROVE Selecting'
  OBVIOUS
<1> DEFINE new == ClassMode(c, mode[c], tokens[c], ctokens[c], age[c])
<1>1. /\ UNCHANGED <<tokens, ctokens, qlen, next>> /\ pc = "events" /\ pc' = "events"
      /\ feeds' = Moved(feeds, mode, c, new)
  BY DEF DoEvent, buckets
<1>2. /\ mode \in [Classes -> Modes] /\ Good(feeds, mode, NULL)
      /\ tokens[c] \in Int /\ ctokens[c] \in Int /\ age[c] \in Nat /\ mode[c] \in Modes
  BY DEF IInv, BucketTypes
<1>3. new \in Modes
  BY <1>2, ModeDebt
<1> HIDE DEF new
<1>4. \A d \in Leaves : feeds'.active[d] = feeds.active[d]
  BY <1>1, <1>2, <1>3, MovedGood
<1>5. Backlogged'
  BY <1>1, <1>4 DEF Selecting, Backlogged
<1> QED BY <1>1, <1>5, QuietBuckets DEF Selecting, Finding, Chosen, Borrowing

LEMMA EndEventsSelects == IInv /\ Selecting /\ EndEvents => Selecting'
<1> SUFFICES ASSUME IInv, Selecting, EndEvents PROVE Selecting'
  OBVIOUS
<1>1. /\ UNCHANGED <<tokens, ctokens, feeds, qlen>> /\ pc = "events" /\ pc' = "search"
      /\ next' = None /\ find' = NoFind
  BY DEF EndEvents, buckets
<1>2. Backlogged'
  BY <1>1 DEF Selecting, Backlogged
<1> QED BY <1>1, <1>2, QuietBuckets DEF Selecting, Finding, Chosen, Borrowing

\* The search looks into the first feed that is not empty, at a class that can
\* send.
LEMMA SearchSelects == IInv /\ Selecting /\ Search => Selecting'
<1> SUFFICES ASSUME IInv, Selecting, Search PROVE Selecting'
  OBVIOUS
<1>1. /\ UNCHANGED <<mode, tokens, ctokens, qlen, next>> /\ pc = "search"
      /\ find = NoFind /\ next = None
  BY DEF Search, buckets, Selecting, Finding
<1>2. Levels \subseteq Nat /\ Prios \subseteq Nat
  BY TreeAssumption DEF Levels
<1>3. \A k \in Levels, q \in Prios : feeds.self[k][q] # {} => <<k, q>> \in Ahead
  <2> SUFFICES ASSUME NEW k \in Levels, NEW q \in Prios, feeds.self[k][q] # {}
               PROVE  <<k, q>> \in Ahead
    OBVIOUS
  <2>1. Before(find.level, find.prio, k, q)
    BY <1>1, <1>2 DEF Before, NoFind
  <2> QED BY <2>1 DEF Ahead
<1>4. CASE Ahead = {}
  <2>1. feeds' = feeds /\ pc' = "schedule"
    BY <1>4 DEF Search
  <2>2. Backlogged'
    BY <1>1, <2>1 DEF Selecting, Backlogged
  <2> QED BY <1>1, <1>3, <1>4, <2>1, <2>2, QuietBuckets
          DEF Selecting, Finding, Chosen, Borrowing
<1>5. ASSUME NEW l \in Levels, NEW p \in Prios, EnterFeed(l, p)
      PROVE  Selecting'
  <2> DEFINE c == Current(feeds.self[l][p], feeds.selfNext[l][p])
  <2>1. /\ feeds' = [feeds EXCEPT !.selfNext[l][p] = c]
        /\ find' = [level |-> l, prio |-> p, cl |-> c, start |-> NULL, del |-> NULL]
        /\ pc' = "descend" /\ feeds.self[l][p] # {}
        /\ \A s \in Ahead : ~Before(s[1], s[2], l, p)
    BY <1>5 DEF EnterFeed, NoFind, Ahead
  <2>2. feeds \in FeedsType /\ SelfFeeds(feeds, mode, NULL)
    BY DEF IInv, Good, Held
  <2>3. c \in feeds.self[l][p] /\ c \in Classes
    <3>1. feeds.self[l][p] \subseteq Classes /\ feeds.selfNext[l][p] \in Classes \cup {NULL}
      BY <2>2 DEF FeedsType, Pointers
    <3> QED BY <2>1, <3>1, CurrentClass
  <2> HIDE DEF c
  <2>4. feeds'.active = feeds.active /\ feeds'.self = feeds.self
    BY <2>1, <2>2 DEF FeedsType
  <2>5. Level[c] = l /\ mode[c] = Green /\ p \in feeds.active[c]
    BY <2>2, <2>3 DEF SelfFeeds
  <2>6. \A d \in Path[c] : d = c \/ l < Level[d]
    BY <2>3, <2>5, PathRises
  <2>7. \A d \in Path[c] : Level[d] \in Nat
    BY <2>3, PathClosed, TreeAssumption
  <2>8. Lender(c, l)
    <3>1. c \in Path[c]
      BY <2>3, PathClosed
    <3>2. \A d \in Path[c] : /\ Level[d] < l => mode[d] = Yellow
                             /\ Level[d] = l => mode[d] = Green
      BY <1>2, <2>5, <2>6, <2>7
    <3> QED BY <2>5, <3>1, <3>2 DEF Lender, Lends
  <2>9. EmptyBefore(l, p)
    <3> SUFFICES ASSUME NEW k \in Levels, NEW q \in Prios, Before(k, q, l, p)
                 PROVE  feeds.self[k][q] = {}
      BY DEF EmptyBefore
    <3>1. <<k, q>> \notin Ahead
      BY <2>1
    <3> QED BY <1>3, <3>1
  <2>10. Level[c] <= l
    BY <1>2, <2>5
  <2>11. /\ find'.start = NULL /\ find'.cl = c /\ find'.level = l /\ find'.prio = p
    BY <2>1
  <2>12. Finding'
    <3>1. find'.prio \in feeds'.active[find'.cl] /\ Level[find'.cl] <= find'.level
      BY <2>4, <2>5, <2>10, <2>11
    <3>2. Lender(find.cl, find.level)' /\ EmptyBefore(find.level, find.prio)'
      BY <1>1, <2>4, <2>8, <2>9, <2>11 DEF Lender, Lends, EmptyBefore
    <3> QED BY <1>1, <2>1, <2>11, <3>1, <3>2 DEF Finding
  <2>13. Backlogged'
    BY <1>1, <2>1, <2>4 DEF Selecting, Backlogged
  <2> QED BY <1>1, <2>1, <2>12, <2>13, QuietBuckets DEF Selecting, Chosen, Borrowing
<1> QED BY <1>4, <1>5 DEF Search

\* The search goes down to a class that borrows from the one above it.
LEMMA DescendSelects == IInv /\ Selecting /\ Descend => Selecting'
<1> SUFFICES ASSUME IInv, Selecting, Descend PROVE Selecting'
  OBVIOUS
<1> DEFINE c == find.cl
           p == find.prio
           l == find.level
           d == Current(feeds.inner[c][p], feeds.innerNext[c][p])
<1>1. /\ UNCHANGED <<pc, mode, tokens, ctokens, qlen, next>>
      /\ pc = "descend" /\ Level[c] > 0
      /\ feeds' = [feeds EXCEPT !.innerNext[c][p] = d]
      /\ find' = [find EXCEPT !.cl = d]
  BY DEF Descend, buckets
<1>2. /\ find \in SearchType /\ c \in Classes /\ p \in Prios /\ l \in Levels
      /\ c \in Inners /\ feeds \in FeedsType
      /\ InnerFeeds(feeds, mode, NULL) /\ InnerActive(feeds)
  BY <1>1 DEF IInv, Cursor, SearchType, Inners, Leaves, Good, Held
<1>3. /\ next = None /\ find.start = NULL /\ p \in feeds.active[c] /\ Level[c] <= l
      /\ Lender(c, l) /\ EmptyBefore(l, p)
  BY <1>1 DEF Selecting, Finding
<1>4. d \in feeds.inner[c][p] /\ d \in Classes
  <2>1. feeds.inner[c][p] # {}
    BY <1>2, <1>3 DEF InnerActive
  <2>2. feeds.inner[c][p] \subseteq Classes /\ feeds.innerNext[c][p] \in Classes \cup {NULL}
    BY <1>2 DEF FeedsType, Pointers
  <2> HIDE DEF c, p
  <2> QED BY <2>1, <2>2, CurrentClass
<1> HIDE DEF d
<1>5. Parent[d] = c /\ mode[d] = Yellow /\ p \in feeds.active[d]
  BY <1>2, <1>4 DEF InnerFeeds
<1>6. d # Root /\ Level[d] < Level[c] /\ Level[d] \in Nat /\ Level[c] \in Nat /\ l \in Nat
  <2>1. d # Root
    <3>1. Parent[d] # NULL
      BY <1>2, <1>5, NullIsNoClass
    <3> QED BY <1>4, <3>1, TreeAssumption
  <2>2. Level[d] < Level[c]
    BY <1>4, <1>5, <2>1, TreeAssumption
  <2>3. Levels \subseteq Nat
    BY TreeAssumption DEF Levels
  <2>4. l \in Nat
    BY <1>2, <2>3
  <2> HIDE DEF c, l
  <2> QED BY <1>2, <1>4, <2>1, <2>2, <2>4, TreeAssumption
<1>7. Level[d] < l
  <2> HIDE DEF c, l
  <2> QED BY <1>3, <1>6
<1>8. feeds'.active = feeds.active /\ feeds'.self = feeds.self
  BY <1>1, <1>2 DEF FeedsType
<1>9. find'.cl = d /\ find'.prio = p /\ find'.level = l /\ find'.start = NULL
  BY <1>1, <1>2, <1>3 DEF SearchType
<1>10. Lender(d, l)
  <2> HIDE DEF c, l
  <2>1. \A e \in Path[d] : e = d \/ e \in Path[c]
    BY <1>4, <1>5, PathStep
  <2>2. Lends(d, l)
    BY <1>3, <1>5, <1>6, <1>7, <2>1 DEF Lends, Lender
  <2>3. Path[c] \subseteq Path[d]
    BY <1>4, <1>5, <1>6, PathParent
  <2> QED BY <1>3, <2>2, <2>3 DEF Lender
<1> HIDE DEF c, l, p
<1>11. Finding'
  <2>1. find'.prio \in feeds'.active[find'.cl] /\ Level[find'.cl] <= find'.level
    BY <1>5, <1>6, <1>7, <1>8, <1>9
  <2>2. Lender(find.cl, find.level)' /\ EmptyBefore(find.level, find.prio)'
    BY <1>1, <1>3, <1>8, <1>9, <1>10 DEF Lender, Lends, EmptyBefore
  <2> QED BY <1>1, <1>3, <1>9, <2>1, <2>2 DEF Finding
<1>12. Backlogged'
  BY <1>1, <1>8 DEF Selecting, Backlogged
<1> QED BY <1>1, <1>11, <1>12, QuietBuckets DEF Selecting, Chosen, Borrowing

\* The first leaf that the search comes to has a packet.
LEMMA TryLeafSelects == IInv /\ Selecting /\ TryLeaf => Selecting'
<1> SUFFICES ASSUME IInv, Selecting, TryLeaf PROVE Selecting'
  OBVIOUS
<1>1. UNCHANGED <<mode, tokens, ctokens, qlen>> /\ pc = "descend" /\ Level[find.cl] = 0
  BY DEF TryLeaf, buckets
<1>2. find.cl \in Leaves /\ find.cl # NULL
  BY <1>1, NullIsNoClass DEF IInv, Cursor, SearchType, Leaves
<1>3. /\ next = None /\ find.start = NULL /\ find.prio \in feeds.active[find.cl]
      /\ Lender(find.cl, find.level) /\ EmptyBefore(find.level, find.prio)
  BY <1>1 DEF Selecting, Finding
<1>4. qlen[find.cl] > 0
  BY <1>1, <1>2, <1>3 DEF Selecting, Backlogged
<1>5. /\ next' = [leaf |-> find.cl, level |-> find.level, prio |-> find.prio]
      /\ pc' = "schedule" /\ feeds' = feeds
  BY <1>3, <1>4 DEF TryLeaf
<1>6. next' # None
  BY <1>2, <1>5 DEF None
<1>7. Chosen'
  BY <1>1, <1>3, <1>5, <1>6 DEF Chosen, Lender, Lends, EmptyBefore
<1>8. Backlogged'
  BY <1>1, <1>5 DEF Selecting, Backlogged
<1> QED BY <1>1, <1>5, <1>7, <1>8, QuietBuckets DEF Selecting, Finding, Borrowing

LEMMA ScheduleSelects == Selecting /\ Schedule => Selecting'
<1> SUFFICES ASSUME Selecting, Schedule PROVE Selecting'
  OBVIOUS
<1>1. /\ UNCHANGED <<mode, tokens, ctokens, qlen, feeds, next>>
      /\ pc = "schedule" /\ pc' = "idle"
  BY DEF Schedule, buckets
<1>2. Chosen'
  BY <1>1 DEF Selecting, Chosen, Lender, Lends, EmptyBefore
<1>3. Backlogged'
  BY <1>1 DEF Selecting, Backlogged
<1> QED BY <1>1, <1>2, <1>3, QuietBuckets DEF Selecting, Finding, Borrowing

LEMMA SelectingInit == Init => Selecting
<1> SUFFICES ASSUME Init PROVE Selecting
  OBVIOUS
<1>1. Backlogged /\ Finding /\ Chosen /\ Borrowing
  BY LeafClass DEF Init, Backlogged, Finding, Chosen, Borrowing
<1>2. BurstRespected
  BY NumberAssumption DEF Init, BurstRespected
<1>3. CeilingRespected
  <2> SUFFICES ASSUME NEW c \in Leaves
               PROVE  \E s \in Sizes :
                        CBurst[c] >= (IF Hysteresis THEN -CBurst[c] ELSE 0) - CCost[c][s]
    BY DEF Init, CeilingRespected
  <2>1. PICK s \in Sizes : TRUE
    BY NumberAssumption
  <2>2. CBurst[c] \in Nat /\ CCost[c][s] \in Nat /\ Hysteresis \in BOOLEAN
    BY LeafClass, NumberAssumption
  <2> QED BY <2>2
<1> QED BY <1>1, <1>2, <1>3 DEF Selecting, BucketsRespected

\* No packet leaves the queues behind the scheduler's back here.
LEMMA SelectingKept ==
  ASSUME ~CanRemove PROVE IInv /\ Timing /\ Selecting /\ [Next]_vars => Selecting'
<1> SUFFICES ASSUME IInv, Timing, Selecting, [Next]_vars PROVE Selecting'
  OBVIOUS
<1>1. ASSUME NEW c \in Leaves, Push(c) PROVE Selecting'
  BY <1>1, PushSelects
<1>2. ASSUME NEW s \in Sizes, Pull(s) PROVE Selecting'
  BY <1>2, PullSelects
<1>3. ASSUME NEW c \in Classes, DoEvent(c) PROVE Selecting'
  BY <1>3, DoEventSelects
<1>4. CASE Tick \/ UNCHANGED vars
  <2>1. UNCHANGED <<pc, mode, tokens, ctokens, feeds, qlen, next, find, charge>>
    BY <1>4 DEF Tick, vars, locals
  <2> QED BY <2>1, QuietSelection
<1>5. ~RemoveAll /\ ~ \E c \in Leaves : Remove(c)
  BY DEF RemoveAll, Remove
<1> QED BY <1>1, <1>2, <1>3, <1>4, <1>5, TimerSelects, ChargeSelects, EndChargeSelects,
       EndEventsSelects, SearchSelects, DescendSelects, TryLeafSelects, ScheduleSelects
       DEF Next, Handler

\* No bucket exceeds its burst and no leaf overdraws its ceiling by more than a
\* packet, for every tree and all rates, when the queues lose no packets.
THEOREM BucketsAlwaysRespected == ASSUME ~CanRemove PROVE Spec => []BucketsRespected
<1>1. Selecting => BucketsRespected
  BY DEF Selecting
<1> QED BY <1>1, TimingInit, TimingKept, SelectingInit, SelectingKept, Invariant, PTL DEF Spec

(***************************************************************************)
(* What is selected.                                                       *)
(***************************************************************************)

\* Modes that agree on a path give the same chain.
LEMMA SameChain ==
  ASSUME NEW c \in Classes, NEW m, \A d \in Path[c] : m[d] = mode[d]
  PROVE  Chain(m, c) = Chain(mode, c)
BY DEF Chain

\* The modes that getNumPackets sees are those of the path of an active leaf.
LEMMA ModesSeen ==
  ASSUME IInv, Timing, Fresh, NEW c \in Leaves, feeds.active[c] # {}
  PROVE  \A d \in Path[c] : ModeNow[d] = mode[d] /\ SeenMode[d] = mode[d]
<1> SUFFICES ASSUME NEW d \in Path[c] PROVE ModeNow[d] = mode[d] /\ SeenMode[d] = mode[d]
  OBVIOUS
<1>1. c \in Classes /\ d \in Classes /\ (d = c \/ Level[c] < Level[d]) /\ Level[c] \in Nat
  BY LeafClass, PathClosed, PathRises, TreeAssumption
<1>2. d = c \/ d \in Inners
  <2>1. Level[c] = 0
    BY DEF Leaves
  <2> QED BY <1>1, <2>1, TreeAssumption DEF Inners, Leaves
<1>3. ModeNow[d] = mode[d]
  <2>1. feeds.active[d] # {} \/ d \in Inners
    BY <1>2
  <2> QED BY <1>1, <2>1, TimingMeans
<1>4. mode[d] \in Modes /\ (mode[d] = Green => nextEvent[d] = 0)
  BY <1>1 DEF IInv, BucketTypes, Timing, Solid
<1>5. SeenMode[d] = IF mode[d] = Red THEN Red
                    ELSE IF nextEvent[d] = 0 \/ mode[d] = Yellow THEN mode[d] ELSE Red
  BY <1>1, <1>3 DEF SeenMode
<1> QED BY <1>3, <1>4, <1>5 DEF Modes

\* The classes an active leaf borrows from are active for its priority.
LEMMA ChainActive ==
  ASSUME NEW c \in Leaves, NEW p \in Prios, Good(feeds, mode, NULL), p \in feeds.active[c]
  PROVE  \A d \in Chain(mode, c) : p \in feeds.active[d]
<1> DEFINE S == {x \in Path[c] : x \in Chain(mode, c) => p \in feeds.active[x]}
<1>1. c \in Classes /\ Path[c] \subseteq Classes /\ c \in Path[c]
  BY LeafClass, PathClosed
<1>2. ASSUME NEW x \in S, Parent[x] # NULL PROVE Parent[x] \in S
  <2>1. x \in Classes /\ x # Root
    BY <1>1, <1>2, TreeAssumption
  <2>2. Parent[x] \in Path[c] /\ Parent[x] \in Classes /\ Level[x] < Level[Parent[x]]
    BY <1>1, <2>1, PathClosed, TreeAssumption
  <2>3. ASSUME Parent[x] \in Chain(mode, c) PROVE p \in feeds.active[Parent[x]]
    <3>1. mode[x] = Yellow
      BY <2>2, <2>3 DEF Chain
    <3>2. x \in Chain(mode, c)
      <4>1. ASSUME NEW e \in Path[c], Level[e] < Level[x] PROVE mode[e] = Yellow
        <5>1. Level[e] \in Nat /\ Level[x] \in Nat /\ Level[Parent[x]] \in Nat
          BY <1>1, <2>1, <2>2, TreeAssumption
        <5>2. Level[e] < Level[Parent[x]]
          BY <2>2, <4>1, <5>1
        <5> QED BY <2>3, <5>2 DEF Chain
      <4> QED BY <4>1 DEF Chain
    <3>3. x \in feeds.inner[Parent[x]][p]
      BY <2>1, <2>2, <3>1, <3>2, NullIsNoClass DEF Good, Held, InnerFeeds
    <3>4. Parent[x] \in Inners
      BY <2>1, <2>2, TreeAssumption DEF Inners, Leaves
    <3> QED BY <3>3, <3>4 DEF Good, Held, InnerActive
  <2> QED BY <2>2, <2>3
<1>3. Path[c] \subseteq S
  <2>1. c \in S /\ S \in SUBSET Classes
    BY <1>1
  <2> HIDE DEF S
  <2> QED BY <1>1, <1>2, <2>1, PathLeast
<1> QED BY <1>3, ChainClimbs, <1>1

\* A leaf that can send is found in the self feed of the class it sends at.
LEMMA SlotsFed ==
  ASSUME IInv, Timing, Fresh, NEW c \in Leaves, feeds.active[c] # {}
  PROVE  /\ feeds.active[c] = {LeafPrio[c]} /\ LeafPrio[c] \in Prios
         /\ Slots(c) = {<<Level[d], LeafPrio[c]>> : d \in {e \in Chain(mode, c) : mode[e] = Green}}
         /\ \A s \in Slots(c) : /\ s[1] \in Levels /\ s[2] = LeafPrio[c]
                                /\ feeds.self[s[1]][s[2]] # {}
<1>1. c \in Classes /\ LeafPrio[c] \in Prios /\ Good(feeds, mode, NULL)
  BY LeafClass DEF IInv
<1>2. feeds.active[c] = {LeafPrio[c]}
  BY <1>1 DEF Good, Held, LeafActive
<1>3. Chain(ModeNow, c) = Chain(mode, c) /\ Chain(mode, c) \subseteq Path[c]
      /\ Chain(mode, c) \subseteq Classes
  BY <1>1, ModesSeen, SameChain, ChainClimbs
<1>4. {e \in Chain(ModeNow, c) : ModeNow[e] = Green} = {e \in Chain(mode, c) : mode[e] = Green}
  BY <1>3, ModesSeen
<1>5. Slots(c) = {<<Level[d], LeafPrio[c]>> : d \in {e \in Chain(mode, c) : mode[e] = Green}}
  BY <1>4 DEF Slots
<1>6. ASSUME NEW d \in Chain(mode, c), mode[d] = Green
      PROVE  Level[d] \in Levels /\ d \in feeds.self[Level[d]][LeafPrio[c]]
  <2>1. LeafPrio[c] \in feeds.active[d]
    BY <1>1, <1>2, ChainActive
  <2> QED BY <1>1, <1>3, <1>6, <2>1, NullIsNoClass DEF Good, Held, SelfFeeds, Levels
<1>7. \A s \in Slots(c) : /\ s[1] \in Levels /\ s[2] = LeafPrio[c]
                          /\ feeds.self[s[1]][s[2]] # {}
  BY <1>5, <1>6
<1> QED BY <1>1, <1>2, <1>5, <1>7

\* The leaf that was chosen can send, at the level and priority it was chosen at.
LEMMA ChosenSlot ==
  ASSUME IInv, Timing, Selecting, Fresh, next # None
  PROVE  /\ next.leaf \in Leaves /\ qlen[next.leaf] > 0
         /\ <<next.level, next.prio>> \in Slots(next.leaf)
<1> DEFINE c == next.leaf
<1>1. next \in NextType /\ c \in Leaves /\ next.level \in Levels
  BY DEF IInv, LocalTypes, NextType
<1>2. /\ next.prio \in feeds.active[c] /\ Lender(c, next.level)
      /\ feeds.active[c] # {} => qlen[c] > 0
  BY <1>1 DEF Fresh, Selecting, Chosen, Backlogged
<1>3. PICK d \in Path[c] : Level[d] = next.level
  BY <1>2 DEF Lender
<1> HIDE DEF c
<1>4. d \in Chain(mode, c) /\ mode[d] = Green
  BY <1>2, <1>3 DEF Lender, Lends, Chain
<1>5. /\ feeds.active[c] = {LeafPrio[c]}
      /\ Slots(c) = {<<Level[e], LeafPrio[c]>> : e \in {f \in Chain(mode, c) : mode[f] = Green}}
  BY <1>1, <1>2, SlotsFed
<1>6. next.prio = LeafPrio[c]
  BY <1>2, <1>5
<1> QED BY <1>1, <1>2, <1>3, <1>4, <1>5, <1>6 DEF c

\* The leaves that have a packet and may send by their buckets.
Able == {c \in Leaves : qlen[c] > 0 /\ Slots(c) # {}}

\* What may send by its buckets is found, and nothing comes before what is chosen.
LEMMA SelectionMeans ==
  ASSUME IInv, Timing, Selecting, Fresh
  PROVE  IF Able = {} THEN next = None
         ELSE /\ next.leaf \in Able
              /\ <<next.level, next.prio>> \in Slots(next.leaf)
              /\ \A c \in Able : \A s \in Slots(c) :
                   \/ next.level < s[1]
                   \/ next.level = s[1] /\ next.prio <= s[2]
<1>1. \A c \in Able : c \in Leaves /\ feeds.active[c] # {}
  BY DEF IInv, WaitTreeConsistent, Able
<1>2. ASSUME NEW c \in Able, NEW s \in Slots(c)
      PROVE  s[1] \in Levels /\ s[2] \in Prios /\ feeds.self[s[1]][s[2]] # {}
  <2>1. c \in Leaves /\ feeds.active[c] # {}
    BY <1>1
  <2> QED BY <2>1, SlotsFed
<1>3. CASE next = None
  <2>1. \A k \in Levels, q \in Prios : feeds.self[k][q] = {}
    BY <1>3 DEF Fresh, Selecting, Chosen
  <2>2. Able = {}
    <3>1. \A c \in Able : Slots(c) # {}
      BY DEF Able
    <3> QED BY <1>2, <2>1, <3>1
  <2> QED BY <1>3, <2>2
<1>4. CASE next # None
  <2>1. /\ next.leaf \in Leaves /\ qlen[next.leaf] > 0
        /\ <<next.level, next.prio>> \in Slots(next.leaf)
    BY <1>4, ChosenSlot
  <2>2. next.leaf \in Able
    BY <2>1 DEF Able
  <2>3. next.level \in Levels /\ next.prio \in Prios /\ EmptyBefore(next.level, next.prio)
    BY <1>4 DEF Fresh, Selecting, Chosen, IInv, LocalTypes, NextType
  <2>4. Levels \subseteq Nat /\ Prios \subseteq Nat
    BY TreeAssumption DEF Levels
  <2>5. ASSUME NEW c \in Able, NEW s \in Slots(c)
        PROVE  next.level < s[1] \/ (next.level = s[1] /\ next.prio <= s[2])
    <3>1. s[1] \in Levels /\ s[2] \in Prios /\ feeds.self[s[1]][s[2]] # {}
      BY <1>2
    <3>2. ~Before(s[1], s[2], next.level, next.prio)
      BY <2>3, <3>1 DEF EmptyBefore
    <3>3. s[1] \in Nat /\ s[2] \in Nat /\ next.level \in Nat /\ next.prio \in Nat
      BY <2>3, <2>4, <3>1
    <3> QED BY <3>2, <3>3 DEF Before
  <2> QED BY <2>1, <2>2, <2>5
<1> QED BY <1>3, <1>4

\* getNumPackets counts the packets of the leaves that may send.
LEMMA EmptyMeans ==
  ASSUME IInv, Timing, Selecting PROVE EmptyAgrees
<1> SUFFICES ASSUME pc = "idle", timer # 0, ~CanRemove PROVE CanPull <=> ~IsEmpty
  BY DEF EmptyAgrees
<1>0. Fresh
  BY DEF Fresh
<1>1. ASSUME NEW c \in Leaves, feeds.active[c] # {} PROVE Counted(c) <=> Slots(c) # {}
  <2>1. c \in Classes
    BY LeafClass
  <2>2. \A d \in Path[c] : SeenMode[d] = mode[d]
    BY <1>0, <1>1, ModesSeen
  <2>3. Chain(SeenMode, c) = Chain(mode, c) /\ Chain(mode, c) \subseteq Path[c]
    BY <2>1, <2>2, SameChain, ChainClimbs
  <2>4. Counted(c) <=> \E d \in Chain(mode, c) : mode[d] = Green
    BY <1>1, <2>2, <2>3 DEF Counted
  <2>5. Slots(c) = {<<Level[d], LeafPrio[c]>> : d \in {e \in Chain(mode, c) : mode[e] = Green}}
    BY <1>0, <1>1, SlotsFed
  <2> QED BY <2>4, <2>5
<1>2. \A c \in Leaves : /\ qlen[c] \in Nat /\ (qlen[c] > 0 => feeds.active[c] # {})
                        /\ Counted(c) => feeds.active[c] # {}
  BY DEF IInv, QueueTypes, WaitTreeConsistent, Counted
<1>3. ~IsEmpty <=> \E c \in Leaves : qlen[c] > 0 /\ Slots(c) # {}
  BY <1>1, <1>2 DEF IsEmpty
<1>4. CASE next = None
  <2>1. ~CanPull
    BY <1>4, NoneIsNull DEF CanPull
  <2>2. Able = {}
    <3>1. next.leaf \notin Leaves
      BY <1>4, NoneIsNull, NullIsNoClass DEF Leaves
    <3> QED BY <1>0, <3>1, SelectionMeans DEF Able
  <2> QED BY <1>3, <2>1, <2>2 DEF Able
<1>5. CASE next # None
  <2>1. /\ next.leaf \in Leaves /\ qlen[next.leaf] > 0 /\ Slots(next.leaf) # {}
        /\ next.leaf # NULL
    BY <1>0, <1>5, ChosenSlot, NullIsNoClass DEF Leaves
  <2> QED BY <1>3, <2>1 DEF CanPull
<1> QED BY <1>4, <1>5

\* updateNextIndex selects a leaf that may send by its buckets, at the lowest
\* level and the first priority, and getNumPackets tells the interface that
\* there is a packet exactly when one is selected, for every tree and all rates.
THEOREM SelectionAlwaysAgrees == Spec => []PullAgrees
<1> DEFINE Chooses == ~CanRemove => Selecting
<1>1. Init => Chooses
  BY SelectingInit
<1>2. IInv /\ Timing /\ Chooses /\ [Next]_vars => Chooses'
  BY SelectingKept
<1>3. IInv /\ Timing /\ Chooses => PullAgrees
  <2>1. CASE CanRemove
    BY <2>1 DEF PullAgrees, SelectionCorrect, EmptyAgrees
  <2>2. CASE ~CanRemove
    BY <2>2, SelectionMeans, EmptyMeans DEF PullAgrees, SelectionCorrect, Able, Fresh
  <2> QED BY <2>1, <2>2
<1> QED BY <1>1, <1>2, <1>3, TimingInit, TimingKept, Invariant, PTL DEF Spec

(***************************************************************************)
(* Whose turn it is.                                                       *)
(***************************************************************************)

\* The class the search came from is the next one of its feed.
Pointing ==
  /\ pc = "descend" =>
       feeds.selfNext[find.level][find.prio] \in feeds.self[find.level][find.prio]
  /\ pc \in {"schedule", "idle"} /\ next # None =>
       feeds.selfNext[next.level][next.prio] \in feeds.self[next.level][next.prio]

LEMMA PointingKept ==
  ASSUME ~CanRemove PROVE IInv /\ Selecting /\ Pointing /\ [Next]_vars => Pointing'
<1> SUFFICES ASSUME IInv, Selecting, Pointing, [Next]_vars PROVE Pointing'
  OBVIOUS
<1>1. CASE Search
  <2>1. CASE Ahead = {}
    <3>1. pc' = "schedule" /\ next' = next /\ next = None
      BY <1>1, <2>1 DEF Search, Selecting, Finding
    <3> QED BY <3>1 DEF Pointing
  <2>2. ASSUME NEW l \in Levels, NEW p \in Prios, EnterFeed(l, p) PROVE Pointing'
    <3> DEFINE c == Current(feeds.self[l][p], feeds.selfNext[l][p])
    <3>1. /\ feeds' = [feeds EXCEPT !.selfNext[l][p] = c]
          /\ find'.level = l /\ find'.prio = p /\ pc' = "descend" /\ feeds.self[l][p] # {}
      BY <2>2 DEF EnterFeed, NoFind, Ahead
    <3>2. feeds \in FeedsType
      BY DEF IInv, Good
    <3>3. c \in feeds.self[l][p]
      <4>1. feeds.self[l][p] \subseteq Classes /\ feeds.selfNext[l][p] \in Classes \cup {NULL}
        BY <3>2 DEF FeedsType, Pointers
      <4> QED BY <3>1, <4>1, CurrentClass
    <3> HIDE DEF c
    <3>4. feeds'.selfNext[l][p] = c /\ feeds'.self = feeds.self
      BY <3>1, <3>2 DEF FeedsType
    <3> QED BY <3>1, <3>3, <3>4 DEF Pointing
  <2> QED BY <1>1, <2>1, <2>2 DEF Search
<1>2. CASE Descend
  <2>1. /\ pc = "descend" /\ pc' = "descend"
        /\ feeds' = [feeds EXCEPT !.innerNext[find.cl][find.prio] =
                       Current(feeds.inner[find.cl][find.prio], feeds.innerNext[find.cl][find.prio])]
        /\ \E d : find' = [find EXCEPT !.cl = d]
    BY <1>2 DEF Descend
  <2>2. feeds \in FeedsType /\ find \in SearchType
    BY <2>1 DEF IInv, Good, Cursor
  <2>3. feeds'.self = feeds.self /\ feeds'.selfNext = feeds.selfNext
    BY <2>1, <2>2 DEF FeedsType
  <2>4. find'.level = find.level /\ find'.prio = find.prio
    BY <2>1, <2>2 DEF SearchType
  <2> QED BY <2>1, <2>3, <2>4 DEF Pointing
<1>3. CASE TryLeaf
  <2>1. /\ pc = "descend" /\ Level[find.cl] = 0 /\ find.start = NULL
        /\ find.prio \in feeds.active[find.cl]
    BY <1>3 DEF TryLeaf, Selecting, Finding
  <2>2. qlen[find.cl] > 0
    BY <2>1 DEF IInv, Cursor, SearchType, Leaves, Selecting, Backlogged
  <2>3. /\ next'.level = find.level /\ next'.prio = find.prio
        /\ pc' = "schedule" /\ feeds' = feeds
    BY <1>3, <2>1, <2>2 DEF TryLeaf
  <2> QED BY <2>1, <2>3 DEF Pointing
<1>4. CASE Schedule \/ Tick \/ UNCHANGED vars
  <2>1. /\ UNCHANGED <<feeds, next>>
        /\ \/ UNCHANGED <<pc, find>>
           \/ pc = "schedule" /\ pc' = "idle"
    BY <1>4 DEF Schedule, Tick, vars, locals
  <2> QED BY <2>1 DEF Pointing
<1>5. CASE ~(Search \/ Descend \/ TryLeaf \/ Schedule \/ Tick \/ UNCHANGED vars)
  <2>1. pc' \in {"events", "charge", "search", "error"}
    <3>1. ASSUME NEW c \in Classes, DoEvent(c) PROVE pc' = "events"
      BY <3>1 DEF DoEvent
    <3>2. ASSUME ChargeClass PROVE pc' \in {"charge", "error"}
      BY <3>2 DEF ChargeClass, Throw
    <3> QED BY <1>5, <3>1, <3>2 DEF Next, Handler, Timer, Push, Pull, Remove, RemoveAll,
               EndCharge, EndEvents, Throw
  <2> QED BY <2>1 DEF Pointing
<1> QED BY <1>1, <1>2, <1>3, <1>4, <1>5

\* The lender of the leaf that was chosen is the next one of its self feed when
\* it is alone in it.
LEMMA NextPointed ==
  ASSUME IInv, Selecting, Pointing, pc = "idle", next # None
  PROVE  ~NotNext(feeds, mode, next.leaf, next.prio)
<1> DEFINE c == next.leaf
           p == next.prio
           l == next.level
<1>1. c \in Leaves /\ c \in Classes /\ p \in Prios /\ l \in Levels /\ Good(feeds, mode, NULL)
  BY LeafClass DEF IInv, LocalTypes, NextType
<1>2. /\ p \in feeds.active[c] /\ Lender(c, l)
      /\ feeds.selfNext[l][p] \in feeds.self[l][p]
  BY DEF Selecting, Chosen, Pointing
<1> HIDE DEF c, p, l
<1> SUFFICES ASSUME NEW d \in Climb(feeds, mode, c, p), mode[d] = Green,
                    Cardinality(feeds.self[Level[d]][p]) = 1,
                    feeds.selfNext[Level[d]][p] # d
             PROVE  FALSE
  BY DEF NotNext, c, p
<1>3. d \in Path[c] /\ d \in Classes /\ Path[c] \subseteq Classes
  BY <1>1, PathClosed DEF Climb
<1>4. PICK e \in Path[c] : Level[e] = l /\ mode[e] = Green
  BY <1>2 DEF Lender, Lends
<1>5. Level[d] = l
  <2>1. Level[d] \in Nat /\ Level[e] \in Nat
    BY <1>3, TreeAssumption
  <2>2. ~(Level[e] < Level[d])
    BY <1>2, <1>4 DEF Climb
  <2>3. ~(Level[d] < l)
    BY <1>2, <1>3 DEF Lender, Lends, Green, Yellow
  <2> QED BY <1>4, <2>1, <2>2, <2>3
<1>6. d \in Chain(mode, c)
  BY <1>2, <1>3, <1>5 DEF Lender, Lends, Chain
<1>7. d \in feeds.self[l][p]
  <2>1. p \in feeds.active[d]
    BY <1>1, <1>2, <1>6, ChainActive
  <2> QED BY <1>1, <1>3, <1>5, <2>1, NullIsNoClass DEF Good, Held, SelfFeeds
<1>8. feeds.self[l][p] \subseteq Classes
  BY <1>1 DEF Good, FeedsType
<1>9. IsFiniteSet(feeds.self[l][p])
  <2>1. IsFiniteSet(Classes)
    BY FS_Interval, TreeAssumption DEF Classes
  <2> QED BY <1>8, <2>1, FS_Subset
<1>10. PICK x : feeds.self[l][p] = {x}
  BY <1>5, <1>9, FS_Singleton
<1> QED BY <1>2, <1>5, <1>7, <1>10

\* No class alone in its self feed was to be charged without being the next one.
NextIsPointed == error # "not next to dequeue"

\* The check of htbChargeLeaf for a green class that is alone in its self feed
\* and is not the next one never fails, when the queues lose no packets.
THEOREM NeverNotNext == ASSUME ~CanRemove PROVE Spec => []NextIsPointed
<1>1. Init => Pointing /\ NextIsPointed
  BY DEF Init, Pointing, NextIsPointed
<1>2. ASSUME IInv, Selecting, Pointing, NextIsPointed, [Next]_vars PROVE NextIsPointed'
  <2>1. ASSUME NEW s \in Sizes, Pull(s) PROVE error' # "not next to dequeue"
    <3>1. pc = "idle" /\ next.leaf # NULL
      BY <2>1 DEF Pull, CanPull
    <3>2. ~NotNext(feeds, mode, next.leaf, next.prio)
      BY <1>2, <3>1, NoneIsNull, NextPointed
    <3> QED BY <1>2, <2>1, <3>2 DEF Pull, Throw, NextIsPointed
  <2>2. CASE ~ \E s \in Sizes : Pull(s)
    <3>1. error' \in {error, "already updated exactly now", "already waiting"}
      BY <1>2, <2>2 DEF Next, vars, Tick, Timer, Push, Remove, RemoveAll, Handler, ChargeClass,
         EndCharge, DoEvent, EndEvents, Search, Descend, TryLeaf, Schedule, Throw
    <3> QED BY <1>2, <3>1 DEF NextIsPointed
  <2> QED BY <2>1, <2>2 DEF NextIsPointed
<1>3. IInv /\ Selecting /\ Pointing /\ NextIsPointed /\ [Next]_vars => NextIsPointed'
  BY <1>2
<1> QED BY <1>1, <1>3, PointingKept, TimingInit, TimingKept, SelectingInit, SelectingKept,
       Invariant, PTL DEF Spec

(***************************************************************************)
(* The checks of the code.                                                 *)
(***************************************************************************)

\* A class is charged at most once in a unit of time.
Aged ==
  /\ ~linkBusy => \A c \in Classes : age[c] > 0
  /\ pc = "charge" => linkBusy
  /\ pc = "charge" /\ charge.cl # NULL => \A d \in Path[charge.cl] : age[d] > 0

ChargedOnce == error # "already updated exactly now"

LEMMA AgedKept == IInv /\ Aged /\ ChargedOnce /\ [Next]_vars => Aged' /\ ChargedOnce'
<1> SUFFICES ASSUME IInv, Aged, ChargedOnce, [Next]_vars PROVE Aged' /\ ChargedOnce'
  OBVIOUS
<1>0. age \in [Classes -> Nat] /\ linkBusy \in BOOLEAN
  BY DEF IInv, BucketTypes, FlowTypes
<1>1. CASE Tick
  <2>1. /\ age' = [c \in Classes |-> Lesser(age[c] + 1, MBuffer[c])]
        /\ UNCHANGED <<charge, error>> /\ pc' = "idle"
    BY <1>1 DEF Tick, locals
  <2>2. ASSUME NEW c \in Classes PROVE age'[c] > 0
    <3>1. age[c] \in Nat /\ MBuffer[c] \in Nat \ {0}
      BY <1>0, NumberAssumption
    <3> QED BY <2>1, <3>1 DEF Lesser
  <2> QED BY <2>1, <2>2 DEF Aged, ChargedOnce
<1>2. ASSUME NEW s \in Sizes, Pull(s) PROVE Aged' /\ ChargedOnce'
  <2>1. ~linkBusy /\ linkBusy' = TRUE /\ age' = age /\ next.leaf # NULL
    BY <1>2 DEF Pull, buckets, CanPull
  <2>4. \/ pc' = "error" /\ error' \in {"negative deficit", "not next to dequeue"}
        \/ charge' = [cl |-> next.leaf, size |-> s] /\ error' = error
    BY <1>2 DEF Pull, Throw
  <2>2. next.leaf \in Classes
    BY <2>1, NoneIsNull, LeafClass DEF IInv, LocalTypes, NextType
  <2>3. \A d \in Path[next.leaf] : age[d] > 0
    BY <2>1, <2>2, PathClosed DEF Aged
  <2>5. ChargedOnce'
    BY <2>4 DEF ChargedOnce
  <2>6. pc' = "charge" => charge'.cl = next.leaf
    BY <2>4
  <2> QED BY <2>1, <2>3, <2>5, <2>6 DEF Aged
<1>3. CASE ChargeClass
  <2> DEFINE c == charge.cl
  <2>1. pc = "charge" /\ c # NULL /\ c \in Classes /\ charge \in [cl : Pointers, size : Sizes]
    BY <1>3 DEF IInv, ChargeClass, Charging, Pointers
  <2>2. linkBusy' = linkBusy /\ age[c] > 0
    BY <1>3, <2>1, PathClosed DEF ChargeClass, Aged
  <2>3. /\ charge' = [charge EXCEPT !.cl = Parent[c]]
        /\ age' = [age EXCEPT ![c] = 0]
        /\ error' \in {error, "already waiting"}
    <3>1. age[c] # 0
      BY <2>2
    <3> QED BY <1>3, <3>1 DEF ChargeClass, Throw
  <2>4. charge'.cl = Parent[c]
    BY <2>1, <2>3
  <2>5. ASSUME Parent[c] # NULL, NEW d \in Path[Parent[c]] PROVE age'[d] > 0
    <3>1. c # Root
      BY <2>1, <2>5, TreeAssumption
    <3>2. d \in Path[c] \ {c} /\ d \in Classes
      BY <2>1, <2>5, <3>1, PathParent, PathClosed
    <3> HIDE DEF c
    <3>3. age'[d] = age[d]
      BY <1>0, <2>3, <3>2
    <3> QED BY <2>1, <3>2, <3>3 DEF Aged, c
  <2>6. linkBusy
    BY <1>3, <2>1 DEF Aged
  <2> QED BY <2>2, <2>3, <2>4, <2>5, <2>6 DEF Aged, ChargedOnce
<1>4. CASE ~(Tick \/ ChargeClass \/ \E s \in Sizes : Pull(s))
  <2>1. /\ UNCHANGED <<age, linkBusy>> /\ error' \in {error, "already waiting"}
        /\ pc' = "charge" => pc = "charge" /\ charge' = charge
    <3>1. ASSUME NEW c \in Classes, DoEvent(c)
          PROVE  UNCHANGED <<age, linkBusy, error>> /\ pc' # "charge"
      BY <3>1 DEF DoEvent, buckets
    <3> QED BY <1>4, <3>1 DEF Next, vars, locals, buckets, Timer, Push, Remove, RemoveAll, Handler,
            EndCharge, EndEvents, Search, EnterFeed, Descend, TryLeaf, Schedule, Throw
  <2> QED BY <2>1 DEF Aged, ChargedOnce
<1> QED BY <1>1, <1>2, <1>3, <1>4

\* None of the checks of the code fails: when a quantum covers a packet with its
\* header, time has passed since initialize(), and the queues lose no packets.
THEOREM NeverFails ==
  ASSUME ~CanRemove, QuantumCovers, InitialAge > 0 PROVE Spec => []NoError
<1>1. Init => Aged /\ ChargedOnce
  <2> SUFFICES ASSUME Init, NEW c \in Classes PROVE age[c] > 0
    BY NoneIsNull DEF Init, Aged, ChargedOnce
  <2>1. MBuffer[c] \in Nat \ {0} /\ InitialAge \in Nat
    BY NumberAssumption
  <2> QED BY <2>1 DEF Init, Lesser
<1>2. IInv /\ DeficitNotNegative /\ NextIsPointed /\ WaitsOnce /\ ChargedOnce => NoError
  BY DEF IInv, FlowTypes, DeficitNotNegative, NextIsPointed, WaitsOnce, ChargedOnce, NoError
<1>3. Spec => []DeficitNotNegative /\ []NextIsPointed
  BY QuantumSuffices, NeverNotNext
<1> QED BY <1>1, <1>2, <1>3, AgedKept, NeverWaitsTwice, Invariant, PTL DEF Spec

(***************************************************************************)
(* Without hysteresis, HtbScheduler implements HtbPolicy: the mapping of   *)
(* HtbRefinement takes every step to a step of the policy or to none.      *)
(***************************************************************************)

\* The policy's path is the path of chargeClass.
LEMMA AboveIsPath == ASSUME NEW c \in Classes PROVE Policy!Above(c) = Path[c]
BY DEF Policy!Above, Path

LEMMA PathSplit ==
  ASSUME NEW c \in Classes
  PROVE  /\ Parent[c] = NULL => Path[c] = {c}
         /\ Parent[c] # NULL => /\ Parent[c] \in Classes
                                /\ Path[Parent[c]] = Path[c] \ {c}
<1>1. c \in Path[c]
  BY PathClosed
<1>2. CASE c = Root
  BY <1>1, <1>2, PathStep, TreeAssumption
<1>3. CASE c # Root
  <2>1. Parent[c] # NULL
    BY <1>3, TreeAssumption
  <2>2. Parent[c] \in Classes /\ Path[Parent[c]] \subseteq Path[c] \ {c}
    BY <1>3, PathParent
  <2>3. Path[c] \ {c} \subseteq Path[Parent[c]]
    BY PathStep
  <2> QED BY <2>1, <2>2, <2>3
<1> QED BY <1>2, <1>3

\* chargeClass has classes left to charge only while it runs.
Calm == pc \notin {"charge", "error"} => charge.cl = NULL

LEMMA CalmKept == Calm /\ [Next]_vars => Calm'
<1> SUFFICES ASSUME Calm, [Next]_vars PROVE Calm'
  OBVIOUS
<1>1. CASE (\E s \in Sizes : Pull(s)) \/ ChargeClass
  <2>1. pc' \in {"charge", "error"}
    BY <1>1 DEF Pull, ChargeClass, Throw
  <2> QED BY <2>1 DEF Calm
<1>2. CASE EndCharge
  BY <1>2, NoneIsNull DEF EndCharge, Calm
<1>3. CASE ~((\E s \in Sizes : Pull(s)) \/ ChargeClass \/ EndCharge)
  <2>1. charge' = charge /\ (pc \in {"charge", "error"} => pc' = pc)
    BY <1>3 DEF Next, vars, locals, Tick, Timer, Push, Remove, RemoveAll, Handler,
       DoEvent, EndEvents, Search, EnterFeed, Descend, TryLeaf, Schedule
  <2> QED BY <2>1 DEF Calm
<1> QED BY <1>1, <1>2, <1>3

\* What the policy sees is what is stored, when nothing is left to charge.
LEMMA BarsCalm ==
  ASSUME IInv, charge.cl = NULL
  PROVE  TokensBar = tokens /\ CTokensBar = ctokens /\ AgeBar = age
BY DEF TokensBar, CTokensBar, AgeBar, Uncharged, IInv, BucketTypes

\* A step of a handler that the policy does not see.
LEMMA Stutters ==
  ASSUME pc # "idle", pc' # "idle", UNCHANGED <<TokensBar, CTokensBar, AgeBar, qlen, linkBusy>>
  PROVE  UNCHANGED Policy!vars
BY DEF Policy!vars, ChoiceBar

\* Without hysteresis the mode is the sign of the buckets.
LEMMA PolicyModes ==
  ASSUME ~Hysteresis, IInv, charge.cl = NULL, NEW c \in Classes
  PROVE  /\ Policy!InRate(c) <=> ModeNow[c] = Green
         /\ Policy!MayBorrow(c) <=> ModeNow[c] = Yellow
<1>1. TokensBar = tokens /\ CTokensBar = ctokens /\ AgeBar = age
  BY BarsCalm
<1>2. /\ tokens[c] \in Int /\ ctokens[c] \in Int /\ age[c] \in Nat /\ mode[c] \in Modes
      /\ ModeNow[c] = ClassMode(c, mode[c], tokens[c], ctokens[c], age[c])
  BY DEF IInv, BucketTypes, ModeNow
<1>3. Lowater(c, mode[c]) = 0 /\ Hiwater(c, mode[c]) = 0
  BY DEF Lowater, Hiwater
<1>4. Green # Red /\ Yellow # Red /\ Yellow # Green
  BY DEF Green, Yellow, Red
<1>5. /\ Policy!InRate(c) <=> ctokens[c] + age[c] >= 0 /\ tokens[c] + age[c] >= 0
      /\ Policy!MayBorrow(c) <=> ctokens[c] + age[c] >= 0 /\ tokens[c] + age[c] < 0
  BY <1>1 DEF Policy!InRate, Policy!MayBorrow
<1> QED BY <1>2, <1>3, <1>4, <1>5 DEF ClassMode

\* Who can pay for a leaf: the green class its chain ends at.
LEMMA PolicyPays ==
  ASSUME ~Hysteresis, IInv, charge.cl = NULL, NEW c \in Leaves, NEW d \in Classes
  PROVE  Policy!CanPay(d, c) <=> d \in Chain(ModeNow, c) /\ ModeNow[d] = Green
<1>1. c \in Classes /\ Path[c] \subseteq Classes /\ Policy!Above(c) = Path[c]
  BY LeafClass, PathClosed, AboveIsPath
<1>2. Policy!CanPay(d, c) <=>
        /\ ModeNow[d] = Green /\ d \in Path[c]
        /\ \A e \in Path[c] : Level[e] < Level[d] => ModeNow[e] = Yellow
  BY <1>1, PolicyModes DEF Policy!CanPay
<1> QED BY <1>2 DEF Chain

\* What is chosen is one of the choices of the policy.
LEMMA ChoosesWell ==
  ASSUME ~Hysteresis, IInv, Timing, Selecting, Fresh, charge.cl = NULL
  PROVE  next \in Policy!Choices
<1>1. /\ IF Able = {} THEN next = None
         ELSE /\ next.leaf \in Able
              /\ <<next.level, next.prio>> \in Slots(next.leaf)
              /\ \A c \in Able : \A s \in Slots(c) :
                   \/ next.level < s[1]
                   \/ next.level = s[1] /\ next.prio <= s[2]
  BY SelectionMeans
<1>2. \A w : w \in Policy!Ways <=>
        /\ w \in [leaf : {c \in Leaves : qlen[c] > 0}, lender : Classes]
        /\ w.lender \in Chain(ModeNow, w.leaf) /\ ModeNow[w.lender] = Green
  BY PolicyPays DEF Policy!Ways
<1>3. ASSUME NEW w \in Policy!Ways
      PROVE  w.leaf \in Able /\ <<Level[w.lender], LeafPrio[w.leaf]>> \in Slots(w.leaf)
  <2>1. /\ w.leaf \in Leaves /\ qlen[w.leaf] > 0
        /\ w.lender \in Chain(ModeNow, w.leaf) /\ ModeNow[w.lender] = Green
    BY <1>2
  <2>2. <<Level[w.lender], LeafPrio[w.leaf]>> \in Slots(w.leaf)
    BY <2>1 DEF Slots
  <2> QED BY <2>1, <2>2 DEF Able
<1>4. CASE Able = {}
  <2>1. Policy!Best = {}
    BY <1>3, <1>4 DEF Policy!Best
  <2> QED BY <1>1, <1>4, <2>1 DEF Policy!Choices, Policy!None, None
<1>5. CASE Able # {}
  <2> DEFINE c == next.leaf
  <2>1. /\ c \in Leaves /\ qlen[c] > 0 /\ <<next.level, next.prio>> \in Slots(c)
    BY <1>1, <1>5 DEF Able
  <2>2. next # None /\ next \in NextType
    <3>1. next # None
      BY <2>1, NoneIsNull, NullIsNoClass DEF Leaves
    <3> QED BY <3>1 DEF IInv, LocalTypes
  <2>3. PICK d \in Chain(ModeNow, c) : /\ ModeNow[d] = Green
                                       /\ next.level = Level[d] /\ next.prio = LeafPrio[c]
    BY <2>1 DEF Slots
  <2> DEFINE w == [leaf |-> c, lender |-> d]
  <2>4. w \in Policy!Ways
    <3>1. d \in Classes
      BY <2>1, <2>3, LeafClass, ChainClimbs
    <3> QED BY <1>2, <2>1, <2>3, <3>1
  <2>5. ASSUME NEW v \in Policy!Ways PROVE ~Policy!Better(v, w)
    <3>1. \/ next.level < Level[v.lender]
          \/ next.level = Level[v.lender] /\ next.prio <= LeafPrio[v.leaf]
      <4>1. v.leaf \in Able /\ <<Level[v.lender], LeafPrio[v.leaf]>> \in Slots(v.leaf)
        BY <1>3
      <4> HIDE DEF c, w
      <4> QED BY <1>1, <1>5, <4>1
    <3>2. /\ Level[v.lender] \in Nat /\ LeafPrio[v.leaf] \in Nat
          /\ next.level \in Nat /\ next.prio \in Nat
      <4>1. v.lender \in Classes /\ v.leaf \in Leaves
        BY <1>2
      <4>2. Levels \subseteq Nat /\ Prios \subseteq Nat
        BY TreeAssumption DEF Levels
      <4> QED BY <2>2, <4>1, <4>2, TreeAssumption DEF NextType
    <3> QED BY <2>3, <3>1, <3>2 DEF Policy!Better
  <2>6. w \in Policy!Best
    BY <2>4, <2>5 DEF Policy!Best
  <2>7. next = [leaf |-> w.leaf, level |-> Level[w.lender], prio |-> LeafPrio[w.leaf]]
    BY <2>2, <2>3 DEF NextType
  <2> HIDE DEF w, c
  <2> QED BY <2>6, <2>7 DEF Policy!Choices
<1> QED BY <1>4, <1>5

LEMMA BarsCalmNext ==
  ASSUME IInv', charge'.cl = NULL
  PROVE  TokensBar' = tokens' /\ CTokensBar' = ctokens' /\ AgeBar' = age'
BY DEF TokensBar, CTokensBar, AgeBar, Uncharged, IInv, BucketTypes

LEMMA InitRefines == Init => Policy!Init
<1> SUFFICES ASSUME Init PROVE Policy!Init
  OBVIOUS
<1>1. TokensBar = tokens /\ CTokensBar = ctokens /\ AgeBar = age
  BY InitHolds, BarsCalm, NoneIsNull DEF Init
<1> QED BY <1>1 DEF Init, Policy!Init, ChoiceBar, None, Policy!None, Lesser, Policy!Capped

\* The clock moves only when the choice is a best one.
LEMMA TickRefines ==
  ASSUME ~Hysteresis, IInv, IInv', Timing, Selecting, Calm, Tick PROVE Policy!Elapse
<1>1. /\ UNCHANGED <<pc, tokens, ctokens, next, charge, qlen>> /\ linkBusy' = FALSE
      /\ pc = "idle" /\ timer # 0
      /\ age' = [c \in Classes |-> Lesser(age[c] + 1, MBuffer[c])]
  BY DEF Tick, locals
<1>2. charge.cl = NULL
  BY <1>1 DEF Calm
<1>3. /\ TokensBar = tokens /\ CTokensBar = ctokens /\ AgeBar = age
      /\ TokensBar' = tokens' /\ CTokensBar' = ctokens' /\ AgeBar' = age'
  BY <1>1, <1>2, BarsCalm, BarsCalmNext
<1>4. ChoiceBar \in Policy!Choices /\ ChoiceBar' = ChoiceBar
  BY <1>1, <1>2, ChoosesWell DEF Fresh, ChoiceBar
<1> QED BY <1>1, <1>3, <1>4 DEF Policy!Elapse, Policy!Capped, Lesser

\* A push and the timer make the choice open.
LEMMA EventRefines ==
  ASSUME IInv, IInv', Calm
  PROVE  /\ Timer => Policy!Reconsider
         /\ \A c \in Leaves : Push(c) => Policy!Arrive(c)
<1>1. ASSUME Timer \/ \E c \in Leaves : Push(c)
      PROVE  /\ TokensBar' = TokensBar /\ CTokensBar' = CTokensBar /\ AgeBar' = AgeBar
             /\ ChoiceBar' = Searching /\ linkBusy' = linkBusy
  <2>1. /\ UNCHANGED <<tokens, ctokens, age, charge, linkBusy>>
        /\ pc = "idle" /\ pc' \in {"events", "error"}
    BY <1>1 DEF Timer, Push, Throw, locals, buckets
  <2>2. charge.cl = NULL
    BY <2>1 DEF Calm
  <2> QED BY <2>1, <2>2, BarsCalm, BarsCalmNext DEF ChoiceBar
<1>2. Timer => Policy!Reconsider
  BY <1>1 DEF Timer, Policy!Reconsider
<1>3. ASSUME NEW c \in Leaves, Push(c) PROVE Policy!Arrive(c)
  BY <1>1, <1>3 DEF Push, Policy!Arrive, Policy!Capped, Lesser
<1> QED BY <1>2, <1>3

\* A pull serves the choice: everything it costs is charged in the policy.
LEMMA PullRefines ==
  ASSUME IInv, Selecting, Pointing, Calm, DeficitNotNegative', NEW s \in Sizes, Pull(s)
  PROVE  Policy!Serve(s)
<1> DEFINE c == next.leaf
<1>1. /\ pc = "idle" /\ linkBusy = FALSE /\ c # NULL /\ qlen[c] > 0
      /\ qlen' = [qlen EXCEPT ![c] = @ - 1] /\ linkBusy' = TRUE
      /\ UNCHANGED <<tokens, ctokens, age, next>>
      /\ error' = "negative deficit" \/ NotNext(feeds, mode, c, next.prio)
         \/ (pc' = "charge" /\ charge' = [cl |-> c, size |-> s])
  BY DEF Pull, CanPull, Throw, buckets, IInv, FlowTypes
<1>2. next # None /\ next # Searching /\ next \in NextType
  <2>1. next # None /\ next # Searching
    <3>1. None.leaf = NULL /\ Searching.leaf = NULL
      BY DEF None, Searching
    <3> QED BY <1>1, <3>1
  <2> QED BY <2>1 DEF IInv, LocalTypes
<1>3. c \in Leaves /\ c \in Classes
  BY <1>2, LeafClass DEF NextType
<1>4. pc' = "charge" /\ charge' = [cl |-> c, size |-> s]
  <2>1. error' # "negative deficit"
    BY DEF DeficitNotNegative
  <2>2. ~NotNext(feeds, mode, c, next.prio)
    BY <1>1, <1>2, NextPointed
  <2> QED BY <1>1, <2>1, <2>2
<1>5. charge.cl = NULL /\ ChoiceBar = next /\ ChoiceBar' = Searching
  BY <1>1, <1>4 DEF Calm, ChoiceBar
<1>6. TokensBar = tokens /\ CTokensBar = ctokens /\ AgeBar = age
  BY <1>5, BarsCalm
<1>7. Uncharged' = Path[c] /\ Policy!Above(c) = Path[c]
  BY <1>1, <1>3, <1>4, AboveIsPath DEF Uncharged
<1>8. next' = next /\ charge'.size = s
  BY <1>1, <1>4
<1> HIDE DEF c
<1>9. TokensBar' = [d \in Classes |->
                      IF d \notin Path[c] THEN tokens[d]
                      ELSE IF Level[d] < next.level THEN tokens[d] + age[d]
                      ELSE Account(tokens[d], age[d], Burst[d], Cost[d][s], MBuffer[d])]
  BY <1>1, <1>7, <1>8 DEF TokensBar
<1>10. /\ CTokensBar' = [d \in Classes |->
                           IF d \notin Path[c] THEN ctokens[d]
                           ELSE Account(ctokens[d], age[d], CBurst[d], CCost[d][s], MBuffer[d])]
       /\ AgeBar' = [d \in Classes |-> IF d \in Path[c] THEN 0 ELSE age[d]]
  BY <1>1, <1>7, <1>8 DEF CTokensBar, AgeBar
<1>11. \A tok, diff, burst, cost, mbuffer :
         Account(tok, diff, burst, cost, mbuffer) = Policy!Spend(tok, diff, burst, cost, mbuffer)
  BY DEF Account, Policy!Spend, Lesser, Policy!Capped
<1>12. ChoiceBar.leaf = c /\ ChoiceBar.level = next.level
  BY <1>5 DEF c
<1>13. ChoiceBar \notin {Policy!None, Searching}
  BY <1>2, <1>5 DEF None, Policy!None
<1> QED BY <1>1, <1>5, <1>6, <1>7, <1>9, <1>10, <1>11, <1>12, <1>13 DEF Policy!Serve

\* A class that chargeClass comes to was charged in the policy already.
LEMMA ChargeRefines == ASSUME IInv, ChargeClass PROVE UNCHANGED Policy!vars
<1> DEFINE c     == charge.cl
           s     == charge.size
           spent == Account(tokens[c], age[c], Burst[c], Cost[c][s], MBuffer[c])
           tok   == IF Level[c] >= next.level THEN spent ELSE tokens[c] + age[c]
           ctok  == Account(ctokens[c], age[c], CBurst[c], CCost[c][s], MBuffer[c])
<1>1. /\ BucketTypes /\ pc = "charge" /\ c # NULL /\ c \in Classes
      /\ pc' \in {"charge", "error"} /\ UNCHANGED <<next, qlen, linkBusy>>
      /\ next.level \in Levels /\ charge \in [cl : Pointers, size : Sizes]
  BY DEF IInv, Charging, ChargeClass, Pointers, Throw, NextType
<1>2. CASE age[c] = 0
  <2>1. UNCHANGED <<tokens, ctokens, age, charge>>
    BY <1>2 DEF ChargeClass, buckets
  <2> QED BY <1>1, <2>1, Stutters DEF TokensBar, CTokensBar, AgeBar, Uncharged
<1>3. CASE age[c] # 0
  <2>1. /\ tokens' = [tokens EXCEPT ![c] = tok]
        /\ ctokens' = [ctokens EXCEPT ![c] = ctok]
        /\ age' = [age EXCEPT ![c] = 0]
        /\ charge' = [charge EXCEPT !.cl = Parent[c]]
    BY <1>3 DEF ChargeClass
  <2>2. charge'.cl = Parent[c] /\ charge'.size = s
    BY <1>1, <2>1
  <2>3. Uncharged = Path[c] /\ c \in Path[c]
    BY <1>1, PathClosed DEF Uncharged
  <2>4. Uncharged' = Path[c] \ {c}
    <3>1. IF Parent[c] = NULL THEN Path[c] = {c} ELSE Path[Parent[c]] = Path[c] \ {c}
      BY <1>1, PathSplit
    <3> QED BY <2>2, <3>1 DEF Uncharged
  <2>5. Level[c] < next.level <=> ~(Level[c] >= next.level)
    <3>1. Levels \subseteq Nat /\ Level[c] \in Nat
      BY <1>1, TreeAssumption DEF Levels
    <3>2. next.level \in Nat
      BY <1>1, <3>1
    <3> QED BY <3>1, <3>2
  <2>6. tok = IF Level[c] < next.level THEN tokens[c] + age[c] ELSE spent
    <3> HIDE DEF spent, c
    <3> QED BY <2>5
  <2>7. next' = next
    BY <1>1
  <2> HIDE DEF c, tok, ctok
  <2>8. /\ tokens'[c] = tok /\ ctokens'[c] = ctok /\ age'[c] = 0
        /\ \A d \in Classes \ {c} :
             tokens'[d] = tokens[d] /\ ctokens'[d] = ctokens[d] /\ age'[d] = age[d]
    BY <1>1, <2>1 DEF BucketTypes
  <2>9. TokensBar' = TokensBar
    <3> SUFFICES ASSUME NEW d \in Classes
                 PROVE  (IF d \notin Path[c] \ {c} THEN tokens'[d]
                         ELSE IF Level[d] < next.level THEN tokens'[d] + age'[d]
                         ELSE Account(tokens'[d], age'[d], Burst[d], Cost[d][s], MBuffer[d]))
                          = IF d \notin Path[c] THEN tokens[d]
                            ELSE IF Level[d] < next.level THEN tokens[d] + age[d]
                            ELSE Account(tokens[d], age[d], Burst[d], Cost[d][s], MBuffer[d])
      BY <2>2, <2>3, <2>4, <2>7 DEF TokensBar
    <3>1. CASE d = c
      BY <2>3, <2>6, <2>8, <3>1
    <3>2. CASE d # c
      BY <2>8, <3>2
    <3> QED BY <3>1, <3>2
  <2>10. CTokensBar' = CTokensBar
    <3> SUFFICES ASSUME NEW d \in Classes
                 PROVE  (IF d \notin Path[c] \ {c} THEN ctokens'[d]
                         ELSE Account(ctokens'[d], age'[d], CBurst[d], CCost[d][s], MBuffer[d]))
                          = IF d \notin Path[c] THEN ctokens[d]
                            ELSE Account(ctokens[d], age[d], CBurst[d], CCost[d][s], MBuffer[d])
      BY <2>2, <2>3, <2>4 DEF CTokensBar
    <3>1. CASE d = c
      BY <2>3, <2>8, <3>1 DEF ctok
    <3>2. CASE d # c
      BY <2>8, <3>2
    <3> QED BY <3>1, <3>2
  <2>11. AgeBar' = AgeBar
    BY <2>3, <2>4, <2>8 DEF AgeBar
  <2> QED BY <1>1, <2>9, <2>10, <2>11, Stutters
<1> QED BY <1>2, <1>3

\* The rest of a handler is the policy's looking for a leaf.
LEMMA HandlerRefines ==
  ASSUME IInv, IInv', Calm, Calm',
         EndCharge \/ (\E c \in Classes : DoEvent(c)) \/ EndEvents \/ Search \/ Descend \/ TryLeaf
  PROVE  UNCHANGED Policy!vars
<1>1. /\ UNCHANGED <<tokens, ctokens, age, qlen, linkBusy>>
      /\ pc # "idle" /\ pc' \in {"events", "search", "descend", "schedule"}
      /\ (pc = "charge" => charge.cl = NULL) /\ pc # "error"
  BY DEF EndCharge, DoEvent, EndEvents, Search, EnterFeed, Descend, TryLeaf, buckets
<1>2. charge.cl = NULL /\ charge'.cl = NULL
  BY <1>1 DEF Calm
<1> QED BY <1>1, <1>2, BarsCalm, BarsCalmNext, Stutters

LEMMA ScheduleRefines ==
  ASSUME ~Hysteresis, IInv, IInv', Timing, Selecting, Calm, Schedule PROVE Policy!Choose
<1>1. /\ UNCHANGED <<tokens, ctokens, age, qlen, linkBusy, next, charge>>
      /\ pc = "schedule" /\ pc' = "idle"
  BY DEF Schedule, buckets
<1>2. charge.cl = NULL
  BY <1>1 DEF Calm
<1>3. /\ TokensBar' = TokensBar /\ CTokensBar' = CTokensBar /\ AgeBar' = AgeBar
  BY <1>1, <1>2, BarsCalm, BarsCalmNext
<1>4. next \in Policy!Choices
  BY <1>1, <1>2, ChoosesWell DEF Fresh
<1>5. ChoiceBar = Searching /\ ChoiceBar' = next
  BY <1>1 DEF ChoiceBar
<1> QED BY <1>1, <1>3, <1>4, <1>5 DEF Policy!Choose

LEMMA StepRefines ==
  ASSUME ~Hysteresis, ~CanRemove
  PROVE  IInv /\ IInv' /\ Timing /\ Selecting /\ Pointing /\ Calm /\ Calm' /\ DeficitNotNegative'
           /\ [Next]_vars => [Policy!Next]_(Policy!vars)
<1> SUFFICES ASSUME IInv, IInv', Timing, Selecting, Pointing, Calm, Calm', DeficitNotNegative',
                    [Next]_vars
             PROVE  Policy!Next \/ UNCHANGED Policy!vars
  OBVIOUS
<1>1. CASE Tick
  BY <1>1, TickRefines DEF Policy!Next
<1>2. CASE Timer \/ \E c \in Leaves : Push(c)
  BY <1>2, EventRefines DEF Policy!Next
<1>3. ASSUME NEW s \in Sizes, Pull(s) PROVE Policy!Next
  BY <1>3, PullRefines DEF Policy!Next
<1>4. CASE Schedule
  BY <1>4, ScheduleRefines DEF Policy!Next
<1>5. CASE UNCHANGED vars
  BY <1>5 DEF vars, Policy!vars, TokensBar, CTokensBar, AgeBar, ChoiceBar, Uncharged
<1>6. ~RemoveAll /\ ~ \E c \in Leaves : Remove(c)
  BY DEF RemoveAll, Remove
<1> QED BY <1>1, <1>2, <1>3, <1>4, <1>5, <1>6, ChargeRefines, HandlerRefines DEF Next, Handler

\* The scheduler implements the policy, for every tree and all rates, bursts
\* and packets: without hysteresis, when a quantum covers a packet with its
\* header and no packet leaves the queues but through the scheduler.
THEOREM PolicyImplemented ==
  ASSUME ~Hysteresis, ~CanRemove, QuantumCovers PROVE Spec => ImplementsPolicy
<1>1. Init => Pointing /\ Calm
  BY NoneIsNull DEF Init, Pointing, Calm
<1>2. Spec => []DeficitNotNegative
  BY QuantumSuffices
<1>3. IInv /\ IInv' /\ Timing /\ Selecting /\ Pointing /\ Calm /\ Calm' /\ DeficitNotNegative'
        /\ [Next]_vars => [Policy!Next]_(Policy!vars)
  BY StepRefines
<1>4. Spec => []IInv /\ [](Timing /\ Selecting /\ Pointing /\ Calm)
  BY <1>1, TimingInit, TimingKept, SelectingInit, SelectingKept, PointingKept, CalmKept,
     Invariant, PTL DEF Spec
<1> QED BY <1>2, <1>3, <1>4, InitRefines, PTL DEF Spec, ImplementsPolicy, Policy!Spec
=============================================================================
