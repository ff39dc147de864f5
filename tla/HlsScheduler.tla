---------------------------- MODULE HlsScheduler ----------------------------
(***************************************************************************)
(* The hierarchical link sharing scheduler of                              *)
(* src/inetgpl/queueing/scheduler/HlsScheduler.{h,cc}, with one packet     *)
(* queue for every leaf class in front of it and the interface that pulls  *)
(* from it, as in HlsQueue.ned.                                            *)
(*                                                                         *)
(* Quota is the money of a tree of classes: it is handed down from the     *)
(* root in fair shares, once a round, and a leaf that sends pays it back   *)
(* to the root.  A handler runs to its end before the next one starts; pc  *)
(* says which of its loops or recursions it is in, and the environment     *)
(* moves only while pc = "idle".                                           *)
(*                                                                         *)
(* The list roundRobin is circular and holds the busy leaves and the round *)
(* marker -1.  Here it is cut at the marker and at currentPointer: ahead   *)
(* is the part from currentPointer to the marker, behind the part from the *)
(* marker to currentPointer, which therefore points at the marker when     *)
(* ahead is empty.                                                         *)
(***************************************************************************)
EXTENDS Integers, FiniteSets, SequencesExt, Sums

CONSTANTS
  NumClasses,   \* classes are numbered in the order of the configuration
  Parent,       \* Parent[c]; NULL for the root
  Weight,       \* Weight[c]: the share of c among its siblings
  LeafMtu,      \* LeafMtu[c]: the mtu of a leaf
  Sizes,        \* the lengths of packets
  PhyHeader,    \* phyHeaderSize
  MaxQueue,     \* the capacity of a packet queue
  CanRemove     \* whether packets may be removed from the queues

NULL    == 0
Classes == 1..NumClasses
Root    == 1
Inners  == {Parent[c] : c \in Classes} \ {NULL}
Leaves  == Classes \ Inners

\* A tree with its root first and parents before their children, in which
\* every class but the root has a weight.
ASSUME TreeAssumption ==
  /\ NumClasses \in Nat \ {0}
  /\ Parent \in [Classes -> Classes \cup {NULL}]
  /\ \A c \in Classes : IF c = Root THEN Parent[c] = NULL ELSE Parent[c] \in 1..c-1
  /\ Root \in Inners

ASSUME NumberAssumption ==
  /\ Weight \in [Classes -> Nat]
  /\ \A c \in Classes \ {Root} : Weight[c] > 0
  /\ LeafMtu \in [Leaves -> Nat]
  /\ Sizes \subseteq Nat \ {0}
  /\ PhyHeader \in Nat
  /\ MaxQueue \in Nat \ {0}
  /\ CanRemove \in BOOLEAN
-----------------------------------------------------------------------------
VARIABLES
  pc,          \* the loop or recursion the handler is in; "idle" for none
  at,          \* the class hlsSetBusy or hlsSetIdle is at
  quota,       \* the balance of a class
  fairShare,   \* the share for one unit of weight of a busy child
  busyWeight,  \* busyChildrenWeight
  isBusy,
  numBusy,     \* numBusyClasses
  fresh,       \* lastUpdatedRound = currentRound
  ahead,       \* roundRobin from currentPointer to the marker
  behind,      \* roundRobin from the marker to currentPointer
  roundSize,
  next,        \* nextIndex: the leaf of the next pull
  queue,       \* the packets of a leaf, by their lengths
  error        \* the error that ended the simulation, or "none"

money == <<quota, fairShare, roundSize>>
tree  == <<busyWeight, isBusy, numBusy>>
round == <<fresh, ahead, behind>>
vars  == <<pc, at, money, tree, round, next, queue, error>>

\* Path[c]: c and the classes above it, the least set closed under Parent.
Path ==
  [c \in Classes |->
     {d \in Classes :
        \A S \in SUBSET Classes :
          (c \in S /\ \A x \in S : Parent[x] # NULL => Parent[x] \in S)
            => d \in S}]

\* The classes a recursion visits that starts at c, goes on to the parent,
\* and stops at the first class that is not in S.
Climb(c, S) == {x \in Path[c] : \A e \in Path[c] : x \in Path[e] => e \in S}

\* The class of a climb, given as a set, that lies above the others.
IsTop(d, C) == d \in C /\ Parent[d] \notin C

Idle  == {c \in Classes : ~isBusy[c]}
Stale == {c \in Classes : ~fresh[c]}
Listed == Range(ahead) \cup Range(behind)

Init ==
  /\ pc = "idle" /\ at = NULL
  /\ roundSize = Sum(Weight, Classes)
  /\ quota = [c \in Classes |-> IF c = Root THEN roundSize ELSE 0]
  /\ fairShare = [c \in Classes |-> 0]
  /\ busyWeight = [c \in Classes |-> 0]
  /\ isBusy = [c \in Classes |-> FALSE]
  /\ numBusy = 0
  /\ fresh = [c \in Classes |-> TRUE]
  /\ ahead = <<>> /\ behind = <<>>
  /\ next = NULL
  /\ queue = [c \in Leaves |-> <<>>]
  /\ error = "none"

\* A cRuntimeError or a failed ASSERT ends the simulation.
Throw(what) == pc' = "error" /\ error' = what
-----------------------------------------------------------------------------
(* The environment.                                                        *)

\* A packet is pushed into the queue of a leaf (a full queue drops it, the
\* signal is emitted all the same): receiveSignal, hlsEnqueue.
Push(c, s) ==
  /\ pc = "idle"
  /\ queue' = [queue EXCEPT ![c] = IF Len(@) < MaxQueue THEN Append(@, s) ELSE @]
  /\ IF isBusy[c] THEN pc' = "find" /\ UNCHANGED at
     ELSE pc' = "busy" /\ at' = c
  /\ UNCHANGED <<money, tree, round, next, error>>

\* removePacket, and the dropper of a compound queue: any packet may go.
RemovePacket(c, i) ==
  /\ pc = "idle" /\ CanRemove
  /\ queue' = [queue EXCEPT ![c] = RemoveAt(@, i)]
  /\ UNCHANGED <<pc, at, money, tree, round, next, error>>

RemoveAll ==
  /\ pc = "idle" /\ CanRemove
  /\ queue' = [c \in Leaves |-> <<>>]
  /\ UNCHANGED <<pc, at, money, tree, round, next, error>>

CanPull == next # NULL /\ queue[next] # <<>>

\* The link takes a packet from the selected queue: handlePacketScheduled.
\* It looks up the class at currentPointer and asserts that it is the one.
Pull ==
  LET len == Head(queue[next]) + PhyHeader
  IN  /\ pc = "idle" /\ CanPull
      /\ queue' = [queue EXCEPT ![next] = Tail(@)]
      /\ IF ahead = <<>> \/ Head(ahead) # next
         THEN Throw("not at the current pointer") /\ UNCHANGED <<quota, at>>
         ELSE /\ quota' = [quota EXCEPT ![next] = @ - len, ![Root] = @ + len]
              /\ IF queue'[next] = <<>> THEN pc' = "setidle" /\ at' = next
                 ELSE pc' = "find" /\ UNCHANGED at
              /\ UNCHANGED error
      /\ UNCHANGED <<fairShare, roundSize, tree, round, next>>
-----------------------------------------------------------------------------
(* hlsUpdateQuota, one step for every class on the way down.               *)

\* Mistake: the weight of the class does not count.
TakenEqual(d) ==
  [c \in Classes |-> IF c = d /\ d # Root THEN quota[c] + fairShare[Parent[d]]
                     ELSE IF c = Parent[d] THEN quota[c] - fairShare[c]
                     ELSE quota[c]]

\* d takes its share from its parent.
Taken(d) ==
  [c \in Classes |-> IF c = d /\ d # Root
                     THEN quota[c] + Weight[d] * fairShare[Parent[d]]
                     ELSE IF c = Parent[d] THEN quota[c] - Weight[d] * fairShare[c]
                     ELSE quota[c]]

\* hlsComputeFairShare
FairShare(q, w) == IF q <= 0 THEN 0 ELSE q \div w

\* d is the highest class that is not up to date on the way to target.
UpdateQuota(target) ==
  \E d \in Classes :
    /\ IsTop(d, Climb(target, Stale))
    /\ quota' = Taken(d)
    /\ fresh' = [fresh EXCEPT ![d] = TRUE]
    /\ IF d \in Inners /\ quota'[d] > 0 /\ busyWeight[d] = 0
       THEN Throw("fair share of an idle class") /\ UNCHANGED fairShare
       ELSE /\ fairShare' = IF d \in Leaves THEN fairShare
                            ELSE [fairShare EXCEPT ![d] = FairShare(quota'[d], busyWeight[d])]
            /\ UNCHANGED <<pc, error>>
    /\ UNCHANGED <<at, roundSize, tree, ahead, behind, next, queue>>

\* The leaf the round robin has come to takes its share ...
Update == pc = "update" /\ UpdateQuota(Head(ahead))

\* ... and hlsFindLeaf looks at it.
Updated ==
  /\ pc = "update" /\ fresh[Head(ahead)]
  /\ pc' = "find"
  /\ UNCHANGED <<at, money, tree, round, next, queue, error>>
-----------------------------------------------------------------------------
(* hlsSetBusy for a leaf that has got its first packet.                    *)

\* Mistake: only the leaf becomes busy.
WakingLeaf == {at}

\* The classes that become busy, and the busy class they come to.
Waking == Climb(at, Idle)
Awake  == {c \in Classes : isBusy[c] /\ \E d \in Waking : Parent[d] = c}

\* A busy class hands out this round's shares before it gets a new child.
UpdateAwake == pc = "busy" /\ \E c \in Awake : UpdateQuota(c)

\* Mistake: the leaf is inserted after currentPointer.
InsertedAhead(leaf) == ahead' = Append(ahead, leaf) /\ UNCHANGED behind

\* The leaf is inserted before currentPointer.
Inserted(leaf) == behind' = Append(behind, leaf) /\ UNCHANGED ahead

SetBusy ==
  /\ pc = "busy" /\ Awake \cap Stale = {}
  /\ isBusy' = [c \in Classes |-> c \in Waking \/ isBusy[c]]
  /\ numBusy' = numBusy + Cardinality(Waking)
  /\ busyWeight' = [c \in Classes |->
                      busyWeight[c] + Sum(Weight, {d \in Waking : Parent[d] = c})]
  /\ fresh' = [c \in Classes |-> c \in Waking \/ fresh[c]]
  /\ Inserted(at)
  /\ quota' = [quota EXCEPT ![Root] = @ + LeafMtu[at]]
  /\ roundSize' = roundSize + LeafMtu[at]
  /\ pc' = "find" /\ at' = NULL
  /\ UNCHANGED <<fairShare, next, queue, error>>
-----------------------------------------------------------------------------
(* hlsAdvanceRoundRobin, with done the leaves between the marker and the   *)
(* leaf that is left, and rest those from the next one to the marker.      *)

\* Mistake: the classes are not out of date in the new round.
SameRound == fresh

NewRound == [c \in Classes |-> FALSE]

Advance(done, rest) ==
  \/ /\ rest # <<>>
     /\ ahead' = rest /\ behind' = done
     /\ pc' = "update"
     /\ UNCHANGED fresh
  \/ /\ rest = <<>>
     /\ fresh' = NewRound
     /\ IF done # <<>> /\ isBusy[Head(done)]
        THEN ahead' = done /\ behind' = <<>> /\ pc' = "update"
        ELSE ahead' = <<>> /\ behind' = done /\ pc' = "find"
-----------------------------------------------------------------------------
(* hlsSetIdle for the current leaf: one step for every class that becomes  *)
(* idle, then the list.                                                    *)

Donated(c) == [quota EXCEPT ![c] = 0, ![Parent[c]] = @ + quota[c]]

CountedOut(c) == numBusy - 1

SetIdle ==
  /\ pc = "setidle"
  /\ isBusy' = [isBusy EXCEPT ![at] = FALSE]
  /\ fairShare' = [fairShare EXCEPT ![at] = 0]
  /\ numBusy' = CountedOut(at)
  /\ IF at = Root THEN UNCHANGED <<quota, busyWeight>>
     ELSE /\ quota' = Donated(at)
          /\ busyWeight' = [busyWeight EXCEPT ![Parent[at]] = @ - Weight[at]]
  /\ IF at # Root /\ busyWeight'[Parent[at]] = 0 THEN at' = Parent[at] /\ UNCHANGED pc
     ELSE at' = NULL /\ pc' = "removeleaf"
  /\ UNCHANGED <<roundSize, round, next, queue, error>>

\* Mistake: the leaf's mtu stays in the root's quota.
MtuKept(leaf) == quota

WithoutMtu(leaf) == [quota EXCEPT ![Root] = @ - LeafMtu[leaf]]

RemoveLeaf ==
  /\ pc = "removeleaf"
  /\ quota' = WithoutMtu(Head(ahead))
  /\ roundSize' = roundSize - LeafMtu[Head(ahead)]
  /\ Advance(behind, Tail(ahead))
  /\ UNCHANGED <<at, fairShare, tree, next, queue, error>>
-----------------------------------------------------------------------------
(* hlsFindLeaf, one step for every turn of its loop.                       *)

\* The marker: the search starts the round, or ends without a leaf.
FindMarker ==
  /\ pc = "find" /\ ahead = <<>>
  /\ IF behind = <<>> THEN next' = NULL /\ pc' = "idle" /\ UNCHANGED <<ahead, behind>>
     ELSE /\ ahead' = behind /\ behind' = <<>>
          /\ pc' = "update" /\ UNCHANGED next
  /\ UNCHANGED <<at, money, tree, fresh, queue, error>>

\* Mistake: the physical header is left out.
FitsBare(len, q) == len <= q

Fits(len, q) == len + PhyHeader <= q

FindLeaf ==
  LET leaf == Head(ahead)
  IN  /\ pc = "find" /\ ahead # <<>>
      /\ \/ /\ queue[leaf] = <<>>
            /\ pc' = "setidle" /\ at' = leaf
            /\ UNCHANGED <<round, next>>
         \/ /\ queue[leaf] # <<>> /\ Fits(Head(queue[leaf]), quota[leaf])
            /\ next' = leaf /\ pc' = "idle"
            /\ UNCHANGED <<at, round>>
         \/ /\ queue[leaf] # <<>> /\ ~Fits(Head(queue[leaf]), quota[leaf])
            /\ Advance(Append(behind, leaf), Tail(ahead))
            /\ UNCHANGED <<at, next>>
      /\ UNCHANGED <<money, tree, queue, error>>
-----------------------------------------------------------------------------
Handler ==
  \/ Update \/ Updated \/ UpdateAwake \/ SetBusy
  \/ SetIdle \/ RemoveLeaf \/ FindMarker \/ FindLeaf

Next ==
  \/ \E c \in Leaves, s \in Sizes : Push(c, s)
  \/ \E c \in Leaves : \E i \in DOMAIN queue[c] : RemovePacket(c, i)
  \/ RemoveAll \/ Pull \/ Handler

Spec == Init /\ [][Next]_vars
-----------------------------------------------------------------------------
TypeOK ==
  /\ pc \in {"idle", "busy", "update", "find", "setidle", "removeleaf", "error"}
  /\ at \in Classes \cup {NULL}
  /\ quota \in [Classes -> Int] /\ fairShare \in [Classes -> Nat]
  /\ roundSize \in Int
  /\ busyWeight \in [Classes -> Nat] /\ isBusy \in [Classes -> BOOLEAN]
  /\ numBusy \in Nat
  /\ fresh \in [Classes -> BOOLEAN]
  /\ ahead \in Seq(Leaves) /\ behind \in Seq(Leaves)
  /\ next \in Leaves \cup {NULL}
  /\ queue \in [Leaves -> Seq(Sizes)]
  /\ error \in {"none", "not at the current pointer", "fair share of an idle class"}

IsEmpty == numBusy = 0
-----------------------------------------------------------------------------
(* Safety.                                                                 *)

\* Quota is neither made nor lost: what all classes hold is roundSize, the
\* weights of all classes and the mtus of the leaves in the round robin (the
\* check "roundSize is wrong" of hlsAdvanceRoundRobin, which is commented
\* out there, and what roundSize itself has to be).
QuotaConserved ==
  /\ Sum(quota, Classes) = roundSize
  /\ roundSize = Sum(Weight, Classes) + Sum(LeafMtu, Listed)

\* A leaf is busy exactly when it is in the round robin, once; an inner class
\* exactly when it has a busy child; and busyChildrenWeight and numBusyClasses
\* count the busy ones.  Only hlsSetIdle is allowed to be on its way there.
BusyTree ==
  pc \notin {"setidle", "removeleaf", "error"} =>
    /\ \A c \in Leaves : isBusy[c] <=> c \in Listed
    /\ Cardinality(Listed) = Len(ahead) + Len(behind)
    /\ \A c \in Inners : isBusy[c] <=> \E d \in Classes : Parent[d] = c /\ isBusy[d]
    /\ \A c \in Inners :
         busyWeight[c] = Sum(Weight, {d \in Classes : Parent[d] = c /\ isBusy[d]})
    /\ numBusy = Cardinality({c \in Classes : isBusy[c]})

\* "negative quota(can only happen at root)" (hlsComputeFairShare).
NegativeAtRootOnly == \A c \in Classes \ {Root} : quota[c] >= 0

\* In every round every busy leaf gets its share exactly once: the leaves the
\* round robin has left have had it, those it has yet to come to have not.
OncePerRound ==
  /\ \A c \in Range(behind) : fresh[c]
  /\ \A i \in DOMAIN ahead : i > 1 => ~fresh[ahead[i]]

\* A class that is up to date took its share from a parent that was.
FreshBelowFresh == \A c \in Classes \ {Root} : fresh[c] => fresh[Parent[c]]

\* Between handlers the selected leaf is the one at currentPointer, and its
\* quota pays for its first packet; none is selected when nothing is queued.
SelectionCorrect ==
  pc = "idle" /\ ~CanRemove =>
    IF \A c \in Leaves : queue[c] = <<>> THEN next = NULL
    ELSE /\ next # NULL /\ ahead # <<>> /\ next = Head(ahead)
         /\ queue[next] # <<>>
         /\ Head(queue[next]) + PhyHeader <= quota[next]

\* isEmpty(), which counts busy classes, agrees with getNumPackets(), which
\* counts packets.
EmptyAgrees ==
  pc = "idle" /\ ~CanRemove => (IsEmpty <=> \A c \in Leaves : queue[c] = <<>>)

\* None of the checks of the code fails.
NoError == error = "none"
-----------------------------------------------------------------------------
(* Liveness.                                                               *)

\* A handler runs to its end, and the interface pulls when it can.
FairSpec == Spec /\ WF_vars(Handler) /\ SF_vars(Pull)

\* The loop of hlsFindLeaf ends: rounds in which no leaf can send do not go
\* on for ever.
HandlersEnd == pc # "idle" ~> pc = "idle"

\* The round robin starves no one: a leaf that always has a packet sends one
\* again and again, whatever arrives for the other leaves.
NoStarvation ==
  \A c \in Leaves :
    []<>(queue[c] = <<>>) \/ []<><<Len(queue'[c]) < Len(queue[c])>>_vars
=============================================================================
