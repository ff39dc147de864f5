------------------------------- MODULE MCHtb -------------------------------
(* Small trees and numbers for HtbScheduler and HtbRefinement.             *)
EXTENDS HtbRefinement

\* Two leaves that share an inner class: root 1 - inner 2 - leaves 3, 4.
\* The root has tokens for a packet at every unit of time, the inner class
\* for one at every second and a leaf for one at every third.
PairParent   == <<0, 1, 2, 2>>
PairLevel    == <<2, 1, 0, 0>>
PairLeafPrio == [c \in {3, 4} |-> 0]
PairBurst    == <<2, 1, 1, 1>>
PairCBurst   == <<2, 2, 2, 2>>
PairQuantum  == [c \in {3, 4} |-> 2]
PairCost     == [c \in 1..4 |-> [s \in {1} |-> CASE c = 1 -> 1 [] c = 2 -> 2 [] OTHER -> 3]]
PairCCost    == [c \in 1..4 |-> [s \in {1} |-> IF c = 1 THEN 1 ELSE 2]]

\* A leaf below an inner class and one below the root, at two priorities:
\* root 1 - (inner 2 - leaf 3), leaf 4.  The mbuffer of leaf 3 leaves room
\* for more debt than its ceiling allows.
SideParent   == <<0, 1, 2, 1>>
SideLevel    == <<2, 1, 0, 0>>
SideLeafPrio == [c \in {3, 4} |-> IF c = 3 THEN 1 ELSE 0]
SideMBuffer  == <<1, 2, 4, 2>>

\* A pair of leaves with packets of two lengths, for liveness: a leaf that
\* sends short packets is green all the time, after a long one it borrows.
FairBurst   == <<2, 2, 1, 1>>
FairCBurst  == <<2, 2, 2, 2>>
FairMBuffer == <<1, 1, 2, 2>>
FairQuantum == [c \in {3, 4} |-> 2]
FairCost    == [c \in 1..4 |-> [s \in {1, 2} |-> IF c <= 2 THEN 1 ELSE s]]
FairCCost   == [c \in 1..4 |-> [s \in {1, 2} |-> 1]]

\* Three leaves, two of them below the inner class, for removals.
TrioParent   == <<0, 1, 2, 2, 1>>
TrioLevel    == <<2, 1, 0, 0, 0>>
TrioLeafPrio == [c \in {3, 4, 5} |-> 0]
TrioBurst    == <<1, 1, 1, 1, 1>>
TrioCBurst   == <<1, 1, 1, 1, 1>>
TrioMBuffer  == <<1, 1, 2, 2, 2>>
TrioQuantum  == [c \in {3, 4, 5} |-> 1]
TrioCost     == [c \in 1..5 |-> [s \in {1} |-> IF c <= 2 THEN 1 ELSE 2]]
TrioCCost    == [c \in 1..5 |-> [s \in {1} |-> 1]]
============================================================================
