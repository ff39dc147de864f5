---------------------------- MODULE HtbScheduler ----------------------------
(***************************************************************************)
(* The hierarchical token bucket scheduler of                              *)
(* src/inetgpl/queueing/scheduler/HtbScheduler.{h,cc}, together with what  *)
(* HtbQueue.ned puts around it: one packet queue for every leaf class in   *)
(* front of it, and the output interface that pulls from it.               *)
(*                                                                         *)
(* The scheduler runs on one thread, and an event handler (receiveSignal,  *)
(* handlePacketScheduled, handleMessage) runs to its end before the next   *)
(* one starts.  A handler is a sequence of steps here, one for every turn  *)
(* of its loops, and pc says where it is; the environment (pushes, pulls,  *)
(* removals, the clock) moves only while pc = "idle".                      *)
(*                                                                         *)
(* Time is discrete and relative to the current time, which the code       *)
(* calls simTime(): age[c] is the time since c's checkpointTime,           *)
(* nextEvent[c] the time left until c's nextEventTime, and timer the time  *)
(* left until classModeChangeEvent.  The unit of time is the unit of the   *)
(* token arithmetic, 1 ns in the code.                                     *)
(***************************************************************************)
EXTENDS Integers, FiniteSets

CONSTANTS
  NumClasses,   \* classes are numbered in the order of the configuration
  Parent,       \* Parent[c]: the class c borrows from; NULL for the root
  Level,        \* Level[c]: 0 for a leaf, more for an inner class
  LeafPrio,     \* LeafPrio[c]: the priority of a leaf, 0 is served first
  Prios,        \* the priorities
  Burst,        \* Burst[c]: the most tokens c can hold
  CBurst,       \* CBurst[c]: the most ctokens (ceiling tokens) c can hold
  MBuffer,      \* MBuffer[c]: elapsed time and token debt are capped at this
  Quantum,      \* Quantum[c]: what a leaf may send in its round-robin turn
  Sizes,        \* the lengths of packets
  PhyHeader,    \* phyHeaderSize: what the physical layer adds to a packet
  Cost,         \* Cost[c][s]: tokens of c that s bytes are worth at its rate
  CCost,        \* CCost[c][s]: ctokens of c that s bytes are worth at its ceil
  Hysteresis,   \* htb_hysteresis
  MaxQueue,     \* the capacity of a packet queue
  InitialAge,   \* time between initialize() and the first packet
  CanRemove     \* whether packets may be removed from the queues

NULL    == 0                      \* the null pointer
Classes == 1..NumClasses
Root    == 1
Leaves  == {c \in Classes : Level[c] = 0}
Inners  == Classes \ Leaves
Levels  == {Level[c] : c \in Classes}
Off     == -1                     \* the timer when it is not scheduled

Green  == "can_send"
Yellow == "may_borrow"
Red    == "cant_send"
Modes  == {Green, Yellow, Red}

\* The configuration: a tree whose parents are configured before their
\* children and lie at higher levels, and whose leaves are its level 0.
ASSUME TreeAssumption ==
  /\ NumClasses \in Nat \ {0}
  /\ Parent \in [Classes -> Classes \cup {NULL}]
  /\ Level \in [Classes -> Nat]
  /\ \A c \in Classes : Parent[c] = NULL <=> c = Root
  /\ \A c \in Classes \ {Root} : Level[c] < Level[Parent[c]]
  /\ Prios \subseteq Nat
  /\ LeafPrio \in [Leaves -> Prios]
  /\ Level[Root] # 0

\* The numbers of the configuration.  A class that is not green has a debt
\* below its mbuffer (accountTokens sees to that), so that it recovers.
ASSUME NumberAssumption ==
  /\ Burst \in [Classes -> Nat \ {0}]
  /\ CBurst \in [Classes -> Nat \ {0}]
  /\ MBuffer \in [Classes -> Nat \ {0}]
  /\ Quantum \in [Leaves -> Nat]
  /\ Sizes \subseteq Nat \ {0} /\ Sizes # {}
  /\ PhyHeader \in Nat
  /\ Cost \in [Classes -> [Sizes -> Nat]]
  /\ CCost \in [Classes -> [Sizes -> Nat]]
  /\ Hysteresis \in BOOLEAN /\ CanRemove \in BOOLEAN
  /\ MaxQueue \in Nat \ {0}
  /\ InitialAge \in Nat
-----------------------------------------------------------------------------
VARIABLES
  pc,         \* where the running handler is; "idle" when none runs
  mode,       \* the stored mode of a class: Green, Yellow or Red
  tokens,     \* token buckets for the assured rates
  ctokens,    \* token buckets for the ceiling rates
  age,        \* time since the checkpoint of a class, capped at its mbuffer
  feeds,      \* activePriority, selfFeeds, innerFeeds and nextToDequeue
  waiting,    \* the waitingClasses of all levels
  nextEvent,  \* time left until the expected mode change of a class
  timer,      \* time left until classModeChangeEvent, or Off
  deficit,    \* deficit round robin state of a leaf at a level
  next,       \* nextIndex, nextLevel, nextPriority
  find,       \* the local variables of updateNextIndex and htbFindLeaf
  charge,     \* the local variables of chargeClass
  qlen,       \* the number of packets in the queue of a leaf
  linkBusy,   \* the output interface already pulled at this time
  error       \* the cRuntimeError that ended the simulation, or "none"

vars == <<pc, mode, tokens, ctokens, age, feeds, waiting, nextEvent, timer,
          deficit, next, find, charge, qlen, linkBusy, error>>

Lesser(a, b)  == IF a < b THEN a ELSE b
Greater(a, b) == IF a < b THEN b ELSE a
Least(S)      == CHOOSE x \in S : \A y \in S : x <= y

\* Path[c]: c and the classes above it, the least set closed under Parent.
Path ==
  [c \in Classes |->
     {d \in Classes :
        \A S \in SUBSET Classes :
          (c \in S /\ \A x \in S : Parent[x] # NULL => Parent[x] \in S)
            => d \in S}]
-----------------------------------------------------------------------------
(* Token buckets and modes.                                                *)

\* htb_lowater and htb_hiwater: with hysteresis a class keeps its mode for
\* one more burst.
Lowater(c, old) == IF Hysteresis /\ old # Red THEN -CBurst[c] ELSE 0
Hiwater(c, old) == IF Hysteresis /\ old = Green THEN -Burst[c] ELSE 0

\* classMode: the mode of a class in stored mode old, diff after its
\* checkpoint ...
ClassMode(c, old, tok, ctok, diff) ==
  IF ctok + diff < Lowater(c, old) THEN Red
  ELSE IF tok + diff >= Hiwater(c, old) THEN Green ELSE Yellow

\* Mistake: the debt keeps its sign.
DebtNotNegated(new, tok, ctok, diff) ==
  CASE new = Red -> ctok + diff [] new = Yellow -> tok + diff [] new = Green -> diff

\* ... and the debt it leaves in *diff, the delay until the next change.
Debt(new, tok, ctok, diff) ==
  CASE new = Red    -> -(ctok + diff)
    [] new = Yellow -> -(tok + diff)
    [] new = Green  -> diff

\* Mistake: tokens are not capped at the burst.
AccountUncapped(tok, diff, burst, cost, mbuffer) ==
  LET toks == tok + diff - cost
  IN  IF toks <= -mbuffer THEN 1 - mbuffer ELSE toks

\* accountTokens and accountCTokens.
Account(tok, diff, burst, cost, mbuffer) ==
  LET toks == Lesser(tok + diff, burst) - cost
  IN  IF toks <= -mbuffer THEN 1 - mbuffer ELSE toks
-----------------------------------------------------------------------------
(* The feeds.  F ranges over values of feeds, m over values of mode.       *)

\* The classes a loop of the form "while mode is may_borrow, cl = parent"
\* visits from cl on: yellow classes, and the first that is not.
Chain(m, cl) ==
  {d \in Path[cl] : \A e \in Path[cl] : Level[e] < Level[d] => m[e] = Yellow}

\* The class of the chain that is a child of c, if there is one.
ChainChild(m, cl, c) == {d \in Chain(m, cl) : Parent[d] = c}

\* Mistake: nextToDequeue is not set when a class joins a feed.
JoinedUnseen(ptr, S) == ptr

\* nextToDequeue is set when a class joins a feed and it was still null.
Joined(ptr, S) == IF ptr = NULL /\ S # {} THEN CHOOSE d \in S : TRUE ELSE ptr

\* activateClassPrios.
Activated(F, m, cl) ==
  LET above == Chain(m, cl) \ {cl}
      A == F.active[cl]
      topAt(l) == {d \in Chain(m, cl) : m[d] = Green /\ Level[d] = l}
  IN  [active    |-> [c \in Classes |->
                        IF c \in above THEN F.active[c] \cup A ELSE F.active[c]],
       inner     |-> [c \in Classes |-> [p \in Prios |->
                        IF c \in above /\ p \in A
                        THEN F.inner[c][p] \cup ChainChild(m, cl, c)
                        ELSE F.inner[c][p]]],
       innerNext |-> [c \in Classes |-> [p \in Prios |->
                        IF c \in above /\ p \in A
                        THEN Joined(F.innerNext[c][p], ChainChild(m, cl, c))
                        ELSE F.innerNext[c][p]]],
       self      |-> [l \in Levels |-> [p \in Prios |->
                        IF p \in A THEN F.self[l][p] \cup topAt(l)
                        ELSE F.self[l][p]]],
       selfNext  |-> [l \in Levels |-> [p \in Prios |->
                        IF p \in A THEN Joined(F.selfNext[l][p], topAt(l))
                        ELSE F.selfNext[l][p]]]]

\* Mistake: a class above cl loses a priority whoever else is in its feed.
WithdrawnAll(F, m, cl, d) == F.active[cl]

\* The priorities deactivateClassPrios still withdraws when it reaches d: a
\* class above cl loses a priority when nothing else is in its inner feed.
Withdrawn(F, m, cl, d) ==
  {p \in F.active[cl] :
     \A e \in Chain(m, cl) \ {cl} :
       Level[e] <= Level[d] => F.inner[e][p] \subseteq Chain(m, cl)}

\* deactivateClassPrios.
Deactivated(F, m, cl) ==
  LET above == Chain(m, cl) \ {cl}
  IN  [F EXCEPT
         !.active = [c \in Classes |->
            IF c \in above THEN F.active[c] \ Withdrawn(F, m, cl, c)
            ELSE F.active[c]],
         !.inner = [c \in Classes |-> [p \in Prios |->
            IF c \in above
            THEN F.inner[c][p] \ {d \in ChainChild(m, cl, c) :
                                    p \in Withdrawn(F, m, cl, d)}
            ELSE F.inner[c][p]]],
         !.self = [l \in Levels |-> [p \in Prios |->
            F.self[l][p] \ {d \in Chain(m, cl) :
                              m[d] = Green /\ p \in Withdrawn(F, m, cl, d)}]]]

\* updateClassMode: what becomes of the feeds when the mode of c changes.
Moved(F, m, c, new) ==
  IF new = m[c] \/ F.active[c] = {} THEN F
  ELSE LET out == IF m[c] # Red THEN Deactivated(F, m, c) ELSE F
       IN  IF new # Red THEN Activated(out, [m EXCEPT ![c] = new], c) ELSE out

\* The successor of c in a feed, from the end back to the beginning.
CyclicNext(S, c) ==
  IF \E x \in S : c < x THEN Least({x \in S : c < x}) ELSE Least(S)

\* getLeaf takes the next pointer when it points into the feed, otherwise
\* the class that follows where it points to.
Current(S, ptr) == IF ptr \in S THEN ptr ELSE CyclicNext(S \cup {ptr}, ptr)

\* deactivateClass, but for its part in the wait tree.
LeafDeactivated(F, m, cl, prio) ==
  IF prio \notin F.active[cl] THEN F
  ELSE LET out == Deactivated(F, m, cl)
       IN  [out EXCEPT !.active[cl] = @ \ {prio},
                       !.self[Level[cl]][prio] = @ \ {cl},
                       !.inner[Parent[cl]][prio] = @ \ {cl}]

\* Deficit round robin: the classes from the leaf up to the first green one
\* whose self feed has a class, and the feeds after each of them that is next
\* in its feed gave its turn to the following class.
Climb(F, m, leaf, prio) ==
  {d \in Path[leaf] \ {Root} :
     \A e \in Path[leaf] :
       Level[e] < Level[d] => m[e] # Green \/ F.self[Level[e]][prio] = {}}

\* Mistake: the first class of the feed is always next.
TurnToFirst(S, ptr, movers) ==
  IF Cardinality(S) > 1 /\ ptr \in movers THEN Least(S) ELSE ptr

Turn(S, ptr, movers) ==
  IF Cardinality(S) > 1 /\ ptr \in movers THEN CyclicNext(S, ptr) ELSE ptr

Rotated(F, m, leaf, prio) ==
  LET yellow == {d \in Climb(F, m, leaf, prio) : m[d] = Yellow}
      green  == {d \in Climb(F, m, leaf, prio) : m[d] = Green}
  IN  [F EXCEPT
         !.innerNext = [c \in Classes |-> [p \in Prios |->
            IF p = prio
            THEN Turn(F.inner[c][p], F.innerNext[c][p], {d \in yellow : Parent[d] = c})
            ELSE F.innerNext[c][p]]],
         !.selfNext = [l \in Levels |-> [p \in Prios |->
            IF p = prio
            THEN Turn(F.self[l][p], F.selfNext[l][p], {d \in green : Level[d] = l})
            ELSE F.selfNext[l][p]]]]

\* A green class alone in its self feed must have been the next one.
NotNext(F, m, leaf, prio) ==
  \E d \in Climb(F, m, leaf, prio) :
    /\ m[d] = Green
    /\ Cardinality(F.self[Level[d]][prio]) = 1
    /\ F.selfNext[Level[d]][prio] # d
-----------------------------------------------------------------------------
None   == [leaf |-> NULL, level |-> -1, prio |-> -1]
NoFind == [level |-> -1, prio |-> -1, cl |-> NULL, start |-> NULL, del |-> NULL]
NoCharge == [cl |-> NULL, size |-> 0]

Init ==
  /\ pc = "idle"
  /\ mode = [c \in Classes |-> Green]
  /\ tokens = Burst
  /\ ctokens = CBurst
  /\ age = [c \in Classes |-> Lesser(InitialAge, MBuffer[c])]
  /\ feeds = [active    |-> [c \in Classes |-> {}],
              inner     |-> [c \in Classes |-> [p \in Prios |-> {}]],
              innerNext |-> [c \in Classes |-> [p \in Prios |-> NULL]],
              self      |-> [l \in Levels |-> [p \in Prios |-> {}]],
              selfNext  |-> [l \in Levels |-> [p \in Prios |-> NULL]]]
  /\ waiting = {}
  /\ nextEvent = [c \in Classes |-> 0]
  /\ timer = Off
  /\ deficit = [c \in Leaves |-> [l \in Levels |-> 0]]
  /\ next = None
  /\ find = NoFind
  /\ charge = NoCharge
  /\ qlen = [c \in Leaves |-> 0]
  /\ linkBusy = FALSE
  /\ error = "none"

buckets == <<tokens, ctokens, age>>
locals  == <<find, charge>>

\* A cRuntimeError ends the simulation.
Throw(what) == pc' = "error" /\ error' = what
-----------------------------------------------------------------------------
(* The environment.                                                        *)

\* The clock moves to the next unit of time unless an event is due now.
Tick ==
  /\ pc = "idle" /\ timer # 0
  /\ age' = [c \in Classes |-> Lesser(age[c] + 1, MBuffer[c])]
  /\ nextEvent' = [c \in Classes |-> Greater(nextEvent[c] - 1, 0)]
  /\ timer' = IF timer = Off THEN Off ELSE timer - 1
  /\ linkBusy' = FALSE
  /\ UNCHANGED <<pc, mode, tokens, ctokens, feeds, waiting, deficit, next,
                 locals, qlen, error>>

\* A packet is pushed into the queue of a leaf (a full queue drops it, the
\* signal is emitted all the same): receiveSignal, htbEnqueue, activateClass,
\* htbAddToWaitTree.  updateNextIndex follows.
Push(c) ==
  LET prio == LeafPrio[c]
      joins == prio \notin feeds.active[c]
  IN  /\ pc = "idle"
      /\ qlen' = [qlen EXCEPT ![c] = Lesser(@ + 1, MaxQueue)]
      /\ feeds' = IF joins
                  THEN Activated([feeds EXCEPT !.active[c] = @ \cup {prio}], mode, c)
                  ELSE feeds
      /\ IF joins /\ mode[c] # Green
         THEN /\ nextEvent' = [nextEvent EXCEPT ![c] = 0]
              /\ waiting' = waiting \cup {c}
         ELSE UNCHANGED <<nextEvent, waiting>>
      /\ IF joins /\ mode[c] # Green /\ c \in waiting
         THEN Throw("already waiting")
         ELSE pc' = "events" /\ UNCHANGED error
      /\ UNCHANGED <<mode, buckets, timer, deficit, next, locals, linkBusy>>

\* A queue loses packets behind the scheduler's back: removePacket and
\* removeAllPackets of a compound queue, and its dropper.
Remove(c) ==
  /\ pc = "idle" /\ CanRemove
  /\ qlen[c] > 0
  /\ qlen' = [qlen EXCEPT ![c] = @ - 1]
  /\ UNCHANGED <<pc, mode, buckets, feeds, waiting, nextEvent, timer, deficit,
                 next, locals, linkBusy, error>>

RemoveAll ==
  /\ pc = "idle" /\ CanRemove
  /\ qlen' = [c \in Leaves |-> 0]
  /\ UNCHANGED <<pc, mode, buckets, feeds, waiting, nextEvent, timer, deficit,
                 next, locals, linkBusy, error>>

\* classModeChangeEvent arrives: handleMessage.
Timer ==
  /\ pc = "idle" /\ timer = 0
  /\ pc' = "events"
  /\ timer' = Off
  /\ UNCHANGED <<mode, buckets, feeds, waiting, nextEvent, deficit, next,
                 locals, qlen, linkBusy, error>>

\* What canPullPacket of the scheduler tells the output interface.
CanPull == next.leaf # NULL /\ qlen[next.leaf] > 0

\* Mistake: the quantum is not added.
NotRefilled(c, left) == left

\* A leaf whose deficit is used up gets its quantum, once.
Refilled(c, left) == IF left < 0 THEN left + Quantum[c] ELSE left

\* The idle link takes a packet of s bytes from the selected queue:
\* handlePacketScheduled and the first half of htbChargeLeaf.
Pull(s) ==
  LET c    == next.leaf
      l    == next.level
      left == deficit[c][l] - (s + PhyHeader)
      turn == left < 0
  IN  /\ pc = "idle" /\ ~linkBusy
      /\ CanPull
      /\ qlen' = [qlen EXCEPT ![c] = @ - 1]
      /\ linkBusy' = TRUE
      /\ IF deficit[c][l] < 0
         THEN /\ Throw("negative deficit")
              /\ UNCHANGED <<deficit, feeds, charge>>
         ELSE /\ deficit' = [deficit EXCEPT ![c][l] = Refilled(c, left)]
              /\ IF turn /\ NotNext(feeds, mode, c, next.prio)
                 THEN Throw("not next to dequeue") /\ UNCHANGED <<feeds, charge>>
                 ELSE /\ feeds' = IF turn THEN Rotated(feeds, mode, c, next.prio)
                                  ELSE feeds
                      /\ charge' = [cl |-> c, size |-> s]
                      /\ pc' = "charge"
                      /\ UNCHANGED error
      /\ UNCHANGED <<mode, buckets, waiting, nextEvent, timer, next, find>>
-----------------------------------------------------------------------------
(* chargeClass: one step for every class from the leaf to the root.        *)

ChargeClass ==
  LET c     == charge.cl
      s     == charge.size
      spent == Account(tokens[c], age[c], Burst[c], Cost[c][s], MBuffer[c])
      tok   == IF Level[c] >= next.level THEN spent ELSE tokens[c] + age[c]
      ctok  == Account(ctokens[c], age[c], CBurst[c], CCost[c][s], MBuffer[c])
      old   == mode[c]
      new   == ClassMode(c, old, tok, ctok, 0)
      left  == IF old # Green THEN waiting \ {c} ELSE waiting
  IN  /\ pc = "charge" /\ c # NULL
      /\ IF age[c] = 0
         THEN /\ Throw("already updated exactly now")
              /\ UNCHANGED <<mode, buckets, feeds, waiting, nextEvent, charge>>
         ELSE /\ tokens' = [tokens EXCEPT ![c] = tok]
              /\ ctokens' = [ctokens EXCEPT ![c] = ctok]
              /\ age' = [age EXCEPT ![c] = 0]
              /\ mode' = [mode EXCEPT ![c] = new]
              /\ feeds' = Moved(feeds, mode, c, new)
              /\ charge' = [charge EXCEPT !.cl = Parent[c]]
              /\ IF new # old /\ new # Green
                 THEN /\ nextEvent' = [nextEvent EXCEPT ![c] = Debt(new, tok, ctok, 0)]
                      /\ waiting' = left \cup {c}
                 ELSE /\ waiting' = IF new # old THEN left ELSE waiting
                      /\ UNCHANGED nextEvent
              /\ IF new # old /\ new # Green /\ c \in left
                 THEN Throw("already waiting")
                 ELSE UNCHANGED <<pc, error>>
      /\ UNCHANGED <<timer, deficit, next, find, qlen, linkBusy>>

\* Mistake: the wait tree is not touched.
WaitingOn(c, prio) == waiting

\* What deactivateClass leaves in the wait tree.
StillWaiting(c, prio) ==
  IF prio \in feeds.active[c] THEN waiting \ {c} ELSE waiting

\* The end of htbChargeLeaf: an emptied leaf is deactivated.
EndCharge ==
  LET c == next.leaf
  IN  /\ pc = "charge" /\ charge.cl = NULL
      /\ IF qlen[c] = 0
         THEN /\ feeds' = LeafDeactivated(feeds, mode, c, next.prio)
              /\ waiting' = StillWaiting(c, next.prio)
         ELSE UNCHANGED <<feeds, waiting>>
      /\ charge' = NoCharge
      /\ pc' = "events"
      /\ UNCHANGED <<mode, buckets, nextEvent, timer, deficit, next, find,
                     qlen, linkBusy, error>>
-----------------------------------------------------------------------------
(* updateNextIndex: doEvents, the search, scheduleClassModeChangeEvent.    *)

\* Mistake: only the leaves' level is brought up to date.
DueLeaves == {c \in waiting : nextEvent[c] = 0 /\ Level[c] = 0}

Due == {c \in waiting : nextEvent[c] = 0}

\* doEvents visits the levels upwards, a level's classes in the order of
\* waitComp; those that are due at one level differ in their ids only.
FirstDue(c) ==
  /\ c \in Due
  /\ \A d \in Due : Level[c] < Level[d] \/ (Level[c] = Level[d] /\ c <= d)

\* One turn of doEvents' loop: a due class takes the mode its buckets have
\* now, and waits on if it is not green.
DoEvent(c) ==
  LET new == ClassMode(c, mode[c], tokens[c], ctokens[c], age[c])
  IN  /\ pc = "events" /\ FirstDue(c)
      /\ mode' = [mode EXCEPT ![c] = new]
      /\ feeds' = Moved(feeds, mode, c, new)
      /\ IF new = Green
         THEN waiting' = waiting \ {c} /\ UNCHANGED nextEvent
         ELSE /\ nextEvent' = [nextEvent EXCEPT ![c] =
                                 Debt(new, tokens[c], ctokens[c], age[c])]
              /\ UNCHANGED waiting
      /\ UNCHANGED <<pc, buckets, timer, deficit, next, locals, qlen, linkBusy, error>>

\* All classes are up to date: the search starts over.
EndEvents ==
  /\ pc = "events" /\ Due = {}
  /\ next' = None
  /\ find' = NoFind
  /\ pc' = "search"
  /\ UNCHANGED <<mode, buckets, feeds, waiting, nextEvent, timer, deficit,
                 charge, qlen, linkBusy, error>>

\* Mistake: priorities are visited before levels.
BeforeByPrio(l, p, k, q) == p < q \/ (p = q /\ l < k)

\* The self feeds the loops over levels and priorities have yet to visit,
\* but for the empty ones, which they skip.
Before(l, p, k, q) == l < k \/ (l = k /\ p < q)

Ahead ==
  {s \in Levels \X Prios :
     Before(find.level, find.prio, s[1], s[2]) /\ feeds.self[s[1]][s[2]] # {}}

\* The search looks into the next self feed: htbFindLeaf, getLeaf.
EnterFeed(l, p) ==
  LET c == Current(feeds.self[l][p], feeds.selfNext[l][p])
  IN  /\ <<l, p>> \in Ahead
      /\ \A s \in Ahead : ~Before(s[1], s[2], l, p)
      /\ feeds' = [feeds EXCEPT !.selfNext[l][p] = c]
      /\ find' = [NoFind EXCEPT !.level = l, !.prio = p, !.cl = c]
      /\ pc' = "descend"

Search ==
  /\ pc = "search"
  /\ IF Ahead = {}
     THEN pc' = "schedule" /\ UNCHANGED <<feeds, find>>
     ELSE \E l \in Levels, p \in Prios : EnterFeed(l, p)
  /\ UNCHANGED <<mode, buckets, waiting, nextEvent, timer, deficit, next,
                 charge, qlen, linkBusy, error>>

\* One turn of getLeaf's loop: from an inner class to the current class of
\* its inner feed.
Descend ==
  LET c == find.cl
      p == find.prio
      d == Current(feeds.inner[c][p], feeds.innerNext[c][p])
  IN  /\ pc = "descend" /\ Level[c] > 0
      /\ feeds' = [feeds EXCEPT !.innerNext[c][p] = d]
      /\ find' = [find EXCEPT !.cl = d]
      /\ UNCHANGED <<pc, mode, buckets, waiting, nextEvent, timer, deficit,
                     next, charge, qlen, linkBusy, error>>

\* Mistake: the start stays at a leaf that was deactivated.
StartKept == find.start = NULL

\* htbFindLeaf starts at the first leaf getLeaf returns, and moves the start
\* on when it has just deactivated the leaf it started at.
StartHere == find.start = NULL \/ find.del = find.start

\* One turn of htbFindLeaf's loop, at the leaf getLeaf returned.  After the
\* first turn the loop ends without a leaf when it is back at the first one;
\* an empty leaf is deactivated, and getLeaf called again.
TryLeaf ==
  LET c     == find.cl
      first == find.start = NULL
      l     == find.level
      p     == find.prio
      e     == LeafDeactivated(feeds, mode, c, p)
      again == Current(e.self[l][p], e.selfNext[l][p])
  IN  /\ pc = "descend" /\ Level[c] = 0
      /\ \/ /\ ~first /\ c = find.start
            /\ pc' = "search"
            /\ UNCHANGED <<feeds, waiting, next, find>>
         \/ /\ first \/ c # find.start
            /\ qlen[c] > 0
            /\ next' = [leaf |-> c, level |-> l, prio |-> p]
            /\ pc' = "schedule"
            /\ UNCHANGED <<feeds, waiting, find>>
         \/ /\ first \/ c # find.start
            /\ qlen[c] = 0
            /\ feeds' = [e EXCEPT !.selfNext[l][p] = again]
            /\ waiting' = StillWaiting(c, p)
            /\ find' = [find EXCEPT !.cl = again, !.del = c,
                                    !.start = IF StartHere THEN c ELSE @]
            /\ UNCHANGED <<pc, next>>
      /\ UNCHANGED <<mode, buckets, nextEvent, timer, deficit, charge, qlen,
                     linkBusy, error>>

\* scheduleClassModeChangeEvent: for the first expected change, but not for
\* the current time.  The handler ends.
NextTimer ==
  IF waiting = {} THEN Off ELSE Greater(Least({nextEvent[c] : c \in waiting}), 1)

Schedule ==
  /\ pc = "schedule"
  /\ timer' = NextTimer
  /\ find' = NoFind
  /\ pc' = "idle"
  /\ UNCHANGED <<mode, buckets, feeds, waiting, nextEvent, deficit, next,
                 charge, qlen, linkBusy, error>>
-----------------------------------------------------------------------------
Handler ==
  \/ ChargeClass \/ EndCharge
  \/ (\E c \in Classes : DoEvent(c)) \/ EndEvents
  \/ Search \/ Descend \/ TryLeaf \/ Schedule

Next ==
  \/ Tick \/ Timer
  \/ \E c \in Leaves : Push(c) \/ Remove(c)
  \/ RemoveAll
  \/ \E s \in Sizes : Pull(s)
  \/ Handler

Spec == Init /\ [][Next]_vars
-----------------------------------------------------------------------------
TypeOK ==
  /\ pc \in {"idle", "charge", "events", "search", "descend", "schedule", "error"}
  /\ mode \in [Classes -> Modes]
  /\ tokens \in [Classes -> Int]
  /\ ctokens \in [Classes -> Int]
  /\ age \in [Classes -> Nat]
  /\ feeds \in [active    : [Classes -> SUBSET Prios],
                inner     : [Classes -> [Prios -> SUBSET Classes]],
                innerNext : [Classes -> [Prios -> Classes \cup {NULL}]],
                self      : [Levels -> [Prios -> SUBSET Classes]],
                selfNext  : [Levels -> [Prios -> Classes \cup {NULL}]]]
  /\ waiting \subseteq Classes
  /\ nextEvent \in [Classes -> Nat]
  /\ timer \in Nat \cup {Off}
  /\ deficit \in [Leaves -> [Levels -> Int]]
  /\ next \in [leaf : Leaves, level : Levels, prio : Prios] \cup {None}
  /\ find \in [level : Levels, prio : Prios, cl : Classes,
               start : Leaves \cup {NULL}, del : Leaves \cup {NULL}] \cup {NoFind}
  /\ charge \in [cl : Classes \cup {NULL}, size : Sizes] \cup {NoCharge}
  /\ qlen \in [Leaves -> 0..MaxQueue]
  /\ linkBusy \in BOOLEAN
  /\ error \in {"none", "negative deficit", "not next to dequeue",
                "already updated exactly now", "already waiting"}
-----------------------------------------------------------------------------
(* What getNumPackets and isEmpty tell.                                    *)

\* The mode a class has by the state of its buckets at the current time.
ModeNow == [c \in Classes |-> ClassMode(c, mode[c], tokens[c], ctokens[c], age[c])]

\* Mistake: a class that may go on borrowing is not trusted.
SeenModeDueOnly ==
  [c \in Classes |-> IF nextEvent[c] = 0 THEN ModeNow[c] ELSE Red]

\* getNumPackets trusts a mode when the expected change is due, or when it is
\* the stored one and the class may borrow; any other mode stops the climb.
SeenMode ==
  [c \in Classes |->
     IF ModeNow[c] = Red THEN Red
     ELSE IF nextEvent[c] = 0 \/ (ModeNow[c] = Yellow /\ mode[c] = Yellow)
          THEN ModeNow[c] ELSE Red]

\* The leaves whose packets getNumPackets counts.
Counted(c) == feeds.active[c] # {} /\ \E d \in Chain(SeenMode, c) : SeenMode[d] = Green

IsEmpty == \A c \in Leaves : Counted(c) => qlen[c] = 0
-----------------------------------------------------------------------------
(* Safety.                                                                 *)

\* A class is in the self feed of its level for a priority exactly when it is
\* green and active for the priority; in the inner feed of its parent exactly
\* when it is yellow and active; an inner class is active exactly for the
\* priorities of its inner feeds and a leaf at most for its own.  Every climb
\* of activateClassPrios and deactivateClassPrios has to leave this true.
FeedsConsistent ==
  /\ \A l \in Levels, p \in Prios, c \in Classes :
       c \in feeds.self[l][p] <=>
         (Level[c] = l /\ mode[c] = Green /\ p \in feeds.active[c])
  /\ \A c, d \in Classes, p \in Prios :
       d \in feeds.inner[c][p] <=>
         (Parent[d] = c /\ mode[d] = Yellow /\ p \in feeds.active[d])
  /\ \A c \in Inners, p \in Prios : p \in feeds.active[c] <=> feeds.inner[c][p] # {}
  /\ \A c \in Leaves : feeds.active[c] \subseteq {LeafPrio[c]}

\* The next pointer of a feed that has a class is never null, and a pointer,
\* stale or not, points to a class the feed may hold: getLeaf dereferences it.
PointersValid ==
  /\ \A l \in Levels, p \in Prios :
       /\ feeds.self[l][p] # {} => feeds.selfNext[l][p] # NULL
       /\ feeds.selfNext[l][p] # NULL => Level[feeds.selfNext[l][p]] = l
  /\ \A c \in Classes, p \in Prios :
       /\ feeds.inner[c][p] # {} => feeds.innerNext[c][p] # NULL
       /\ feeds.innerNext[c][p] # NULL => Parent[feeds.innerNext[c][p]] = c

\* The classes in the wait trees are the inner classes that are not green and
\* the leaves that are not green and have something to send; a leaf with a
\* packet in its queue is active.
WaitTreeConsistent ==
  /\ \A c \in Inners : c \in waiting <=> mode[c] # Green
  /\ \A c \in Leaves : c \in waiting <=> mode[c] # Green /\ feeds.active[c] # {}
  /\ \A c \in Leaves : qlen[c] > 0 => feeds.active[c] # {}

\* Between handlers classModeChangeEvent is scheduled for the first expected
\* mode change, and for no other time.
TimerArmed ==
  pc = "idle" =>
    timer = IF waiting = {} THEN Off ELSE Least({nextEvent[c] : c \in waiting})

\* Unless classModeChangeEvent is due, the stored mode of every class that
\* the search may visit is the mode of its buckets at the current time: no
\* expected change comes late, and none comes without being expected.
ModesCurrent ==
  pc = "idle" /\ timer # 0 =>
    \A c \in Classes : feeds.active[c] # {} \/ c \in Inners => mode[c] = ModeNow[c]

\* The stored modes follow the buckets, although only the classes in the wait
\* trees are looked at and only when classModeChangeEvent comes.
ModesFollowBuckets == TimerArmed /\ ModesCurrent

\* The slots <<level, priority>> at which a leaf can send: the level of the
\* green class at the end of the chain of classes it borrows from.
Slots(c) ==
  {<<Level[d], LeafPrio[c]>> : d \in {e \in Chain(ModeNow, c) : ModeNow[e] = Green}}

\* The selected leaf is one that has packets and may send or borrow by its
\* buckets, at the lowest level and then at the first priority at which any
\* leaf may; and none is selected only when no leaf may.
SelectionCorrect ==
  pc = "idle" /\ timer # 0 /\ ~CanRemove =>
    LET able == {c \in Leaves : qlen[c] > 0 /\ Slots(c) # {}}
    IN  IF able = {} THEN next = None
        ELSE /\ next.leaf \in able
             /\ <<next.level, next.prio>> \in Slots(next.leaf)
             /\ \A c \in able : \A s \in Slots(c) :
                  \/ next.level < s[1]
                  \/ next.level = s[1] /\ next.prio <= s[2]

\* isEmpty() is false exactly when the interface can pull a packet: the
\* recomputed modes of getNumPackets agree with the incremental ones.
EmptyAgrees ==
  pc = "idle" /\ timer # 0 /\ ~CanRemove => (CanPull <=> ~IsEmpty)

\* What updateNextIndex and getNumPackets tell the interface agrees with the
\* buckets and with each other.
PullAgrees == SelectionCorrect /\ EmptyAgrees

\* No bucket holds more than its burst, although chargeClass adds the elapsed
\* time to the tokens of the classes below the lender without a limit.
BurstRespected ==
  \A c \in Classes : tokens[c] <= Burst[c] /\ ctokens[c] <= CBurst[c]

\* A leaf overdraws its ceiling by one packet at most, whatever it borrows.
CeilingRespected ==
  \A c \in Leaves : \E s \in Sizes :
    ctokens[c] >= (IF Hysteresis THEN -CBurst[c] ELSE 0) - CCost[c][s]

\* The two limits a token bucket is there for.
BucketsRespected == BurstRespected /\ CeilingRespected

\* The check in htbChargeLeaf: a leaf that is selected has not overdrawn its
\* deficit, so its quantum was enough for its last packet.
DeficitNotNegative == error # "negative deficit"

\* Four checks of the code throw no cRuntimeError: no deficit is negative, the
\* class charged is the next one of its feed, none is charged twice at one
\* time and none is added to a wait tree that holds it.  The other checks
\* need what this model takes for granted: a wait tree in the order of its
\* times (HtbScheduler.cc:358), a successor that is in the feed (:686), and an
\* interface that pulls the packet it was offered (:531).
NoError == error = "none"
-----------------------------------------------------------------------------
(* Liveness.                                                               *)

\* A handler runs to its end.  Simulated time goes on, however many packets
\* arrive at one time; an event that is due is taken from the event queue;
\* and the interface, which is told of every change, pulls when it can.
FairSpec ==
  /\ Spec
  /\ WF_vars(Handler)
  /\ SF_vars(Tick) /\ SF_vars(Timer)
  /\ SF_vars(\E s \in Sizes : Pull(s))

\* No handler loops for ever: the loops of htbFindLeaf and getLeaf follow
\* pointers that may be stale, around feeds that shrink as they go.
HandlersEnd == pc # "idle" ~> pc = "idle"

\* Deficit round robin starves no one: a leaf with a packet sends, whatever
\* arrives for the other leaves of its priority.
Served(c) == qlen[c] = MaxQueue ~> qlen[c] < MaxQueue

NoStarvation == \A c \in Leaves : Served(c)
=============================================================================
