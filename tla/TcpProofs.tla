----------------------------- MODULE TcpProofs -----------------------------
(***************************************************************************)
(* Theorems about TcpNsc, for any number of connections, bytes, addresses  *)
(* and ports.                                                              *)
(***************************************************************************)
EXTENDS TcpRefinement, FiniteSetTheorems, TLAPS

SockStates == {"none", "connecting", "connected", "listening", "gone"}
Faults == {"none", "reset", "timed out"}
AllNotices == {"peer closed", "reset", "timed out"}

ConnTypes ==
  /\ nextId \in 1 .. MaxConns + 1
  /\ listener \in [Conns -> BOOLEAN] /\ established \in [Conns -> BOOLEAN]
  /\ onClose \in [Conns -> BOOLEAN] /\ disconnected \in [Conns -> BOOLEAN]
  /\ forkedFrom \in [Conns -> 0 .. MaxConns]
  /\ sendQueue \in [Conns -> Nat]

AppTypes ==
  /\ given \in [Conns -> Nat] /\ taken \in [Conns -> Nat] /\ got \in [Conns -> Nat]
  /\ told \in [Conns -> SUBSET AllNotices]

StackTypes ==
  /\ sock \in [Conns -> SockStates] /\ fault \in [Conns -> Faults]
  /\ arrived \in [Conns -> Nat] /\ eof \in [Conns -> BOOLEAN]

Types == ConnTypes /\ AppTypes /\ StackTypes

\* A connection that was not made yet.
Fresh(c) ==
  /\ ~listener[c] /\ ~established[c] /\ ~onClose[c] /\ ~disconnected[c]
  /\ forkedFrom[c] = None /\ sendQueue[c] = 0 /\ sock[c] = "none"
  /\ given[c] = 0 /\ taken[c] = 0 /\ got[c] = 0 /\ told[c] = {}
  /\ arrived[c] = 0 /\ ~eof[c] /\ fault[c] = "none"

AllFresh == \A c \in Conns : c \notin Known => Fresh(c)

\* What a connection may be at the same time.
Life(c) ==
  /\ listener[c] => sock[c] \in {"listening", "gone"}
  /\ sock[c] = "listening" => listener[c]
  /\ forkedFrom[c] # None => ~listener[c] /\ established[c] /\ ~onClose[c]
  /\ sock[c] = "connecting" => ~established[c] /\ ~listener[c] /\ forkedFrom[c] = None
  /\ disconnected[c] => onClose[c]

Lives == \A c \in Conns : Life(c)

\* No byte is lost or made on its way from the application, and the end of
\* the stream is told after the last byte.
Counts(c) ==
  /\ given[c] = taken[c] + sendQueue[c]
  /\ got[c] <= arrived[c]
  /\ "peer closed" \in told[c] => eof[c] /\ got[c] = arrived[c]

Accounts == \A c \in Conns : Counts(c)

\* Drained, and the notices of connections that were reset.  That one timed out
\* is told with the next segment.
Heard(c) == sock[c] = "connected" /\ ~disconnected[c]
Reported(c) ==
  Heard(c) /\ forkedFrom[c] = None =>
    got[c] = arrived[c] /\ established[c] /\ Notices(c) \subseteq told[c] \cup {"timed out"}

AllReported == \A c \in Conns : Reported(c)

CoreInv == Types /\ AllFresh /\ Lives /\ Accounts /\ AllReported

-----------------------------------------------------------------------------
LEMMA ConnsAreNumbers == Conns \subseteq Nat /\ None \notin Conns
BY StackAssumption DEF StackAssumption, Conns, None

LEMMA CoreInit == Init => CoreInv
<1> SUFFICES ASSUME Init PROVE CoreInv
  OBVIOUS
<1> USE StackAssumption DEF StackAssumption, Init, Conns
<1>1. ConnTypes
  BY DEF ConnTypes, None
<1>2. AppTypes /\ StackTypes
  BY DEF AppTypes, StackTypes, SockStates, Faults
<1>3. AllFresh
  BY DEF AllFresh, Fresh
<1>4. Lives
  BY DEF Lives, Life
<1>5. Accounts
  BY DEF Accounts, Counts
<1>6. AllReported
  BY DEF AllReported, Reported, Heard
<1> QED
  BY <1>1, <1>2, <1>3, <1>4, <1>5, <1>6 DEF CoreInv, Types

-----------------------------------------------------------------------------
(* The commands.                                                           *)

LEMMA CoreOpenActive ==
  ASSUME CoreInv, NEW r \in Remotes, NEW lp, OpenActive(r, lp)
  PROVE  CoreInv'
<1> DEFINE c == nextId
<1> USE ConnsAreNumbers
<1>1. /\ c \in Conns /\ c \notin Known /\ nextId' = c + 1 /\ Fresh(c)
  BY DEF OpenActive, Creates, CoreInv, AllFresh, Known, Types, ConnTypes, Conns
<1>2. /\ sock' = [sock EXCEPT ![c] = "connecting"]
      /\ UNCHANGED <<app, listener, forkedFrom, established, onClose, disconnected,
                     sendQueue, arrived, eof, fault>>
  BY DEF OpenActive
<1>3. Types'
  <2>1. nextId' \in 1 .. MaxConns + 1
    BY <1>1, StackAssumption DEF Conns, StackAssumption
  <2> QED
    BY <1>1, <1>2, <2>1 DEF CoreInv, Types, ConnTypes, AppTypes, StackTypes, SockStates, app
<1>4. AllFresh'
  BY <1>1, <1>2 DEF CoreInv, AllFresh, Fresh, Types, ConnTypes, StackTypes, Known, Conns, app
<1>5. Lives'
  BY <1>1, <1>2 DEF CoreInv, Lives, Life, Fresh, Types, StackTypes, ConnTypes
<1>6. Accounts'
  BY <1>1, <1>2 DEF CoreInv, Accounts, Counts, app
<1>7. AllReported'
  BY <1>1, <1>2 DEF CoreInv, AllReported, Reported, Heard, Notices, Types, StackTypes, app
<1> QED
  BY <1>3, <1>4, <1>5, <1>6, <1>7 DEF CoreInv

LEMMA CoreOpenPassive ==
  ASSUME CoreInv, NEW lp, OpenPassive(lp)
  PROVE  CoreInv'
<1> DEFINE c == nextId
<1> USE ConnsAreNumbers
<1>1. /\ c \in Conns /\ c \notin Known /\ nextId' = c + 1 /\ Fresh(c)
  BY DEF OpenPassive, Creates, CoreInv, AllFresh, Known, Types, ConnTypes, Conns
<1>2. /\ sock' = [sock EXCEPT ![c] = "listening"]
      /\ listener' = [listener EXCEPT ![c] = TRUE]
      /\ UNCHANGED <<app, forkedFrom, established, onClose, disconnected,
                     sendQueue, arrived, eof, fault>>
  BY DEF OpenPassive, Listens
<1>3. Types'
  <2>1. nextId' \in 1 .. MaxConns + 1
    BY <1>1, StackAssumption DEF Conns, StackAssumption
  <2> QED
    BY <1>1, <1>2, <2>1 DEF CoreInv, Types, ConnTypes, AppTypes, StackTypes, SockStates, app
<1>4. AllFresh'
  BY <1>1, <1>2 DEF CoreInv, AllFresh, Fresh, Types, ConnTypes, StackTypes, Known, Conns, app
<1>5. Lives'
  BY <1>1, <1>2 DEF CoreInv, Lives, Life, Fresh, Types, StackTypes, ConnTypes
<1>6. Accounts'
  BY <1>1, <1>2 DEF CoreInv, Accounts, Counts, app
<1>7. AllReported'
  BY <1>1, <1>2 DEF CoreInv, AllReported, Reported, Heard, Notices, Types, StackTypes, app
<1> QED
  BY <1>3, <1>4, <1>5, <1>6, <1>7 DEF CoreInv

LEMMA NoticesTyped ==
  ASSUME StackTypes, NEW c \in Conns
  PROVE  Notices(c) \subseteq AllNotices
BY DEF StackTypes, Notices, AllNotices, Faults

LEMMA CoreAccept ==
  ASSUME CoreInv, NEW c \in Conns, Accept(c)
  PROVE  CoreInv'
<1>1. /\ c \in Known /\ forkedFrom[c] # None
      /\ forkedFrom' = [forkedFrom EXCEPT ![c] = None]
      /\ got' = [got EXCEPT ![c] = arrived[c]]
      /\ told' = [told EXCEPT ![c] = @ \cup Notices(c)]
      /\ UNCHANGED <<given, taken, nextId, listener, established, onClose, disconnected,
                     sendQueue, sock, arrived, eof, fault>>
  BY DEF Accept, ReadAll, stack
<1>2. Notices(c) \subseteq AllNotices
  BY NoticesTyped DEF CoreInv, Types
<1>3. Types'
  <2>1. None \in 0 .. MaxConns
    BY StackAssumption DEF StackAssumption, None
  <2> QED
    BY <1>1, <1>2, <2>1 DEF CoreInv, Types, ConnTypes, AppTypes, StackTypes
<1>4. AllFresh'
  BY <1>1 DEF CoreInv, AllFresh, Fresh, Types, ConnTypes, AppTypes, Known
<1>5. Lives'
  BY <1>1 DEF CoreInv, Lives, Life, Types, ConnTypes
<1>6. Accounts'
  <2> SUFFICES ASSUME NEW d \in Conns PROVE Counts(d)'
    BY DEF Accounts
  <2>1. CASE d = c
    <3>1. "peer closed" \in Notices(c) => eof[c]
      BY DEF CoreInv, Types, StackTypes, Notices, Faults
    <3>2. Counts(c) /\ arrived[c] \in Nat /\ got[c] \in Nat
      BY DEF CoreInv, Accounts, Types, AppTypes, StackTypes
    <3>3. got'[c] = arrived[c] /\ told'[c] = told[c] \cup Notices(c)
      BY <1>1 DEF CoreInv, Types, AppTypes
    <3>4. got'[c] <= arrived[c]
      BY <3>2, <3>3
    <3> QED
      BY <1>1, <2>1, <3>1, <3>2, <3>3, <3>4 DEF Counts
  <2>2. CASE d # c
    BY <1>1, <2>2 DEF CoreInv, Accounts, Counts, Types, AppTypes
  <2> QED
    BY <2>1, <2>2
<1>7. AllReported'
  <2> SUFFICES ASSUME NEW d \in Conns PROVE Reported(d)'
    BY DEF AllReported
  <2>1. CASE d = c
    BY <1>1, <2>1 DEF CoreInv, Reported, Heard, Notices, Lives, Life, Types, ConnTypes, AppTypes
  <2>2. CASE d # c
    BY <1>1, <2>2 DEF CoreInv, AllReported, Reported, Heard, Notices, Types, ConnTypes, AppTypes
  <2> QED
    BY <2>1, <2>2
<1> QED
  BY <1>3, <1>4, <1>5, <1>6, <1>7 DEF CoreInv

LEMMA CoreSend ==
  ASSUME CoreInv, NEW c \in Conns, NEW k \in 0 .. MaxSent, Send(c, k)
  PROVE  CoreInv'
<1>1. /\ c \in Known /\ k \in 0 .. sendQueue[c] + 1
      /\ given' = [given EXCEPT ![c] = @ + 1]
      /\ sendQueue' = [sendQueue EXCEPT ![c] = @ + 1 - k]
      /\ taken' = [taken EXCEPT ![c] = @ + k]
      /\ UNCHANGED <<got, told, nextId, listener, forkedFrom, established, onClose,
                     disconnected, sock, arrived, eof, fault>>
  BY DEF Send, Enqueued, stack
<1>2. k \in Nat /\ sendQueue[c] + 1 - k \in Nat
  BY <1>1 DEF CoreInv, Types, ConnTypes
<1>3. Types'
  BY <1>1, <1>2 DEF CoreInv, Types, ConnTypes, AppTypes, StackTypes
<1>4. AllFresh'
  BY <1>1 DEF CoreInv, AllFresh, Fresh, Types, ConnTypes, AppTypes, Known
<1>5. Lives'
  BY <1>1 DEF CoreInv, Lives, Life
<1>6. Accounts'
  <2> SUFFICES ASSUME NEW d \in Conns PROVE Counts(d)'
    BY DEF Accounts
  <2>0. Counts(d)
    BY DEF CoreInv, Accounts
  <2>1. given[d] \in Nat /\ taken[d] \in Nat /\ sendQueue[d] \in Nat
    BY DEF CoreInv, Types, ConnTypes, AppTypes
  <2>2. /\ given'[d] = IF d = c THEN given[d] + 1 ELSE given[d]
        /\ taken'[d] = IF d = c THEN taken[d] + k ELSE taken[d]
        /\ sendQueue'[d] = IF d = c THEN sendQueue[d] + 1 - k ELSE sendQueue[d]
    BY <1>1 DEF CoreInv, Types, ConnTypes, AppTypes
  <2>3. given[d] = taken[d] + sendQueue[d]
    BY <2>0 DEF Counts
  <2>4. given'[d] = taken'[d] + sendQueue'[d]
    BY ONLY <1>2, <2>1, <2>2, <2>3
  <2> QED
    BY <1>1, <2>0, <2>4 DEF Counts
<1>7. AllReported'
  BY <1>1 DEF CoreInv, AllReported, Reported, Heard, Notices
<1> QED
  BY <1>3, <1>4, <1>5, <1>6, <1>7 DEF CoreInv

LEMMA CoreClose ==
  ASSUME CoreInv, NEW c \in Conns, Close(c)
  PROVE  CoreInv'
<1>1. /\ c \in Known /\ forkedFrom[c] = None
      /\ onClose' = [onClose EXCEPT ![c] = TRUE]
      /\ UNCHANGED <<app, nextId, listener, forkedFrom, established, disconnected,
                     sendQueue, sock, arrived, eof, fault>>
  BY DEF Close, stack
<1>3. Types'
  BY <1>1 DEF CoreInv, Types, ConnTypes, AppTypes, StackTypes, app
<1>4. AllFresh'
  BY <1>1 DEF CoreInv, AllFresh, Fresh, Types, ConnTypes, Known, app
<1>5. Lives'
  BY <1>1 DEF CoreInv, Lives, Life, Types, ConnTypes
<1>6. Accounts'
  BY <1>1 DEF CoreInv, Accounts, Counts, app
<1>7. AllReported'
  BY <1>1 DEF CoreInv, AllReported, Reported, Heard, Notices, app
<1> QED
  BY <1>3, <1>4, <1>5, <1>6, <1>7 DEF CoreInv

LEMMA CoreAbort ==
  ASSUME CoreInv, NEW c \in Conns, Abort(c)
  PROVE  CoreInv'
<1>1. /\ c \in Known /\ forkedFrom[c] = None
      /\ onClose' = [onClose EXCEPT ![c] = TRUE]
      /\ sendQueue' = [sendQueue EXCEPT ![c] = 0]
      /\ given' = [given EXCEPT ![c] = taken[c]]
      /\ UNCHANGED <<taken, got, told, nextId, listener, forkedFrom, established,
                     disconnected, sock, arrived, eof, fault>>
  BY DEF Abort, Emptied, stack
<1>3. Types'
  BY <1>1 DEF CoreInv, Types, ConnTypes, AppTypes, StackTypes
<1>4. AllFresh'
  BY <1>1 DEF CoreInv, AllFresh, Fresh, Types, ConnTypes, AppTypes, Known
<1>5. Lives'
  BY <1>1 DEF CoreInv, Lives, Life, Types, ConnTypes
<1>6. Accounts'
  <2> SUFFICES ASSUME NEW d \in Conns PROVE Counts(d)'
    BY DEF Accounts
  <2>0. Counts(d)
    BY DEF CoreInv, Accounts
  <2>1. given[d] \in Nat /\ taken[d] \in Nat /\ sendQueue[d] \in Nat
    BY DEF CoreInv, Types, ConnTypes, AppTypes
  <2>2. /\ given'[d] = IF d = c THEN taken[d] ELSE given[d]
        /\ sendQueue'[d] = IF d = c THEN 0 ELSE sendQueue[d]
        /\ taken'[d] = taken[d]
    BY <1>1 DEF CoreInv, Types, ConnTypes, AppTypes
  <2>3. given[d] = taken[d] + sendQueue[d]
    BY <2>0 DEF Counts
  <2>4. given'[d] = taken'[d] + sendQueue'[d]
    <3>1. CASE d = c
      BY ONLY <2>1, <2>2, <3>1
    <3>2. CASE d # c
      BY ONLY <2>2, <2>3, <3>2
    <3> QED
      BY ONLY <3>1, <3>2
  <2> QED
    BY <1>1, <2>0, <2>4 DEF Counts
<1>7. AllReported'
  BY <1>1 DEF CoreInv, AllReported, Reported, Heard, Notices
<1> QED
  BY <1>3, <1>4, <1>5, <1>6, <1>7 DEF CoreInv

LEMMA CoreTimer ==
  ASSUME CoreInv, NEW k \in [Conns -> 0 .. MaxSent], NEW lost \in Few, Timer(k, lost)
  PROVE  CoreInv'
<1> DEFINE Closing(c) == c \in Known /\ ClosesNow(c, sendQueue[c] - k[c])
<1>1. \A c \in Conns :
        /\ k[c] \in 0 .. sendQueue[c]
        /\ sendQueue'[c] = sendQueue[c] - k[c]
        /\ taken'[c] = taken[c] + k[c]
        /\ disconnected'[c] = (disconnected[c] \/ Closing(c))
        /\ sock'[c] \in {sock[c], "gone"} /\ (sock'[c] # sock[c] => Closing(c) \/ c \in lost)
        /\ fault'[c] = IF c \in lost THEN "timed out" ELSE fault[c]
  BY DEF Timer, Take, Takable, Dequeued, TimesOut
<1>2. /\ sendQueue' = [c \in Conns |-> sendQueue'[c]] /\ taken' = [c \in Conns |-> taken'[c]]
      /\ disconnected' = [c \in Conns |-> disconnected'[c]]
      /\ sock' = [c \in Conns |-> sock'[c]] /\ fault' = [c \in Conns |-> fault'[c]]
  BY DEF Timer, Take, Dequeued, TimesOut
<1>3. UNCHANGED <<given, got, told, nextId, listener, forkedFrom, established,
                  onClose, arrived, eof>>
  BY DEF Timer
<1>4. \A c \in Conns : c \in lost => c \in Known /\ Live(c)
  BY DEF Timer, TimesOut
<1>5. \A c \in Conns : Closing(c) => c \in Known /\ onClose[c] /\ ~disconnected[c]
  BY DEF ClosesNow
<1> HIDE DEF Closing
<1>6. \A c \in Conns : sendQueue'[c] \in Nat /\ taken'[c] \in Nat /\ k[c] \in Nat
  <2> TAKE c \in Conns
  <2>1. sendQueue[c] \in Nat /\ taken[c] \in Nat
    BY DEF CoreInv, Types, ConnTypes, AppTypes
  <2>2. k[c] \in 0 .. sendQueue[c] /\ sendQueue'[c] = sendQueue[c] - k[c] /\ taken'[c] = taken[c] + k[c]
    BY <1>1
  <2> QED
    BY ONLY <2>1, <2>2
<1>7. Types'
  <2>1. ConnTypes'
    BY <1>1, <1>2, <1>3, <1>6 DEF CoreInv, Types, ConnTypes
  <2>2. AppTypes'
    BY <1>2, <1>3, <1>6 DEF CoreInv, Types, AppTypes
  <2>3. sock' \in [Conns -> SockStates]
    BY <1>1, <1>2 DEF CoreInv, Types, StackTypes, SockStates
  <2>4. fault' \in [Conns -> Faults]
    BY <1>1, <1>2 DEF CoreInv, Types, StackTypes, Faults
  <2> QED
    BY <1>3, <2>1, <2>2, <2>3, <2>4 DEF CoreInv, Types, StackTypes
<1>8. AllFresh'
  <2> SUFFICES ASSUME NEW c \in Conns, c \notin Known PROVE Fresh(c)'
    BY <1>3 DEF AllFresh, Known
  <2>1. Fresh(c) /\ c \notin lost /\ ~Closing(c)
    BY <1>4, <1>5 DEF CoreInv, AllFresh
  <2>2. k[c] = 0
    <3>1. sendQueue[c] = 0 /\ k[c] \in 0 .. sendQueue[c]
      BY <1>1, <2>1 DEF Fresh
    <3> QED
      BY ONLY <3>1
  <2>3. sendQueue'[c] = 0 /\ taken'[c] = 0
    <3>1. sendQueue[c] = 0 /\ taken[c] = 0 /\ sendQueue'[c] = sendQueue[c] - k[c] /\ taken'[c] = taken[c] + k[c]
      BY <1>1, <2>1 DEF Fresh
    <3> QED
      BY ONLY <2>2, <3>1
  <2>4. ~disconnected'[c] /\ sock'[c] = "none" /\ fault'[c] = "none"
    BY <1>1, <2>1 DEF Fresh
  <2> QED
    BY <1>3, <2>1, <2>3, <2>4 DEF Fresh
<1>9. Lives'
  <2> SUFFICES ASSUME NEW c \in Conns PROVE Life(c)'
    BY DEF Lives
  <2>1. Life(c)
    BY DEF CoreInv, Lives
  <2>2. disconnected[c] \in BOOLEAN /\ onClose[c] \in BOOLEAN
    BY DEF CoreInv, Types, ConnTypes
  <2> QED
    BY <1>1, <1>3, <1>5, <2>1, <2>2 DEF Life
<1>10. Accounts'
  <2> SUFFICES ASSUME NEW c \in Conns PROVE Counts(c)'
    BY DEF Accounts
  <2>1. Counts(c) /\ given[c] \in Nat /\ taken[c] \in Nat /\ sendQueue[c] \in Nat
    BY DEF CoreInv, Accounts, Types, ConnTypes, AppTypes
  <2>2. given[c] = taken[c] + sendQueue[c]
    BY <2>1 DEF Counts
  <2>3. sendQueue'[c] = sendQueue[c] - k[c] /\ taken'[c] = taken[c] + k[c] /\ k[c] \in Nat
    BY <1>1, <1>6
  <2>4. taken[c] \in Nat /\ sendQueue[c] \in Nat
    BY <2>1
  <2>5. given[c] = taken'[c] + sendQueue'[c]
    BY ONLY <2>2, <2>3, <2>4
  <2> QED
    BY <1>3, <2>1, <2>5 DEF Counts
<1>11. AllReported'
  <2> SUFFICES ASSUME NEW c \in Conns, Heard(c)', forkedFrom'[c] = None
               PROVE  (got[c] = arrived[c] /\ established[c] /\ Notices(c) \subseteq told[c] \cup {"timed out"})'
    BY DEF AllReported, Reported
  <2>1. Heard(c) /\ forkedFrom[c] = None
    BY <1>1, <1>3 DEF Heard
  <2>2. got[c] = arrived[c] /\ established[c] /\ Notices(c) \subseteq told[c] \cup {"timed out"}
    BY <2>1 DEF CoreInv, AllReported, Reported
  <2>3. CASE c \in lost
    BY <1>1, <1>3, <2>2, <2>3 DEF Notices
  <2>4. CASE c \notin lost
    BY <1>1, <1>3, <2>2, <2>4 DEF Notices
  <2> QED
    BY <2>3, <2>4
<1> QED
  BY <1>7, <1>8, <1>9, <1>10, <1>11 DEF CoreInv

-----------------------------------------------------------------------------
(* Segments: whatever comes in, one connection at most is moved, and the    *)
(* loop over all of them tells the applications about this one only.        *)

StackSame(c) == /\ sock'[c] = sock[c] /\ arrived'[c] = arrived[c]
                /\ eof'[c] = eof[c] /\ fault'[c] = fault[c]

\* What the application is told of a connection that was not moved: at most
\* that the stack gave its socket up earlier.
Late(c)    == Heard(c) /\ forkedFrom[c] = None /\ told'[c] = told[c] \cup {"timed out"}
AppSame(c) == /\ established'[c] = established[c] /\ got'[c] = got[c]
              /\ told'[c] = told[c] \/ Late(c)

\* What a segment does to the socket that has its pair.
Moved(d) ==
  /\ sock'[d] \in {"connected", "gone"}
  /\ arrived[d] <= arrived'[d]
  /\ eof[d] => eof'[d] /\ arrived'[d] = arrived[d]

\* What the loop does about one connection.
Read(c) == Heard(c)' /\ forkedFrom[c] = None
Served(c) ==
  /\ established'[c] <=> established[c] \/ Heard(c)'
  /\ got'[c] = IF Read(c) THEN arrived'[c] ELSE got[c]
  /\ told'[c] = told[c] \cup IF Read(c) THEN Notices(c)' ELSE {}

MovesOne(d, p) ==
  /\ nextId' = nextId /\ forkedFrom' = forkedFrom /\ pair' = pair
  /\ d # None => d \in Known /\ Live(d) /\ pair[d] = p /\ Moved(d) /\ Served(d)
  /\ \A c \in Conns : c # d => StackSame(c) /\ AppSame(c)

MakesOne(l, p) ==
  /\ l \in Known /\ sock[l] = "listening" /\ nextId \in Conns
  /\ pair[l].lp = p.lp /\ ~InUse(p) /\ pair' = [pair EXCEPT ![nextId] = p]
  /\ nextId' = nextId + 1 /\ forkedFrom' = [forkedFrom EXCEPT ![nextId] = l]
  /\ sock'[nextId] = "connected" /\ established'[nextId]
  /\ arrived'[nextId] = arrived[nextId] /\ eof'[nextId] = eof[nextId] /\ fault'[nextId] = fault[nextId]
  /\ got'[nextId] = got[nextId] /\ told'[nextId] = told[nextId]
  /\ \A c \in Conns : c # nextId => StackSame(c) /\ AppSame(c)

LEMMA TouchedMoves ==
  ASSUME CoreInv, NEW d \in Known, d \in Conns, Live(d),
         Connects(d) \/ Brings(d) \/ Ends(d) \/ Resets(d)
  PROVE  StackTypes' /\ Moved(d) /\ pair' = pair /\ \A c \in Conns : c # d => StackSame(c)
<1>0. pair' = pair
  BY DEF Connects, Brings, Ends, Resets
<1>1. StackTypes /\ sock[d] \in {"connecting", "connected"}
  BY DEF CoreInv, Types, Live
<1>2. CASE Connects(d)
  BY <1>1, <1>2 DEF Connects, StackTypes, SockStates, Moved, StackSame
<1>3. CASE Brings(d)
  <2>1. /\ arrived' = [arrived EXCEPT ![d] = arrived[d] + 1] /\ arrived[d] \in Nat
        /\ eof' \in [Conns -> BOOLEAN] /\ \A c \in Conns : c # d => eof'[c] = eof[c]
    <3>1. ("end" \in Fates) \in BOOLEAN
      OBVIOUS
    <3>2. eof' = eof \/ eof' = [eof EXCEPT ![d] = "end" \in Fates]
      BY <1>3 DEF Brings
    <3>3. eof' \in [Conns -> BOOLEAN] /\ \A c \in Conns : c # d => eof'[c] = eof[c]
      BY <1>1, <3>1, <3>2 DEF StackTypes
    <3>4. arrived' = [arrived EXCEPT ![d] = arrived[d] + 1] /\ arrived[d] \in Nat
      BY <1>1, <1>3 DEF Brings, StackTypes
    <3> QED
      BY <3>3, <3>4
  <2>2. /\ sock' = sock /\ fault' = fault /\ sock[d] = "connected" /\ ~eof[d]
    BY <1>3 DEF Brings
  <2>3. StackTypes'
    BY <1>1, <2>1, <2>2 DEF StackTypes
  <2>4. Moved(d)
    BY <1>1, <2>1, <2>2 DEF Moved, StackTypes
  <2> QED
    BY <1>0, <1>1, <2>1, <2>2, <2>3, <2>4 DEF StackSame, StackTypes
<1>4. CASE Ends(d)
  BY <1>1, <1>4 DEF Ends, StackTypes, SockStates, Moved, StackSame
<1>5. CASE Resets(d)
  <2>1. \E s \in {sock[d], "gone"} : sock' = [sock EXCEPT ![d] = s]
    <3>1. sock = [sock EXCEPT ![d] = sock[d]]
      BY <1>1 DEF StackTypes
    <3> QED
      BY <1>5, <3>1 DEF Resets
  <2>2. /\ fault' = [fault EXCEPT ![d] = "reset"] /\ arrived' = arrived /\ eof' = eof
        /\ sock[d] = "connecting" => sock'[d] = "gone"
    BY <1>5 DEF Resets
  <2>3. StackTypes'
    BY <1>1, <2>1, <2>2 DEF StackTypes, SockStates, Faults
  <2>4. Moved(d)
    <3>1. sock'[d] \in {"connected", "gone"}
      BY <1>1, <2>1, <2>2 DEF StackTypes
    <3>2. arrived[d] \in Nat /\ arrived'[d] = arrived[d] /\ eof'[d] = eof[d]
      BY <1>1, <2>2 DEF StackTypes
    <3>3. arrived[d] <= arrived'[d]
      BY ONLY <3>2
    <3> QED
      BY <3>1, <3>2, <3>3 DEF Moved
  <2>5. \A c \in Conns : c # d => StackSame(c)
    BY <1>1, <2>1, <2>2 DEF StackTypes, StackSame
  <2> QED
    BY <1>0, <2>3, <2>4, <2>5
<1> QED
  BY <1>0, <1>2, <1>3, <1>4, <1>5

\* Poll, connection by connection.
LEMMA PollServes ==
  ASSUME CoreInv, StackTypes', NEW l \in Known \cup {None}, NEW inet, NEW p,
         Poll(l, inet, p), disconnected' = disconnected
  PROVE  /\ nextId' = (IF l = None THEN nextId ELSE nextId + 1)
         /\ forkedFrom' = [c \in Conns |-> IF l # None /\ c = nextId THEN l ELSE forkedFrom[c]]
         /\ established' \in [Conns -> BOOLEAN]
         /\ got' \in [Conns -> Nat] /\ told' \in [Conns -> SUBSET AllNotices]
         /\ \A c \in Conns : c \in Known => Served(c)
         /\ \A c \in Conns : c \notin Known =>
              /\ established'[c] <=> established[c] \/ (l # None /\ c = nextId)
              /\ got'[c] = got[c] /\ told'[c] = told[c]
<1> DEFINE forked == IF l = None THEN {} ELSE {nextId}
           polled == {c \in Known : Polled(c)'}
           new    == {c \in polled : ~established[c]}
           read   == {c \in polled : Reads(c)}
<1>1. /\ nextId' = nextId + Cardinality(forked)
      /\ forkedFrom' = [c \in Conns |-> IF c \in forked THEN l ELSE forkedFrom[c]]
      /\ established' = [c \in Conns |-> established[c] \/ c \in new \/ (c \in forked /\ OfferMarks(c))]
      /\ got' = [c \in Conns |-> IF c \in read THEN arrived'[c] ELSE got[c]]
      /\ told' = [c \in Conns |-> told[c] \cup IF c \in read THEN Notices(c)' ELSE {}]
  BY DEF Poll, EstablishedSent
<1>2. nextId' = (IF l = None THEN nextId ELSE nextId + 1)
  <2>1. nextId \in Nat /\ Cardinality(forked) = IF l = None THEN 0 ELSE 1
    <3>1. nextId \in Nat
      BY StackAssumption DEF CoreInv, Types, ConnTypes, StackAssumption
    <3> QED
      BY <3>1, FS_EmptySet, FS_Singleton
  <2> QED
    BY <1>1, <2>1
<1>4. nextId \notin Known
  BY StackAssumption DEF CoreInv, Types, ConnTypes, StackAssumption, Known
<1>5. forkedFrom' = [c \in Conns |-> IF l # None /\ c = nextId THEN l ELSE forkedFrom[c]]
  BY <1>1
<1>6. established' \in [Conns -> BOOLEAN]
  BY <1>1
<1>7. /\ got' \in [Conns -> Nat] /\ told' \in [Conns -> SUBSET AllNotices]
  <2>1. \A c \in Conns : Notices(c)' \subseteq AllNotices
    BY DEF StackTypes, Notices, AllNotices, Faults
  <2> QED
    BY <1>1, <2>1 DEF CoreInv, Types, AppTypes, StackTypes
<1>8. ASSUME NEW c \in Conns, c \in Known PROVE Served(c)
  <2>1. c \notin forked
    BY <1>4, <1>8
  <2>2. (c \in polled <=> Heard(c)') /\ (c \in read <=> Read(c))
        /\ (c \in new <=> Heard(c)' /\ ~established[c])
    BY <1>8 DEF Polled, Heard, Read, Reads
  <2> HIDE DEF forked, polled, new, read
  <2>3. established'[c] = (established[c] \/ c \in new \/ (c \in forked /\ OfferMarks(c)))
    BY <1>1
  <2>4. established'[c] <=> established[c] \/ Heard(c)'
    BY <2>1, <2>2, <2>3
  <2>5. got'[c] = (IF Read(c) THEN arrived'[c] ELSE got[c])
    BY <1>1, <2>2
  <2>6. told'[c] = told[c] \cup (IF Read(c) THEN Notices(c)' ELSE {})
    BY <1>1, <2>2
  <2> QED
    BY <2>4, <2>5, <2>6 DEF Served
<1>9. ASSUME NEW c \in Conns, c \notin Known
      PROVE  /\ established'[c] <=> established[c] \/ (l # None /\ c = nextId)
             /\ got'[c] = got[c] /\ told'[c] = told[c]
  <2>1. c \notin polled /\ c \notin read /\ c \notin new /\ (c \in forked <=> l # None /\ c = nextId)
    BY <1>9
  <2> HIDE DEF forked, polled, new, read
  <2>2. established'[c] = (established[c] \/ c \in new \/ (c \in forked /\ OfferMarks(c)))
    BY <1>1
  <2>3. established'[c] <=> established[c] \/ (l # None /\ c = nextId)
    BY <2>1, <2>2 DEF OfferMarks
  <2>4. got'[c] = got[c]
    BY <1>1, <2>1
  <2>5. told'[c] = told[c]
    <3>1. told'[c] = told[c] \cup {}
      BY <1>1, <2>1
    <3> QED
      BY <3>1
  <2> QED
    BY <2>3, <2>4, <2>5
<1> QED
  BY <1>2, <1>5, <1>6, <1>7, <1>8, <1>9

\* The loop has nothing to tell of a connection whose socket did not move.
LEMMA UnmovedSame ==
  ASSUME CoreInv, NEW c \in Conns, Served(c), StackSame(c), disconnected' = disconnected,
         established' \in [Conns -> BOOLEAN]
  PROVE  AppSame(c)
<1>1. Heard(c)' <=> Heard(c)
  BY DEF Heard, StackSame
<1>2. Heard(c) => established[c]
  BY DEF CoreInv, AllReported, Reported, Lives, Life
<1>3. Read(c) => arrived'[c] = got[c] /\ Notices(c)' = Notices(c)
                 /\ Notices(c) \subseteq told[c] \cup {"timed out"}
  BY <1>1 DEF CoreInv, AllReported, Reported, Read, Notices, StackSame
<1>4. established[c] \in BOOLEAN /\ established'[c] \in BOOLEAN
  BY DEF CoreInv, Types, ConnTypes
<1>5. established'[c] = established[c]
  BY <1>1, <1>2, <1>4 DEF Served
<1>6. got'[c] = got[c]
  BY <1>3 DEF Served
<1>7. told'[c] = told[c] \/ Late(c)
  <2>1. CASE Read(c)
    <3>1. told'[c] = told[c] \cup Notices(c)
      BY <1>3, <2>1 DEF Served
    <3>2. Notices(c) = {} \/ \E x : Notices(c) = {x}
      BY DEF Notices
    <3>3. told'[c] = told[c] \/ told'[c] = told[c] \cup {"timed out"}
      BY <1>3, <2>1, <3>1, <3>2
    <3> QED
      BY <1>1, <2>1, <3>3 DEF Late, Read
  <2>2. CASE ~Read(c)
    BY <2>2 DEF Served
  <2> QED
    BY <2>1, <2>2
<1> QED
  BY <1>5, <1>6, <1>7 DEF AppSame

\* The pairs of a segment: in the simulation, and in the stack.
FromPair(r, lp) == Pair(r, RemotePort, Local, lp)
ToPair(r, lp)   == Pair(FirstFreeAddr(nscAddr, r), RemotePort, Inner, lp)

LEMMA SegmentEffect ==
  ASSUME CoreInv, NEW r \in Remotes, NEW lp, Segment(r, lp)
  PROVE  /\ StackTypes'
         /\ established' \in [Conns -> BOOLEAN]
         /\ got' \in [Conns -> Nat] /\ told' \in [Conns -> SUBSET AllNotices]
         /\ \E l \in Known \cup {None} :
              /\ Poll(l, FromPair(r, lp), ToPair(r, lp))
              /\ l = None => \E d \in Conns \cup {None} : MovesOne(d, ToPair(r, lp))
              /\ l # None => l \in Conns /\ MakesOne(l, ToPair(r, lp))
<1> DEFINE p == ToPair(r, lp)
           q == FromPair(r, lp)
<1>1. PICK l \in Known \cup {None} : Receives(l, p) /\ Poll(l, q, p)
  BY DEF Segment, ToPair, FromPair
<1>2. disconnected' = disconnected
  BY DEF Segment
<1> HIDE DEF p, q
<1>3. Known \subseteq Conns /\ None \notin Known /\ nextId \notin Known
  BY StackAssumption DEF CoreInv, Types, ConnTypes, StackAssumption, Known, Conns, None
<1>4. CASE l = None
  <2>1. PICK d \in Conns \cup {None} :
          /\ StackTypes' /\ pair' = pair /\ \A c \in Conns : c # d => StackSame(c)
          /\ d # None => d \in Known /\ Live(d) /\ pair[d] = p /\ Moved(d)
    <3>1. CASE NoEffect
      <4>1. StackTypes' /\ pair' = pair /\ \A c \in Conns : StackSame(c)
        BY <3>1 DEF NoEffect, stack, CoreInv, Types, StackTypes, StackSame
      <4> QED
        BY <4>1
    <3>2. CASE \E c \in Known : /\ Live(c) /\ pair[c] = p
                                /\ Connects(c) \/ Brings(c) \/ Ends(c) \/ Resets(c)
      <4>1. PICK c \in Known : Live(c) /\ pair[c] = p /\ (Connects(c) \/ Brings(c) \/ Ends(c) \/ Resets(c))
        BY <3>2
      <4> QED
        BY <1>3, <4>1, TouchedMoves
    <3> QED
      BY <1>1, <1>4, <3>1, <3>2 DEF Receives
  <2>2. /\ nextId' = nextId
        /\ forkedFrom' = [c \in Conns |-> IF l # None /\ c = nextId THEN l ELSE forkedFrom[c]]
        /\ established' \in [Conns -> BOOLEAN]
        /\ got' \in [Conns -> Nat] /\ told' \in [Conns -> SUBSET AllNotices]
        /\ \A c \in Conns : c \in Known => Served(c)
        /\ \A c \in Conns : c \notin Known =>
              (established'[c] <=> established[c]) /\ got'[c] = got[c] /\ told'[c] = told[c]
    BY <1>1, <1>2, <1>4, <2>1, PollServes
  <2>3. forkedFrom' = forkedFrom
    BY <1>4, <2>2 DEF CoreInv, Types, ConnTypes
  <2>4. ASSUME NEW c \in Conns, StackSame(c) PROVE AppSame(c)
    <3>1. CASE c \in Known
      BY <1>2, <2>2, <2>4, <3>1, UnmovedSame
    <3>2. CASE c \notin Known
      BY <2>2, <3>2 DEF AppSame, CoreInv, Types, ConnTypes
    <3> QED
      BY <3>1, <3>2
  <2>5. MovesOne(d, p)
    BY <1>3, <2>1, <2>2, <2>3, <2>4 DEF MovesOne
  <2> QED
    BY <1>1, <1>4, <2>1, <2>2, <2>5 DEF p, q
<1>5. CASE l # None
  <2>1. l \in Known /\ l \in Conns /\ Forks(l, p)
    BY <1>1, <1>3, <1>5 DEF Receives
  <2>2. /\ sock[l] = "listening" /\ nextId \in Conns
        /\ pair[l].lp = p.lp /\ ~InUse(p) /\ pair' = [pair EXCEPT ![nextId] = p]
        /\ sock' = [sock EXCEPT ![nextId] = "connected"]
        /\ UNCHANGED <<arrived, eof, fault>>
    BY <2>1 DEF Forks
  <2>3. StackTypes' /\ sock'[nextId] = "connected" /\ \A c \in Conns : c # nextId => StackSame(c)
    BY <2>2 DEF CoreInv, Types, StackTypes, SockStates, StackSame
  <2>4. /\ nextId' = nextId + 1
        /\ forkedFrom' = [c \in Conns |-> IF l # None /\ c = nextId THEN l ELSE forkedFrom[c]]
        /\ established' \in [Conns -> BOOLEAN]
        /\ got' \in [Conns -> Nat] /\ told' \in [Conns -> SUBSET AllNotices]
        /\ \A c \in Conns : c \in Known => Served(c)
        /\ \A c \in Conns : c \notin Known =>
              /\ established'[c] <=> established[c] \/ (l # None /\ c = nextId)
              /\ got'[c] = got[c] /\ told'[c] = told[c]
    BY <1>1, <1>2, <1>5, <2>3, PollServes
  <2>5. forkedFrom' = [forkedFrom EXCEPT ![nextId] = l]
    BY <1>5, <2>2, <2>4 DEF CoreInv, Types, ConnTypes
  <2>6. ASSUME NEW c \in Conns, c # nextId PROVE AppSame(c)
    <3>1. CASE c \in Known
      BY <1>2, <2>3, <2>4, <2>6, <3>1, UnmovedSame
    <3>2. CASE c \notin Known
      BY <2>4, <2>6, <3>2 DEF AppSame, CoreInv, Types, ConnTypes
    <3> QED
      BY <3>1, <3>2
  <2>7. established'[nextId] /\ got'[nextId] = got[nextId] /\ told'[nextId] = told[nextId]
    BY <1>3, <1>5, <2>2, <2>4
  <2>8. MakesOne(l, p)
    BY <2>1, <2>2, <2>3, <2>4, <2>5, <2>6, <2>7 DEF MakesOne
  <2> QED
    BY <1>1, <1>5, <2>1, <2>3, <2>4, <2>8 DEF p, q
<1> QED
  BY <1>4, <1>5

Kept(c) == /\ Fresh(c) => Fresh(c)'
           /\ Life(c)' /\ Counts(c)' /\ Reported(c)'

LEMMA SameKeeps ==
  ASSUME CoreInv, NEW c \in Conns, StackSame(c), AppSame(c), forkedFrom'[c] = forkedFrom[c],
         UNCHANGED <<given, taken, listener, onClose, disconnected, sendQueue>>
  PROVE  Kept(c)
<1>1. Life(c) /\ Counts(c) /\ Reported(c)
  BY DEF CoreInv, Lives, Accounts, AllReported
<1>2. Fresh(c) => Fresh(c)'
  <2> SUFFICES ASSUME Fresh(c) PROVE Fresh(c)'
    OBVIOUS
  <2>1. told'[c] = told[c]
    BY DEF Fresh, AppSame, Late, Heard
  <2> QED
    BY <2>1 DEF Fresh, StackSame, AppSame
<1>3. Life(c)'
  BY <1>1 DEF Life, StackSame, AppSame
<1>4. Counts(c)'
  <2>1. told'[c] = told[c] \/ told'[c] = told[c] \cup {"timed out"}
    BY DEF AppSame, Late
  <2>2. "peer closed" \in told'[c] => "peer closed" \in told[c]
    <3>1. "peer closed" # "timed out"
      OBVIOUS
    <3>2. \A x : x \in told'[c] => x \in told[c] \/ x = "timed out"
      BY ONLY <2>1, Zenon
    <3> QED
      BY ONLY <3>1, <3>2, Zenon
  <2> QED
    BY <1>1, <2>2 DEF Counts, StackSame, AppSame
<1>5. Reported(c)'
  <2>1. Notices(c)' = Notices(c) /\ (Heard(c)' <=> Heard(c)) /\ told[c] \subseteq told'[c]
    BY DEF Heard, Notices, StackSame, AppSame, Late
  <2> QED
    BY <1>1, <2>1 DEF Reported, StackSame, AppSame
<1> QED
  BY <1>2, <1>3, <1>4, <1>5 DEF Kept

LEMMA CoreSegment ==
  ASSUME CoreInv, NEW r \in Remotes, NEW lp, Segment(r, lp)
  PROVE  CoreInv'
<1>1. /\ StackTypes'
      /\ established' \in [Conns -> BOOLEAN]
      /\ got' \in [Conns -> Nat] /\ told' \in [Conns -> SUBSET AllNotices]
  BY SegmentEffect
<1>2. UNCHANGED <<given, taken, listener, onClose, disconnected, sendQueue>>
  BY DEF Segment
<1>3. CASE \E d \in Conns \cup {None} : MovesOne(d, ToPair(r, lp))
  <2>1. PICK d \in Conns \cup {None} : MovesOne(d, ToPair(r, lp))
    BY <1>3
  <2>2. /\ nextId' = nextId /\ forkedFrom' = forkedFrom /\ Known' = Known
        /\ d # None => d \in Known /\ Live(d) /\ Moved(d) /\ Served(d)
        /\ \A c \in Conns : c # d => StackSame(c) /\ AppSame(c)
    BY <2>1 DEF MovesOne, Known
  <2>3. Types'
    BY <1>1, <1>2, <2>2 DEF CoreInv, Types, ConnTypes, AppTypes
  <2>4. \A c \in Conns : c # d => Kept(c)
    BY <1>2, <2>2, SameKeeps
  <2>5. ASSUME d # None PROVE d \in Conns /\ d \in Known /\ Life(d)' /\ Counts(d)' /\ Reported(d)'
    <3>1. d \in Conns /\ d \in Known /\ Live(d) /\ Moved(d) /\ Served(d)
      BY <2>2, <2>5
    <3>2. Life(d) /\ Counts(d)
      BY <3>1 DEF CoreInv, Lives, Accounts
    <3>3. Life(d)'
      BY <1>2, <2>2, <3>1, <3>2 DEF Life, Live, Moved, Served
    <3>4. given'[d] = taken'[d] + sendQueue'[d]
      BY <1>2, <3>2 DEF Counts
    <3>5. got[d] \in Nat /\ arrived[d] \in Nat /\ arrived'[d] \in Nat
      BY <1>1, <3>1 DEF CoreInv, Types, AppTypes, StackTypes
    <3>6. got'[d] \in {arrived'[d], got[d]} /\ arrived[d] <= arrived'[d] /\ got[d] <= arrived[d]
      BY <3>1, <3>2 DEF Served, Moved, Counts
    <3>7. got'[d] <= arrived'[d]
      BY ONLY <3>5, <3>6
    <3>8. ASSUME "peer closed" \in told'[d] PROVE eof'[d] /\ got'[d] = arrived'[d]
      <4>1. CASE "peer closed" \in told[d]
        BY <3>1, <3>2, <4>1 DEF Counts, Moved, Served
      <4>2. CASE "peer closed" \notin told[d]
        <5>1. Read(d) /\ "peer closed" \in Notices(d)'
          BY <3>1, <3>8, <4>2 DEF Served
        <5>2. eof'[d]
          BY <1>1, <5>1, <3>1 DEF Notices, StackTypes, Faults
        <5> QED
          BY <3>1, <5>1, <5>2 DEF Served
      <4> QED
        BY <4>1, <4>2
    <3>9. Counts(d)'
      BY <3>4, <3>7, <3>8 DEF Counts
    <3>10. Reported(d)'
      BY <2>2, <3>1 DEF Reported, Served, Read
    <3> QED
      BY <3>1, <3>3, <3>9, <3>10
  <2>6. AllFresh'
    <3> SUFFICES ASSUME NEW c \in Conns, c \notin Known PROVE Fresh(c)'
      BY <2>2 DEF AllFresh
    <3>1. c # d
      BY <2>2, ConnsAreNumbers
    <3> QED
      BY <2>4, <3>1 DEF CoreInv, AllFresh, Kept
  <2>7. \A c \in Conns : Life(c)' /\ Counts(c)' /\ Reported(c)'
    BY <2>4, <2>5, ConnsAreNumbers DEF Kept
  <2>8. Lives' /\ Accounts' /\ AllReported'
    BY <2>7 DEF Lives, Accounts, AllReported
  <2> QED
    BY <2>3, <2>6, <2>8 DEF CoreInv
<1>4. CASE \E l \in Conns : MakesOne(l, ToPair(r, lp))
  <2>1. PICK l \in Conns : MakesOne(l, ToPair(r, lp))
    BY <1>4
  <2>0. PICK n \in Conns : n = nextId
    BY <2>1 DEF MakesOne
  <2>2. /\ n \in Conns /\ nextId' = n + 1 /\ forkedFrom' = [forkedFrom EXCEPT ![n] = l]
        /\ sock'[n] = "connected" /\ established'[n]
        /\ arrived'[n] = arrived[n] /\ eof'[n] = eof[n] /\ fault'[n] = fault[n]
        /\ got'[n] = got[n] /\ told'[n] = told[n]
        /\ \A c \in Conns : c # n => StackSame(c) /\ AppSame(c)
    BY <2>1, <2>0 DEF MakesOne
  <2>3. nextId' \in 1 .. MaxConns + 1 /\ l \in 0 .. MaxConns /\ l # None
    BY <2>2, StackAssumption DEF StackAssumption, Conns, None
  <2>4. Types'
    BY <1>1, <1>2, <2>2, <2>3 DEF CoreInv, Types, ConnTypes, AppTypes
  <2>5. \A c \in Conns : c # n => Kept(c)
    <3>1. \A c \in Conns : c # n => forkedFrom'[c] = forkedFrom[c]
      BY <2>2 DEF CoreInv, Types, ConnTypes
    <3> QED
      BY <1>2, <2>2, <3>1, SameKeeps
  <2>6. Fresh(n) /\ Counts(n) /\ forkedFrom'[n] = l
    <3>1. n \notin Known
      BY <2>0, StackAssumption DEF CoreInv, Types, ConnTypes, StackAssumption, Known
    <3> QED
      BY <2>2, <3>1 DEF CoreInv, AllFresh, Accounts, Types, ConnTypes
  <2>7. Life(n)' /\ Counts(n)' /\ Reported(n)'
    <3>1. Life(n)'
      BY <1>2, <2>2, <2>3, <2>6 DEF Life, Fresh
    <3>2. Counts(n)'
      BY <1>2, <2>2, <2>6 DEF Counts, Fresh
    <3>3. Reported(n)'
      BY <2>3, <2>6 DEF Reported
    <3> QED
      BY <3>1, <3>2, <3>3
  <2>8. \A c \in Conns : c \notin Known' => c \notin Known /\ c # n
    BY <2>0, <2>2, StackAssumption DEF CoreInv, Types, ConnTypes, Known, Conns, StackAssumption
  <2>9. AllFresh'
    BY <2>5, <2>8 DEF CoreInv, AllFresh, Kept
  <2>10. \A c \in Conns : Life(c)' /\ Counts(c)' /\ Reported(c)'
    BY <2>5, <2>7 DEF Kept
  <2>11. Lives' /\ Accounts' /\ AllReported'
    BY <2>10 DEF Lives, Accounts, AllReported
  <2> QED
    BY <2>4, <2>9, <2>11 DEF CoreInv
<1> QED
  BY <1>3, <1>4, SegmentEffect

LEMMA CoreStep == CoreInv /\ [Next]_vars => CoreInv'
<1> SUFFICES ASSUME CoreInv, [Next]_vars PROVE CoreInv'
  OBVIOUS
<1>1. ASSUME NEW r \in Remotes, NEW lp \in {Undef} \cup Asked, OpenActive(r, lp) PROVE CoreInv'
  BY <1>1, CoreOpenActive
<1>2. ASSUME NEW lp \in Ports, OpenPassive(lp) PROVE CoreInv'
  BY <1>2, CoreOpenPassive
<1>3. ASSUME NEW c \in Conns, Accept(c) \/ Close(c) \/ Abort(c) PROVE CoreInv'
  BY <1>3, CoreAccept, CoreClose, CoreAbort
<1>4. ASSUME NEW c \in Conns, NEW k \in 0 .. MaxSent, Send(c, k) PROVE CoreInv'
  BY <1>4, CoreSend
<1>5. ASSUME NEW k \in [Conns -> 0 .. MaxSent], NEW lost \in Few, Timer(k, lost) PROVE CoreInv'
  BY <1>5, CoreTimer
<1>6. ASSUME NEW r \in Remotes, NEW lp \in LocalPorts, Segment(r, lp) PROVE CoreInv'
  BY <1>6, CoreSegment
<1>7. CASE Sends \/ UNCHANGED vars
  <2>1. UNCHANGED <<nextId, listener, forkedFrom, established, onClose, disconnected, sendQueue,
                    given, taken, got, told, sock, arrived, eof, fault>>
    BY <1>7 DEF Sends, SendToIP, vars, app, conns, stack
  <2> QED
    BY <2>1 DEF CoreInv, Types, ConnTypes, AppTypes, StackTypes, AllFresh, Fresh, Known, Lives, Life,
                Accounts, Counts, AllReported, Reported, Heard, Notices
<1> QED
  BY <1>1, <1>2, <1>3, <1>4, <1>5, <1>6, <1>7 DEF Next

\* The inductive invariant of the module's own bookkeeping: what is sent, read
\* and told, for every number of connections and every behaviour of the stack.
THEOREM CoreInvariant == Spec => []CoreInv
  BY CoreInit, CoreStep, PTL DEF Spec

\* Nothing that could be told is left in the stack after a handler.
THEOREM AlwaysDrained == Spec => []Drained
<1>1. CoreInv => Drained
  <2> SUFFICES ASSUME CoreInv, NEW c \in Known, sock[c] = "connected", forkedFrom[c] = None, ~disconnected[c]
               PROVE  /\ got[c] = arrived[c] /\ established[c]
                      /\ eof[c] /\ fault[c] = "none" => "peer closed" \in told[c]
    BY DEF Drained
  <2>1. c \in Conns
    BY StackAssumption DEF CoreInv, Types, ConnTypes, StackAssumption, Known, Conns
  <2> QED
    BY <2>1 DEF CoreInv, AllReported, Reported, Heard, Notices
<1> QED
  BY <1>1, CoreInvariant, PTL

-----------------------------------------------------------------------------
(* TcpNsc implements TcpService.                                           *)

phaseBar == [c \in Conns |-> PhaseOf(c)]

LEMMA InitRefines == Init => Service!Init
BY DEF Init, Service!Init, PhaseOf, Known

\* Flags that say the same before and after say the same phase.
LEMMA PhaseStays ==
  ASSUME NEW c, c \in Known <=> c \in Known',
         listener'[c] = listener[c], forkedFrom'[c] = forkedFrom[c], established'[c] = established[c]
  PROVE  PhaseOf(c)' = PhaseOf(c)
BY DEF PhaseOf

LEMMA OpenRefines ==
  ASSUME CoreInv, NEW n \in Conns, n = nextId, nextId' = n + 1, Fresh(n),
         UNCHANGED <<given, taken, got, told, onClose, disconnected, forkedFrom, established>>,
         listener' = listener \/ listener' = [listener EXCEPT ![n] = TRUE]
  PROVE  Service!Opens(n)
<1>1. n \notin Known /\ \A c : c \in Known' <=> c \in Known \cup {n}
  BY StackAssumption DEF CoreInv, Types, ConnTypes, StackAssumption, Known
<1>2. phaseBar[n] = "none"
  BY <1>1 DEF phaseBar, PhaseOf
<1>3. \A c \in Conns : c # n => PhaseOf(c)' = PhaseOf(c)
  BY <1>1, PhaseStays DEF CoreInv, Types, ConnTypes
<1>4. PhaseOf(n)' \in {"opening", "listening"}
  BY <1>1 DEF PhaseOf, Fresh
<1>5. phaseBar' = [phaseBar EXCEPT ![n] = PhaseOf(n)']
  BY <1>3 DEF phaseBar
<1> QED
  BY <1>2, <1>4, <1>5 DEF Service!Opens, phaseBar

\* The phases and Known, when no connection is made and no flag changes.
LEMMA PhasesStay ==
  ASSUME UNCHANGED <<nextId, listener, forkedFrom, established>>
  PROVE  phaseBar' = phaseBar
BY DEF phaseBar, PhaseOf, Known

LEMMA OpenActiveRefines ==
  ASSUME CoreInv, NEW r \in Remotes, NEW lp, OpenActive(r, lp)
  PROVE  \E c \in Conns : Service!Opens(c)
<1>1. PICK n \in Conns : n = nextId
  BY DEF OpenActive, Creates
<1>2. /\ nextId' = n + 1 /\ listener' = listener
      /\ UNCHANGED <<given, taken, got, told, onClose, disconnected, forkedFrom, established>>
  BY <1>1 DEF OpenActive, Creates, app
<1>3. Fresh(n)
  BY <1>1, StackAssumption DEF CoreInv, AllFresh, Types, ConnTypes, Known, StackAssumption
<1> QED
  BY <1>1, <1>2, <1>3, OpenRefines

LEMMA OpenPassiveRefines ==
  ASSUME CoreInv, NEW lp, OpenPassive(lp)
  PROVE  \E c \in Conns : Service!Opens(c)
<1>1. PICK n \in Conns : n = nextId
  BY DEF OpenPassive, Creates
<1>2. /\ nextId' = n + 1 /\ listener' = [listener EXCEPT ![n] = TRUE]
      /\ UNCHANGED <<given, taken, got, told, onClose, disconnected, forkedFrom, established>>
  BY <1>1 DEF OpenPassive, Creates, Listens, app
<1>3. Fresh(n)
  BY <1>1, StackAssumption DEF CoreInv, AllFresh, Types, ConnTypes, Known, StackAssumption
<1> QED
  BY <1>1, <1>2, <1>3, OpenRefines

\* What is told of one connection, and late of others, the service tells.
LEMMA LateIsOpen ==
  ASSUME CoreInv, NEW c \in Conns, Late(c)
  PROVE  phaseBar[c] = "open" /\ ~disconnected[c]
<1>1. sock[c] = "connected" /\ ~disconnected[c] /\ forkedFrom[c] = None /\ Life(c) /\ Reported(c)
  BY DEF Late, Heard, CoreInv, Lives, AllReported
<1>2. c \in Known /\ ~listener[c] /\ established[c]
  BY <1>1 DEF CoreInv, AllFresh, Fresh, Life, Reported, Heard
<1> QED
  BY <1>1, <1>2 DEF phaseBar, PhaseOf

LEMMA LateTells ==
  ASSUME CoreInv, told' \in [Conns -> SUBSET AllNotices], NEW c \in Conns, NEW new,
         told'[c] = told[c] \cup new,
         \A d \in Conns \ {c} : told'[d] = told[d] \/ Late(d)
  PROVE  Service!Tells(c, new)
<1> DEFINE late == {d \in Conns \ {c} : told'[d] # told[d]}
<1>1. \A d \in late : phaseBar[d] = "open" /\ ~disconnected[d]
  BY LateIsOpen
<1>2. late \in SUBSET {d \in Conns \ {c} : phaseBar[d] = "open" /\ ~disconnected[d]}
  BY <1>1
<1>3. told' = [d \in Conns |-> told[d] \cup IF d = c THEN new
                                          ELSE IF d \in late THEN {"timed out"} ELSE {}]
  <2>1. \A d \in Conns : told'[d] = told[d] \cup IF d = c THEN new
                                               ELSE IF d \in late THEN {"timed out"} ELSE {}
    BY DEF Late
  <2> HIDE DEF late
  <2> QED
    BY <2>1
<1> HIDE DEF late
<1> QED
  BY <1>2, <1>3 DEF Service!Tells, phaseBar

LEMMA AcceptRefines ==
  ASSUME CoreInv, NEW c \in Conns, Accept(c)
  PROVE  Service!Establishes(c)
<1>1. /\ c \in Known /\ forkedFrom[c] # None /\ forkedFrom' = [forkedFrom EXCEPT ![c] = None]
      /\ got' = [got EXCEPT ![c] = arrived[c]]
      /\ told' = [told EXCEPT ![c] = @ \cup Notices(c)]
      /\ UNCHANGED <<given, taken, nextId, listener, established, onClose, disconnected>>
  BY DEF Accept, ReadAll
<1>2. Life(c) /\ Counts(c)
  BY DEF CoreInv, Lives, Accounts
<1>3. phaseBar[c] = "offered"
  BY <1>1, <1>2 DEF phaseBar, PhaseOf, Life
<1>4. PhaseOf(c)' = "open"
  BY <1>1, <1>2 DEF PhaseOf, Life, Known, CoreInv, Types, ConnTypes
<1>5. \A d \in Conns : d # c => PhaseOf(d)' = PhaseOf(d)
  BY <1>1, PhaseStays DEF Known, CoreInv, Types, ConnTypes
<1>6. phaseBar' = [phaseBar EXCEPT ![c] = "open"]
  BY <1>4, <1>5 DEF phaseBar
<1>7. ~disconnected[c]
  BY <1>1, <1>2 DEF Life
<1>8. Service!Rises(c, got, got')
  BY <1>1, <1>2 DEF Counts, Service!Rises, CoreInv, Types, AppTypes
<1>9. Notices(c) \in SUBSET Service!Notices
  BY NoticesTyped DEF CoreInv, Types, AllNotices, Service!Notices
<1>10. \E new \in SUBSET Service!Notices : Service!Tells(c, new)
  <2>1. /\ told' \in [Conns -> SUBSET AllNotices] /\ told'[c] = told[c] \cup Notices(c)
        /\ \A d \in Conns \ {c} : told'[d] = told[d]
    BY <1>1, NoticesTyped DEF CoreInv, Types, AppTypes
  <2>2. Service!Tells(c, Notices(c))
    BY <2>1, LateTells
  <2> QED
    BY <1>9, <2>2
<1> QED
  BY <1>1, <1>3, <1>6, <1>7, <1>8, <1>10 DEF Service!Establishes, phaseBar

\* What the application may do, it may do in the service.
LEMMA OwnPhases ==
  ASSUME CoreInv, NEW c \in Conns, c \in Known, forkedFrom[c] = None
  PROVE  /\ phaseBar[c] \in {"opening", "listening", "open"}
         /\ ~listener[c] => phaseBar[c] \in {"opening", "open"}
BY DEF phaseBar, PhaseOf

LEMMA SendRefines ==
  ASSUME CoreInv, NEW c \in Conns, NEW k \in 0 .. MaxSent, Send(c, k)
  PROVE  Service!Gives(c)
<1>1. /\ c \in Known /\ ~listener[c] /\ forkedFrom[c] = None /\ ~onClose[c]
      /\ k \in 0 .. sendQueue[c] + 1
      /\ given' = [given EXCEPT ![c] = @ + 1] /\ taken' = [taken EXCEPT ![c] = @ + k]
      /\ UNCHANGED <<got, told, nextId, listener, forkedFrom, established, onClose, disconnected>>
  BY DEF Send, MaySend
<1>2. given[c] \in Nat /\ taken[c] \in Nat /\ sendQueue[c] \in Nat /\ given[c] = taken[c] + sendQueue[c]
  BY DEF CoreInv, Types, AppTypes, ConnTypes, Accounts, Counts
<1>3. given'[c] = given[c] + 1 /\ taken'[c] = taken[c] + k
  BY <1>1 DEF CoreInv, Types, AppTypes
<1>4. given[c] <= given'[c] /\ taken[c] <= taken'[c] /\ taken'[c] <= given'[c]
  <2>1. k \in 0 .. sendQueue[c] + 1
    BY <1>1
  <2> QED
    BY ONLY <1>2, <1>3, <2>1
<1>5. Service!Rises(c, given, given') /\ Service!Rises(c, taken, taken')
  BY <1>1, <1>4 DEF Service!Rises, CoreInv, Types, AppTypes
<1>6. phaseBar[c] \in {"opening", "open"} /\ phaseBar' = phaseBar
  BY <1>1, OwnPhases, PhasesStay
<1> QED
  BY <1>1, <1>4, <1>5, <1>6 DEF Service!Gives, phaseBar

LEMMA CloseRefines ==
  ASSUME CoreInv, NEW c \in Conns, Close(c) \/ Abort(c)
  PROVE  Service!Closes(c)
<1>1. /\ c \in Known /\ forkedFrom[c] = None /\ ~onClose[c]
      /\ onClose' = [onClose EXCEPT ![c] = TRUE]
      /\ given' \in {given, [given EXCEPT ![c] = taken[c]]}
      /\ UNCHANGED <<taken, got, told, nextId, listener, forkedFrom, established, disconnected>>
  BY DEF Close, Abort, app
<1>2. phaseBar[c] \in {"opening", "listening", "open"} /\ phaseBar' = phaseBar
  BY <1>1, OwnPhases, PhasesStay
<1> QED
  BY <1>1, <1>2 DEF Service!Closes, phaseBar

LEMMA TimerRefines ==
  ASSUME CoreInv, NEW k \in [Conns -> 0 .. MaxSent], NEW lost \in Few, Timer(k, lost)
  PROVE  Service!Takes
<1>1. UNCHANGED <<given, got, told, nextId, listener, forkedFrom, established, onClose>>
  BY DEF Timer
<1>2. ASSUME NEW c \in Conns
      PROVE  /\ taken[c] <= taken'[c] /\ taken'[c] <= given[c]
             /\ disconnected[c] => disconnected'[c]
             /\ disconnected'[c] # disconnected[c] => onClose[c] /\ taken'[c] = given[c]
  <2>1. /\ k[c] \in 0 .. sendQueue[c] /\ taken'[c] = taken[c] + k[c]
        /\ disconnected'[c] = (disconnected[c] \/ (c \in Known /\ ClosesNow(c, sendQueue[c] - k[c])))
    BY DEF Timer, Take, Takable
  <2>2. given[c] \in Nat /\ taken[c] \in Nat /\ sendQueue[c] \in Nat /\ given[c] = taken[c] + sendQueue[c]
    BY DEF CoreInv, Types, AppTypes, ConnTypes, Accounts, Counts
  <2>3. taken[c] <= taken'[c] /\ taken'[c] <= given[c]
    BY ONLY <2>1, <2>2
  <2>4. sendQueue[c] - k[c] = 0 => taken'[c] = given[c]
    BY ONLY <2>1, <2>2
  <2> HIDE DEF Live
  <2>5. disconnected'[c] # disconnected[c] => onClose[c] /\ sendQueue[c] - k[c] = 0
    BY <2>1 DEF ClosesNow, CoreInv, Types, ConnTypes
  <2> QED
    BY <2>1, <2>3, <2>4, <2>5
<1>3. phaseBar' = phaseBar
  BY <1>1, PhasesStay
<1> QED
  BY <1>1, <1>2, <1>3 DEF Service!Takes, phaseBar

ServiceStays == UNCHANGED <<phaseBar, given, taken, got, told, onClose, disconnected>>

\* Nothing is seen of a segment that the loop has nothing to tell of, but that
\* sockets were given up earlier.
LEMMA SilentRefines ==
  ASSUME CoreInv, UNCHANGED <<given, taken, listener, onClose, disconnected, nextId, forkedFrom>>,
         established' \in [Conns -> BOOLEAN], got' \in [Conns -> Nat],
         told' \in [Conns -> SUBSET AllNotices], \A c \in Conns : AppSame(c)
  PROVE  ServiceStays \/ \E c \in Conns : Service!Delivers(c)
<1>1. established' = established /\ got' = got
  BY DEF AppSame, CoreInv, Types, ConnTypes, AppTypes
<1>2. phaseBar' = phaseBar
  BY <1>1, PhasesStay
<1>3. CASE \A c \in Conns : told'[c] = told[c]
  <2>1. told' = told
    BY <1>3 DEF CoreInv, Types, AppTypes
  <2> QED
    BY <1>1, <1>2, <2>1 DEF ServiceStays
<1>4. CASE \E c \in Conns : told'[c] # told[c]
  <2>1. PICK d \in Conns : told'[d] # told[d]
    BY <1>4
  <2>2. Late(d) /\ told'[d] = told[d] \cup {"timed out"}
    BY <2>1 DEF AppSame, Late
  <2>3. phaseBar[d] = "open" /\ ~disconnected[d]
    BY <2>2, LateIsOpen
  <2>4. Service!Tells(d, {"timed out"})
    <3>1. \A c \in Conns \ {d} : told'[c] = told[c] \/ Late(c)
      BY DEF AppSame
    <3> QED
      BY <2>2, <3>1, LateTells
  <2>5. \E new \in SUBSET Service!Notices : Service!Tells(d, new)
    <3>1. {"timed out"} \in SUBSET Service!Notices
      BY DEF Service!Notices
    <3> QED
      BY <2>4, <3>1
  <2>6. Service!Rises(d, got, got')
    <3>1. got[d] \in Nat
      BY DEF CoreInv, Types, AppTypes
    <3>2. got[d] <= got[d]
      BY ONLY <3>1
    <3> QED
      BY <1>1, <3>2 DEF Service!Rises
  <2>7. Service!Delivers(d)
    BY <1>1, <1>2, <2>3, <2>5, <2>6 DEF Service!Delivers, phaseBar
  <2> QED
    BY <2>7
<1> QED
  BY <1>3, <1>4

\* A connection that is read is established by it, or has it delivered.
LEMMA ReadRefines ==
  ASSUME CoreInv, StackTypes', UNCHANGED <<given, taken, listener, onClose, disconnected, nextId, forkedFrom>>,
         established' \in [Conns -> BOOLEAN], got' \in [Conns -> Nat],
         told' \in [Conns -> SUBSET AllNotices],
         NEW d \in Conns, d \in Known, Live(d), Moved(d), Served(d), Read(d),
         \A c \in Conns : c # d => AppSame(c)
  PROVE  Service!Establishes(d) \/ Service!Delivers(d)
<1>1. Life(d) /\ Counts(d)
  BY DEF CoreInv, Lives, Accounts
<1>2. /\ ~listener[d] /\ ~disconnected[d] /\ forkedFrom[d] = None /\ established'[d]
      /\ got'[d] = arrived'[d] /\ told'[d] = told[d] \cup Notices(d)'
  BY <1>1 DEF Read, Heard, Served, Live, Life
<1>3. Service!Rises(d, got, got')
  <2>1. /\ got[d] \in Nat /\ arrived[d] \in Nat /\ arrived'[d] \in Nat
        /\ got[d] <= arrived[d] /\ arrived[d] <= arrived'[d]
    BY <1>1 DEF Counts, Moved, CoreInv, Types, AppTypes, StackTypes
  <2>2. got[d] <= got'[d]
    BY ONLY <1>2, <2>1
  <2> QED
    BY <2>2 DEF Service!Rises, AppSame
<1>4. \E new \in SUBSET Service!Notices : Service!Tells(d, new)
  <2>1. Notices(d)' \in SUBSET Service!Notices
    BY DEF StackTypes, Notices, Faults, Service!Notices
  <2>2. Service!Tells(d, Notices(d)')
    BY <1>2, LateTells DEF AppSame
  <2> QED
    BY <2>1, <2>2
<1>5. phaseBar' = [phaseBar EXCEPT ![d] = "open"]
  <2>1. \A c \in Conns : c # d => PhaseOf(c)' = PhaseOf(c)
    BY PhaseStays DEF AppSame, Known
  <2>2. PhaseOf(d)' = "open"
    BY <1>2 DEF PhaseOf, Known
  <2> QED
    BY <2>1, <2>2 DEF phaseBar
<1>6. CASE ~established[d]
  <2>1. phaseBar[d] = "opening"
    BY <1>2, <1>6 DEF phaseBar, PhaseOf
  <2> QED
    BY <1>2, <1>3, <1>4, <1>5, <2>1 DEF Service!Establishes, phaseBar
<1>7. CASE established[d]
  <2>1. phaseBar[d] = "open"
    BY <1>2, <1>7 DEF phaseBar, PhaseOf
  <2>2. phaseBar' = phaseBar
    BY <1>5, <2>1 DEF phaseBar
  <2>3. ASSUME "peer closed" \in told[d] PROVE got' = got
    <3>1. got'[d] = got[d]
      BY <1>1, <1>2, <2>3 DEF Counts, Moved
    <3> QED
      BY <3>1 DEF AppSame, CoreInv, Types, AppTypes
  <2> QED
    BY <1>2, <1>3, <1>4, <2>1, <2>2, <2>3 DEF Service!Delivers, phaseBar
<1> QED
  BY <1>6, <1>7

LEMMA SegmentRefines ==
  ASSUME CoreInv, NEW r \in Remotes, NEW lp, Segment(r, lp)
  PROVE  ServiceStays \/ \E c \in Conns : \/ Service!Establishes(c) \/ Service!Delivers(c)
                                          \/ Service!Offers(c)
<1>1. /\ StackTypes'
      /\ established' \in [Conns -> BOOLEAN]
      /\ got' \in [Conns -> Nat] /\ told' \in [Conns -> SUBSET AllNotices]
  BY SegmentEffect
<1>2. UNCHANGED <<given, taken, listener, onClose, disconnected, sendQueue>>
  BY DEF Segment
<1>3. ASSUME NEW d \in Conns \cup {None}, MovesOne(d, ToPair(r, lp))
      PROVE  ServiceStays \/ \E c \in Conns : Service!Establishes(c) \/ Service!Delivers(c)
  <2>1. /\ nextId' = nextId /\ forkedFrom' = forkedFrom
        /\ d # None => d \in Conns /\ d \in Known /\ Live(d) /\ Moved(d) /\ Served(d)
        /\ \A c \in Conns : c # d => AppSame(c)
    BY <1>3 DEF MovesOne
  <2>2. CASE d # None /\ Read(d)
    BY <1>1, <1>2, <2>1, <2>2, ReadRefines
  <2>3. CASE d = None \/ ~Read(d)
    <3>1. \A c \in Conns : AppSame(c)
      <4> SUFFICES ASSUME NEW c \in Conns PROVE AppSame(c)
        OBVIOUS
      <4>1. ASSUME c = d PROVE AppSame(d)
        <5>1. Life(d) /\ Served(d) /\ ~Read(d) /\ d \in Conns
          BY <2>1, <2>3, <4>1, ConnsAreNumbers DEF CoreInv, Lives
        <5>2. Heard(d)' => established[d]
          BY <5>1 DEF Read, Life
        <5>3. established'[d] = established[d]
          BY <1>1, <5>1, <5>2 DEF Served, CoreInv, Types, ConnTypes
        <5> QED
          BY <5>1, <5>3 DEF Served, AppSame
      <4> QED
        BY <2>1, <4>1
    <3> QED
      BY <1>1, <1>2, <2>1, <3>1, SilentRefines
  <2> QED
    BY <2>2, <2>3
<1>4. ASSUME NEW l \in Conns, MakesOne(l, ToPair(r, lp))
      PROVE  \E c \in Conns : Service!Offers(c)
  <2>1. PICK n \in Conns : n = nextId
    BY <1>4 DEF MakesOne
  <2>2. /\ l \in Known /\ sock[l] = "listening"
        /\ nextId' = n + 1 /\ forkedFrom' = [forkedFrom EXCEPT ![n] = l]
        /\ established'[n] /\ got'[n] = got[n] /\ told'[n] = told[n]
        /\ \A c \in Conns : c # n => AppSame(c)
    BY <1>4, <2>1 DEF MakesOne
  <2>3. /\ n \notin Known /\ \A c : c \in Known' <=> c \in Known \cup {n}
        /\ Fresh(n)
    BY <2>1, <2>2, StackAssumption DEF CoreInv, AllFresh, Types, ConnTypes, StackAssumption, Known
  <2>4. phaseBar[n] = "none" /\ phaseBar[l] = "listening"
    BY <2>2, <2>3 DEF phaseBar, PhaseOf, CoreInv, Lives, Life
  <2>5. \A c \in Conns : c # n => PhaseOf(c)' = PhaseOf(c)
    BY <1>2, <2>2, <2>3, PhaseStays DEF AppSame, CoreInv, Types, ConnTypes
  <2>6. PhaseOf(n)' = "offered"
    <3>1. ~listener'[n] /\ forkedFrom'[n] = l /\ n \in Known' /\ l # None
      BY <1>2, <2>2, <2>3, ConnsAreNumbers DEF Fresh, CoreInv, Types, ConnTypes
    <3> QED
      BY <3>1 DEF PhaseOf
  <2>7. phaseBar' = [phaseBar EXCEPT ![n] = "offered"]
    BY <2>5, <2>6 DEF phaseBar
  <2>8. got' = got
    BY <1>1, <2>2 DEF AppSame, CoreInv, Types, AppTypes
  <2>9. Service!Tells(n, {})
    <3>1. told'[n] = told[n] \cup {}
      BY <2>2
    <3>2. \A c \in Conns \ {n} : told'[c] = told[c] \/ Late(c)
      BY <2>2 DEF AppSame
    <3> QED
      BY <1>1, <3>1, <3>2, LateTells
  <2> QED
    BY <1>2, <2>4, <2>7, <2>8, <2>9 DEF Service!Offers, phaseBar
<1> QED
  BY <1>3, <1>4, SegmentEffect

LEMMA StepRefines == CoreInv /\ [Next]_vars => [Service!Next]_(Service!vars)
<1> SUFFICES ASSUME CoreInv, [Next]_vars PROVE Service!Next \/ ServiceStays
  BY DEF ServiceStays, phaseBar, Service!vars
<1> USE DEF Service!Next
<1>1. ASSUME NEW r \in Remotes, NEW lp \in {Undef} \cup Asked, OpenActive(r, lp) PROVE Service!Next
  BY <1>1, OpenActiveRefines
<1>2. ASSUME NEW lp \in Ports, OpenPassive(lp) PROVE Service!Next
  BY <1>2, OpenPassiveRefines
<1>3. ASSUME NEW c \in Conns, Accept(c) PROVE Service!Next
  BY <1>3, AcceptRefines
<1>4. ASSUME NEW c \in Conns, Close(c) \/ Abort(c) PROVE Service!Next
  BY <1>4, CloseRefines
<1>5. ASSUME NEW c \in Conns, NEW k \in 0 .. MaxSent, Send(c, k) PROVE Service!Next
  BY <1>5, SendRefines
<1>6. ASSUME NEW k \in [Conns -> 0 .. MaxSent], NEW lost \in Few, Timer(k, lost) PROVE Service!Next
  BY <1>6, TimerRefines
<1>7. ASSUME NEW r \in Remotes, NEW lp \in LocalPorts, Segment(r, lp) PROVE Service!Next \/ ServiceStays
  BY <1>7, SegmentRefines
<1>8. CASE Sends \/ UNCHANGED vars
  <2>1. UNCHANGED <<given, taken, got, told, nextId, listener, forkedFrom, established,
                    onClose, disconnected>>
    BY <1>8 DEF Sends, SendToIP, vars, app, conns
  <2> QED
    BY <2>1, PhasesStay DEF ServiceStays
<1> QED
  BY <1>1, <1>2, <1>3, <1>4, <1>5, <1>6, <1>7, <1>8 DEF Next

\* TcpNsc implements TcpService for every number of connections, every
\* exchange of bytes and every behaviour of the stack: what the applications
\* see is what a transport layer promises.
THEOREM Implements == Spec => ImplementsService
  BY InitRefines, StepRefines, CoreInvariant, PTL DEF Spec, ImplementsService, Service!Spec

-----------------------------------------------------------------------------
(* The maps agree with the stack.                                          *)

\* The numbers of the addresses are 1, 2, ... without a gap.
AddrInv(m) ==
  /\ IsFiniteSet(DOMAIN m) /\ Range(m) = 1 .. Cardinality(DOMAIN m)
  /\ \A a, b \in DOMAIN m : m[a] = m[b] => a = b

LEMMA FreshNumber ==
  ASSUME NEW m, AddrInv(m), NEW a, a \notin DOMAIN m
  PROVE  FirstFreeAddr(m, a) = Cardinality(DOMAIN m) + 1
<1> DEFINE N == Cardinality(DOMAIN m)
           Free(n) == n \notin Range(m) /\ \A k \in 1 .. n-1 : k \in Range(m)
<1>1. N \in Nat /\ Range(m) = 1 .. N
  BY FS_CardinalityType DEF AddrInv
<1>2. FirstFreeAddr(m, a) = CHOOSE n \in 1 .. N+1 : Free(n)
  BY DEF FirstFreeAddr
<1> HIDE DEF N
<1>3. N+1 \in 1 .. N+1 /\ Free(N+1)
  BY <1>1
<1>4. \A n \in 1 .. N+1 : Free(n) => n = N+1
  BY <1>1
<1> HIDE DEF Free
<1>5. (CHOOSE n \in 1 .. N+1 : Free(n)) = N+1
  BY <1>3, <1>4
<1> QED
  BY <1>2, <1>5 DEF N

LEMMA MappedAgrees ==
  ASSUME NEW m, AddrInv(m), NEW a
  PROVE  /\ AddrInv(Mapped(m, a))
         /\ a \in DOMAIN Mapped(m, a) /\ Mapped(m, a)[a] = FirstFreeAddr(m, a)
         /\ \A b \in DOMAIN m : b \in DOMAIN Mapped(m, a) /\ Mapped(m, a)[b] = m[b]
<1> DEFINE w == Mapped(m, a)
           n == FirstFreeAddr(m, a)
<1>1. DOMAIN w = DOMAIN m \cup {a} /\ \A x \in DOMAIN w : w[x] = IF x = a THEN n ELSE m[x]
  BY DEF Mapped
<1>2. CASE a \in DOMAIN m
  <2>1. n = m[a]
    BY <1>2 DEF FirstFreeAddr
  <2> HIDE DEF w, n
  <2>2. DOMAIN w = DOMAIN m /\ \A x \in DOMAIN m : w[x] = m[x]
    BY <1>1, <1>2, <2>1
  <2>3. Range(w) = Range(m)
    BY <2>2 DEF Range
  <2>4. AddrInv(w)
    BY <2>2, <2>3 DEF AddrInv
  <2> QED
    BY <1>1, <1>2, <2>1, <2>2, <2>4 DEF w, n
<1>3. CASE a \notin DOMAIN m
  <2> DEFINE N == Cardinality(DOMAIN m)
  <2>1. n = N + 1 /\ N \in Nat /\ Range(m) = 1 .. N /\ IsFiniteSet(DOMAIN m)
    BY <1>3, FreshNumber, FS_CardinalityType DEF AddrInv
  <2>2. IsFiniteSet(DOMAIN w) /\ Cardinality(DOMAIN w) = N + 1
    BY <1>1, <1>3, <2>1, FS_AddElement
  <2> HIDE DEF w, n, N
  <2>3. \A x \in DOMAIN m : w[x] = m[x] /\ m[x] \in 1 .. N
    BY <1>1, <1>3, <2>1 DEF Range
  <2>4. w[a] = N + 1
    BY <1>1, <2>1
  <2>5. Range(w) = 1 .. N + 1
    <3>1. Range(w) = Range(m) \cup {N + 1}
      BY <1>1, <2>3, <2>4 DEF Range
    <3> QED
      BY <2>1, <3>1
  <2>6. ASSUME NEW x \in DOMAIN w, NEW y \in DOMAIN w, w[x] = w[y] PROVE x = y
    <3>1. CASE x = a \/ y = a
      BY <1>1, <2>1, <2>3, <2>4, <2>6, <3>1
    <3>2. CASE x # a /\ y # a
      BY <1>1, <2>3, <2>6, <3>2 DEF AddrInv
    <3> QED
      BY <3>1, <3>2
  <2>7. AddrInv(w)
    BY <2>2, <2>5, <2>6 DEF AddrInv
  <2> QED
    BY <1>1, <1>3, <2>3, <2>7 DEF w, n
<1> QED
  BY <1>2, <1>3

\* What the module knows of a socket.
Route(c) ==
  /\ sock[c] = "listening" => pair[c].lp \in Ports /\ inetPair[c].lp = pair[c].lp
  /\ Live(c) =>
       /\ pair[c].la = Inner /\ pair[c].lp \in Ports \cup {Ephemeral(c)}
       /\ nscPair[c] = pair[c]
       /\ pair[c] \in DOMAIN nscMap /\ nscMap[pair[c]] = c
       /\ inetPair[c].ra \in DOMAIN nscAddr /\ nscAddr[inetPair[c].ra] = pair[c].ra

RouteInv ==
  /\ AddrInv(nscAddr)
  /\ DOMAIN pair = Conns /\ DOMAIN inetPair = Conns /\ DOMAIN nscPair = Conns
  /\ \A c \in Conns : c \notin Known => nscPair[c] = NoPair
  /\ \A c \in Conns : Route(c)

LEMMA RouteInit == Init => RouteInv
<1> SUFFICES ASSUME Init PROVE RouteInv
  OBVIOUS
<1>1. DOMAIN nscAddr = {} /\ Range(nscAddr) = {}
  BY DEF Init, NoMap, Range
<1>2. AddrInv(nscAddr)
  BY <1>1, FS_EmptySet DEF AddrInv
<1>3. \A c \in Conns : Route(c)
  BY DEF Init, Route, Live
<1> QED
  BY <1>2, <1>3 DEF RouteInv, Init

LEMMA LiveKnown ==
  ASSUME CoreInv, NEW c \in Conns, Live(c) \/ sock[c] = "listening"
  PROVE  c \in Known
BY DEF CoreInv, AllFresh, Fresh, Live

\* A map keeps what it says of a pair that is neither the old nor the new one.
LEMMA RekeyedKeeps ==
  ASSUME NEW m, NEW c, NEW old, NEW new
  PROVE  /\ old # new => /\ new \in DOMAIN Rekeyed(m, c, old, new)
                         /\ Rekeyed(m, c, old, new)[new] = c
         /\ \A q \in DOMAIN m : q # old /\ q # new =>
               q \in DOMAIN Rekeyed(m, c, old, new) /\ Rekeyed(m, c, old, new)[q] = m[q]
BY DEF Rekeyed

LEMMA RouteOpenActive ==
  ASSUME CoreInv, RouteInv, NEW r \in Remotes, NEW lp, OpenActive(r, lp)
  PROVE  RouteInv'
<1>1. PICK c \in Conns : c = nextId
  BY DEF OpenActive, Creates
<1> DEFINE num   == FirstFreeAddr(nscAddr, r)
           asked == Pair(num, RemotePort, AnyAddr, IF lp = Undef THEN 0 ELSE lp)
           made  == Pair(num, RemotePort, Inner, Ephemeral(c))
           inet  == Pair(r, RemotePort, AnyAddr, lp)
           once  == Rekeyed(nscMap, c, NoPair, asked)
<1>2. /\ nextId' = c + 1 /\ nscAddr' = Mapped(nscAddr, r)
      /\ inetPair' = [inetPair EXCEPT ![c] = inet]
      /\ nscMap' = Rekeyed(once, c, asked, made)
      /\ nscPair' = [nscPair EXCEPT ![c] = made]
      /\ sock' = [sock EXCEPT ![c] = "connecting"]
      /\ pair' = [pair EXCEPT ![c] = made]
      /\ fault' = fault
  BY <1>1 DEF OpenActive, Creates
<1>3. /\ made.la = Inner /\ made.lp = Ephemeral(c) /\ made.ra = num /\ asked.la = AnyAddr
      /\ NoPair.la = AnyAddr /\ inet.ra = r
  BY DEF Pair, NoPair
<1> HIDE DEF num, asked, made, inet, once
<1>4. Inner # AnyAddr
  BY DEF Inner, AnyAddr
<1>5. /\ AddrInv(nscAddr') /\ r \in DOMAIN nscAddr' /\ nscAddr'[r] = num
      /\ \A b \in DOMAIN nscAddr : b \in DOMAIN nscAddr' /\ nscAddr'[b] = nscAddr[b]
  BY <1>2, MappedAgrees DEF RouteInv, num
<1>6. c \notin Known /\ \A d \in Conns : d \notin Known' => d \notin Known /\ d # c
  BY <1>1, <1>2, StackAssumption DEF CoreInv, Types, ConnTypes, StackAssumption, Known, Conns
<1>7. Route(c)'
  <2>1. made \in DOMAIN nscMap' /\ nscMap'[made] = c
    BY <1>2, <1>3, <1>4, RekeyedKeeps
  <2>2. sock'[c] = "connecting" /\ pair'[c] = made /\ nscPair'[c] = made /\ inetPair'[c] = inet
    BY <1>2 DEF RouteInv, CoreInv, Types, StackTypes
  <2> QED
    BY <1>3, <1>5, <2>1, <2>2 DEF Route
<1>8. ASSUME NEW d \in Conns, d # c PROVE Route(d)'
  <2>1. /\ sock'[d] = sock[d] /\ pair'[d] = pair[d] /\ nscPair'[d] = nscPair[d]
        /\ inetPair'[d] = inetPair[d] /\ Route(d)
    BY <1>2, <1>8 DEF RouteInv, CoreInv, Types, StackTypes
  <2>2. Live(d)' <=> Live(d)
    BY <1>2, <2>1 DEF Live
  <2>3. ASSUME Live(d) PROVE pair[d] \in DOMAIN nscMap' /\ nscMap'[pair[d]] = d
    <3>1. pair[d].lp # Ephemeral(c)
      <4>1. pair[d].lp \in Ports \cup {Ephemeral(d)}
        BY <2>1, <2>3 DEF Route
      <4>2. \A port \in Ports : port \in Nat /\ port < 1000
        BY StackAssumption DEF StackAssumption
      <4>3. c \in Nat /\ d \in Nat
        BY ConnsAreNumbers
      <4> QED
        BY <1>8, <4>1, <4>2, <4>3 DEF Ephemeral
    <3>2. pair[d] # NoPair /\ pair[d] # asked /\ pair[d] # made
      BY <1>3, <1>4, <2>1, <2>3, <3>1 DEF Route
    <3>3. pair[d] \in DOMAIN once /\ once[pair[d]] = d
      BY <2>1, <2>3, <3>2, RekeyedKeeps DEF Route, once
    <3> QED
      BY <1>2, <3>2, <3>3, RekeyedKeeps
  <2>4. sock[d] = "listening" => (pair[d].lp \in Ports /\ inetPair[d].lp = pair[d].lp)
    BY <2>1 DEF Route
  <2> QED
    BY <1>5, <2>1, <2>2, <2>3, <2>4 DEF Route
<1>9. \A d \in Conns : d \notin Known' => nscPair'[d] = NoPair
  BY <1>2, <1>6 DEF RouteInv
<1>10. DOMAIN pair' = Conns /\ DOMAIN inetPair' = Conns /\ DOMAIN nscPair' = Conns
  BY <1>2 DEF RouteInv
<1> QED
  BY <1>5, <1>7, <1>8, <1>9, <1>10 DEF RouteInv

LEMMA RouteOpenPassive ==
  ASSUME CoreInv, RouteInv, NEW lp \in Ports, OpenPassive(lp)
  PROVE  RouteInv'
<1>1. PICK c \in Conns : c = nextId
  BY DEF OpenPassive, Creates
<1> DEFINE any == Pair(AnyAddr, Undef, AnyAddr, lp)
<1>2. /\ nextId' = c + 1 /\ nscAddr' = nscAddr
      /\ inetPair' = [inetPair EXCEPT ![c] = any]
      /\ nscMap' = Rekeyed(nscMap, c, nscPair[c], any)
      /\ nscPair' = [nscPair EXCEPT ![c] = any]
      /\ sock' = [sock EXCEPT ![c] = "listening"]
      /\ pair' = [pair EXCEPT ![c] = any]
      /\ fault' = fault
  BY <1>1 DEF OpenPassive, Creates, Listens, ChangeAddresses
<1>3. any.la = AnyAddr /\ NoPair.la = AnyAddr /\ any.lp = lp /\ Inner # AnyAddr
  BY DEF Pair, NoPair, Inner, AnyAddr
<1> HIDE DEF any
<1>6. c \notin Known /\ \A d \in Conns : d \notin Known' => d \notin Known /\ d # c
  BY <1>1, <1>2, StackAssumption DEF CoreInv, Types, ConnTypes, StackAssumption, Known, Conns
<1>7. Route(c)'
  <2>1. sock'[c] = "listening" /\ pair'[c] = any /\ inetPair'[c] = any
    BY <1>2 DEF RouteInv, CoreInv, Types, StackTypes
  <2> QED
    BY <1>3, <2>1 DEF Route, Live
<1>8. ASSUME NEW d \in Conns, d # c PROVE Route(d)'
  <2>1. /\ sock'[d] = sock[d] /\ pair'[d] = pair[d] /\ nscPair'[d] = nscPair[d]
        /\ inetPair'[d] = inetPair[d] /\ Route(d)
    BY <1>2, <1>8 DEF RouteInv, CoreInv, Types, StackTypes
  <2>2. Live(d)' <=> Live(d)
    BY <1>2, <2>1 DEF Live
  <2>3. ASSUME Live(d) PROVE pair[d] \in DOMAIN nscMap' /\ nscMap'[pair[d]] = d
    <3>1. nscPair[c] = NoPair
      BY <1>6 DEF RouteInv
    <3>2. pair[d] # NoPair /\ pair[d] # any
      BY <1>3, <2>1, <2>3 DEF Route
    <3> QED
      BY <1>2, <2>1, <2>3, <3>1, <3>2, RekeyedKeeps DEF Route
  <2> QED
    BY <1>2, <2>1, <2>2, <2>3 DEF Route
<1>9. \A d \in Conns : d \notin Known' => nscPair'[d] = NoPair
  BY <1>2, <1>6 DEF RouteInv
<1>10. DOMAIN pair' = Conns /\ DOMAIN inetPair' = Conns /\ DOMAIN nscPair' = Conns
  BY <1>2 DEF RouteInv
<1>11. AddrInv(nscAddr')
  BY <1>2 DEF RouteInv
<1> QED
  BY <1>7, <1>8, <1>9, <1>10, <1>11 DEF RouteInv

\* Sockets that come to an end and nothing else: the timer, and what leaves the
\* stack alone.
LEMMA RouteKeeps ==
  ASSUME RouteInv, UNCHANGED <<nextId, maps, nscAddr, pair>>,
         \A c \in Conns : /\ Live(c)' => Live(c)
                          /\ sock'[c] = "listening" => sock[c] = "listening"
  PROVE  RouteInv'
<1>1. UNCHANGED <<nextId, inetPair, nscPair, nscMap, nscAddr, pair>>
  BY DEF maps
<1>2. \A c \in Conns : Route(c)'
  BY <1>1 DEF RouteInv, Route
<1> QED
  BY <1>1, <1>2 DEF RouteInv, Known

LEMMA RouteTimer ==
  ASSUME CoreInv, RouteInv, NEW k \in [Conns -> 0 .. MaxSent], NEW lost \in Few, Timer(k, lost)
  PROVE  RouteInv'
<1>1. UNCHANGED <<nextId, maps, nscAddr, pair>>
  BY DEF Timer
<1>2. \A c \in Conns :
        /\ sock'[c] \in {sock[c], "gone"}
        /\ fault'[c] = IF c \in lost THEN "timed out" ELSE fault[c]
  BY DEF Timer, TimesOut
<1> QED
  BY <1>1, <1>2, RouteKeeps DEF Live

\* What the loop takes to be of the segment's pair.
Changed(l) ==
  LET polled == {c \in Known : Polled(c)'}
  IN  (IF l = None THEN {} ELSE {nextId}) \cup {c \in polled : ~established[c]}
        \cup {c \in polled : Reads(c) /\ arrived'[c] > got[c]}

\* Nothing is new on a connection whose socket did not move.
LEMMA UnmovedUnchanged ==
  ASSUME CoreInv, NEW l, NEW c \in Changed(l), c # nextId, c \in Conns, disconnected' = disconnected
  PROVE  ~StackSame(c)
<1> SUFFICES ASSUME StackSame(c) PROVE FALSE
  OBVIOUS
<1>1. c \in Known /\ Polled(c)' /\ (~established[c] \/ (Reads(c) /\ arrived'[c] > got[c]))
  BY DEF Changed
<1>2. Heard(c)
  BY <1>1 DEF Polled, Heard, StackSame
<1>3. established[c] /\ (Reads(c) => got[c] = arrived[c])
  BY <1>2 DEF CoreInv, AllReported, Reported, Lives, Life, Reads
<1>4. arrived[c] \in Nat /\ arrived'[c] = arrived[c]
  BY DEF CoreInv, Types, StackTypes, StackSame
<1>5. Reads(c) /\ arrived'[c] > got[c]
  BY <1>1, <1>3
<1> QED
  BY <1>3, <1>4, <1>5

LEMMA PollRekeys ==
  ASSUME NEW l, NEW q, NEW p, Poll(l, q, p), NEW d, Changed(l) \subseteq {d},
         l # None => inetPair[l].lp = q.lp
  PROVE  /\ error' = error
         /\ IF d \in Changed(l) THEN ChangeAddresses(d, q, p) ELSE UNCHANGED maps
<1> DEFINE changed == Changed(l)
<1>1. /\ Assert(Cardinality(changed) <= 1 /\ (l # None => inetPair[l].lp = q.lp), "poll")
      /\ IF changed = {} THEN UNCHANGED maps
         ELSE ChangeAddresses(CHOOSE c \in changed : TRUE, q, p)
  <2>1. changed = (IF l = None THEN {} ELSE {nextId}) \cup {c \in {e \in Known : Polled(e)'} : ~established[c]}
                    \cup {c \in {e \in {g \in Known : Polled(g)'} : Reads(e)} : arrived'[c] > got[c]}
    BY DEF Changed
  <2> HIDE DEF changed
  <2> QED
    BY <2>1 DEF Poll
<1> HIDE DEF changed
<1>2. changed = {} \/ changed = {d}
  BY DEF changed
<1>3. Cardinality(changed) <= 1
  <2>1. CASE changed = {}
    <3>1. Cardinality(changed) = 0
      BY <2>1, FS_EmptySet
    <3> QED
      BY <3>1
  <2>2. CASE changed = {d}
    <3>1. Cardinality(changed) = 1
      BY <2>2, FS_Singleton
    <3> QED
      BY <3>1
  <2> QED
    BY <1>2, <2>1, <2>2
<1>4. error' = error
  BY <1>1, <1>3 DEF Assert
<1>5. changed = {d} => (CHOOSE c \in changed : TRUE) = d
  OBVIOUS
<1> QED
  BY <1>1, <1>2, <1>4, <1>5 DEF changed

LEMMA RouteSegment ==
  ASSUME CoreInv, RouteInv, NEW r \in Remotes, NEW lp, Segment(r, lp)
  PROVE  RouteInv' /\ error' = error
<1> DEFINE p == ToPair(r, lp)
           q == FromPair(r, lp)
<1>1. PICK l \in Known \cup {None} :
        /\ Poll(l, q, p)
        /\ l = None => \E d \in Conns \cup {None} : MovesOne(d, p)
        /\ l # None => l \in Conns /\ MakesOne(l, p)
  BY SegmentEffect
<1>2. nscAddr' = Mapped(nscAddr, r) /\ disconnected' = disconnected
  BY DEF Segment
<1>3. p.la = Inner /\ p.lp = lp /\ p.ra = FirstFreeAddr(nscAddr, r) /\ q.ra = r /\ q.lp = lp
  BY DEF ToPair, FromPair, Pair
<1> HIDE DEF p, q
<1>4. /\ AddrInv(nscAddr') /\ r \in DOMAIN nscAddr' /\ nscAddr'[r] = p.ra
      /\ \A b \in DOMAIN nscAddr : b \in DOMAIN nscAddr' /\ nscAddr'[b] = nscAddr[b]
  BY <1>2, <1>3, MappedAgrees DEF RouteInv
<1>5. Known \subseteq Conns /\ None \notin Conns
  BY StackAssumption DEF CoreInv, Types, ConnTypes, StackAssumption, Known, Conns, None
<1>6. NoPair.la # Inner
  BY DEF NoPair, Pair, Inner, AnyAddr
<1>7. CASE l = None
  <2>1. PICK d \in Conns \cup {None} : MovesOne(d, p)
    BY <1>1, <1>7
  <2>2. /\ nextId' = nextId /\ pair' = pair
        /\ d # None => d \in Conns /\ d \in Known /\ Live(d) /\ pair[d] = p /\ Moved(d)
        /\ \A c \in Conns : c # d => StackSame(c)
    BY <2>1 DEF MovesOne
  <2>3. Changed(l) \subseteq {d}
    <3> SUFFICES ASSUME NEW c \in Changed(l) PROVE c = d
      OBVIOUS
    <3>1. c \in Known /\ c \in Conns /\ c # nextId
      BY <1>5, <1>7, StackAssumption DEF Changed, CoreInv, Types, ConnTypes, StackAssumption, Known
    <3> QED
      BY <1>2, <2>2, <3>1, UnmovedUnchanged
  <2>4. /\ error' = error
        /\ IF d \in Changed(l) THEN ChangeAddresses(d, q, p) ELSE UNCHANGED maps
    BY <1>1, <1>7, <2>3, PollRekeys
  <2>5. d \in Changed(l) => d # None
    BY <1>5, <1>7 DEF Changed
  <2>6. /\ nscMap' = nscMap /\ DOMAIN nscPair' = Conns
        /\ \A c \in Conns : nscPair'[c] = nscPair[c]
        /\ \/ inetPair' = inetPair
           \/ d # None /\ inetPair' = [inetPair EXCEPT ![d] = q]
    <3>1. CASE d \in Changed(l)
      <4>1. nscPair[d] = p
        BY <2>2, <2>5, <3>1 DEF RouteInv, Route
      <4>2. nscMap' = nscMap
        BY <2>4, <3>1, <4>1 DEF ChangeAddresses, Rekeyed
      <4>3. DOMAIN nscPair' = Conns /\ \A c \in Conns : nscPair'[c] = nscPair[c]
        BY <2>2, <2>4, <2>5, <3>1, <4>1 DEF ChangeAddresses, RouteInv
      <4> QED
        BY <2>4, <2>5, <3>1, <4>2, <4>3 DEF ChangeAddresses
    <3>2. CASE d \notin Changed(l)
      BY <2>4, <3>2 DEF maps, RouteInv
    <3> QED
      BY <3>1, <3>2
  <2>7. ASSUME NEW c \in Conns, c # d PROVE Route(c)'
    <3>1. /\ sock'[c] = sock[c] /\ fault'[c] = fault[c] /\ pair'[c] = pair[c] /\ nscPair'[c] = nscPair[c]
          /\ inetPair'[c] = inetPair[c] /\ Route(c)
      BY <2>2, <2>6, <2>7 DEF RouteInv, StackSame
    <3> QED
      BY <1>4, <2>6, <3>1 DEF Route, Live
  <2>8. ASSUME d # None PROVE Route(d)'
    <3>1. /\ sock'[d] # "listening" /\ pair'[d] = p /\ nscPair'[d] = p /\ p.lp \in Ports \cup {Ephemeral(d)}
          /\ p \in DOMAIN nscMap' /\ nscMap'[p] = d
      BY <2>2, <2>6, <2>8 DEF RouteInv, Route, Moved
    <3>2. inetPair'[d].ra \in DOMAIN nscAddr' /\ nscAddr'[inetPair'[d].ra] = p.ra
      <4>1. CASE inetPair' = inetPair
        BY <1>4, <2>2, <2>8, <4>1 DEF RouteInv, Route
      <4>2. CASE inetPair' = [inetPair EXCEPT ![d] = q]
        BY <1>3, <1>4, <2>2, <2>8, <4>2 DEF RouteInv
      <4> QED
        BY <2>6, <4>1, <4>2
    <3> QED
      BY <1>3, <3>1, <3>2 DEF Route
  <2>9. DOMAIN pair' = Conns /\ DOMAIN inetPair' = Conns /\ DOMAIN nscPair' = Conns
    BY <2>2, <2>6 DEF RouteInv
  <2>10. \A c \in Conns : c \notin Known' => nscPair'[c] = NoPair
    BY <2>2, <2>6 DEF RouteInv, Known
  <2>11. \A c \in Conns : Route(c)'
    BY <1>5, <2>7, <2>8
  <2> QED
    BY <1>4, <2>4, <2>9, <2>10, <2>11 DEF RouteInv
<1>8. CASE l # None
  <2>1. PICK n \in Conns : n = nextId
    BY <1>1, <1>8 DEF MakesOne
  <2>2. /\ l \in Known /\ l \in Conns /\ sock[l] = "listening" /\ nextId' = n + 1
        /\ pair[l].lp = p.lp /\ ~InUse(p) /\ pair' = [pair EXCEPT ![n] = p]
        /\ sock'[n] = "connected"
        /\ \A c \in Conns : c # n => StackSame(c)
    BY <1>1, <1>8, <2>1 DEF MakesOne
  <2>3. Changed(l) \subseteq {n} /\ n \in Changed(l)
    <3>1. n \in Changed(l)
      BY <1>8, <2>1 DEF Changed
    <3>2. ASSUME NEW c \in Changed(l), c # n PROVE FALSE
      <4>1. c \in Conns
        BY <1>5, <2>1, <3>2 DEF Changed
      <4> QED
        BY <1>2, <2>1, <2>2, <3>2, <4>1, UnmovedUnchanged
    <3> QED
      BY <3>1, <3>2
  <2>4. Route(l)
    BY <2>2 DEF RouteInv
  <2>5. inetPair[l].lp = q.lp /\ p.lp \in Ports
    BY <1>3, <2>2, <2>4 DEF Route
  <2>6. error' = error /\ ChangeAddresses(n, q, p)
    BY <1>1, <2>3, <2>5, PollRekeys
  <2>7. n \notin Known /\ \A c \in Conns : c \notin Known' => c \notin Known /\ c # n
    BY <2>1, <2>2, StackAssumption DEF CoreInv, Types, ConnTypes, StackAssumption, Known, Conns
  <2>8. /\ nscMap' = Rekeyed(nscMap, n, NoPair, p)
        /\ nscPair' = [nscPair EXCEPT ![n] = p]
        /\ inetPair' = [inetPair EXCEPT ![n] = q]
    BY <2>6, <2>7 DEF ChangeAddresses, RouteInv
  <2>9. Route(n)'
    <3>1. pair'[n] = p /\ nscPair'[n] = p /\ inetPair'[n] = q
      BY <2>2, <2>8 DEF RouteInv
    <3>2. p \in DOMAIN nscMap' /\ nscMap'[p] = n
      BY <1>3, <1>6, <2>8, RekeyedKeeps
    <3> QED
      BY <1>3, <1>4, <2>2, <2>5, <3>1, <3>2 DEF Route
  <2>10. ASSUME NEW c \in Conns, c # n PROVE Route(c)'
    <3>1. /\ sock'[c] = sock[c] /\ fault'[c] = fault[c] /\ pair'[c] = pair[c] /\ nscPair'[c] = nscPair[c]
          /\ inetPair'[c] = inetPair[c] /\ Route(c)
      BY <2>2, <2>8, <2>10 DEF RouteInv, StackSame
    <3>2. ASSUME Live(c) PROVE pair[c] \in DOMAIN nscMap' /\ nscMap'[pair[c]] = c
      <4>1. c \in Known
        BY <3>2, LiveKnown
      <4>2. pair[c] # p /\ pair[c] # NoPair
        BY <1>6, <2>2, <3>1, <3>2, <4>1 DEF InUse, Route
      <4> QED
        BY <2>8, <3>1, <3>2, <4>2, RekeyedKeeps DEF Route
    <3> QED
      BY <1>4, <3>1, <3>2 DEF Route, Live
  <2>11. DOMAIN pair' = Conns /\ DOMAIN inetPair' = Conns /\ DOMAIN nscPair' = Conns
    BY <2>2, <2>8 DEF RouteInv
  <2>12. \A c \in Conns : c \notin Known' => nscPair'[c] = NoPair
    BY <2>7, <2>8 DEF RouteInv
  <2>13. \A c \in Conns : Route(c)'
    BY <2>9, <2>10
  <2> QED
    BY <1>4, <2>6, <2>11, <2>12, <2>13 DEF RouteInv
<1> QED
  BY <1>7, <1>8

\* What the stack sends is always for a connection that is found.
LEMMA RouteSends ==
  ASSUME CoreInv, RouteInv, Sends
  PROVE  RouteInv' /\ error' = error
<1>1. PICK c \in Known, bytes \in BOOLEAN : Live(c) /\ SendToIP(pair[c], bytes)
  BY DEF Sends
<1>2. c \in Conns /\ c # None
  BY StackAssumption DEF CoreInv, Types, ConnTypes, StackAssumption, Known, Conns, None
<1>3. Found(pair[c]) = c
  BY <1>1, <1>2 DEF RouteInv, Route, Found
<1>4. error' = error
  BY <1>1, <1>2, <1>3 DEF SendToIP, Assert
<1>5. UNCHANGED <<nextId, maps, nscAddr, pair, sock, fault>>
  BY <1>1 DEF SendToIP, conns, stack
<1>6. RouteInv'
  BY <1>5, RouteKeeps DEF Live
<1> QED
  BY <1>4, <1>6

LEMMA RouteStep == CoreInv /\ RouteInv /\ NoError /\ [Next]_vars => RouteInv' /\ NoError'
<1> SUFFICES ASSUME CoreInv, RouteInv, [Next]_vars PROVE RouteInv' /\ error' = error
  BY DEF NoError
<1>1. ASSUME NEW r \in Remotes, NEW lp \in {Undef} \cup Asked, OpenActive(r, lp)
      PROVE  RouteInv' /\ error' = error
  BY <1>1, RouteOpenActive DEF OpenActive
<1>2. ASSUME NEW lp \in Ports, OpenPassive(lp) PROVE RouteInv' /\ error' = error
  BY <1>2, RouteOpenPassive DEF OpenPassive
<1>3. ASSUME NEW c \in Conns, Accept(c) \/ Close(c) \/ Abort(c) \/ \E k \in 0 .. MaxSent : Send(c, k)
      PROVE  RouteInv' /\ error' = error
  <2>1. UNCHANGED <<nextId, maps, nscAddr, stack, error>>
    BY <1>3 DEF Accept, Close, Abort, Send
  <2> QED
    BY <2>1, RouteKeeps DEF Live, stack
<1>4. ASSUME NEW k \in [Conns -> 0 .. MaxSent], NEW lost \in Few, Timer(k, lost)
      PROVE  RouteInv' /\ error' = error
  BY <1>4, RouteTimer DEF Timer
<1>5. ASSUME NEW r \in Remotes, NEW lp \in LocalPorts, Segment(r, lp) PROVE RouteInv' /\ error' = error
  BY <1>5, RouteSegment
<1>6. CASE Sends
  BY <1>6, RouteSends
<1>7. CASE UNCHANGED vars
  <2>1. UNCHANGED <<nextId, maps, nscAddr, stack, error>>
    BY <1>7 DEF vars, conns
  <2> QED
    BY <2>1, RouteKeeps DEF Live, stack
<1> QED
  BY <1>1, <1>2, <1>3, <1>4, <1>5, <1>6, <1>7 DEF Next

LEMMA RouteInvariant == Spec => [](CoreInv /\ RouteInv /\ NoError)
<1>1. Init => CoreInv /\ RouteInv /\ NoError
  BY CoreInit, RouteInit DEF Init, NoError
<1>2. CoreInv /\ RouteInv /\ NoError /\ [Next]_vars => CoreInv' /\ RouteInv' /\ NoError'
  BY CoreStep, RouteStep
<1> QED
  BY <1>1, <1>2, PTL DEF Spec

\* No ASSERT of the module fails: the loop after a segment finds at most one
\* connection changed, whose pair is the segment's, and what the stack sends
\* has a connection.
THEOREM NeverFails == Spec => []NoError
  BY RouteInvariant, PTL

\* Every socket that may send is found by its pair in the stack, and what it
\* sends goes to the address its segments come from.
THEOREM AlwaysRouted == Spec => []Routed
<1>1. CoreInv /\ RouteInv => Routed
  <2> SUFFICES ASSUME CoreInv, RouteInv PROVE Routed
    OBVIOUS
  <2>1. \A a, b \in DOMAIN nscAddr : nscAddr[a] = nscAddr[b] => a = b
    BY DEF RouteInv, AddrInv
  <2>2. ASSUME NEW c \in Known, Live(c)
        PROVE  /\ Found(pair[c]) = c
               /\ Destination(pair[c]) \in DOMAIN nscAddr
               /\ nscAddr[Destination(pair[c])] = pair[c].ra
    <3>1. c \in Conns /\ c # None
      BY StackAssumption DEF CoreInv, Types, ConnTypes, StackAssumption, Known, Conns, None
    <3>2. Route(c)
      BY <3>1 DEF RouteInv
    <3>3. Found(pair[c]) = c
      BY <2>2, <3>2 DEF Route, Found
    <3>4. Destination(pair[c]) = inetPair[c].ra
      BY <3>1, <3>3 DEF Destination
    <3> QED
      BY <2>2, <3>2, <3>3, <3>4 DEF Route
  <2> QED
    BY <2>1, <2>2 DEF Routed
<1> QED
  BY <1>1, RouteInvariant, PTL
=============================================================================
