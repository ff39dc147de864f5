---------------------- MODULE PacketDrillSocketsProofs ----------------------
(***************************************************************************)
(* Theorems about PacketDrillSockets, for any number of sockets, when the  *)
(* script has none of the Habits.                                          *)
(***************************************************************************)
EXTENDS PacketDrillSockets, TLAPS

ConnStates == {"none", "listen", "deferred", "syn", "open", "gone"}
SockStates == {"NOT_BOUND", "BOUND", "LISTENING", "CONNECTING", "CONNECTED", "PEER_CLOSED",
               "SOCKERROR", "CLOSED"}

ConnType == [state : ConnStates, local : Int, remote : Int, fastOpen : BOOLEAN,
             ended : BOOLEAN, closes : Nat]
TcpType  == [conns : [Ids -> ConnType], cookies : BOOLEAN, client : BOOLEAN, noCookie : BOOLEAN]
SockType == [id : 0 .. MaxConns, state : SockStates]
AppMembers ==
  {"tcpConnId", "listenScriptFd", "acceptedScriptFd", "listenSet", "acceptSet", "socketWasListener",
   "localPort", "remotePort", "closedTcpConnIds", "fastopenConnectPending", "tfoCookieCached",
   "tfoSynDeferredKick", "tfoClientEnabled", "tfoNoCookieMode", "unread", "captured", "shut", "error"}
AppTyped(a) ==
  /\ DOMAIN a = AppMembers
  /\ a.listenScriptFd \in {None, 3} /\ a.acceptedScriptFd \in {None, 4} /\ a.acceptSet \in BOOLEAN
  /\ a.localPort \in Nat /\ a.remotePort \in Nat
  /\ a.closedTcpConnIds \subseteq Ids /\ a.captured \subseteq Ids
  /\ a.fastopenConnectPending \in BOOLEAN /\ a.tfoCookieCached \in BOOLEAN
  /\ a.tfoSynDeferredKick \in BOOLEAN /\ a.tfoClientEnabled \in BOOLEAN /\ a.tfoNoCookieMode \in BOOLEAN

\* Of the members of the app only those in new change.
Kept(a, b, new) == DOMAIN b = AppMembers /\ \A f \in AppMembers \ new : b[f] = a[f]

Types == AppTyped(app) /\ sock \in SockType /\ tcp \in TcpType /\ fds \subseteq {3, 4}

C(i) == tcp.conns[i]
\* The state of the connection under the TcpSocket member.
State == IF sock.id \in Ids THEN C(sock.id).state ELSE "none"

\* Descriptors and names.
Names ==
  /\ app.error = "" /\ app.tcpConnId \in {None, sock.id}
  /\ sock.state = "NOT_BOUND" <=> sock.id = 0
  /\ sock.state = "NOT_BOUND" =>
       /\ app.tcpConnId = None /\ app.listenScriptFd = None /\ app.acceptedScriptFd = None
       /\ app.captured = {} /\ app.unread = {}
  /\ fds # {} => sock.id \in Ids
  /\ 4 \in fds => app.acceptedScriptFd = 4
  /\ app.acceptedScriptFd = 4 => app.listenScriptFd = 3
  /\ app.tcpConnId # None => fds \subseteq {DataFd}
  /\ app.tcpConnId = None /\ sock.state = "BOUND" => app.listenScriptFd = None

\* The socket and its connection.
States ==
  /\ \A i \in Ids : i > sock.id => C(i).state = "none"
  /\ State = "none" <=> sock.state \in {"NOT_BOUND", "BOUND"}
  /\ State = "listen" => sock.state = "LISTENING" /\ app.acceptedScriptFd = None
  /\ State \in {"deferred", "syn"} => sock.state = "CONNECTING"
  /\ State = "open" => sock.state \in {"LISTENING", "CONNECTING", "CONNECTED", "PEER_CLOSED"}
  /\ sock.state = "LISTENING" => app.listenScriptFd = 3 /\ app.tcpConnId = None
  /\ sock.state = "LISTENING" /\ app.acceptedScriptFd = 4 => app.acceptSet

\* The mirror of the Fast Open state, and the deferred SYN.
Mirror ==
  /\ tcp.cookies = app.tfoCookieCached /\ tcp.client = app.tfoClientEnabled
  /\ tcp.noCookie = app.tfoNoCookieMode
  /\ app.tfoSynDeferredKick <=> State = "deferred"
  /\ State = "deferred" => app.tcpConnId # None
  /\ app.unread # {} => State \in {"open", "gone"}

Closed ==
  /\ \A i \in Ids : C(i).closes > 0 => C(i).closes = 1 /\ i \in app.closedTcpConnIds
  /\ \A i \in app.closedTcpConnIds :
       C(i).state # "none" /\ (C(i).ended \/ C(i).state = "gone")

Owned ==
  /\ \A i \in Ids : i # sock.id /\ Open(i) => C(i).ended
  /\ sock.id \in Ids /\ Open(sock.id) =>
       IF C(sock.id).ended THEN Holder \notin fds \/ sock.id \in app.shut ELSE Holder \in fds

Ports ==
  /\ \A i \in Ids : C(i).state # "none" => C(i).local + C(i).remote <= app.localPort + app.remotePort
  /\ \A i \in Ids : i # sock.id /\ Open(i) => ~Current(i)
  /\ \A i, j \in Ids : i # j /\ Open(i) /\ Open(j) => C(i).local # C(j).local \/ C(i).remote # C(j).remote
  /\ \A i \in app.captured : Current(i)

Inv == Types /\ Names /\ States /\ Mirror /\ Closed /\ Owned /\ Ports

-----------------------------------------------------------------------------
(* What the helpers do.                                                    *)

LEMMA IdsAreNumbers == Ids \subseteq Nat /\ 0 \notin Ids /\ None \notin Ids /\ \A n \in 0 .. MaxConns : n # 0 => n \in Ids
BY SocketsAssumption DEF SocketsAssumption, Ids, None

LEMMA NoneIsNoFd == None # 3 /\ None # 4 /\ None \in Int
BY DEF None

\* From t to u only connection i changes.
Only(t, u, i) ==
  /\ u \in TcpType /\ \A j \in Ids : j # i => u.conns[j] = t.conns[j]
  /\ u.cookies = t.cookies /\ u.client = t.client /\ u.noCookie = t.noCookie

SamePorts(c, d) == c.local = d.local /\ c.remote = d.remote

Opened(t, u, i, state) ==
  /\ Only(t, u, i) /\ u.conns[i].state = state /\ ~u.conns[i].ended /\ u.conns[i].closes = 0
  /\ u.conns[i].local = app.localPort /\ u.conns[i].remote = app.remotePort
Sent(t, u, i) ==
  /\ Only(t, u, i) /\ SamePorts(u.conns[i], t.conns[i])
  /\ u.conns[i].state = IF t.conns[i].state = "deferred" THEN "syn" ELSE t.conns[i].state
  /\ u.conns[i].ended = t.conns[i].ended /\ u.conns[i].closes = t.conns[i].closes
Ended(t, u, i) ==
  /\ Only(t, u, i) /\ SamePorts(u.conns[i], t.conns[i])
  /\ u.conns[i].state = t.conns[i].state /\ u.conns[i].ended
  /\ u.conns[i].closes = t.conns[i].closes + 1
Aborted(t, u, i) ==
  /\ Only(t, u, i) /\ SamePorts(u.conns[i], t.conns[i])
  /\ u.conns[i].state = IF t.conns[i].state = "none" THEN "none" ELSE "gone"
  /\ u.conns[i].closes = t.conns[i].closes

Move(t, i, state) == [t EXCEPT !.conns[i].state = state]
Moved(t, u, i, state) ==
  /\ Only(t, u, i) /\ SamePorts(u.conns[i], t.conns[i])
  /\ u.conns[i].state = state
  /\ u.conns[i].ended = t.conns[i].ended /\ u.conns[i].closes = t.conns[i].closes

LEMMA PutOnly ==
  ASSUME NEW t \in TcpType, NEW i \in Ids, NEW c \in ConnType
  PROVE  Only(t, [t EXCEPT !.conns[i] = c], i) /\ [t EXCEPT !.conns[i] = c].conns[i] = c
BY DEF Only, TcpType

LEMMA OpenPuts ==
  ASSUME NEW t \in TcpType, NEW i \in Ids, NEW state \in ConnStates, NEW fastOpen \in BOOLEAN, AppTyped(app)
  PROVE  Opened(t, TcpOpen(t, i, state, fastOpen), i, state)
<1> DEFINE c == [Unknown EXCEPT !.state = state, !.fastOpen = fastOpen,
                                !.local = app.localPort, !.remote = app.remotePort]
<1>1. Unknown \in ConnType
  BY DEF Unknown, ConnType, ConnStates, None
<1>2. app.localPort \in Int /\ app.remotePort \in Int
  BY DEF AppTyped
<1>3. c \in ConnType
  BY <1>1, <1>2 DEF ConnType
<1>4. /\ c.state = state /\ ~c.ended /\ c.closes = 0
      /\ c.local = app.localPort /\ c.remote = app.remotePort
  BY DEF Unknown
<1> HIDE DEF c
<1>5. TcpOpen(t, i, state, fastOpen) = [t EXCEPT !.conns[i] = c]
  BY DEF TcpOpen, c
<1> QED
  BY <1>3, <1>4, <1>5, PutOnly DEF Opened

LEMMA SendPuts ==
  ASSUME NEW t \in TcpType, NEW i \in Ids
  PROVE  Sent(t, TcpSend(t, i), i)
<1> DEFINE c == [t.conns[i] EXCEPT !.state = IF @ = "deferred" THEN "syn" ELSE @]
<1>1. t.conns[i] \in ConnType
  BY DEF TcpType
<1>2. c \in ConnType
  BY <1>1 DEF ConnType, ConnStates
<1>3. /\ c.state = IF t.conns[i].state = "deferred" THEN "syn" ELSE t.conns[i].state
      /\ c.ended = t.conns[i].ended /\ c.closes = t.conns[i].closes /\ SamePorts(c, t.conns[i])
  BY <1>1 DEF ConnType, SamePorts
<1>4. TcpSend(t, i) = [t EXCEPT !.conns[i] = c]
  BY DEF TcpSend, TcpType
<1> HIDE DEF c
<1> QED
  BY <1>2, <1>3, <1>4, PutOnly DEF Sent

LEMMA ClosePuts ==
  ASSUME NEW t \in TcpType, NEW i \in Ids
  PROVE  Ended(t, TcpClose(t, i), i)
<1> DEFINE c == [t.conns[i] EXCEPT !.ended = TRUE, !.closes = @ + 1]
<1>1. t.conns[i] \in ConnType /\ t.conns[i].closes + 1 \in Nat
  BY DEF TcpType, ConnType
<1>2. c \in ConnType
  BY <1>1 DEF ConnType
<1>3. /\ c.state = t.conns[i].state /\ c.ended /\ c.closes = t.conns[i].closes + 1
      /\ SamePorts(c, t.conns[i])
  BY <1>1 DEF ConnType, SamePorts
<1>4. TcpClose(t, i) = [t EXCEPT !.conns[i] = c]
  BY DEF TcpClose, TcpType, ConnType
<1> HIDE DEF c
<1> QED
  BY <1>2, <1>3, <1>4, PutOnly DEF Ended

LEMMA AbortPuts ==
  ASSUME NEW t \in TcpType, NEW i \in Ids
  PROVE  Aborted(t, TcpAbort(t, i), i)
<1>1. CASE t.conns[i].state = "none"
  BY <1>1 DEF TcpAbort, Aborted, Only, SamePorts
<1>2. CASE t.conns[i].state # "none"
  <2> DEFINE c == [t.conns[i] EXCEPT !.ended = TRUE, !.state = "gone"]
  <2>1. t.conns[i] \in ConnType
    BY DEF TcpType
  <2>2. c \in ConnType
    BY <2>1 DEF ConnType, ConnStates
  <2>3. c.state = "gone" /\ c.closes = t.conns[i].closes /\ SamePorts(c, t.conns[i])
    BY <2>1 DEF ConnType, SamePorts
  <2>4. TcpAbort(t, i) = [t EXCEPT !.conns[i] = c]
    BY <1>2 DEF TcpAbort, TcpType, ConnType
  <2> HIDE DEF c
  <2> QED
    BY <1>2, <2>2, <2>3, <2>4, PutOnly DEF Aborted
<1> QED
  BY <1>1, <1>2

LEMMA MovePuts ==
  ASSUME NEW t \in TcpType, NEW i \in Ids, NEW state \in ConnStates
  PROVE  Moved(t, Move(t, i, state), i, state)
<1> DEFINE c == [t.conns[i] EXCEPT !.state = state]
<1>1. t.conns[i] \in ConnType
  BY DEF TcpType
<1>2. c \in ConnType
  BY <1>1 DEF ConnType, ConnStates
<1>3. /\ c.state = state /\ c.ended = t.conns[i].ended /\ c.closes = t.conns[i].closes
      /\ SamePorts(c, t.conns[i])
  BY <1>1 DEF ConnType, SamePorts
<1>4. Move(t, i, state) = [t EXCEPT !.conns[i] = c]
  BY DEF TcpType, Move
<1> HIDE DEF c
<1> QED
  BY <1>2, <1>3, <1>4, PutOnly DEF Moved

LEMMA OpenThenSend ==
  ASSUME NEW t, NEW u, NEW v, NEW i, NEW state, Opened(t, u, i, state), Sent(u, v, i)
  PROVE  Opened(t, v, i, IF state = "deferred" THEN "syn" ELSE state)
BY DEF Opened, Sent, Only, SamePorts

LEMMA InitInv == ASSUME Init, Habits = {} PROVE Inv
<1>1. /\ app.tcpConnId = None /\ app.listenScriptFd = None /\ app.acceptedScriptFd = None
      /\ app.closedTcpConnIds = {} /\ app.captured = {} /\ app.unread = {} /\ app.error = ""
      /\ ~app.tfoSynDeferredKick /\ ~app.fastopenConnectPending /\ ~app.tfoCookieCached
      /\ app.tfoClientEnabled /\ ~app.tfoNoCookieMode
  BY DEF Init
<1>2. AppTyped(app)
  BY DEF Init, AppTyped, AppMembers
<1>3. sock.id = 0 /\ sock.state = "NOT_BOUND" /\ fds = {} /\ sock \in SockType
  <2>1. 0 \in 0 .. MaxConns
    BY SocketsAssumption DEF SocketsAssumption
  <2> QED
    BY <2>1 DEF Init, SockType, SockStates
<1>4. tcp = [conns |-> [i \in Ids |-> Unknown], cookies |-> FALSE, client |-> TRUE, noCookie |-> FALSE]
  <2>1. ("preamble" \in Habits) = FALSE
    OBVIOUS
  <2> QED
    BY <2>1 DEF Init
<1>5. Unknown \in ConnType
  BY DEF Unknown, ConnType, ConnStates, None
<1>6. tcp \in TcpType /\ ~tcp.cookies /\ tcp.client /\ ~tcp.noCookie /\ \A i \in Ids : C(i) = Unknown
  BY <1>4, <1>5 DEF TcpType, C
<1>7. State = "none" /\ \A i \in Ids : C(i).state = "none" /\ C(i).closes = 0 /\ ~Open(i)
  <2>1. State = "none"
    BY <1>3, IdsAreNumbers DEF State
  <2>2. \A i \in Ids : C(i).state = "none" /\ C(i).closes = 0
    BY <1>6 DEF Unknown
  <2> QED
    BY <2>1, <2>2 DEF Open, C
<1>8. Types
  BY <1>2, <1>3, <1>6 DEF Types
<1>9. Names
  <2>1. app.tcpConnId = None /\ app.listenScriptFd = None /\ app.acceptedScriptFd = None
        /\ app.captured = {} /\ app.unread = {} /\ app.error = ""
    BY <1>1
  <2>2. sock.id = 0 /\ sock.state = "NOT_BOUND" /\ fds = {}
    BY <1>3
  <2> QED
    BY ONLY <2>1, <2>2, NoneIsNoFd DEF Names
<1>10. States
  BY <1>3, <1>7 DEF States
<1>11. Mirror
  BY <1>1, <1>2, <1>6, <1>7 DEF Mirror, AppTyped, TcpType
<1>12. Closed
  <2>1. app.closedTcpConnIds = {}
    BY <1>1
  <2> QED
    BY ONLY <2>1, <1>7 DEF Closed
<1>13. Owned
  BY <1>3, <1>7, IdsAreNumbers DEF Owned
<1>14. Ports
  BY <1>1, <1>7 DEF Ports
<1> QED
  BY <1>8, <1>9, <1>10, <1>11, <1>12, <1>13, <1>14 DEF Inv

-----------------------------------------------------------------------------
(* Each step keeps the invariant: first what the app alone does.           *)

LEMMA StutterInv == ASSUME Inv, UNCHANGED vars PROVE Inv'
<1> USE DEF Inv, vars
<1>1. Types'
  BY DEF Types, AppTyped
<1>2. Names'
  BY DEF Names, DataFd
<1>3. States'
  BY DEF States, State, C
<1>4. Mirror'
  BY DEF Mirror, State, C
<1>5. Closed'
  BY DEF Closed, C
<1>6. Owned'
  BY DEF Owned, C, Open, Holder, DataFd
<1>7. Ports'
  BY DEF Ports, C, Open, Current
<1> QED
  BY <1>1, <1>2, <1>3, <1>4, <1>5, <1>6, <1>7

\* The wish for Fast Open alone changes.
LEMMA PendingInv ==
  ASSUME Inv, Kept(app, app', {"fastopenConnectPending"}), app'.fastopenConnectPending \in BOOLEAN,
         UNCHANGED <<sock, tcp, fds>>
  PROVE  Inv'
<1> USE DEF Inv
<1>1. Types'
  BY DEF Types, AppTyped, Kept, AppMembers
<1>2. Names'
  BY DEF Names, Kept, AppMembers, DataFd
<1>3. States'
  BY DEF States, Kept, AppMembers, State, C
<1>4. Mirror'
  BY DEF Mirror, Kept, AppMembers, State, C
<1>5. Closed'
  BY DEF Closed, Kept, AppMembers, C
<1>6. Owned'
  BY DEF Owned, Kept, AppMembers, C, Open, Holder, DataFd
<1>7. Ports'
  BY DEF Ports, Kept, AppMembers, C, Open, Current
<1> QED
  BY <1>1, <1>2, <1>3, <1>4, <1>5, <1>6, <1>7

LEMMA SetFastopenConnectInv ==
  ASSUME Inv, NEW optval \in BOOLEAN, SetFastopenConnect(optval)
  PROVE  Inv'
<1>1. Kept(app, app', {"fastopenConnectPending"}) /\ app'.fastopenConnectPending = optval
  BY DEF Inv, SetFastopenConnect, Types, AppTyped, Kept, AppMembers
<1>2. UNCHANGED <<sock, tcp, fds>>
  BY DEF SetFastopenConnect
<1> QED
  BY <1>1, <1>2, PendingInv

LEMMA SyscallReadInv == ASSUME Inv, SyscallRead PROVE Inv'
<1> USE DEF Inv
<1>1. Kept(app, app', {"unread"}) /\ app'.unread = {}
  BY DEF SyscallRead, Types, AppTyped, Kept, AppMembers
<1>2. UNCHANGED <<sock, tcp, fds>>
  BY DEF SyscallRead
<1>3. Types'
  BY <1>1, <1>2 DEF Types, AppTyped, Kept, AppMembers
<1>4. Names'
  BY <1>1, <1>2 DEF Names, Kept, AppMembers, DataFd
<1>5. States'
  BY <1>1, <1>2 DEF States, Kept, AppMembers, State, C
<1>6. Mirror'
  BY <1>1, <1>2 DEF Mirror, Kept, AppMembers, State, C
<1>7. Closed'
  BY <1>1, <1>2 DEF Closed, Kept, AppMembers, C
<1>8. Owned'
  BY <1>1, <1>2 DEF Owned, Kept, AppMembers, C, Open, Holder, DataFd
<1>9. Ports'
  BY <1>1, <1>2 DEF Ports, Kept, AppMembers, C, Open, Current
<1> QED
  BY <1>3, <1>4, <1>5, <1>6, <1>7, <1>8, <1>9

LEMMA DataArrivesInv == ASSUME Inv, DataArrives PROVE Inv'
<1> USE DEF Inv
<1>1. Kept(app, app', {"unread"})
  BY DEF DataArrives, Types, AppTyped, Kept, AppMembers
<1>2. UNCHANGED <<sock, tcp, fds>> /\ sock.state = "CONNECTED" /\ sock.id \in Ids /\ State = "open"
  BY IdsAreNumbers DEF DataArrives, Names, Types, SockType, State, C
<1>3. Types'
  BY <1>1, <1>2 DEF Types, AppTyped, Kept, AppMembers
<1>4. Names'
  BY <1>1, <1>2 DEF Names, Kept, AppMembers, DataFd
<1>5. States'
  BY <1>1, <1>2 DEF States, Kept, AppMembers, State, C
<1>6. Mirror'
  BY <1>1, <1>2 DEF Mirror, Kept, AppMembers, State, C
<1>7. Closed'
  BY <1>1, <1>2 DEF Closed, Kept, AppMembers, C
<1>8. Owned'
  BY <1>1, <1>2 DEF Owned, Kept, AppMembers, C, Open, Holder, DataFd
<1>9. Ports'
  BY <1>1, <1>2 DEF Ports, Kept, AppMembers, C, Open, Current
<1> QED
  BY <1>3, <1>4, <1>5, <1>6, <1>7, <1>8, <1>9

\* A segment of connection i is captured, or compared.
LEMMA CapturedInv ==
  ASSUME Inv, NEW i \in Ids, SegmentSent(i) \/ Compare(i)
  PROVE  Inv'
<1> USE DEF Inv
<1>1. Kept(app, app', {"captured"}) /\ app'.captured \subseteq Ids
  BY DEF SegmentSent, Compare, Types, AppTyped, Kept, AppMembers
<1>2. UNCHANGED <<sock, tcp, fds>>
  BY DEF SegmentSent, Compare
<1>3. Types'
  BY <1>1, <1>2 DEF Types, AppTyped, Kept, AppMembers
<1>4. sock.id # 0
  <2>1. CASE SegmentSent(i)
    <3>1. C(i).state # "none"
      BY <2>1 DEF SegmentSent, C
    <3> QED
      BY <3>1, IdsAreNumbers DEF States
  <2>2. CASE Compare(i)
    BY <2>2 DEF Compare, Names
  <2> QED
    BY <2>1, <2>2
<1>5. Names'
  BY <1>1, <1>2, <1>4 DEF Names, Kept, AppMembers, DataFd
<1>6. States'
  BY <1>1, <1>2 DEF States, Kept, AppMembers, State, C
<1>7. Mirror'
  BY <1>1, <1>2 DEF Mirror, Kept, AppMembers, State, C
<1>8. Closed'
  BY <1>1, <1>2 DEF Closed, Kept, AppMembers, C
<1>9. Owned'
  BY <1>1, <1>2 DEF Owned, Kept, AppMembers, C, Open, Holder, DataFd
<1>10. Ports'
  <2>1. \A j \in app'.captured : Current(j)
    <3>1. CASE SegmentSent(i)
      <4>1. app'.captured = app.captured \cup {i} /\ Current(i)
        BY <3>1 DEF SegmentSent, Types, AppTyped, AppMembers
      <4> QED
        BY <4>1 DEF Ports
    <3>2. CASE Compare(i)
      <4>1. app'.captured = app.captured \ {i}
        BY <3>2 DEF Compare, Types, AppTyped, AppMembers
      <4> QED
        BY <4>1 DEF Ports
    <3> QED
      BY <3>1, <3>2
  <2> QED
    BY <1>1, <1>2, <2>1 DEF Ports, Kept, AppMembers, C, Open, Current
<1> QED
  BY <1>3, <1>5, <1>6, <1>7, <1>8, <1>9, <1>10

LEMMA SyscallAcceptInv == ASSUME Inv, SyscallAccept PROVE Inv'
<1> USE DEF Inv
<1>1. Kept(app, app', {"acceptedScriptFd", "acceptSet"}) /\ app'.acceptedScriptFd = 4 /\ app'.acceptSet
  BY DEF SyscallAccept, Types, AppTyped, Kept, AppMembers
<1>2. UNCHANGED <<sock, tcp>> /\ fds' = fds \cup {4} /\ 3 \in fds /\ app.listenScriptFd = 3
      /\ app.acceptedScriptFd = None /\ State # "listen"
  BY DEF SyscallAccept, State, C
<1>3. Types'
  BY <1>1, <1>2 DEF Types, AppTyped, Kept, AppMembers
<1>4. app.tcpConnId = None
  <2>1. DataFd = 4
    BY <1>2 DEF DataFd
  <2>2. app.tcpConnId # None => fds \subseteq {DataFd}
    BY DEF Names
  <2> QED
    BY <1>2, <2>1, <2>2
<1>5. Names'
  BY <1>1, <1>2, <1>4, NoneIsNoFd DEF Names, Kept, AppMembers, DataFd
<1>6. States'
  BY <1>1, <1>2 DEF States, Kept, AppMembers, State, C
<1>7. Mirror'
  BY <1>1, <1>2 DEF Mirror, Kept, AppMembers, State, C
<1>8. Closed'
  BY <1>1, <1>2 DEF Closed, Kept, AppMembers, C
<1>9. Owned'
  <2>1. Holder = 3 /\ Holder' = 4
    BY <1>1, <1>2, NoneIsNoFd DEF Holder, DataFd, Kept, AppMembers
  <2> QED
    BY <1>1, <1>2, <2>1 DEF Owned, Kept, AppMembers, C, Open
<1>10. Ports'
  BY <1>1, <1>2 DEF Ports, Kept, AppMembers, C, Open, Current
<1> QED
  BY <1>3, <1>5, <1>6, <1>7, <1>8, <1>9, <1>10

-----------------------------------------------------------------------------
(* What the stack and the peer do.                                         *)

LEMMA UnderSocket == ASSUME Inv, sock.state # "NOT_BOUND" PROVE sock.id \in Ids /\ State = C(sock.id).state
BY IdsAreNumbers DEF Inv, Names, Types, SockType, State

\* The connection under the socket is established.
LEMMA EstablishedInv == ASSUME Inv, Established \/ PeerCloses PROVE Inv'
<1> USE DEF Inv
<1>1. UNCHANGED <<app, tcp, fds>> /\ sock.id \in Ids /\ C(sock.id).state = "open" /\ State = "open"
      /\ sock.state \in {"LISTENING", "CONNECTING", "CONNECTED"}
  BY UnderSocket DEF Established, PeerCloses, C
<1>2. sock' \in SockType /\ sock'.id = sock.id /\ sock'.state \in {"CONNECTED", "PEER_CLOSED"}
  BY DEF Established, PeerCloses, Types, SockType, SockStates
<1>3. Types'
  BY <1>1, <1>2 DEF Types, AppTyped
<1>4. Names'
  BY <1>1, <1>2 DEF Names, DataFd
<1>5. States'
  BY <1>1, <1>2 DEF States, State, C
<1>6. Mirror'
  BY <1>1, <1>2 DEF Mirror, State, C
<1>7. Closed'
  BY <1>1 DEF Closed, C
<1>8. Owned'
  BY <1>1, <1>2 DEF Owned, C, Open, Holder, DataFd
<1>9. Ports'
  BY <1>1, <1>2 DEF Ports, C, Open, Current
<1> QED
  BY <1>3, <1>4, <1>5, <1>6, <1>7, <1>8, <1>9

LEMMA PeerConnectsInv == ASSUME Inv, PeerConnects PROVE Inv'
<1> USE DEF Inv
<1>1. UNCHANGED <<app, sock, fds>> /\ sock.id \in Ids /\ C(sock.id).state = "listen" /\ State = "listen"
      /\ ~C(sock.id).ended
  BY DEF PeerConnects, C, State
<1>2. Moved(tcp, tcp', sock.id, "open")
  <2>1. tcp' = Move(tcp, sock.id, "open") /\ tcp \in TcpType
    BY DEF PeerConnects, Move, Types
  <2> QED
    BY <1>1, <2>1, MovePuts DEF ConnStates
<1>3. /\ tcp' \in TcpType /\ State' = "open" /\ C(sock.id)'.state = "open"
      /\ tcp'.cookies = tcp.cookies /\ tcp'.client = tcp.client /\ tcp'.noCookie = tcp.noCookie
      /\ \A j \in Ids : /\ j # sock.id => C(j)'.state = C(j).state
                       /\ C(j)'.closes = C(j).closes /\ C(j)'.ended = C(j).ended
                       /\ C(j)'.local = C(j).local /\ C(j)'.remote = C(j).remote
  BY <1>1, <1>2 DEF Moved, Only, SamePorts, C, State
<1>4. Types'
  BY <1>1, <1>3 DEF Types, AppTyped
<1>5. Names'
  BY <1>1 DEF Names, DataFd
<1>6. States'
  BY <1>1, <1>3 DEF States
<1>7. Mirror'
  BY <1>1, <1>3 DEF Mirror
<1>8. Closed'
  BY <1>1, <1>3 DEF Closed, C, Types, AppTyped
<1>9. Owned'
  BY <1>1, <1>3 DEF Owned, Open, C, Holder, DataFd
<1>10. Ports'
  BY <1>1, <1>3 DEF Ports, C, Open, Current, Types, AppTyped
<1> QED
  BY <1>4, <1>5, <1>6, <1>7, <1>8, <1>9, <1>10

LEMMA PeerAnswersInv == ASSUME Inv, NEW cookie \in BOOLEAN, PeerAnswers(cookie) PROVE Inv'
<1> USE DEF Inv
<1>1. UNCHANGED <<sock, fds>> /\ sock.id \in Ids /\ C(sock.id).state = "syn" /\ State = "syn"
      /\ ~C(sock.id).ended /\ sock.state = "CONNECTING"
  BY DEF PeerAnswers, C, State, States
<1>2. Kept(app, app', {"tfoCookieCached"}) /\ app'.tfoCookieCached = (app.tfoCookieCached \/ cookie)
  BY DEF PeerAnswers, Types, AppTyped, Kept, AppMembers
<1>3. /\ tcp' \in TcpType /\ State' = "open" /\ C(sock.id)'.state = "open"
      /\ tcp'.cookies = (tcp.cookies \/ cookie) /\ tcp'.client = tcp.client /\ tcp'.noCookie = tcp.noCookie
      /\ \A j \in Ids : /\ j # sock.id => C(j)'.state = C(j).state
                       /\ C(j)'.closes = C(j).closes /\ C(j)'.ended = C(j).ended
                       /\ C(j)'.local = C(j).local /\ C(j)'.remote = C(j).remote
  <2> DEFINE u == Move(tcp, sock.id, "open")
  <2>1. Moved(tcp, u, sock.id, "open") /\ u \in TcpType
    <3>1. Moved(tcp, u, sock.id, "open")
      BY <1>1, MovePuts DEF Types, ConnStates
    <3> QED
      BY <3>1 DEF Moved, Only
  <2>2. tcp' = [u EXCEPT !.cookies = tcp.cookies \/ cookie]
    BY DEF PeerAnswers, Move, Types, TcpType
  <2> HIDE DEF u
  <2>3. /\ tcp' \in TcpType /\ tcp'.conns = u.conns
        /\ tcp'.cookies = (tcp.cookies \/ cookie) /\ tcp'.client = u.client /\ tcp'.noCookie = u.noCookie
    BY <2>1, <2>2 DEF TcpType, Types
  <2> QED
    BY <1>1, <2>1, <2>3 DEF Moved, Only, SamePorts, C, State
<1>4. Types'
  BY <1>1, <1>2, <1>3 DEF Types, AppTyped, Kept, AppMembers
<1>5. Names'
  BY <1>1, <1>2 DEF Names, DataFd, Kept, AppMembers
<1>6. States'
  BY <1>1, <1>2, <1>3 DEF States, Kept, AppMembers
<1>7. Mirror'
  BY <1>1, <1>2, <1>3 DEF Mirror, Kept, AppMembers
<1>8. Closed'
  BY <1>1, <1>2, <1>3 DEF Closed, C, Types, AppTyped, Kept, AppMembers
<1>9. Owned'
  BY <1>1, <1>2, <1>3 DEF Owned, Open, C, Holder, DataFd, Kept, AppMembers
<1>10. Ports'
  BY <1>1, <1>2, <1>3 DEF Ports, C, Open, Current, Types, AppTyped, Kept, AppMembers
<1> QED
  BY <1>4, <1>5, <1>6, <1>7, <1>8, <1>9, <1>10

LEMMA FailsInv == ASSUME Inv, Fails PROVE Inv'
<1> USE DEF Inv
<1>1. UNCHANGED <<app, fds>> /\ sock.id \in Ids /\ C(sock.id).state \in {"syn", "open"}
      /\ State \in {"syn", "open"}
  BY UnderSocket DEF Fails, C
<1>2. sock' \in SockType /\ sock'.id = sock.id /\ sock'.state = "SOCKERROR"
      /\ sock.state \in {"CONNECTING", "CONNECTED", "PEER_CLOSED"}
  BY DEF Fails, Types, SockType, SockStates
<1>3. Moved(tcp, tcp', sock.id, "gone")
  <2>1. tcp' = Move(tcp, sock.id, "gone") /\ tcp \in TcpType
    BY DEF Fails, Move, Types
  <2> QED
    BY <1>1, <2>1, MovePuts DEF ConnStates
<1>4. /\ tcp' \in TcpType /\ State' = "gone" /\ tcp'.conns[sock.id].state = "gone"
      /\ tcp'.cookies = tcp.cookies /\ tcp'.client = tcp.client /\ tcp'.noCookie = tcp.noCookie
      /\ \A j \in Ids : /\ j # sock.id => C(j)'.state = C(j).state
                       /\ C(j)'.closes = C(j).closes /\ C(j)'.ended = C(j).ended
                       /\ C(j)'.local = C(j).local /\ C(j)'.remote = C(j).remote
  BY <1>1, <1>2, <1>3 DEF Moved, Only, SamePorts, C, State
<1>5. Types'
  BY <1>1, <1>2, <1>4 DEF Types, AppTyped
<1>6. Names'
  BY <1>1, <1>2 DEF Names, DataFd
<1>7. States'
  BY <1>1, <1>2, <1>4 DEF States, C
<1>8. Mirror'
  BY <1>1, <1>2, <1>4 DEF Mirror
<1>9. Closed'
  BY <1>1, <1>4 DEF Closed, C, Types, AppTyped
<1>10. Owned'
  BY <1>1, <1>2, <1>4 DEF Owned, Open, C, Holder, DataFd
<1>11. Ports'
  BY <1>1, <1>2, <1>4 DEF Ports, C, Open, Current, Types, AppTyped
<1> QED
  BY <1>5, <1>6, <1>7, <1>8, <1>9, <1>10, <1>11

LEMMA ExpiresInv == ASSUME Inv, NEW i \in Ids, Expires(i) PROVE Inv'
<1> USE DEF Inv
<1>1. UNCHANGED <<app, sock, fds>> /\ i # sock.id /\ C(i).state = "open"
  BY DEF Expires, C
<1>2. Moved(tcp, tcp', i, "gone")
  <2>1. tcp' = Move(tcp, i, "gone") /\ tcp \in TcpType
    BY DEF Expires, Move, Types
  <2> QED
    BY <2>1, MovePuts DEF ConnStates
<1>3. /\ tcp' \in TcpType /\ State' = State /\ tcp'.conns[i].state = "gone"
      /\ tcp'.cookies = tcp.cookies /\ tcp'.client = tcp.client /\ tcp'.noCookie = tcp.noCookie
      /\ \A j \in Ids : /\ j # i => C(j)'.state = C(j).state
                       /\ C(j)'.closes = C(j).closes /\ C(j)'.ended = C(j).ended
                       /\ C(j)'.local = C(j).local /\ C(j)'.remote = C(j).remote
  BY <1>1, <1>2 DEF Moved, Only, SamePorts, C, State
<1>4. Types'
  BY <1>1, <1>3 DEF Types, AppTyped
<1>5. Names'
  BY <1>1 DEF Names, DataFd
<1>6. States'
  BY <1>1, <1>3 DEF States, C
<1>7. Mirror'
  BY <1>1, <1>3 DEF Mirror
<1>8. Closed'
  BY <1>1, <1>3 DEF Closed, C, Types, AppTyped
<1>9. Owned'
  BY <1>1, <1>3 DEF Owned, Open, C, Holder, DataFd
<1>10. Ports'
  BY <1>1, <1>3 DEF Ports, C, Open, Current, Types, AppTyped
<1> QED
  BY <1>4, <1>5, <1>6, <1>7, <1>8, <1>9, <1>10

-----------------------------------------------------------------------------
(* The calls that make a connection.                                       *)

LEMMA SyscallSocketInv == ASSUME Inv, Habits = {}, SyscallSocket PROVE Inv'
<1> USE DEF Inv
<1>1. tcp' = tcp /\ fds = {} /\ fds' = {3} /\ app.unread = {} /\ sock.id < MaxConns
  BY DEF SyscallSocket
<1>2. sock' \in SockType /\ sock'.id = sock.id + 1 /\ sock'.state = "BOUND" /\ sock'.id \in Ids
  BY SocketsAssumption DEF SyscallSocket, Types, SockType, SockStates, SocketsAssumption, Ids
<1>3. /\ Kept(app, app', {"socketWasListener", "localPort", "remotePort", "tcpConnId", "listenScriptFd",
                          "acceptedScriptFd", "tfoSynDeferredKick", "captured"})
      /\ app'.tcpConnId = None /\ app'.listenScriptFd = None /\ app'.acceptedScriptFd = None
      /\ app'.tfoSynDeferredKick = FALSE /\ app'.captured = {}
      /\ app'.localPort \in Nat /\ app'.remotePort \in Nat
      /\ sock.state # "NOT_BOUND" => app'.localPort + app'.remotePort = app.localPort + app.remotePort + 1
  <2>1. CASE sock.state = "NOT_BOUND"
    <3>1. /\ app.tcpConnId = None /\ app.listenScriptFd = None /\ app.acceptedScriptFd = None
          /\ app.captured = {}
      BY <2>1 DEF Names
    <3>2. app.tfoSynDeferredKick = FALSE
      BY <2>1 DEF Mirror, States, Types, AppTyped
    <3>3. app' = [app EXCEPT !.socketWasListener = FALSE]
      BY <2>1 DEF SyscallSocket
    <3> QED
      BY <2>1, <3>1, <3>2, <3>3 DEF Types, AppTyped, Kept, AppMembers
  <2>2. CASE sock.state # "NOT_BOUND"
    <3>1. app' = [Renewed(app) EXCEPT !.socketWasListener = FALSE]
      BY <2>2 DEF SyscallSocket
    <3>2. /\ Kept(app, NewPorts(app), {"localPort", "remotePort"})
          /\ NewPorts(app).localPort \in Nat /\ NewPorts(app).remotePort \in Nat
          /\ NewPorts(app).localPort + NewPorts(app).remotePort = app.localPort + app.remotePort + 1
      <4>1. /\ app.localPort \in Nat /\ app.localPort + 1 \in Nat
            /\ app.remotePort \in Nat /\ app.remotePort + 1 \in Nat /\ DOMAIN app = AppMembers
        BY DEF Types, AppTyped
      <4>2. CASE app.socketWasListener
        <5>1. NewPorts(app).localPort = app.localPort /\ NewPorts(app).remotePort = app.remotePort + 1
          BY <4>1, <4>2 DEF NewPorts, AppMembers
        <5>2. Kept(app, NewPorts(app), {"localPort", "remotePort"})
          BY <4>1 DEF NewPorts, Kept, AppMembers
        <5> HIDE DEF Inv
        <5> QED
          BY <4>1, <5>1, <5>2
      <4>3. CASE ~app.socketWasListener
        <5>1. NewPorts(app).localPort = app.localPort + 1 /\ NewPorts(app).remotePort = app.remotePort
          BY <4>1, <4>3 DEF NewPorts, AppMembers
        <5>2. Kept(app, NewPorts(app), {"localPort", "remotePort"})
          BY <4>1 DEF NewPorts, Kept, AppMembers
        <5> HIDE DEF Inv
        <5> QED
          BY <4>1, <5>1, <5>2
      <4> QED
        BY <4>2, <4>3
    <3>3. /\ Kept(NewPorts(app), app', {"socketWasListener", "tcpConnId", "listenScriptFd",
                          "acceptedScriptFd", "tfoSynDeferredKick", "captured"})
          /\ app'.tcpConnId = None /\ app'.listenScriptFd = None /\ app'.acceptedScriptFd = None
          /\ app'.tfoSynDeferredKick = FALSE /\ app'.captured = {}
      BY <3>1, <3>2 DEF Renewed, Kept, AppMembers
    <3> QED
      BY <3>2, <3>3 DEF Kept, AppMembers
  <2> QED
    BY <2>1, <2>2
<1>4. Types'
  <2>1. AppTyped(app')
    BY <1>3 DEF Types, AppTyped, Kept, AppMembers
  <2> QED
    BY <1>1, <1>2, <2>1 DEF Types
<1>5. Names'
  <2>1. app'.error = ""
    BY <1>3 DEF Names, Kept, AppMembers
  <2>2. sock'.id # 0
    BY <1>2, IdsAreNumbers
  <2> QED
    <3>1. 4 \notin fds'
      BY <1>1
    <3> QED
      BY ONLY <1>1, <1>2, <1>3, <2>1, <2>2, <3>1, NoneIsNoFd DEF Names
<1>6. State' = "none" /\ \A i \in Ids : i > sock.id => C(i).state = "none"
  <2>1. sock.id + 1 > sock.id
    BY DEF Types, SockType
  <2> QED
    BY <1>1, <1>2, <2>1 DEF States, State, C
<1>7. States'
  BY <1>1, <1>2, <1>6 DEF States, C, Types, SockType, Ids
<1>8. Mirror'
  BY <1>1, <1>3, <1>6 DEF Mirror, Kept, AppMembers
<1>9. Closed'
  BY <1>1, <1>3 DEF Closed, C, Kept, AppMembers
<1>10. Owned'
  <2>1. \A i \in Ids : Open(i) => C(i).ended
    BY <1>1 DEF Owned
  <2> QED
    BY <1>1, <1>2, <1>6, <2>1 DEF Owned, C, Open, State
<1>11. Ports'
  <2>1. \A i \in Ids : C(i).state # "none" => sock.state # "NOT_BOUND"
    <3>1. \A i \in Ids : i > 0
      BY DEF Ids
    <3>2. sock.state = "NOT_BOUND" => sock.id = 0
      BY DEF Names
    <3> QED
      BY <3>1, <3>2 DEF States
  <2>2. \A i \in Ids : C(i).local \in Int /\ C(i).remote \in Int
    BY DEF C, Types, TcpType, ConnType
  <2>3. \A i \in Ids : C(i).state # "none" => C(i).local + C(i).remote < app'.localPort + app'.remotePort
    BY <1>3, <2>1, <2>2 DEF Ports, Types, AppTyped
  <2>4. \A i \in Ids : C(i).state # "none" => ~Current(i)'
    BY <1>1, <1>3, <2>2, <2>3 DEF Current, C
  <2> QED
    BY <1>1, <1>3, <2>2, <2>3, <2>4 DEF Ports, C, Open
<1> QED
  BY <1>4, <1>5, <1>7, <1>8, <1>9, <1>10, <1>11

LEMMA SyscallListenInv == ASSUME Inv, Habits = {}, NEW fd \in fds, SyscallListen(fd) PROVE Inv'
<1> USE DEF Inv
<1>1. fds = {3} /\ fds' = fds /\ sock.state = "BOUND" /\ app.tcpConnId = None /\ fd = 3
  BY DEF SyscallListen
<1>2. sock' \in SockType /\ sock'.id = sock.id /\ sock'.state = "LISTENING" /\ sock.id \in Ids
      /\ State = "none" /\ C(sock.id).state = "none"
  BY <1>1, UnderSocket DEF SyscallListen, Types, SockType, SockStates, States
<1>3. Kept(app, app', {"listenSet", "socketWasListener", "listenScriptFd"}) /\ app'.listenScriptFd = 3
      /\ app.acceptedScriptFd = None /\ sock.id \notin app.closedTcpConnIds
  <2>1. app.listenScriptFd = None
    BY <1>1 DEF Names
  <2> QED
    BY <1>2, <2>1, NoneIsNoFd DEF SyscallListen, Types, AppTyped, Names, Closed, Kept, AppMembers
<1>4. Opened(tcp, tcp', sock.id, "listen")
  BY <1>2, OpenPuts DEF SyscallListen, ConnStates, Types
<1>5. /\ tcp' \in TcpType /\ State' = "listen" /\ tcp'.conns[sock.id].state = "listen"
      /\ ~tcp'.conns[sock.id].ended /\ tcp'.conns[sock.id].closes = 0
      /\ tcp'.conns[sock.id].local = app.localPort /\ tcp'.conns[sock.id].remote = app.remotePort
      /\ tcp'.cookies = tcp.cookies /\ tcp'.client = tcp.client /\ tcp'.noCookie = tcp.noCookie
      /\ \A j \in Ids : j # sock.id => tcp'.conns[j] = tcp.conns[j]
  BY <1>2, <1>4 DEF Opened, Only, State, C
<1>6. Types'
  BY <1>1, <1>2, <1>3, <1>5 DEF Types, AppTyped, Kept, AppMembers
<1>7. Names'
  BY <1>1, <1>2, <1>3, NoneIsNoFd DEF Names, Kept, AppMembers, DataFd
<1>8. States'
  BY <1>1, <1>2, <1>3, <1>5, NoneIsNoFd, IdsAreNumbers DEF States, C, Kept, AppMembers, Types, SockType
<1>9. Mirror'
  BY <1>1, <1>2, <1>3, <1>5 DEF Mirror, Kept, AppMembers
<1>10. Closed'
  BY <1>1, <1>2, <1>3, <1>5 DEF Closed, C, Types, AppTyped, Kept, AppMembers
<1>11. Owned'
  BY <1>1, <1>2, <1>3, <1>5 DEF Owned, Open, C, Holder, DataFd, Kept, AppMembers
<1>12. Ports'
  BY <1>1, <1>2, <1>3, <1>5 DEF Ports, C, Open, Current, Types, AppTyped, Kept, AppMembers
<1> QED
  BY <1>6, <1>7, <1>8, <1>9, <1>10, <1>11, <1>12

LEMMA DisconnectInv == ASSUME Inv, Habits = {}, Disconnect PROVE Inv'
<1> USE DEF Inv
<1>1. fds = {DataFd} /\ fds' = fds /\ app.unread = {} /\ sock.id < MaxConns /\ sock.id \in Ids
  BY DEF Disconnect, Names
<1>2. sock' \in SockType /\ sock'.id = sock.id + 1 /\ sock'.state = "BOUND" /\ sock'.id \in Ids
  BY <1>1, SocketsAssumption DEF Disconnect, Types, SockType, SockStates, SocketsAssumption, Ids
<1>3. Kept(app, app', {"acceptSet", "tcpConnId", "tfoSynDeferredKick"}) /\ app'.tcpConnId = sock.id + 1
      /\ app'.tfoSynDeferredKick = FALSE /\ app'.acceptSet \in BOOLEAN
  BY DEF Disconnect, Accepted, Now, Types, AppTyped, Kept, AppMembers
<1>4. Aborted(tcp, tcp', sock.id)
  BY <1>1, AbortPuts DEF Disconnect, Types
<1>5. /\ tcp' \in TcpType /\ tcp'.conns[sock.id].state \in {"none", "gone"}
      /\ tcp'.conns[sock.id].state = "none" <=> tcp.conns[sock.id].state = "none"
      /\ tcp'.conns[sock.id].closes = tcp.conns[sock.id].closes
      /\ tcp'.conns[sock.id].local = tcp.conns[sock.id].local /\ tcp'.conns[sock.id].remote = tcp.conns[sock.id].remote
      /\ tcp'.cookies = tcp.cookies /\ tcp'.client = tcp.client /\ tcp'.noCookie = tcp.noCookie
      /\ \A j \in Ids : j # sock.id => tcp'.conns[j] = tcp.conns[j]
  BY <1>1, <1>4 DEF Aborted, Only, SamePorts
<1>6. State' = "none" /\ sock'.id # sock.id /\ \A i \in Ids : i > sock.id => tcp.conns[i].state = "none"
  <2>1. sock.id + 1 > sock.id /\ sock.id + 1 # sock.id
    BY DEF Types, SockType
  <2> QED
    BY <1>1, <1>2, <1>5, <2>1 DEF States, State, C
<1>7. Types'
  <2>1. AppTyped(app')
    BY <1>3 DEF Types, AppTyped, Kept, AppMembers
  <2> QED
    BY <1>1, <1>2, <1>5, <2>1 DEF Types
<1>8. Names'
  BY <1>1, <1>2, <1>3, NoneIsNoFd, IdsAreNumbers DEF Names, Kept, AppMembers, DataFd
<1>9. States'
  BY <1>1, <1>2, <1>3, <1>5, <1>6 DEF States, C, Kept, AppMembers, Types, SockType, Ids
<1>10. Mirror'
  BY <1>1, <1>2, <1>3, <1>5, <1>6 DEF Mirror, Kept, AppMembers
<1>11. Closed'
  BY <1>1, <1>2, <1>3, <1>5, <1>6 DEF Closed, C, Types, AppTyped, Kept, AppMembers
<1>12. Owned'
  BY <1>1, <1>2, <1>3, <1>5, <1>6 DEF Owned, Open, C, Holder, DataFd, Kept, AppMembers, State
<1>13. Ports'
  BY <1>1, <1>2, <1>3, <1>5, <1>6 DEF Ports, C, Open, Current, Types, AppTyped, Kept, AppMembers
<1> QED
  BY <1>7, <1>8, <1>9, <1>10, <1>11, <1>12, <1>13

\* From BOUND to CONNECTING, with a SYN that is sent or deferred.
LEMMA ConnectingInv ==
  ASSUME Inv, NEW state \in {"syn", "deferred"},
         sock.state = "BOUND", fds # {}, fds' = fds,
         Kept(app, app', {"tcpConnId", "fastopenConnectPending", "tfoSynDeferredKick"}),
         app'.tcpConnId = sock.id, app'.fastopenConnectPending \in BOOLEAN,
         app'.tfoSynDeferredKick = (state = "deferred"),
         sock' = [sock EXCEPT !.state = "CONNECTING"], Opened(tcp, tcp', sock.id, state)
  PROVE  Inv'
<1> USE DEF Inv
<1>1. sock' \in SockType /\ sock'.id = sock.id /\ sock'.state = "CONNECTING" /\ sock.id \in Ids
      /\ State = "none" /\ C(sock.id).state = "none"
  BY UnderSocket DEF Types, SockType, SockStates, States
<1>2. /\ tcp' \in TcpType /\ State' = state /\ tcp'.conns[sock.id].state = state
      /\ ~tcp'.conns[sock.id].ended /\ tcp'.conns[sock.id].closes = 0
      /\ tcp'.conns[sock.id].local = app.localPort /\ tcp'.conns[sock.id].remote = app.remotePort
      /\ tcp'.cookies = tcp.cookies /\ tcp'.client = tcp.client /\ tcp'.noCookie = tcp.noCookie
      /\ \A j \in Ids : j # sock.id => tcp'.conns[j] = tcp.conns[j]
  BY <1>1 DEF Opened, Only, State, C
<1>3. sock.id \notin app.closedTcpConnIds
  BY <1>1 DEF Closed
<1>4. fds = {DataFd} /\ (app.listenScriptFd = 3 => app.acceptedScriptFd = 4)
  <2>1. CASE app.tcpConnId = None
    <3>1. app.listenScriptFd = None /\ app.acceptedScriptFd # 4
      BY <2>1, NoneIsNoFd DEF Names
    <3>2. DataFd = 3 /\ 4 \notin fds
      BY <3>1, NoneIsNoFd DEF DataFd, Names
    <3> QED
      BY <3>1, <3>2, NoneIsNoFd DEF Types
  <2>2. CASE app.tcpConnId # None
    BY <2>2 DEF Names, DataFd
  <2> QED
    BY <2>1, <2>2
<1>5. Types'
  <2>1. AppTyped(app')
    BY DEF Types, AppTyped, Kept, AppMembers
  <2> QED
    BY <1>1, <1>2, <2>1 DEF Types
<1>6. Names'
  <2>1. DataFd' = DataFd /\ sock.id # 0
    BY <1>1, IdsAreNumbers DEF DataFd, Kept, AppMembers
  <2>2. sock'.state # "NOT_BOUND" /\ sock'.state # "BOUND"
    BY <1>1
  <2>3. /\ app'.error = "" /\ app'.listenScriptFd = app.listenScriptFd
        /\ app'.acceptedScriptFd = app.acceptedScriptFd
    BY DEF Names, Kept, AppMembers
  <2>4. /\ 4 \in fds => app.acceptedScriptFd = 4
        /\ app.acceptedScriptFd = 4 => app.listenScriptFd = 3
    BY DEF Names
  <2> HIDE DEF Inv
  <2> QED
    BY <1>1, <1>4, <2>1, <2>2, <2>3, <2>4 DEF Names
<1>7. States'
  <2>1. \A i \in Ids : i > sock.id => i # sock.id
    BY <1>1 DEF Ids
  <2> QED
    BY <1>1, <1>2, <2>1 DEF States, C, Kept, AppMembers
<1>8. Mirror'
  <2>1. app'.tcpConnId # None
    BY <1>1, IdsAreNumbers
  <2>2. app'.tfoSynDeferredKick <=> State' = "deferred"
    BY <1>2
  <2>3. app'.unread = {}
    BY <1>1 DEF Mirror, Kept, AppMembers
  <2> QED
    BY <1>2, <2>1, <2>2, <2>3 DEF Mirror, Kept, AppMembers
<1>9. Closed'
  BY <1>1, <1>2, <1>3 DEF Closed, C, Types, AppTyped, Kept, AppMembers
<1>10. Owned'
  <2>1. Holder' = DataFd
    BY <1>4, NoneIsNoFd DEF Holder, DataFd, Kept, AppMembers
  <2>2. Holder' \in fds'
    BY <1>4, <2>1
  <2> QED
    BY <1>1, <1>2, <2>2 DEF Owned, Open, C
<1>11. Ports'
  BY <1>1, <1>2 DEF Ports, C, Open, Current, Types, AppTyped, Kept, AppMembers
<1> QED
  BY <1>5, <1>6, <1>7, <1>8, <1>9, <1>10, <1>11

\* A call that may send on the connection under the socket.
Sends ==
  /\ Kept(app, app', {"acceptSet", "tfoSynDeferredKick"})
  /\ app'.acceptSet \in BOOLEAN /\ app'.tfoSynDeferredKick = FALSE
  /\ \/ sock' = sock /\ app'.acceptSet = app.acceptSet
     \/ sock.state = "LISTENING" /\ app.acceptedScriptFd = 4 /\ sock' = [sock EXCEPT !.state = "CONNECTED"]
  /\ (tcp' = tcp /\ State # "deferred") \/ Sent(tcp, tcp', sock.id)
  /\ fds' = fds

LEMMA SendsInv == ASSUME Inv, sock.id \in Ids, Sends PROVE Inv' /\ sock'.id = sock.id
<1> USE DEF Inv
<1>1. /\ tcp' \in TcpType
      /\ tcp'.conns[sock.id].state = IF tcp.conns[sock.id].state = "deferred" THEN "syn" ELSE tcp.conns[sock.id].state
      /\ tcp'.cookies = tcp.cookies /\ tcp'.client = tcp.client /\ tcp'.noCookie = tcp.noCookie
      /\ \A j \in Ids : /\ j # sock.id => tcp'.conns[j].state = tcp.conns[j].state
                       /\ tcp'.conns[j].closes = tcp.conns[j].closes /\ tcp'.conns[j].ended = tcp.conns[j].ended
                       /\ tcp'.conns[j].local = tcp.conns[j].local /\ tcp'.conns[j].remote = tcp.conns[j].remote
  <2>1. CASE tcp' = tcp /\ State # "deferred"
    BY <2>1 DEF State, C, Types
  <2>2. CASE Sent(tcp, tcp', sock.id)
    BY <2>2 DEF Sent, Only, SamePorts
  <2> QED
    BY <2>1, <2>2 DEF Sends
<1>2. sock' \in SockType /\ sock'.id = sock.id
      /\ \/ sock' = sock /\ app'.acceptSet = app.acceptSet
         \/ sock.state = "LISTENING" /\ app.acceptedScriptFd = 4 /\ sock'.state = "CONNECTED"
  BY DEF Sends, Types, SockType, SockStates
<1>3. Kept(app, app', {"acceptSet", "tfoSynDeferredKick"}) /\ app'.acceptSet \in BOOLEAN
      /\ app'.tfoSynDeferredKick = FALSE /\ fds' = fds
  BY DEF Sends
<1>4. State' = (IF State = "deferred" THEN "syn" ELSE State) /\ State = tcp.conns[sock.id].state
  BY <1>1, <1>2 DEF State, C
<1>5. Types'
  <2>1. AppTyped(app')
    BY <1>3 DEF Types, AppTyped, Kept, AppMembers
  <2> QED
    BY <1>1, <1>2, <1>3, <2>1 DEF Types
<1>6. Names'
  <2>1. CASE sock' = sock
    BY <1>3, <2>1 DEF Names, Kept, AppMembers, DataFd
  <2>2. CASE sock.state = "LISTENING" /\ sock'.state = "CONNECTED"
    BY <1>2, <1>3, <2>2 DEF Names, Kept, AppMembers, DataFd
  <2> QED
    BY <1>2, <2>1, <2>2
<1>7. States'
  <2>1. \A i \in Ids : i > sock.id => i # sock.id
    BY DEF Ids
  <2>2. \A i \in Ids : i > sock'.id => C(i)'.state = "none"
    BY <1>1, <1>2, <2>1 DEF States, C
  <2>3. CASE sock' = sock /\ app'.acceptSet = app.acceptSet
    BY <1>3, <1>4, <2>2, <2>3 DEF States, Kept, AppMembers
  <2>4. CASE sock.state = "LISTENING" /\ app.acceptedScriptFd = 4 /\ sock'.state = "CONNECTED"
    BY <1>3, <1>4, <2>2, <2>4, NoneIsNoFd DEF States, Kept, AppMembers
  <2> QED
    BY <1>2, <2>3, <2>4
<1>8. Mirror'
  BY <1>1, <1>3, <1>4 DEF Mirror, Kept, AppMembers
<1>9. Closed'
  BY <1>1, <1>2, <1>3 DEF Closed, C, Types, AppTyped, Kept, AppMembers
<1>10. Owned'
  BY <1>1, <1>2, <1>3 DEF Owned, Open, C, Holder, DataFd, Kept, AppMembers
<1>11. Ports'
  BY <1>1, <1>2, <1>3 DEF Ports, C, Open, Current, Types, AppTyped, Kept, AppMembers
<1> QED
  BY <1>2, <1>5, <1>6, <1>7, <1>8, <1>9, <1>10, <1>11

-----------------------------------------------------------------------------
(* connect() and the calls that send.                                      *)

LEMMA ConnectsOpens ==
  ASSUME Inv, sock.state = "BOUND", NEW a, NEW fastOpen \in BOOLEAN
  PROVE  LET r == Connects(a, fastOpen, sock, tcp)
         IN /\ r = [app |-> r.app, sock |-> r.sock, tcp |-> r.tcp]
            /\ r.app = [a EXCEPT !.tcpConnId = sock.id]
            /\ r.sock = [sock EXCEPT !.state = "CONNECTING"]
            /\ Opened(tcp, r.tcp, sock.id, IF fastOpen /\ Defers THEN "deferred" ELSE "syn")
<1> DEFINE state == IF fastOpen /\ Defers THEN "deferred" ELSE "syn"
<1>1. Connects(a, fastOpen, sock, tcp) =
        [app |-> [a EXCEPT !.tcpConnId = sock.id], sock |-> [sock EXCEPT !.state = "CONNECTING"],
         tcp |-> TcpOpen(tcp, sock.id, state, fastOpen)]
  BY DEF Connects
<1>2. Opened(tcp, TcpOpen(tcp, sock.id, state, fastOpen), sock.id, state)
  BY UnderSocket, OpenPuts DEF ConnStates, Inv, Types
<1> HIDE DEF state
<1> QED
  BY <1>1, <1>2 DEF state

\* The app knows whether Tcp defers the SYN of a Fast Open connect.
LEMMA KickAgrees ==
  ASSUME Inv, Habits = {}, sock.state = "BOUND", NEW fastOpen \in BOOLEAN, MayKick(fastOpen)
  PROVE  /\ app.tfoSynDeferredKick = FALSE /\ Kicks(fastOpen) \in BOOLEAN
         /\ Kicks(fastOpen) <=> fastOpen /\ Defers
<1>1. State = "none"
  BY UnderSocket DEF Inv, States
<1>2. Kicks(fastOpen) => app.tfoClientEnabled
  BY DEF MayKick
<1> QED
  BY <1>1, <1>2 DEF Inv, Mirror, Defers, Kicks, Types, AppTyped

LEMMA SyscallConnectInv == ASSUME Inv, Habits = {}, SyscallConnect PROVE Inv'
<1>1. CASE sock.state = "BOUND"
  <2> DEFINE fastOpen == app.fastopenConnectPending
             pending == [app EXCEPT !.fastopenConnectPending = FALSE]
             a == [pending EXCEPT !.tfoSynDeferredKick = @ \/ Kicks(fastOpen)]
             state == IF fastOpen /\ Defers THEN "deferred" ELSE "syn"
  <2>1. /\ Becomes(Connects(a, fastOpen, sock, tcp)) /\ fds # {} /\ fds' = fds
        /\ MayKick(fastOpen)
    BY <1>1 DEF SyscallConnect
  <2>2. fastOpen \in BOOLEAN
    BY DEF Inv, Types, AppTyped
  <2>3. /\ Kept(app, a, {"fastopenConnectPending", "tfoSynDeferredKick"})
        /\ a.fastopenConnectPending = FALSE /\ a.tfoSynDeferredKick = (state = "deferred")
    <3> HIDE DEF fastOpen
    <3>1. /\ app.tfoSynDeferredKick = FALSE /\ Kicks(fastOpen) \in BOOLEAN
          /\ Kicks(fastOpen) <=> fastOpen /\ Defers
      BY <1>1, <2>1, <2>2, KickAgrees
    <3> QED
      BY <3>1 DEF Inv, Types, AppTyped, Kept, AppMembers
  <2> HIDE DEF pending, a, state, fastOpen
  <2> DEFINE r == Connects(a, fastOpen, sock, tcp)
  <2>7. /\ r.app = [a EXCEPT !.tcpConnId = sock.id] /\ r.sock = [sock EXCEPT !.state = "CONNECTING"]
        /\ Opened(tcp, r.tcp, sock.id, state)
    BY <1>1, <2>2, ConnectsOpens DEF state
  <2> HIDE DEF r
  <2>4. /\ app' = [a EXCEPT !.tcpConnId = sock.id] /\ sock' = [sock EXCEPT !.state = "CONNECTING"]
        /\ Opened(tcp, tcp', sock.id, state)
    BY <2>1, <2>7 DEF Becomes, r
  <2>5. /\ Kept(app, app', {"tcpConnId", "fastopenConnectPending", "tfoSynDeferredKick"})
        /\ app'.tcpConnId = sock.id /\ app'.fastopenConnectPending = FALSE
        /\ app'.tfoSynDeferredKick = (state = "deferred")
    BY <2>3, <2>4 DEF Kept, AppMembers
  <2>6. state \in {"syn", "deferred"}
    BY DEF state
  <2> QED
    BY <1>1, <2>1, <2>4, <2>5, <2>6, ConnectingInv
<1>2. CASE sock.state # "BOUND"
  <2>1. /\ app' = [app EXCEPT !.fastopenConnectPending = FALSE] /\ UNCHANGED <<sock, tcp, fds>>
    BY <1>2 DEF SyscallConnect, Becomes, Now
  <2>2. Kept(app, app', {"fastopenConnectPending"}) /\ app'.fastopenConnectPending = FALSE
    BY <2>1 DEF Inv, Types, AppTyped, Kept, AppMembers
  <2> QED
    BY <2>1, <2>2, PendingInv
<1> QED
  BY <1>1, <1>2

Members == {"app", "sock", "tcp"}

LEMMA SendFields ==
  ASSUME NEW r, DOMAIN r = Members, r.sock.state \in {"CONNECTING", "CONNECTED", "PEER_CLOSED"}
  PROVE  LET q == SendTcpPayload(r)
         IN q.app = r.app /\ q.sock = r.sock /\ q.tcp = TcpSend(r.tcp, r.sock.id) /\ DOMAIN q = Members
<1>1. Accepted(r) = r
  BY DEF Accepted
<1>2. SendTcpPayload(r) = [r EXCEPT !.tcp = TcpSend(@, r.sock.id)]
  BY <1>1 DEF SendTcpPayload
<1> QED
  BY <1>2 DEF Members

\* What a call that sends starts from: a socket that may have been accepted.
Ready(r) ==
  /\ DOMAIN r = Members /\ Kept(app, r.app, {"acceptSet"}) /\ r.app.acceptSet \in BOOLEAN /\ r.tcp = tcp
  /\ \/ r.sock = sock /\ r.app = app
     \/ sock.state = "LISTENING" /\ app.acceptedScriptFd = 4 /\ r.sock = [sock EXCEPT !.state = "CONNECTED"]

LEMMA ReadyToSend ==
  ASSUME Inv, DataFd \in fds
  PROVE  /\ Ready(Now) /\ Ready(Accepted(Now)) /\ sock.id \in Ids
         /\ State \in {"deferred", "syn", "open"} =>
              Accepted(Now).sock.state \in {"CONNECTING", "CONNECTED", "PEER_CLOSED"}
<1> USE DEF Inv
<1>1. DOMAIN app = AppMembers /\ app.acceptSet \in BOOLEAN /\ sock \in SockType
  BY DEF Types, AppTyped
<1>2. sock.state = "LISTENING" => app.acceptedScriptFd = 4 /\ app.acceptSet = TRUE
  <2>1. CASE sock.state = "LISTENING"
    <3>1. DataFd = 4
      BY <2>1 DEF States, DataFd
    <3> QED
      BY <2>1, <3>1, <1>1 DEF Names, States
  <2> QED
    BY <2>1
<1>0. sock.id \in Ids
  BY DEF Names
<1>3. Ready(Now)
  BY <1>1 DEF Ready, Now, Members, Kept
<1>4. CASE sock.state = "LISTENING"
  <2>1. Accepted(Now) = [Now EXCEPT !.sock.state = "CONNECTED", !.app.acceptSet = FALSE]
    BY <1>2, <1>4 DEF Accepted, Now
  <2>2. /\ DOMAIN Accepted(Now) = Members /\ Accepted(Now).sock = [sock EXCEPT !.state = "CONNECTED"]
        /\ Accepted(Now).app = [app EXCEPT !.acceptSet = FALSE] /\ Accepted(Now).tcp = tcp
    BY <2>1 DEF Now, Members
  <2>3. Accepted(Now).sock.state = "CONNECTED"
    BY <1>1, <2>2 DEF SockType
  <2>4. Ready(Accepted(Now))
    BY <1>1, <1>2, <1>4, <2>2 DEF Ready, Kept, AppMembers
  <2> QED
    BY <1>0, <1>3, <2>3, <2>4
<1>5. CASE sock.state # "LISTENING"
  <2>1. Accepted(Now) = Now
    BY <1>5 DEF Accepted, Now
  <2>2. State \in {"deferred", "syn", "open"} => sock.state \in {"CONNECTING", "CONNECTED", "PEER_CLOSED"}
    BY <1>5 DEF States
  <2> QED
    BY <1>0, <1>3, <2>1, <2>2 DEF Now
<1> QED
  BY <1>4, <1>5

\* From r to q a call sends, or does nothing; then the deferred SYN is out.
LEMMA ReadySends ==
  ASSUME Inv, NEW r, NEW q, Ready(r), fds' = fds, sock.id \in Ids,
         \/ q = r /\ State # "deferred"
         \/ q = SendTcpPayload(r) /\ r.sock.state \in {"CONNECTING", "CONNECTED", "PEER_CLOSED"},
         Becomes(KickDone(q)) \/ (Becomes(q) /\ app.tfoSynDeferredKick = FALSE)
  PROVE  Sends
<1>1. /\ DOMAIN q = Members /\ q.app = r.app /\ q.sock = r.sock
      /\ (q.tcp = tcp /\ State # "deferred") \/ Sent(tcp, q.tcp, sock.id)
  <2>1. CASE q = r /\ State # "deferred"
    BY <2>1 DEF Ready
  <2>2. CASE q = SendTcpPayload(r) /\ r.sock.state \in {"CONNECTING", "CONNECTED", "PEER_CLOSED"}
    <3>1. q.app = r.app /\ q.sock = r.sock /\ q.tcp = TcpSend(tcp, r.sock.id) /\ DOMAIN q = Members
      BY <2>2, SendFields DEF Ready
    <3>2. r.sock.id = sock.id
      BY DEF Ready, Inv, Types, SockType
    <3> QED
      BY <3>1, <3>2, SendPuts DEF Inv, Types
  <2> QED
    BY <2>1, <2>2
<1>2. sock' = r.sock /\ tcp' = q.tcp
  BY <1>1 DEF Becomes, KickDone, Members
<1>3. app' = [r.app EXCEPT !.tfoSynDeferredKick = FALSE] \/ (app' = r.app /\ app.tfoSynDeferredKick = FALSE)
  BY <1>1 DEF Becomes, KickDone, Members
<1>4. /\ Kept(app, app', {"acceptSet", "tfoSynDeferredKick"}) /\ app'.tfoSynDeferredKick = FALSE
      /\ app'.acceptSet = r.app.acceptSet
  BY <1>3 DEF Ready, Kept, AppMembers
<1> QED
  BY <1>1, <1>2, <1>4 DEF Sends, Ready

LEMMA SyscallWriteInv ==
  ASSUME Inv, NEW result \in Results, SyscallWrite(result)
  PROVE  Inv' /\ sock'.id = sock.id /\ sock.id \in Ids /\ app'.tfoSynDeferredKick = FALSE
<1>1. DataFd \in fds /\ fds' = fds /\ Ready(Accepted(Now)) /\ sock.id \in Ids
  BY ReadyToSend DEF SyscallWrite, CanSend
<1> DEFINE q == Payload(Accepted(Now), result)
<1>2. \/ q = Accepted(Now) /\ State # "deferred"
      \/ /\ q = SendTcpPayload(Accepted(Now))
         /\ Accepted(Now).sock.state \in {"CONNECTING", "CONNECTED", "PEER_CLOSED"}
  <2>1. Accepted(Now).app.tfoSynDeferredKick = app.tfoSynDeferredKick
    BY <1>1 DEF Ready, Kept, AppMembers
  <2>2. app.tfoSynDeferredKick <=> State = "deferred"
    BY DEF Inv, Mirror
  <2>3. result = "bytes" => State \in {"deferred", "syn", "open"}
    BY <1>1 DEF SyscallWrite, CanSend, State, C
  <2> QED
    BY <1>1, <2>1, <2>2, <2>3, ReadyToSend DEF Payload
<1>3. Becomes(KickDone(q))
  BY DEF SyscallWrite
<1>4. Sends
  <2> HIDE DEF q
  <2> QED
    BY <1>1, <1>2, <1>3, ReadySends
<1> QED
  BY <1>1, <1>4, SendsInv DEF Sends

LEMMA SyscallSendFileInv ==
  ASSUME Inv, Habits = {}, NEW result \in Results, SyscallSendFile(result)
  PROVE  Inv'
<1>1. DataFd \in fds /\ fds' = fds /\ Ready(Accepted(Now)) /\ sock.id \in Ids /\ State # "deferred"
  BY ReadyToSend DEF SyscallSendFile, CanSend, State, C
<1> DEFINE q == IF result = "bytes" THEN SendTcpPayload(Accepted(Now)) ELSE Accepted(Now)
<1>2. \/ q = Accepted(Now) /\ State # "deferred"
      \/ /\ q = SendTcpPayload(Accepted(Now))
         /\ Accepted(Now).sock.state \in {"CONNECTING", "CONNECTED", "PEER_CLOSED"}
  <2>1. result = "bytes" => State \in {"deferred", "syn", "open"}
    BY <1>1 DEF SyscallSendFile, CanSend, State, C
  <2> QED
    BY <1>1, <2>1, ReadyToSend
<1>3. Becomes(q) /\ app.tfoSynDeferredKick = FALSE
  BY <1>1 DEF SyscallSendFile, Inv, Mirror, Types, AppTyped
<1>4. Sends
  <2> HIDE DEF q
  <2> QED
    BY <1>1, <1>2, <1>3, ReadySends
<1> QED
  BY <1>1, <1>4, SendsInv

\* SendTcpPayload corrects the state of an accepted socket itself.
LEMMA PayloadAccepts ==
  ASSUME Inv, DataFd \in fds
  PROVE  SendTcpPayload(Now) = SendTcpPayload(Accepted(Now))
<1>1. Accepted(Accepted(Now)) = Accepted(Now)
  <2>1. CASE Accepted(Now) = Now
    BY <2>1
  <2>2. CASE Accepted(Now).app.acceptSet = FALSE
    BY <2>2 DEF Accepted
  <2>3. DOMAIN app = AppMembers
    BY DEF Inv, Types, AppTyped
  <2> QED
    BY <2>1, <2>2, <2>3 DEF Accepted, Now, AppMembers
<1> QED
  BY <1>1 DEF SendTcpPayload

\* A call that opens a connection and sends its SYN at once.
LEMMA OpensAndSends ==
  ASSUME Inv, sock.state = "BOUND", fds # {}, fds' = fds, NEW fastOpen \in BOOLEAN,
         NEW a, Kept(app, a, {"fastopenConnectPending", "tfoSynDeferredKick"}),
         a.fastopenConnectPending \in BOOLEAN,
         NEW q,
         \/ q = SendTcpPayload(Connects(a, fastOpen, sock, tcp))
         \/ q = Connects(a, fastOpen, sock, tcp) /\ ~(fastOpen /\ Defers),
         Becomes(KickDone(q)) \/ (Becomes(q) /\ a.tfoSynDeferredKick = FALSE)
  PROVE  Inv' /\ sock'.id = sock.id /\ sock.id \in Ids /\ app'.tfoSynDeferredKick = FALSE
<1> DEFINE r == Connects(a, fastOpen, sock, tcp)
           state == IF fastOpen /\ Defers THEN "deferred" ELSE "syn"
<1>1. /\ r = [app |-> r.app, sock |-> r.sock, tcp |-> r.tcp]
      /\ r.app = [a EXCEPT !.tcpConnId = sock.id] /\ r.sock = [sock EXCEPT !.state = "CONNECTING"]
      /\ Opened(tcp, r.tcp, sock.id, state)
  BY ConnectsOpens
<1> HIDE DEF r, state
<1>2. DOMAIN r = Members /\ r.sock.state = "CONNECTING" /\ r.sock.id = sock.id /\ sock.id \in Ids
  <2>1. sock \in SockType
    BY DEF Inv, Types
  <2>2. DOMAIN r = Members
    BY <1>1 DEF Members
  <2> QED
    BY <1>1, <2>1, <2>2, UnderSocket DEF SockType
<1>3. /\ DOMAIN q = Members /\ q.app = r.app /\ q.sock = r.sock
      /\ Opened(tcp, q.tcp, sock.id, "syn")
  <2>1. CASE q = SendTcpPayload(r)
    <3>1. /\ q.app = r.app /\ q.sock = r.sock /\ q.tcp = TcpSend(r.tcp, sock.id) /\ DOMAIN q = Members
      BY <1>2, <2>1, SendFields
    <3>2. Sent(r.tcp, q.tcp, sock.id)
      <4>1. r.tcp \in TcpType
        BY <1>1 DEF Opened, Only
      <4> QED
        BY <1>2, <3>1, <4>1, SendPuts
    <3>3. (IF state = "deferred" THEN "syn" ELSE state) = "syn"
      BY DEF state
    <3> QED
      BY <1>1, <3>1, <3>2, <3>3, OpenThenSend
  <2>2. CASE q = r /\ ~(fastOpen /\ Defers)
    BY <1>1, <1>2, <2>2 DEF state
  <2> QED
    BY <2>1, <2>2 DEF r
<1>4. sock' = r.sock /\ tcp' = q.tcp
  BY <1>3 DEF Becomes, KickDone, Members
<1>5. app' = [r.app EXCEPT !.tfoSynDeferredKick = FALSE] \/ (app' = r.app /\ a.tfoSynDeferredKick = FALSE)
  BY <1>3 DEF Becomes, KickDone, Members
<1>6. /\ Kept(app, app', {"tcpConnId", "fastopenConnectPending", "tfoSynDeferredKick"})
      /\ app'.tcpConnId = sock.id /\ app'.fastopenConnectPending = a.fastopenConnectPending
      /\ app'.tfoSynDeferredKick = FALSE
  <2>1. Kept(app, r.app, {"tcpConnId", "fastopenConnectPending", "tfoSynDeferredKick"})
        /\ r.app.tcpConnId = sock.id /\ r.app.fastopenConnectPending = a.fastopenConnectPending
        /\ r.app.tfoSynDeferredKick = a.tfoSynDeferredKick
    BY <1>1 DEF Kept, AppMembers
  <2> QED
    BY <1>5, <2>1 DEF Kept, AppMembers
<1>7. app'.tfoSynDeferredKick = ("syn" = "deferred")
  BY <1>6
<1>8. Inv'
  BY <1>1, <1>3, <1>4, <1>6, <1>7, ConnectingInv
<1> QED
  BY <1>2, <1>4, <1>6, <1>8

LEMMA SyscallSendMsgInv ==
  ASSUME Inv, Habits = {}, NEW result \in Results, NEW flag \in BOOLEAN, SyscallSendMsg(flag, result)
  PROVE  Inv' /\ sock'.id = sock.id /\ sock.id \in Ids /\ app'.tfoSynDeferredKick = FALSE
<1> DEFINE opens == /\ flag /\ sock.state \notin {"CONNECTED", "CONNECTING"}
                    /\ app.tfoClientEnabled \/ result # "error"
<1>1. /\ DataFd \in fds /\ fds' = fds /\ app.tfoSynDeferredKick = FALSE
      /\ Running /\ sock.id \in Ids /\ Ready(Now) /\ Ready(Accepted(Now)) /\ State # "deferred"
  <2>1. DataFd \in fds /\ fds' = fds /\ app.tfoSynDeferredKick = FALSE /\ Running
    BY DEF SyscallSendMsg, CanSend, CanOpen, Inv, Types, AppTyped
  <2>2. State # "deferred"
    BY <2>1 DEF Inv, Mirror
  <2> QED
    BY <2>1, <2>2, ReadyToSend
<1>2. CASE opens
  <2>1. sock.state = "BOUND" /\ (Defers => result = "bytes")
    BY <1>2 DEF SyscallSendMsg
  <2> DEFINE r == Connects(app, TRUE, sock, tcp)
             q == IF result = "bytes" THEN SendTcpPayload(r) ELSE r
  <2>3. r.app.error = ""
    <3>1. r.app = [app EXCEPT !.tcpConnId = sock.id]
      BY <2>1, ConnectsOpens
    <3> QED
      BY <1>1, <3>1 DEF Running, Inv, Types, AppTyped, AppMembers
  <2>4. Becomes(q)
    BY <1>1, <1>2, <2>3 DEF SyscallSendMsg
  <2>5. Kept(app, app, {"fastopenConnectPending", "tfoSynDeferredKick"}) /\ app.fastopenConnectPending \in BOOLEAN
    BY DEF Inv, Types, AppTyped, Kept
  <2>6. q = SendTcpPayload(r) \/ (q = r /\ ~(TRUE /\ Defers))
    BY <2>1
  <2> HIDE DEF q
  <2> QED
    BY <1>1, <2>1, <2>4, <2>5, <2>6, OpensAndSends
<1>3. CASE ~opens
  <2> DEFINE q == IF result = "bytes" THEN SendTcpPayload(Now) ELSE Now
  <2>1. Becomes(q)
    <3>1. Now.app.error = ""
      BY <1>1 DEF Now, Running
    <3> QED
      BY <1>3, <3>1 DEF SyscallSendMsg
  <2>2. CASE result = "bytes"
    <3>1. State \in {"deferred", "syn", "open"}
      BY <1>1, <1>3, <2>2 DEF SyscallSendMsg, CanSend, CanOpen, State, C
    <3>2. Becomes(SendTcpPayload(Accepted(Now)))
      BY <1>1, <2>1, <2>2, PayloadAccepts
    <3>3. Sends
      BY <1>1, <3>1, <3>2, ReadyToSend, ReadySends
    <3> QED
      BY <1>1, <3>3, SendsInv DEF Sends
  <2>3. CASE result # "bytes"
    <3>1. Becomes(Now)
      BY <2>1, <2>3
    <3>2. Sends
      BY <1>1, <3>1, ReadySends
    <3> QED
      BY <1>1, <3>2, SendsInv DEF Sends
  <2> QED
    BY <2>2, <2>3
<1> QED
  BY <1>2, <1>3

LEMMA SyscallSendToInv ==
  ASSUME Inv, Habits = {}, NEW result \in Results, NEW flag \in BOOLEAN, SyscallSendTo(flag, result)
  PROVE  Inv' /\ sock'.id = sock.id /\ sock.id \in Ids /\ app'.tfoSynDeferredKick = FALSE
<1> DEFINE fastOpen == flag \/ app.fastopenConnectPending
           rejected == fastOpen /\ ~app.tfoClientEnabled /\ result = "error"
           pending == [app EXCEPT !.fastopenConnectPending = FALSE]
           kick == Kicks(fastOpen)
           a == [pending EXCEPT !.tfoSynDeferredKick = @ \/ kick]
           opened == Connects(a, fastOpen, sock, tcp)
<1>1. /\ DataFd \in fds /\ fds' = fds /\ Ready(Now) /\ Ready(Accepted(Now)) /\ sock.id \in Ids
      /\ sock.state \notin {"PEER_CLOSED", "SOCKERROR", "CLOSED"}
  BY ReadyToSend DEF SyscallSendTo, CanSend, CanOpen
<1>2. CASE sock.state \in {"CONNECTED", "CONNECTING", "LISTENING"}
  <2> DEFINE q == Payload(Now, result)
  <2>1. Becomes(KickDone(q)) /\ CanSend(result)
    BY <1>2 DEF SyscallSendTo, CanOpen
  <2>2. \/ q = Now /\ State # "deferred"
        \/ /\ q = SendTcpPayload(Accepted(Now))
           /\ Accepted(Now).sock.state \in {"CONNECTING", "CONNECTED", "PEER_CLOSED"}
    <3>1. Now.app.tfoSynDeferredKick = app.tfoSynDeferredKick
      BY DEF Now
    <3>2. app.tfoSynDeferredKick <=> State = "deferred"
      BY DEF Inv, Mirror
    <3>3. result = "bytes" => State \in {"deferred", "syn", "open"}
      BY <1>1, <2>1 DEF CanSend, State, C
    <3> QED
      BY <1>1, <3>1, <3>2, <3>3, ReadyToSend, PayloadAccepts DEF Payload
  <2> HIDE DEF q
  <2>3. Sends
    BY <1>1, <2>1, <2>2, ReadySends
  <2> QED
    BY <1>1, <2>3, SendsInv DEF Sends
<1>3. CASE sock.state = "BOUND"
  <2>1. /\ app.tfoSynDeferredKick = FALSE /\ State = "none" /\ fastOpen \in BOOLEAN
    <3>1. State = "none"
      BY <1>3, UnderSocket DEF Inv, States
    <3> QED
      BY <3>1 DEF Inv, Mirror, Types, AppTyped
  <2>2. /\ Kept(app, a, {"fastopenConnectPending", "tfoSynDeferredKick"})
        /\ a.fastopenConnectPending = FALSE /\ (a.tfoSynDeferredKick <=> kick)
    <3>1. kick \in BOOLEAN
      BY <2>1 DEF Kicks
    <3> HIDE DEF kick
    <3> QED
      BY <2>1, <3>1 DEF Inv, Types, AppTyped, Kept, AppMembers
  <2>3. CASE rejected
    <3>1. app' = pending /\ UNCHANGED <<sock, tcp, fds>>
      BY <1>3, <2>3 DEF SyscallSendTo, Becomes, Now
    <3>2. Kept(app, app', {"fastopenConnectPending"}) /\ app'.fastopenConnectPending = FALSE
      BY <3>1 DEF Inv, Types, AppTyped, Kept, AppMembers
    <3>3. app'.tfoSynDeferredKick = FALSE
      BY <2>1, <3>2 DEF Kept, AppMembers
    <3> QED
      BY <1>1, <3>1, <3>2, <3>3, PendingInv
  <2>4. CASE ~rejected
    <3> DEFINE q == Payload(opened, result)
    <3>1. /\ opened.app = [a EXCEPT !.tcpConnId = sock.id] /\ DOMAIN opened = Members
      <4> HIDE DEF a
      <4>1. opened = [app |-> opened.app, sock |-> opened.sock, tcp |-> opened.tcp]
            /\ opened.app = [a EXCEPT !.tcpConnId = sock.id]
        BY <1>3, <2>1, ConnectsOpens
      <4> HIDE DEF opened
      <4> QED
        BY <4>1 DEF Members
    <3>2. opened.app.error = "" /\ (opened.app.tfoSynDeferredKick <=> kick)
      <4> HIDE DEF opened, a, kick
      <4>1. app.error = ""
        BY DEF Inv, Names
      <4> QED
        BY <2>2, <3>1, <4>1 DEF Kept, AppMembers
    <3>3. Becomes(KickDone(q))
      BY <1>3, <2>1, <2>4, <3>2 DEF SyscallSendTo
    <3>4. MayKick(fastOpen)
      BY <1>3, <2>4 DEF SyscallSendTo
    <3>5. q = SendTcpPayload(opened) \/ (q = opened /\ ~(fastOpen /\ Defers))
      <4>1. ~kick => ~(fastOpen /\ Defers)
        <5> HIDE DEF fastOpen
        <5> QED
          BY <1>3, <2>1, <3>4, KickAgrees
      <4> HIDE DEF opened, kick
      <4> QED
        BY <3>2, <4>1 DEF Payload
    <3>6. Inv' /\ sock'.id = sock.id /\ sock.id \in Ids
      <4> HIDE DEF a, q, fastOpen
      <4> QED
        BY <1>1, <1>3, <2>1, <2>2, <3>3, <3>5, OpensAndSends
    <3>7. app'.tfoSynDeferredKick = FALSE
      <4>1. DOMAIN q = Members /\ q.app = opened.app
        <5>1. opened.sock.state = "CONNECTING"
          <6>1. opened.sock = [sock EXCEPT !.state = "CONNECTING"]
            BY <1>3, <2>1, ConnectsOpens
          <6> HIDE DEF opened
          <6> QED
            BY <6>1 DEF Inv, Types, SockType
        <5> HIDE DEF opened, q
        <5> QED
          BY <3>1, <3>5, <5>1, SendFields
      <4>2. DOMAIN opened.app = AppMembers
        <5> HIDE DEF opened, a
        <5> QED
          BY <2>2, <3>1 DEF Kept, AppMembers
      <4> HIDE DEF opened, q
      <4> QED
        BY <3>3, <4>1, <4>2 DEF Becomes, KickDone, Members, AppMembers
    <3> QED
      BY <3>6, <3>7
  <2> QED
    BY <2>3, <2>4
<1>4. sock.state \in SockStates /\ sock.state # "NOT_BOUND"
  <2>1. sock.id # 0
    BY <1>1, IdsAreNumbers
  <2> QED
    BY <2>1 DEF Inv, Types, SockType, Names
<1> QED
  BY <1>1, <1>2, <1>3, <1>4 DEF SockStates

-----------------------------------------------------------------------------
(* shutdown(), close() and the commands of the script.                     *)

LEMMA ConnIdIsCurrent == ASSUME Inv, fds # {} PROVE ConnId = sock.id /\ sock.id \in Ids /\ State = C(sock.id).state
BY DEF Inv, Names, ConnId, State

LEMMA SyscallShutdownInv == ASSUME Inv, Habits = {}, SyscallShutdown PROVE Inv'
<1> USE DEF Inv
<1>1. /\ DataFd \in fds /\ ConnId = sock.id /\ sock.id \in Ids /\ State = C(sock.id).state
      /\ C(sock.id).state # "none" /\ UNCHANGED <<sock, fds>>
  BY ConnIdIsCurrent DEF SyscallShutdown, C
<1>2. CASE sock.id \in app.closedTcpConnIds
  <2>1. UNCHANGED vars
    BY <1>1, <1>2 DEF SyscallShutdown, vars
  <2> QED
    BY <2>1, StutterInv
<1>3. CASE sock.id \notin app.closedTcpConnIds
  <2>1. /\ Kept(app, app', {"closedTcpConnIds", "shut"}) /\ sock.id \in app'.shut
        /\ app'.closedTcpConnIds = app.closedTcpConnIds \cup {sock.id} /\ app.shut \subseteq app'.shut
    <3>1. app' = [app EXCEPT !.closedTcpConnIds = @ \cup {sock.id}, !.shut = @ \cup {sock.id}]
      BY <1>1, <1>3 DEF SyscallShutdown
    <3>2. DOMAIN app = AppMembers
      BY DEF Types, AppTyped
    <3>3. app'.shut = app.shut \cup {sock.id} /\ app'.closedTcpConnIds = app.closedTcpConnIds \cup {sock.id}
      BY <3>1, <3>2 DEF AppMembers
    <3>4. Kept(app, app', {"closedTcpConnIds", "shut"})
      BY <3>1, <3>2 DEF Kept, AppMembers
    <3> HIDE DEF Inv
    <3> QED
      BY <3>3, <3>4
  <2>2. Ended(tcp, tcp', sock.id)
    BY <1>1, <1>3, ClosePuts DEF SyscallShutdown, Types
  <2>3. C(sock.id).closes = 0
    <3>1. C(sock.id).closes \in Nat
      BY <1>1 DEF C, Types, TcpType, ConnType
    <3> QED
      BY <1>1, <1>3, <3>1 DEF Closed
  <2>4. /\ tcp' \in TcpType /\ tcp'.conns[sock.id].state = tcp.conns[sock.id].state
        /\ tcp'.conns[sock.id].ended /\ tcp'.conns[sock.id].closes = 1
        /\ tcp'.conns[sock.id].local = tcp.conns[sock.id].local
        /\ tcp'.conns[sock.id].remote = tcp.conns[sock.id].remote
        /\ tcp'.cookies = tcp.cookies /\ tcp'.client = tcp.client /\ tcp'.noCookie = tcp.noCookie
        /\ \A j \in Ids : j # sock.id => tcp'.conns[j] = tcp.conns[j]
    BY <1>1, <2>2, <2>3 DEF Ended, Only, SamePorts, C
  <2>5. State' = State
    BY <1>1, <2>4 DEF State, C
  <2>6. Types'
    BY <1>1, <2>1, <2>4 DEF Types, AppTyped, Kept, AppMembers
  <2>7. Names'
    BY <1>1, <2>1 DEF Names, Kept, AppMembers, DataFd
  <2>8. States'
    BY <1>1, <2>1, <2>4, <2>5 DEF States, C, Kept, AppMembers
  <2>9. Mirror'
    BY <1>1, <2>1, <2>4, <2>5 DEF Mirror, Kept, AppMembers
  <2>10. Closed'
    BY <1>1, <2>1, <2>4 DEF Closed, C, Types, AppTyped
  <2>11. Owned'
    BY <1>1, <2>1, <2>4 DEF Owned, Open, C
  <2>12. Ports'
    BY <1>1, <2>1, <2>4 DEF Ports, C, Open, Current, Types, AppTyped, Kept, AppMembers
  <2> QED
    BY <2>6, <2>7, <2>8, <2>9, <2>10, <2>11, <2>12
<1> QED
  BY <1>2, <1>3

LEMMA SyscallCloseInv == ASSUME Inv, Habits = {}, NEW fd \in fds, SyscallClose(fd) PROVE Inv'
<1> USE DEF Inv
<1>1. /\ fds' = fds \ {fd} /\ ConnId = sock.id /\ sock.id \in Ids /\ State = C(sock.id).state
      /\ app.tcpConnId = None \/ C(sock.id).state # "none"
  BY ConnIdIsCurrent DEF SyscallClose, C
\* The descriptor that is closed is that of the connection, if it is open.
<1>2. ~NothingToClose(fd) => fd = Holder \/ Holder \notin fds
  <2>1. CASE app.tcpConnId # None
    <3>1. fd = DataFd
      BY <2>1 DEF Names
    <3>2. Holder = DataFd \/ Holder \notin fds
      BY <2>1, <3>1 DEF Names, Holder
    <3> QED
      BY <3>1, <3>2
  <2>2. CASE app.tcpConnId = None /\ fd = 3 /\ app.listenScriptFd = 3
    BY <2>2, NoneIsNoFd DEF NothingToClose, Holder, Types, AppTyped
  <2>3. CASE app.tcpConnId = None /\ fd = 3 /\ app.listenScriptFd # 3
    BY <2>3 DEF Holder, DataFd
  <2>4. CASE app.tcpConnId = None /\ fd = 4
    BY <2>4, NoneIsNoFd DEF Names, Holder, DataFd
  <2> QED
    BY <2>1, <2>2, <2>3, <2>4 DEF Types
<1>3. CASE NothingToClose(fd) \/ sock.id \in app.closedTcpConnIds
  <2>1. UNCHANGED <<app, sock, tcp>>
    BY <1>1, <1>3 DEF SyscallClose, CloseTcp, AlreadyClosed
  <2>2. Types'
    BY <1>1, <2>1 DEF Types, AppTyped
  <2>3. Names'
    BY <1>1, <2>1 DEF Names, DataFd
  <2>4. States'
    BY <2>1 DEF States, State, C
  <2>5. Mirror'
    BY <2>1 DEF Mirror, State, C
  <2>6. Closed'
    BY <2>1 DEF Closed, C
  <2>7. Owned'
    <3>1. Open(sock.id) /\ ~C(sock.id).ended => fd # Holder
      <4>1. CASE NothingToClose(fd)
        <5>1. CASE fd = app.listenScriptFd /\ app.acceptedScriptFd \notin {None, fd}
          BY <5>1, NoneIsNoFd DEF Holder, DataFd, Types, AppTyped
        <5>2. CASE sock.state \in {"NOT_BOUND", "BOUND"}
          BY <1>1, <5>2 DEF States, Open, C
        <5> QED
          BY <4>1, <5>1, <5>2 DEF NothingToClose
      <4>2. CASE sock.id \in app.closedTcpConnIds
        BY <4>2 DEF Closed, Open, C
      <4> QED
        BY <1>3, <4>1, <4>2
    <3>2. Holder' = Holder
      BY <2>1 DEF Holder, DataFd
    <3> QED
      BY <1>1, <2>1, <3>1, <3>2 DEF Owned, C, Open
  <2>8. Ports'
    BY <2>1 DEF Ports, C, Open, Current
  <2> QED
    BY <2>2, <2>3, <2>4, <2>5, <2>6, <2>7, <2>8
<1>4. CASE ~NothingToClose(fd) /\ sock.id \notin app.closedTcpConnIds
  <2>1. /\ Kept(app, app', {"closedTcpConnIds"})
        /\ app'.closedTcpConnIds = app.closedTcpConnIds \cup {sock.id}
    <3>1. app' = [app EXCEPT !.closedTcpConnIds = @ \cup {sock.id}]
      BY <1>1, <1>4 DEF SyscallClose, CloseTcp, AlreadyClosed
    <3> QED
      BY <3>1 DEF Types, AppTyped, Kept, AppMembers
  <2>2. C(sock.id).state # "none"
    <3>1. sock.state # "NOT_BOUND"
      BY <1>1, IdsAreNumbers DEF Names
    <3>2. app.tcpConnId = None => sock.state # "BOUND"
      <4>1. CASE app.tcpConnId = None /\ sock.state = "BOUND"
        <5>1. app.listenScriptFd = None
          BY <4>1 DEF Names
        <5>2. fd # None
          BY NoneIsNoFd DEF Types
        <5> QED
          BY <1>4, <4>1, <5>1, <5>2 DEF NothingToClose, ClosesListener
      <4> QED
        BY <4>1
    <3> QED
      BY <1>1, <3>1, <3>2 DEF States
  <2>3. C(sock.id).closes = 0
    <3>1. C(sock.id).closes \in Nat
      BY <1>1 DEF C, Types, TcpType, ConnType
    <3> QED
      BY <1>1, <1>4, <3>1 DEF Closed
  <2>4. \/ sock'.state = "CLOSED" /\ Aborted(tcp, tcp', sock.id) /\ State # "deferred"
        \/ sock' = sock /\ Ended(tcp, tcp', sock.id)
    <3>1. CASE ClosesListener(fd) \/ (app.unread # {} /\ ConnId = sock.id)
      <4>1. sock' = [sock EXCEPT !.state = "CLOSED"] /\ tcp' = TcpAbort(tcp, sock.id)
        BY <1>1, <1>4, <3>1 DEF SyscallClose, CloseTcp, AlreadyClosed
      <4>2. Aborted(tcp, tcp', sock.id) /\ sock'.state = "CLOSED"
        BY <1>1, <4>1, AbortPuts DEF Types, SockType
      <4>3. State # "deferred"
        BY <3>1 DEF ClosesListener, Mirror
      <4> QED
        BY <4>2, <4>3
    <3>2. CASE ~(ClosesListener(fd) \/ (app.unread # {} /\ ConnId = sock.id))
      <4>1. sock' = sock /\ tcp' = TcpClose(tcp, sock.id)
        BY <1>1, <1>4, <3>2 DEF SyscallClose, CloseTcp, AlreadyClosed
      <4> QED
        BY <1>1, <4>1, ClosePuts DEF Types
    <3> QED
      BY <3>1, <3>2
  <2>5. /\ sock' \in SockType /\ sock'.id = sock.id
        /\ sock' = sock \/ sock'.state = "CLOSED"
    BY DEF SyscallClose, CloseTcp, Types, SockType, SockStates
  <2>6. /\ tcp' \in TcpType
        /\ \/ sock' = sock /\ tcp'.conns[sock.id].state = tcp.conns[sock.id].state
              /\ tcp'.conns[sock.id].ended /\ tcp'.conns[sock.id].closes = 1
           \/ sock'.state = "CLOSED" /\ tcp'.conns[sock.id].state = "gone" /\ State # "deferred"
              /\ tcp'.conns[sock.id].closes = 0
        /\ tcp'.conns[sock.id].local = tcp.conns[sock.id].local
        /\ tcp'.conns[sock.id].remote = tcp.conns[sock.id].remote
        /\ tcp'.cookies = tcp.cookies /\ tcp'.client = tcp.client /\ tcp'.noCookie = tcp.noCookie
        /\ \A j \in Ids : j # sock.id => tcp'.conns[j] = tcp.conns[j]
    <3>1. CASE sock'.state = "CLOSED" /\ Aborted(tcp, tcp', sock.id) /\ State # "deferred"
      BY <2>2, <2>3, <3>1 DEF Aborted, Only, SamePorts, C
    <3>2. CASE sock' = sock /\ Ended(tcp, tcp', sock.id)
      BY <2>2, <2>3, <3>2 DEF Ended, Only, SamePorts, C
    <3> QED
      BY <2>4, <3>1, <3>2
  <2>7. State' = tcp'.conns[sock.id].state
    BY <1>1, <2>5 DEF State, C
  <2>8. Types'
    <3>1. AppTyped(app')
      BY <1>1, <2>1 DEF Types, AppTyped, Kept, AppMembers
    <3> QED
      BY <1>1, <2>5, <2>6, <3>1 DEF Types
  <2>9. Names'
    <3>1. DataFd' = DataFd
      BY <2>1 DEF DataFd, Kept, AppMembers
    <3>2. sock.state # "NOT_BOUND" /\ sock.id # 0 /\ sock'.state # "NOT_BOUND"
      BY <1>1, <2>5, IdsAreNumbers DEF Names
    <3> QED
      BY <1>1, <2>1, <2>5, <3>1, <3>2 DEF Names, Kept, AppMembers
  <2>10. States'
    <3>1. \A i \in Ids : i > sock.id => i # sock.id
      BY <1>1 DEF Ids
    <3>2. \A i \in Ids : i > sock.id => tcp'.conns[i].state = "none"
      BY <2>6, <3>1 DEF States, C
    <3> QED
      BY <1>1, <2>1, <2>2, <2>5, <2>6, <2>7, <3>2 DEF States, C, Kept, AppMembers
  <2>11. Mirror'
    BY <1>1, <2>1, <2>6, <2>7 DEF Mirror, Kept, AppMembers, C
  <2>12. Closed'
    BY <1>1, <2>1, <2>2, <2>5, <2>6 DEF Closed, C, Types, AppTyped
  <2>13. Owned'
    <3>1. Holder' = Holder /\ Holder \notin fds'
      BY <1>1, <1>2, <1>4, <2>1 DEF Holder, DataFd, Kept, AppMembers
    <3> QED
      BY <1>1, <2>5, <2>6, <3>1 DEF Owned, Open, C
  <2>14. Ports'
    <3>1. \A i \in Ids : /\ tcp'.conns[i].local = C(i).local /\ tcp'.conns[i].remote = C(i).remote
                       /\ tcp'.conns[i].state \in {C(i).state, "gone"}
      BY <2>6 DEF C
    <3>2. /\ app'.localPort = app.localPort /\ app'.remotePort = app.remotePort
          /\ app'.captured = app.captured
      BY <2>1 DEF Kept, AppMembers
    <3>3. \A i \in Ids : (Current(i)' <=> Current(i)) /\ (Open(i)' => Open(i))
      BY <3>1, <3>2 DEF Current, Open, C
    <3>4. \A i \in Ids : tcp'.conns[i].state # "none" => C(i).state # "none"
      BY <2>2, <2>6 DEF C
    <3> QED
      BY <2>5, <3>1, <3>2, <3>3, <3>4 DEF Ports, C, Types, AppTyped
  <2> QED
    BY <2>8, <2>9, <2>10, <2>11, <2>12, <2>13, <2>14
<1> QED
  BY <1>3, <1>4

LEMMA CommandFastOpenInv ==
  ASSUME Inv, NEW client \in BOOLEAN, NEW noCookie \in BOOLEAN, CommandFastOpen(client, noCookie)
  PROVE  Inv'
<1> USE DEF Inv
<1>1. UNCHANGED <<sock, fds>>
  BY DEF CommandFastOpen
<1>2. /\ Kept(app, app', {"tfoClientEnabled", "tfoNoCookieMode"})
      /\ app'.tfoClientEnabled = client /\ app'.tfoNoCookieMode = noCookie
  BY DEF CommandFastOpen, Types, AppTyped, Kept, AppMembers
<1>3. /\ tcp' \in TcpType /\ tcp'.conns = tcp.conns /\ tcp'.cookies = tcp.cookies
      /\ tcp'.client = client /\ tcp'.noCookie = noCookie
  BY DEF CommandFastOpen, Types, TcpType
<1>4. Types'
  BY <1>1, <1>2, <1>3 DEF Types, AppTyped, Kept, AppMembers
<1>5. Names'
  BY <1>1, <1>2 DEF Names, DataFd, Kept, AppMembers
<1>6. States'
  BY <1>1, <1>2, <1>3 DEF States, State, C, Kept, AppMembers
<1>7. Mirror'
  BY <1>1, <1>2, <1>3 DEF Mirror, State, C, Kept, AppMembers
<1>8. Closed'
  BY <1>1, <1>2, <1>3 DEF Closed, C, Kept, AppMembers
<1>9. Owned'
  BY <1>1, <1>2, <1>3 DEF Owned, Open, C, Holder, DataFd, Kept, AppMembers
<1>10. Ports'
  BY <1>1, <1>2, <1>3 DEF Ports, C, Open, Current, Kept, AppMembers
<1> QED
  BY <1>4, <1>5, <1>6, <1>7, <1>8, <1>9, <1>10

LEMMA CommandFlushInv == ASSUME Inv, Habits = {}, CommandFlush PROVE Inv'
<1>1. tcp \in TcpType /\ tcp.cookies = FALSE
  BY DEF CommandFlush, Inv, Types, AppTyped, Mirror
<1>2. tcp' = tcp
  BY <1>1 DEF CommandFlush, TcpType
<1> QED
  BY <1>2, StutterInv DEF CommandFlush, vars

-----------------------------------------------------------------------------
(* The theorems.                                                           *)

LEMMA NextInv == ASSUME Inv, Habits = {}, [Next]_vars PROVE Inv'
<1>1. CASE Calls
  BY <1>1, SyscallSocketInv, SyscallListenInv, SyscallAcceptInv, SyscallConnectInv, DisconnectInv,
     SetFastopenConnectInv, SyscallShutdownInv, SyscallReadInv, SyscallWriteInv, SyscallSendFileInv,
     SyscallSendToInv, SyscallSendMsgInv, SyscallCloseInv, CommandFastOpenInv, CommandFlushInv DEF Calls
<1>2. CASE Stack
  BY <1>2, PeerConnectsInv, EstablishedInv, DataArrivesInv, FailsInv, PeerAnswersInv, ExpiresInv,
     CapturedInv DEF Stack
<1>3. CASE UNCHANGED vars
  BY <1>3, StutterInv
<1> QED
  BY <1>1, <1>2, <1>3 DEF Next

(* What the app knows of descriptors, connections, ports and Fast Open     *)
(* agrees with what Tcp knows, after any calls of the script, as long as   *)
(* it has none of the Habits (PacketDrillApp.cc:1761-1872, 2663-2757,      *)
(* 3690-3775).                                                             *)
THEOREM SocketsInvariant == ASSUME Habits = {} PROVE Spec => []Inv
<1>1. Init => Inv
  BY InitInv
<1>2. Inv /\ [Next]_vars => Inv'
  BY NextInv
<1> QED
  BY <1>1, <1>2, PTL DEF Spec

(* No call of a script without Habits throws in TcpSocket, in whatever     *)
(* order it makes them, and no connection gets a second CLOSE, nor one     *)
(* that was never opened any.  Calls that throw are named by the Habits: a *)
(* connect() or listen() in a state where TcpSocket does not take it       *)
(* (PacketDrillApp.cc:1957, 2206-2217), a sendto() after the end           *)
(* (2709-2717), and sends on a SYN wrongly taken for deferred.             *)
THEOREM NeverThrows == ASSUME Habits = {} PROVE Spec => []NoError
<1>1. Inv => NoError
  <2> SUFFICES ASSUME Inv PROVE NoError
    OBVIOUS
  <2>1. \A i \in Ids : tcp.conns[i].closes > 0 => i \in app.closedTcpConnIds /\ tcp.conns[i].closes = 1
    BY DEF Inv, Closed, C
  <2>2. \A i \in app.closedTcpConnIds : tcp.conns[i].state # "none"
    BY DEF Inv, Closed, C
  <2> QED
    BY <2>1, <2>2 DEF NoError, Running, Inv, Names
<1> QED
  BY <1>1, SocketsInvariant, PTL

(* Only the descriptor of a connection ends it, and when all descriptors   *)
(* are closed no connection is left open.                                  *)
THEOREM AlwaysOwned == ASSUME Habits = {} PROVE Spec => []OwnersClose
<1>1. Inv => OwnersClose
  <2> SUFFICES ASSUME Inv PROVE OwnersClose
    OBVIOUS
  <2>1. CASE fds = {}
    <3>1. \A i \in Ids : Open(i) => tcp.conns[i].ended
      BY <2>1 DEF Inv, Owned, C
    <3> QED
      BY <2>1, <3>1 DEF OwnersClose
  <2>2. CASE fds # {}
    BY <2>2 DEF Inv, Owned, C, OwnersClose
  <2> QED
    BY <2>1, <2>2
<1> QED
  BY <1>1, SocketsInvariant, PTL

(* No two open connections have the same ports, and only segments of the   *)
(* current one are captured.                                               *)
THEOREM PortsAlwaysOwn == ASSUME Habits = {} PROVE Spec => []OwnPorts
<1>1. Inv => OwnPorts
  BY DEF Inv, Ports, OwnPorts, C
<1> QED
  BY <1>1, SocketsInvariant, PTL

(* The SYN that Tcp deferred leaves with the next call that sends.         *)
THEOREM SendsAlwaysRelease == ASSUME Habits = {} PROVE Spec => SendsRelease
<1>1. ASSUME Inv, NEW result \in Results, NEW flag \in BOOLEAN,
             SyscallWrite(result) \/ SyscallSendTo(flag, result) \/ SyscallSendMsg(flag, result)
      PROVE  tcp'.conns[sock.id].state # "deferred"
  <2>1. Inv' /\ sock'.id = sock.id /\ sock.id \in Ids /\ app'.tfoSynDeferredKick = FALSE
    BY <1>1, SyscallWriteInv, SyscallSendToInv, SyscallSendMsgInv
  <2>2. State' # "deferred" /\ State' = tcp'.conns[sock.id].state
    BY <2>1 DEF Inv, Mirror, State, C
  <2> QED
    BY <2>2
<1>2. Inv /\ [Next]_vars =>
        [\A result \in Results, flag \in BOOLEAN :
           SyscallWrite(result) \/ SyscallSendTo(flag, result) \/ SyscallSendMsg(flag, result)
             => tcp'.conns[sock.id].state # "deferred"]_vars
  BY <1>1
<1> QED
  BY <1>2, SocketsInvariant, PTL DEF SendsRelease, Spec
=============================================================================
