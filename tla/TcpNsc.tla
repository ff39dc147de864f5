------------------------------- MODULE TcpNsc -------------------------------
(***************************************************************************)
(* The TCP module of src/inetgpl/transportlayer/tcp_nsc: connections of    *)
(* applications, each with a socket of a TCP stack that is loaded as a     *)
(* library and knows nothing of the addresses of the simulation.           *)
(*                                                                         *)
(* The stack has one local address; remote addresses are mapped to numbers *)
(* it can work with.  Connections are found by the pair of addresses and   *)
(* ports of a segment, in two maps: one of simulation addresses, one of    *)
(* the stack's.  Handlers run to their end; whenever the stack has control *)
(* it may send segments.                                                   *)
(***************************************************************************)
EXTENDS Integers, FiniteSets, Functions

CONSTANTS
  MaxConns,    \* bound: connections that are ever made
  MaxSent,     \* bound: bytes the application gives a connection
  MaxReceived, \* bound: bytes the other end sends it
  Remotes,     \* remote addresses
  Ports,       \* the ports a listener may be asked to listen on
  Asked,       \* the ports an application may ask for when it connects
  RemotePort,  \* the port of the other end
  Fates        \* bound: what becomes of sockets, of "end", "reset" and "timed out"

Conns   == 1..MaxConns
None    == 0
AnyAddr == 0
Local   == -1   \* the address of the node
Inner   == -2   \* localInnerIpS, the address of the stack
Undef   == -1       \* PORT_UNDEF

\* The stack chooses the local port of an active connection.
Ephemeral(c) == 1000 + c

ASSUME StackAssumption ==
  /\ MaxConns \in Nat /\ MaxSent \in Nat /\ MaxReceived \in Nat
  /\ Ports \cup Asked \subseteq 1..999 /\ RemotePort \in Nat
  /\ Remotes \subseteq Nat \ {AnyAddr}

VARIABLES
  nextId,    \* getUniqueNumber(): sockets have the numbers below it
  listener,  \* isListenerM
  forkedFrom, \* forkedConnId: the listener of a connection to be accepted
  established, \* sentEstablishedM
  onClose, disconnected, \* onCloseM, disconnectCalledM
  sendQueue, \* bytes in the send queue
  inetPair, nscPair, \* inetSockPairM, nscSockPairM
  inetMap, nscMap, \* the maps from pairs to connections
  nscAddr,   \* remote2NscMapM; nsc2RemoteMapM is its inverse
  given, taken, got, told, \* bytes from the application, to the stack, to the application, and notices
  sock,      \* the state of a connection's socket in the stack
  pair,      \* the pair that the stack knows the socket by
  arrived, eof, fault, \* bytes that came, end of stream and error a read would find
  error      \* a failed ASSERT, or "none"

app   == <<given, taken, got, told>>
conns == <<nextId, listener, forkedFrom, established, onClose, disconnected, sendQueue>>
maps  == <<inetPair, nscPair, inetMap, nscMap>>
stack == <<sock, pair, arrived, eof, fault>>
vars  == <<app, conns, maps, nscAddr, stack, error>>

Known == 1..nextId-1

Pair(ra, rp, la, lp) == [ra |-> ra, rp |-> rp, la |-> la, lp |-> lp]
NoPair == Pair(AnyAddr, Undef, AnyAddr, Undef)
NoMap  == [x \in {} |-> None]

Init ==
  /\ nextId = 1
  /\ listener = [c \in Conns |-> FALSE] /\ forkedFrom = [c \in Conns |-> None]
  /\ established = [c \in Conns |-> FALSE]
  /\ onClose = [c \in Conns |-> FALSE] /\ disconnected = [c \in Conns |-> FALSE]
  /\ sendQueue = [c \in Conns |-> 0]
  /\ inetPair = [c \in Conns |-> NoPair] /\ nscPair = [c \in Conns |-> NoPair]
  /\ inetMap = NoMap /\ nscMap = NoMap /\ nscAddr = NoMap
  /\ given = [c \in Conns |-> 0] /\ taken = [c \in Conns |-> 0]
  /\ got = [c \in Conns |-> 0] /\ told = [c \in Conns |-> {}]
  /\ sock = [c \in Conns |-> "none"] /\ pair = [c \in Conns |-> NoPair]
  /\ arrived = [c \in Conns |-> 0] /\ eof = [c \in Conns |-> FALSE]
  /\ fault = [c \in Conns |-> "none"]
  /\ error = "none"

Assert(cond, what) == error' = IF cond THEN error ELSE what
-----------------------------------------------------------------------------
(* Addresses.                                                              *)

\* mapRemote2Nsc: the number of an address, the first free one if it is new.
FirstFreeAddr(m, a) ==
  IF a \in DOMAIN m THEN m[a]
  ELSE CHOOSE n \in 1..Cardinality(DOMAIN m)+1 :
         /\ n \notin Range(m)
         /\ \A k \in 1..n-1 : k \in Range(m)

Mapped(m, a) == [x \in DOMAIN m \cup {a} |-> IF x = a THEN FirstFreeAddr(m, a) ELSE m[x]]

\* Mistake: the old pair is erased last, also when it is the new one.
RekeyedLate(m, c, old, new) ==
  [p \in (DOMAIN m \cup {new}) \ {old} |-> IF p = new THEN c ELSE m[p]]

\* changeAddresses, for one of the maps: whatever had the old pair loses it.
Rekeyed(m, c, old, new) ==
  IF old = new THEN m
  ELSE [p \in (DOMAIN m \ {old}) \cup {new} |-> IF p = new THEN c ELSE m[p]]

ChangeAddresses(c, inet, nsc) ==
  /\ inetMap' = Rekeyed(inetMap, c, inetPair[c], inet)
  /\ inetPair' = [inetPair EXCEPT ![c] = inet]
  /\ nscMap' = Rekeyed(nscMap, c, nscPair[c], nsc)
  /\ nscPair' = [nscPair EXCEPT ![c] = nsc]
-----------------------------------------------------------------------------
(* The stack, and what the module does with a socket of it.                *)

Live(c) == sock[c] \in {"connecting", "connected"} /\ fault[c] = "none"

\* Some socket of the stack has the pair.
InUse(p) == \E c \in Known : Live(c) /\ pair[c] = p

\* sendErrorNotificationToApp: what a read that finds no bytes tells.
Notices(c) == IF fault[c] # "none" THEN {fault[c]}
              ELSE IF eof[c] THEN {"peer closed"} ELSE {}

\* read_data until there is nothing; enqueueNscData; sendDataToApp.
ReadAll(c) ==
  /\ got' = [got EXCEPT ![c] = arrived[c]]
  /\ told' = [told EXCEPT ![c] = @ \cup Notices(c)]

\* do_SEND of every connection: the stack takes k[c] bytes of its send queue.
Takable(c, k) == k[c] \in 0..sendQueue[c] /\ (~Live(c) => k[c] = 0)

\* dequeueTcpLayerMsg: what the stack took is no longer in the queue.
Dequeued(queue, k) == [c \in Conns |-> queue[c] - k[c]]

Take(k) ==
  /\ \A c \in Conns : Takable(c, k)
  /\ sendQueue' = Dequeued(sendQueue, k)
  /\ taken' = [c \in Conns |-> taken[c] + k[c]]

\* Mistake: the connection is closed with bytes left in its queue.
ClosesUnsent(c, left) == onClose[c] /\ ~disconnected[c] /\ sock[c] # "none"

\* Mistake: a connection that was not established is not closed.
ClosesOpen(c, left) == onClose[c] /\ left = 0 /\ ~disconnected[c] /\ established[c]

\* do_SEND: the socket is disconnected and CLOSED indicated.
ClosesNow(c, left) == onClose[c] /\ left = 0 /\ ~disconnected[c] /\ sock[c] # "none"
-----------------------------------------------------------------------------
(* Commands of the application.                                            *)

Idle == error = "none"

\* The first message of a socket makes its connection, with empty queues.
Creates(c) == c = nextId /\ c \in Conns /\ nextId' = c + 1

\* listen(): the socket stands for any other end.
Listens(c, any) ==
  /\ listener' = [listener EXCEPT ![c] = TRUE]
  /\ sock' = [sock EXCEPT ![c] = "listening"]
  /\ pair' = [pair EXCEPT ![c] = any]

\* enqueueAppData: one byte, of which, and of those before it, k are taken.
Enqueued(queue, c, k) == [queue EXCEPT ![c] = @ + 1 - k]

\* connect(): the stack sends the SYN at once, and sendToIP, finding curConnM
\* set, gives the connection the pair that the stack chose.
OpenActive(r, lp) ==
  LET c     == nextId
      num   == FirstFreeAddr(nscAddr, r)
      asked == Pair(num, RemotePort, AnyAddr, IF lp = Undef THEN 0 ELSE lp)
      made  == Pair(num, RemotePort, Inner, Ephemeral(c))
      inet  == Pair(r, RemotePort, AnyAddr, lp)
  IN  /\ Idle /\ Creates(c)
      /\ nscAddr' = Mapped(nscAddr, r)
      /\ inetMap' = Rekeyed(inetMap, c, NoPair, inet)
      /\ inetPair' = [inetPair EXCEPT ![c] = inet]
      /\ nscMap' = Rekeyed(Rekeyed(nscMap, c, NoPair, asked), c, asked, made)
      /\ nscPair' = [nscPair EXCEPT ![c] = made]
      /\ sock' = [sock EXCEPT ![c] = "connecting"]
      /\ pair' = [pair EXCEPT ![c] = made]
      /\ UNCHANGED <<app, listener, forkedFrom, established, onClose, disconnected,
                     sendQueue, arrived, eof, fault, error>>

\* listen() on a port of its own.
OpenPassive(lp) ==
  LET c == nextId
      any == Pair(AnyAddr, Undef, AnyAddr, lp)
  IN  /\ Idle /\ Creates(c) /\ \A l \in Known : listener[l] => pair[l] # any
      /\ Listens(c, any)
      /\ ChangeAddresses(c, any, any)
      /\ UNCHANGED <<app, forkedFrom, established, onClose, disconnected, sendQueue,
                     nscAddr, arrived, eof, fault, error>>

\* What has come before the application accepts is delivered with it.
Accept(c) ==
  /\ Idle /\ c \in Known /\ forkedFrom[c] # None
  /\ forkedFrom' = [forkedFrom EXCEPT ![c] = None]
  /\ ReadAll(c)
  /\ UNCHANGED <<given, taken, nextId, listener, established, onClose, disconnected,
                 sendQueue, maps, nscAddr, stack, error>>

\* The application may send on a connection it opened or accepted.
MaySend(c) == ~listener[c] /\ forkedFrom[c] = None /\ ~onClose[c]

Send(c, k) ==
  /\ Idle /\ c \in Known /\ MaySend(c) /\ given[c] < MaxSent
  /\ given' = [given EXCEPT ![c] = @ + 1]
  /\ k \in 0..sendQueue[c] + 1 /\ (~Live(c) => k = 0)
  /\ sendQueue' = Enqueued(sendQueue, c, k)
  /\ taken' = [taken EXCEPT ![c] = @ + k]
  /\ UNCHANGED <<got, told, nextId, listener, forkedFrom, established, onClose,
                 disconnected, maps, nscAddr, stack, error>>

\* close() waits for the timer; abort() empties the queue first.
Close(c) ==
  /\ Idle /\ c \in Known /\ forkedFrom[c] = None /\ ~onClose[c]
  /\ onClose' = [onClose EXCEPT ![c] = TRUE]
  /\ UNCHANGED <<app, nextId, listener, forkedFrom, established, disconnected,
                 sendQueue, maps, nscAddr, stack, error>>

Emptied(queue, c) == [queue EXCEPT ![c] = 0]

Abort(c) ==
  /\ Idle /\ c \in Known /\ forkedFrom[c] = None /\ ~onClose[c]
  /\ sendQueue' = Emptied(sendQueue, c)
  /\ given' = [given EXCEPT ![c] = taken[c]]
  /\ onClose' = [onClose EXCEPT ![c] = TRUE]
  /\ UNCHANGED <<taken, got, told, nextId, listener, forkedFrom, established,
                 disconnected, maps, nscAddr, stack, error>>
-----------------------------------------------------------------------------
(* The timer of the stack.                                                 *)

\* The stack may give up one of its sockets.
Few == {{}} \cup {{c} : c \in Conns}

TimesOut(lost) ==
  /\ lost \subseteq {c \in Known : Live(c)}
  /\ lost # {} => "timed out" \in Fates
  /\ fault' = [c \in Conns |-> IF c \in lost THEN "timed out" ELSE fault[c]]

\* Of the sockets that are disconnected or time out a connecting one is gone at
\* once; a listening one may still accept, and is_connected may still hold of one
\* that timed out.  A connected one that is disconnected lingers.
Timer(k, lost) ==
  /\ Idle /\ nextId > 1
  /\ Take(k)
  /\ LET closing == {c \in Known : ClosesNow(c, sendQueue[c] - k[c])} IN
       /\ disconnected' = [c \in Conns |-> disconnected[c] \/ c \in closing]
       /\ \E gone \in SUBSET (closing \cup lost) :
            /\ \A c \in closing \cup lost : sock[c] = "connecting" => c \in gone
            /\ \A c \in gone : sock[c] = "connected" => c \in lost
            /\ sock' = [c \in Conns |-> IF c \in gone THEN "gone" ELSE sock[c]]
  /\ TimesOut(lost)
  /\ UNCHANGED <<given, got, told, nextId, listener, forkedFrom, established,
                 onClose, maps, nscAddr, pair, arrived, eof, error>>
-----------------------------------------------------------------------------
(* Segments.                                                               *)

\* What a segment may do to the stack: nothing, or one thing to the socket
\* that has its pair, or make a new socket of a listening one.
NoEffect == UNCHANGED stack

Connects(c) ==
  /\ sock[c] = "connecting"
  /\ sock' = [sock EXCEPT ![c] = "connected"]
  /\ UNCHANGED <<pair, arrived, eof, fault>>

Brings(c) ==
  /\ sock[c] = "connected" /\ ~eof[c] /\ arrived[c] < MaxReceived
  /\ arrived' = [arrived EXCEPT ![c] = @ + 1]
  /\ eof' \in {eof, [eof EXCEPT ![c] = "end" \in Fates]}
  /\ UNCHANGED <<sock, pair, fault>>

Ends(c) ==
  /\ "end" \in Fates
  /\ sock[c] = "connected" /\ ~eof[c]
  /\ eof' = [eof EXCEPT ![c] = TRUE]
  /\ sock' = [sock EXCEPT ![c] = IF disconnected[c] THEN "gone" ELSE @]
  /\ UNCHANGED <<pair, arrived, fault>>

\* is_connected may still hold of a socket that was reset.
Resets(c) ==
  /\ "reset" \in Fates
  /\ fault' = [fault EXCEPT ![c] = "reset"]
  /\ sock' \in {sock, [sock EXCEPT ![c] = "gone"]}
  /\ sock[c] = "connecting" => sock'[c] = "gone"
  /\ UNCHANGED <<pair, arrived, eof>>

Forks(l, p) ==
  /\ sock[l] = "listening" /\ pair[l].lp = p.lp /\ ~InUse(p) /\ nextId \in Conns
  /\ sock' = [sock EXCEPT ![nextId] = "connected"]
  /\ pair' = [pair EXCEPT ![nextId] = p]
  /\ UNCHANGED <<arrived, eof, fault>>

\* l is the listener that made a socket, or None.
Receives(l, p) ==
  IF l # None THEN Forks(l, p)
  ELSE \/ NoEffect
       \/ \E c \in Known : /\ Live(c) /\ pair[c] = p
                           /\ Connects(c) \/ Brings(c) \/ Ends(c) \/ Resets(c)

\* Mistake: nothing more is read once the application has closed.
PolledOpen(c) == sock[c] = "connected" /\ ~onClose[c]

Polled(c) == sock[c] = "connected" /\ ~disconnected[c]

\* forkedConnId == -1
Reads(c) == forkedFrom[c] = None

\* Mistake: the offered connection is not marked, and polled as a new one.
OfferUnmarked(n) == FALSE

\* sendAvailableIndicationMsg: established is set without ESTABLISHED sent.
OfferMarks(n) == TRUE

\* sendEstablishedMsg: once for each connection.
EstablishedSent(new, offered) ==
  established' = [c \in Conns |-> established[c] \/ c \in new \/ (c \in offered /\ OfferMarks(c))]

\* The loop over the connections after a segment: accept at the listeners,
\* ESTABLISHED at new connections, and read what there is.  Whatever changed
\* is taken to be of the segment's pair.
Poll(l, inet, p) ==
  LET forked  == IF l = None THEN {} ELSE {nextId}
      polled  == {c \in Known : Polled(c)'}
      new     == {c \in polled : ~established[c]}
      read    == {c \in polled : Reads(c)}
      changed == forked \cup new \cup {c \in read : arrived'[c] > got[c]}
  IN  /\ nextId' = nextId + Cardinality(forked)
      /\ forkedFrom' = [c \in Conns |-> IF c \in forked THEN l ELSE forkedFrom[c]]
      /\ EstablishedSent(new, forked)
      /\ got' = [c \in Conns |-> IF c \in read THEN arrived'[c] ELSE got[c]]
      /\ told' = [c \in Conns |-> told[c] \cup IF c \in read THEN Notices(c)' ELSE {}]
      /\ Assert(/\ Cardinality(changed) <= 1
                /\ l # None => inetPair[l].lp = inet.lp, "poll")
      /\ IF changed = {} THEN UNCHANGED maps
         ELSE ChangeAddresses(CHOOSE c \in changed : TRUE, inet, p)

\* handleIpInputMessage.  Meanwhile the stack sends what needs no connection:
\* its segments without bytes go to the address of the segment's number.
Segment(r, lp) ==
  LET p == Pair(FirstFreeAddr(nscAddr, r), RemotePort, Inner, lp) IN
  /\ Idle
  /\ nscAddr' = Mapped(nscAddr, r)
  /\ UNCHANGED <<given, taken, listener, onClose, disconnected, sendQueue>>
  /\ \E l \in Known \cup {None} :
       Receives(l, p) /\ Poll(l, Pair(r, RemotePort, Local, lp), p)
-----------------------------------------------------------------------------
(* What the stack sends goes to the connection that has its pair.          *)

\* mapNsc2Remote
RemoteOf(number) == CHOOSE r \in DOMAIN nscAddr : nscAddr[r] = number

\* findConnByNscSockPair
Found(p) == IF p \in DOMAIN nscMap THEN nscMap[p] ELSE None

\* The branches of sendToIP: the destination.
Destination(p) == IF Found(p) # None THEN inetPair[Found(p)].ra ELSE RemoteOf(p.ra)

\* A segment to an address without a number, or with bytes and without a
\* connection, fails an ASSERT.
SendToIP(p, bytes) ==
  /\ error = "none"
  /\ Assert(Found(p) # None \/ (~bytes /\ p.ra \in Range(nscAddr)), "send")
  /\ UNCHANGED <<app, conns, maps, nscAddr, stack>>

Sends ==
  \E c \in Known, bytes \in BOOLEAN : Live(c) /\ SendToIP(pair[c], bytes)
-----------------------------------------------------------------------------
LocalPorts == Ports \cup {Ephemeral(c) : c \in Known}

Next ==
  \/ \E r \in Remotes, lp \in {Undef} \cup Asked : OpenActive(r, lp)
  \/ \E lp \in Ports : OpenPassive(lp)
  \/ \E c \in Conns : \/ Accept(c) \/ Close(c) \/ Abort(c)
                      \/ \E k \in 0..MaxSent : Send(c, k)
  \/ \E k \in [Conns -> 0..MaxSent], lost \in Few : Timer(k, lost)
  \/ \E r \in Remotes, lp \in LocalPorts : Segment(r, lp)
  \/ Sends

Spec == Init /\ [][Next]_vars

\* The timer is scheduled again each time, and, the stack having a
\* retransmission timer, it takes the bytes of a socket or gives the socket up.
TimerServes(c) ==
  \E k \in [Conns -> 0..MaxSent], lost \in Few :
    /\ sendQueue[c] > 0 /\ Timer(k, lost)
    /\ c \in lost \/ k[c] = sendQueue[c]

Fairness ==
  /\ WF_vars(\E k \in [Conns -> 0..MaxSent] : Timer(k, {}))
  /\ \A c \in Conns : SF_vars(TimerServes(c))

FairSpec == Spec /\ Fairness
-----------------------------------------------------------------------------
(* Properties.                                                             *)

\* No ASSERT of the module fails, though several are about a guess: that what
\* changed in the sockets is the doing of the segment just handled, one
\* connection at a time (handleIpInputMessage), and that the stack never sends
\* bytes on a connection that cannot be found (sendToIP).
NoError == error = "none"

\* Between two handlers, every socket that may send is found by the pair the
\* stack gives it, by no other connection's name, and what it sends goes to the
\* address that the application, or the first segment, named: the two maps and
\* the numbers of the addresses agree with the stack, whose sockets may have
\* been made by an OPEN, a fork, or over the pair of a connection that is gone.
Routed ==
  /\ \A a, b \in DOMAIN nscAddr : nscAddr[a] = nscAddr[b] => a = b
  /\ \A c \in Known : Live(c) =>
       /\ Found(pair[c]) = c
       /\ Destination(pair[c]) \in DOMAIN nscAddr
       /\ nscAddr[Destination(pair[c])] = pair[c].ra

\* After a handler nothing is left in the stack that the application could be
\* told and was not, except on connections not accepted yet or disconnected:
\* the module reads only when a segment comes, and reads everything.
Drained ==
  \A c \in Known :
    sock[c] = "connected" /\ forkedFrom[c] = None /\ ~disconnected[c] =>
      /\ got[c] = arrived[c] /\ established[c]
      /\ eof[c] /\ fault[c] = "none" => "peer closed" \in told[c]

\* A connection that the application closed is disconnected, and CLOSED sent,
\* unless the stack gave its socket up: the send queue empties by the timer.
CloseEnds ==
  \A c \in Conns : onClose[c] ~> disconnected[c] \/ ~Live(c)
=============================================================================
