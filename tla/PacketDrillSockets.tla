-------------------------- MODULE PacketDrillSockets --------------------------
(***************************************************************************)
(* The TCP socket calls of a PacketDrillApp script.  A script has file     *)
(* descriptors; the app has one TcpSocket member (`sock') that it renews   *)
(* for every socket() and that is both the listener and the connection it  *)
(* accepts (listenOnce() does not fork).  `app' holds the app's            *)
(* book-keeping of which connection a call is for, of the ports, and of    *)
(* the Fast Open state of the stack that it mirrors.                       *)
(*                                                                         *)
(* The Tcp module is external: `tcp' is what it knows of each connection   *)
(* it was told of.  A script is the environment: it makes the calls that   *)
(* its open descriptors allow, in any order, as long as what it says they  *)
(* return is what the stack would return.  What the code does not stand is *)
(* enabled by Habits.                                                      *)
(***************************************************************************)
EXTENDS Integers, FiniteSets

CONSTANTS MaxConns,  \* bound on the sockets under the TcpSocket member
          Habits     \* SUBSET of the names below

\* flush:     flushes the cookies of the stack while some are cached
\* bare:      shuts down a socket that has no connection, or closes one it disconnected
\* reconnect: calls connect() after the peer closed, after the connection failed, on a
\*            listener, or before the accepted connection is ESTABLISHED
\* relisten:  listens again, or on a descriptor it disconnected
\* sendmsg:   uses sendmsg() or sendfile() while the SYN is deferred, or sendmsg(MSG_FASTOPEN)
\*            that takes no data on an unconnected socket while a cookie is cached, or
\*            sendmsg(MSG_FASTOPEN) where reconnect may not call connect()
\* sendto:    uses sendto() after the peer closed, or after the connection failed
\* disabled:  connects with Fast Open while the client is disabled, and it seems to need no cookie
\* early:     disconnects the accepted socket before it closes the listener
\* leaves:    opens a socket before it closed the descriptors of the last, which it forgets
\* unread:    opens a socket while data of the last one is unread
\* preamble:  starts with cookie-less Fast Open enabled
ASSUME SocketsAssumption ==
  /\ MaxConns \in Nat
  /\ Habits \subseteq {"flush", "bare", "reconnect", "relisten", "sendmsg", "sendto", "disabled",
                       "early", "leaves", "unread", "preamble"}

VARIABLES app, sock, tcp,
          fds          \* the script's open descriptors: 3 of socket(), 4 of accept()

vars == <<app, sock, tcp, fds>>

None == -1
Ids == 1 .. MaxConns
Unknown == [state |-> "none", local |-> None, remote |-> None, fastOpen |-> FALSE,
            ended |-> FALSE, closes |-> 0]

Results == {"error", "zero", "bytes"}  \* what the script says a call returns

--------------------------------------------------------------------------
(* The Tcp module, told of connection i.                                   *)

\* A Fast Open connect with a cookie keeps its SYN for the first data.
Defers == tcp.client /\ (tcp.cookies \/ tcp.noCookie)

TcpOpen(t, i, state, fastOpen) ==
  [t EXCEPT !.conns[i] = [Unknown EXCEPT !.state = state, !.fastOpen = fastOpen,
                                         !.local = app.localPort, !.remote = app.remotePort]]
TcpSend(t, i) == [t EXCEPT !.conns[i].state = IF @ = "deferred" THEN "syn" ELSE @]
TcpClose(t, i) == [t EXCEPT !.conns[i].ended = TRUE, !.conns[i].closes = @ + 1]
TcpAbort(t, i) == IF t.conns[i].state = "none" THEN t
                  ELSE [t EXCEPT !.conns[i].ended = TRUE, !.conns[i].state = "gone"]

--------------------------------------------------------------------------
(* The TcpSocket member.  A call in the wrong state throws.                *)

Throw(what) == [app EXCEPT !.error = what]

Connects(a, fastOpen, s, t) ==
  IF sock.state # "BOUND"
  THEN [app |-> [a EXCEPT !.error = "connect() already called"], sock |-> s, tcp |-> t]
  ELSE [app |-> [a EXCEPT !.tcpConnId = s.id],
        sock |-> [s EXCEPT !.state = "CONNECTING"],
        tcp |-> TcpOpen(t, s.id, IF fastOpen /\ Defers THEN "deferred" ELSE "syn", fastOpen)]

\* The ESTABLISHED indication may still be on its way when the script has
\* accepted: the state is corrected at the first use.
Accepted(r) ==
  IF r.sock.state = "LISTENING" /\ r.app.acceptSet
  THEN [r EXCEPT !.sock.state = "CONNECTED", !.app.acceptSet = FALSE] ELSE r

SendTcpPayload(u) ==
  LET r == Accepted(u)
  IN IF r.sock.state \notin {"CONNECTING", "CONNECTED", "PEER_CLOSED"}
     THEN [r EXCEPT !.app.error = "send() in the wrong state"]
     ELSE [r EXCEPT !.tcp = TcpSend(@, r.sock.id)]

Now == [app |-> app, sock |-> sock, tcp |-> tcp]
Becomes(r) == app' = r.app /\ sock' = r.sock /\ tcp' = r.tcp

Running == app.error = ""

--------------------------------------------------------------------------
(* socket(), bind(), listen(), accept(), connect().                        *)

\* The next socket() gets ports that no connection before it had: another
\* local port, or, when a listener binds the port again, another client.
NewPortsLocal(a) == [a EXCEPT !.localPort = IF a.socketWasListener THEN @ ELSE @ + 1]   \* Mistake: the same client
NewPorts(a) == [a EXCEPT !.localPort = IF a.socketWasListener THEN @ ELSE @ + 1,
                         !.remotePort = IF a.socketWasListener THEN @ + 1 ELSE @]

\* What was captured of the old connection is purged; unread data stays.
Renewed(a) == [NewPorts(a) EXCEPT !.tcpConnId = None, !.listenScriptFd = None, !.acceptedScriptFd = None,
                                  !.tfoSynDeferredKick = FALSE, !.captured = {}]

SyscallSocket ==
  /\ Running /\ sock.id < MaxConns
  /\ "leaves" \in Habits \/ fds = {}
  /\ "unread" \in Habits \/ app.unread = {}
  /\ app' = [(IF sock.state = "NOT_BOUND" THEN app ELSE Renewed(app)) EXCEPT !.socketWasListener = FALSE]
  /\ sock' = [id |-> sock.id + 1, state |-> "BOUND"]
  /\ fds' = {3}
  /\ UNCHANGED tcp

\* listenOnce() throws in any state but BOUND.
SyscallListen(fd) ==
  /\ Running /\ fd \in fds
  /\ "relisten" \in Habits \/ (fds = {3} /\ sock.state = "BOUND" /\ app.tcpConnId = None)
  /\ LET a == [app EXCEPT !.listenSet = TRUE, !.socketWasListener = TRUE, !.listenScriptFd = fd]
     IN IF sock.state = "BOUND"
        THEN /\ app' = a
             /\ sock' = [sock EXCEPT !.state = "LISTENING"]
             /\ tcp' = TcpOpen(tcp, sock.id, "listen", FALSE)
        ELSE /\ app' = [a EXCEPT !.error = "connect() or listen() already called"]
             /\ UNCHANGED <<sock, tcp>>
  /\ UNCHANGED fds

\* accept() may run before the ESTABLISHED indication, not before the SYN.
SyscallAccept ==
  /\ Running /\ app.listenSet /\ 3 \in fds /\ app.listenScriptFd = 3 /\ app.acceptedScriptFd = None
  /\ tcp.conns[sock.id].state \in {"open", "gone"}
  /\ app' = [app EXCEPT !.acceptedScriptFd = 4, !.acceptSet = TRUE]
  /\ fds' = fds \cup {4}
  /\ UNCHANGED <<sock, tcp>>

\* The descriptor of the connection, which listening sockets have not.
DataFd == IF app.listenScriptFd = 3 THEN 4 ELSE 3

\* Whether the app takes the SYN for deferred: it does not ask whether the
\* client is enabled.
Kicks(fastOpen) == fastOpen /\ (app.tfoCookieCached \/ app.tfoNoCookieMode)
MayKick(fastOpen) == Kicks(fastOpen) /\ ~app.tfoClientEnabled => "disabled" \in Habits

\* A repeated connect() is skipped in two states, and throws in the others.
SyscallConnect ==
  /\ Running /\ fds # {}
  /\ "reconnect" \in Habits \/ sock.state \in {"BOUND", "CONNECTING", "CONNECTED"}
  /\ sock.state = "BOUND" => MayKick(app.fastopenConnectPending)
  /\ LET fastOpen == app.fastopenConnectPending
         pending == [app EXCEPT !.fastopenConnectPending = FALSE]
     IN IF sock.state \in {"CONNECTING", "CONNECTED"}
        THEN Becomes([Now EXCEPT !.app = pending])
        ELSE Becomes(Connects([pending EXCEPT !.tfoSynDeferredKick = @ \/ Kicks(fastOpen)], fastOpen, sock, tcp))
  /\ UNCHANGED fds

\* connect(AF_UNSPEC): the same descriptor with a fresh socket under it.
Disconnect ==
  /\ Running /\ DataFd \in fds /\ sock.id < MaxConns
  /\ "early" \in Habits \/ fds = {DataFd}
  /\ "unread" \in Habits \/ app.unread = {}
  /\ app' = [Accepted(Now).app EXCEPT !.tcpConnId = sock.id + 1, !.tfoSynDeferredKick = FALSE]
  /\ sock' = [id |-> sock.id + 1, state |-> "BOUND"]
  /\ tcp' = TcpAbort(tcp, sock.id)
  /\ UNCHANGED fds

SetFastopenConnect(optval) ==
  /\ Running /\ fds # {}
  /\ app' = [app EXCEPT !.fastopenConnectPending = optval]
  /\ UNCHANGED <<sock, tcp, fds>>

--------------------------------------------------------------------------
(* The calls that send.                                                    *)

\* Mistake: a call that fails sends nothing
PayloadIfTaken(r, result) == IF result = "bytes" THEN SendTcpPayload(r) ELSE r

\* The SYN that Tcp deferred leaves with the next call, even one that fails.
Payload(r, result) == IF result = "bytes" \/ r.app.tfoSynDeferredKick THEN SendTcpPayload(r) ELSE r

KickDone(r) == [r EXCEPT !.app.tfoSynDeferredKick = FALSE]

CanSend(result) == /\ Running /\ DataFd \in fds
                   /\ result = "bytes" => /\ tcp.conns[sock.id].state \in {"deferred", "syn", "open"}
                                          /\ ~tcp.conns[sock.id].ended

CanOpen(fastOpen) == /\ Running /\ DataFd \in fds
                     /\ sock.state = "BOUND" /\ fastOpen /\ app.tfoClientEnabled

SyscallWrite(result) ==
  /\ CanSend(result)
  /\ Becomes(KickDone(Payload(Accepted(Now), result)))
  /\ UNCHANGED fds

\* sendto() on a socket that has no connection connects it first.
SyscallSendTo(flag, result) ==
  LET fastOpen == flag \/ app.fastopenConnectPending
      connected == sock.state \in {"CONNECTED", "CONNECTING", "LISTENING"}
      rejected == fastOpen /\ ~app.tfoClientEnabled /\ result = "error"
      pending == [app EXCEPT !.fastopenConnectPending = FALSE]
      opened == Connects([pending EXCEPT !.tfoSynDeferredKick = @ \/ Kicks(fastOpen)], fastOpen, sock, tcp)
  IN /\ CanSend(result) \/ CanOpen(fastOpen)
     /\ sock.state \in {"PEER_CLOSED", "SOCKERROR", "CLOSED"} => "sendto" \in Habits
     /\ connected \/ rejected \/ MayKick(fastOpen)
     /\ IF connected THEN Becomes(KickDone(Payload(Now, result)))
        ELSE IF rejected THEN Becomes([Now EXCEPT !.app = pending])
        ELSE IF opened.app.error # "" THEN Becomes(opened)
        ELSE Becomes(KickDone(Payload(opened, result)))
     /\ UNCHANGED fds

\* sendmsg() connects too, but knows nothing of the deferred SYN.
SyscallSendMsg(flag, result) ==
  LET opens == /\ flag /\ sock.state \notin {"CONNECTED", "CONNECTING"}
               /\ app.tfoClientEnabled \/ result # "error"
      opened == IF opens THEN Connects(app, TRUE, sock, tcp) ELSE Now
  IN /\ CanSend(result) \/ CanOpen(flag)
     /\ \/ "sendmsg" \in Habits
        \/ ~app.tfoSynDeferredKick /\ (opens => sock.state = "BOUND" /\ (Defers => result = "bytes"))
     /\ Becomes(IF opened.app.error = "" /\ result = "bytes" THEN SendTcpPayload(opened) ELSE opened)
     /\ UNCHANGED fds

SyscallSendFile(result) ==
  /\ CanSend(result)
  /\ "sendmsg" \in Habits \/ tcp.conns[sock.id].state # "deferred"
  /\ Becomes(IF result = "bytes" THEN SendTcpPayload(Accepted(Now)) ELSE Accepted(Now))
  /\ UNCHANGED fds

--------------------------------------------------------------------------
(* shutdown() and close().                                                 *)

ConnId == IF app.tcpConnId # None THEN app.tcpConnId ELSE sock.id

SyscallShutdown ==
  /\ Running /\ DataFd \in fds
  /\ "bare" \in Habits \/ tcp.conns[ConnId].state # "none"
  /\ IF ConnId \in app.closedTcpConnIds THEN UNCHANGED <<app, tcp>>
     ELSE /\ app' = [app EXCEPT !.closedTcpConnIds = @ \cup {ConnId}, !.shut = @ \cup {ConnId}]
          /\ tcp' = TcpClose(tcp, ConnId)
  /\ UNCHANGED <<sock, fds>>

\* Closing a listener nobody connected to, or whose connection was not
\* accepted, makes Tcp drop it: with a RST when there is unread data.
ClosesListener(fd) == app.tcpConnId = None /\ fd = app.listenScriptFd /\ app.acceptedScriptFd = None

\* Mistake: the listener is taken for the connection
NothingToCloseEver(fd) == app.tcpConnId = None /\ ~ClosesListener(fd) /\ sock.state \in {"NOT_BOUND", "BOUND"}

\* The listener is only a descriptor once its connection is accepted, and a
\* socket that never connected has no connection to close.
NothingToClose(fd) ==
  /\ app.tcpConnId = None
  /\ \/ fd = app.listenScriptFd /\ app.acceptedScriptFd \notin {None, fd}
     \/ ~ClosesListener(fd) /\ sock.state \in {"NOT_BOUND", "BOUND"}

\* Mistake: a connection that was shut down is closed again
AlreadyClosedNever(id) == FALSE
AlreadyClosed(id) == id \in app.closedTcpConnIds

CloseTcp(fd) ==
  IF NothingToClose(fd) \/ AlreadyClosed(ConnId) THEN UNCHANGED <<app, sock, tcp>>
  ELSE /\ app' = [app EXCEPT !.closedTcpConnIds = @ \cup {ConnId}]
       /\ IF ClosesListener(fd) \/ (app.unread # {} /\ ConnId = sock.id)
          THEN sock' = [sock EXCEPT !.state = "CLOSED"] /\ tcp' = TcpAbort(tcp, sock.id)
          ELSE UNCHANGED sock /\ tcp' = TcpClose(tcp, ConnId)

SyscallClose(fd) ==
  /\ Running /\ fd \in fds
  /\ "bare" \in Habits \/ app.tcpConnId = None \/ tcp.conns[ConnId].state # "none"
  /\ CloseTcp(fd)
  /\ fds' = fds \ {fd}

\* read() takes what has arrived.
SyscallRead ==
  /\ Running /\ app.unread # {}
  /\ app' = [app EXCEPT !.unread = {}]
  /\ UNCHANGED <<sock, tcp, fds>>

--------------------------------------------------------------------------
(* Commands of the script, and what is injected and comes back.            *)

\* sysctl net.ipv4.tcp_fastopen
CommandFastOpen(client, noCookie) ==
  /\ Running
  /\ <<client, noCookie>> # <<app.tfoClientEnabled, app.tfoNoCookieMode>>
  /\ app' = [app EXCEPT !.tfoClientEnabled = client, !.tfoNoCookieMode = noCookie]
  /\ tcp' = [tcp EXCEPT !.client = client, !.noCookie = noCookie]
  /\ UNCHANGED <<sock, fds>>

\* ip tcp_metrics flush
CommandFlush ==
  /\ Running
  /\ "flush" \in Habits \/ ~app.tfoCookieCached
  /\ tcp' = [tcp EXCEPT !.cookies = FALSE]
  /\ UNCHANGED <<app, sock, fds>>

\* An injected SYN, or a SYN-ACK, which may bring a cookie.
PeerConnects ==
  /\ Running /\ sock.id \in Ids /\ tcp.conns[sock.id].state = "listen" /\ ~tcp.conns[sock.id].ended
  /\ tcp' = [tcp EXCEPT !.conns[sock.id].state = "open"]
  /\ UNCHANGED <<app, sock, fds>>

PeerAnswers(cookie) ==
  /\ Running /\ sock.id \in Ids /\ tcp.conns[sock.id].state = "syn" /\ ~tcp.conns[sock.id].ended
  /\ cookie => tcp.conns[sock.id].fastOpen
  /\ tcp' = [tcp EXCEPT !.conns[sock.id].state = "open", !.cookies = @ \/ cookie]
  /\ app' = [app EXCEPT !.tfoCookieCached = @ \/ cookie]
  /\ UNCHANGED <<sock, fds>>

Established ==
  /\ Running /\ sock.state \in {"LISTENING", "CONNECTING"} /\ tcp.conns[sock.id].state = "open"
  /\ sock' = [sock EXCEPT !.state = "CONNECTED"]
  /\ UNCHANGED <<app, tcp, fds>>

DataArrives ==
  /\ Running /\ sock.state = "CONNECTED" /\ tcp.conns[sock.id].state = "open" /\ ~tcp.conns[sock.id].ended
  /\ app' = [app EXCEPT !.unread = @ \cup {sock.id}]
  /\ UNCHANGED <<sock, tcp, fds>>

PeerCloses ==
  /\ Running /\ sock.state = "CONNECTED" /\ tcp.conns[sock.id].state = "open"
  /\ sock' = [sock EXCEPT !.state = "PEER_CLOSED"]
  /\ UNCHANGED <<app, tcp, fds>>

\* A RST, an ICMP error, a timeout; or the end of TIME_WAIT.
Fails ==
  /\ Running /\ sock.state \in {"CONNECTING", "CONNECTED", "PEER_CLOSED"} /\ tcp.conns[sock.id].state \in {"syn", "open"}
  /\ sock' = [sock EXCEPT !.state = "SOCKERROR"]
  /\ tcp' = [tcp EXCEPT !.conns[sock.id].state = "gone"]
  /\ UNCHANGED <<app, fds>>

Expires(i) ==
  /\ Running /\ i # sock.id /\ tcp.conns[i].state = "open" /\ tcp.conns[i].ended
  /\ tcp' = [tcp EXCEPT !.conns[i].state = "gone"]
  /\ UNCHANGED <<app, sock, fds>>

\* A segment of connection i is seen at the tun device: one that is not from
\* and to the ports of the current connection is ignored.
Current(i) == tcp.conns[i].local = app.localPort /\ tcp.conns[i].remote = app.remotePort

SegmentSent(i) ==
  /\ Running /\ tcp.conns[i].state \in {"syn", "open"} /\ Current(i)
  /\ app' = [app EXCEPT !.captured = @ \cup {i}]
  /\ UNCHANGED <<sock, tcp, fds>>

Compare(i) ==
  /\ Running /\ i \in app.captured
  /\ app' = [app EXCEPT !.captured = @ \ {i}]
  /\ UNCHANGED <<sock, tcp, fds>>

Init ==
  /\ app = [tcpConnId |-> None, listenScriptFd |-> None, acceptedScriptFd |-> None,
            listenSet |-> FALSE, acceptSet |-> FALSE, socketWasListener |-> FALSE,
            localPort |-> 0, remotePort |-> 0, closedTcpConnIds |-> {},
            fastopenConnectPending |-> FALSE, tfoCookieCached |-> FALSE, tfoSynDeferredKick |-> FALSE,
            tfoClientEnabled |-> TRUE, tfoNoCookieMode |-> FALSE,
            unread |-> {}, captured |-> {}, shut |-> {}, error |-> ""]
  /\ sock = [id |-> 0, state |-> "NOT_BOUND"]
  /\ \E noCookie \in {FALSE} \cup {"preamble" \in Habits} :
       tcp = [conns |-> [i \in Ids |-> Unknown], cookies |-> FALSE, client |-> TRUE, noCookie |-> noCookie]
  /\ fds = {}

Calls == \/ SyscallSocket \/ SyscallAccept \/ SyscallConnect \/ Disconnect
         \/ SyscallShutdown \/ SyscallRead
         \/ \E optval \in BOOLEAN : SetFastopenConnect(optval)
         \/ \E result \in Results : SyscallWrite(result) \/ SyscallSendFile(result)
         \/ \E result \in Results, flag \in BOOLEAN : SyscallSendTo(flag, result) \/ SyscallSendMsg(flag, result)
         \/ \E fd \in fds : SyscallListen(fd) \/ SyscallClose(fd)
         \/ \E client, noCookie \in BOOLEAN : CommandFastOpen(client, noCookie)
         \/ CommandFlush

Stack == \/ PeerConnects \/ Established \/ DataArrives \/ PeerCloses \/ Fails
         \/ \E cookie \in BOOLEAN : PeerAnswers(cookie)
         \/ \E i \in Ids : Expires(i) \/ SegmentSent(i) \/ Compare(i)

Next == Calls \/ Stack

Spec == Init /\ [][Next]_vars

--------------------------------------------------------------------------
(* Properties.                                                             *)

(* No call throws, and Tcp gets one CLOSE for a connection, and none for a *)
(* connection it was never told of (PacketDrillApp.cc:3727-3742).  With    *)
(* the Habits bare, reconnect, relisten, sendto, flush or disabled a call  *)
(* does throw.                                                             *)
NoError == Running /\ \A i \in Ids : tcp.conns[i].closes > 0 => tcp.conns[i].closes = 1 /\ tcp.conns[i].state # "none"

(* Only the descriptor of a connection ends it: closing the listener leaves *)
(* an accepted connection alone.  And none is left open when the script    *)
(* has closed all its descriptors (PacketDrillApp.cc:3704-3726).           *)
Open(i) == tcp.conns[i].state \notin {"none", "gone"}
Holder == IF app.listenScriptFd = 3 /\ app.acceptedScriptFd = None THEN 3 ELSE DataFd
OwnersClose ==
  /\ Running /\ sock.id \in Ids /\ Open(sock.id) /\ tcp.conns[sock.id].ended
       => Holder \notin fds \/ sock.id \in app.shut
  /\ fds = {} => \A i \in Ids : Open(i) => tcp.conns[i].ended

(* No two connections of Tcp have the same ports, so that a new one is not *)
(* taken for one in TIME_WAIT, and only segments of the current one wait   *)
(* for an expectation (PacketDrillApp.cc:1799-1857).                       *)
OwnPorts ==
  /\ \A i, j \in Ids : i # j /\ Open(i) /\ Open(j) =>
       <<tcp.conns[i].local, tcp.conns[i].remote>> # <<tcp.conns[j].local, tcp.conns[j].remote>>
  /\ \A i \in app.captured : Current(i)

(* A SYN that Tcp deferred leaves with the next call that sends, whatever  *)
(* the script says it returned (PacketDrillApp.h:195-204).                 *)
SendsRelease ==
  [][\A result \in Results, flag \in BOOLEAN :
       SyscallWrite(result) \/ SyscallSendTo(flag, result) \/ SyscallSendMsg(flag, result)
         => tcp'.conns[sock.id].state # "deferred"]_vars
=============================================================================
