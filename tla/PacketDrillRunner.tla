-------------------------- MODULE PacketDrillRunner --------------------------
(***************************************************************************)
(* The event loop of PacketDrillApp: it runs the events of a script at     *)
(* their times, holds what the stack under test sends against what the     *)
(* script expects, and lets reads, polls and code blocks complete later.   *)
(*                                                                         *)
(* The stack is the environment: it delivers what was injected, emits      *)
(* segments and answers a STATUS request when it likes.  A handler of the  *)
(* app is one action, an operator on the record `app' of the members of    *)
(* the class; the cTerminationException that ends the simulation is the    *)
(* field `error'.  A tick of `now' stands for any positive time.           *)
(***************************************************************************)
EXTENDS Integers, Sequences, FiniteSets

CONSTANTS Scripts,     \* the scripts: [protocol, explicitRead, events]
          MaxTime,     \* the stack acts on its own until this time
          MaxSent,     \* bound on the segments the stack emits
          Latency,     \* the parameter latency
          Tolerance    \* the tolerance of the script

VARIABLES script, now, app,
          inFlight,    \* bytes injected and not yet delivered to the app
          asked,       \* bytes the app asked for with READ (explicitRead)
          sent, sndNxt \* segments emitted, and the next new sequence number

vars == <<script, now, app, inFlight, asked, sent, sndNxt>>

Off == -1
NoPacket == [id |-> 0, offset |-> 0]
NoAggregate == [fin |-> FALSE, remaining |-> 0, nextSeq |-> 0]

Event(k) == script.events[k + 1]
LastEvent == Len(script.events) - 1
Uses(kind) == \E k \in DOMAIN script.events : script.events[k].kind = kind

PollFlags == {"in", "out", "rdhup", "err", "hup"}

\* What a line of a script says; a call that fails has the result -1, one that
\* asserts no TCP_CM_INQ the inq Off.
Events ==
  [kind : {"in", "out", "read", "recvmsg", "recvfrom", "splice", "poll", "command", "code", "call"},
   wait : Nat, slack : Nat, type : {"any", "range", "relative"},
   size : Nat, fin : BOOLEAN, seq : Nat, count : Nat, result : Nat \cup {-1}, inq : Nat \cup {Off},
   requested : SUBSET PollFlags, revents : SUBSET PollFlags, window : Nat, holds : BOOLEAN]

ASSUME ScriptsAssumption ==
  \A s \in Scripts : /\ s.protocol \in {"tcp", "udp", "sctp"} /\ s.explicitRead \in BOOLEAN
                     /\ s.events \in Seq(Events) \ {<<>>}

--------------------------------------------------------------------------
(* The members of the app after the script is parsed; the first event is   *)
(* scheduled.  The last line is history: events run, segments compared and *)
(* expectations met, bytes read, code blocks executed, and whether the     *)
(* script went on past something it was still waiting for.                 *)

Initial ==
  [eventCounter |-> 0, eventTimer |-> Event(0).wait, eventTime |-> Event(0).wait,
   outboundPackets |-> <<>>, receivedPackets |-> <<>>,
   partialRead |-> NoPacket, msgArrived |-> FALSE,
   recvFromSet |-> FALSE, expectedMessageSize |-> 0, socketOptionsArrived |-> FALSE,
   codeEventPending |-> FALSE, statusRequest |-> "off", pendingCode |-> TRUE, codeBlockBuffer |-> <<>>,
   aggExpectedOutbound |-> NoAggregate,
   pollDeferred |-> FALSE, poll |-> [requested |-> {}, revents |-> {}, count |-> 0, end |-> Off],
   peerClosedSeen |-> FALSE, peerFinPending |-> FALSE, connErrorSeen |-> FALSE,
   scriptComplete |-> FALSE, error |-> "",
   arrivals |-> 0, ran |-> 0, compared |-> <<>>, met |-> 0, consumed |-> 0, executed |-> 0, slipped |-> FALSE]

Throw(s, what) == [s EXCEPT !.error = what]

ScheduleEvent(s) == LET at == now + Event(s.eventCounter).wait
                    IN [s EXCEPT !.eventTimer = at, !.eventTime = at]

AdvancesAlways(s) == s.eventCounter < LastEvent   \* Mistake: over a scheduled event
Advances(s) == s.eventTimer = Off /\ s.eventCounter < LastEvent

Aggregating(s) == s.aggExpectedOutbound # NoAggregate
Settled(s) == s.outboundPackets = <<>> /\ ~Aggregating(s) /\ ~s.codeEventPending

Advance(s) == IF Advances(s)
              THEN ScheduleEvent([s EXCEPT !.eventCounter = @ + 1, !.slipped = @ \/ ~Settled(s)])
              ELSE s

\* Mistake: over while the last event is only scheduled
FinishedScheduled(s) ==
  s.eventCounter >= LastEvent /\ ~s.codeEventPending /\ s.outboundPackets = <<>>

\* The condition under which the script is over, as the callbacks test it.
Finished(s) == /\ s.eventCounter >= LastEvent
               /\ ~s.codeEventPending
               /\ s.outboundPackets = <<>>
               /\ s.eventTimer = Off

ExecuteCodeBlocks(s) ==
  IF \E i \in DOMAIN s.codeBlockBuffer : ~s.codeBlockBuffer[i]
  THEN Throw(s, "assertion")
  ELSE [s EXCEPT !.executed = @ + Len(s.codeBlockBuffer), !.codeBlockBuffer = <<>>]

Complete(s) == LET t == ExecuteCodeBlocks(s)
               IN IF t.error # "" THEN t ELSE [t EXCEPT !.scriptComplete = TRUE]

AdvanceOnly(s) == Advance(s)   \* Mistake: nobody notices the end of the script
AdvanceOrComplete(s) == IF Advances(s) THEN Advance(s)
                        ELSE IF Finished(s) THEN Complete(s) ELSE s

--------------------------------------------------------------------------
(* The receive stream: app data and captured segments share one queue.     *)

OffsetOf(part, p) == IF p.id = part.id THEN part.offset ELSE 0

\* The bytes of p that are not read: a captured segment has none for the app.
Unread(part, p) == IF p.app THEN p.size - OffsetOf(part, p) ELSE 0

\* The sum of the first n numbers of a sequence.
Total(numbers, n) ==
  LET sum[i \in 0 .. n] == IF i = 0 THEN 0 ELSE sum[i - 1] + numbers[i] IN sum[n]

UnreadBytes(part, q) == Total([i \in DOMAIN q |-> Unread(part, q[i])], Len(q))
AvailableAppBytes(s) == UnreadBytes(s.partialRead, s.receivedPackets)

\* Mistake: the offset of an earlier read is forgotten
TakeFromStart(acc, p) ==
  IF ~p.app \/ acc.left = 0 THEN [acc EXCEPT !.kept = Append(@, p)]
  ELSE IF p.size - OffsetOf(acc.part, p) <= acc.left
  THEN [acc EXCEPT !.left = @ - (p.size - OffsetOf(acc.part, p))]
  ELSE [left |-> 0, kept |-> Append(acc.kept, p), part |-> [id |-> p.id, offset |-> acc.left]]
TakeFrom(acc, p) ==
  LET unread == Unread(acc.part, p)
  IN IF ~p.app \/ acc.left = 0 THEN [acc EXCEPT !.kept = Append(@, p)]
     ELSE IF unread <= acc.left
     THEN [acc EXCEPT !.left = @ - unread, !.part = IF p.id = @.id THEN NoPacket ELSE @]
     ELSE [left |-> 0, kept |-> Append(acc.kept, p),
           part |-> [id |-> p.id, offset |-> p.size - unread + acc.left]]

ConsumeAppBytes(s, count) ==
  LET q == s.receivedPackets
      taken[i \in 0 .. Len(q)] ==
        IF i = 0 THEN [left |-> count, kept |-> <<>>, part |-> s.partialRead]
        ELSE TakeFrom(taken[i - 1], q[i])
      rest == taken[Len(q)]
  IN [s EXCEPT !.receivedPackets = rest.kept, !.partialRead = rest.part,
               !.msgArrived = rest.kept # <<>>, !.consumed = @ + count]

\* A message of n bytes from the socket, and a segment captured at the tun device.
QueuedData(s, n) ==
  [s EXCEPT !.arrivals = @ + 1, !.msgArrived = TRUE,
            !.receivedPackets = Append(@, [app |-> TRUE, id |-> s.arrivals + 1, at |-> now, size |-> n,
                                           seq |-> 0, fin |-> FALSE, number |-> 0])]
Captured(s, g) ==
  [s EXCEPT !.arrivals = @ + 1,
            !.receivedPackets = Append(@, [app |-> FALSE, id |-> s.arrivals + 1, at |-> now, size |-> g.size,
                                           seq |-> g.seq, fin |-> g.fin, number |-> g.number])]

Without(q, k) == SubSeq(q, 1, k - 1) \o SubSeq(q, k + 1, Len(q))

CapturedIn(q) == {i \in DOMAIN q : ~q[i].app}
FirstCaptured(q) == CHOOSE i \in CapturedIn(q) : \A j \in CapturedIn(q) : i <= j

--------------------------------------------------------------------------
(* Expected against live segments.                                         *)

VerifyTime(x, time) ==
  \/ x.type = "any"
  \/ x.type = "range" /\ time \in x.time - Tolerance .. x.end + Tolerance
  \/ x.type = "relative" /\ time \in x.time - Tolerance .. x.time + Tolerance

\* The header comparison: PSH and FIN are lenient on the first slice of a
\* super-segment.
CompareDatagram(x, g, leniently) == x.seq = g.seq /\ (leniently \/ x.fin = g.fin)

StartOutboundComparison(s, x, g) ==
  LET t == [s EXCEPT !.compared = Append(@, g.number)]
  IN IF x.size > g.size
     THEN IF CompareDatagram(x, g, TRUE)
          THEN [t EXCEPT !.aggExpectedOutbound =
                  [fin |-> x.fin, remaining |-> x.size - g.size, nextSeq |-> g.seq + g.size]]
          ELSE Throw(s, "datagram")
     ELSE IF x.size < g.size \/ ~CompareDatagram(x, g, FALSE)
     THEN Throw(s, "datagram")
     ELSE AdvanceOrComplete([t EXCEPT !.met = @ + 1])

ContinueOutboundAggregation(s, g) ==
  LET agg == s.aggExpectedOutbound
      t == [s EXCEPT !.compared = Append(@, g.number)]
  IN IF g.size = 0 \/ g.seq # agg.nextSeq \/ g.size > agg.remaining
     THEN Throw(s, "datagram")
     ELSE IF g.size < agg.remaining
     THEN [t EXCEPT !.aggExpectedOutbound.remaining = @ - g.size,
                    !.aggExpectedOutbound.nextSeq = @ + g.size]
     ELSE IF agg.fin # g.fin
     THEN Throw([t EXCEPT !.aggExpectedOutbound = NoAggregate], "datagram")
     ELSE AdvanceOrComplete([t EXCEPT !.aggExpectedOutbound = NoAggregate, !.met = @ + 1])

DrainNothing(s) == s   \* Mistake: captured slices stay behind
\* Slices that were captured before the super-segment was expected.
DrainSlice(s) ==
  LET k == FirstCaptured(s.receivedPackets)
  IN IF Aggregating(s) /\ CapturedIn(s.receivedPackets) # {} /\ s.error = ""
     THEN ContinueOutboundAggregation([s EXCEPT !.receivedPackets = Without(@, k)], s.receivedPackets[k])
     ELSE s
DrainSlices(s) ==
  LET drained[i \in 0 .. Len(s.receivedPackets)] == IF i = 0 THEN s ELSE DrainSlice(drained[i - 1])
  IN drained[Len(s.receivedPackets)]

\* What an outbound event of the script expects, with its time made live.
Expectation(e) == [seq |-> e.seq, size |-> e.size, fin |-> e.fin, type |-> e.type,
                   time |-> now, end |-> now + e.slack]

RunOutbound(s, e) ==
  LET k == FirstCaptured(s.receivedPackets)
      live == s.receivedPackets[k]
  IN IF CapturedIn(s.receivedPackets) = {} THEN [s EXCEPT !.outboundPackets = Append(@, Expectation(e))]
     ELSE IF ~VerifyTime(Expectation(e), live.at) THEN Throw(s, "time")
     ELSE DrainSlices(StartOutboundComparison(
            [s EXCEPT !.receivedPackets = Without(@, k)], Expectation(e), live))

--------------------------------------------------------------------------
(* The system calls that read.                                             *)

Blocks(s, n) == [s EXCEPT !.msgArrived = FALSE, !.recvFromSet = TRUE, !.expectedMessageSize = n]

\* A read that finds nothing queued leaves msgArrived alone.
BlocksOnNothing(s, n) == [s EXCEPT !.recvFromSet = TRUE, !.expectedMessageSize = n]

HasArrived(s) == s.msgArrived \/ s.receivedPackets # <<>>

\* A read() that returns no bytes drops an expectation of the script.
ReadOfNothing(s) ==
  IF s.msgArrived
  THEN [s EXCEPT !.msgArrived = FALSE, !.expectedMessageSize = 0,
                 !.outboundPackets = IF @ = <<>> THEN @ ELSE Tail(@),
                 !.slipped = @ \/ s.outboundPackets # <<>>]
  ELSE [s EXCEPT !.expectedMessageSize = 0]

AsksSctp(s, e) == script.protocol = "sctp" /\ e.result > 0 /\ HasArrived(s)

AsksStack(s, e) == /\ script.protocol = "tcp" /\ script.explicitRead
                   /\ e.result > 0 /\ AvailableAppBytes(s) < e.result

SyscallRead(s, e) ==
  LET avail == AvailableAppBytes(s)
  IN IF e.result = -1 THEN s
     ELSE IF e.result = 0 THEN ReadOfNothing(s)
     ELSE IF AsksStack(s, e) THEN Blocks(s, e.result)
     ELSE IF ~HasArrived(s) THEN BlocksOnNothing(s, e.result)
     ELSE IF script.protocol # "tcp" \/ avail < e.result THEN Blocks(s, e.result)
     ELSE IF e.result < e.count /\ avail > e.result THEN Throw(s, "length")
     ELSE [ConsumeAppBytes(s, e.result) EXCEPT !.expectedMessageSize = e.result]

\* TCP_CM_INQ: what is left to read, an end of the stream that was told included.
VerifyMsgControlInq(s, e) ==
  e.inq = Off \/ e.inq = AvailableAppBytes(s) + (IF s.peerFinPending THEN 1 ELSE 0)

SyscallRecvMsg(s, e) ==
  IF e.result < 0 THEN s
  ELSE IF ~HasArrived(s) THEN BlocksOnNothing(s, e.result)
  ELSE IF AvailableAppBytes(s) < e.result THEN Blocks(s, e.result)
  ELSE LET t == ConsumeAppBytes(s, e.result)
           u == [t EXCEPT !.msgArrived = AvailableAppBytes(t) > 0, !.recvFromSet = FALSE]
       IN IF VerifyMsgControlInq(u, e) THEN u ELSE Throw(u, "inq")

SyscallSplice(s, e) ==
  LET avail == AvailableAppBytes(s)
      readable == IF avail < e.count THEN avail ELSE e.count
  IN IF e.result < 0 THEN s
     ELSE IF readable = e.result THEN ConsumeAppBytes(s, e.result)
     ELSE IF readable < e.result THEN Blocks(s, e.result)
     ELSE Throw(s, "length")

\* recvfrom() takes the whole message at the head of the queue; the result of
\* its time check is lost (it returns false, which is STATUS_OK).
SyscallRecvFrom(s, e) ==
  IF ~s.msgArrived THEN BlocksOnNothing(s, e.result)
  ELSE IF s.receivedPackets = <<>> THEN Throw(s, "empty")
  ELSE IF Head(s.receivedPackets).size # e.result THEN Throw(s, "length")
  ELSE [s EXCEPT !.receivedPackets = Tail(@), !.msgArrived = FALSE, !.recvFromSet = FALSE,
                 !.consumed = @ + e.result]

--------------------------------------------------------------------------
(* poll(): one that does not match waits for the end of its window.        *)

ComputePollRevents(s, requested) ==
  LET readable == AvailableAppBytes(s) > 0 \/ s.peerClosedSeen
  IN (IF readable \/ s.connErrorSeen THEN requested \cap {"in"} ELSE {})
     \cup (requested \cap {"out"})
     \cup (IF s.peerClosedSeen THEN requested \cap {"rdhup"} ELSE {})
     \cup (IF s.connErrorSeen THEN {"err", "hup"} ELSE {})

Ready(revents) == IF revents = {} THEN 0 ELSE 1

CheckDeferredPollNow(s) ==
  IF /\ s.pollDeferred
     /\ ComputePollRevents(s, s.poll.requested) = s.poll.revents
     /\ Ready(s.poll.revents) = s.poll.count
  THEN [s EXCEPT !.pollDeferred = FALSE] ELSE s

EvaluateDeferredPoll(s) ==
  LET t == [s EXCEPT !.pollDeferred = FALSE]
      actual == ComputePollRevents(s, s.poll.requested)
  IN IF actual # s.poll.revents \/ Ready(actual) # s.poll.count THEN Throw(t, "poll") ELSE t

\* What a deferred poll remembers of the call is set by a mismatch only.
SyscallPoll(s, e) ==
  LET actual == ComputePollRevents(s, e.requested)
      differs == actual # e.revents
  IN IF ~differs /\ Ready(actual) = e.result THEN s
     ELSE [s EXCEPT !.pollDeferred = TRUE,
                    !.poll = [requested |-> IF differs THEN e.requested ELSE {},
                              revents |-> IF differs THEN e.revents ELSE {},
                              count |-> e.result, end |-> now + e.window]]
--------------------------------------------------------------------------
(* runEvent(), the gate behind it and the actions.                         *)

\* The injected FIN is recorded at once.
RunInbound(s, e) == IF e.fin THEN CheckDeferredPollNow([s EXCEPT !.peerClosedSeen = TRUE]) ELSE s

RunEvent(s, e) ==
  CASE e.kind = "in" -> RunInbound(s, e)
    [] e.kind = "out" -> RunOutbound(s, e)
    [] e.kind = "read" -> SyscallRead(s, e)
    [] e.kind = "recvmsg" -> SyscallRecvMsg(s, e)
    [] e.kind = "recvfrom" -> SyscallRecvFrom(s, e)
    [] e.kind = "splice" -> SyscallSplice(s, e)
    [] e.kind = "poll" -> SyscallPoll(s, e)
    [] e.kind = "command" -> Advance(s)
    [] e.kind = "code" -> [s EXCEPT !.codeEventPending = TRUE, !.statusRequest = "timer",
                                    !.pendingCode = e.holds]
    [] OTHER -> s

MayGoOn(s) == /\ script.protocol = "sctp" => s.socketOptionsArrived
              /\ s.recvFromSet => script.protocol = "tcp"
              /\ Settled(s)

AfterEvent(s) ==
  LET t == IF MayGoOn(s) THEN Advance(s) ELSE s
  IN IF s.error # "" THEN s ELSE IF Finished(t) /\ ~Aggregating(t) THEN Complete(t) ELSE t

Running == app.error = ""

HandleEvent ==
  LET e == Event(app.eventCounter)
  IN /\ Running /\ app.eventTimer = now
     /\ app' = AfterEvent(RunEvent([app EXCEPT !.eventTimer = Off, !.ran = @ + 1], e))
     /\ inFlight' = IF e.kind = "in" /\ e.size > 0 THEN Append(inFlight, e.size) ELSE inFlight
     /\ asked' = IF e.kind = "read" /\ AsksStack(app, e) THEN e.count
                 ELSE IF e.kind = "read" /\ AsksSctp(app, e) THEN e.result ELSE asked
     /\ UNCHANGED <<script, now, sent, sndNxt>>

\* The request goes out 1 ns after the event; the answer comes from the stack.
StatusTimer ==
  /\ Running /\ app.statusRequest = "timer"
  /\ app' = [app EXCEPT !.statusRequest = "asked"]
  /\ UNCHANGED <<script, now, inFlight, asked, sent, sndNxt>>

StatusArrives ==
  /\ Running /\ app.statusRequest = "asked" /\ app.codeEventPending
  /\ app' = AdvanceOrComplete(
              [app EXCEPT !.statusRequest = "off", !.codeEventPending = FALSE,
                          !.codeBlockBuffer = Append(@, app.pendingCode)])
  /\ UNCHANGED <<script, now, inFlight, asked, sent, sndNxt>>

PollTimer ==
  /\ Running /\ app.pollDeferred /\ app.poll.end <= now /\ app.eventTimer # now
  /\ app' = EvaluateDeferredPoll(app)
  /\ UNCHANGED <<script, now, inFlight, asked, sent, sndNxt>>

Drop(q, n) == IF Head(q) = n THEN Tail(q) ELSE <<Head(q) - n>> \o Tail(q)

\* TCP delivers part of the stream: a read that waited may have enough now.
TcpData(s, n) ==
  LET t == CheckDeferredPollNow(QueuedData(s, n))
      u == IF t.recvFromSet
           THEN ConsumeAppBytes([t EXCEPT !.recvFromSet = FALSE], t.expectedMessageSize) ELSE t
  IN IF t.recvFromSet /\ AvailableAppBytes(t) < t.expectedMessageSize THEN t
     ELSE Advance(u)

DataArrives(n) ==
  /\ Running /\ script.protocol = "tcp" /\ inFlight # <<>> /\ n \in 1 .. Head(inFlight)
  /\ script.explicitRead => n <= asked
  /\ app' = TcpData(app, n)
  /\ inFlight' = Drop(inFlight, n) /\ asked' = 0
  /\ UNCHANGED <<script, now, sent, sndNxt>>

\* What UDP and SCTP hand over is checked against the time of the event the
\* counter points to, which may not have run.
CurrentTime(s) == LET e == Event(s.eventCounter)
                  IN [type |-> e.type, time |-> s.eventTime, end |-> s.eventTime + e.slack]

UdpData(s, n) ==
  IF ~VerifyTime(CurrentTime(s), now) THEN Throw(s, "time")
  ELSE IF ~s.recvFromSet THEN Advance(QueuedData(s, n))
  ELSE LET t == [s EXCEPT !.recvFromSet = FALSE, !.msgArrived = FALSE]
       IN IF n # s.expectedMessageSize THEN Throw(t, "length")
          ELSE Advance([t EXCEPT !.consumed = @ + n])

DatagramArrives ==
  /\ Running /\ script.protocol = "udp" /\ inFlight # <<>>
  /\ app' = UdpData(app, Head(inFlight))
  /\ inFlight' = Tail(inFlight)
  /\ UNCHANGED <<script, now, asked, sent, sndNxt>>

\* SCTP announces a message and hands it over when the app asks for it.
SctpNotifies ==
  /\ Running /\ script.protocol = "sctp" /\ inFlight # <<>> /\ asked = 0
  /\ app' = [app EXCEPT !.msgArrived = TRUE, !.recvFromSet = FALSE]
  /\ asked' = IF app.recvFromSet THEN Head(inFlight) ELSE asked
  /\ app' # app \/ asked' # asked
  /\ UNCHANGED <<script, now, inFlight, sent, sndNxt>>

SctpData(s, n) ==
  IF ~VerifyTime(CurrentTime(s), now) THEN Throw(s, "time")
  ELSE IF n # s.expectedMessageSize THEN Throw(s, "length")
  ELSE Advance([s EXCEPT !.msgArrived = FALSE, !.recvFromSet = FALSE, !.consumed = @ + n])

MessageArrives ==
  /\ Running /\ script.protocol = "sctp" /\ inFlight # <<>> /\ asked > 0
  /\ app' = SctpData(app, Head(inFlight))
  /\ inFlight' = Tail(inFlight) /\ asked' = 0
  /\ UNCHANGED <<script, now, sent, sndNxt>>

OptionsArrive ==
  /\ Running /\ script.protocol = "sctp" /\ ~app.socketOptionsArrived /\ app.ran > 0
  /\ app' = Advance([app EXCEPT !.socketOptionsArrived = TRUE])
  /\ UNCHANGED <<script, now, inFlight, asked, sent, sndNxt>>

\* The stack tells the end of the stream after its bytes.
PeerCloses ==
  /\ Running /\ script.protocol = "tcp" /\ app.peerClosedSeen /\ inFlight = <<>> /\ ~app.peerFinPending
  /\ \E k \in DOMAIN script.events : script.events[k].inq # Off   \* only TCP_CM_INQ looks at it
  /\ app' = [app EXCEPT !.peerFinPending = TRUE, !.peerClosedSeen = TRUE]
  /\ UNCHANGED <<script, now, inFlight, asked, sent, sndNxt>>

SocketFails ==
  /\ Running /\ script.protocol = "tcp" /\ ~app.connErrorSeen
  /\ Uses("poll")    \* only poll() looks at it
  /\ app' = CheckDeferredPollNow([app EXCEPT !.connErrorSeen = TRUE])
  /\ UNCHANGED <<script, now, inFlight, asked, sent, sndNxt>>

\* A segment nobody expects yet is kept when an event of the simulation is due
\* within the latency, else it came at the wrong time.  With no event left at
\* all it is forgotten.
DueSoon(s) == \/ s.eventTimer # Off /\ s.eventTimer <= now + Latency
              \/ s.statusRequest = "timer"
              \/ s.pollDeferred /\ s.poll.end <= now + Latency
NoTimer(s) == s.eventTimer = Off /\ s.statusRequest # "timer" /\ ~s.pollDeferred

Unexpected(s, g) == IF DueSoon(s) THEN {Captured(s, g)}
                    ELSE {Captured(s, g), Throw(s, "time")}
                         \cup (IF NoTimer(s) THEN {s} ELSE {})

Expected(s, g) ==
  LET x == Head(s.outboundPackets)
  IN IF ~VerifyTime(x, now) THEN Throw(s, "time")
     ELSE StartOutboundComparison([s EXCEPT !.outboundPackets = Tail(@)], x, g)

TunPacket(s, g) == IF Aggregating(s) THEN {ContinueOutboundAggregation(s, g)}
                   ELSE IF s.outboundPackets = <<>> THEN Unexpected(s, g)
                   ELSE {Expected(s, g)}

\* After the script is complete segments are ignored.
SegmentSent(seq, size, fin) ==
  /\ Running /\ ~app.scriptComplete /\ script.protocol = "tcp" /\ sent < MaxSent /\ app.ran > 0
  /\ app' \in TunPacket(app, [seq |-> seq, size |-> size, fin |-> fin, number |-> sent + 1])
  /\ sent' = sent + 1 /\ sndNxt' = IF seq = sndNxt THEN seq + size ELSE sndNxt
  /\ UNCHANGED <<script, now, inFlight, asked>>

Pending == {t \in {app.eventTimer, IF app.pollDeferred THEN app.poll.end ELSE Off} : t # Off}

Tick ==
  /\ Running /\ app.statusRequest # "timer"
  /\ \A t \in Pending : t > now
  /\ Pending # {} \/ now < MaxTime
  /\ now' = now + 1
  /\ UNCHANGED <<script, app, inFlight, asked, sent, sndNxt>>

Init == /\ script \in Scripts
        /\ now = 0 /\ app = Initial
        /\ inFlight = <<>> /\ asked = 0 /\ sent = 0 /\ sndNxt = 1

Timers == HandleEvent \/ StatusTimer \/ PollTimer \/ Tick

Stack == \/ \E n \in 1 .. 3 : DataArrives(n)
         \/ DatagramArrives \/ SctpNotifies \/ MessageArrives \/ OptionsArrive
         \/ PeerCloses \/ SocketFails \/ StatusArrives
         \/ \E size \in 0 .. 2, fin \in BOOLEAN : SegmentSent(sndNxt, size, fin)
         \/ SegmentSent(1, 1, FALSE)

Next == Timers \/ Stack

Spec == Init /\ [][Next]_vars

--------------------------------------------------------------------------
(* Properties.                                                             *)

Outbounds == {k \in DOMAIN script.events : script.events[k].kind = "out"}
Codes == {k \in DOMAIN script.events : script.events[k].kind = "code"}

(* Each event runs once and in its turn: the counter moves on only when the *)
(* event it points to has run, never over one that is still scheduled      *)
(* (PacketDrillApp.cc:263-295, 590-612).                                   *)
EachEventRuns == app.ran = app.eventCounter + (IF app.eventTimer = Off THEN 1 ELSE 0)

(* What the stack sent is compared in the order it was sent: what is      *)
(* captured was sent after all that was compared, and nothing is captured  *)
(* while the script waits for a segment (PacketDrillApp.cc:448-488,        *)
(* 1015-1060).                                                             *)
Ascending(numbers) == \A i, j \in DOMAIN numbers : i < j => numbers[i] < numbers[j]
ComparedInOrder ==
  LET q == app.receivedPackets
  IN Running =>
       /\ Ascending(app.compared)
       /\ \A j \in CapturedIn(q) :
            /\ \A i \in DOMAIN app.compared : app.compared[i] < q[j].number
            /\ \A k \in CapturedIn(q) : j < k => q[j].number < q[k].number
       /\ app.outboundPackets # <<>> \/ Aggregating(app) => CapturedIn(q) = {}

(* A script that is complete met every expectation and ran every code      *)
(* block, unless it slipped past one it was waiting for                    *)
(* (PacketDrillApp.h:270-278, PacketDrillApp.cc:1274-1293).                *)
CompleteMeansMet ==
  app.scriptComplete /\ Running /\ ~app.slipped =>
    /\ app.met = Cardinality(Outbounds) /\ app.executed = Cardinality(Codes)
    /\ app.ran = Len(script.events)

(* The bytes the app was given are read or still there, whatever the sizes *)
(* of the reads and of the messages (PacketDrillApp.cc:503-552), if        *)
(* recvfrom(), which takes a message whole, is for UDP and no call of the  *)
(* script reads messages in part.                                          *)
ReadsOneWay == Uses("recvfrom") => script.protocol = "udp" /\ ~Uses("recvmsg") /\ ~Uses("splice")

InjectedBy(e) == IF e.kind = "in" THEN e.size ELSE 0
Injected(n) == Total([k \in 1 .. n |-> InjectedBy(script.events[k])], n)
StreamAccounted ==
  Running /\ ReadsOneWay =>
    Injected(app.ran) = app.consumed + AvailableAppBytes(app) + Total(inFlight, Len(inFlight))

(* The script does not stop without a reason: when no timer runs and no    *)
(* answer is on its way, it is complete or waits for a segment or a        *)
(* datagram of the stack (PacketDrillApp.cc:1252-1293).                    *)
WaitsForStack == \/ app.outboundPackets # <<>> \/ Aggregating(app)
                 \/ script.protocol # "tcp" /\ app.recvFromSet
                 \/ script.protocol = "sctp" /\ (asked > 0 \/ ~app.socketOptionsArrived)
StopsForAReason ==
  Running /\ NoTimer(app) /\ app.statusRequest = "off" => app.scriptComplete \/ WaitsForStack
=============================================================================
