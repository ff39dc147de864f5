-------------------------- MODULE PacketDrillFrames --------------------------
(***************************************************************************)
(* The numbers of TCP segments in a PacketDrillApp script.  A script is    *)
(* written in a frame of its own: its literals for the sequence numbers    *)
(* and timestamps of the stack under test (the DUT) are not the live ones. *)
(* `app' holds what the app captures from live segments and from the       *)
(* script, to translate the segments it injects, to compare the segments   *)
(* that the DUT sends, and to stamp the bytes a script wants timestamps    *)
(* for.                                                                    *)
(*                                                                         *)
(* `dut' is external: the DUT and the script's peer, which agree on which  *)
(* byte is which.  All numbers are modulo 2^32 in the code, and modulo     *)
(* Modulus here.  A script compares a SYN of the DUT before it acts on it. *)
(***************************************************************************)
EXTENDS Integers, Sequences

CONSTANTS Modulus,     \* of the sequence numbers
          Frames,      \* of a connection: initial sequence numbers of the DUT, live and in
                       \* the script, and of the script's peer
          MaxWritten,  \* bound on the bytes written on a connection
          MaxSegments, \* bound on the segments the DUT sends; its clock ticks with them
          MaxConns,    \* bound on the connections of a script
          FlagSets,    \* what a script asks timestamps for: SUBSET {"SCHED", "SND", "ACK"}
          Habits       \* SUBSET of the names below

\* stragglers: a segment of the last connection shows up while bytes wait for stamps
\* sackvalues: an expectation has the wrong SACK blocks
\* bare:       an expectation has no options, the segment has
ASSUME FramesAssumption ==
  /\ Modulus \in Nat /\ \E k \in 3 .. Modulus : Modulus = 2 * k
  /\ MaxWritten \in Nat /\ MaxWritten + 1 < Modulus \div 2   \* what is in flight is less than half of them
  /\ MaxSegments \in Nat /\ MaxConns \in Nat
  /\ Frames \subseteq [live : 0 .. Modulus - 1, script : 0 .. Modulus - 1, peer : 0 .. Modulus - 1]
  /\ FlagSets \subseteq SUBSET {"SCHED", "SND", "ACK"}
  /\ Habits \subseteq {"stragglers", "sackvalues", "bare"}

VARIABLES app,
          dut,
          last     \* the last comparison or injection: what the app did, what is true

vars == <<app, dut, last>>

Add(a, b) == (a + b) % Modulus
Sub(a, b) == (a - b) % Modulus
SeqLess(a, b) == a # b /\ Sub(b, a) < Modulus \div 2
SeqGE(a, b) == Sub(a, b) < Modulus \div 2

Skew == 50  \* between the script's literals for timestamps of the DUT and its clock
Bogus == 49 \* a timestamp the DUT never sent

--------------------------------------------------------------------------
(* The segments of the DUT.                                                *)

\* Bytes from .. to - 1 of the stream, the first byte being byte 1.
Segment(syn, ack, from, to, options) ==
  [conn |-> dut.conn, syn |-> syn, ack |-> ack, len |-> to - from,
   seq |-> IF syn THEN dut.isn ELSE Add(dut.isn, from),
   ackNo |-> IF ack THEN Add(dut.peerIsn, 1 + dut.received) ELSE 0,
   options |-> options]

\* Options as a record of what each kind has in it; SACK blocks are of the
\* peer's stream.
TimestampOption == [val |-> dut.clock, ecr |-> dut.received]
SynOptions == {[mss |-> 1, ts |-> TimestampOption]}
DataOptions == {[sack |-> 2, ts |-> TimestampOption]}

\* The same segment as the script has it.
Scripted(options) == [options EXCEPT !.ts.val = @ + Skew]
InScript(seg) ==
  [seg EXCEPT !.seq = IF seg.syn THEN dut.scriptIsn ELSE Sub(@, dut.isn),
              !.ackNo = IF seg.ack /\ ~seg.syn THEN Sub(@, dut.peerIsn) ELSE @,
              !.options = Scripted(@)]

--------------------------------------------------------------------------
(* Timestamps of the bytes the script wrote.                               *)

RecordTxTimestampWrite(a, n) ==
  LET lastByteSeq == Sub(Add(a.txTsWriteSeq, n), 1)
      entry == [key |-> Sub(lastByteSeq, a.txTsOptIdBase), lastByteSeq |-> lastByteSeq]
      Pends(s, flags) == IF flags \cap a.timestampingFlags # {} THEN Append(s, entry) ELSE s
  IN [a EXCEPT !.txTsWriteSeq = Add(@, n),
               !.pendingTxSchedSnd = Pends(@, {"SCHED", "SND"}),
               !.pendingTxAck = Pends(@, {"ACK"})]

StampsOf(key, types) == [j \in 1 .. Len(types) |-> [type |-> types[j], key |-> key]]

\* The types of the stamps of a byte that is sent, and that is acknowledged.
SendTypes(flags) ==
  (IF "SCHED" \in flags THEN <<"SCHED">> ELSE <<>>) \o (IF "SND" \in flags THEN <<"SND">> ELSE <<>>)
AckTypes(flags) == IF "ACK" \in flags THEN <<"ACK">> ELSE <<>>

\* Goes over the pending entries: those whose last byte is one of `bytes' are
\* stamped, the others kept.
Sweep(queue, pending, bytes, types) ==
  LET swept[i \in 0 .. Len(pending)] ==
        IF i = 0 THEN [stamps |-> queue, kept |-> <<>>]
        ELSE IF pending[i].lastByteSeq \in bytes
             THEN [stamps |-> swept[i - 1].stamps \o StampsOf(pending[i].key, types), kept |-> swept[i - 1].kept]
             ELSE [stamps |-> swept[i - 1].stamps, kept |-> Append(swept[i - 1].kept, pending[i])]
  IN swept[Len(pending)]

\* A SYN starts the stream: its ISN is only captured when it is compared.
RelStart(a, seg) == IF seg.syn THEN 1 ELSE Sub(seg.seq, a.relSequenceOut)

\* The bytes of a segment, and those that an acknowledgement covers.
Carried(from, len) == {b \in 0 .. Modulus - 1 : SeqGE(b, from) /\ SeqLess(b, Add(from, len))}
Covered(relAck) == {b \in 0 .. Modulus - 1 : SeqGE(relAck, Add(b, 1))}

SentSweep(a, seg) ==
  Sweep(a.txTimestampQueue, a.pendingTxSchedSnd, Carried(RelStart(a, seg), seg.len), SendTypes(a.timestampingFlags))
AckedSweep(a, relAck) ==
  Sweep(a.txTimestampQueue, a.pendingTxAck, Covered(relAck), AckTypes(a.timestampingFlags))

RecordTxTimestampSendAgain(a, seg) ==   \* Mistake: the bytes stay pending
  IF seg.len = 0 THEN a ELSE [a EXCEPT !.txTimestampQueue = SentSweep(a, seg).stamps]
RecordTxTimestampSend(a, seg) ==
  IF seg.len = 0 THEN a
  ELSE [a EXCEPT !.txTimestampQueue = SentSweep(a, seg).stamps, !.pendingTxSchedSnd = SentSweep(a, seg).kept]

RecordTxTimestampAck(a, relAck) ==
  [a EXCEPT !.txTimestampQueue = AckedSweep(a, relAck).stamps, !.pendingTxAck = AckedSweep(a, relAck).kept]

--------------------------------------------------------------------------
(* A segment of the DUT arrives at the tunnel interface.                   *)

ShadowOut(a, seg) ==
  IF ~seg.syn THEN a
  ELSE IF ~seg.ack
       THEN IF seg.len > 0 THEN [a EXCEPT !.tfoShadowSynDataEndOut = Add(seg.seq, 1 + seg.len)] ELSE a
       ELSE IF a.tfoShadowSynDataEndIn # 0 /\ ~SeqLess(seg.ackNo, a.tfoShadowSynDataEndIn)
            THEN [a EXCEPT !.tfoSynDataAckedShadow = TRUE] ELSE a

\* Segments of another connection than the current one are not compared.
SocketDataArrived(a, seg) ==
  LET b == RecordTxTimestampSend(a, seg)
      c == IF "ts" \in DOMAIN seg.options THEN [b EXCEPT !.peerTS = seg.options.ts.val] ELSE b
      d == ShadowOut(c, seg)
  IN IF seg.conn # dut.conn THEN d ELSE [d EXCEPT !.receivedPackets = Append(@, seg)]

--------------------------------------------------------------------------
(* The comparison of an expectation with a segment.                        *)

\* The timestamp of the DUT is a wildcard, of SACK blocks only the number counts.
CompareOption(kind, stored, live) ==
  CASE kind = "ts" -> stored.ecr = live.ecr
    [] kind = "sack" -> TRUE
    [] OTHER -> stored = live

CompareOptions(stored, live) ==
  \/ DOMAIN stored = {}
  \/ /\ DOMAIN stored = DOMAIN live
     /\ \A kind \in DOMAIN stored : CompareOption(kind, stored[kind], live[kind])

CompareTcpHeader(a, stored, live) ==
  /\ live.seq = Sub(Add(stored.seq, a.relSequenceOut), IF stored.syn THEN a.scriptIsnOut ELSE 0)
  /\ live.ackNo = Add(stored.ackNo, IF stored.ack /\ ~stored.syn THEN a.relSequenceIn ELSE 0)
  /\ stored.syn = live.syn /\ stored.ack = live.ack
  /\ CompareOptions(stored.options, live.options)

\* Mistake: what the script calls the first byte is not remembered.
CapturedRaw(a, stored, live) == IF stored.syn THEN [a EXCEPT !.relSequenceOut = live.seq] ELSE a
Captured(a, stored, live) ==
  IF stored.syn THEN [a EXCEPT !.relSequenceOut = live.seq, !.scriptIsnOut = stored.seq] ELSE a

\* The script's timestamps are learnt while the options are compared.
Learnt(a, stored) ==
  IF "ts" \in DOMAIN stored.options
  THEN [a EXCEPT !.scriptOutTsVals = @ \cup {stored.options.ts.val}] ELSE a

--------------------------------------------------------------------------
(* The injection of a segment of the script's peer.                        *)

ShadowIn(a, seg) ==
  IF ~seg.syn THEN a
  ELSE IF ~seg.ack
       THEN IF seg.len > 0 THEN [a EXCEPT !.tfoShadowSynDataEndIn = Add(seg.seq, 1 + seg.len)] ELSE a
       ELSE IF /\ a.tfoShadowSynDataEndOut # 0
               /\ ~SeqLess(Sub(Add(seg.ackNo, a.relSequenceOut), a.scriptIsnOut), a.tfoShadowSynDataEndOut)
            THEN [a EXCEPT !.tfoSynDataAckedShadow = TRUE] ELSE a

\* An echo of a timestamp the script knows becomes one of the DUT's last.
Echo(a, ecr) ==
  IF ecr = 0 THEN 0
  ELSE IF a.scriptOutTsVals = {} \/ ecr \in a.scriptOutTsVals THEN a.peerTS ELSE ecr

Rebased(a, seg) ==
  [seg EXCEPT !.seq = IF seg.syn THEN @ ELSE Add(@, a.relSequenceIn),
              !.ackNo = Sub(Add(@, a.relSequenceOut), IF seg.syn THEN a.scriptIsnOut ELSE 0),
              !.sack = Add(@, a.relSequenceOut),
              !.ecr = Echo(a, @)]

Injecting(a, seg) ==
  LET b == IF seg.syn THEN [a EXCEPT !.relSequenceIn = seg.seq] ELSE a
      c == ShadowIn(b, seg)
  IN IF seg.ack /\ ~seg.syn THEN RecordTxTimestampAck(c, seg.ackNo) ELSE c

\* An ICMP error quotes a segment of the DUT, a number in the script's frame.
Quoted(a, seq) == Add(seq, a.relSequenceOut)

--------------------------------------------------------------------------
(* The script.                                                             *)

Running == ~app.over

\* Mistake: what is known of SYN data stays.
FreshButShadows(a) == [a EXCEPT !.txTsWriteSeq = 1, !.txTsOptIdBase = 1,
                                !.pendingTxSchedSnd = <<>>, !.pendingTxAck = <<>>, !.txTimestampQueue = <<>>,
                                !.timestampingFlags = {}, !.receivedPackets = <<>>]

\* What a socket starts with; the frames of the last connection, which was
\* open, stay.
Fresh(a) == [a EXCEPT !.tfoShadowSynDataEndOut = 0, !.tfoShadowSynDataEndIn = 0,
                      !.tfoSynDataAckedShadow = FALSE, !.txTsWriteSeq = 1, !.txTsOptIdBase = 1,
                      !.pendingTxSchedSnd = <<>>, !.pendingTxAck = <<>>, !.txTimestampQueue = <<>>,
                      !.timestampingFlags = {}, !.receivedPackets = <<>>]

Quiet == last' = [did |-> <<>>, is |-> <<>>]

SyscallSocket(role, frame) ==
  /\ Running /\ dut.conn < MaxConns /\ frame.live # dut.isn
  /\ dut.state \in {"none", "open"}
  /\ app' = Fresh(app)
  /\ dut' = [dut EXCEPT !.conn = @ + 1, !.role = role, !.oldIsn = dut.isn, !.isn = frame.live,
                        !.scriptIsn = frame.script, !.peerIsn = frame.peer, !.state = "closed", !.synSeen = FALSE,
                        !.wrote = 0, !.sent = 0, !.acked = 0, !.stampedTo = 0, !.synData = 0, !.peerSyn = 0, !.received = 0,
                        !.synAcked = FALSE, !.known = {}, !.writes = <<>>, !.base = 0, !.stamps = <<>>]
  /\ Quiet

\* Timestamps are asked for with SOF_TIMESTAMPING_OPT_ID.
SetTimestamping(flags) ==
  /\ Running /\ dut.conn > 0 /\ app.timestampingFlags = {}
  /\ app' = [app EXCEPT !.timestampingFlags = flags, !.txTsOptIdBase = app.txTsWriteSeq]
  /\ dut' = [dut EXCEPT !.base = dut.wrote]
  /\ Quiet

\* A client may write before the SYN left.
SyscallWrite(n) ==
  /\ Running
  /\ (dut.role = "client" /\ dut.state = "closed") \/ (dut.state = "open" /\ dut.synSeen)
  /\ dut.wrote + n <= MaxWritten
  /\ app' = RecordTxTimestampWrite(app, n)
  /\ dut' = [dut EXCEPT !.wrote = @ + n,
                        !.writes = IF app.timestampingFlags = {} THEN @ ELSE Append(@, dut.wrote + n)]
  /\ Quiet

\* The stamps that are due when the DUT has sent, or the peer acknowledged,
\* the bytes after `from', up to `to', for the first time.
Due(from, to, types) ==
  LET due[i \in 0 .. Len(dut.writes)] ==
        IF i = 0 THEN dut.stamps
        ELSE IF from < dut.writes[i] /\ dut.writes[i] <= to
             THEN due[i - 1] \o StampsOf(dut.writes[i] - dut.base - 1, types) ELSE due[i - 1]
  IN due[Len(dut.writes)]

\* recvmsg(MSG_ERRQUEUE) takes the oldest stamp, and compares it.
SyscallRecvErrQueue ==
  /\ Running /\ app.txTimestampQueue # <<>>
  /\ last' = [did |-> [stamp |-> Head(app.txTimestampQueue)],
              is |-> [stamp |-> IF dut.stamps = <<>> THEN <<>> ELSE Head(dut.stamps)]]
  /\ app' = [app EXCEPT !.txTimestampQueue = Tail(@)]
  /\ dut' = [dut EXCEPT !.stamps = IF @ = <<>> THEN @ ELSE Tail(@)]

Without(options, kind) == [k \in DOMAIN options \ {kind} |-> options[k]]
OtherOptions(options) ==
  {Without(options, kind) : kind \in DOMAIN options}
  \cup {[options EXCEPT !.ts.ecr = @ + 1]}
  \cup (IF "mss" \in DOMAIN options THEN {[options EXCEPT !.mss = 2]} ELSE {})
  \cup (IF "sack" \in DOMAIN options /\ "sackvalues" \in Habits THEN {[options EXCEPT !.sack = 3]} ELSE {})
  \cup (IF "bare" \in Habits THEN {<<>>} ELSE {})

\* The script compares a segment with what it expects: the same segment in
\* its own frame, or one that differs somewhere.
Variants(seg) ==
  {seg, [seg EXCEPT !.seq = Add(@, 1)], [seg EXCEPT !.ackNo = Add(@, 1)], [seg EXCEPT !.ack = ~@]}
  \cup {[seg EXCEPT !.options = o] : o \in OtherOptions(seg.options)}

\* A SYN's sequence number is what the script says it is.
Same(stored, seg) ==
  \/ stored = seg
  \/ seg.syn /\ stored = [seg EXCEPT !.seq = stored.seq]

RunOutbound ==
  /\ Running /\ app.receivedPackets # <<>>
  /\ LET live == Head(app.receivedPackets)
         seg == InScript(live)
     IN \E stored \in Variants(seg) :
          LET a == Captured([app EXCEPT !.receivedPackets = Tail(@)], stored, live)
              matches == CompareTcpHeader(a, stored, live)
          IN /\ last' = [did |-> [matches |-> matches], is |-> [matches |-> Same(stored, seg)]]
             /\ app' = [Learnt(a, stored) EXCEPT !.over = ~matches \/ stored # seg]
             /\ dut' = [dut EXCEPT !.synSeen = @ \/ live.syn,
                                   !.known = IF "ts" \in DOMAIN stored.options
                                             THEN @ \cup {stored.options.ts.val} ELSE @]

\* The script's peer sends: `seg' is what the script says, `meant' is what
\* arrives when its frame is translated.
RunInbound(seg, meant) ==
  /\ app' = Injecting(app, seg)
  /\ LET live == Rebased(app', seg)
     IN last' = [did |-> [seq |-> live.seq, ackNo |-> live.ackNo, sack |-> live.sack, ecr |-> live.ecr],
                 is |-> meant]

PeerSyn(n) ==
  /\ Running /\ dut.role = "server" /\ dut.state = "closed"
  /\ LET seg == [syn |-> TRUE, ack |-> FALSE, seq |-> dut.peerIsn, ackNo |-> 0, len |-> n, sack |-> 0, ecr |-> 0]
     IN app' = Injecting(app, seg)
  /\ dut' = [dut EXCEPT !.state = "syn", !.peerSyn = n]
  /\ Quiet

\* A SYN-ACK acknowledges the SYN, and its data or not.
PeerSynAck(k) ==
  /\ Running /\ dut.role = "client" /\ dut.state = "syn" /\ dut.synSeen
  /\ k \in {0, dut.synData}
  /\ RunInbound([syn |-> TRUE, ack |-> TRUE, seq |-> dut.peerIsn, ackNo |-> Add(dut.scriptIsn, 1 + k),
                 len |-> 0, sack |-> 0, ecr |-> 0],
                [seq |-> dut.peerIsn, ackNo |-> Add(dut.isn, 1 + k), sack |-> dut.isn, ecr |-> 0])
  /\ dut' = [dut EXCEPT !.state = "open", !.acked = k, !.synAcked = k > 0]

\* Acknowledges bytes the DUT sent, reports a byte as received out of order,
\* echoes a timestamp: one of the DUT's, or one it never sent.
PeerAck(upTo, ecr, data) ==
  /\ Running /\ dut.state = "open" /\ dut.synSeen
  /\ upTo \in dut.acked .. dut.sent
  /\ ecr \in {0} \cup (IF dut.known = {} THEN {} ELSE dut.known \cup {Bogus})
  /\ dut.received + data <= 1
  /\ RunInbound([syn |-> FALSE, ack |-> TRUE, seq |-> 1 + dut.received, ackNo |-> 1 + upTo, len |-> data,
                 sack |-> 1 + dut.sent, ecr |-> ecr],
                [seq |-> Add(dut.peerIsn, 1 + dut.received), ackNo |-> Add(dut.isn, 1 + upTo),
                 sack |-> Add(dut.isn, 1 + dut.sent),
                 ecr |-> IF ecr \in {0, Bogus} THEN ecr ELSE dut.lastTs])
  /\ dut' = [dut EXCEPT !.acked = upTo, !.stampedTo = IF upTo > @ THEN upTo ELSE @,
                        !.received = @ + data,
                        !.stamps = Due(dut.stampedTo, upTo, AckTypes(app.timestampingFlags))]

\* An ICMP error about a byte the DUT sent.
IcmpError ==
  /\ Running /\ dut.state = "open" /\ dut.synSeen /\ dut.sent > 0
  /\ last' = [did |-> [seq |-> Quoted(app, dut.sent)], is |-> [seq |-> Add(dut.isn, dut.sent)]]
  /\ UNCHANGED <<app, dut>>

--------------------------------------------------------------------------
(* The DUT.                                                                *)

Emits(seg, d) ==
  /\ Running /\ dut.clock <= MaxSegments
  /\ app' = SocketDataArrived(app, seg)
  /\ dut' = [d EXCEPT !.clock = @ + 1, !.lastTs = IF "ts" \in DOMAIN seg.options THEN dut.clock ELSE @]
  /\ Quiet

\* The first SYN may carry what was written, the SYN that is sent again none.
DutSyn(n, options) ==
  /\ dut.role = "client"
  /\ dut.state = "closed" \/ (dut.state = "syn" /\ n = 0 /\ dut.synSeen)
  /\ n \in 0 .. dut.wrote
  /\ Emits(Segment(TRUE, FALSE, 1, 1 + n, options),
           [dut EXCEPT !.state = "syn", !.sent = IF n > @ THEN n ELSE @,
                       !.synData = IF dut.state = "closed" THEN n ELSE @,
                       !.stamps = Due(dut.sent, n, SendTypes(app.timestampingFlags))])

\* A SYN-ACK acknowledges the data of the SYN if its cookie is good.
DutSynAck(good, options) ==
  /\ dut.role = "server" /\ dut.state = "syn"
  /\ LET d == [dut EXCEPT !.received = IF good THEN dut.peerSyn ELSE 0]
     IN Emits([Segment(TRUE, TRUE, 1, 1, options) EXCEPT !.ackNo = Add(dut.peerIsn, 1 + d.received)],
              [d EXCEPT !.state = "open", !.synAcked = d.received > 0])

\* New bytes, bytes that were not acknowledged, or none.
DutSegment(from, to, options) ==
  /\ dut.state = "open" /\ dut.synSeen
  /\ from \in (dut.acked + 1) .. (dut.sent + 1) /\ to \in from .. (dut.wrote + 1)
  /\ from = to => from = dut.sent + 1
  /\ Emits(Segment(FALSE, TRUE, from, to, options),
           [dut EXCEPT !.sent = IF to - 1 > @ THEN to - 1 ELSE @,
                       !.stamps = Due(dut.sent, to - 1, SendTypes(app.timestampingFlags))])

\* The last connection sends a byte again.
Straggler(options) ==
  /\ dut.conn > 1
  /\ app.pendingTxSchedSnd = <<>> \/ "stragglers" \in Habits
  /\ Emits([conn |-> dut.conn - 1, syn |-> FALSE, ack |-> TRUE, len |-> 1, seq |-> Add(dut.oldIsn, 1),
            ackNo |-> 0, options |-> options], dut)

Init ==
  /\ app = [relSequenceIn |-> 0, relSequenceOut |-> 0, scriptIsnOut |-> 0, peerTS |-> 0, scriptOutTsVals |-> {},
            tfoShadowSynDataEndOut |-> 0, tfoShadowSynDataEndIn |-> 0, tfoSynDataAckedShadow |-> FALSE,
            txTsWriteSeq |-> 1, txTsOptIdBase |-> 1, timestampingFlags |-> {}, pendingTxSchedSnd |-> <<>>,
            pendingTxAck |-> <<>>, txTimestampQueue |-> <<>>, receivedPackets |-> <<>>, over |-> FALSE]
  /\ dut = [conn |-> 0, role |-> "client", oldIsn |-> 0, isn |-> 0, scriptIsn |-> 0, peerIsn |-> 0,
            state |-> "none", synSeen |-> FALSE, wrote |-> 0, sent |-> 0, acked |-> 0, stampedTo |-> 0,
            synData |-> 0, peerSyn |-> 0, received |-> 0, synAcked |-> FALSE, known |-> {},
            clock |-> 1, lastTs |-> 0, writes |-> <<>>, base |-> 0, stamps |-> <<>>]
  /\ last = [did |-> <<>>, is |-> <<>>]

Script ==
  \/ \E role \in {"client", "server"}, frame \in Frames : SyscallSocket(role, frame)
  \/ \E flags \in FlagSets : SetTimestamping(flags)
  \/ \E n \in 1 .. 2 : SyscallWrite(n)
  \/ SyscallRecvErrQueue
  \/ RunOutbound
  \/ \E n \in 0 .. 1 : PeerSyn(n)
  \/ \E k \in 0 .. MaxWritten : PeerSynAck(k)
  \/ \E upTo \in 0 .. MaxWritten, ecr \in {0} \cup dut.known \cup {Bogus}, data \in 0 .. 1 : PeerAck(upTo, ecr, data)
  \/ IcmpError

Stack ==
  \/ \E options \in SynOptions, n \in 0 .. MaxWritten : DutSyn(n, options)
  \/ \E options \in SynOptions, good \in BOOLEAN : DutSynAck(good, options)
  \/ \E options \in DataOptions :
       \/ \E from, to \in 1 .. MaxWritten + 1 : DutSegment(from, to, options)
       \/ Straggler(options)

Next == Script \/ Stack

Spec == Init /\ [][Next]_vars

--------------------------------------------------------------------------
(* What the translation promises.                                          *)

\* An expectation matches if, and only if, it is the live segment as the
\* script has it; an injected segment is about the bytes and timestamps the
\* script means; a stamp read from the error queue is the next that was due.
\* This holds for any initial sequence numbers, wherever they wrap, and on
\* every connection of a script.
FramesAgree == last.did = last.is

\* The stamps that wait in the error queue are those that were due, in the
\* order of the sends and acknowledgements: none is lost, taken twice for a
\* byte that is sent again, or taken for a byte that is not out.
StampsDue == Running => app.txTimestampQueue = dut.stamps

\* tcpi_options says that SYN data were acknowledged when they were.
SynDataKnown == Running => app.tfoSynDataAckedShadow = dut.synAcked
==============================================================================
