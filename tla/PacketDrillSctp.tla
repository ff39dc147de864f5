--------------------------- MODULE PacketDrillSctp ---------------------------
(***************************************************************************)
(* SCTP chunks in a PacketDrillApp script: how a chunk of the script is    *)
(* built, how an expected one is compared with a live one, and what is     *)
(* rewritten in one that is injected.  As with TCP, the numbers of the     *)
(* stack under test (the DUT) are not those of the script: its tag, its    *)
(* TSNs and its numbers of RE-CONFIG requests are captured from live       *)
(* chunks.  The script's peer uses the script's numbers as they are.       *)
(*                                                                         *)
(* `dut' is external: the association as the DUT and the peer have it.     *)
(* A chunk is a record of its type and its fields; a field of a chunk of   *)
(* the script can be a wildcard.  Numbers are modulo Modulus.              *)
(***************************************************************************)
EXTENDS Integers, Sequences

CONSTANTS Modulus,   \* of the TSNs
          LiveTsns,  \* initial TSNs of the DUT
          ScriptTsns,\* the script's literals for them
          MaxData,   \* bound on the DATA chunks of the DUT
          MaxRequests, \* bound on the RE-CONFIG requests of the DUT
          Habits     \* SUBSET of the names below

\* anyflags:  the flags of an expected ABORT or SHUTDOWN_COMPLETE are a wildcard
\* late:      the DUT's INIT or INIT_ACK is there before the script expects it
\* again:     COOKIE_ECHO is injected twice
\* shutdown:  the cumulative TSN of an injected SHUTDOWN is meant for the DUT's
\* heartbeat: HEARTBEAT_ACK is to give the time of the DUT's HEARTBEAT back
\* ubit:      an expected DATA chunk has the wrong U bit
\* answers:   an expected request answers another request than the live one
\* collide:   the peer numbers its requests like the script those of the DUT
ASSUME SctpAssumption ==
  Habits \subseteq {"anyflags", "late", "again", "shutdown", "heartbeat", "ubit", "answers", "collide"}

VARIABLES app,
          dut,
          last   \* the last comparison or injection: what the app did, what is true

vars == <<app, dut, last>>

Add(a, b) == (a + b) % Modulus
Sub(a, b) == (a - b) % Modulus

PeerTag == 3   \* the numbers of the script's peer
PeerTsn == 5
DutTag == 2
ScriptTag == 1
FirstRequest == 3  \* the DUT's first request, and what the script calls it
ScriptRequest == 10
PeerRequest == IF "collide" \in Habits THEN ScriptRequest + 1 ELSE ScriptRequest + MaxRequests

\* The TSNs of the DUT may wrap round.  Those that a script expects or injects,
\* wrong ones included, do not come to 0, which stands for a TSN left out.
ASSUME NumberAssumption ==
  /\ Modulus \in Nat /\ PeerTsn + 2 < Modulus
  /\ MaxData \in Nat /\ MaxRequests \in Nat
  /\ LiveTsns \subseteq 0 .. Modulus - 1
  /\ \A tsn \in ScriptTsns : tsn \in Nat /\ tsn + MaxData + 1 < Modulus

--------------------------------------------------------------------------
(* Chunks of the script.                                                   *)

Chunk(type, fields) == [type |-> type, fields |-> fields]

\* The fields that may be wildcards.  A REQUEST resets outgoing streams; a
\* PLAIN request asks for something else and has only a number.
DataWildcards == {"tsn", "ssn", "ubit"}
InitWildcards == {"tag", "tsn", "os", "is"}
InitAckWildcards == {"tag", "tsn", "os", "is"}
SackWildcards == {"cum", "gaps", "dups"}
ShutdownWildcards == {"cum"}
FlagWildcards == {"tbit"}   \* of ABORT and SHUTDOWN_COMPLETE
OutgoingRequestWildcards == {"number", "answers", "last"}
PlainRequestWildcards == {}
ResponseWildcards == {"sender", "receiver"}

Wildcards(type) ==
  CASE type = "DATA" -> DataWildcards
    [] type = "INIT" -> InitWildcards
    [] type = "INIT_ACK" -> InitAckWildcards
    [] type = "SACK" -> SackWildcards
    [] type = "SHUTDOWN" -> ShutdownWildcards
    [] type \in {"ABORT", "SHUTDOWN_COMPLETE"} -> FlagWildcards
    [] type = "REQUEST" -> OutgoingRequestWildcards
    [] type = "PLAIN" -> PlainRequestWildcards
    [] type = "RESPONSE" -> ResponseWildcards
    [] OTHER -> {}

\* Wildcards (`any') are remembered in the flags of the chunk, but those of
\* ABORT and SHUTDOWN_COMPLETE are put where nobody looks for them.
Zero(f) == IF f \in {"gaps", "dups"} THEN {} ELSE 0

Build(chunk, any) ==
  [type |-> chunk.type, noCheck |-> IF chunk.type \in {"ABORT", "SHUTDOWN_COMPLETE"} THEN {} ELSE any,
   fields |-> [f \in DOMAIN chunk.fields |-> IF f \in any THEN Zero(f) ELSE chunk.fields[f]]]

\* A chunk to inject may have no wildcards, but nobody looks at RE-CONFIG:
\* what is left open there is sent as 0.
Injectable(chunk) ==
  chunk.noCheck \cap (CASE chunk.type = "INIT" -> InitWildcards \ {"tsn"}
                        [] chunk.type = "INIT_ACK" -> InitAckWildcards \ {"tsn"}
                        [] chunk.type \in {"REQUEST", "PLAIN", "RESPONSE"} -> {}
                        [] OTHER -> Wildcards(chunk.type)) = {}

\* The time was put into a HEARTBEAT_ACK when the script was read.
HeartbeatAckTime == 0

\* When the script is read, the numbers it gives to the DUT's requests, and 0
\* for a wildcard, are noted as not known yet.
Registered == [n \in {0} \cup {ScriptRequest + k : k \in 0 .. MaxRequests - 1} |-> 0]

--------------------------------------------------------------------------
(* The comparison with a live chunk.                                       *)

\* Fields with TSNs of the DUT.
Shifted(type) ==
  CASE type \in {"INIT", "INIT_ACK", "DATA"} -> {"tsn"}
    [] type = "REQUEST" -> {"last"}
    [] type = "RESPONSE" -> {"sender"}
    [] OTHER -> {}
\* No response without the TSN of the sender has its TSNs compared.
Unchecked(stored) ==
  CASE stored.type \in {"INIT", "INIT_ACK"} -> {"tag"}
    [] stored.type = "DATA" -> {"ubit"}
    [] stored.type \in {"REQUEST", "PLAIN"} -> {"number", "answers"}
    [] stored.type = "RESPONSE" /\ stored.fields.sender = 0 -> {"sender", "receiver"}
    [] OTHER -> {}

Lower(a, b) == IF a < b THEN a ELSE b

\* The peer's outbound and inbound streams, as its INIT has them.
Streams(fields) == [os |-> fields.os, is |-> fields.is]

\* Gaps are relative to the cumulative TSN of the live chunk.
Gaps(stored, live) == {Add(g, live.fields.cum) : g \in stored.fields.gaps}

Expected(a, stored, live, f) ==
  IF f \in Shifted(stored.type) THEN Add(stored.fields[f], a.localDiffTsn)
  ELSE IF stored.type = "INIT_ACK" /\ f = "os" THEN Lower(stored.fields[f], a.peerStreams.is)
  ELSE IF stored.type = "INIT_ACK" /\ f = "is" THEN Lower(stored.fields[f], a.peerStreams.os)
  ELSE IF f = "gaps" THEN Gaps(stored, live)
  ELSE stored.fields[f]

FieldsAgree(a, stored, live) ==
  \A f \in DOMAIN stored.fields \ (stored.noCheck \cup Unchecked(stored)) :
    Expected(a, stored, live, f) = live.fields[f]

\* The first time the script has a number for a request it is taken for the
\* live number; 0 stands for none.
Mapped(a, number) == IF number \in DOMAIN a.seqNumMap THEN a.seqNumMap[number] ELSE 0
RequestAgrees(a, stored, live) ==
  \/ stored.type \notin {"REQUEST", "PLAIN"} \/ "number" \in stored.noCheck
  \/ Mapped(a, stored.fields.number) \in {0, live.fields.number}

MapsAlways(a, number, live) ==   \* Mistake: every request of the DUT gets a number anew
  [a EXCEPT !.seqNumMap = [n \in DOMAIN @ \cup {number} |-> live]]
Maps(a, number, live) ==
  IF Mapped(a, number) # 0 THEN a
  ELSE [a EXCEPT !.seqNumMap = [n \in DOMAIN @ \cup {number} |-> IF n = number THEN live ELSE @[n]]]

\* A reset of outgoing streams answers a request of the peer: that number is
\* mapped as well.
MapRequest(a, stored, live) ==
  LET numbered == Maps(a, stored.fields.number, live.fields.number)
  IN CASE stored.type = "REQUEST" -> Maps(numbered, stored.fields.answers, live.fields.answers)
       [] stored.type = "PLAIN" -> numbered
       [] OTHER -> a

TagAgrees(a, live) == live.type \in {"INIT", "INIT_ACK", "ABORT"} \/ live.vtag = a.localVTag

CompareSctpPacket(a, stored, live) ==
  /\ stored.type = live.type
  /\ TagAgrees(a, live)
  /\ RequestAgrees(a, stored, live)
  /\ FieldsAgree(a, stored, live)

\* What is captured of the live chunk before it is compared.
LearntSigned(a, live) ==   \* Mistake: the difference is taken the other way round
  IF live.type \notin {"INIT", "INIT_ACK"} THEN a
  ELSE [a EXCEPT !.peerVTag = live.fields.tag, !.localDiffTsn = Sub(a.initLocalTsn, live.fields.tsn),
                 !.peerCookie = IF live.type = "INIT_ACK" THEN "cookie" ELSE @,
                 !.peerStreams = IF live.type = "INIT" THEN Streams(live.fields) ELSE @]
Learnt(a, live) ==
  IF live.type \notin {"INIT", "INIT_ACK"} THEN a
  ELSE [a EXCEPT !.peerVTag = live.fields.tag, !.localDiffTsn = Sub(live.fields.tsn, a.initLocalTsn),
                 !.peerCookie = IF live.type = "INIT_ACK" THEN "cookie" ELSE @,
                 !.peerStreams = IF live.type = "INIT" THEN Streams(live.fields) ELSE @]

\* An INIT or INIT_ACK that the script expects before it arrives tells the
\* script's numbers.
Awaited(a, stored) ==
  IF stored.type \in {"INIT", "INIT_ACK"}
  THEN [a EXCEPT !.initLocalTsn = stored.fields.tsn, !.peerVTag = stored.fields.tag] ELSE a

HeartbeatSeen(a, live) == IF live.type = "HEARTBEAT" THEN [a EXCEPT !.peerHeartbeatTime = live.fields.time] ELSE a

--------------------------------------------------------------------------
(* The injection.                                                          *)

RewrittenSack(a, chunk) ==
  [chunk EXCEPT !.fields.cum = Add(@, a.localDiffTsn),
                !.fields.gaps = {Add(g, Add(chunk.fields.cum, a.localDiffTsn)) : g \in @},
                !.fields.dups = {Add(d, a.localDiffTsn) : d \in @}]

Rewritten(a, chunk) ==
  CASE chunk.type = "SACK" -> RewrittenSack(a, chunk)
    [] chunk.type = "RESPONSE" ->
         [chunk EXCEPT !.fields.number = Mapped(a, @),
                       !.fields.receiver = IF @ = 0 THEN 0 ELSE Add(@, a.localDiffTsn)]
    [] chunk.type = "REQUEST" ->
         [chunk EXCEPT !.fields.answers = IF @ \in DOMAIN a.seqNumMap THEN a.seqNumMap[@] ELSE @]
    [] chunk.type = "COOKIE_ECHO" -> [chunk EXCEPT !.fields.cookie = a.peerCookie]
    [] OTHER -> chunk

\* The cookie is handed over: the next COOKIE_ECHO has none.
Injecting(a, chunk) ==
  CASE chunk.type = "INIT" -> [a EXCEPT !.localVTag = chunk.fields.tag, !.peerStreams = Streams(chunk.fields)]
    [] chunk.type = "INIT_ACK" -> [a EXCEPT !.localVTag = chunk.fields.tag]
    [] chunk.type = "COOKIE_ECHO" ->
         [a EXCEPT !.peerCookie = "none", !.error = IF a.peerCookie = "none" THEN "null cookie" ELSE @]
    [] OTHER -> a

--------------------------------------------------------------------------
(* What the DUT sends, live and as the script has it.                      *)

NextTsn == Add(dut.tsn, dut.sent)
PeerCum == PeerTsn - 1 + dut.peerData

LiveFields(type, k) ==
  CASE type \in {"INIT", "INIT_ACK"} ->
         [tag |-> DutTag, tsn |-> dut.tsn,
          os |-> IF type = "INIT" THEN 2 ELSE Lower(2, dut.peerStreams.is),
          is |-> IF type = "INIT" THEN 2 ELSE Lower(2, dut.peerStreams.os)]
    [] type = "DATA" -> [tsn |-> NextTsn, ssn |-> dut.sent, ubit |-> 0]
    [] type \in {"SACK", "SHUTDOWN"} ->
         IF type = "SACK" THEN [cum |-> PeerCum, gaps |-> {PeerCum + 2}, dups |-> {PeerTsn}] ELSE [cum |-> PeerCum]
    [] type = "REQUEST" -> [number |-> FirstRequest + k, answers |-> dut.peerRequest, last |-> Sub(NextTsn, 1)]
    [] type = "PLAIN" -> [number |-> FirstRequest + k]
    [] type = "RESPONSE" -> [number |-> dut.peerRequest, sender |-> NextTsn, receiver |-> PeerCum + 1]
    [] type = "HEARTBEAT" -> [time |-> 1]
    [] type \in {"ABORT", "SHUTDOWN_COMPLETE"} -> [tbit |-> k]
    [] OTHER -> [none |-> 0]

ScriptFields(type, live) ==
  LET Own(tsn) == Add(Sub(tsn, dut.tsn), dut.scriptTsn)
  IN CASE type \in {"INIT", "INIT_ACK"} -> [tag |-> ScriptTag, tsn |-> dut.scriptTsn, os |-> 2, is |-> 2]
       [] type = "DATA" -> [live EXCEPT !.tsn = Own(@)]
       [] type = "SACK" -> [live EXCEPT !.gaps = {Sub(g, live.cum) : g \in @}]
       [] type = "REQUEST" -> [live EXCEPT !.number = @ - FirstRequest + ScriptRequest, !.last = Own(@)]
       [] type = "PLAIN" -> [live EXCEPT !.number = @ - FirstRequest + ScriptRequest]
       [] type = "RESPONSE" -> [live EXCEPT !.sender = Own(@)]
       [] OTHER -> live

\* A script may get one field wrong, but not one that it defines itself or
\* that no comparison looks at.
Wrong(f, value) == CASE f \in {"gaps", "dups"} -> {} [] f \in {"os", "is"} -> 0 [] OTHER -> Add(value, 1)
Defined(type) ==
  CASE type \in {"INIT", "INIT_ACK"} -> {"tag", "tsn"}
    [] type = "DATA" -> IF "ubit" \in Habits THEN {} ELSE {"ubit"}
    [] type = "PLAIN" -> {"number"}
    [] type = "REQUEST" -> {"number"} \cup (IF "answers" \in Habits THEN {} ELSE {"answers"})
    [] type \in {"HEARTBEAT", "COOKIE_ECHO", "COOKIE_ACK", "SHUTDOWN_ACK"} -> {"time", "none"}
    [] OTHER -> {}

\* A number that was given to an earlier request is wrong.
Misnumbered(type, k) ==
  IF type \in {"REQUEST", "PLAIN"} THEN {ScriptRequest + j : j \in dut.numbered \ {k}} ELSE {}

\* Wildcards that a script uses: it has numbers of its own for the DUT's tag,
\* its initial TSN and the requests that it answers.
LeftOpen(type) ==
  IF type \in {"ABORT", "SHUTDOWN_COMPLETE"} /\ "anyflags" \notin Habits THEN {}
  ELSE Wildcards(type) \ (IF type \in {"INIT", "INIT_ACK"} THEN {"tag", "tsn"} ELSE {"answers"})

\* Pairs of what the script expects and whether that should match.
Expectations(type, k, right) ==
  LET mine == ScriptFields(type, right)
      Chunked(fields, any) == Build(Chunk(type, fields), any)
  IN {<<Chunked(mine, any), TRUE>> : any \in {{}} \cup {{f} : f \in DOMAIN mine \cap LeftOpen(type)}}
     \cup {<<Chunked([mine EXCEPT ![f] = Wrong(f, @)], {}), FALSE>> : f \in DOMAIN mine \ Defined(type)}
     \cup {<<Chunked([mine EXCEPT !.number = n], {}), FALSE>> : n \in Misnumbered(type, k)}

--------------------------------------------------------------------------
(* The script.                                                             *)

Running == app.error = "" /\ ~app.over

\* The DUT sends a chunk that the script expects, with the tag of the
\* association or another.
RunOutbound(type, k, d) ==
  \E queued \in IF "late" \in Habits THEN BOOLEAN ELSE {TRUE}, vtag \in {dut.peerTag, 0} :
    LET live == [type |-> type, vtag |-> vtag, fields |-> LiveFields(type, k)]
        tagged == type \in {"INIT", "INIT_ACK", "ABORT"} \/ vtag = dut.peerTag
    IN \E e \in Expectations(type, k, live.fields) :
         LET a == Learnt(IF queued THEN Awaited(app, e[1]) ELSE app, live)
             matches == CompareSctpPacket(a, e[1], live)
         IN /\ last' = [did |-> [matches |-> matches], is |-> [matches |-> e[2] /\ tagged]]
            /\ app' = [HeartbeatSeen(MapRequest(a, e[1], live), live) EXCEPT !.over = ~matches \/ ~e[2]]
            /\ dut' = [d EXCEPT !.numbered = IF type \in {"REQUEST", "PLAIN"} /\ "number" \notin e[1].noCheck
                                             THEN @ \cup {k} ELSE @]

\* The peer sends a chunk: `fields' as the script has them, `meant' what
\* arrives when they are translated; one may be left open.
RunInbound(type, fields, meant, d) ==
  \E any \in {{}} \cup {{f} : f \in (DOMAIN fields \cap LeftOpen(type)) \ {"number"}} :
    LET chunk == Build(Chunk(type, fields), any)
    IN /\ Injectable(chunk)
       /\ last' = [did |-> [fields |-> Rewritten(app, chunk).fields, vtag |-> app.peerVTag],
                   is |-> [fields |-> Build(Chunk(type, meant), any).fields,
                           vtag |-> IF type = "INIT" THEN app.peerVTag ELSE DutTag]]
       /\ app' = Injecting(app, chunk)
       /\ dut' = d

To(state) == [dut EXCEPT !.state = state]
In(state) == Running /\ dut.state = state

Setup ==
  \/ In("closed") /\ dut.role = "client" /\ RunOutbound("INIT", 0, To("wait"))
  \/ /\ In("wait")
     /\ LET f == [tag |-> PeerTag, tsn |-> PeerTsn, os |-> 2, is |-> 2]
        IN RunInbound("INIT_ACK", f, f, [To("answered") EXCEPT !.peerTag = PeerTag])
  \/ In("answered") /\ RunOutbound("COOKIE_ECHO", 0, To("echoed"))
  \/ In("echoed") /\ RunInbound("COOKIE_ACK", [none |-> 0], [none |-> 0], To("open"))
  \/ /\ In("closed") /\ dut.role = "server"
     /\ \E streams \in [os : {1, 2}, is : {1, 2}] :
          LET f == [tag |-> PeerTag, tsn |-> PeerTsn, os |-> streams.os, is |-> streams.is]
          IN RunInbound("INIT", f, f, [To("init") EXCEPT !.peerTag = PeerTag, !.peerStreams = streams])
  \/ In("init") /\ RunOutbound("INIT_ACK", 0, To("cookie"))
  \/ /\ In("cookie") \/ (In("acking") /\ "again" \in Habits)
     /\ RunInbound("COOKIE_ECHO", [cookie |-> "script"], [cookie |-> "cookie"], To("acking"))
  \/ In("acking") /\ RunOutbound("COOKIE_ACK", 0, To("open"))

Transfer ==
  \/ In("open") /\ dut.sent < MaxData /\ RunOutbound("DATA", 0, [dut EXCEPT !.sent = @ + 1])
  \/ In("open") /\ dut.peerData > 0 /\ RunOutbound("SACK", 0, dut)
  \/ In("open") /\ RunOutbound("HEARTBEAT", 0, [dut EXCEPT !.heartbeat = 1])
  \/ /\ In("open") /\ dut.heartbeat > 0
     /\ RunInbound("HEARTBEAT_ACK", [time |-> HeartbeatAckTime],
                   [time |-> IF "heartbeat" \in Habits THEN dut.heartbeat ELSE 0], dut)
  \/ /\ In("open") /\ dut.peerData < 1
     /\ LET f == [tsn |-> PeerTsn, ssn |-> 0, ubit |-> 0]
        IN RunInbound("DATA", f, f, [dut EXCEPT !.peerData = 1])
  \/ /\ In("open") /\ dut.sent > 0
     /\ LET Cum(first) == Add(first, dut.sent - 1)
        IN RunInbound("SACK", [cum |-> Cum(dut.scriptTsn), gaps |-> {2}, dups |-> {dut.scriptTsn}],
                      [cum |-> Cum(dut.tsn), gaps |-> {Add(Cum(dut.tsn), 2)}, dups |-> {dut.tsn}], dut)

Kind(k) == IF k % 2 = 0 THEN "REQUEST" ELSE "PLAIN"

\* Requests to reset streams, of both sides; a request may be sent again.
\* The peer only answers requests that the script knows by their number.
Reconfigure ==
  \/ /\ In("open")
     /\ \E k \in 0 .. dut.requests :
          k < MaxRequests /\ RunOutbound(Kind(k), k, [dut EXCEPT !.requests = IF k = @ THEN k + 1 ELSE @])
  \/ /\ In("open") /\ dut.sent > 0
     /\ \E k \in dut.numbered :
          RunInbound("RESPONSE", [number |-> ScriptRequest + k, sender |-> PeerTsn, receiver |-> Add(dut.scriptTsn, dut.sent)],
                     [number |-> FirstRequest + k, sender |-> PeerTsn, receiver |-> NextTsn], dut)
  \/ /\ In("open")
     /\ \E k \in dut.numbered :
          RunInbound("REQUEST", [number |-> PeerRequest, answers |-> ScriptRequest + k, last |-> PeerTsn],
                     [number |-> PeerRequest, answers |-> FirstRequest + k, last |-> PeerTsn],
                     [dut EXCEPT !.peerRequest = PeerRequest])
  \/ In("open") /\ dut.peerRequest > 0 /\ dut.sent > 0 /\ RunOutbound("RESPONSE", 0, dut)

Shutdown ==
  \/ In("open") /\ RunOutbound("SHUTDOWN", 0, To("shutdown"))
  \/ In("shutdown") /\ RunInbound("SHUTDOWN_ACK", [none |-> 0], [none |-> 0], To("complete"))
  \/ In("complete") /\ \E k \in {0, 1} : RunOutbound("SHUTDOWN_COMPLETE", k, To("gone"))
  \/ In("open") /\ \E k \in {0, 1} : RunOutbound("ABORT", k, To("gone"))
  \/ /\ In("open") /\ dut.sent > 0
     /\ LET cum == Add(dut.scriptTsn, dut.sent - 1)
        IN RunInbound("SHUTDOWN", [cum |-> cum],
                      [cum |-> IF "shutdown" \in Habits THEN Sub(NextTsn, 1) ELSE cum], To("acked"))
  \/ In("acked") /\ RunOutbound("SHUTDOWN_ACK", 0, To("gone"))

\* The script is at its end: an ABORT cleans the association up.
CloseAllSockets ==
  /\ Running /\ dut.state \notin {"closed", "init"}
  /\ last' = [did |-> [vtag |-> app.peerVTag], is |-> [vtag |-> DutTag]]
  /\ app' = [app EXCEPT !.over = TRUE]
  /\ UNCHANGED dut

Init ==
  /\ app = [localVTag |-> 0, peerVTag |-> 0, localDiffTsn |-> 0, initLocalTsn |-> 0, peerStreams |-> [os |-> 0, is |-> 0],
            peerCookie |-> "none", seqNumMap |-> Registered, peerHeartbeatTime |-> 0, error |-> "", over |-> FALSE]
  /\ \E role \in {"client", "server"}, tsn \in LiveTsns, scriptTsn \in ScriptTsns :
       dut = [role |-> role, tsn |-> tsn, scriptTsn |-> scriptTsn, state |-> "closed", peerTag |-> 0,
              peerStreams |-> [os |-> 2, is |-> 2], sent |-> 0, peerData |-> 0, heartbeat |-> 0, requests |-> 0, numbered |-> {},
              peerRequest |-> 0]
  /\ last = [did |-> <<>>, is |-> <<>>]

Next == Setup \/ Transfer \/ Reconfigure \/ Shutdown \/ CloseAllSockets

Spec == Init /\ [][Next]_vars

--------------------------------------------------------------------------
(* What the translation promises.                                          *)

\* An expectation matches if, and only if, the live chunk is what it says,
\* up to its wildcards, and carries the tag of the association; an injected
\* chunk is about the TSNs and requests of the DUT that the script means,
\* and carries the DUT's tag.
ChunksAgree == last.did = last.is

\* Requests of the DUT that the script told apart stay apart, whatever is
\* sent again, and answered by requests of the peer.
RequestsApart ==
  \A j, k \in dut.numbered : Mapped(app, ScriptRequest + j) = Mapped(app, ScriptRequest + k) => j = k
==============================================================================
