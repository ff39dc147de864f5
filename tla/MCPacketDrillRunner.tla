------------------------ MODULE MCPacketDrillRunner ------------------------
(* Scripts for PacketDrillRunner. *)
EXTENDS PacketDrillRunner

Plain == [kind |-> "call", wait |-> 0, slack |-> 0, type |-> "relative", size |-> 0, fin |-> FALSE,
          seq |-> 0, count |-> 0, result |-> 0, inq |-> Off, requested |-> {}, revents |-> {}, window |-> 0, holds |-> TRUE]

In(n, f) == [Plain EXCEPT !.kind = "in", !.size = n, !.fin = f]
Out(q, n, f) == [Plain EXCEPT !.kind = "out", !.seq = q, !.size = n, !.fin = f]
Within(e, type, wait, slack) == [e EXCEPT !.type = type, !.wait = wait, !.slack = slack]
Reads(kind, count, result) == [Plain EXCEPT !.kind = kind, !.count = count, !.result = result]
Asserts(e, inq) == [e EXCEPT !.inq = inq]
Polls(requested, revents, result, window) ==
  [Plain EXCEPT !.kind = "poll", !.requested = requested, !.revents = revents, !.result = result, !.window = window]
Code(holds) == [Plain EXCEPT !.kind = "code", !.holds = holds]
Command == [Plain EXCEPT !.kind = "command"]

TcpEvents == {In(2, FALSE), In(0, TRUE), Out(1, 0, FALSE), Out(1, 2, FALSE), Within(Out(1, 2, TRUE), "range", 0, 1),
              Reads("read", 2, 1), Reads("recvmsg", 2, 2), Polls({"in"}, {"in"}, 1, 1), Code(TRUE)}

Runs(protocol, explicit, events) == [protocol |-> protocol, explicitRead |-> explicit, events |-> events]

TcpScripts ==
  {Runs("tcp", FALSE, <<a, b>>) : a, b \in TcpEvents}
  \cup {Runs("tcp", FALSE, <<In(2, FALSE)>> \o s) : s \in
     {<<Out(1, 2, FALSE), Reads("recvmsg", 2, 2)>>, <<Out(1, 2, FALSE), Code(TRUE)>>,
      <<Polls({"in"}, {"in"}, 1, 1), Reads("read", 2, 2)>>, <<Code(TRUE), Code(TRUE)>>,
      <<Reads("read", 1, 1), Out(1, 0, TRUE)>>, <<Out(1, 2, TRUE), Out(1, 1, FALSE)>>}}
  \cup {Runs("tcp", FALSE, s) : s \in
     {<<In(2, FALSE), Reads("read", 1, 1), In(1, FALSE), Reads("splice", 3, 2)>>,
      <<In(2, TRUE), Asserts(Reads("recvmsg", 2, 1), 2), Reads("recvmsg", 2, 1)>>,
      <<In(3, FALSE), Reads("read", 1, 1), Reads("read", 1, 1)>>,
      <<Command, Within(Out(1, 2, FALSE), "any", 1, 0), Code(FALSE), Command>>,
      <<In(1, FALSE), Out(1, 1, FALSE), Out(2, 1, TRUE), Code(TRUE)>>}}
  \cup {Runs("tcp", TRUE, s) : s \in
     {<<In(2, FALSE), Reads("read", 1, 1), Reads("read", 2, 1)>>,
      <<Reads("read", 2, 2), In(1, FALSE), In(1, FALSE)>>}}

OtherScripts ==
  {Runs(p, FALSE, s) : p \in {"udp", "sctp"}, s \in
     {<<Plain, In(2, FALSE), Reads("read", 2, 2)>>,
      <<Plain, In(1, FALSE), In(2, FALSE), Reads("recvfrom", 2, 1)>>,
      <<Plain, In(1, FALSE), Within(Reads("recvfrom", 1, 1), "relative", 1, 0), Plain>>,
      <<Plain, Reads("read", 1, 1), In(1, FALSE)>>,
      <<Plain, In(3, FALSE), Reads("recvmsg", 2, 1), Reads("recvmsg", 2, 2)>>}}

AllScripts == TcpScripts \cup OtherScripts
=============================================================================
