------------------------------ MODULE MCTcpNsc ------------------------------
(* Small instances of TcpNsc: a listener, connections it forks and         *)
(* connections opened to one remote node.                                  *)
EXTENDS TcpRefinement

Ports1 == {7}
AllFates == {"end", "reset", "timed out"}
=============================================================================
