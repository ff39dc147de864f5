------------------------ MODULE MCPacketDrillFrames ------------------------
(* Small instances of PacketDrillFrames.                                   *)
EXTENDS PacketDrillFrames

\* Live numbers that wrap with the first byte, the script's 0 or absolute.
TwoFrames == {[live |-> 15, script |-> 0, peer |-> 5], [live |-> 4, script |-> 9, peer |-> 15]}
=============================================================================
