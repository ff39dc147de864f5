--------------------------- MODULE MCHlsFairness ---------------------------
(* The tree of three leaves of MCHls; leaves 3 and 4 are siblings.         *)
EXTENDS HlsFairness, MCHls

ASSUME Siblings
============================================================================
