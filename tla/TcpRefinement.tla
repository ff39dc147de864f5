--------------------------- MODULE TcpRefinement ----------------------------
(***************************************************************************)
(* TcpNsc implements TcpService: the phase of a connection is read from    *)
(* its flags, everything of addresses and of the stack is forgotten.       *)
(***************************************************************************)
EXTENDS TcpNsc

PhaseOf(c) ==
  IF c \notin Known THEN "none"
  ELSE IF listener[c] THEN "listening"
  ELSE IF forkedFrom[c] # None THEN "offered"
  ELSE IF established[c] THEN "open" ELSE "opening"

Service == INSTANCE TcpService WITH
  phase <- [c \in Conns |-> PhaseOf(c)], closing <- onClose, closed <- disconnected

\* The applications see the service whatever the stack does: see TcpService.
ImplementsService == Service!Spec
=============================================================================
