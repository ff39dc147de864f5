----------------------------- MODULE TcpService -----------------------------
(***************************************************************************)
(* What a transport layer promises to its applications, connection by      *)
(* connection, with no stack, no segments and no addresses: a connection   *)
(* is established before anything of it is delivered, one that a listener  *)
(* forked says nothing until it is accepted, the bytes given are taken in  *)
(* order without loss, and CLOSED comes once, after the application has    *)
(* closed and all it gave is on its way.                                   *)
(***************************************************************************)
EXTENDS Integers

CONSTANTS Conns

VARIABLES
  phase,   \* "none", "opening", "listening", "offered" or "open"
  given,   \* the bytes the application gave, less those it aborted
  taken,   \* those of them that the stack has taken
  got,     \* the bytes delivered to the application
  told,    \* what it was told of the other end
  closing, \* the application has closed
  closed   \* CLOSED was indicated

vars == <<phase, given, taken, got, told, closing, closed>>

\* A step of connection c alone, by which a number does not fall.
Rises(c, f, g) == f[c] <= g[c] /\ \A d \in Conns \ {c} : f[d] = g[d]

Notices == {"peer closed", "reset", "timed out"}

\* What c is told.  That others timed out they are told late, with its news.
Tells(c, new) ==
  \E late \in SUBSET {d \in Conns \ {c} : phase[d] = "open" /\ ~closed[d]} :
    told' = [d \in Conns |-> told[d] \cup IF d = c THEN new
                                        ELSE IF d \in late THEN {"timed out"} ELSE {}]

Init ==
  /\ phase = [c \in Conns |-> "none"]
  /\ given = [c \in Conns |-> 0] /\ taken = [c \in Conns |-> 0]
  /\ got = [c \in Conns |-> 0] /\ told = [c \in Conns |-> {}]
  /\ closing = [c \in Conns |-> FALSE] /\ closed = [c \in Conns |-> FALSE]

Opens(c) ==
  /\ phase[c] = "none"
  /\ \E p \in {"opening", "listening"} : phase' = [phase EXCEPT ![c] = p]
  /\ UNCHANGED <<given, taken, got, told, closing, closed>>

\* A listener that is closed may still accept.
Offers(c) ==
  /\ phase[c] = "none" /\ \E l \in Conns : phase[l] = "listening"
  /\ phase' = [phase EXCEPT ![c] = "offered"]
  /\ Tells(c, {})
  /\ UNCHANGED <<given, taken, got, closing, closed>>

\* The connection is established, or accepted, and what has arrived of it may
\* be delivered at once.
Establishes(c) ==
  /\ phase[c] \in {"opening", "offered"} /\ ~closed[c]
  /\ phase' = [phase EXCEPT ![c] = "open"]
  /\ Rises(c, got, got')
  /\ \E new \in SUBSET Notices : Tells(c, new)
  /\ UNCHANGED <<given, taken, closing, closed>>

\* The end of the stream comes after all of its bytes.
Delivers(c) ==
  /\ phase[c] = "open" /\ ~closed[c]
  /\ Rises(c, got, got')
  /\ "peer closed" \in told[c] => got' = got
  /\ \E new \in SUBSET Notices : Tells(c, new)
  /\ UNCHANGED <<phase, given, taken, closing, closed>>

Gives(c) ==
  /\ phase[c] \in {"opening", "open"} /\ ~closing[c]
  /\ Rises(c, given, given') /\ Rises(c, taken, taken') /\ taken'[c] <= given'[c]
  /\ UNCHANGED <<phase, got, told, closing, closed>>

Closes(c) ==
  /\ phase[c] \in {"opening", "listening", "open"} /\ ~closing[c]
  /\ closing' = [closing EXCEPT ![c] = TRUE]
  /\ given' \in {given, [given EXCEPT ![c] = taken[c]]}
  /\ UNCHANGED <<phase, taken, got, told, closed>>

\* Bytes of any connections go to the stack; those that have closed and have
\* nothing left are closed.
Takes ==
  /\ \A c \in Conns : taken[c] <= taken'[c] /\ taken'[c] <= given[c]
  /\ \A c \in Conns : /\ closed[c] => closed'[c]
                      /\ closed'[c] # closed[c] => closing[c] /\ taken'[c] = given[c]
  /\ UNCHANGED <<phase, given, got, told, closing>>

Next ==
  \/ Takes
  \/ \E c \in Conns : \/ Opens(c) \/ Offers(c) \/ Establishes(c) \/ Delivers(c)
                      \/ Gives(c) \/ Closes(c)

Spec == Init /\ [][Next]_vars
=============================================================================
