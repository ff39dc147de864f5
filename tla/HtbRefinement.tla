--------------------------- MODULE HtbRefinement ---------------------------
(***************************************************************************)
(* The scheduler implements the policy.  The policy charges the classes of *)
(* a packet in one step when it leaves the queue; the classes that         *)
(* chargeClass has yet to reach are mapped to what it will make of them.   *)
(***************************************************************************)
EXTENDS HtbScheduler

Uncharged == IF charge.cl = NULL THEN {} ELSE Path[charge.cl]

TokensBar ==
  [c \in Classes |->
     IF c \notin Uncharged THEN tokens[c]
     ELSE IF Level[c] < next.level THEN tokens[c] + age[c]
     ELSE Account(tokens[c], age[c], Burst[c], Cost[c][charge.size], MBuffer[c])]

CTokensBar ==
  [c \in Classes |->
     IF c \notin Uncharged THEN ctokens[c]
     ELSE Account(ctokens[c], age[c], CBurst[c], CCost[c][charge.size], MBuffer[c])]

AgeBar == [c \in Classes |-> IF c \in Uncharged THEN 0 ELSE age[c]]

Searching == [leaf |-> NULL, level |-> -2, prio |-> -2]

ChoiceBar == IF pc = "idle" THEN next ELSE Searching

Policy == INSTANCE HtbPolicy WITH
  tokens  <- TokensBar,
  ctokens <- CTokensBar,
  age     <- AgeBar,
  backlog <- qlen,
  choice  <- ChoiceBar,
  served  <- linkBusy,
  Open    <- Searching

\* Every step of the scheduler is a step of the policy or changes nothing the
\* policy knows of: the incremental machinery selects a leaf the policy could
\* choose, charges what it must, and lets no time pass with a stale choice.
ImplementsPolicy == Policy!Spec
=============================================================================
