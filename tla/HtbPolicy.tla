----------------------------- MODULE HtbPolicy -----------------------------
(***************************************************************************)
(* What a hierarchical token bucket without hysteresis promises, with none *)
(* of the machinery of HtbScheduler: no modes are stored, there are no     *)
(* feeds, no wait trees and no timer, and a packet is charged to all the   *)
(* classes it concerns in one step.                                        *)
(***************************************************************************)
EXTENDS Integers

CONSTANTS
  Classes, Leaves,
  Parent, Level, LeafPrio,
  Burst, CBurst, MBuffer, Cost, CCost, Sizes,
  MaxQueue, InitialAge,
  NULL,
  Open          \* the choice while the next leaf is being looked for

VARIABLES
  tokens, ctokens, age,  \* the buckets, and the time since they were charged
  backlog,               \* packets in the queue of a leaf
  choice,                \* the leaf to be served next and at which slot
  served                 \* a packet left at the current time

vars == <<tokens, ctokens, age, backlog, choice, served>>

Capped(x, max) == IF x < max THEN x ELSE max
None == [leaf |-> NULL, level |-> -1, prio |-> -1]

\* A class may use its own rate, may borrow, or may not send.
InRate(c)    == ctokens[c] + age[c] >= 0 /\ tokens[c] + age[c] >= 0
MayBorrow(c) == ctokens[c] + age[c] >= 0 /\ tokens[c] + age[c] < 0

\* The classes a packet of c concerns: whatever is closed under Parent and has
\* c has them all.
Above(c) ==
  {d \in Classes :
     \A S \in SUBSET Classes :
       c \in S /\ (\A x \in S : Parent[x] = NULL \/ Parent[x] \in S) => d \in S}

\* lender can pay for leaf when every class from leaf to below it may borrow.
CanPay(lender, leaf) ==
  /\ InRate(lender) /\ lender \in Above(leaf)
  /\ \A d \in Above(leaf) : Level[d] < Level[lender] => MayBorrow(d)

Ways == {w \in [leaf : {c \in Leaves : backlog[c] > 0}, lender : Classes] :
           CanPay(w.lender, w.leaf)}

\* The lowest lender first, then the first priority.
Better(v, w) ==
  \/ Level[v.lender] < Level[w.lender]
  \/ Level[v.lender] = Level[w.lender] /\ LeafPrio[v.leaf] < LeafPrio[w.leaf]

Best == {w \in Ways : \A v \in Ways : ~Better(v, w)}

Choices ==
  IF Best = {} THEN {None}
  ELSE {[leaf |-> w.leaf, level |-> Level[w.lender], prio |-> LeafPrio[w.leaf]] : w \in Best}

Spend(tok, diff, burst, cost, mbuffer) ==
  LET toks == Capped(tok + diff, burst) - cost
  IN  IF toks <= -mbuffer THEN 1 - mbuffer ELSE toks
-----------------------------------------------------------------------------
Init ==
  /\ tokens = Burst /\ ctokens = CBurst
  /\ age = [c \in Classes |-> Capped(InitialAge, MBuffer[c])]
  /\ backlog = [c \in Leaves |-> 0]
  /\ choice = None
  /\ served = FALSE

Arrive(c) ==
  /\ backlog' = [backlog EXCEPT ![c] = Capped(@ + 1, MaxQueue)]
  /\ choice' = Open
  /\ UNCHANGED <<tokens, ctokens, age, served>>

Reconsider ==
  /\ choice' = Open
  /\ UNCHANGED <<tokens, ctokens, age, backlog, served>>

Choose ==
  /\ choice = Open
  /\ choice' \in Choices
  /\ UNCHANGED <<tokens, ctokens, age, backlog, served>>

\* Time passes only while the choice is a best one: a choice that outlived
\* its reasons is never older than one unit of time.
Elapse ==
  /\ choice \in Choices
  /\ age' = [c \in Classes |-> Capped(age[c] + 1, MBuffer[c])]
  /\ served' = FALSE
  /\ UNCHANGED <<tokens, ctokens, backlog, choice>>

\* The chosen leaf sends s bytes: the ceilings of all classes above it pay,
\* the rates of the lender and of the classes above the lender.
Serve(s) ==
  LET on == Above(choice.leaf)
  IN  /\ choice \notin {None, Open} /\ ~served
      /\ backlog[choice.leaf] > 0
      /\ tokens' = [c \in Classes |->
           IF c \notin on THEN tokens[c]
           ELSE IF Level[c] < choice.level THEN tokens[c] + age[c]
           ELSE Spend(tokens[c], age[c], Burst[c], Cost[c][s], MBuffer[c])]
      /\ ctokens' = [c \in Classes |->
           IF c \notin on THEN ctokens[c]
           ELSE Spend(ctokens[c], age[c], CBurst[c], CCost[c][s], MBuffer[c])]
      /\ age' = [c \in Classes |-> IF c \in on THEN 0 ELSE age[c]]
      /\ backlog' = [backlog EXCEPT ![choice.leaf] = @ - 1]
      /\ choice' = Open
      /\ served' = TRUE

Next ==
  \/ \E c \in Leaves : Arrive(c)
  \/ Reconsider \/ Choose \/ Elapse
  \/ \E s \in Sizes : Serve(s)

Spec == Init /\ [][Next]_vars
=============================================================================
