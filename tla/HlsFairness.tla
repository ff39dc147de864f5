---------------------------- MODULE HlsFairness ----------------------------
(***************************************************************************)
(* What link sharing is for: two sibling leaves that both have packets     *)
(* divide the link by their weights, whatever the other leaves do.  lag    *)
(* observes HlsScheduler; it is no part of the scheduler's state.          *)
(***************************************************************************)
EXTENDS HlsScheduler

CONSTANTS One, Other    \* two leaves

Siblings ==
  /\ One \in Leaves /\ Other \in Leaves /\ One # Other
  /\ Parent[One] = Parent[Other]
  /\ ~CanRemove

VARIABLE lag    \* bytes One sent by Other's weight, less the converse

\* The bytes leaf c sends in a step.
Sent(c) ==
  IF Len(queue'[c]) < Len(queue[c]) THEN Head(queue[c]) + PhyHeader ELSE 0

ShareInit == Init /\ lag = 0

ShareNext ==
  /\ Next
  /\ lag' = IF isBusy'[One] /\ isBusy'[Other]
            THEN lag + Sent(One) * Weight[Other] - Sent(Other) * Weight[One]
            ELSE 0

ShareSpec == ShareInit /\ [][ShareNext]_<<vars, lag>>

\* The fairness of HlsScheduler: a handler runs to its end, the server pulls.
ShareFairSpec ==
  /\ ShareSpec
  /\ WF_<<vars, lag>>(Handler /\ ShareNext)
  /\ SF_<<vars, lag>>(Pull /\ ShareNext)

\* The largest round size there can be.
MostQuota == Sum(Weight, Classes) + Sum(LeafMtu, Leaves)

\* However long both leaves are busy, the service they got differs from the
\* proportion of their weights by no more than each of them can hold of the
\* quota of one round: what one leaf is ahead by is paid back.
SharesInProportion ==
  /\ lag <= (Weight[One] + Weight[Other]) * MostQuota
  /\ lag >= -((Weight[One] + Weight[Other]) * MostQuota)
=============================================================================
