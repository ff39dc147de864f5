---------------------------- MODULE HttpController ----------------------------
(***************************************************************************)
(* The controller of an HttpTools scenario (HttpController.cc): the        *)
(* register of web sites, and the choice of a random one.  An event of the *)
(* scenario raises the popularity of a site: it is put on the special      *)
(* list, from which a site is taken with probability pspecial, and each    *)
(* time it is taken its probability is amortized, until it is cancelled.   *)
(*                                                                         *)
(* Probabilities are whole numbers of which One is certainty, the          *)
(* rounding of the doubles is left out.  A choice that has a positive      *)
(* probability is a choice that can be made.                               *)
(***************************************************************************)
EXTENDS Integers, Sequences

CONSTANTS Sites,     \* the sites that register, in their order
          Late,      \* those that are activated later
          Events,    \* of the scenario: [www, p, amortize]
          One

VARIABLES specialList, \* sites with a special status, the newest first
          pvalue,      \* site |-> its special probability
          pamortize,   \* site |-> how much of it each choice takes
          pspecial,
          active,      \* sites whose activation time has come
          happened,    \* events that have taken place
          picking      \* a random site is being chosen

controllerVars == <<specialList, pvalue, pamortize, pspecial, active, happened, picking>>

Registered == {Sites[i] : i \in DOMAIN Sites}

ASSUME ControllerAssumption ==
  /\ Sites \in Seq(Registered) /\ Late \subseteq Registered
  /\ One \in Nat \ {0}
  /\ \A e \in Events : e.p \in 0 .. One /\ e.amortize \in 0 .. One

\* The probabilities of the first n entries of a list together.
SumUpTo(list, value, n) ==
  LET sum[i \in 0 .. n] == IF i = 0 THEN 0 ELSE sum[i - 1] + value[list[i]]
  IN sum[n]

\* getServerInfo, getServerModule
Known(www) == www \in Registered

--------------------------------------------------------------------------
\* A site that is special already is put on the list once more.
SetSpecialStatus(e) ==
  IF Known(e.www)
  THEN /\ pvalue' = [pvalue EXCEPT ![e.www] = e.p]
       /\ pamortize' = [pamortize EXCEPT ![e.www] = e.amortize]
       /\ specialList' = <<e.www>> \o specialList
       /\ pspecial' = pspecial + e.p
  ELSE UNCHANGED <<pvalue, pamortize, specialList, pspecial>>

\* The events of the configuration that are still scheduled.
Scheduled == Events \ happened

StatusUpdate ==
  /\ ~picking
  /\ \E e \in Scheduled :
       /\ SetSpecialStatus(e)
       /\ happened' = happened \cup {e}
  /\ UNCHANGED <<active, picking>>

Activate ==
  /\ ~picking
  /\ \E www \in Registered \ active : active' = active \cup {www}
  /\ UNCHANGED <<specialList, pvalue, pamortize, pspecial, happened, picking>>

--------------------------------------------------------------------------
WithoutFirst(list, www) ==
  LET i == CHOOSE i \in DOMAIN list : list[i] = www /\ \A j \in 1 .. i - 1 : list[j] # www
  IN SubSeq(list, 1, i - 1) \o SubSeq(list, i + 1, Len(list))

\* The entry where the accumulated probability exceeds a random part of
\* pspecial, the last one if none does.
Selectable ==
  {i \in DOMAIN specialList :
     \/ Len(specialList) = 1
     \/ /\ SumUpTo(specialList, pvalue, i - 1) < pspecial
        /\ pvalue[specialList[i]] > 0 \/ i = Len(specialList)}

\* What is left of pspecial when a site is cancelled.
AmortizedZeroed(www) == pspecial   \* Mistake: the site's probability is 0 before it is subtracted
Amortized(www) == pspecial - pvalue[www]

CancelSpecialStatus(www) ==
  LET left == WithoutFirst(specialList, www)
  IN /\ specialList' = left
     /\ pspecial' = IF left = <<>> \/ Amortized(www) < 0 THEN 0 ELSE Amortized(www)
     /\ pvalue' = [pvalue EXCEPT ![www] = 0]
     /\ pamortize' = [pamortize EXCEPT ![www] = 0]

Amortize(www) ==
  LET newp == pvalue[www] - pamortize[www]
  IN CASE pamortize[www] = 0 -> UNCHANGED <<specialList, pvalue, pamortize, pspecial>>
       [] pamortize[www] > 0 /\ newp > 0 ->
            /\ pvalue' = [pvalue EXCEPT ![www] = newp]
            /\ pspecial' = pspecial - pamortize[www]
            /\ UNCHANGED <<specialList, pamortize>>
       [] OTHER -> CancelSpecialStatus(www)

SelectFromSpecialList(www) == \E i \in Selectable : specialList[i] = www /\ Amortize(www)

\* One turn of the loop that looks for an active site: a special site that
\* is not active yet is amortized as well.
GetRandomServerInfo(www) ==
  \/ pspecial > 0 /\ SelectFromSpecialList(www)
  \/ pspecial < One /\ www \in Registered /\ UNCHANGED <<specialList, pvalue, pamortize, pspecial>>

\* A choice of the loop ends it when it has found an active site.
GetAnyServerInfo(www) == www \in active /\ GetRandomServerInfo(www)

Draw ==
  /\ picking
  /\ \E www \in Registered \ active : GetRandomServerInfo(www)
  /\ UNCHANGED <<active, happened, picking>>

ControllerInit ==
  /\ specialList = <<>> /\ pspecial = 0
  /\ pvalue = [www \in Registered |-> 0] /\ pamortize = pvalue
  /\ active = Registered \ Late
  /\ happened = {}
  /\ picking = FALSE

--------------------------------------------------------------------------
\* pspecial is the sum of the probabilities on the special list, unless an
\* event repeated the status of a site, and it is never positive without a
\* site to choose (the choice would be of no entry).
SpecialsCount ==
  /\ pspecial > 0 => specialList # <<>>
  /\ (\A e, f \in happened : e.www = f.www => e = f)
       => pspecial = SumUpTo(specialList, pvalue, Len(specialList))
==============================================================================
