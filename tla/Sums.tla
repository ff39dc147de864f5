-------------------------------- MODULE Sums --------------------------------
(* The sum of the values of a function on a finite set.                    *)
EXTENDS Integers

\* The sum of f[c] over the members c of S.
Sum(f, S) ==
  LET sum[T \in SUBSET S] ==
        IF T = {} THEN 0
        ELSE LET c == CHOOSE c \in T : TRUE IN f[c] + sum[T \ {c}]
  IN  sum[S]
=============================================================================
