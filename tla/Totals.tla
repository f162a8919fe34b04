------------------------------- MODULE Totals ------------------------------
(***************************************************************************)
(* Sums over the ids 0 .. n-1 that the contracts hand out in order, and    *)
(* over sets of accounts.  Recursive functions with + written out, rather  *)
(* than RECURSIVE operators or the higher-order folds, so that LedgerProofs *)
(* can reason about them.                                                  *)
(***************************************************************************)
EXTENDS Integers

PartialSums(f, n) ==
    LET sum[i \in 0 .. n] == IF i = 0 THEN 0 ELSE sum[i - 1] + f[i - 1]
    IN  sum

Total(f, n) == PartialSums(f, n)[n]

(* The same over a finite set that has no order of its own (accounts).     *)
SumsWithin(f, S) ==
    LET sum[T \in SUBSET S] ==
            IF T = {} THEN 0
            ELSE LET x == CHOOSE x \in T : TRUE IN f[x] + sum[T \ {x}]
    IN  sum

SumOver(f, S) == SumsWithin(f, S)[S]
=============================================================================
