----------------------------- MODULE MCCashback -----------------------------
(* Instances of Cashback for TLC: a trading volume of 200 gives cashbacks  *)
(* of 1 and 2 at two places of the table.  A funding is as much as one     *)
(* payment, so that three that overlap can reach the limit.                *)
EXTENDS Cashback, Functions, TLC

(* Sums agrees with a fold, for values on both sides of zero. *)
ASSUME SumAgreesWithFold ==
    \A S \in SUBSET (1..3) : \A f \in [S -> -2..3] :
        SumOver(f) = FoldFunction(LAMBDA x, y : x + y, 0, f)

MCVolumes == {200}
MCAverages == {0, 1}
MCSymmetry == Permutations(Requests)
=============================================================================
