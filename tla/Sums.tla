-------------------------------- MODULE Sums --------------------------------
(***************************************************************************)
(* The sum of the values of a function into the integers with a finite     *)
(* domain: what an SQL SUM or a reduce over rows returns.  It is defined   *)
(* by counting, with no recursion, so that SumsProofs can prove what it    *)
(* gains when one value changes or one row is added; MCCashback compares   *)
(* it with a fold.                                                         *)
(***************************************************************************)
EXTENDS Integers, FiniteSets

(* A pair <<s, n>> for every unit of every value above zero. *)
Units(f) == UNION {{s} \X (1..f[s]) : s \in DOMAIN f}

SumOver(f) == Cardinality(Units(f))
                - Cardinality(Units([s \in DOMAIN f |-> -f[s]]))

=============================================================================
