---------------------------- MODULE MCSnapshots ----------------------------
(* An instance of Snapshots for TLC: amounts of 500000000, which earns     *)
(* nothing but has its rows, and of 12000000000.                           *)
EXTENDS Snapshots, TLC

MCAmounts == {0, 1, 24}
MCSymmetry == Permutations(Jobs)
=============================================================================
