--------------------------- MODULE MCDistribution ---------------------------
(* Instances of Distribution for TLC.  A total power of zero is what the   *)
(* code itself leaves in the row, and gives every position a share.  With  *)
(* the other total a pool of 1600 gives one to p1 only, the larger pool to *)
(* both.                                                                   *)
EXTENDS Distribution, TLC

CONSTANTS p1, p2

MCPower == (p1 :> 500) @@ (p2 :> 300)
MCPowerOne == p1 :> 500
MCTotalPower == {1000}
MCTotalPowers == {0, 1000}
MCPoolSizes == {1600, 1000000}
MCPoolOne == {1000000}
MCSymmetry == Permutations(Replicas)
=============================================================================
