----------------------------- MODULE MCRewards -----------------------------
(* Instances of Rewards for TLC: a pool of 500000 and half of the power    *)
(* give a weekly share of 210, which the cap on the yearly return cuts to  *)
(* 7 a week; a pool of 3000 gives a share of 1.                            *)
EXTENDS Rewards, TLC

CONSTANT p1

MCPowerOne == p1 :> 500
MCTotalPower == {1000}
MCPoolSizes == {3000, 500000}
MCPoolOne == {500000}
MCSymmetry == Permutations(Nfts) \union Permutations(Claims)
=============================================================================
