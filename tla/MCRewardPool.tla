--------------------------- MODULE MCRewardPool ----------------------------
(* Instances of RewardPool for TLC: amounts small enough to tell apart by  *)
(* their sums, a revenue of 100 splits into 5, 2 and 3.                    *)
EXTENDS RewardPool

MCTopUps == {11}
MCRevenues == {100, 150}
MCPenalties == {1}
=============================================================================
