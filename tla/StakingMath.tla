---------------------------- MODULE StakingMath ----------------------------
(***************************************************************************)
(* The pure arithmetic of staking.service.ts, rewards.service.ts,          *)
(* insights.service.ts and reward-distribution.processor.ts.  Amounts are  *)
(* JavaScript numbers that hold integers below 2^53, so Math.floor(a / b)  *)
(* is \div.  Rates are in basis points, as in the code.                    *)
(***************************************************************************)
EXTENDS Integers

(* ------------------------------ staking ------------------------------- *)

(* calculatePowerMultiplier: per cent of the amount that counts as power. *)
PowerMultiplier(months) ==
    CASE months \in 1..5   -> 100
      [] months \in 6..11  -> 150
      [] months \in 12..17 -> 200
      [] months \in 18..23 -> 250
      [] months \in 24..35 -> 300
      [] months >= 36      -> 400
      [] OTHER             -> 100

StakingPower(amount, months) == (amount * PowerMultiplier(months)) \div 100

(* getTierPenaltyMultiplier: an unknown tier falls back to 5 per cent. *)
PenaltyBp(tierId) == CASE tierId = 2 -> 750
                       [] tierId = 3 -> 1000
                       [] tierId = 4 -> 1250
                       [] OTHER      -> 500

PenaltyAmount(amount, tierId) == (amount * PenaltyBp(tierId)) \div 10000

(* Each of the two shares of a penalty, the pool's and the protocol's. *)
PenaltyHalf(penalty) == penalty \div 2

(* ------------------------------ rewards ------------------------------- *)

(* Math.floor(a / b) for a divisor of either sign. *)
FloorDiv(a, b) == IF b < 0 THEN (-a) \div (-b) ELSE a \div b

WeeklyEmissionBp == 21
MaxApyBp == 7500
YearBp == 52 * 10000  \* what turns the reward of a week into a yearly rate

WeeklyEmission(pool) == (pool * WeeklyEmissionBp) \div 10000

(* The 40 per cent of an emission that goes to stakers. *)
StakingPoolShare(emission) == (emission * 40) \div 100

(* MUTANT of ApyCap: the rate of the weeks is taken for that of a year. *)
ApyCap_NotAnnual(staked, reward, weeks) ==
    IF weeks = 0 THEN reward
    ELSE IF FloorDiv(reward * 10000, staked * weeks) > MaxApyBp
         THEN (staked * MaxApyBp * weeks) \div YearBp
         ELSE reward

(* MUTANT of ApyCap: the cap forgets that the reward is for several weeks. *)
ApyCap_OneWeek(staked, reward, weeks) ==
    IF weeks = 0 THEN reward
    ELSE IF FloorDiv(reward * YearBp, staked * weeks) > MaxApyBp
         THEN (staked * MaxApyBp) \div YearBp
         ELSE reward

(* applyApyCap: a reward above 75 per cent a year is cut to the cap. *)
ApyCap(staked, reward, weeks) ==
    IF weeks = 0 THEN reward
    ELSE IF FloorDiv(reward * YearBp, staked * weeks) > MaxApyBp
         THEN (staked * MaxApyBp * weeks) \div YearBp
         ELSE reward

(* calculateProRataReward. *)
ProRataReward(power, totalPower, pool, weeks) ==
    IF totalPower = 0 \/ power = 0 THEN 0
    ELSE LET share == (StakingPoolShare(WeeklyEmission(pool)) * power) \div totalPower
         IN  ApyCap(power, share * weeks, weeks)

(* MUTANT of RewardPreview: the share is rounded before it is applied. *)
RewardPreview_ShareFirst(power, totalPower, pool, weeks) ==
    IF totalPower = 0 \/ weeks < 0 THEN 0
    ELSE ((power \div totalPower) * WeeklyEmission(pool)) * weeks

(* getRewardPreview of insights.service.ts, for one position: of the whole *)
(* emission, without a cap.  A clock behind lastRewardTs counts no weeks.  *)
RewardPreview(power, totalPower, pool, weeks) ==
    IF totalPower = 0 \/ weeks < 0 THEN 0
    ELSE ((WeeklyEmission(pool) * power) \div totalPower) * weeks

(* The processor's share of the whole emission.  JavaScript divides by a   *)
(* zero total to Infinity, or to NaN when the numerator is zero too, and   *)
(* only the first passes the test userShare > 0.                           *)
SharePositive(pool, power, totalPower) ==
    IF totalPower = 0 THEN WeeklyEmission(pool) * power > 0
    ELSE (WeeklyEmission(pool) * power) \div totalPower > 0

=============================================================================
