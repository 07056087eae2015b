----------------------------- MODULE MCStaking -----------------------------
(* Instances of Staking for TLC.  A tick is some days: the lock is as long *)
(* as the cooldown and half of the run, so that unstakes before, at and    *)
(* after the unlock time all happen before the clock's last tick.  The     *)
(* penalty of 31 on the one amount has halves that lose a unit.            *)
EXTENDS Staking

MCAmounts == {620}
MCTiers == {1}
MCLockPeriods == {3}
=============================================================================
