SPECIFICATION FairSpec
CONSTANTS
    Pdas = {p1}
    Requests = {r1, r2, r3}
    Amounts <- MCAmounts
    Tiers <- MCTiers
    LockPeriods <- MCLockPeriods
    CooldownPeriod = 3
    RequestLifetime = 1
    InitialPool = 7
    MaxTime = 6
    MaxAborts = 1
    Null = Null
INVARIANTS PoolLedger WithheldIsRecorded ReportedIsSettled
PROPERTIES RefinesLifecycle PenaltyOnlyWhileLocked FullCooldown NoEarlyWithdrawal ChargesEndWithOverlap ChargedIsUnstaked
