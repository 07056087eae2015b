SPECIFICATION Spec
CONSTANTS
    p1 = p1
    Positions = {p1}
    Replicas = {w1}
    Admins = {}
    Claims = {c1, c2}
    Nfts = {n1, n2, n3}
    Power <- MCPowerOne
    TotalPowers <- MCTotalPower
    InitialPool = 500000
    PoolSizes <- MCPoolOne
    Week = 3
    VestingPeriod = 2
    MaxAttempts = 1
    RequestLifetime = 1
    MaxTime = 6
    MaxTriggers = 0
    MaxSwitches = 0
    MaxPoolChanges = 0
    MaxFaults = 0
    MaxAborts = 1
    Null = Null
SYMMETRY MCSymmetry
INVARIANTS WeeksPaidOnce DoublePayBounded  CapHolds SplittingNeverPays
PROPERTIES NftKeepsTerms PreviewCoversClaim
CHECK_DEADLOCK FALSE
