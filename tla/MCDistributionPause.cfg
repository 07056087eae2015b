SPECIFICATION DistributionFairSpec
CONSTANTS
    p1 = p1
    p2 = p2
    Positions = {p1}
    Replicas = {w1, w2}
    Admins = {a1}
    Power <- MCPowerOne
    TotalPowers <- MCTotalPowers
    InitialPool = 1000000
    PoolSizes <- MCPoolOne
    Week = 3
    MaxAttempts = 2
    RequestLifetime = 1
    MaxTime = 2
    MaxTriggers = 1
    MaxSwitches = 2
    MaxPoolChanges = 0
    MaxFaults = 1
    Null = Null
PROPERTIES PauseDrains JobsDrain
CHECK_DEADLOCK FALSE
