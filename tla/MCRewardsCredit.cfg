SPECIFICATION Spec
CONSTANTS
    p1 = p1
    Positions = {p1}
    Replicas = {w1}
    Admins = {}
    Claims = {c1}
    Nfts = {n1}
    Power <- MCPowerOne
    TotalPowers <- MCTotalPower
    InitialPool = 3000
    PoolSizes <- MCPoolSizes
    Week = 3
    VestingPeriod = 2
    MaxAttempts = 1
    RequestLifetime = 1
    MaxTime = 6
    MaxTriggers = 0
    MaxSwitches = 0
    MaxPoolChanges = 1
    MaxFaults = 0
    MaxAborts = 0
    Null = Null
PROPERTY WeeksAreCredited
CHECK_DEADLOCK FALSE
