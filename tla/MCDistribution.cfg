SPECIFICATION DistributionSpec
CONSTANTS
    p1 = p1
    p2 = p2
    Positions = {p1, p2}
    Replicas = {w1, w2}
    Admins = {}
    Power <- MCPower
    TotalPowers <- MCTotalPower
    InitialPool = 1600
    PoolSizes <- MCPoolSizes
    Week = 2
    MaxAttempts = 2
    RequestLifetime = 1
    MaxTime = 2
    MaxTriggers = 0
    MaxSwitches = 0
    MaxPoolChanges = 1
    MaxFaults = 1
    Null = Null
SYMMETRY MCSymmetry
INVARIANTS EpochIsSupported
PROPERTIES EpochMeansStamped BoundedRegression
CHECK_DEADLOCK FALSE
