SPECIFICATION Spec
CONSTANTS
    Requests = {r1, r2, r3}
    TopUps <- MCTopUps
    Revenues <- MCRevenues
    Penalties <- MCPenalties
    InitialPool = 10
    MaxCredits = 4
    MaxAborts = 1
INVARIANTS PoolIsBacked LossIsExposed RevenueIsRecorded
CHECK_DEADLOCK FALSE
