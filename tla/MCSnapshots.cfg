SPECIFICATION SnapshotsSpec
CONSTANTS
    Jobs = {j1, j2}
    Wallets = {a}
    Amounts <- MCAmounts
    Billion = 2
    Window = 1
    Keep = 2
    MaxRun = 1
    MaxTime = 3
    MaxJobs = 2
    MaxCuts = 1
SYMMETRY MCSymmetry
INVARIANTS DiscountIsEarned
CHECK_DEADLOCK FALSE
