SPECIFICATION Spec
CONSTANTS
    Requests = {r1, r2}
    Wallets = {a, b}
    Devices = {d1}
    Tokens = {t1, t2}
    SessionLife = 1
    TokenLife = 3
    MaxStarted = 6
    MaxAborts = 1
    MaxTime = 3
    Null = Null
SYMMETRY MCSymmetry
INVARIANTS BonusBounded
PROPERTIES LogoutIsFinal ReferrerIsFinal DenialHolds
CHECK_DEADLOCK FALSE
