SPECIFICATION FairSpec
CONSTANTS
    Replicas = {w1}
    Signatures = {s1, s2}
    Failed = {s2}
    Handlers = {h1}
    Stops = {c1, c2}
    PageLimit = 1
    Batch = 1
    Recent = 2
    MaxReconnects = 1
    MaxLag = 2
    MaxStarts = 1
    MaxCrashes = 1
    MaxFaults = 1
    Null = Null
INVARIANTS SubscriptionsBounded
PROPERTIES RefinesEventLog TransactionsAreIndexed
