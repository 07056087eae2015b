SPECIFICATION FairSpec
CONSTANTS
    Requests = {r1, r2, r3}
    Keys = {k1, k2}
    Endpoints = {e1}
    Bodies = {b1, b2}
    Placeholder = Placeholder
    MaxFaults = 2
    MaxCrashes = 1
    Null = Null
INVARIANTS AtMostOneRun ExtraRunsAreFaults ReplayFitsBody
PROPERTIES StoredIsFinal EveryRequestIsAnswered
CHECK_DEADLOCK FALSE
