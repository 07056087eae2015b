SPECIFICATION Spec
CONSTANTS
    Requests = {r1, r2, r3}
    PerpetualSums = {1}
    BonusSums = {2}
    Volumes <- MCVolumes
    Averages <- MCAverages
    MaxDue = 2
    MaxStarted = 4
    MaxAborts = 1
    Null = Null
SYMMETRY MCSymmetry
INVARIANTS BooksClose OverdraftBounded
CHECK_DEADLOCK FALSE
