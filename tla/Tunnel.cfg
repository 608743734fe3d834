SPECIFICATION FairSpec
CONSTANTS
    FDs = {1}
    Restarters = {r1, r2}
    MaxStarts = 3
INVARIANTS NoOrphan
PROPERTIES ExitsHandled
CHECK_DEADLOCK FALSE
