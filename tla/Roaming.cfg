SPECIFICATION FairSpec
CONSTANTS
    Ids = {i1, i2}
    MaxConns = 4
INVARIANTS RunningIsListed
PROPERTIES EndedIsRemoved
CHECK_DEADLOCK FALSE
