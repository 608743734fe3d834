SPECIFICATION FairSpec
CONSTANTS
    MaxStarts = 2
    MaxStops = 2
    MaxSessions = 4
INVARIANTS OneOpenSession
PROPERTIES DeadIsNoticed StopEndsLoops
CHECK_DEADLOCK FALSE
