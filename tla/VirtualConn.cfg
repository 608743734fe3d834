SPECIFICATION FairSpec
CONSTANTS
    Rotators = {r1, r2, r3}
    MaxWrites = 3
INVARIANTS EachWriteOnce Restored ReplayInOrder
PROPERTIES ImplementsLog BufferedIsSent
CHECK_DEADLOCK FALSE
