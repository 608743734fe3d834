SPECIFICATION Spec
CONSTANTS
    Senders = {t1, t2}
    MaxSeq = 3
    InitWindow = 1
    InitSsthresh = 1
    MinWindow = 1
    MaxWindow = 1
    GrowStep = 1
    ShrinkStep = 2
    MaxRetransmissions = 1
    DelayedACKThreshold = 1
    DeliverCap = 1
    SACKLimit = 1
    StallLimit = 0
    MaxAcks = 1
    MaxCallbacks = 1
INVARIANTS NoSilentLoss InFlightBounded
PROPERTIES ImplementsStream
SYMMETRY MCSymmetry
CHECK_DEADLOCK FALSE
