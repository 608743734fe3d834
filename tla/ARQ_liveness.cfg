SPECIFICATION FairSpec
CONSTANTS
    Senders = {t1}
    MaxSeq = 2
    InitWindow = 1
    InitSsthresh = 2
    MinWindow = 1
    MaxWindow = 2
    GrowStep = 1
    ShrinkStep = 2
    MaxRetransmissions = 1
    DelayedACKThreshold = 2
    DeliverCap = 1
    SACKLimit = 1
    StallLimit = 0
    MaxAcks = 1
    MaxCallbacks = 1
INVARIANT NoSilentLoss
PROPERTIES SendersServed ReceivedIsAcknowledged
CHECK_DEADLOCK FALSE
