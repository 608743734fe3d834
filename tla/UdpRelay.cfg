SPECIFICATION UdpFairSpec
CONSTANTS
    MaxDatagrams = 2
    HeadLens = {1, 2}
    DataLens = {1}
    AnswerLens = {1, 2}
    BufferSize = 3
INVARIANTS DatagramsIntact
PROPERTIES EverythingEnds
CHECK_DEADLOCK FALSE
