SPECIFICATION FecFairSpec
CONSTANTS
    Configs <- MCConfigs
    Data <- MCData
    Parity <- MCParity
    Adaptive <- MCAuto
    Valid <- MCValid
    Chosen = {3, 6, 7}
    MaxSent = 2
    MaxSet = 1
INVARIANTS LatestConfigNotLost ShardsFit
PROPERTIES NothingHangs
CHECK_DEADLOCK FALSE
