SPECIFICATION FairSpec
CONSTANTS
    Kinds = {"socks5", "connect", "plain"}
    Targets <- MCTargets
    Rules <- MCRules
    DefaultPolicy = "proxy"
    Window = 1
    MaxUp = 2
    MaxDown = 2
INVARIANTS SuccessMeansConnected BlockedStays InOrder Whole 
PROPERTIES ImplementsResponse HandlersEnd
CHECK_DEADLOCK FALSE
