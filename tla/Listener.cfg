SPECIFICATION FairSpec
CONSTANTS
    Addrs = {a1, a2}
    Ids = {i1, i2}
    MaxConns = 2
    MaxMigrations = 1
    AcceptCap = 1
INVARIANTS RoutesAgree NobodyForgotten AloneIsTracked
PROPERTIES AddressNotTaken ListenerCloseReturns
CHECK_DEADLOCK FALSE
