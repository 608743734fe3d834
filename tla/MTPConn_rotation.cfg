SPECIFICATION Spec
CONSTANTS
    LibMinSize = 4
    MaxSockets = 2
    MaxConns = 2
    MaxTries = 2
    QuietLimit = 1
    Interval = 2
    MaxTime = 2
    MaxNet = 2
    Payloads = {}
    MinSize = 2
    IdLen = 36
PROPERTY DecoysForScannersOnly
CHECK_DEADLOCK FALSE
