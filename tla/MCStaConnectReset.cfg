SPECIFICATION Spec
CONSTANTS
    BSS = {a, b}
    NoBss = zero
    AuthMode = "OPEN"
    Channels = 1
    ScanBatch = 1
    QueueBound = 1
    LateBound = 1
    UserOids = {"OID_BSSID"}
    Disturb = {"user"}
PROPERTY SetsUncorrupted
CHECK_DEADLOCK FALSE
