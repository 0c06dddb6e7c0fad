SPECIFICATION Spec
CONSTANTS
    BSS = {a}
    NoBss = zero
    AuthMode = "WPA2PSK"
    Channels = 1
    ScanBatch = 1
    QueueBound = 1
    LateBound = 1
    UserOids = {"OID_SSID", "OID_DISASSOCIATE"}
    Disturb = {"user", "peer", "timer"}
INVARIANTS TypeOK WaitsAreTimed
CHECK_DEADLOCK FALSE
