SPECIFICATION FairSpec
CONSTANTS
    BSS = {a, b}
    NoBss = zero
    AuthMode = "AUTOSWITCH"
    Channels = 2
    ScanBatch = 1
    QueueBound = 1
    LateBound = 5
    UserOids = {"OID_SSID", "OID_BSSID", "OID_LIST_SCAN", "OID_DISASSOCIATE"}
    Disturb = {}
INVARIANTS CntlAnswered WcidIsOurAp DataReleased
PROPERTIES EveryAttemptEnds
