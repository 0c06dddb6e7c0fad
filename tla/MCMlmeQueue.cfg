SPECIFICATION FairSpec
CONSTANTS
    MAX_LEN_OF_MLME_QUEUE = 5
    ULONG_MAX = 15
    MlmeTask = mlme
    Senders = {mlme, timer}
    Receivers = {rx}
    InternalMsgs = {confirm}
    PeerMsgs = {frame}
    NoMsg = none
    InternalLimit = 2
    SemaMax = 1
INVARIANTS RingShape ServiceSlotKept InternalFindsRoom
PROPERTIES ImplementsMailbox EveryMessageServed
