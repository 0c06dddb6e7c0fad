SPECIFICATION Spec
CONSTANTS
    NUM_OF_TID = 2
    MAX_LEN_OF_BA_ORI_TABLE = 3
    ORI_SESSION_MAX_RETRY = 2
    Wrapped = 65536
    MaxCalls = 4
    CPUs = 2
INVARIANTS TypeOK SessionsCounted NoSessionLost AggregatesInSession
PROPERTIES EveryRequestDecided AgreementsEndWithLink
CHECK_DEADLOCK FALSE
