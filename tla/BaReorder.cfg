SPECIFICATION Spec
CONSTANTS
    MAXSEQ = 15
    Win = 3
    FirstNum = 13
    LastNum = 18
    PoolSize = 2
    Kinds = {"data", "eap"}
    Changes = TRUE
INVARIANTS InOrderDelivery HeldInWindow NotPassedOver BlocksAccounted
PROPERTIES DropsOnlyKnown
