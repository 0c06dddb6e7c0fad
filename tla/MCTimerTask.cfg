SPECIFICATION Spec
CONSTANTS
    OneShot = {auth}
    Periodic = {periodic}
    NoTimer = none
    Callers = {mlme}
    TimerThread = timer
    NoCaller = nobody
    TIMER_QUEUE_SIZE_MAX = 2
    SemaMax = 1
    Closes = TRUE
INVARIANTS PoolIntact
