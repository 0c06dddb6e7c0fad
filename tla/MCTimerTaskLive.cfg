SPECIFICATION FairSpec
CONSTANTS
    OneShot = {auth}
    Periodic = {periodic}
    NoTimer = none
    Callers = {mlme}
    TimerThread = timer
    NoCaller = nobody
    TIMER_QUEUE_SIZE_MAX = 1
    SemaMax = 1
    Closes = FALSE
PROPERTIES ExpiryServed PeriodicSurvives CancelSettles
