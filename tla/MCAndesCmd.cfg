CONSTANTS
    Callers = {c1, c2}
    MaxSeq = 2
    DeviceRoom = 2
    NoCaller = nobody
    Budgets <- ModelBudgets
SPECIFICATION FairSpec
INVARIANTS TypeOK OwnResponse HandledOnce
PROPERTIES ListensAgain
CHECK_DEADLOCK FALSE
