CONSTANTS
    Threads = {t1, t2}
    MGMT_RING_SIZE = 2
    Wrapped = 65536
    LastFrame = 2
    MaxEvents = 4
    CPUs = 2
SPECIFICATION Spec
INVARIANTS OneTransferPerPipe RingAccounts ResetHasHandler NothingForgotten
PROPERTIES BatchesInOrder
SYMMETRY ThreadSymmetry
CHECK_DEADLOCK FALSE
