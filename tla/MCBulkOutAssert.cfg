CONSTANTS
    Threads = {t1, t2}
    MGMT_RING_SIZE = 2
    Wrapped = 65536
    LastFrame = 2
    MaxEvents = 4
    CPUs = 2
SPECIFICATION Spec
INVARIANT AssertDmaIdx
SYMMETRY ThreadSymmetry
CHECK_DEADLOCK FALSE
