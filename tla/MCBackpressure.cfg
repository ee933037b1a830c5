SPECIFICATION WatchSpec
CONSTANTS
    Message = {m1, m2, m3, m4}
    Priorities = {0, 1}
    BatchSize = 2
    Threshold = 2
SYMMETRY Symmetry
CHECK_DEADLOCK FALSE
INVARIANTS
    FifoPerPriority
    FirstOverloadSignalled
