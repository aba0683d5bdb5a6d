CONSTANTS
    a1 = a1
    a2 = a2
    Addr <- MCAddr
    MaxFailures <- MCMaxFailures
    CountCap <- MCCountCap
SPECIFICATION Spec
INVARIANT LoopNeverPanics
CHECK_DEADLOCK FALSE
