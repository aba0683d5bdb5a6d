CONSTANTS
    a1 = a1
    a2 = a2
    Addr <- MCAddr
    MaxFailures <- MCMaxFailures
    CountCap <- MCCountCap
SPECIFICATION FairSpec
INVARIANTS
    TypeOK
    HealthMatchesCount
    NoCheckOutlivesRound
PROPERTIES
    OnlyAPassedCheckForgives
    DeadNodeFilteredOut
    LiveNodeComesBack
\* the process may crash: see HealthCheckerPanic.cfg
CHECK_DEADLOCK FALSE
