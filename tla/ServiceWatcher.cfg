CONSTANTS
    p1 = p1
    p2 = p2
    NoApplier = NoApplier
    Applier <- MCApplier
    MaxStatus <- MCMaxStatus
    MaxVersion <- MCMaxVersion
SPECIFICATION FairSpec
INVARIANTS
    TypeOK
    AppliersAreWatched
    EveryoneWasTold
PROPERTIES
    UnusedWatchersEnd
    CanceledAreDropped
\* with every applier closed and every bound reached nothing is left to do
CHECK_DEADLOCK FALSE
