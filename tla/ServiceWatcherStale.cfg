CONSTANTS
    p1 = p1
    p2 = p2
    NoApplier = NoApplier
    Applier <- MCApplier
    MaxStatus <- MCMaxStatus
    MaxVersion <- MCMaxVersion
SPECIFICATION Spec
INVARIANT NodesAreTheLatest
CHECK_DEADLOCK FALSE
