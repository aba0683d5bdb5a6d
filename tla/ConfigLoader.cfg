CONSTANTS
    k1 = k1
    k2 = k2
    Mode = {"file", "centre"}
    MaxMain = 5
    MaxPrio = 2
    Undecodable <- MCUndecodable
    BadEnv <- MCBadEnv
    Rejected <- MCRejected
    Key <- MCKey
    EnvKeys <- MCEnvKeys
SPECIFICATION FairSpec
INVARIANTS
    TypeOK
    HashNeverAhead
    SnapshotIsServed
PROPERTIES
    ReloadsAreAtomic
    LocalCatchesUp
    CloseEndsWatchers
\* a process that could not start, or whose watchers have ended, is at rest
CHECK_DEADLOCK FALSE
