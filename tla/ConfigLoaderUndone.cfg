CONSTANTS
    k1 = k1
    k2 = k2
    Mode = {"centre"}
    MaxMain = 5
    MaxPrio = 2
    Undecodable <- MCUndecodable
    BadEnv <- MCBadEnv
    Rejected <- MCRejected
    Key <- MCKey
    EnvKeys <- MCEnvKeys
SPECIFICATION FairSpec
PROPERTY UpdatesAreNotUndone
CHECK_DEADLOCK FALSE
