CONSTANTS
    a = a
    b = b
    MaxRelease = 3
    N = 2
    Key <- MCKey
    KeysOf <- MCKeysOf
SPECIFICATION FairSpec
INVARIANTS
    TypeOK
    NeverOverstates
PROPERTY ReleaseArrives
