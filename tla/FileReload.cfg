CONSTANTS
    q1 = q1
    q2 = q2
    Users = {"rbac", "jwt"}
    MaxVersion = 3
    Request <- MCRequest
    Malformed <- MCMalformed
    Loads <- MCLoads
SPECIFICATION FairSpec
INVARIANTS
    TypeOK
    SequentialReloadsAgree
    JudgedByTheEnforcerInForce
PROPERTIES
    ReloadIsNotStarved
    UsableKeyComesIntoForce
