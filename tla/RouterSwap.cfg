CONSTANTS
    q1 = q1
    q2 = q2
    MaxGen = 2
    MaxEndpoint = 2
    Sizes <- MCSizes
    Request <- MCRequest
SPECIFICATION FairSpec
INVARIANTS
    RequestsKeepTheirClients
    NothingElseLeaks
PROPERTY OldClientsClose
\* a crash ends everything
CHECK_DEADLOCK FALSE
