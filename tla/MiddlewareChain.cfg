SPECIFICATION Spec
CONSTANTS
    Scenarios <- MCScenarios
    Upstream <- MCUpstream
INVARIANTS
    AttemptsSendTheSameRequest
    EveryGuardWasPassed
    AnswersAreReadable
    PermitsAreReturned
    PriorityEndpointsWin
