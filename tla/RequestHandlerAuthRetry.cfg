CONSTANTS
    n1 = n1
    n2 = n2
    b1 = b1
    Node <- MCNode
    BackupNode <- MCBackupNode
    Attempts <- MCAttempts
    Statuses <- MCStatuses
    BreakStatus <- MCBreakStatus
    RetryOn <- MCRetryOn
SPECIFICATION Spec
PROPERTY AuthErrorsEndTheRequest
