SPECIFICATION Spec
CONSTANTS
    Requests <- MCRequests
    BigIntMax = 1000
    EnsureAscii = FALSE
INVARIANTS
    AcceptedIsUnderstood
    ErrorOnlyByGap
    RefusedLeavesNothing
    RetryIsRecognised
    BlockedWasNeverSent
