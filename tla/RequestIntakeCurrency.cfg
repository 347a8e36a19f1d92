SPECIFICATION Spec
CONSTANTS
    Requests <- MCRequests
    BigIntMax = 1000
    EnsureAscii = TRUE
INVARIANTS
    AcceptedCurrencyIsExact
