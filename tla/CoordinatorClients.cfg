SPECIFICATION Spec
CONSTANTS
    Keys = {k1, k2}
    Txns = {t1, t2}
    Tokens = {approved}
    Terms = {terms, oversized}
    None = None
    Slots = {s1, s2}
    MaxFaults = 1
    Unstorable = {oversized}
    CompleteCalls <- MCCompleteCalls
SYMMETRY Symmetry
INVARIANTS
    TypeOK
    TablesAgree
    LocksHold
    NoCircularWait
    UniqueWinner
    VerdictsAreTrue
    ConflictExplained
    CompletionIsFinal
    RowsPassChecks
PROPERTIES
    RecordsAreWriteOnce
