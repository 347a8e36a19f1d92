SPECIFICATION Spec
CONSTANTS
    Keys = {k1, k2}
    Txns = {t1, t2}
    Tokens = {"tok_test_approved"}
    Terms = {terms, oversized}
    None = None
    Slots = {s1, s2, s3}
    MaxFaults = 1
    Unstorable = {oversized}
    PoolLimit = 2
    CompleteCalls <- MCCompleteCalls
SYMMETRY Symmetry
INVARIANTS
    ConnectionsBalance
    SomeoneProceeds
PROPERTIES
    PoolOnlyDelays
