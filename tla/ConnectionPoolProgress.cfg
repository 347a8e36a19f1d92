SPECIFICATION FairSpec
CONSTANTS
    Keys = {k1, k2}
    Txns = {t1}
    Tokens = {"tok_test_approved"}
    Terms = {terms}
    None = None
    Slots = {s1, s2, s3}
    MaxFaults = 1
    Unstorable = {}
    PoolLimit = 1
    CompleteCalls <- MCCompleteCalls
PROPERTIES
    EveryCallEnds
