SPECIFICATION Spec
CONSTANTS
    Keys = {k1, k2}
    Txns = {t1, t2}
    Tokens = {"tok_test_rate_limited", "tok_test_surrogate"}
    Terms = {terms, oversized}
    None = None
    Slots = {s1, s2}
    MaxFaults = 2
    Unstorable = {oversized}
    EmulatorDelay = 200
    NetworkTimeout = 20
    GatewayFailures <- OneGatewayFailure
    GatewayRejections = {}
    GarbledAnswers = {}
    UnencodableTokens = {"tok_test_surrogate"}
SYMMETRY Symmetry
INVARIANTS
    AtMostOneInvocation
    ReplayIsFaithful
    NoSpuriousError
    AbandonedOnlyByFault
