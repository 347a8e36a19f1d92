SPECIFICATION Spec
CONSTANTS
    Keys = {k1}
    Txns = {t1}
    Tokens = {"tok_test_approved"}
    Terms = {terms}
    None = None
    Slots = {s1}
    MaxFaults = 0
    Unstorable = {}
    EmulatorDelay = 10
    NetworkTimeout = 5000
    GatewayFailures = {}
    GatewayRejections = {}
    GarbledAnswers = {"undecodable"}
    UnencodableTokens = {}
INVARIANTS
    MalformedIsPending
