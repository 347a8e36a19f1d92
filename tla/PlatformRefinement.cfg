SPECIFICATION Spec
CONSTANTS
    Keys = {k1, k2}
    Txns = {t1, t2}
    Tokens = {"tok_test_approved"}
    Terms = {terms}
    None = None
    Slots = {s1, s2}
    MaxFaults = 1
    Unstorable = {}
    EmulatorDelay = 200
    NetworkTimeout = 20
    GatewayFailures <- OneGatewayFailure
    GatewayRejections <- MCGatewayRejections
    GarbledAnswers = {"overlong", "overlongDecline", "undecodable"}
    UnencodableTokens = {}
SYMMETRY Symmetry
INVARIANTS
    ClientsAgree
PROPERTIES
    UsesCoordinator
    KeepsPromise
