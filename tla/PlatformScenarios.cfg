SPECIFICATION Spec
CONSTANTS
    Keys = {k1}
    Txns = {t1, t2}
    Tokens = {"tok_test_approved", "tok_test_declined", "tok_test_timeout",
              "tok_test_malformed", "tok_test_rate_limited", "tok_test_other"}
    Terms = {terms}
    None = None
    Slots = {s1, s2}
    MaxFaults = 1
    Unstorable = {}
    EmulatorDelay = 200
    NetworkTimeout = 20
    GatewayFailures <- MCGatewayFailures
    GatewayRejections <- MCGatewayRejections
    GarbledAnswers = {"overlong", "overlongDecline", "undecodable"}
    UnencodableTokens = {}
SYMMETRY Symmetry
INVARIANTS
    TypeOK
    OutcomeIsTrue
    ReplayIsFaithful
    TimeoutTokenIsAmbiguous
PROPERTIES
    RowsFollowLifecycle
