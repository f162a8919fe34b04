CONSTANTS
    me = me
    none = none
    Accounts = {me}
    MockAccount = me
    NoOne = none
    ModelIds = {"riskscorer", "claimoracle"}
    Uris = {"oracle_failure", "agent_error"}
    Triggers = {"oracle_failure", "agent_error"}
    Offers = {0, 2}
    MinStake = 1
    TriggerChoices = {{"oracle_failure"}}
    Expiries = {1}
    Times = {0, 1}
    Amounts = {}
    Feeds = {}
    RingSize = 3
    FeedLimit = 2
    MaxAttestations = 2
    MaxPolicies = 1
    MaxPayouts = 2
    MaxStaked = 8
    Seeds = {"safe"}
    RiskScoreOf <- MCRiskScoreOf
    SeedPoolStaked = 55
    CoverageOutstanding = 50
    MinSolvencyRatioBps = 12000
    RewardsPool = 3
    Entries = {0, 3, 5}
    HonestOutput = "honest"
    Payloads = {"honest", "tampered"}
    BuyableTriggers = {"oracle_failure"}
    Later = 1
    ClaimOutput = "claim"
    Texts = {"honest", "tampered", "invalid"}
    SharedScores <- MCScores
    Jitters <- MCJitters
    JitterOf <- MCJitterOf
    MaxRuns = 2
SPECIFICATION WebSpec
INVARIANTS WebTypeOK WithdrawalBacked PagesTellState BreakdownTellsScore
PROPERTIES UnstakeKeepsFloor AssessmentCompletes
