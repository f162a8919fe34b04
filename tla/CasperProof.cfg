CONSTANTS
    oracle = oracle
    holder = holder
    court = court
    self = self
    vault = vault
    nobody = nobody
    claimoracle = claimoracle
    hash = hash
    failure = failure
    Accounts = {oracle, holder, court}
    Self = self
    Treasury = court
    Resolver = court
    NoOne = nobody
    MinStake = 1000
    ChallengeBond = 500
    DisputeWindow = 1
    RewardBps = 5000
    MaxU64 = 1000000
    MaxU256 = 1000000000
    InitialBalances <- MCStakeBalances
    ModelIds = {claimoracle}
    Commitments = {hash}
    Stakes = {1000}
    Approvals = {1000}
    Gifts = {}
    Instants = {0, 1000, 1001}
    LastSubmission = 1000
    MaxAttestations = 2
    Vault = vault
    ClaimModel = claimoracle
    PremiumBps = 500
    Coverages = {50}
    TriggerTypes = {failure}
    TriggerChoices = {{failure}}
    Expiries = {1001}
    Amounts = {60}
    MaxPolicies = 1
    UsdcBalances <- MCUsdcBalances
    UsdcApprovals = {60}
    UsdcGifts = {}
SPECIFICATION SystemSpec
INVARIANTS BothSolvent
PROPERTIES ImplementsInsurance PayoutsAreStaked
