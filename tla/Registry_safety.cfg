CONSTANTS
    alice = alice
    bob = bob
    self = self
    nobody = nobody
    model = model
    hash = hash
    court = court
    Accounts = {alice, bob, court}
    Self = self
    Treasury = court
    Resolver = court
    NoOne = nobody
    MinStake = 1000
    ChallengeBond = 500
    DisputeWindow = 1
    RewardBps = 5000
    MaxU64 = 1000000
    MaxU256 = 1000000000
    InitialBalances <- MCBalances
    ModelIds = {model}
    Commitments = {hash}
    Stakes = {999, 1000, 1001}
    Approvals = {2001}
    Gifts = {}
    Instants = {0, 1000, 1001, 2001}
    LastSubmission = 1000
    MaxAttestations = 2
SPECIFICATION FairSpec
INVARIANTS TypeOK Solvent NeverStuck WindowRespected ReputationMatchesHistory
PROPERTIES SurplusOnlyDonated PaidByTheRecord ImplementsLifecycle EverySettled
