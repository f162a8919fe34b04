CONSTANTS
    alice = alice
    bob = bob
    self = self
    nobody = nobody
    model = model
    hash = hash
    court = court
    Accounts = {alice, bob}
    Self = self
    Treasury = alice
    Resolver = alice
    NoOne = nobody
    MinStake = 0
    ChallengeBond = 1
    DisputeWindow = 1
    RewardBps = 10000
    MaxU64 = 1500
    MaxU256 = 1000000000
    InitialBalances <- MCTwoBalances
    ModelIds = {model}
    Commitments = {hash}
    Stakes = {0, 1, 2}
    Approvals = {1, 2}
    Gifts = {1}
    Instants = {0, 1001, 1500}
    LastSubmission = 1001
    MaxAttestations = 2
SPECIFICATION Spec
INVARIANTS WindowRespected
PROPERTIES PaidByTheRecord
