CONSTANTS
    holder = holder
    lp = lp
    vault = vault
    claimoracle = claimoracle
    riskscorer = riskscorer
    hash = hash
    failure = failure
    breach = breach
    Accounts = {holder, lp}
    Vault = vault
    ModelIds = {claimoracle, riskscorer}
    ClaimModel = claimoracle
    Commitments = {hash}
    PremiumBps = 500
    MaxU256 = 1000000000
    InitialBalances <- MCBalances
    Coverages = {19, 20}
    TriggerTypes = {failure, breach}
    TriggerChoices = {{failure}}
    Expiries = {0}
    Amounts = {20}
    Approvals = {40}
    Gifts = {}
    Instants = {0, 1}
    MaxPolicies = 2
    MaxAttestations = 2
SPECIFICATION Spec
PROPERTIES WithdrawalsKeepCover
