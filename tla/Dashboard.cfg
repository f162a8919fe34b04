CONSTANTS
    a = a
    me = me
    none = none
    oracle = oracle
    failure = failure
    feed = feed
    Accounts = {a}
    MockAccount = me
    NoOne = none
    ModelIds = {oracle}
    Uris = {failure}
    Triggers = {failure}
    Offers = {0, 1}
    MinStake = 1
    TriggerChoices = {{failure}}
    Expiries = {1}
    Times = {0, 1}
    Amounts = {1}
    Feeds = {feed}
    RingSize = 3
    FeedLimit = 2
    MaxAttestations = 2
    MaxPolicies = 0
    MaxPayouts = 1
    MaxStaked = 0
    MaxRefreshes = 3
SPECIFICATION DashboardSpec
PROPERTIES ViewNeverRegresses
