CONSTANTS
    a = a
    b = b
    me = me
    none = none
    oracle = oracle
    plain = plain
    failure = failure
    feed = feed
    panel = panel
    Accounts = {a, b}
    MockAccount = me
    NoOne = none
    ModelIds = {oracle}
    Uris = {plain, failure}
    Triggers = {failure}
    Offers = {0, 1}
    MinStake = 1
    TriggerChoices = {{failure}}
    Expiries = {1}
    Times = {0, 1}
    Amounts = {1}
    Feeds = {feed, panel}
    RingSize = 3
    FeedLimit = 2
    MaxAttestations = 2
    MaxPolicies = 1
    MaxPayouts = 2
    MaxStaked = 1
SYMMETRY Symmetry
SPECIFICATION Spec
INVARIANTS TypeOK FeedShowsLatest EventsTellState ReputationRecount
PROPERTIES ExpiredIsFinal ImplementsLifecycle
