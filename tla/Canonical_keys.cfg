CONSTANTS
    a1 = a1
    malformed = malformed
    Attestors = {a1}
    ModelIds = {"riskscorer"}
    Commitments = {"safe", "risky", "third", "decision"}
    MaxAttestations = 4
    Payloads = {"safe", "risky", "third", "decision"}
    Content <- MCContent
    Environments <- MCEnvironments
    Absent = "absent"
    Garbled = "garbled"
    Malformed = malformed
    Attested <- MCAttested
    Claim = "decision"
    Tampered = "tampered"
    KeyRank <- MCKeyRank
    Json <- MCJson
    Nesting <- MCNesting
    KeyIndex <- MCKeyIndex
    MaxSafe = 7
    Base = 2
    Width = 2
    Calls <- MCCalls
    MaxDeploys = 3
    Retries = 1
    Slots = {1, 2}
    RestReplies <- MCReplies
    AskedIds = {0}
    ToolIds = {0}
    ToolPolicyIds = {1}
    LoopIds = {0}
    Deployments = {"commitments"}
    Deviations = {0, 499, 500, 1500, 3500, 9000}
    CoverChoices = {{"exploit"}, {"oracle_failure"}, {"agent_error", "governance_attack"}}
    Coverages = {10}
    Losses <- MCLosses
SPECIFICATION ServicesSpec
INVARIANTS RustAgrees
