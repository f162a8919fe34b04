----------------------------- MODULE McpServer ------------------------------
(***************************************************************************)
(* apps/mcp-server: the tools of tools.ts, each a task begun with arguments *)
(* that were validated before.  guard turns whatever the body throws into  *)
(* an error result with its code.  The policies tools buy are here too.    *)
(***************************************************************************)
EXTENDS AgentTasks, Sequences

CONSTANTS
    ToolIds,        \* the attestation ids tools are called with
    ToolPolicyIds   \* the policy ids they are called with

VARIABLE policies   \* the in-memory SDK's policies by id, from 1: the status

Tool(s, job, stage, id, payload) ==
    Begin(s, Task("mcp", job, stage, id, payload, "none"))

getAttestationTool(s) ==
    \E id \in ToolIds : Tool(s, "get", "attestation", id, Absent)

verifyTool(s) ==
    \E id \in ToolIds : Tool(s, "verify", "attestation", id, Absent)

submitAttestationTool(s) ==
    \E payload \in here.payloads : Tool(s, "attest", "put", 0, payload)

challengeTool(s) ==
    \E id \in ToolIds : Tool(s, "challenge", "challenge", id, Absent)

(* scoreRisk is synchronous and cannot fail.                               *)
getRiskScoreTool(s) ==
    Begin(s, [Task("mcp", "score", "returned", 0, Absent, "none")
                 EXCEPT !.answer = "score"])

(* Bound: how many policies there are in this environment.                 *)
RoomForPolicy ==
    Len(policies) + Cardinality({t \in Slots : /\ tasks[t].job = "buy"
                                               /\ At(t, "policy")}) < here.room

buyPolicyTool(s) ==
    /\ RoomForPolicy
    /\ Tool(s, "buy", "policy", 0, Absent)

submitClaimTool(s) ==
    \E id \in ToolIds, p \in ToolPolicyIds :
        Begin(s, [Task("mcp", "claim", "policy", id, Absent, "none")
                     EXCEPT !.policy = p])

(* The tools registered.  For the check, an environment names the tools    *)
(* its clients call: those over attestations, over policies, or attest.    *)
TOOLS(s) ==
    \/ /\ "mcp" \in here.services
       /\ \/ getAttestationTool(s)
          \/ verifyTool(s)
          \/ challengeTool(s)
    \/ /\ "attest" \in here.services
       /\ submitAttestationTool(s)
    \/ /\ "policies" \in here.services
       /\ getRiskScoreTool(s) \/ buyPolicyTool(s) \/ submitClaimTool(s)

CallTool(s) ==
    /\ At(s, "free")
    /\ TOOLS(s)
    /\ UNCHANGED <<records, storeVars, deployed, policies>>

(* The live client makes up a policy with the id 0 and pays every claim.   *)
PolicyPlaceholder(s) ==
    /\ Live
    /\ Return(s, IF tasks[s].job = "buy" THEN "policy" ELSE "paid")
    /\ UNCHANGED policies

CreatePolicyMock(s) ==
    /\ ~Live
    /\ tasks[s].job = "buy"
    /\ policies' = Append(policies, "Active")
    /\ Return(s, "policy")

(* Mutation: the attestation is looked up in place of the policy.          *)
RefusalByAttestation(p, id, lapsed) ==
    CASE id \notin Published -> "POLICY_NOT_FOUND"
      [] id \in Published /\ lapsed -> "POLICY_EXPIRED"
      [] OTHER -> "TRIGGER_NOT_COVERED"

(* The first error a claim meets.  The URI of a payload put by a tool has  *)
(* no tag for a trigger, so no claim of a tool comes to be paid.           *)
Refusal(p, id, lapsed) ==
    CASE p \notin DOMAIN policies -> "POLICY_NOT_FOUND"
      [] p \in DOMAIN policies /\ lapsed -> "POLICY_EXPIRED"
      [] p \in DOMAIN policies /\ ~lapsed /\ id \notin Published ->
            "ATTESTATION_NOT_FOUND"
      [] OTHER -> "TRIGGER_NOT_COVERED"

(* A policy lapses when its expiry, any time its buyer chose, has come, and *)
(* is then marked.                                                         *)
SubmitClaimMock(s) ==
    LET p == tasks[s].policy
    IN  /\ ~Live
        /\ tasks[s].job = "claim"
        /\ \E lapsed \in BOOLEAN :
              /\ p \in DOMAIN policies /\ policies[p] = "Expired" => lapsed
              /\ Return(s, Refusal(p, tasks[s].id, lapsed))
              /\ policies' = [q \in DOMAIN policies |->
                                 IF q = p /\ lapsed THEN "Expired"
                                 ELSE policies[q]]

PolicyStep(s) ==
    /\ At(s, "policy")
    /\ PolicyPlaceholder(s) \/ CreatePolicyMock(s) \/ SubmitClaimMock(s)
    /\ UNCHANGED <<records, storeVars, deployed>>

guard(s) ==
    /\ At(s, "returned")
    /\ tasks[s].by = "mcp"
    /\ Answer(s, tasks[s].answer)
    /\ UNCHANGED <<records, storeVars, deployed, policies>>
=============================================================================
