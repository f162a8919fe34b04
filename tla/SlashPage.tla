------------------------------ MODULE SlashPage -----------------------------
(***************************************************************************)
(* The slash demo, apps/web/src/app/slash/SlashView.tsx: submit, verify a  *)
(* tampered payload, challenge, resolve as fraudulent.  The page keeps a   *)
(* copy of its attestation and refreshes it after each of its own writes.  *)
(***************************************************************************)
EXTENDS WebSdk

CONSTANTS
    HonestOutput,   \* HONEST_OUTPUT, what the demo attests
    Payloads        \* the valid JSON texts the user may verify

VARIABLE slash

SlashFresh == [step |-> "idle", id |-> 0, shown |-> "none", result |-> "none"]

SlashTypeOK ==
    slash \in [step: {"idle", "submitted", "verified", "challenged", "slashed"},
               id: 0 .. MaxAttestations,
               shown: {"none", "Active", "Challenged", "Slashed"},
               result: {"none", "pass", "fail"}]

SubmitOffered == isConnected /\ slash.step = "idle"

SubmitForDemo ==
    /\ SubmitOffered
    /\ SubmitOutput("riskscorer", "agent_error", 3, HonestOutput)
    /\ slash' = [slash EXCEPT !.step = "submitted", !.id = Count + 1,
                              !.shown = "Active"]

(* The verify button stays live once there is an attestation, whatever the *)
(* step: verifying again leads back to "verified".                         *)
VerifyOffered == slash.id # 0

VerifyPayload(payload) ==
    /\ VerifyOffered
    /\ slash' = [slash EXCEPT !.step = "verified",
                              !.result = verify(slash.id, payload)]
    /\ UNCHANGED sdkVars

ChallengeOffered == slash.result = "fail" /\ slash.step = "verified"

(* If the SDK refuses the challenge, the page shows why and stays put.     *)
ChallengeForDemo ==
    /\ ChallengeOffered
    /\ Challenge(slash.id)
    /\ slash' = [slash EXCEPT !.step = "challenged", !.shown = "Challenged"]
    /\ UNCHANGED outputs

ResolveOffered == slash.step = "challenged"

ResolveForDemo ==
    /\ ResolveOffered
    /\ Resolve(slash.id, TRUE)
    /\ slash' = [slash EXCEPT !.step = "slashed", !.shown = "Slashed"]
    /\ UNCHANGED outputs

(* "Run again" is offered at the last step only.                           *)
RunDemoAgain ==
    /\ slash.step = "slashed"
    /\ slash' = SlashFresh
    /\ UNCHANGED sdkVars

SlashStep ==
    \/ SubmitForDemo
    \/ \E payload \in Payloads : VerifyPayload(payload)
    \/ ChallengeForDemo
    \/ ResolveForDemo
    \/ RunDemoAgain
=============================================================================
