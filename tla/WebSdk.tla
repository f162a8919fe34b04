------------------------------- MODULE WebSdk -------------------------------
(***************************************************************************)
(* What the pages of the web application share: the one client they all    *)
(* talk to (apps/web/src/lib/sdk.ts, always on the in-memory backend) and  *)
(* the wallet.  The in-memory SDK answers in microtasks, before the        *)
(* browser takes the next event, so a page's handler with all its awaits   *)
(* is one action, and its busy flag is never seen.                         *)
(***************************************************************************)
EXTENDS MockBackend, Wallet

CONSTANTS
    Seeds,          \* the addresses and inputs the user may have scored, trimmed
    RiskScoreOf     \* seed -> getRiskScore, a digest of it: any score in 0 .. 100

ASSUME RiskScoreAssumption == RiskScoreOf \in [Seeds -> 0 .. 100]

VARIABLE outputs    \* the outputHash of each attestation, hashes being perfect

sdkVars == <<vars, outputs>>

(* A page submits in the name of the account of the wallet, which is also  *)
(* what the SDK falls back to when no wallet is connected.                 *)
SubmitOutput(modelId, uri, stake, output) ==
    /\ SubmitAttestation(MockAccount, modelId, uri, stake)
    /\ outputs' = Append(outputs, output)

(* CasperProofSdk.verify: the verdict on a payload, which is data and not  *)
(* an error.  Neither status nor stake of the attestation matter.          *)
verify(id, payload) == IF payload = outputs[id] THEN "pass" ELSE "fail"
=============================================================================
