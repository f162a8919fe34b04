----------------------------- MODULE OraclePage -----------------------------
(***************************************************************************)
(* The oracle page, apps/web/src/app/oracle/OracleView.tsx: a form that    *)
(* submits attestations and a list with a verify panel in every row.       *)
(***************************************************************************)
EXTENDS WebSdk

CONSTANT Texts      \* the texts of the JSON fields, "invalid" where not JSON

VARIABLE oracle     \* the rows: a panel is closed, open, or shows a verdict

OracleTypeOK == oracle \in Seq({"closed", "open", "pass", "fail"})

(* What the list shows when the page is opened: rows with closed panels.   *)
OracleFresh == [id \in Ids |-> "closed"]

parseJson(text) == text # "invalid"

canSubmit(modelId, output) == isConnected /\ parseJson(output) /\ modelId # ""

(* The submission and a refresh of the list, in which rows that were there *)
(* before keep their panels.                                               *)
SubmitFromForm(modelId, output, stake) ==
    /\ canSubmit(modelId, output)
    /\ SubmitOutput(modelId, "oracle_failure", stake, output)
    /\ oracle' = Append(oracle, "closed")

TogglePanel(id) ==
    /\ oracle' = [oracle EXCEPT ![id] =
                    IF @ = "closed" THEN "open" ELSE "closed"]
    /\ UNCHANGED sdkVars

VerifyInPanel(id, payload) ==
    /\ oracle[id] # "closed"
    /\ parseJson(payload)
    /\ oracle' = [oracle EXCEPT ![id] = verify(id, payload)]
    /\ UNCHANGED sdkVars

OracleStep ==
    \/ \E m \in ModelIds, output \in Texts, stake \in Offers :
          SubmitFromForm(m, output, stake)
    \/ \E id \in DOMAIN oracle :
          TogglePanel(id) \/ \E payload \in Texts : VerifyInPanel(id, payload)
=============================================================================
