------------------------------- MODULE WebApp -------------------------------
(***************************************************************************)
(* The web application: one page is mounted at a time, over the client and *)
(* the wallet all pages share.  Leaving a page drops its state and clears  *)
(* its timers; the in-memory backend and the wallet stay.                  *)
(***************************************************************************)
EXTENDS StakingPage, SlashPage, InsurancePage, OraclePage, AssessmentPage

(* The constants of the backend admit what the pages send to it.           *)
ASSUME WebAssumption ==
    /\ MockAccount \in Accounts
    /\ {"riskscorer", "claimoracle"} \subseteq ModelIds
    /\ {"agent_error", "oracle_failure"} \cup BuyableTriggers \subseteq Uris
    /\ {{covered} : covered \in BuyableTriggers} \subseteq TriggerChoices

VARIABLE page   \* the page on screen

pageStates == <<staking, slash, insurance, oracle, assessment, result>>
webVars == <<sdkVars, wallet, page, pageStates>>

Pages == {"home", "oracle", "attest", "insurance", "staking", "slash",
          "result"}

WebTypeOK ==
    /\ TypeOK
    /\ DOMAIN outputs = Ids
    /\ wallet \in {"disconnected", "connecting", "connected"}
    /\ page \in Pages
    /\ StakingTypeOK
    /\ SlashTypeOK
    /\ InsuranceTypeOK
    /\ OracleTypeOK
    /\ AssessmentTypeOK

(* The application is opened at its front page or through a shared result. *)
WebInit ==
    /\ Init
    /\ outputs = <<>>
    /\ WalletInit
    /\ \/ page = "home" /\ result = <<>>
       \/ page = "result" /\ result \in DecodedResults
    /\ staking = StakingFresh
    /\ slash = SlashFresh
    /\ insurance = InsuranceFresh
    /\ oracle = <<>>
    /\ assessment = AssessmentFresh

(* The page on screen is replaced by a fresh one.                          *)
Mount(p) ==
    /\ page' = p
    /\ staking' = StakingFresh
    /\ slash' = SlashFresh
    /\ insurance' = InsuranceFresh
    /\ oracle' = IF p = "oracle" THEN OracleFresh ELSE <<>>
    /\ assessment' = AssessmentFresh
    /\ UNCHANGED <<sdkVars, wallet>>

(* A link of the navigation bar, or of a page to one of its pages.         *)
Visit(p) == Mount(p) /\ result' = <<>>

ViewResult ==
    /\ ResultLinked
    /\ Mount("result")
    /\ result' = LinkedResult

OnPage ==
    \/ /\ page = "staking" /\ StakingStep
       /\ UNCHANGED <<outputs, slash, insurance, oracle, assessment, result>>
    \/ /\ page = "slash" /\ SlashStep
       /\ UNCHANGED <<staking, insurance, oracle, assessment, result>>
    \/ /\ page = "insurance" /\ InsuranceStep
       /\ UNCHANGED <<staking, slash, oracle, assessment, result>>
    \/ /\ page = "oracle" /\ OracleStep
       /\ UNCHANGED <<staking, slash, insurance, assessment, result>>
    \/ /\ page = "attest" /\ AssessmentStep
       /\ UNCHANGED <<sdkVars, staking, slash, insurance, oracle>>

WalletStep ==
    /\ PressWalletButton \/ FinishHandshake
    /\ UNCHANGED <<sdkVars, page, pageStates>>

WebNext ==
    \/ OnPage /\ UNCHANGED <<wallet, page>>
    \/ WalletStep
    \/ \E p \in Pages \ {"result"} : Visit(p)
    \/ ViewResult

(* Browsers fire the timers of a page that is left open.                   *)
WebSpec ==
    /\ WebInit
    /\ [][WebNext]_webVars
    /\ WF_webVars(PipelineTimer /\ UNCHANGED <<sdkVars, wallet, page, staking,
                                               slash, insurance, oracle>>)
-----------------------------------------------------------------------------
(* The slash demo's badge is the status of its attestation on record, and  *)
(* the step it is at is where that attestation is: nobody else rules on    *)
(* it, and no button writes without the page knowing.  "verified" says     *)
(* nothing: verifying again returns to it from every later step.           *)
SlashTellsStatus ==
    slash.id # 0 =>
        /\ slash.shown = attestations[slash.id].status
        /\ slash.step = "submitted" => slash.shown = "Active"
        /\ slash.step = "challenged" => slash.shown = "Challenged"
        /\ slash.step = "slashed" => slash.shown = "Slashed"

(* The SDK pays a claimed policy again; through the pages each policy is   *)
(* paid once, as no page offers the trigger of a claimed policy.           *)
PoliciesPaidOnce ==
    /\ \A p \in PolicyIds : Payouts(p) <= 1
    /\ \A i \in DOMAIN insurance.policies :
          insurance.policies[i].status = "Claimed"
             <=> policies[insurance.policies[i].id].status = "Claimed"

(* A summary is shown only when every factor has been scanned, and they    *)
(* are scanned one at a time and in order, whatever timers of an earlier   *)
(* run were pending.                                                       *)
SummaryComplete ==
    /\ assessment.phase = "summary" => AllScanned
    /\ \A k \in FactorIds : assessment.steps[k] # "pending" =>
          1 .. k - 1 \subseteq DoneSteps

PagesTellState == SlashTellsStatus /\ PoliciesPaidOnce /\ SummaryComplete

(* Every assessment that is started comes to its summary, unless the user  *)
(* leaves the page or starts another run.                                  *)
AssessmentCompletes ==
    \A n \in 1 .. MaxRuns :
        (assessment.run = n)
           ~> (assessment.run # n \/ assessment.phase = "summary")
=============================================================================
