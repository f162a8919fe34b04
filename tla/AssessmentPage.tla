---------------------------- MODULE AssessmentPage --------------------------
(***************************************************************************)
(* The risk assessment: apps/web/src/app/attest/AttestView.tsx with its    *)
(* animated pipeline (components/AttestationPipeline.tsx), and the page of *)
(* a shared result (app/attestation/[id]/AttestationResult.tsx).           *)
(*                                                                         *)
(* The score is there before the first timer fires.  Each timer of the     *)
(* pipeline is an action; a re-run may come between any two of them, and   *)
(* mounts a new pipeline whose predecessor's timers are cleared.           *)
(***************************************************************************)
EXTENDS WebSdk, RiskModel

CONSTANTS
    MaxRuns,        \* bound: how many runs are started in one visit
    SharedScores,   \* the scores of the results shared by link
    Jitters,        \* the jitters of seeds, each a function on the factors
    JitterOf        \* seed -> the jitter of its factors, a digest of it

ASSUME SharedAssumption ==
    /\ MaxRuns \in Nat
    /\ SharedScores \subseteq 0 .. 100
    /\ Jitters \subseteq [FactorIds -> -JitterSpread .. JitterSpread]
    /\ JitterOf \in [Seeds -> Jitters]

VARIABLES
    assessment,     \* the mounted pipeline
    result          \* the score and jitter the result page shows, or <<>>

(* run 0: nothing has been assessed since the page was opened.             *)
AssessmentFresh ==
    [run |-> 0, seed |-> "none", score |-> 0, phase |-> "collect",
     timer |-> "none", steps |-> [k \in FactorIds |-> "pending"]]

AssessmentTypeOK ==
    /\ assessment \in
          [run: 0 .. MaxRuns, seed: Seeds \cup {"none"}, score: 0 .. 100,
           phase: {"collect", "analyze", "summary"},
           timer: {"none", "collect", "scan", "gap", "reveal"},
           steps: [FactorIds -> {"pending", "scanning", "done"}]]
    /\ result = <<>> \/ result \in (0 .. 100) \X Jitters
-----------------------------------------------------------------------------
(* run: the key of the pipeline changes, so a new one is mounted; it gets  *)
(* the score of its seed and waits, or with reduced motion is done.        *)
RunAssessment(seed, reducedMotion) ==
    /\ assessment.run < MaxRuns
    /\ assessment' =
          [run |-> assessment.run + 1, seed |-> seed,
           score |-> RiskScoreOf[seed],
           phase |-> IF reducedMotion THEN "summary" ELSE "collect",
           timer |-> IF reducedMotion THEN "none" ELSE "collect",
           steps |-> [k \in FactorIds |->
                        IF reducedMotion THEN "done" ELSE "pending"]]
    /\ UNCHANGED result

(* 1300 ms after the score: the analysis begins with the first factor.     *)
BeginAnalysis ==
    /\ assessment.timer = "collect"
    /\ assessment' = [assessment EXCEPT !.phase = "analyze", !.timer = "scan",
                                        !.steps[1] = "scanning"]
    /\ UNCHANGED result

(* The step the analysis is at: the first one not done yet.                *)
DoneSteps == {k \in FactorIds : assessment.steps[k] = "done"}
Current == CHOOSE k \in FactorIds \ DoneSteps : 1 .. k - 1 \subseteq DoneSteps

(* Mutation: the last scan sets no timer for the next step.                *)
FinishScanAlone ==
    /\ assessment.timer = "scan"
    /\ assessment' =
          [assessment EXCEPT
             !.steps[Current] = "done",
             !.timer = IF Current = Len(Factors) THEN "none" ELSE "gap"]
    /\ UNCHANGED result

(* The scan timer of the current factor.                                   *)
FinishScan ==
    /\ assessment.timer = "scan"
    /\ assessment' = [assessment EXCEPT !.steps[Current] = "done",
                                        !.timer = "gap"]
    /\ UNCHANGED result

AllScanned == DoneSteps = FactorIds

(* 180 ms after a scan, runStep: the next factor, or the wait of 450 ms    *)
(* before the summary.                                                     *)
NextStep ==
    /\ assessment.timer = "gap"
    /\ assessment' =
          IF AllScanned THEN [assessment EXCEPT !.timer = "reveal"]
          ELSE [assessment EXCEPT !.steps[Current] = "scanning",
                                  !.timer = "scan"]
    /\ UNCHANGED result

Reveal ==
    /\ assessment.timer = "reveal"
    /\ assessment' = [assessment EXCEPT !.phase = "summary", !.timer = "none"]
    /\ UNCHANGED result

PipelineTimer == BeginAnalysis \/ FinishScan \/ NextStep \/ Reveal

AssessmentStep ==
    \/ \E seed \in Seeds, reducedMotion \in BOOLEAN :
          RunAssessment(seed, reducedMotion)
    \/ PipelineTimer

(* The id of a shared link is the encoded seed, whose digests are the score *)
(* and the jitter; an id that does not decode is "not found".              *)
DecodedResults == {<<>>} \cup (SharedScores \X Jitters)

(* The link of a summary, whose page decodes the seed and asks for its     *)
(* score again.                                                            *)
ResultLinked == assessment.phase = "summary"
LinkedResult ==
    <<RiskScoreOf[assessment.seed], JitterOf[assessment.seed]>>

(* The breakdown tells the score it is shown with: each factor is in range, *)
(* the weighted mean of the factors is the score within rounding, or       *)
(* within two points where clamping at 0 or 100 interferes, the group      *)
(* scores add their own rounding only, and the agent's scorer, given the   *)
(* factors as its signals, agrees.  The tier shown is at most one step     *)
(* from the agent's and the SDK's, and what the agent blocks is not        *)
(* insurable.                                                              *)
BreakdownTellsScore ==
    result # <<>> =>
        LET shown == ResultBody(result[1], result[2])
        IN  /\ Reconciles(shown)
            /\ OneStepApart(shown.tier, agentTier(shown.score))
            /\ OneStepApart(shown.tier, sdkTier(shown.score))
            /\ decisionForTier[agentTier(shown.score)] = "block"
                  => ~shown.insurable
=============================================================================
