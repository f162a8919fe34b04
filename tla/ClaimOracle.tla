----------------------------- MODULE ClaimOracle ----------------------------
(***************************************************************************)
(* packages/agent/src/claim-oracle.ts: the decision on a claim from the    *)
(* evidence observed.  Confidences are in ten-thousandths until they are   *)
(* rounded to hundredths, amounts whole.                                   *)
(***************************************************************************)
EXTENDS Integers

CONSTANTS
    Deviations,     \* oracleDeviationBps, 0 where it was not given
    CoverChoices,   \* the trigger sets of the policies claimed against
    Coverages,      \* their coverage
    Losses          \* lossAmount, NoLoss where it was not given

NoLoss == -1

ASSUME ClaimAssumption ==
    /\ Deviations \subseteq Nat
    /\ Coverages \subseteq Nat
    /\ Losses \subseteq Nat \cup {NoLoss}

VARIABLE claim      \* the evidence and the decision on it, <<>> before

Signs == {"exploitDetected", "fundsDrained", "oracleStale", "agentSlashed",
          "agentMisbehaved", "maliciousProposal", "governanceTakeover"}

Evidence ==
    [signs: SUBSET Signs, oracleDeviationBps: Deviations,
     coveredTriggers: CoverChoices, coverage: Coverages, lossAmount: Losses]

Part(e, sign, confidence) == IF sign \in e.signs THEN confidence ELSE 0

scoreExploit(e) ==
    Part(e, "exploitDetected", 6000) + Part(e, "fundsDrained", 5000)

scoreAgentError(e) ==
    Part(e, "agentSlashed", 6000) + Part(e, "agentMisbehaved", 4500)

scoreGovernanceAttack(e) ==
    Part(e, "maliciousProposal", 5500) + Part(e, "governanceTakeover", 5000)

(* Mutation: the contribution of the deviation is not capped.              *)
deviationUncapped(bps) == IF bps < 500 THEN 0 ELSE 3000 + bps - 500

(* From 5% deviation on, up to a cap that is reached at 35%.               *)
deviationScore(bps) ==
    IF bps < 500 THEN 0 ELSE IF bps > 3500 THEN 6000 ELSE 3000 + bps - 500

scoreOracleFailure(e) ==
    Part(e, "oracleStale", 5500) + deviationScore(e.oracleDeviationBps)

(* In taxonomy order, in which the first of equals wins.                   *)
Triggers == <<"exploit", "oracle_failure", "agent_error", "governance_attack">>

(* A policy covers triggers of the taxonomy.                               *)
ASSUME CoverAssumption ==
    \A covered \in CoverChoices : covered \subseteq {Triggers[i] : i \in DOMAIN Triggers}

Score(e, trigger) ==
    CASE trigger = "exploit" -> scoreExploit(e)
      [] trigger = "oracle_failure" -> scoreOracleFailure(e)
      [] trigger = "agent_error" -> scoreAgentError(e)
      [] trigger = "governance_attack" -> scoreGovernanceAttack(e)

classify(e) ==
    Triggers[CHOOSE i \in DOMAIN Triggers :
                \A j \in DOMAIN Triggers :
                    LET mine == Score(e, Triggers[i])
                        other == Score(e, Triggers[j])
                    IN  IF j < i THEN mine > other ELSE mine >= other]

round2(confidence) == (2 * confidence + 100) \div 200

Confidence(e) ==
    LET uncapped == Score(e, classify(e))
    IN  round2(IF uncapped > 10000 THEN 10000 ELSE uncapped)

payoutAmount(e) ==
    IF e.lossAmount # NoLoss /\ e.lossAmount < e.coverage THEN e.lossAmount
    ELSE e.coverage

Decided(decision, trigger, amount) ==
    [decision |-> decision, triggerType |-> trigger, amount |-> amount]

evaluateClaim(e) ==
    LET confidence == Confidence(e)
        trigger == classify(e)
        covered == trigger \in e.coveredTriggers
    IN  CASE confidence = 0 -> Decided("reject", "none", 0)
          [] confidence >= 70 /\ covered ->
                Decided("payout", trigger, payoutAmount(e))
          [] confidence >= 40 /\ (confidence < 70 \/ ~covered) ->
                Decided("review", trigger, 0)
          [] OTHER -> Decided("reject", trigger, 0)

EvaluateClaim ==
    \/ /\ claim = <<>>
       /\ \E e \in Evidence : claim' = <<e, evaluateClaim(e)>>
    \/ claim # <<>> /\ claim' = <<>>
-----------------------------------------------------------------------------
(* There are two kinds of evidence for each trigger: its signs, or for the *)
(* oracle its one sign and the deviation.                                  *)
SignsOf(trigger) ==
    CASE trigger = "exploit" -> {"exploitDetected", "fundsDrained"}
      [] trigger = "oracle_failure" -> {"oracleStale"}
      [] trigger = "agent_error" -> {"agentSlashed", "agentMisbehaved"}
      [] trigger = "governance_attack" ->
            {"maliciousProposal", "governanceTakeover"}

Deviates(e) == e.oracleDeviationBps >= 500

Proven(e, trigger) ==
    SignsOf(trigger) \subseteq e.signs /\ (trigger = "oracle_failure" => Deviates(e))

Suspected(e, trigger) ==
    \/ SignsOf(trigger) \cap e.signs # {}
    \/ trigger = "oracle_failure" /\ Deviates(e)

(* A claim is paid only for a covered trigger that is indicated in both    *)
(* ways there are for it, never above the coverage or a stated loss; one   *)
(* that is not paid carries no amount and, if anything was suspected, the  *)
(* name of a trigger that was.  A covered trigger proven with nothing else *)
(* suspected is always paid, and further evidence never lowers the         *)
(* confidence.                                                             *)
ClaimDecisionSound ==
    claim # <<>> =>
        LET e == claim[1]
            d == claim[2]
            All == {Triggers[i] : i \in DOMAIN Triggers}
        IN  /\ d.decision = "payout" =>
                  /\ d.triggerType \in e.coveredTriggers
                  /\ Proven(e, d.triggerType)
                  /\ d.amount <= e.coverage
                  /\ e.lossAmount # NoLoss => d.amount <= e.lossAmount
            /\ d.decision # "payout" => d.amount = 0
            /\ IF \E t \in All : Suspected(e, t)
               THEN Suspected(e, d.triggerType)
               ELSE d.triggerType = "none"
            /\ \A t \in e.coveredTriggers :
                  (Proven(e, t) /\ \A u \in All \ {t} : ~Suspected(e, u))
                     => d.decision = "payout"
            /\ \A sign \in Signs :
                  Confidence([e EXCEPT !.signs = @ \cup {sign}])
                     >= Confidence(e)
=============================================================================
