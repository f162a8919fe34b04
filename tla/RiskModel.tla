----------------------------- MODULE RiskModel ------------------------------
(***************************************************************************)
(* packages/agent/src/risk-scorer.ts and the web application's mirror of   *)
(* it, apps/web/src/lib/riskFactors.ts: the fifteen weighted factors, the  *)
(* tiers scores are put in, and the breakdown the web application derives  *)
(* from a score.  Weights are in percent; digests, which decide a seed's   *)
(* signals and jitter, are any values in range.                            *)
(***************************************************************************)
EXTENDS Totals, Sequences

Factor(key, group, weight) == [key |-> key, group |-> group, weight |-> weight]

(* FACTOR_TABLE of the web application.                                    *)
Factors ==
    << Factor("failureRate", "TRANSACTION", 5),
       Factor("txVelocity", "TRANSACTION", 5),
       Factor("volatility", "TRANSACTION", 9),
       Factor("oracleDeviation", "PROTOCOL", 9),
       Factor("counterpartyRisk", "PROTOCOL", 8),
       Factor("bridgeExposure", "PROTOCOL", 6),
       Factor("leverageRatio", "PROTOCOL", 7),
       Factor("exploitHistory", "SECURITY", 10),
       Factor("slashingHistory", "SECURITY", 6),
       Factor("upgradeRisk", "SECURITY", 4),
       Factor("auditCoverage", "SECURITY", 4),
       Factor("age", "IDENTITY", 4),
       Factor("liquidity", "IDENTITY", 10),
       Factor("concentration", "IDENTITY", 8),
       Factor("governanceActivity", "IDENTITY", 5) >>

FactorIds == DOMAIN Factors
Groups == {"TRANSACTION", "PROTOCOL", "SECURITY", "IDENTITY"}

(* SIGNAL_WEIGHTS of the agent.                                            *)
SignalWeights ==
    [liquidity |-> 10, volatility |-> 9, concentration |-> 8,
     counterpartyRisk |-> 8, oracleDeviation |-> 9, governanceActivity |-> 5,
     exploitHistory |-> 10, age |-> 4, txVelocity |-> 5, failureRate |-> 5,
     bridgeExposure |-> 6, leverageRatio |-> 7, slashingHistory |-> 6,
     upgradeRisk |-> 4, auditCoverage |-> 4]

(* The tiers of the agent (default thresholds), of the web application and *)
(* of the SDK's in-memory and REST backends, which know no EXTREME.        *)
agentTier(score) ==
    CASE score < 34 -> "LOW"
      [] score \in 34 .. 66 -> "MEDIUM"
      [] score \in 67 .. 84 -> "HIGH"
      [] OTHER -> "EXTREME"

webTier(score) ==
    CASE score < 40 -> "LOW"
      [] score \in 40 .. 59 -> "MEDIUM"
      [] score \in 60 .. 79 -> "HIGH"
      [] OTHER -> "EXTREME"

sdkTier(score) ==
    CASE score < 34 -> "LOW"
      [] score \in 34 .. 66 -> "MEDIUM"
      [] OTHER -> "HIGH"

decisionForTier ==
    [LOW |-> "allow", MEDIUM |-> "monitor", HIGH |-> "restrict",
     EXTREME |-> "block"]

(* verdictForTier: who qualifies for cover at all.                         *)
insurable(tier) == tier # "EXTREME"
-----------------------------------------------------------------------------
clamp(n, low, high) == IF n < low THEN low ELSE IF n > high THEN high ELSE n

(* Math.round of n / d.                                                    *)
Rounded(n, d) == (2 * n + d) \div (2 * d)

Sum(values, weights) ==
    Total([i \in 0 .. Len(Factors) - 1 |-> values[i + 1] * weights[i + 1]],
          Len(Factors))

Weighted(values, ids) ==
    Sum(values, [i \in FactorIds |->
                    IF i \in ids THEN Factors[i].weight ELSE 0])

(* The agent's score of signals, which are whole numbers.                  *)
scoreRisk(signals) ==
    LET values == [i \in FactorIds |-> clamp(signals[Factors[i].key], 0, 100)]
        weights == [i \in FactorIds |-> SignalWeights[Factors[i].key]]
    IN  clamp(Rounded(Sum(values, weights), 100), 0, 100)

(* Values are in thousandths of a point from here on.                      *)
JitterSpread == 22000
Jittered(target, jitter) ==
    [i \in FactorIds |-> clamp(1000 * target + jitter[i], 0, 100000)]

Bias(target, values) == 1000 * target - Weighted(values, FactorIds) \div 100

(* One pass: shift everything by the bias, unless it is small enough.      *)
Pass(target, values) ==
    LET bias == Bias(target, values)
    IN  IF -50 < bias /\ bias < 50 THEN values
        ELSE [i \in FactorIds |-> clamp(values[i] + bias, 0, 100000)]

(* Mutation: one pass is taken to be enough.                               *)
ReconciledOnce(target, values) == Pass(target, values)

Reconciled(target, values) ==
    LET After[n \in 0 .. 6] ==
          IF n = 0 THEN values ELSE Pass(target, After[n - 1])
    IN  After[6]

(* computeFactors: the value of each factor, in points.                    *)
computeFactors(jitter, score) ==
    LET target == clamp(score, 0, 100)
        values == Reconciled(target, Jittered(target, jitter))
    IN  [i \in FactorIds |-> Rounded(values[i], 1000)]

InGroup(group) == {i \in FactorIds : Factors[i].group = group}
GroupWeight(group) == Weighted([i \in FactorIds |-> 1], InGroup(group))

(* computeCategories: the weighted mean of the factors of each group.      *)
computeCategories(values) ==
    [group \in Groups |->
        Rounded(Weighted(values, InGroup(group)), GroupWeight(group))]

(* What the page of a result shows, score and jitter being its seed's.     *)
ResultBody(score, jitter) ==
    LET values == computeFactors(jitter, score)
    IN  [score |-> score, tier |-> webTier(score), factors |-> values,
         categories |-> computeCategories(values),
         insurable |-> insurable(webTier(score))]
-----------------------------------------------------------------------------
(* How far a breakdown may be from its score, in hundredths of a point:    *)
(* the rounding of the factors, or two points where clamping interferes.   *)
Tolerance(score) == IF score \in 25 .. 75 THEN 55 ELSE 200

Near(sum, score, tolerance) ==
    sum \in 100 * score - tolerance .. 100 * score + tolerance

(* The factors' weighted mean tells the score, so does the group scores',  *)
(* and so does the agent's scorer when it is given the factors as signals. *)
Reconciles(shown) ==
    LET values == shown.factors
        score == shown.score
        rolledUp == [i \in FactorIds |-> shown.categories[Factors[i].group]]
        keys == {Factors[i].key : i \in FactorIds}
        signals == [key \in keys |->
                      values[CHOOSE i \in FactorIds : Factors[i].key = key]]
    IN  /\ \A i \in FactorIds : values[i] \in 0 .. 100
        /\ Near(Weighted(values, FactorIds), score, Tolerance(score))
        /\ Near(Weighted(rolledUp, FactorIds), score, Tolerance(score) + 50)
        /\ Near(100 * scoreRisk(signals), score, Tolerance(score) + 50)

Ordered == <<"LOW", "MEDIUM", "HIGH", "EXTREME">>
OneStepApart(tier, other) ==
    \E i, j \in DOMAIN Ordered :
        Ordered[i] = tier /\ Ordered[j] = other /\ i - j \in -1 .. 1
=============================================================================
