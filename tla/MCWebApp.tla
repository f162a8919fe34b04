------------------------------ MODULE MCWebApp ------------------------------
(* Instances of WebApp for TLC.                                            *)
EXTENDS WebApp

CONSTANTS me, none

MCRiskScoreOf == [seed \in Seeds |-> 38]

MCJitterOf ==
    [seed \in Seeds |-> [i \in FactorIds |-> IF i = 1 THEN -22000 ELSE 21999]]

MCScores == 0 .. 100

(* All factors of a group jitter alike, or one factor against all others.  *)
MCJitters ==
    {[i \in FactorIds |-> IF Factors[i].group \in S THEN 22000 ELSE -22000] :
        S \in SUBSET Groups}
    \cup {[i \in FactorIds |-> IF i = k THEN -22000 ELSE 21999] :
             k \in FactorIds}
=============================================================================
