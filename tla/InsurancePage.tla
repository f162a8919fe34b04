---------------------------- MODULE InsurancePage ---------------------------
(***************************************************************************)
(* The insurance page, apps/web/src/app/insurance/InsuranceView.tsx: score *)
(* an address, buy a policy, simulate its trigger.  The page lists the     *)
(* policies bought since it was opened, in copies of its own.              *)
(***************************************************************************)
EXTENDS WebSdk

CONSTANTS
    BuyableTriggers,\* the triggers chosen from the list (bound)
    Later,          \* the expiry a policy is bought with, a year from now
    ClaimOutput     \* the output the simulated claim oracle attests

ASSUME InsurancePageAssumption ==
    /\ BuyableTriggers \subseteq Triggers
    /\ Later \in Expiries

VARIABLE insurance

InsuranceFresh == [score |-> 101, policies |-> <<>>, claim |-> <<>>]

InsuranceTypeOK ==
    /\ insurance.score \in 0 .. 101     \* 101: nothing scored yet
    /\ insurance.policies \in
          Seq([id: 1 .. MaxPolicies, covered: BuyableTriggers,
               status: {"Active", "Claimed"}])
    /\ insurance.claim = <<>>           \* no claim yet, or policy and attestation
          \/ insurance.claim \in (1 .. MaxPolicies) \X (1 .. MaxAttestations)

ScoreAddress(seed) ==
    /\ insurance' = [insurance EXCEPT !.score = RiskScoreOf[seed]]
    /\ UNCHANGED sdkVars

BuyOffered == isConnected

BuyPolicy(covered) ==
    /\ BuyOffered
    /\ CreatePolicy({covered}, Later)
    /\ insurance' = [insurance EXCEPT !.policies =
          <<[id |-> Len(policies) + 1, covered |-> covered,
             status |-> "Active"]>> \o @]
    /\ UNCHANGED outputs

(* The button of a policy is live while its copy is Active, with or        *)
(* without a wallet.                                                       *)
TriggerOffered(i) ==
    i \in DOMAIN insurance.policies /\ insurance.policies[i].status = "Active"

Submitted(id) == [name |-> "AttestationSubmitted", id |-> id]
Paid(p) == [name |-> "ClaimPaid", id |-> p]

(* handleSimulateTrigger submits an attestation tagged with the trigger    *)
(* the policy covers ...                                                   *)
AttestTrigger(covered) ==
    /\ Count < MaxAttestations
    /\ attestations' = Append(attestations,
          NewAttestation(MockAccount, "claimoracle", covered))
    /\ outputs' = Append(outputs, ClaimOutput)

(* Mutation: the page keeps its copy of a claimed policy as it was.        *)
MarkedNot(i) == insurance.policies

Marked(i) == [insurance.policies EXCEPT ![i].status = "Claimed"]

(* ... and files the claim, which pays and marks the copy ...              *)
TriggerPays(i, now) ==
    LET p == insurance.policies[i].id
        covered == insurance.policies[i].covered
    IN  /\ TriggerOffered(i)
        /\ AttestTrigger(covered)
        /\ ~Lapsed(policies[p], now)
        /\ Covers(policies[p], attestations'[Count + 1])
        /\ policies' = [policies EXCEPT ![p].status = "Claimed"]
        /\ EmitAll(<<Submitted(Count + 1), Paid(p)>>)
        /\ insurance' = [insurance EXCEPT !.policies = Marked(i),
                                          !.claim = <<p, Count + 1>>]
        /\ UNCHANGED <<reputations, stakedTotal>>

(* ... or, on a page left open for a year, is refused: the attestation has *)
(* been submitted all the same, and the copy still says Active.            *)
TriggerRefused(i, now) ==
    LET p == insurance.policies[i].id
    IN  /\ TriggerOffered(i)
        /\ AttestTrigger(insurance.policies[i].covered)
        /\ Lapsed(policies[p], now)
        /\ policies' = [policies EXCEPT ![p].status = "Expired"]
        /\ EmitAll(<<Submitted(Count + 1)>>)
        /\ UNCHANGED <<reputations, stakedTotal, insurance>>

InsuranceStep ==
    \/ \E seed \in Seeds : ScoreAddress(seed)
    \/ \E covered \in BuyableTriggers : BuyPolicy(covered)
    \/ \E i \in DOMAIN insurance.policies, now \in Times :
          TriggerPays(i, now) \/ TriggerRefused(i, now)
=============================================================================
