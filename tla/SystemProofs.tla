---------------------------- MODULE SystemProofs ---------------------------
(* What the contracts guarantee together, for every value of the constants *)
(* of CasperProof.  A deploy of the vault is a stuttering step of the      *)
(* registry, so what is proved of the registry holds of the system; and    *)
(* the system is shown to implement the specification of the vault, so     *)
(* what is proved of the vault holds of the one that reads the registry's  *)
(* real records.                                                           *)
EXTENDS CasperProof, AttestationRegistryProofs

(* The vault with its proofs, instantiated as CasperProof instantiates it: *)
(* Ins and InsP name the same formulas.                                    *)
InsP == INSTANCE InsuranceProofs
          WITH records <- Readable, InitialBalances <- UsdcBalances,
               Approvals <- UsdcApprovals, Gifts <- UsdcGifts
-----------------------------------------------------------------------------
(* The registry within the system.                                         *)

(* Each step of the system is a step of the registry or leaves it alone.   *)
LEMMA SystemRegistryStep == [SystemNext]_systemVars => [Next]_vars
BY DEF SystemNext, RegistryStep, InsuranceStep, systemVars, registryVars, vars

(* Seen from the registry, the deployed system is a registry.              *)
LEMMA SystemRegistry == SystemSpec => Spec
<1>1. SystemInit => Init
  BY DEF SystemInit
<1>2. [SystemNext]_systemVars => [Next]_vars
  BY SystemRegistryStep
<1>3. QED
  BY <1>1, <1>2, PTL DEF SystemSpec, Spec

(* A deploy of the registry takes no time.                                 *)
LEMMA RegistryClock == Next => Tick \/ now' = now
BY DEF Next, Submit, Challenge, Resolve, Finalize, ApproveRegistry, TransferStake
-----------------------------------------------------------------------------
(* The vault within the system.                                            *)

(* What a reader of the registry sees moves as the vault expects of its    *)
(* oracle: the two instances of the lifecycle are the same.                *)
LEMMA SameLifecycle == Lifecycle!LifecycleNext <=> Ins!Oracle!LifecycleNext
BY DEF Lifecycle!LifecycleNext, Lifecycle!Publish, Lifecycle!Dispute,
       Lifecycle!Rule, Lifecycle!Lapse, Lifecycle!Advance, Lifecycle!Published,
       Ins!Oracle!LifecycleNext, Ins!Oracle!Publish, Ins!Oracle!Dispute,
       Ins!Oracle!Rule, Ins!Oracle!Lapse, Ins!Oracle!Advance,
       Ins!Oracle!Published

(* A deploy of the registry is an oracle step of the vault, time passing   *)
(* is time passing, and a deploy of the vault is one.                      *)
LEMMA SystemVaultStep ==
    TypeOK /\ [SystemNext]_systemVars => [Ins!Next]_(Ins!vars)
<1> SUFFICES ASSUME TypeOK, [SystemNext]_systemVars
             PROVE  [Ins!Next]_(Ins!vars)
  OBVIOUS
<1>1. CASE RegistryStep
  <2>1. UNCHANGED insuranceVars /\ Next
    BY <1>1 DEF RegistryStep
  <2>2. CASE Tick
    <3>1. Readable' = Readable
      BY <2>2 DEF Tick, Readable, Ids
    <3>2. Ins!Tick
      BY <2>1, <2>2, <3>1 DEF Tick, Ins!Tick, Ins!contractVars, insuranceVars
    <3>3. QED
      BY <3>2 DEF Ins!Next
  <2>3. CASE now' = now
    <3>1. [Lifecycle!LifecycleNext]_Readable
      BY <2>1, NextLifecycle
    <3>2. ASSUME Lifecycle!LifecycleNext
          PROVE  Ins!OracleStep
      BY <2>1, <2>3, <3>2, SameLifecycle
      DEF Ins!OracleStep, Ins!contractVars, insuranceVars
    <3>3. ASSUME Readable' = Readable
          PROVE  UNCHANGED Ins!vars
      BY <2>1, <2>3, <3>3 DEF Ins!vars, insuranceVars
    <3>4. QED
      BY <3>1, <3>2, <3>3 DEF Ins!Next
  <2>4. QED
    BY <2>1, <2>2, <2>3, RegistryClock
<1>2. CASE InsuranceStep
  BY <1>2 DEF InsuranceStep, Ins!Next
<1>3. CASE UNCHANGED systemVars
  <2>1. Readable' = Readable
    BY <1>3 DEF systemVars, registryVars, Readable, Ids
  <2>2. UNCHANGED Ins!vars
    BY <1>3, <2>1 DEF systemVars, insuranceVars, Ins!vars
  <2>3. QED
    BY <2>2
<1>4. QED
  BY <1>1, <1>2, <1>3 DEF SystemNext

(* The vault built on the abstract lifecycle and the vault that reads the  *)
(* records the registry really keeps behave alike.                         *)
THEOREM VaultImplemented == SystemSpec => ImplementsInsurance
<1>1. SystemInit => Ins!Init
  BY DEF SystemInit, Init, Readable, Ids, Ins!Init, Ins!Oracle!LifecycleInit
<1>2. TypeOK /\ [SystemNext]_systemVars => [Ins!Next]_(Ins!vars)
  BY SystemVaultStep
<1>3. QED
  BY <1>1, <1>2, SystemRegistry, TypeCorrect, PTL
  DEF SystemSpec, ImplementsInsurance, Ins!Spec
-----------------------------------------------------------------------------
(* What is proved of the vault, applied to the one of the system.          *)

(* The vault the properties are stated of and the one InsuranceProofs is   *)
(* about are the same: they start alike,                                   *)
LEMMA SameInit == Ins!Init <=> InsP!Init
BY DEF Ins!Init, InsP!Init, Ins!ContractInit, InsP!ContractInit,
       Ins!Oracle!LifecycleInit, InsP!Oracle!LifecycleInit

(* take the same deploys,                                                  *)
LEMMA SameContract == Ins!ContractNext <=> InsP!ContractNext
BY DEF Ins!ContractNext, Ins!BuyPolicy, Ins!Claim, Ins!Stake, Ins!Unstake,
       Ins!ApproveVault, Ins!TransferUsdc, Ins!PolicyIds, Ins!Premium,
       Ins!NewPolicy, Ins!BpsDenom, Ins!CanClaim, Ins!CanUnstake, Ins!Expired,
       Ins!Backs, Ins!vault_balance, Ins!contractVars, Ins!Oracle!Published,
       Ins!CanTransfer, Ins!Transfer, Ins!CanTransferFrom, Ins!TransferFrom,
       Ins!Approve,
       InsP!ContractNext, InsP!BuyPolicy, InsP!Claim, InsP!Stake, InsP!Unstake,
       InsP!ApproveVault, InsP!TransferUsdc, InsP!PolicyIds, InsP!Premium,
       InsP!NewPolicy, InsP!BpsDenom, InsP!CanClaim, InsP!CanUnstake,
       InsP!Expired, InsP!Backs, InsP!vault_balance, InsP!contractVars,
       InsP!Oracle!Published, InsP!CanTransfer, InsP!Transfer,
       InsP!CanTransferFrom, InsP!TransferFrom, InsP!Approve

(* see the oracle do the same,                                             *)
LEMMA SameOracle == Ins!OracleStep <=> InsP!OracleStep
BY DEF Ins!OracleStep, Ins!contractVars, Ins!Oracle!LifecycleNext,
       Ins!Oracle!Publish, Ins!Oracle!Dispute, Ins!Oracle!Rule,
       Ins!Oracle!Lapse, Ins!Oracle!Advance, Ins!Oracle!Published,
       InsP!OracleStep, InsP!contractVars, InsP!Oracle!LifecycleNext,
       InsP!Oracle!Publish, InsP!Oracle!Dispute, InsP!Oracle!Rule,
       InsP!Oracle!Lapse, InsP!Oracle!Advance, InsP!Oracle!Published

(* and so take the same steps.                                             *)
LEMMA SameNext == [Ins!Next]_(Ins!vars) <=> [InsP!Next]_(InsP!vars)
<1>1. Ins!Tick <=> InsP!Tick
  BY DEF Ins!Tick, InsP!Tick, Ins!contractVars, InsP!contractVars
<1>2. UNCHANGED Ins!vars <=> UNCHANGED InsP!vars
  BY DEF Ins!vars, InsP!vars
<1>3. QED
  BY <1>1, <1>2, SameContract, SameOracle DEF Ins!Next, InsP!Next

(* Seen from the vault, the deployed system is a vault with its oracle.    *)
LEMMA SystemVault == SystemSpec => InsP!Spec
BY VaultImplemented, SameInit, SameNext, PTL
DEF ImplementsInsurance, Ins!Spec, InsP!Spec

(* The assumptions of Insurance on its constants hold of CasperProof's.    *)
LEMMA VaultConstants ==
    /\ /\ Vault \notin Accounts
       /\ InsP!IsFiniteSet(Accounts)
    /\ /\ ClaimModel \in ModelIds
       /\ PremiumBps \in Nat
       /\ PremiumBps <= InsP!BpsDenom
       /\ MaxU256 \in Nat
    /\ /\ UsdcBalances \in [Accounts -> Nat]
       /\ Coverages \subseteq Nat
       /\ TriggerChoices \subseteq SUBSET TriggerTypes
       /\ Expiries \subseteq Nat
       /\ Amounts \subseteq Nat
       /\ UsdcApprovals \subseteq Nat
       /\ UsdcGifts \subseteq Nat
       /\ 0 \in Instants
       /\ Instants \subseteq Nat
       /\ MaxPolicies \in Nat
       /\ MaxAttestations \in Nat
<1>1. Instants \subseteq Nat
  BY WidthAssumption
<1>2. InsP!IsFiniteSet(Accounts)
  BY VaultAssumption DEF IsFiniteSet, InsP!IsFiniteSet
<1>3. QED
  BY <1>1, <1>2, VaultAssumption, InputAssumption, WidthAssumption
  DEF BpsDenom, InsP!BpsDenom

(* They have paid the same sum,                                            *)
LEMMA SamePaidOut == Ins!PaidOut = InsP!PaidOut /\ Ins!PaidOut' = InsP!PaidOut'
BY DEF Ins!PaidOut, Ins!PolicyIds, Ins!Total, Ins!PartialSums,
       InsP!PaidOut, InsP!PolicyIds, InsP!Total, InsP!PartialSums

(* and keep the same books.                                                *)
LEMMA SameBooks == Ins!BooksCovered <=> InsP!BooksCovered
BY DEF Ins!BooksCovered, Ins!VaultSurplus, Ins!BookValue, Ins!vault_balance,
       Ins!Premiums, Ins!PaidOut, Ins!PolicyIds, Ins!Total, Ins!PartialSums,
       InsP!BooksCovered, InsP!VaultSurplus, InsP!BookValue,
       InsP!vault_balance, InsP!Premiums, InsP!PaidOut, InsP!PolicyIds,
       InsP!Total, InsP!PartialSums

(* Both ledgers stay covered, however the deploys of the two contracts     *)
(* interleave.                                                             *)
THEOREM BothAlwaysSolvent == SystemSpec => []BothSolvent
<1>1. InsP!Spec => []InsP!BooksCovered
  BY VaultConstants, InsP!BooksAlwaysCovered
<1>2. Solvent /\ InsP!BooksCovered => BothSolvent
  BY SameBooks DEF BothSolvent
<1>3. QED
  BY <1>1, <1>2, SystemRegistry, SystemVault, AlwaysSolvent, PTL
-----------------------------------------------------------------------------
(* What stands behind a payout.                                            *)

(* No attestation is published with less than the minimum stake, and the   *)
(* stake of a published one never changes.                                 *)
StakesAreEnough == \A id \in Ids : attestations[id].stake >= MinStake

(* No deploy of the system lets payouts outgrow the stakes behind them.    *)
LEMMA NextStakes ==
    ASSUME TypeOK, StakesAreEnough, [Next]_vars
    PROVE  StakesAreEnough'
<1>1. ASSUME Ids' = Ids,
             \A id \in Ids : attestations'[id].stake = attestations[id].stake
      PROVE  StakesAreEnough'
  BY <1>1 DEF StakesAreEnough
<1>2. ASSUME NEW a \in Accounts, NEW m \in ModelIds, NEW c \in Commitments,
             NEW s \in Stakes, Submit(a, m, c, s)
      PROVE  StakesAreEnough'
  <2> DEFINE new == attestations'[count]
  <2>1. /\ Ids' = Ids \cup {count}
        /\ \A id \in Ids : attestations'[id] = attestations[id]
        /\ new = [attestor |-> a, model_id |-> m, commitment |-> c,
                  stake |-> s, created_at |-> now, status |-> "Active",
                  challenger |-> NoOne, challenge_bond |-> 0,
                  challenged_at |-> 0]
    BY <1>2, SubmitRecords
  <2>2. s >= MinStake
    BY <1>2 DEF Submit
  <2> HIDE DEF new
  <2>3. new.stake = s
    BY <2>1
  <2>4. QED
    BY <2>1, <2>2, <2>3 DEF StakesAreEnough, new
<1>3. ASSUME NEW a \in Accounts, NEW id \in Ids, Challenge(a, id)
      PROVE  StakesAreEnough'
  <2> DEFINE old == attestations[id]
             new == attestations'[id]
  <2>1. /\ Ids' = Ids
        /\ \A i \in Ids : i # id => attestations'[i] = attestations[i]
        /\ new = [old EXCEPT !.status = "Challenged", !.challenger = a,
                            !.challenge_bond = ChallengeBond,
                            !.challenged_at = now]
    BY <1>3, ChallengeRecords
  <2>2. old \in Attestation
    BY DEF TypeOK
  <2> HIDE DEF old, new
  <2>3. new.stake = old.stake
    BY <2>1, <2>2 DEF Attestation
  <2>4. QED
    BY <1>1, <2>1, <2>3 DEF old, new
<1>4. ASSUME NEW a \in Accounts, NEW id \in Ids, NEW fraudulent \in BOOLEAN,
             Resolve(a, id, fraudulent)
      PROVE  StakesAreEnough'
  <2> DEFINE old == attestations[id]
             new == attestations'[id]
  <2>1. /\ Ids' = Ids
        /\ \A i \in Ids : i # id => attestations'[i] = attestations[i]
        /\ new = [old EXCEPT !.status = IF fraudulent THEN "Slashed"
                                                 ELSE "Finalized"]
    BY <1>4, ResolveRecords
  <2>2. old \in Attestation
    BY DEF TypeOK
  <2> HIDE DEF old, new
  <2>3. new.stake = old.stake
    BY <2>1, <2>2 DEF Attestation
  <2>4. QED
    BY <1>1, <2>1, <2>3 DEF old, new
<1>5. ASSUME NEW id \in Ids, Finalize(id)
      PROVE  StakesAreEnough'
  <2> DEFINE old == attestations[id]
             new == attestations'[id]
  <2>1. /\ Ids' = Ids
        /\ \A i \in Ids : i # id => attestations'[i] = attestations[i]
        /\ new = [old EXCEPT !.status = "Finalized"]
    BY <1>5, FinalizeRecords
  <2>2. old \in Attestation
    BY DEF TypeOK
  <2> HIDE DEF old, new
  <2>3. new.stake = old.stake
    BY <2>1, <2>2 DEF Attestation
  <2>4. QED
    BY <1>1, <2>1, <2>3 DEF old, new
<1>6. ASSUME UNCHANGED <<count, attestations>>
      PROVE  StakesAreEnough'
  BY <1>6 DEF StakesAreEnough, Ids
<1>7. QED
  BY <1>2, <1>3, <1>4, <1>5, <1>6
  DEF Next, ApproveRegistry, TransferStake, Tick, vars

(* What the vault may trust has its stake in the registry, or has survived *)
(* its dispute window or a verdict.                                        *)
LEMMA TrustIsStaked ==
    ASSUME IInv, StakesAreEnough, NEW id \in InsP!Trusted
    PROVE  LET att == attestations[id]
           IN  /\ id \in Ids
               /\ att.model_id = ClaimModel
               /\ \/ att.status = "Finalized"
                  \/ /\ att.status = "Active"
                     /\ att.stake >= MinStake
                     /\ token.balances[Self] >= att.stake
<1> DEFINE att == attestations[id]
<1>1. id \in Ids /\ att.model_id = ClaimModel
      /\ att.status \notin {"Challenged", "Slashed"}
  BY DEF InsP!Trusted, InsP!Oracle!Published, Readable
<1>2. TypeOK /\ att \in Attestation
  BY <1>1 DEF IInv, TypeOK
<1>3. att.status \in {"Finalized", "Active"}
  BY <1>1, <1>2 DEF Attestation, Statuses
<1>4. ASSUME att.status = "Active"
      PROVE  token.balances[Self] >= att.stake
  <2>1. Locked(att) <= Escrowed /\ Escrowed \in Nat
    BY <1>1, <1>2, EscrowedCovers
  <2>2. Locked(att) = att.stake + att.challenge_bond
    BY <1>4 DEF Locked, Terminal
  <2>3. att.stake \in Nat /\ att.challenge_bond \in Nat
    BY <1>2 DEF Attestation
  <2>4. token.balances[Self] \in Nat
    BY <1>2 DEF TypeOK, Ledgers
  <2>5. token.balances[Self] - Escrowed >= 0
    BY DEF IInv, Solvent, Surplus
  <2> HIDE DEF att
  <2>6. QED
    BY <2>1, <2>2, <2>3, <2>4, <2>5
<1>5. att.stake >= MinStake
  BY <1>1 DEF StakesAreEnough
<1>6. QED
  BY <1>1, <1>3, <1>4, <1>5

(* Whenever the vault pays, there is an attestation of the claim oracle    *)
(* that was found sound or whose stake is still at risk in the registry.   *)
THEOREM PayoutsBacked == SystemSpec => PayoutsAreStaked
<1> DEFINE Backed ==
             \E id \in Ids :
                 LET att == attestations[id]
                 IN  /\ att.model_id = ClaimModel
                     /\ \/ att.status = "Finalized"
                        \/ /\ att.status = "Active"
                           /\ att.stake >= MinStake
                           /\ token.balances[Self] >= att.stake
<1>1. InsP!Spec => []InsP!TypeOK
  BY VaultConstants, InsP!VaultTypeCorrect
<1>2. InsP!Spec => InsP!NoPayoutWithoutTrust
  BY VaultConstants, InsP!DisputeStopsPayouts
<1>3. InsP!TypeOK => InsP!PaidOut \in Nat
  BY VaultConstants, InsP!BooksNat
<1>4. Init => StakesAreEnough
  BY DEF Init, StakesAreEnough, Ids
<1>5. TypeOK /\ StakesAreEnough /\ [Next]_vars => StakesAreEnough'
  BY NextStakes
<1>6. ASSUME InsP!TypeOK, IInv, StakesAreEnough,
             [InsP!Trusted = {} => InsP!PaidOut' = InsP!PaidOut]_(InsP!vars)
      PROVE  [Ins!PaidOut' > Ins!PaidOut => Backed]_systemVars
  <2> SUFFICES ASSUME Ins!PaidOut' > Ins!PaidOut
               PROVE  Backed
    OBVIOUS
  <2>1. InsP!PaidOut' # InsP!PaidOut
    <3>1. ASSUME InsP!PaidOut' = InsP!PaidOut
          PROVE  Ins!PaidOut' = Ins!PaidOut /\ Ins!PaidOut \in Nat
      BY <1>3, <1>6, <3>1, SamePaidOut
    <3>2. QED
      BY <3>1
  <2>2. UNCHANGED InsP!vars => InsP!PaidOut' = InsP!PaidOut
    BY DEF InsP!vars, InsP!PaidOut, InsP!PolicyIds
  <2>3. PICK id : id \in InsP!Trusted
    BY <1>6, <2>1, <2>2
  <2>4. QED
    BY <1>6, <2>3, TrustIsStaked
<1>7. QED
  BY <1>1, <1>2, <1>4, <1>5, <1>6, SystemRegistry, SystemVault, IInvInductive,
     TypeCorrect, PTL
  DEF Spec, PayoutsAreStaked, InsP!NoPayoutWithoutTrust
=============================================================================
