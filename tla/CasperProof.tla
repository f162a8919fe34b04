---------------------------- MODULE CasperProof ----------------------------
(***************************************************************************)
(* The contracts as they are deployed together (contracts/bin/livenet.rs): *)
(* the registry with its STAKE token and the insurance vault with its      *)
(* USDC, on one chain with one clock.  The vault reads the registry's real *)
(* records (Readable) instead of an abstract lifecycle, and every deploy   *)
(* of one contract may fall between any two deploys of the other.          *)
(***************************************************************************)
EXTENDS AttestationRegistry

CONSTANTS
    Vault, ClaimModel, PremiumBps, Coverages, TriggerTypes, TriggerChoices,
    Expiries, Amounts, MaxPolicies,   \* as in Insurance
    UsdcBalances,                     \* its InitialBalances
    UsdcApprovals,                    \* its Approvals
    UsdcGifts                         \* its Gifts

(* What Insurance assumes of its constants, of these.                      *)
ASSUME VaultAssumption ==
    /\ Vault \notin Accounts
    /\ IsFiniteSet(Accounts)
    /\ ClaimModel \in ModelIds
    /\ PremiumBps \in Nat
    /\ PremiumBps <= BpsDenom
    /\ UsdcBalances \in [Accounts -> Nat]
    /\ Coverages \subseteq Nat
    /\ TriggerChoices \subseteq SUBSET TriggerTypes
    /\ Expiries \subseteq Nat
    /\ Amounts \subseteq Nat
    /\ UsdcApprovals \subseteq Nat
    /\ UsdcGifts \subseteq Nat
    /\ MaxPolicies \in Nat

VARIABLES usdc, policy_count, policies, positions, total_staked

insuranceVars == <<usdc, policy_count, policies, positions, total_staked>>
registryVars == <<token, count, attestations, reputations>>
systemVars == <<now, registryVars, insuranceVars>>

Ins == INSTANCE Insurance
         WITH records <- Readable, InitialBalances <- UsdcBalances,
              Approvals <- UsdcApprovals, Gifts <- UsdcGifts

SystemInit == Init /\ Ins!ContractInit

RegistryStep == Next /\ UNCHANGED insuranceVars
InsuranceStep == UNCHANGED <<now, registryVars>> /\ Ins!ContractNext

SystemNext == RegistryStep \/ InsuranceStep

SystemSpec == SystemInit /\ [][SystemNext]_systemVars
-----------------------------------------------------------------------------
(* Put together, the contracts still behave as the vault was checked to    *)
(* behave against the abstract lifecycle.                                  *)
ImplementsInsurance == Ins!Spec

(* The two ledgers stay covered while deploys of both contracts interleave.*)
BothSolvent == Solvent /\ Ins!BooksCovered

(* Every payout has somebody's money behind it: when the vault pays, there *)
(* is an attestation of the claim oracle whose stake was found sound, or   *)
(* is still in the registry, at least the minimum, free to be slashed.     *)
PayoutsAreStaked ==
    [][ Ins!PaidOut' > Ins!PaidOut =>
          \E id \in Ids :
              LET att == attestations[id]
              IN  /\ att.model_id = ClaimModel
                  /\ \/ att.status = "Finalized"
                     \/ /\ att.status = "Active"
                        /\ att.stake >= MinStake
                        /\ token.balances[Self] >= att.stake ]_systemVars
=============================================================================
