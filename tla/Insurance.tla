----------------------------- MODULE Insurance -----------------------------
(***************************************************************************)
(* contracts/src/insurance.rs: holders buy coverage in USDC, liquidity     *)
(* providers stake capital into the vault, and a claim is paid from the    *)
(* vault when an attestation of the claim oracle's model backs it.         *)
(*                                                                         *)
(* The registry is seen as insurance sees it, through the cross-contract   *)
(* read get_attestation: the records of AttestationLifecycle, which        *)
(* AttestationRegistry is shown to implement.  As in AttestationRegistry,  *)
(* an action is one whole deploy and a reverting call changes nothing.     *)
(***************************************************************************)
EXTENDS Cep18, Totals, FiniteSets

CONSTANTS
    Accounts,          \* holders, liquidity providers, attestors
    Vault,             \* the insurance contract's own address
    ModelIds,          \* the model ids attestations may name
    ClaimModel,        \* claim_model_id
    Commitments,       \* what attestations commit to
    PremiumBps,        \* premium_bps
    MaxU256,           \* the largest U256
    InitialBalances,   \* USDC held by each account at the start
    Coverages,         \* the coverages holders ask for
    TriggerTypes,      \* the trigger types there are
    TriggerChoices,    \* the sets of trigger types policies are bought with
    Expiries,          \* the expiries policies are bought with
    Amounts,           \* what providers stake and withdraw
    Approvals,         \* the allowances owners grant to the vault
    Gifts,             \* the amounts of direct USDC transfers
    Instants,          \* the block times that are looked at, in milliseconds
    MaxPolicies,       \* bound: how many policies are bought
    MaxAttestations    \* bound: how many attestations are published

BpsDenom == 10000

(* Addresses are 32-byte hashes: there are many, but not infinitely many.  *)
ASSUME AddressAssumption ==
    /\ Vault \notin Accounts
    /\ IsFiniteSet(Accounts)

ASSUME ConfigAssumption ==
    /\ ClaimModel \in ModelIds
    /\ PremiumBps \in Nat
    /\ PremiumBps <= BpsDenom         \* init reverts with BadConfig otherwise
    /\ MaxU256 \in Nat

ASSUME InputAssumption ==
    /\ InitialBalances \in [Accounts -> Nat]
    /\ Coverages \subseteq Nat
    /\ TriggerChoices \subseteq SUBSET TriggerTypes
    /\ Expiries \subseteq Nat
    /\ Amounts \subseteq Nat
    /\ Approvals \subseteq Nat
    /\ Gifts \subseteq Nat
    /\ 0 \in Instants
    /\ Instants \subseteq Nat
    /\ MaxPolicies \in Nat
    /\ MaxAttestations \in Nat

VARIABLES
    now,            \* block time, milliseconds
    usdc,           \* the USDC ledger
    records,        \* what get_attestation answers for each id
    policy_count,   \* the next policy id
    policies,       \* id -> Policy
    positions,      \* account -> what it has staked and not withdrawn
    total_staked    \* the sum the contract keeps beside the positions

contractVars == <<policy_count, policies, positions, total_staked>>
vars == <<now, usdc, records, policy_count, policies, positions, total_staked>>

Oracle == INSTANCE AttestationLifecycle WITH Attestors <- Accounts
-----------------------------------------------------------------------------
PolicyIds == 0 .. policy_count - 1

Policy ==
    [holder: Accounts, coverage: Nat, premium: Nat,
     trigger_types: SUBSET TriggerTypes, expiry: Nat,
     status: {"Active", "Claimed", "Expired"}]

TypeOK ==
    /\ now \in Nat
    /\ usdc \in Ledgers(Accounts \cup {Vault}, Accounts)
    /\ policy_count \in 0 .. MaxPolicies
    /\ policies \in [PolicyIds -> Policy]
    /\ positions \in [Accounts -> Nat]
    /\ total_staked \in Nat

ContractInit ==
    /\ usdc = [balances   |-> [p \in Accounts \cup {Vault} |->
                                 IF p = Vault THEN 0 ELSE InitialBalances[p]],
               allowances |-> [a \in Accounts |-> 0]]
    /\ policy_count = 0
    /\ policies = [id \in {} |-> 0]
    /\ positions = [a \in Accounts |-> 0]
    /\ total_staked = 0

Init ==
    /\ now = 0
    /\ ContractInit
    /\ Oracle!LifecycleInit
-----------------------------------------------------------------------------
vault_balance == usdc.balances[Vault]

(* The premium is a share of the coverage, rounded down.                   *)
Premium(coverage) == (coverage * PremiumBps) \div BpsDenom

NewPolicy(holder, coverage, triggers, expiry) ==
    [holder |-> holder, coverage |-> coverage, premium |-> Premium(coverage),
     trigger_types |-> triggers, expiry |-> expiry, status |-> "Active"]

(* buy_policy *)
BuyPolicy(holder, coverage, triggers, expiry) ==
    /\ policy_count < MaxPolicies
    /\ coverage > 0
    /\ coverage * PremiumBps <= MaxU256
    /\ CanTransferFrom(usdc, holder, Vault, Premium(coverage))
    /\ usdc' = TransferFrom(usdc, holder, Vault, Premium(coverage))
    /\ policies' =
          [id \in 0 .. policy_count |->
              IF id < policy_count THEN policies[id]
              ELSE NewPolicy(holder, coverage, triggers, expiry)]
    /\ policy_count' = policy_count + 1
    /\ UNCHANGED <<now, records, positions, total_staked>>

(* The expiry is compared with the block time as it is.                    *)
Expired(policy) == now > policy.expiry

(* Mutation: only a slash is looked at, not a pending dispute.             *)
BacksUnlessSlashed(id) ==
    /\ id \in Oracle!Published
    /\ records[id].model_id = ClaimModel
    /\ records[id].status # "Slashed"

(* Which attestations may back a payout at this moment: of the claim       *)
(* oracle's model, and neither under dispute nor slashed.                  *)
Backs(id) ==
    /\ id \in Oracle!Published
    /\ records[id].model_id = ClaimModel
    /\ records[id].status \in {"Active", "Finalized"}

(* Mutation: a policy is not checked to be unclaimed.                      *)
CanClaimAgain(caller, policy_id, attestation_id, trigger) ==
    /\ policy_id \in PolicyIds
    /\ LET policy == policies[policy_id]
       IN  /\ caller = policy.holder
           /\ ~Expired(policy)
           /\ trigger \in policy.trigger_types
           /\ Backs(attestation_id)
           /\ CanTransfer(usdc, Vault, policy.holder, policy.coverage)

(* claim, every check of it *)
CanClaim(caller, policy_id, attestation_id, trigger) ==
    /\ policy_id \in PolicyIds
    /\ LET policy == policies[policy_id]
       IN  /\ caller = policy.holder
           /\ policy.status = "Active"
           /\ ~Expired(policy)
           /\ trigger \in policy.trigger_types
           /\ Backs(attestation_id)
           /\ policy.coverage <= vault_balance
           /\ CanTransfer(usdc, Vault, policy.holder, policy.coverage)

(* Mutation: the policy is paid and not marked.                            *)
ClaimUnmarked(caller, policy_id, attestation_id, trigger) ==
    /\ CanClaim(caller, policy_id, attestation_id, trigger)
    /\ usdc' = Transfer(usdc, Vault, policies[policy_id].holder,
                        policies[policy_id].coverage)
    /\ UNCHANGED <<now, records, contractVars>>

(* Claimed before the transfer; both or neither take effect.               *)
Claim(caller, policy_id, attestation_id, trigger) ==
    /\ CanClaim(caller, policy_id, attestation_id, trigger)
    /\ policies' = [policies EXCEPT ![policy_id].status = "Claimed"]
    /\ usdc' = Transfer(usdc, Vault, policies[policy_id].holder,
                        policies[policy_id].coverage)
    /\ UNCHANGED <<now, records, policy_count, positions, total_staked>>

(* Mutation: a second stake replaces the position of the first.            *)
StakeOverwriting(staker, amount) ==
    /\ amount > 0
    /\ CanTransferFrom(usdc, staker, Vault, amount)
    /\ usdc' = TransferFrom(usdc, staker, Vault, amount)
    /\ positions' = [positions EXCEPT ![staker] = amount]
    /\ total_staked' = total_staked + amount
    /\ UNCHANGED <<now, records, policy_count, policies>>

(* Mutation: the running total is not raised.                              *)
StakeUncounted(staker, amount) ==
    /\ amount > 0
    /\ CanTransferFrom(usdc, staker, Vault, amount)
    /\ usdc' = TransferFrom(usdc, staker, Vault, amount)
    /\ positions' = [positions EXCEPT ![staker] = @ + amount]
    /\ UNCHANGED <<now, records, policy_count, policies, total_staked>>

(* stake *)
Stake(staker, amount) ==
    /\ amount > 0
    /\ CanTransferFrom(usdc, staker, Vault, amount)
    /\ usdc' = TransferFrom(usdc, staker, Vault, amount)
    /\ positions' = [positions EXCEPT ![staker] = @ + amount]
    /\ total_staked' = total_staked + amount
    /\ UNCHANGED <<now, records, policy_count, policies>>

(* Mutation: the position of the caller is not looked at.                  *)
CanUnstakeAnybodys(staker, amount) ==
    /\ amount > 0
    /\ amount <= vault_balance
    /\ amount <= total_staked
    /\ CanTransfer(usdc, Vault, staker, amount)

(* unstake, every check of it, the checked U256 subtraction included       *)
CanUnstake(staker, amount) ==
    /\ amount > 0
    /\ amount <= positions[staker]
    /\ amount <= vault_balance
    /\ amount <= total_staked
    /\ CanTransfer(usdc, Vault, staker, amount)

Unstake(staker, amount) ==
    /\ CanUnstake(staker, amount)
    /\ positions' = [positions EXCEPT ![staker] = @ - amount]
    /\ total_staked' = total_staked - amount
    /\ usdc' = Transfer(usdc, Vault, staker, amount)
    /\ UNCHANGED <<now, records, policy_count, policies>>
-----------------------------------------------------------------------------
(* Calls that go to the token directly.                                    *)
ApproveVault(owner, amount) ==
    /\ usdc' = Approve(usdc, owner, amount)
    /\ UNCHANGED <<now, records, contractVars>>

TransferUsdc(from, to, amount) ==
    /\ CanTransfer(usdc, from, to, amount)
    /\ usdc' = Transfer(usdc, from, to, amount)
    /\ UNCHANGED <<now, records, contractVars>>

(* One deploy of the vault or of its currency.                             *)
ContractNext ==
    \/ \E a \in Accounts, c \in Coverages, t \in TriggerChoices, e \in Expiries :
          BuyPolicy(a, c, t, e)
    \/ \E a \in Accounts, p \in PolicyIds, id \in Oracle!Published,
          t \in TriggerTypes : Claim(a, p, id, t)
    \/ \E a \in Accounts, amount \in Amounts : Stake(a, amount)
    \/ \E a \in Accounts, amount \in Amounts : Unstake(a, amount)
    \/ \E a \in Accounts, amount \in Approvals : ApproveVault(a, amount)
    \/ \E a \in Accounts, p \in Accounts \cup {Vault}, amount \in Gifts :
          TransferUsdc(a, p, amount)

(* Meanwhile attestations are published, disputed and settled,             *)
OracleStep ==
    /\ Oracle!LifecycleNext
    /\ UNCHANGED <<now, usdc, contractVars>>

(* and time passes.                                                        *)
Tick ==
    /\ now' \in {t \in Instants : t > now}
    /\ UNCHANGED <<usdc, records, contractVars>>

Next == ContractNext \/ OracleStep \/ Tick

Spec == Init /\ [][Next]_vars
-----------------------------------------------------------------------------
(* The total the contract keeps is the sum of the positions it keeps.      *)
PositionsAddUp == total_staked = SumOver(positions, Accounts)

(* A provider is only ever refused for lack of liquidity: whatever part of *)
(* its position the vault can cover, it can withdraw (the running total    *)
(* cannot underflow and block it).                                         *)
PositionsRedeemable ==
    \A a \in Accounts, amount \in Amounts \ {0} :
        (amount <= positions[a] /\ amount <= vault_balance)
            => CanUnstake(a, amount)

(* What the records say the vault took in and paid out over its life.      *)
Premiums == Total([id \in PolicyIds |-> policies[id].premium], policy_count)

PaidOut ==
    Total([id \in PolicyIds |->
              IF policies[id].status = "Claimed" THEN policies[id].coverage
              ELSE 0], policy_count)

BookValue == total_staked + Premiums - PaidOut

VaultSurplus == vault_balance - BookValue

(* The vault's USDC is exactly what its books say (capital plus premiums   *)
(* less payouts), save for what is sent to it directly: no policy is paid  *)
(* twice or for more than its coverage, no premium is charged that is not  *)
(* on record, and no withdrawal is paid without reducing a position.       *)
VaultByTheBook ==
    [][ \/ VaultSurplus' = VaultSurplus
        \/ VaultSurplus' > VaultSurplus /\ UNCHANGED contractVars ]_vars

(* The books are never short of USDC: what the providers cannot get back   *)
(* is bounded by the claims paid less the premiums taken in.               *)
BooksCovered == VaultSurplus >= 0

(* A dispute stops payouts at once and a slash stops them for good: while  *)
(* no attestation of the claim oracle is out of dispute and unslashed,     *)
(* nobody is paid, whatever was paid before and whoever asks.              *)
Trusted ==
    {id \in Oracle!Published :
        /\ records[id].model_id = ClaimModel
        /\ records[id].status \notin {"Challenged", "Slashed"}}

NoPayoutWithoutTrust ==
    [][ Trusted = {} => PaidOut' = PaidOut ]_vars
-----------------------------------------------------------------------------
(* Statements of the repository that the contract does not keep.           *)

(* Expiries are documented as unix seconds: a policy is live until then.   *)
LiveUntilExpiry ==
    \A id \in PolicyIds :
        now <= policies[id].expiry * 1000 => ~Expired(policies[id])

(* Capital is documented as withdrawable only while the vault stays        *)
(* collateralised at 120% of the coverage outstanding.                     *)
MinSolvencyRatioBps == 12000

Live(policy) == policy.status = "Active" /\ ~Expired(policy)

CoverageOutstanding ==
    Total([id \in PolicyIds |->
              IF Live(policies[id]) THEN policies[id].coverage ELSE 0],
          policy_count)

WithdrawalsKeepCover ==
    [][ total_staked' < total_staked =>
          vault_balance' * BpsDenom >= CoverageOutstanding * MinSolvencyRatioBps
      ]_vars

(* Providers are documented to earn from premiums: once every risk they     *)
(* carried is over, what is left of the premiums is theirs to withdraw.    *)
PremiumsReachProviders ==
    (total_staked > 0 /\ \A id \in PolicyIds : ~Live(policies[id])) =>
        vault_balance <= SumOver(positions, Accounts)
=============================================================================
