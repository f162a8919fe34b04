--------------------------- MODULE InsuranceProofs --------------------------
(* What Insurance guarantees for every value of its constants.             *)
EXTENDS Insurance, LedgerProofs

-----------------------------------------------------------------------------
(* Types.                                                                  *)

Holders == Accounts \cup {Vault}

(* The constants of a well-typed state that every proof below uses.        *)
LEMMA VaultTypes ==
    ASSUME TypeOK
    PROVE  /\ usdc \in Ledgers(Holders, Accounts)
           /\ \A p \in Holders : usdc.balances[p] \in Nat
           /\ vault_balance \in Nat
           /\ policy_count \in Nat
           /\ Vault \in Holders
           /\ \A a \in Accounts : a \in Holders \cap Accounts /\ a # Vault
BY AddressAssumption, InputAssumption
DEF TypeOK, Holders, Ledgers, vault_balance

(* A premium is a natural number, whatever the coverage.                   *)
LEMMA PremiumNat ==
    ASSUME NEW coverage \in Nat
    PROVE  Premium(coverage) \in Nat
<1> DEFINE product == coverage * PremiumBps
<1>1. product \in Nat
  BY ConfigAssumption
<1> HIDE DEF product
<1>2. product \div 10000 \in Nat
  BY <1>1
<1>3. QED
  BY <1>2 DEF Premium, BpsDenom, product

(* The state init leaves behind, USDC distributed, is well typed.          *)
LEMMA InitTypeOK == Init => TypeOK
<1> SUFFICES ASSUME Init
             PROVE  TypeOK
  OBVIOUS
<1>1. usdc \in Ledgers(Accounts \cup {Vault}, Accounts)
  BY AddressAssumption, InputAssumption DEF Init, ContractInit, Ledgers
<1>2. policies \in [PolicyIds -> Policy] /\ policy_count \in 0 .. MaxPolicies
  BY InputAssumption DEF Init, ContractInit, PolicyIds
<1>3. QED
  BY <1>1, <1>2 DEF Init, ContractInit, TypeOK

(* What buying a policy does to the policies: one more, the others as      *)
(* before.                                                                 *)
LEMMA BuyRecords ==
    ASSUME TypeOK, NEW a \in Accounts, NEW c \in Coverages,
           NEW t \in TriggerChoices, NEW e \in Expiries, BuyPolicy(a, c, t, e)
    PROVE  /\ policy_count' = policy_count + 1
           /\ PolicyIds' = 0 .. policy_count
           /\ policies' = [id \in 0 .. policy_count |->
                             IF id \in PolicyIds THEN policies[id]
                             ELSE NewPolicy(a, c, t, e)]
           /\ NewPolicy(a, c, t, e) \in Policy
           /\ policy_count \in 0 .. policy_count /\ policy_count \notin PolicyIds
<1>1. policy_count \in Nat /\ policy_count' = policy_count + 1
  BY VaultTypes DEF BuyPolicy
<1>2. PolicyIds' = 0 .. policy_count
  BY <1>1 DEF PolicyIds
<1>3. \A id \in 0 .. policy_count : id < policy_count <=> id \in PolicyIds
  BY <1>1 DEF PolicyIds
<1>4. policies' = [id \in 0 .. policy_count |->
                     IF id \in PolicyIds THEN policies[id]
                     ELSE NewPolicy(a, c, t, e)]
  BY <1>3 DEF BuyPolicy
<1>5. c \in Nat /\ e \in Nat /\ t \in SUBSET TriggerTypes
  BY InputAssumption
<1>6. Premium(c) \in Nat
  BY <1>5, PremiumNat
<1>7. NewPolicy(a, c, t, e) \in Policy
  BY <1>5, <1>6 DEF NewPolicy, Policy
<1>8. policy_count \in 0 .. policy_count /\ policy_count \notin PolicyIds
  BY <1>1 DEF PolicyIds
<1>9. QED
  BY <1>1, <1>2, <1>4, <1>7, <1>8

(* buy_policy: the premium is pulled from balance and allowance.           *)
LEMMA BuyTypeOK ==
    ASSUME TypeOK, NEW a \in Accounts, NEW c \in Coverages,
           NEW t \in TriggerChoices, NEW e \in Expiries, BuyPolicy(a, c, t, e)
    PROVE  TypeOK'
<1>1. usdc' \in Ledgers(Accounts \cup {Vault}, Accounts)
  <2>1. c \in Nat /\ Premium(c) \in Nat
    BY InputAssumption, PremiumNat
  <2>2. CanTransferFrom(usdc, a, Vault, Premium(c))
        /\ usdc' = TransferFrom(usdc, a, Vault, Premium(c))
    BY DEF BuyPolicy
  <2>3. QED
    BY <2>1, <2>2, VaultTypes, PullLedger DEF Holders
<1>2. policies' \in [PolicyIds' -> Policy]
  <2>1. \A id \in PolicyIds : policies[id] \in Policy
    BY DEF TypeOK
  <2>2. QED
    BY <2>1, BuyRecords
<1>3. policy_count' \in 0 .. MaxPolicies
  BY InputAssumption DEF TypeOK, BuyPolicy
<1>4. UNCHANGED <<now, positions, total_staked>>
  BY DEF BuyPolicy
<1>5. QED
  BY <1>1, <1>2, <1>3, <1>4 DEF TypeOK

(* What a claim does to the policies: it marks the one that is paid.       *)
LEMMA ClaimRecords ==
    ASSUME TypeOK, NEW a \in Accounts, NEW p \in PolicyIds,
           NEW id \in Oracle!Published, NEW t \in TriggerTypes,
           Claim(a, p, id, t)
    PROVE  /\ PolicyIds' = PolicyIds /\ policy_count' = policy_count
           /\ policies[p] \in Policy
           /\ policies[p].status = "Active"
           /\ \A q \in PolicyIds : q # p => policies'[q] = policies[q]
           /\ policies'[p] = [policies[p] EXCEPT !.status = "Claimed"]
           /\ policies' \in [PolicyIds -> Policy]
<1>1. policies \in [PolicyIds -> Policy] /\ policies[p] \in Policy
  BY DEF TypeOK
<1>2. policies' = [policies EXCEPT ![p] = [policies[p] EXCEPT !.status = "Claimed"]]
  BY DEF Claim
<1>3. [policies[p] EXCEPT !.status = "Claimed"] \in Policy
  BY <1>1 DEF Policy
<1>4. PolicyIds' = PolicyIds /\ policy_count' = policy_count
  BY DEF Claim, PolicyIds
<1>5. policies[p].status = "Active"
  BY DEF Claim, CanClaim
<1>6. QED
  BY <1>1, <1>2, <1>3, <1>4, <1>5

(* claim: the coverage that is paid out is there.                          *)
LEMMA ClaimTypeOK ==
    ASSUME TypeOK, NEW a \in Accounts, NEW p \in PolicyIds,
           NEW id \in Oracle!Published, NEW t \in TriggerTypes,
           Claim(a, p, id, t)
    PROVE  TypeOK'
<1>1. usdc' \in Ledgers(Accounts \cup {Vault}, Accounts)
  <2>1. policies[p].coverage \in Nat /\ policies[p].holder \in Accounts
    BY DEF TypeOK, Policy
  <2>2. CanTransfer(usdc, Vault, policies[p].holder, policies[p].coverage)
        /\ usdc' = Transfer(usdc, Vault, policies[p].holder, policies[p].coverage)
    BY DEF Claim, CanClaim
  <2>3. QED
    BY <2>1, <2>2, VaultTypes, TransferLedger DEF Holders
<1>2. UNCHANGED <<now, policy_count, positions, total_staked>>
  BY DEF Claim
<1>3. QED
  BY <1>1, <1>2, ClaimRecords DEF TypeOK

(* stake: capital comes in.                                                *)
LEMMA StakeTypeOK ==
    ASSUME TypeOK, NEW a \in Accounts, NEW amount \in Amounts, Stake(a, amount)
    PROVE  TypeOK'
<1>1. amount \in Nat
  BY InputAssumption
<1>2. usdc' \in Ledgers(Accounts \cup {Vault}, Accounts)
  <2>1. CanTransferFrom(usdc, a, Vault, amount)
        /\ usdc' = TransferFrom(usdc, a, Vault, amount)
    BY DEF Stake
  <2>2. QED
    BY <1>1, <2>1, VaultTypes, PullLedger DEF Holders
<1>3. positions' \in [Accounts -> Nat] /\ total_staked' \in Nat
  BY <1>1 DEF TypeOK, Stake
<1>4. UNCHANGED <<now, policy_count, policies>> /\ PolicyIds' = PolicyIds
  BY DEF Stake, PolicyIds
<1>5. QED
  BY <1>2, <1>3, <1>4 DEF TypeOK

(* unstake: neither a position nor the total can go below zero.            *)
LEMMA UnstakeTypeOK ==
    ASSUME TypeOK, NEW a \in Accounts, NEW amount \in Amounts, Unstake(a, amount)
    PROVE  TypeOK'
<1>1. amount \in Nat
  BY InputAssumption
<1>2. usdc' \in Ledgers(Accounts \cup {Vault}, Accounts)
  <2>1. CanTransfer(usdc, Vault, a, amount)
        /\ usdc' = Transfer(usdc, Vault, a, amount)
    BY DEF Unstake, CanUnstake
  <2>2. QED
    BY <1>1, <2>1, VaultTypes, TransferLedger DEF Holders
<1>3. positions' \in [Accounts -> Nat] /\ total_staked' \in Nat
  BY <1>1 DEF TypeOK, Unstake, CanUnstake
<1>4. UNCHANGED <<now, policy_count, policies>> /\ PolicyIds' = PolicyIds
  BY DEF Unstake, PolicyIds
<1>5. QED
  BY <1>2, <1>3, <1>4 DEF TypeOK

(* Calls to the token itself keep the types and never take from the vault. *)
LEMMA DirectUsdc ==
    ASSUME TypeOK, NEW a \in Accounts,
           \/ \E amount \in Approvals : ApproveVault(a, amount)
           \/ \E p \in Accounts \cup {Vault}, amount \in Gifts :
                 TransferUsdc(a, p, amount)
    PROVE  /\ usdc' \in Ledgers(Accounts \cup {Vault}, Accounts)
           /\ vault_balance' \in Nat
           /\ vault_balance' >= vault_balance
           /\ UNCHANGED <<now, records, contractVars>>
<1>1. ASSUME NEW amount \in Approvals, ApproveVault(a, amount)
      PROVE  /\ usdc' \in Ledgers(Accounts \cup {Vault}, Accounts)
             /\ vault_balance' = vault_balance
  <2>1. amount \in Nat
    BY InputAssumption
  <2>2. QED
    BY <1>1, <2>1, VaultTypes, ApproveLedger DEF ApproveVault, Holders, vault_balance
<1>2. ASSUME NEW p \in Accounts \cup {Vault}, NEW amount \in Gifts,
             TransferUsdc(a, p, amount)
      PROVE  /\ usdc' \in Ledgers(Accounts \cup {Vault}, Accounts)
             /\ vault_balance' = vault_balance + Moved(Vault, a, p, amount)
             /\ Moved(Vault, a, p, amount) \in Nat
  <2>1. amount \in Nat
    BY InputAssumption
  <2>2. CanTransfer(usdc, a, p, amount) /\ usdc' = Transfer(usdc, a, p, amount)
    BY <1>2 DEF TransferUsdc
  <2>3. /\ usdc \in Ledgers(Holders, Accounts) /\ a \in Holders
        /\ p \in Holders /\ Vault \in Holders /\ a # Vault
    BY VaultTypes DEF Holders
  <2>4. /\ usdc' \in Ledgers(Holders, Accounts)
        /\ usdc'.balances[Vault]
             = usdc.balances[Vault] + Moved(Vault, a, p, amount)
    BY <2>1, <2>2, <2>3, TransferLedger
  <2>5. Moved(Vault, a, p, amount) \in Nat
    BY <2>1, <2>3 DEF Moved
  <2>6. QED
    BY <2>4, <2>5 DEF Holders, vault_balance
<1>3. UNCHANGED <<now, records, contractVars>>
  BY DEF ApproveVault, TransferUsdc
<1>4. QED
  BY <1>1, <1>2, <1>3, VaultTypes, SMTT(60)

(* So every deploy keeps the types.                                        *)
LEMMA NextTypeOK == TypeOK /\ [Next]_vars => TypeOK'
<1> SUFFICES ASSUME TypeOK, [Next]_vars
             PROVE  TypeOK'
  OBVIOUS
<1>1. ASSUME NEW a \in Accounts,
             \/ \E amount \in Approvals : ApproveVault(a, amount)
             \/ \E p \in Accounts \cup {Vault}, amount \in Gifts :
                   TransferUsdc(a, p, amount)
      PROVE  TypeOK'
  BY <1>1, DirectUsdc DEF TypeOK, PolicyIds, contractVars
<1>2. CASE OracleStep
  BY <1>2 DEF OracleStep, TypeOK, PolicyIds, contractVars
<1>3. CASE Tick
  BY <1>3, InputAssumption DEF Tick, TypeOK, PolicyIds, contractVars
<1>4. CASE UNCHANGED vars
  BY <1>4 DEF vars, TypeOK, PolicyIds
<1>5. CASE ContractNext
  BY <1>1, <1>5, BuyTypeOK, ClaimTypeOK, StakeTypeOK, UnstakeTypeOK
  DEF ContractNext
<1>6. QED
  BY <1>2, <1>3, <1>4, <1>5 DEF Next

(* Every reachable state of the vault is well typed: in particular no      *)
(* sequence of deploys makes a balance, a position or the staked total     *)
(* negative.                                                               *)
THEOREM VaultTypeCorrect == Spec => []TypeOK
BY InitTypeOK, NextTypeOK, PTL DEF Spec
-----------------------------------------------------------------------------
(* The books.                                                              *)

(* What one policy has paid out.                                           *)
Paid(policy) == IF policy.status = "Claimed" THEN policy.coverage ELSE 0

(* The terms of the two sums are natural numbers, and so are the sums.     *)
LEMMA BooksNat ==
    ASSUME TypeOK
    PROVE  /\ \A id \in PolicyIds : /\ policies[id].premium \in Nat
                                    /\ policies[id].coverage \in Nat
                                    /\ Paid(policies[id]) \in Nat
           /\ Premiums \in Nat /\ PaidOut \in Nat
           /\ PaidOut = Total([id \in PolicyIds |-> Paid(policies[id])], policy_count)
<1> DEFINE f == [id \in PolicyIds |-> policies[id].premium]
           g == [id \in PolicyIds |-> Paid(policies[id])]
<1>1. \A id \in PolicyIds : /\ policies[id].premium \in Nat
                            /\ policies[id].coverage \in Nat
                            /\ Paid(policies[id]) \in Nat
  BY DEF TypeOK, Policy, Paid
<1>2. policy_count \in Nat
  BY VaultTypes
<1>3. Premiums = Total(f, policy_count) /\ PaidOut = Total(g, policy_count)
  BY DEF Premiums, PaidOut, Paid
<1>4. \A id \in 0 .. policy_count - 1 : f[id] \in Nat /\ g[id] \in Nat
  BY <1>1 DEF PolicyIds
<1> HIDE DEF f, g
<1>5. Total(f, policy_count) \in Nat /\ Total(g, policy_count) \in Nat
  BY <1>2, <1>4, TotalMember
<1>6. QED
  BY <1>1, <1>3, <1>5 DEF g

(* A new policy adds its premium and has paid nothing.                     *)
LEMMA BuyBooks ==
    ASSUME TypeOK, NEW a \in Accounts, NEW c \in Coverages,
           NEW t \in TriggerChoices, NEW e \in Expiries, BuyPolicy(a, c, t, e)
    PROVE  Premiums' = Premiums + Premium(c) /\ PaidOut' = PaidOut
<1> DEFINE f == [id \in PolicyIds |-> policies[id].premium]
           g == [id \in PolicyIds |-> Paid(policies[id])]
           f1 == [id \in 0 .. policy_count |-> policies'[id].premium]
           g1 == [id \in 0 .. policy_count |-> Paid(policies'[id])]
           new == NewPolicy(a, c, t, e)
<1>1. policy_count \in Nat /\ policy_count' = policy_count + 1
  BY VaultTypes, BuyRecords
<1>2. PolicyIds' = 0 .. policy_count
  BY BuyRecords
<1>3. /\ \A id \in PolicyIds : policies'[id] = policies[id]
      /\ policies'[policy_count] = new
  <2>1. \A id \in PolicyIds : id \in 0 .. policy_count
    BY <1>1 DEF PolicyIds
  <2>2. QED
    BY <2>1, BuyRecords
<1>4. new.premium = Premium(c) /\ new.status = "Active"
  BY DEF NewPolicy
<1>5. \A id \in 0 .. policy_count - 1 : f1[id] = f[id] /\ g1[id] = g[id]
  BY <1>1, <1>3 DEF PolicyIds
<1>6. f1[policy_count] = Premium(c) /\ g1[policy_count] = 0
  <2>1. policy_count \in 0 .. policy_count
    BY <1>1
  <2> HIDE DEF new
  <2>2. QED
    BY <1>3, <1>4, <2>1 DEF Paid
<1>7. /\ Premiums = Total(f, policy_count)
      /\ PaidOut = Total(g, policy_count)
      /\ Premiums' = Total(f1, policy_count + 1)
      /\ PaidOut' = Total(g1, policy_count + 1)
  BY <1>1, <1>2 DEF Premiums, PaidOut, Paid
<1> HIDE DEF f, g, f1, g1
<1>8. /\ Total(f1, policy_count + 1) = Total(f1, policy_count) + f1[policy_count]
      /\ Total(g1, policy_count + 1) = Total(g1, policy_count) + g1[policy_count]
  BY <1>1, TotalStep
<1>9. /\ Total(f1, policy_count) = Total(f, policy_count)
      /\ Total(g1, policy_count) = Total(g, policy_count)
  BY <1>1, <1>5, TotalAgree
<1>10. PaidOut \in Nat
  BY BooksNat
<1>11. QED
  BY <1>6, <1>7, <1>8, <1>9, <1>10

(* A claim adds the coverage it pays, once, and no premium.                *)
LEMMA ClaimBooks ==
    ASSUME TypeOK, NEW a \in Accounts, NEW p \in PolicyIds,
           NEW id \in Oracle!Published, NEW t \in TriggerTypes,
           Claim(a, p, id, t)
    PROVE  Premiums' = Premiums /\ PaidOut' = PaidOut + policies[p].coverage
<1> DEFINE f == [i \in PolicyIds |-> policies[i].premium]
           g == [i \in PolicyIds |-> Paid(policies[i])]
           f1 == [i \in PolicyIds |-> policies'[i].premium]
           g1 == [i \in PolicyIds |-> Paid(policies'[i])]
<1>1. policy_count \in Nat /\ policy_count' = policy_count /\ PolicyIds' = PolicyIds
  BY VaultTypes, ClaimRecords
<1>2. \A i \in PolicyIds : i # p => policies'[i] = policies[i]
  BY ClaimRecords
<1>3. /\ policies'[p].premium = policies[p].premium
      /\ Paid(policies'[p]) = policies[p].coverage
      /\ Paid(policies[p]) = 0
  <2>1. policies'[p] = [policies[p] EXCEPT !.status = "Claimed"]
    BY ClaimRecords
  <2>2. policies[p] \in Policy /\ policies[p].status = "Active"
    BY ClaimRecords
  <2>3. QED
    BY <2>1, <2>2 DEF Policy, Paid
<1>4. \A i \in 0 .. policy_count - 1 : f1[i] = f[i]
  BY <1>2, <1>3 DEF PolicyIds
<1>5. \A i \in 0 .. policy_count - 1 :
         g[i] \in Int /\ g1[i] \in Int /\ (i # p => g[i] = g1[i])
  <2>1. \A i \in PolicyIds : Paid(policies[i]) \in Nat
    BY BooksNat
  <2>2. policies[p].coverage \in Nat
    BY BooksNat
  <2>3. QED
    BY <1>2, <1>3, <2>1, <2>2 DEF PolicyIds
<1>6. g[p] = 0 /\ g1[p] = policies[p].coverage /\ p \in 0 .. policy_count - 1
  BY <1>3 DEF PolicyIds
<1>7. /\ Premiums = Total(f, policy_count)
      /\ PaidOut = Total(g, policy_count)
      /\ Premiums' = Total(f1, policy_count)
      /\ PaidOut' = Total(g1, policy_count)
  BY <1>1 DEF Premiums, PaidOut, Paid
<1> HIDE DEF f, g, f1, g1
<1>8. Total(f1, policy_count) = Total(f, policy_count)
  BY <1>1, <1>4, TotalAgree
<1>9. Total(g1, policy_count) = Total(g, policy_count) + (g1[p] - g[p])
  BY <1>1, <1>5, <1>6, TotalChange
<1>10. policies[p].coverage \in Nat /\ PaidOut \in Nat
  BY BooksNat
<1>11. QED
  BY <1>6, <1>7, <1>8, <1>9, <1>10

(* A step that touches no policy changes neither sum.                      *)
LEMMA SameBooks ==
    ASSUME UNCHANGED <<policy_count, policies>>
    PROVE  Premiums' = Premiums /\ PaidOut' = PaidOut
BY DEF Premiums, PaidOut, PolicyIds

(* The surplus is an integer.                                              *)
SurplusTyped == VaultSurplus \in Int

(* What the vault holds beyond its books is a number.                      *)
LEMMA SurplusInt ==
    ASSUME TypeOK
    PROVE  SurplusTyped
BY BooksNat, VaultTypes DEF SurplusTyped, VaultSurplus, BookValue, TypeOK

(* buy_policy takes in exactly the premium it records.                     *)
LEMMA BuyByTheBook ==
    ASSUME TypeOK, NEW a \in Accounts, NEW c \in Coverages,
           NEW t \in TriggerChoices, NEW e \in Expiries, BuyPolicy(a, c, t, e)
    PROVE  VaultSurplus' = VaultSurplus
<1>1. c \in Nat /\ Premium(c) \in Nat
  BY InputAssumption, PremiumNat
<1>2. CanTransferFrom(usdc, a, Vault, Premium(c))
      /\ usdc' = TransferFrom(usdc, a, Vault, Premium(c))
  BY DEF BuyPolicy
<1>3. vault_balance' = vault_balance + Premium(c)
  <2>1. usdc'.balances[Vault]
          = usdc.balances[Vault] + Moved(Vault, a, Vault, Premium(c))
    BY <1>1, <1>2, VaultTypes, PullLedger
  <2>2. Moved(Vault, a, Vault, Premium(c)) = Premium(c)
    BY <1>1, AddressAssumption DEF Moved
  <2>3. QED
    BY <2>1, <2>2 DEF vault_balance
<1>4. Premiums' = Premiums + Premium(c) /\ PaidOut' = PaidOut
  BY BuyBooks
<1>5. total_staked' = total_staked
  BY DEF BuyPolicy
<1>6. /\ vault_balance \in Nat /\ Premiums \in Nat /\ PaidOut \in Nat
      /\ total_staked \in Nat
  BY VaultTypes, BooksNat DEF TypeOK
<1>7. QED
  BY <1>1, <1>3, <1>4, <1>5, <1>6 DEF VaultSurplus, BookValue

(* claim pays out exactly the coverage it records as paid.                 *)
LEMMA ClaimByTheBook ==
    ASSUME TypeOK, NEW a \in Accounts, NEW p \in PolicyIds,
           NEW id \in Oracle!Published, NEW t \in TriggerTypes,
           Claim(a, p, id, t)
    PROVE  VaultSurplus' = VaultSurplus
<1> DEFINE holder == policies[p].holder
           coverage == policies[p].coverage
<1>1. coverage \in Nat /\ holder \in Accounts
  BY DEF TypeOK, Policy
<1>2. CanTransfer(usdc, Vault, holder, coverage)
      /\ usdc' = Transfer(usdc, Vault, holder, coverage)
  BY DEF Claim, CanClaim
<1>3. Premiums' = Premiums /\ PaidOut' = PaidOut + coverage
  BY ClaimBooks
<1>4. total_staked' = total_staked
  BY DEF Claim
<1> HIDE DEF holder, coverage
<1>5. vault_balance' = vault_balance - coverage
  <2>1. usdc'.balances[Vault]
          = usdc.balances[Vault] + Moved(Vault, Vault, holder, coverage)
    BY <1>1, <1>2, VaultTypes, TransferLedger
  <2>2. Moved(Vault, Vault, holder, coverage) = - coverage
    BY <1>1, AddressAssumption DEF Moved
  <2>3. QED
    BY <1>1, <2>1, <2>2, VaultTypes DEF vault_balance
<1>6. /\ vault_balance \in Nat /\ Premiums \in Nat /\ PaidOut \in Nat
      /\ total_staked \in Nat
  BY VaultTypes, BooksNat DEF TypeOK
<1>7. QED
  BY <1>1, <1>3, <1>4, <1>5, <1>6 DEF VaultSurplus, BookValue

(* stake takes in exactly the capital it records.                          *)
LEMMA StakeByTheBook ==
    ASSUME TypeOK, NEW a \in Accounts, NEW amount \in Amounts, Stake(a, amount)
    PROVE  VaultSurplus' = VaultSurplus
<1>1. amount \in Nat
  BY InputAssumption
<1>2. CanTransferFrom(usdc, a, Vault, amount)
      /\ usdc' = TransferFrom(usdc, a, Vault, amount)
  BY DEF Stake
<1>3. vault_balance' = vault_balance + amount
  <2>1. usdc'.balances[Vault]
          = usdc.balances[Vault] + Moved(Vault, a, Vault, amount)
    BY <1>1, <1>2, VaultTypes, PullLedger
  <2>2. Moved(Vault, a, Vault, amount) = amount
    BY <1>1, AddressAssumption DEF Moved
  <2>3. QED
    BY <2>1, <2>2 DEF vault_balance
<1>4. Premiums' = Premiums /\ PaidOut' = PaidOut
  BY SameBooks DEF Stake
<1>5. total_staked' = total_staked + amount
  BY DEF Stake
<1>6. /\ vault_balance \in Nat /\ Premiums \in Nat /\ PaidOut \in Nat
      /\ total_staked \in Nat
  BY VaultTypes, BooksNat DEF TypeOK
<1>7. QED
  BY <1>1, <1>3, <1>4, <1>5, <1>6 DEF VaultSurplus, BookValue

(* unstake pays out exactly the capital it takes off the record.           *)
LEMMA UnstakeByTheBook ==
    ASSUME TypeOK, NEW a \in Accounts, NEW amount \in Amounts, Unstake(a, amount)
    PROVE  VaultSurplus' = VaultSurplus
<1>1. amount \in Nat
  BY InputAssumption
<1>2. CanTransfer(usdc, Vault, a, amount)
      /\ usdc' = Transfer(usdc, Vault, a, amount)
  BY DEF Unstake, CanUnstake
<1>3. vault_balance' = vault_balance - amount
  <2>1. usdc'.balances[Vault]
          = usdc.balances[Vault] + Moved(Vault, Vault, a, amount)
    BY <1>1, <1>2, VaultTypes, TransferLedger
  <2>2. Moved(Vault, Vault, a, amount) = - amount
    BY <1>1, AddressAssumption DEF Moved
  <2>3. QED
    BY <1>1, <2>1, <2>2, VaultTypes DEF vault_balance
<1>4. Premiums' = Premiums /\ PaidOut' = PaidOut
  BY SameBooks DEF Unstake
<1>5. total_staked' = total_staked - amount
  BY DEF Unstake
<1>6. /\ vault_balance \in Nat /\ Premiums \in Nat /\ PaidOut \in Nat
      /\ total_staked \in Nat
  BY VaultTypes, BooksNat DEF TypeOK
<1>7. QED
  BY <1>1, <1>3, <1>4, <1>5, <1>6 DEF VaultSurplus, BookValue
(* A deploy of the token changes no record; it can only add to the vault.  *)
LEMMA DirectByTheBook ==
    ASSUME TypeOK, UNCHANGED contractVars, vault_balance' \in Nat
    PROVE  /\ vault_balance' = vault_balance => VaultSurplus' = VaultSurplus
           /\ vault_balance' > vault_balance => VaultSurplus' > VaultSurplus
<1>1. Premiums' = Premiums /\ PaidOut' = PaidOut
  BY SameBooks DEF contractVars
<1>2. total_staked' = total_staked
  BY DEF contractVars
<1>3. /\ vault_balance \in Nat /\ Premiums \in Nat /\ PaidOut \in Nat
      /\ total_staked \in Nat
  BY VaultTypes, BooksNat DEF TypeOK
<1>4. /\ VaultSurplus = vault_balance - (total_staked + Premiums - PaidOut)
      /\ VaultSurplus' = vault_balance' - (total_staked + Premiums - PaidOut)
  BY <1>1, <1>2 DEF VaultSurplus, BookValue
<1>5. ASSUME NEW v \in Nat, NEW w \in Nat, NEW b \in Int, w > v
      PROVE  w - b > v - b
  BY <1>5
<1>6. total_staked + Premiums - PaidOut \in Int
  BY <1>3
<1>7. QED
  BY <1>3, <1>4, <1>5, <1>6

(* Every step keeps the surplus of the vault over its books, and what      *)
(* raises it leaves the contract alone.                                    *)
LEMMA NextByTheBook ==
    ASSUME TypeOK, [Next]_vars
    PROVE  \/ VaultSurplus' = VaultSurplus
           \/ VaultSurplus' > VaultSurplus /\ UNCHANGED contractVars
<1>1. ASSUME NEW a \in Accounts,
             \/ \E amount \in Approvals : ApproveVault(a, amount)
             \/ \E p \in Accounts \cup {Vault}, amount \in Gifts :
                   TransferUsdc(a, p, amount)
      PROVE  \/ VaultSurplus' = VaultSurplus
             \/ VaultSurplus' > VaultSurplus /\ UNCHANGED contractVars
  <2>1. /\ vault_balance' \in Nat /\ vault_balance' >= vault_balance
        /\ UNCHANGED contractVars
    BY <1>1, DirectUsdc
  <2>2. vault_balance' = vault_balance \/ vault_balance' > vault_balance
    BY <2>1, VaultTypes
  <2>3. QED
    BY <2>1, <2>2, DirectByTheBook
<1>2. ASSUME UNCHANGED <<usdc, contractVars>>
      PROVE  VaultSurplus' = VaultSurplus
  BY <1>2, SameBooks DEF contractVars, vault_balance, VaultSurplus, BookValue
<1>3. CASE ContractNext
  BY <1>1, <1>3, BuyByTheBook, ClaimByTheBook, StakeByTheBook, UnstakeByTheBook
  DEF ContractNext
<1>4. CASE OracleStep \/ Tick \/ UNCHANGED vars
  BY <1>2, <1>4 DEF OracleStep, Tick, vars, contractVars
<1>5. QED
  BY <1>3, <1>4 DEF Next

(* The vault's USDC moves exactly as its records do, save for what is sent *)
(* to it directly.                                                         *)
THEOREM BooksKept == Spec => VaultByTheBook
<1>1. TypeOK /\ [Next]_vars
        => [ \/ VaultSurplus' = VaultSurplus
             \/ VaultSurplus' > VaultSurplus /\ UNCHANGED contractVars ]_vars
  BY NextByTheBook
<1>2. QED
  BY <1>1, VaultTypeCorrect, PTL DEF Spec, VaultByTheBook

(* At the start the vault has no USDC and its books are empty.             *)
LEMMA InitCovered == Init => BooksCovered
<1> SUFFICES ASSUME Init
             PROVE  BooksCovered
  OBVIOUS
<1>1. vault_balance = 0
  BY AddressAssumption DEF Init, ContractInit, vault_balance
<1>2. Premiums = 0 /\ PaidOut = 0
  BY TotalZero DEF Init, ContractInit, Premiums, PaidOut
<1>3. total_staked = 0
  BY DEF Init, ContractInit
<1>4. QED
  BY <1>1, <1>2, <1>3 DEF BooksCovered, VaultSurplus, BookValue

(* The books are covered by USDC in every reachable state.                 *)
THEOREM BooksAlwaysCovered == Spec => []BooksCovered
<1>1. TypeOK => SurplusTyped
  BY SurplusInt
<1>2. ASSUME TypeOK, BooksCovered, [Next]_vars,
             SurplusTyped, SurplusTyped'
      PROVE  BooksCovered'
  <2>1. VaultSurplus' = VaultSurplus \/ VaultSurplus' > VaultSurplus
    BY <1>2, NextByTheBook
  <2>2. VaultSurplus >= 0
    BY <1>2 DEF BooksCovered
  <2>3. VaultSurplus' >= 0
    BY <1>2, <2>1, <2>2 DEF SurplusTyped
  <2>4. QED
    BY <2>3 DEF BooksCovered
<1>3. QED
  BY <1>1, <1>2, InitCovered, VaultTypeCorrect, PTL DEF Spec
-----------------------------------------------------------------------------
(* The positions.                                                          *)

(* At the start nobody has staked.                                         *)
LEMMA InitAddUp == Init => PositionsAddUp
<1> SUFFICES ASSUME Init
             PROVE  PositionsAddUp
  OBVIOUS
<1>1. \A a \in Accounts : positions[a] = 0
  BY DEF Init, ContractInit
<1>2. SumOver(positions, Accounts) = 0
  BY <1>1, AddressAssumption, SumOverZero
<1>3. QED
  BY <1>2 DEF Init, ContractInit, PositionsAddUp

(* Changing one position by what the total is changed by keeps the sum.    *)
LEMMA OnePosition ==
    ASSUME TypeOK, PositionsAddUp, NEW a \in Accounts, NEW d \in Int,
           positions[a] + d \in Nat,
           positions' = [positions EXCEPT ![a] = positions[a] + d],
           total_staked' = total_staked + d
    PROVE  PositionsAddUp'
<1>1. positions \in [Accounts -> Nat] /\ total_staked \in Nat
  BY DEF TypeOK
<1>2. \A b \in Accounts : positions[b] \in Int /\ positions'[b] \in Int
  BY <1>1
<1>3. \A b \in Accounts : b # a => positions[b] = positions'[b]
  BY <1>1
<1>4. positions'[a] = positions[a] + d
  BY <1>1
<1>5. SumOver(positions', Accounts)
        = SumOver(positions, Accounts) + (positions'[a] - positions[a])
  BY <1>2, <1>3, AddressAssumption, SumOverChange, ZenonT(60)
<1>6. total_staked = SumOver(positions, Accounts)
  BY DEF PositionsAddUp
<1>7. positions[a] \in Nat
  BY <1>1
<1>8. total_staked' = SumOver(positions', Accounts)
  BY <1>1, <1>4, <1>5, <1>6, <1>7
<1>9. QED
  BY <1>8 DEF PositionsAddUp

(* The total the contract keeps is always the sum of the positions.        *)
THEOREM PositionsAlwaysAddUp == Spec => []PositionsAddUp
<1>1. ASSUME TypeOK, PositionsAddUp, [Next]_vars
      PROVE  PositionsAddUp'
  <2>1. ASSUME UNCHANGED <<positions, total_staked>>
        PROVE  PositionsAddUp'
    BY <1>1, <2>1 DEF PositionsAddUp
  <2>2. ASSUME NEW a \in Accounts, NEW amount \in Amounts, Stake(a, amount)
        PROVE  PositionsAddUp'
    <3>1. amount \in Nat /\ positions[a] \in Nat
      BY <1>1, InputAssumption DEF TypeOK
    <3>2. /\ positions' = [positions EXCEPT ![a] = positions[a] + amount]
          /\ total_staked' = total_staked + amount
      BY <2>2 DEF Stake
    <3>3. amount \in Int /\ positions[a] + amount \in Nat
      BY <3>1
    <3>4. QED
      BY <1>1, <3>2, <3>3, OnePosition
  <2>3. ASSUME NEW a \in Accounts, NEW amount \in Amounts, Unstake(a, amount)
        PROVE  PositionsAddUp'
    <3> DEFINE d == 0 - amount
    <3>1. /\ amount \in Nat /\ positions[a] \in Nat /\ total_staked \in Nat
          /\ amount <= positions[a]
      BY <1>1, <2>3, InputAssumption DEF TypeOK, Unstake, CanUnstake
    <3>2. /\ d \in Int /\ positions[a] + d \in Nat
          /\ positions[a] - amount = positions[a] + d
          /\ total_staked - amount = total_staked + d
      BY <3>1
    <3>3. /\ positions' = [positions EXCEPT ![a] = positions[a] - amount]
          /\ total_staked' = total_staked - amount
      BY <2>3 DEF Unstake
    <3> HIDE DEF d
    <3>4. QED
      BY <1>1, <3>2, <3>3, OnePosition
  <2>4. CASE ContractNext
    BY <2>1, <2>2, <2>3, <2>4
    DEF ContractNext, BuyPolicy, Claim, ApproveVault, TransferUsdc, contractVars
  <2>5. CASE OracleStep \/ Tick \/ UNCHANGED vars
    BY <2>1, <2>5 DEF OracleStep, Tick, vars, contractVars
  <2>6. QED
    BY <1>1, <2>4, <2>5 DEF Next
<1>2. QED
  BY <1>1, InitAddUp, VaultTypeCorrect, PTL DEF Spec

(* So no position is more than the total, and no withdrawal that the       *)
(* vault's USDC covers is refused.                                         *)
THEOREM WithdrawalsNeverBlocked == Spec => []PositionsRedeemable
<1>1. ASSUME TypeOK, PositionsAddUp
      PROVE  PositionsRedeemable
  <2>1. \A a \in Accounts : positions[a] \in Nat
    BY <1>1 DEF TypeOK
  <2>2. \A a \in Accounts : positions[a] <= total_staked
    BY <1>1, <2>1, AddressAssumption, SumOverMember DEF PositionsAddUp
  <2>3. SUFFICES ASSUME NEW a \in Accounts, NEW amount \in Amounts \ {0},
                        amount <= positions[a], amount <= vault_balance
                 PROVE  CanUnstake(a, amount)
    BY DEF PositionsRedeemable
  <2>4. amount \in Nat /\ amount > 0
    BY InputAssumption
  <2>5. total_staked \in Nat /\ positions[a] \in Nat /\ positions[a] <= total_staked
    BY <1>1, <2>1, <2>2 DEF TypeOK
  <2>6. amount <= total_staked
    BY <2>3, <2>4, <2>5
  <2>7. Vault # a
    BY AddressAssumption
  <2>8. QED
    BY <2>3, <2>4, <2>6, <2>7 DEF CanUnstake, CanTransfer, vault_balance
<1>2. QED
  BY <1>1, VaultTypeCorrect, PositionsAlwaysAddUp, PTL
-----------------------------------------------------------------------------
(* The oracle.                                                             *)

(* Only a claim changes what has been paid, and a claim needs an           *)
(* attestation of the claim oracle that is out of dispute and unslashed.   *)
THEOREM DisputeStopsPayouts == Spec => NoPayoutWithoutTrust
<1>1. ASSUME TypeOK, [Next]_vars
      PROVE  [Trusted = {} => PaidOut' = PaidOut]_vars
  <2>1. ASSUME NEW a \in Accounts, NEW p \in PolicyIds,
               NEW id \in Oracle!Published, NEW t \in TriggerTypes,
               Claim(a, p, id, t)
        PROVE  Trusted # {}
    <3>1. id \in Trusted
      BY <2>1 DEF Claim, CanClaim, Backs, Trusted
    <3>2. QED
      BY <3>1
  <2>2. CASE ContractNext
    <3>1. ASSUME NEW a \in Accounts,
                 \/ \E amount \in Approvals : ApproveVault(a, amount)
                 \/ \E p \in Accounts \cup {Vault}, amount \in Gifts :
                       TransferUsdc(a, p, amount)
          PROVE  PaidOut' = PaidOut
      BY <1>1, <3>1, DirectUsdc, SameBooks DEF contractVars
    <3>2. ASSUME NEW a \in Accounts, NEW amount \in Amounts,
                 Stake(a, amount) \/ Unstake(a, amount)
          PROVE  PaidOut' = PaidOut
      BY <3>2, SameBooks DEF Stake, Unstake
    <3>3. QED
      BY <1>1, <2>1, <2>2, <3>1, <3>2, BuyBooks DEF ContractNext
  <2>3. CASE OracleStep \/ Tick \/ UNCHANGED vars
    BY <2>3, SameBooks DEF OracleStep, Tick, vars, contractVars
  <2>4. QED
    BY <1>1, <2>2, <2>3 DEF Next
<1>2. QED
  BY <1>1, VaultTypeCorrect, PTL DEF Spec, NoPayoutWithoutTrust
=============================================================================
