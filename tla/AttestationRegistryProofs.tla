--------------------- MODULE AttestationRegistryProofs ---------------------
(***************************************************************************)
(* What AttestationRegistry guarantees for every value of its constants:   *)
(* its types and its solvency; that the dispute window was kept, that the  *)
(* reputation counters recount the records and that every payment is on    *)
(* record; and that readers only ever see the lifecycle they were          *)
(* promised.                                                               *)
(***************************************************************************)
EXTENDS AttestationRegistry, LedgerProofs

-----------------------------------------------------------------------------
(* The token's operations.                                                 *)

Principals == Accounts \cup {Self}

(* An admitted transfer of the ledger keeps it a ledger.                   *)
LEMMA TransferType ==
    ASSUME NEW L \in Ledgers(Principals, Accounts), NEW from \in Principals,
           NEW to \in Principals, NEW amount \in Nat,
           CanTransfer(L, from, to, amount)
    PROVE  /\ Transfer(L, from, to, amount) \in Ledgers(Principals, Accounts)
           /\ Transfer(L, from, to, amount).balances[from]
                = L.balances[from] - amount
           /\ Transfer(L, from, to, amount).balances[to]
                = L.balances[to] + amount
<1>1. from # to /\ L.balances \in [Principals -> Nat]
  BY DEF CanTransfer, Ledgers
<1>2. /\ Moved(from, from, to, amount) = - amount
      /\ Moved(to, from, to, amount) = amount
  BY <1>1 DEF Moved
<1>3. /\ L.balances[from] \in Nat /\ L.balances[to] \in Nat
      /\ L.balances[from] + (- amount) = L.balances[from] - amount
  BY <1>1
<1>4. QED
  BY <1>2, <1>3, TransferLedger

(* So does a pull, and the balance of who pulls grows by the amount.       *)
LEMMA TransferFromType ==
    ASSUME NEW L \in Ledgers(Principals, Accounts), NEW owner \in Accounts,
           NEW amount \in Nat, CanTransferFrom(L, owner, Self, amount)
    PROVE  /\ TransferFrom(L, owner, Self, amount)
                \in Ledgers(Principals, Accounts)
           /\ TransferFrom(L, owner, Self, amount).balances[Self]
                = L.balances[Self] + amount
<1>1. /\ owner \in Principals \cap Accounts /\ Self \in Principals
      /\ owner # Self /\ L.balances \in [Principals -> Nat]
  BY DEF Ledgers, Principals, CanTransferFrom
<1>2. QED
  BY <1>1, PullLedger DEF Moved

(* The challenger's share of a stake is a part of it.                      *)
LEMMA RewardBounds ==
    ASSUME NEW att \in Attestation
    PROVE  /\ Reward(att) \in Nat
           /\ Reward(att) <= att.stake
           /\ TreasuryCut(att) \in Nat
           /\ Reward(att) + TreasuryCut(att) = att.stake
<1> DEFINE product == att.stake * RewardBps
<1>1. att.stake \in Nat /\ RewardBps \in Nat /\ RewardBps <= 10000
  BY ConfigAssumption DEF Attestation, BpsDenom
<1>2. product \in Nat /\ product <= att.stake * 10000
  BY <1>1
<1> HIDE DEF product
<1>3. product \div 10000 \in Nat /\ product \div 10000 <= att.stake
  BY <1>1, <1>2
<1>4. Reward(att) = product \div 10000
  BY DEF Reward, BpsDenom, product
<1>5. QED
  BY <1>1, <1>3, <1>4 DEF TreasuryCut

(* The payments of a verdict, and where they go.                           *)
LEMMA PaymentTypes ==
    ASSUME NEW att \in Attestation, att.challenger # NoOne,
           NEW fraudulent \in BOOLEAN
    PROVE  /\ FirstPayee(att, fraudulent) \in Accounts
           /\ FirstPayment(att, fraudulent) \in Nat
           /\ SecondPayment(att, fraudulent) \in Nat
           /\ FirstPayment(att, fraudulent) + SecondPayment(att, fraudulent)
                = att.stake + att.challenge_bond
<1>1. att.stake \in Nat /\ att.challenge_bond \in Nat
      /\ att.attestor \in Accounts /\ att.challenger \in Accounts
  BY DEF Attestation
<1>2. QED
  BY <1>1, RewardBounds DEF FirstPayee, FirstPayment, SecondPayment

(* What the two transfers of a verdict do to the ledger.                   *)
LEMMA VerdictLedger ==
    ASSUME TypeOK, NEW id, NEW fraudulent \in BOOLEAN,
           CanResolve(id, fraudulent)
    PROVE  LET att == attestations[id]
               after == TransferIfAny(AfterFirst(att, fraudulent), Self,
                                      Treasury, SecondPayment(att, fraudulent))
           IN  /\ after \in Ledgers(Principals, Accounts)
               /\ after.balances[Self] = token.balances[Self]
                                         - (att.stake + att.challenge_bond)
<1> DEFINE att == attestations[id]
           first == AfterFirst(att, fraudulent)
           second == SecondPayment(att, fraudulent)
<1>1. id \in Ids /\ att \in Attestation /\ att.challenger # NoOne
  BY DEF CanResolve, TypeOK
<1>2. /\ token \in Ledgers(Principals, Accounts)
      /\ token.balances[Self] \in Nat
      /\ Self \in Principals /\ Treasury \in Principals
  BY AddressAssumption DEF TypeOK, Principals, Ledgers
<1>3. /\ FirstPayee(att, fraudulent) \in Principals
      /\ FirstPayment(att, fraudulent) \in Nat
      /\ second \in Nat
      /\ FirstPayment(att, fraudulent) + second = att.stake + att.challenge_bond
  BY <1>1, PaymentTypes DEF Principals
<1>4. /\ first \in Ledgers(Principals, Accounts)
      /\ first.balances[Self] = token.balances[Self] - FirstPayment(att, fraudulent)
  BY <1>2, <1>3, TransferType DEF AfterFirst, CanResolve
<1>5. CASE second > 0
  <2>1. CanTransfer(first, Self, Treasury, second)
    BY <1>5 DEF CanResolve, CanTransferIfAny
  <2>2. /\ Transfer(first, Self, Treasury, second) \in Ledgers(Principals, Accounts)
        /\ Transfer(first, Self, Treasury, second).balances[Self]
             = first.balances[Self] - second
    BY <1>2, <1>3, <1>4, <2>1, TransferType
  <2>3. TransferIfAny(first, Self, Treasury, second)
          = Transfer(first, Self, Treasury, second)
    BY <1>5 DEF TransferIfAny
  <2> HIDE DEF first, second
  <2>4. att.stake \in Nat /\ att.challenge_bond \in Nat
    BY <1>1 DEF Attestation
  <2>5. QED
    BY <1>2, <1>3, <1>4, <2>2, <2>3, <2>4 DEF first, second
<1>6. CASE ~ (second > 0)
  <2>1. second = 0
    BY <1>3, <1>6
  <2>2. TransferIfAny(first, Self, Treasury, second) = first
    BY <1>6 DEF TransferIfAny
  <2>3. att.stake \in Nat /\ att.challenge_bond \in Nat
    BY <1>1 DEF Attestation
  <2>4. QED
    BY <1>2, <1>3, <1>4, <2>1, <2>2, <2>3
<1>7. QED
  BY <1>5, <1>6
-----------------------------------------------------------------------------
(* Type correctness.                                                       *)

(* The state init leaves behind, tokens distributed, is well typed.        *)
LEMMA InitTypeOK == Init => TypeOK
<1> SUFFICES ASSUME Init
             PROVE  TypeOK
  OBVIOUS
<1>1. now \in 0 .. MaxU64
  BY WidthAssumption DEF Init
<1>2. token \in Ledgers(Accounts \cup {Self}, Accounts)
  BY AddressAssumption, InputAssumption DEF Init, Ledgers
<1>3. count \in 0 .. MaxAttestations
  BY InputAssumption DEF Init
<1>4. attestations \in [Ids -> Attestation]
  BY DEF Init, Ids
<1>5. reputations \in [Accounts -> Reputation]
  BY DEF Init, Reputation
<1>6. QED
  BY <1>1, <1>2, <1>3, <1>4, <1>5 DEF TypeOK

(* submit_attestation: the pull is covered by balance and allowance.       *)
LEMMA SubmitTypeOK ==
    ASSUME TypeOK, NEW a \in Accounts, NEW m \in ModelIds,
           NEW c \in Commitments, NEW s \in Stakes, Submit(a, m, c, s)
    PROVE  TypeOK'
<1>1. s \in Nat /\ count \in Nat /\ count < MaxAttestations
      /\ count' = count + 1 /\ MaxAttestations \in Nat
  BY InputAssumption DEF TypeOK, Submit
<1>2. token' \in Ledgers(Accounts \cup {Self}, Accounts)
  BY <1>1, TransferFromType DEF TypeOK, Submit, Principals
<1>3. attestations' \in [Ids' -> Attestation]
  <2> DEFINE new == [attestor |-> a, model_id |-> m, commitment |-> c,
                     stake |-> s, created_at |-> now, status |-> "Active",
                     challenger |-> NoOne, challenge_bond |-> 0,
                     challenged_at |-> 0]
  <2>1. new \in Attestation
    BY <1>1 DEF TypeOK, Attestation, Statuses
  <2>2. attestations' = [id \in 0 .. count |->
                            IF id < count THEN attestations[id] ELSE new]
    BY DEF Submit
  <2>3. Ids' = 0 .. count
    BY <1>1 DEF Ids
  <2>4. \A id \in 0 .. count : id < count => attestations[id] \in Attestation
    BY <1>1 DEF TypeOK, Ids
  <2> HIDE DEF new
  <2>5. QED
    BY <2>1, <2>2, <2>3, <2>4
<1>4. reputations' \in [Accounts -> Reputation]
  <2>1. reputations[a] \in Reputation
    BY DEF TypeOK
  <2>2. [reputations[a] EXCEPT !.total = @ + 1] \in Reputation
    BY <2>1 DEF Reputation
  <2>3. reputations' = [reputations EXCEPT ![a] =
                           [reputations[a] EXCEPT !.total = @ + 1]]
    BY DEF Submit
  <2>4. QED
    BY <2>2, <2>3 DEF TypeOK
<1>5. now' \in 0 .. MaxU64 /\ count' \in 0 .. MaxAttestations
  BY <1>1 DEF TypeOK, Submit
<1>6. QED
  BY <1>2, <1>3, <1>4, <1>5 DEF TypeOK

(* challenge: likewise for the bond.                                       *)
LEMMA ChallengeTypeOK ==
    ASSUME TypeOK, NEW a \in Accounts, NEW id \in Ids, Challenge(a, id)
    PROVE  TypeOK'
<1>1. UNCHANGED <<now, count, reputations>> /\ Ids' = Ids
  BY DEF Challenge, Ids
<1>2. token' \in Ledgers(Accounts \cup {Self}, Accounts)
  BY ConfigAssumption, TransferFromType DEF TypeOK, Challenge, Principals
<1>3. attestations' \in [Ids -> Attestation]
  <2> DEFINE new == [attestations[id] EXCEPT !.status = "Challenged",
                                             !.challenger = a,
                                             !.challenge_bond = ChallengeBond,
                                             !.challenged_at = now]
  <2>1. new \in Attestation
    <3>1. attestations[id] \in Attestation /\ now \in Nat /\ ChallengeBond \in Nat
      BY ConfigAssumption DEF TypeOK
    <3>2. QED
      BY <3>1 DEF Attestation, Statuses
  <2>2. attestations' = [attestations EXCEPT ![id] = new]
    BY DEF Challenge
  <2> HIDE DEF new
  <2>3. QED
    BY <2>1, <2>2 DEF TypeOK
<1>4. QED
  BY <1>1, <1>2, <1>3 DEF TypeOK

(* A verdict only ever raises reputation counters.                         *)
LEMMA ReputationAfterType ==
    ASSUME NEW r \in Reputation, NEW fraudulent \in BOOLEAN
    PROVE  ReputationAfter(r, fraudulent) \in Reputation
<1>1. r.slashed + 1 \in Nat /\ r.successful + 1 \in Nat
      /\ r.challenges_defended + 1 \in Nat
  BY DEF Reputation
<1>2. CASE fraudulent
  BY <1>1, <1>2 DEF Reputation, ReputationAfter
<1>3. CASE ~ fraudulent
  <2>1. ReputationAfter(r, fraudulent) =
          [total |-> r.total, successful |-> r.successful + 1,
           slashed |-> r.slashed,
           challenges_defended |-> r.challenges_defended + 1]
    BY <1>3 DEF Reputation, ReputationAfter
  <2>2. QED
    BY <1>1, <2>1 DEF Reputation
<1>4. QED
  BY <1>2, <1>3

(* resolve: both transfers are covered, one after the other.               *)
LEMMA ResolveTypeOK ==
    ASSUME TypeOK, NEW a \in Accounts, NEW id \in Ids,
           NEW fraudulent \in BOOLEAN, Resolve(a, id, fraudulent)
    PROVE  TypeOK'
<1>1. UNCHANGED <<now, count>> /\ Ids' = Ids
  BY DEF Resolve, Ids
<1>2. token' \in Ledgers(Accounts \cup {Self}, Accounts)
  BY VerdictLedger DEF Resolve, Principals
<1>3. attestations' \in [Ids -> Attestation]
  BY DEF TypeOK, Resolve, Attestation, Statuses
<1>4. reputations' \in [Accounts -> Reputation]
  <2> DEFINE who == attestations[id].attestor
  <2>1. who \in Accounts
    BY DEF TypeOK, Attestation
  <2>2. ReputationAfter(reputations[who], fraudulent) \in Reputation
    <3>1. reputations[who] \in Reputation
      BY <2>1 DEF TypeOK
    <3>2. QED
      BY <3>1, ReputationAfterType
  <2>3. reputations' = [reputations EXCEPT ![who] =
                           ReputationAfter(reputations[who], fraudulent)]
    BY DEF Resolve
  <2>4. QED
    BY <2>1, <2>2, <2>3 DEF TypeOK
<1>5. QED
  BY <1>1, <1>2, <1>3, <1>4 DEF TypeOK

(* finalize: the stake that goes home is there.                            *)
LEMMA FinalizeTypeOK ==
    ASSUME TypeOK, NEW id \in Ids, Finalize(id)
    PROVE  TypeOK'
<1>1. UNCHANGED <<now, count>> /\ Ids' = Ids
  BY DEF Finalize, Ids
<1>2. token' \in Ledgers(Accounts \cup {Self}, Accounts)
  BY TransferType DEF TypeOK, Finalize, CanFinalize, Principals, Attestation
<1>3. attestations' \in [Ids -> Attestation]
  BY DEF TypeOK, Finalize, Attestation, Statuses
<1>4. reputations' \in [Accounts -> Reputation]
  <2>1. attestations[id].attestor \in Accounts
    BY DEF TypeOK, Attestation
  <2>2. QED
    BY <2>1 DEF TypeOK, Finalize, Reputation
<1>5. QED
  BY <1>1, <1>2, <1>3, <1>4 DEF TypeOK

(* Approvals and transfers that bypass the registry keep the types.        *)
LEMMA DirectTypeOK ==
    ASSUME TypeOK, NEW a \in Accounts,
           \/ \E amount \in Approvals : ApproveRegistry(a, amount)
           \/ \E p \in Accounts \cup {Self}, amount \in Gifts :
                 TransferStake(a, p, amount)
    PROVE  TypeOK'
<1>1. UNCHANGED <<now, count, attestations, reputations>> /\ Ids' = Ids
  BY DEF ApproveRegistry, TransferStake, Ids
<1>2. token' \in Ledgers(Accounts \cup {Self}, Accounts)
  <2>1. ASSUME NEW amount \in Approvals, ApproveRegistry(a, amount)
        PROVE  token' \in Ledgers(Accounts \cup {Self}, Accounts)
    BY <2>1, InputAssumption DEF TypeOK, ApproveRegistry, Approve, Ledgers
  <2>2. ASSUME NEW p \in Accounts \cup {Self}, NEW amount \in Gifts,
               TransferStake(a, p, amount)
        PROVE  token' \in Ledgers(Accounts \cup {Self}, Accounts)
    BY <2>2, InputAssumption, TransferType DEF TypeOK, TransferStake, Principals
  <2>3. QED
    BY <2>1, <2>2
<1>3. QED
  BY <1>1, <1>2 DEF TypeOK

(* A new block keeps the types.                                            *)
LEMMA TickTypeOK ==
    ASSUME TypeOK, Tick
    PROVE  TypeOK'
BY WidthAssumption DEF TypeOK, Tick, Ids

(* So every deploy does.                                                   *)
LEMMA NextTypeOK == TypeOK /\ [Next]_vars => TypeOK'
<1> SUFFICES ASSUME TypeOK, [Next]_vars
             PROVE  TypeOK'
  OBVIOUS
<1>1. CASE UNCHANGED vars
  BY <1>1 DEF TypeOK, vars, Ids
<1>2. CASE Next
  BY <1>2, SubmitTypeOK, ChallengeTypeOK, ResolveTypeOK, FinalizeTypeOK,
     DirectTypeOK, TickTypeOK DEF Next
<1>3. QED
  BY <1>1, <1>2

(* Every reachable state of the registry is well typed: in particular no   *)
(* sequence of deploys makes a balance, an allowance or a counter negative *)
(* and no verdict pays an address that is not an account.                  *)
THEOREM TypeCorrect == Spec => []TypeOK
<1>1. Init => TypeOK
  BY InitTypeOK
<1>2. TypeOK /\ [Next]_vars => TypeOK'
  BY NextTypeOK
<1>3. QED
  BY <1>1, <1>2, PTL DEF Spec
-----------------------------------------------------------------------------
(* The escrow as a sum over the records.                                   *)

(* What is locked behind an attestation is a natural number.               *)
LEMMA LockedNat ==
    ASSUME NEW att \in Attestation
    PROVE  Locked(att) \in Nat
BY DEF Locked, Attestation

(* The escrow is a natural number that covers each of its parts.           *)
LEMMA EscrowedCovers ==
    ASSUME TypeOK
    PROVE  /\ Escrowed \in Nat
           /\ \A id \in Ids : Locked(attestations[id]) <= Escrowed
<1> DEFINE f == [id \in Ids |-> Locked(attestations[id])]
<1>1. count \in Nat
  BY InputAssumption DEF TypeOK
<1>2. \A id \in Ids : f[id] = Locked(attestations[id]) /\ f[id] \in Nat
  BY LockedNat DEF TypeOK
<1>3. \A id \in 0 .. count - 1 : f[id] \in Nat
  BY <1>2 DEF Ids
<1>4. Escrowed = Total(f, count)
  BY DEF Escrowed
<1> HIDE DEF f
<1>5. QED
  BY <1>1, <1>2, <1>3, <1>4, TotalMember DEF Ids

(* A new record adds its stake to the escrow.                              *)
LEMMA EscrowedAfterSubmit ==
    ASSUME TypeOK, TypeOK', NEW a \in Accounts, NEW m \in ModelIds,
           NEW c \in Commitments, NEW s \in Stakes, Submit(a, m, c, s)
    PROVE  Escrowed' = Escrowed + s
<1> DEFINE f == [id \in Ids |-> Locked(attestations[id])]
           g == [id \in 0 .. count |-> Locked(attestations'[id])]
<1>1. count \in Nat /\ count' = count + 1 /\ s \in Nat
  BY InputAssumption DEF TypeOK, Submit
<1>2. /\ \A id \in Ids : attestations'[id] = attestations[id]
      /\ attestations'[count].stake = s
      /\ attestations'[count].challenge_bond = 0
      /\ attestations'[count].status = "Active"
  BY <1>1 DEF Submit, Ids
<1>3. \A id \in 0 .. count - 1 : f[id] = g[id]
  BY <1>1, <1>2 DEF Ids
<1>4. g[count] = s
  BY <1>1, <1>2 DEF Locked, Terminal
<1>5. Escrowed = Total(f, count) /\ Escrowed' = Total(g, count + 1)
  <2>1. Ids' = 0 .. count
    BY <1>1 DEF Ids
  <2>2. QED
    BY <1>1, <2>1 DEF Escrowed, Locked
<1> HIDE DEF f, g
<1>6. Total(g, count + 1) = Total(g, count) + g[count]
  BY <1>1, TotalStep
<1>7. Total(f, count) = Total(g, count)
  BY <1>1, <1>3, TotalAgree
<1>8. QED
  BY <1>4, <1>5, <1>6, <1>7

(* A step that rewrites one record changes the escrow by what it changes   *)
(* in what that record locks.                                              *)
LEMMA EscrowedAfterUpdate ==
    ASSUME TypeOK, TypeOK', NEW id \in Ids, count' = count,
           \A i \in Ids : i # id => attestations'[i] = attestations[i]
    PROVE  Escrowed' = Escrowed + (Locked(attestations'[id])
                                    - Locked(attestations[id]))
<1> DEFINE f == [i \in Ids |-> Locked(attestations[i])]
           g == [i \in Ids |-> Locked(attestations'[i])]
<1>1. count \in Nat /\ Ids' = Ids
  BY InputAssumption DEF TypeOK, Ids
<1>2. \A i \in Ids : attestations[i] \in Attestation
                     /\ attestations'[i] \in Attestation
  BY <1>1 DEF TypeOK
<1>3. \A i \in Ids : f[i] \in Int /\ g[i] \in Int
  BY <1>2, LockedNat
<1>4. \A i \in Ids : i # id => f[i] = g[i]
  OBVIOUS
<1>5. f[id] = Locked(attestations[id]) /\ g[id] = Locked(attestations'[id])
  OBVIOUS
<1>6. Escrowed = Total(f, count) /\ Escrowed' = Total(g, count)
  BY <1>1 DEF Escrowed, Locked
<1> HIDE DEF f, g
<1>7. Total(g, count) = Total(f, count) + (g[id] - f[id])
  BY <1>1, <1>3, <1>4, TotalChange DEF Ids
<1>8. QED
  BY <1>5, <1>6, <1>7
-----------------------------------------------------------------------------
(* What each entry point does to the surplus: nothing.                     *)

(* submit_attestation takes in exactly the stake it records.               *)
LEMMA SurplusAfterSubmit ==
    ASSUME TypeOK, TypeOK', NEW a \in Accounts, NEW m \in ModelIds,
           NEW c \in Commitments, NEW s \in Stakes, Submit(a, m, c, s)
    PROVE  Surplus' = Surplus
<1>1. s \in Nat /\ token \in Ledgers(Principals, Accounts)
  BY InputAssumption DEF TypeOK, Principals
<1>2. token'.balances[Self] = token.balances[Self] + s
  BY <1>1, TransferFromType DEF Submit
<1>3. token.balances[Self] \in Nat
  BY <1>1 DEF Ledgers, Principals
<1>4. QED
  BY <1>1, <1>2, <1>3, EscrowedAfterSubmit, EscrowedCovers DEF Surplus

(* challenge takes in exactly the bond it records.                         *)
LEMMA SurplusAfterChallenge ==
    ASSUME TypeOK, TypeOK', RecordsWellFormed, NEW a \in Accounts,
           NEW id \in Ids, Challenge(a, id)
    PROVE  Surplus' = Surplus
<1>1. /\ ChallengeBond \in Nat /\ token \in Ledgers(Principals, Accounts)
      /\ attestations[id] \in Attestation
  BY ConfigAssumption DEF TypeOK, Principals
<1>2. token'.balances[Self] = token.balances[Self] + ChallengeBond
  BY <1>1, TransferFromType DEF Challenge
<1>3. token.balances[Self] \in Nat
  BY <1>1 DEF Ledgers, Principals
<1>4. /\ attestations[id].status = "Active"
      /\ attestations[id].challenge_bond = 0
  BY DEF Challenge, RecordsWellFormed
<1>5. /\ attestations'[id].status = "Challenged"
      /\ attestations'[id].stake = attestations[id].stake
      /\ attestations'[id].challenge_bond = ChallengeBond
  BY <1>1 DEF Challenge, TypeOK, Attestation
<1>6. Locked(attestations'[id]) = Locked(attestations[id]) + ChallengeBond
  BY <1>1, <1>4, <1>5 DEF Locked, Terminal, Attestation
<1>7. count' = count /\ \A i \in Ids : i # id => attestations'[i] = attestations[i]
  BY DEF Challenge, TypeOK
<1>8. Escrowed' = Escrowed + ChallengeBond
  <2>1. Locked(attestations[id]) \in Nat
    BY <1>1, LockedNat
  <2>2. QED
    BY <1>1, <1>6, <1>7, <2>1, EscrowedAfterUpdate, EscrowedCovers
<1>9. QED
  BY <1>1, <1>2, <1>3, <1>8, EscrowedCovers DEF Surplus

(* resolve pays out exactly the stake and the bond it releases.            *)
LEMMA SurplusAfterResolve ==
    ASSUME TypeOK, TypeOK', NEW a \in Accounts, NEW id \in Ids,
           NEW fraudulent \in BOOLEAN, Resolve(a, id, fraudulent)
    PROVE  Surplus' = Surplus
<1> DEFINE held == attestations[id].stake + attestations[id].challenge_bond
<1>1. /\ token \in Ledgers(Principals, Accounts)
      /\ attestations[id] \in Attestation
      /\ held \in Nat
  BY DEF TypeOK, Principals, Attestation
<1>2. token'.balances[Self] = token.balances[Self] - held
  BY VerdictLedger DEF Resolve
<1>3. token.balances[Self] \in Nat
  BY <1>1 DEF Ledgers, Principals
<1>4. Locked(attestations[id]) = held
  BY DEF Resolve, CanResolve, Locked, Terminal
<1>5. Locked(attestations'[id]) = 0
  <2>1. attestations'[id].status \in Terminal
    BY <1>1 DEF Resolve, TypeOK, Terminal, Attestation
  <2>2. QED
    BY <2>1 DEF Locked
<1>6. count' = count /\ \A i \in Ids : i # id => attestations'[i] = attestations[i]
  BY DEF Resolve, TypeOK
<1> HIDE DEF held
<1>7. Escrowed' = Escrowed - held
  BY <1>1, <1>4, <1>5, <1>6, EscrowedAfterUpdate, EscrowedCovers
<1>8. QED
  BY <1>1, <1>2, <1>3, <1>7, EscrowedCovers DEF Surplus

(* finalize pays out exactly the stake it releases.                        *)
LEMMA SurplusAfterFinalize ==
    ASSUME TypeOK, TypeOK', RecordsWellFormed, NEW id \in Ids, Finalize(id)
    PROVE  Surplus' = Surplus
<1> DEFINE held == attestations[id].stake
<1>1. /\ token \in Ledgers(Principals, Accounts)
      /\ attestations[id] \in Attestation
      /\ attestations[id].attestor \in Principals
      /\ held \in Nat
      /\ Self \in Principals
  BY DEF TypeOK, Principals, Attestation
<1>2. token'.balances[Self] = token.balances[Self] - held
  BY <1>1, TransferType DEF Finalize, CanFinalize
<1>3. token.balances[Self] \in Nat
  BY <1>1 DEF Ledgers, Principals
<1>4. Locked(attestations[id]) = held
  BY <1>1 DEF Finalize, CanFinalize, RecordsWellFormed, Locked, Terminal
<1>5. Locked(attestations'[id]) = 0
  <2>1. attestations'[id].status \in Terminal
    BY <1>1 DEF Finalize, TypeOK, Terminal, Attestation
  <2>2. QED
    BY <2>1 DEF Locked
<1>6. count' = count /\ \A i \in Ids : i # id => attestations'[i] = attestations[i]
  BY DEF Finalize, TypeOK
<1> HIDE DEF held
<1>7. Escrowed' = Escrowed - held
  BY <1>1, <1>4, <1>5, <1>6, EscrowedAfterUpdate, EscrowedCovers
<1>8. QED
  BY <1>1, <1>2, <1>3, <1>7, EscrowedCovers DEF Surplus

(* A step that touches no record cannot lower the surplus: only a donation *)
(* changes it.                                                             *)
LEMMA SurplusAfterDirect ==
    ASSUME TypeOK, UNCHANGED <<count, attestations>>, NEW a \in Accounts,
           \/ \E amount \in Approvals : ApproveRegistry(a, amount)
           \/ \E p \in Accounts \cup {Self}, amount \in Gifts :
                 TransferStake(a, p, amount)
    PROVE  Surplus' >= Surplus
<1>1. token.balances[Self] \in Nat /\ Escrowed \in Nat
  BY EscrowedCovers DEF TypeOK, Ledgers
<1>2. Escrowed' = Escrowed
  BY DEF Escrowed, Ids
<1>3. token'.balances[Self] \in Nat /\ token'.balances[Self] >= token.balances[Self]
  <2>1. ASSUME NEW amount \in Approvals, ApproveRegistry(a, amount)
        PROVE  token'.balances[Self] = token.balances[Self]
    BY <2>1 DEF TypeOK, ApproveRegistry, Approve, Ledgers
  <2>2. ASSUME NEW p \in Accounts \cup {Self}, NEW amount \in Gifts,
               TransferStake(a, p, amount)
        PROVE  /\ token'.balances[Self] \in Nat
               /\ token'.balances[Self] >= token.balances[Self]
    <3>1. amount \in Nat /\ a # Self /\ token'.balances =
            [token.balances EXCEPT ![a] = @ - amount, ![p] = @ + amount]
      BY <2>2, InputAssumption, AddressAssumption
      DEF TransferStake, Transfer, TypeOK, Ledgers
    <3>2. p = Self \/ p # Self
      OBVIOUS
    <3>3. token.balances \in [Accounts \cup {Self} -> Nat]
      BY DEF TypeOK, Ledgers
    <3>4. QED
      BY <1>1, <3>1, <3>2, <3>3
  <2>3. QED
    BY <1>1, <2>1, <2>2
<1>4. QED
  BY <1>1, <1>2, <1>3 DEF Surplus
-----------------------------------------------------------------------------
(* The records stay well formed.                                           *)

(* Every step keeps the records well formed.                               *)
LEMMA NextRecords ==
    ASSUME TypeOK, TypeOK', RecordsWellFormed, [Next]_vars
    PROVE  RecordsWellFormed'
<1>1. ASSUME NEW a \in Accounts, NEW m \in ModelIds, NEW c \in Commitments,
             NEW s \in Stakes, Submit(a, m, c, s)
      PROVE  RecordsWellFormed'
  <2>1. count \in Nat /\ Ids' = 0 .. count
    BY <1>1, InputAssumption DEF TypeOK, Submit, Ids
  <2>2. \A id \in Ids : attestations'[id] = attestations[id]
    BY <1>1, <2>1 DEF Submit, Ids
  <2>3. /\ attestations'[count].stake = s
        /\ attestations'[count].challenge_bond = 0
        /\ attestations'[count].challenger = NoOne
        /\ attestations'[count].status = "Active"
    BY <1>1, <2>1 DEF Submit
  <2>4. \A id \in Ids' : id \in Ids \/ id = count
    <3>1. \A id \in 0 .. count : id \in 0 .. count - 1 \/ id = count
      BY <2>1
    <3>2. QED
      BY <2>1, <3>1 DEF Ids
  <2>5. QED
    BY <2>2, <2>3, <2>4 DEF RecordsWellFormed
<1>2. ASSUME NEW a \in Accounts, NEW id \in Ids, Challenge(a, id)
      PROVE  RecordsWellFormed'
  <2>1. Ids' = Ids /\ attestations[id] \in Attestation
    BY <1>2 DEF Challenge, TypeOK, Ids
  <2>2. /\ attestations'[id].stake = attestations[id].stake
        /\ attestations'[id].challenge_bond = ChallengeBond
        /\ attestations'[id].challenger = a
        /\ attestations'[id].status = "Challenged"
    BY <1>2, <2>1 DEF Challenge, TypeOK, Attestation
  <2>3. a # NoOne
    BY AddressAssumption
  <2>4. \A i \in Ids : i # id => attestations'[i] = attestations[i]
    BY <1>2 DEF Challenge, TypeOK
  <2>5. QED
    BY <2>1, <2>2, <2>3, <2>4 DEF RecordsWellFormed
<1>3. ASSUME NEW a \in Accounts, NEW id \in Ids, NEW fraudulent \in BOOLEAN,
             Resolve(a, id, fraudulent)
      PROVE  RecordsWellFormed'
  <2>1. Ids' = Ids /\ attestations[id] \in Attestation
    BY <1>3 DEF Resolve, TypeOK, Ids
  <2>2. /\ attestations'[id].stake = attestations[id].stake
        /\ attestations'[id].challenge_bond = attestations[id].challenge_bond
        /\ attestations'[id].challenger = attestations[id].challenger
        /\ attestations'[id].status \in Terminal
    BY <1>3, <2>1 DEF Resolve, TypeOK, Attestation, Terminal
  <2>3. attestations[id].challenger # NoOne
    BY <1>3 DEF Resolve, CanResolve
  <2>4. \A i \in Ids : i # id => attestations'[i] = attestations[i]
    BY <1>3 DEF Resolve, TypeOK
  <2>5. QED
    BY <2>1, <2>2, <2>3, <2>4 DEF RecordsWellFormed, Terminal
<1>4. ASSUME NEW id \in Ids, Finalize(id)
      PROVE  RecordsWellFormed'
  <2>1. Ids' = Ids /\ attestations[id] \in Attestation
    BY <1>4 DEF Finalize, TypeOK, Ids
  <2>2. /\ attestations'[id].stake = attestations[id].stake
        /\ attestations'[id].challenge_bond = attestations[id].challenge_bond
        /\ attestations'[id].challenger = attestations[id].challenger
        /\ attestations'[id].status = "Finalized"
    BY <1>4, <2>1 DEF Finalize, TypeOK, Attestation
  <2>3. \A i \in Ids : i # id => attestations'[i] = attestations[i]
    BY <1>4 DEF Finalize, TypeOK
  <2>4. QED
    BY <2>1, <2>2, <2>3 DEF RecordsWellFormed
<1>5. ASSUME UNCHANGED <<count, attestations>>
      PROVE  RecordsWellFormed'
  BY <1>5 DEF RecordsWellFormed, Ids
<1>6. QED
  BY <1>1, <1>2, <1>3, <1>4, <1>5
  DEF Next, vars, ApproveRegistry, TransferStake, Tick

(* Every step leaves the surplus alone or is a direct transfer to it.      *)
LEMMA NextSurplus ==
    ASSUME TypeOK, TypeOK', RecordsWellFormed, [Next]_vars
    PROVE  \/ Surplus' = Surplus
           \/ Surplus' > Surplus /\ UNCHANGED attestations
<1>1. ASSUME NEW a \in Accounts,
             \/ \E amount \in Approvals : ApproveRegistry(a, amount)
             \/ \E p \in Accounts \cup {Self}, amount \in Gifts :
                   TransferStake(a, p, amount)
      PROVE  \/ Surplus' = Surplus
             \/ Surplus' > Surplus /\ UNCHANGED attestations
  <2>1. UNCHANGED <<count, attestations>>
    BY <1>1 DEF ApproveRegistry, TransferStake
  <2>2. Surplus' >= Surplus
    BY <1>1, <2>1, SurplusAfterDirect
  <2>3. Surplus \in Int /\ Surplus' \in Int
    <3>1. Escrowed \in Nat /\ token.balances[Self] \in Nat
      BY EscrowedCovers DEF TypeOK, Ledgers
    <3>2. Escrowed' = Escrowed /\ token'.balances[Self] \in Nat
      BY <2>1 DEF Escrowed, Ids, TypeOK, Ledgers
    <3>3. QED
      BY <3>1, <3>2 DEF Surplus
  <2>4. QED
    BY <2>1, <2>2, <2>3
<1>2. ASSUME UNCHANGED <<token, count, attestations>>
      PROVE  Surplus' = Surplus
  BY <1>2 DEF Surplus, Escrowed, Ids
<1>3. QED
  BY <1>1, <1>2, SurplusAfterSubmit, SurplusAfterChallenge,
     SurplusAfterResolve, SurplusAfterFinalize DEF Next, vars, Tick

-----------------------------------------------------------------------------
(* The inductive invariant.                                                *)

(* The strengthened invariant holds at the start,                          *)
LEMMA InitIInv == Init => IInv
<1> SUFFICES ASSUME Init
             PROVE  IInv
  OBVIOUS
<1>1. TypeOK
  BY InitTypeOK
<1>2. count = 0 /\ Ids = {}
  BY DEF Init, Ids
<1>3. RecordsWellFormed
  BY <1>2 DEF RecordsWellFormed
<1>4. Escrowed = 0
  BY <1>2, TotalZero DEF Escrowed
<1>5. Solvent
  BY <1>1, <1>4 DEF Solvent, Surplus, TypeOK, Ledgers
<1>6. QED
  BY <1>1, <1>3, <1>5 DEF IInv

(* The surplus is a number the provers can compare.                        *)
LEMMA SurplusInt ==
    ASSUME TypeOK
    PROVE  Surplus \in Int
BY EscrowedCovers DEF Surplus, TypeOK, Ledgers

(* every step preserves it,                                                *)
LEMMA NextIInv == IInv /\ [Next]_vars => IInv'
<1> SUFFICES ASSUME IInv, [Next]_vars
             PROVE  IInv'
  OBVIOUS
<1>1. TypeOK'
  BY NextTypeOK DEF IInv
<1>2. RecordsWellFormed'
  BY <1>1, NextRecords DEF IInv
<1>3. Solvent'
  <2>1. \/ Surplus' = Surplus
        \/ Surplus' > Surplus /\ UNCHANGED attestations
    BY <1>1, NextSurplus DEF IInv
  <2>2. Surplus \in Int /\ Surplus' \in Int
    <3>1. Surplus \in Int
      BY SurplusInt DEF IInv
    <3>2. (TypeOK => Surplus \in Int)'
      BY SurplusInt, PTL
    <3>3. QED
      BY <1>1, <3>1, <3>2
  <2>3. QED
    BY <2>1, <2>2 DEF IInv, Solvent
<1>4. QED
  BY <1>1, <1>2, <1>3 DEF IInv

(* and so it holds throughout.                                             *)
LEMMA IInvInductive == Spec => []IInv
BY InitIInv, NextIInv, PTL DEF Spec

(* Solvency, for any number of attestations, any stakes, bond and reward,  *)
(* and any interleaving of deploys: the registry never owes more STAKE     *)
(* than it holds.                                                          *)
THEOREM AlwaysSolvent == Spec => []Solvent
<1>1. IInv => Solvent
  BY DEF IInv
<1>2. QED
  BY <1>1, IInvInductive, PTL

(* No deploy of the registry changes what it holds beyond its escrow.      *)
THEOREM SurplusConserved == Spec => SurplusOnlyDonated
<1>1. IInv /\ IInv' /\ [Next]_vars =>
        [\/ Surplus' = Surplus
         \/ Surplus' > Surplus /\ UNCHANGED attestations]_vars
  BY NextSurplus DEF IInv
<1>2. QED
  BY <1>1, IInvInductive, PTL DEF Spec, SurplusOnlyDonated
-----------------------------------------------------------------------------
(* No attestation is ever wedged.                                          *)

(* The registry can cover the payments of any verdict on a disputed one.   *)
LEMMA VerdictPayable ==
    ASSUME StakesFit, IInv, NEW id \in Ids, NEW fraudulent \in BOOLEAN,
           attestations[id].status = "Challenged"
    PROVE  CanResolve(id, fraudulent)
<1> DEFINE att == attestations[id]
           first == FirstPayment(att, fraudulent)
           second == SecondPayment(att, fraudulent)
           held == att.stake + att.challenge_bond
<1>1. /\ att \in Attestation /\ att.challenger # NoOne
      /\ att.stake \in Stakes /\ att.challenge_bond = ChallengeBond
  BY DEF IInv, TypeOK, RecordsWellFormed
<1>2. /\ FirstPayee(att, fraudulent) \in Accounts
      /\ first \in Nat /\ second \in Nat /\ first + second = held
  BY <1>1, PaymentTypes
<1>3. /\ token \in Ledgers(Principals, Accounts)
      /\ token.balances[Self] \in Nat
      /\ Self \in Principals /\ Treasury \in Principals
      /\ Self # Treasury /\ Self # FirstPayee(att, fraudulent)
  BY <1>2, AddressAssumption DEF IInv, TypeOK, Principals, Ledgers
<1>4. Locked(att) = held /\ held \in Nat
  BY <1>1 DEF Locked, Terminal, Attestation
<1>5. held <= token.balances[Self]
  <2>1. Escrowed \in Nat /\ Locked(att) <= Escrowed
    BY EscrowedCovers DEF IInv
  <2>2. Escrowed <= token.balances[Self]
    BY <1>3, <2>1 DEF IInv, Solvent, Surplus
  <2> HIDE DEF held
  <2>3. QED
    BY <1>3, <1>4, <2>1, <2>2
<1>6. CanTransfer(token, Self, FirstPayee(att, fraudulent), first)
  <2>1. first <= token.balances[Self]
    <3> HIDE DEF held, first, second
    <3>1. QED
      BY <1>2, <1>3, <1>4, <1>5
  <2>2. QED
    BY <1>3, <2>1 DEF CanTransfer
<1>7. CanTransferIfAny(AfterFirst(att, fraudulent), Self, Treasury, second)
  <2>1. AfterFirst(att, fraudulent).balances[Self] = token.balances[Self] - first
    BY <1>2, <1>3, <1>6, TransferType DEF AfterFirst, Principals
  <2>2. second <= token.balances[Self] - first
    <3> HIDE DEF held, first, second
    <3>1. QED
      BY <1>2, <1>3, <1>4, <1>5
  <2>3. QED
    BY <1>3, <2>1, <2>2 DEF CanTransferIfAny, CanTransfer
<1>8. /\ att.stake * RewardBps <= MaxU256
      /\ Reward(att) + att.challenge_bond <= MaxU256
  <2>1. att.stake * RewardBps <= MaxU256 /\ att.stake + ChallengeBond <= MaxU256
    BY <1>1 DEF StakesFit
  <2>2. /\ Reward(att) \in Nat /\ Reward(att) <= att.stake
        /\ att.stake \in Nat /\ ChallengeBond \in Nat /\ MaxU256 \in Nat
    BY <1>1, RewardBounds, ConfigAssumption, WidthAssumption DEF Attestation
  <2>3. QED
    BY <1>1, <2>1, <2>2
<1>9. QED
  BY <1>1, <1>6, <1>7, <1>8 DEF CanResolve

(* The registry can hand back the stake of an undisputed one.              *)
LEMMA StakeReturnable ==
    ASSUME IInv, NEW id \in Ids, attestations[id].status = "Active",
           WindowClosed(attestations[id])
    PROVE  CanFinalize(id)
<1> DEFINE att == attestations[id]
<1>1. att \in Attestation /\ att.challenge_bond = 0
  BY DEF IInv, TypeOK, RecordsWellFormed
<1>2. /\ att.stake \in Nat /\ att.attestor \in Accounts
      /\ Locked(att) = att.stake
  BY <1>1 DEF Locked, Terminal, Attestation
<1>3. /\ token.balances[Self] \in Nat /\ Self # att.attestor
  BY <1>2, AddressAssumption DEF IInv, TypeOK, Ledgers
<1>4. Escrowed \in Nat /\ Locked(att) <= Escrowed
  BY EscrowedCovers DEF IInv
<1>5. att.stake <= token.balances[Self]
  BY <1>2, <1>3, <1>4 DEF IInv, Solvent, Surplus
<1>6. QED
  BY <1>3, <1>5 DEF CanFinalize, CanTransfer

(* As long as the stakes on offer fit the arithmetic, every disputed       *)
(* attestation can be ruled on either way and every lapsed one finalized.  *)
THEOREM NeverWedged ==
    ASSUME StakesFit
    PROVE  Spec => []NeverStuck
<1>1. IInv => NeverStuck
  BY VerdictPayable, StakeReturnable DEF NeverStuck
<1>2. QED
  BY <1>1, IInvInductive, PTL
-----------------------------------------------------------------------------
(* What the records say of the past.                                       *)

(* What a submission does to the records: one more, the others as before.  *)
LEMMA SubmitRecords ==
    ASSUME TypeOK, NEW a \in Accounts, NEW m \in ModelIds,
           NEW c \in Commitments, NEW s \in Stakes, Submit(a, m, c, s)
    PROVE  /\ count \in Nat /\ count \notin Ids
           /\ Ids' = Ids \cup {count}
           /\ \A id \in Ids : attestations'[id] = attestations[id]
           /\ attestations'[count] =
                [attestor |-> a, model_id |-> m, commitment |-> c,
                 stake |-> s, created_at |-> now, status |-> "Active",
                 challenger |-> NoOne, challenge_bond |-> 0,
                 challenged_at |-> 0]
<1>1. count \in Nat /\ count' = count + 1
  BY InputAssumption DEF TypeOK, Submit
<1>2. Ids' = 0 .. count /\ Ids = 0 .. count - 1
  BY <1>1 DEF Ids
<1>3. count \notin Ids /\ Ids' = Ids \cup {count}
  BY <1>1, <1>2
<1>4. \A id \in Ids : id \in 0 .. count /\ id < count
  BY <1>1, <1>2
<1>5. count \in 0 .. count /\ ~ (count < count)
  BY <1>1
<1>6. QED
  BY <1>1, <1>3, <1>4, <1>5 DEF Submit
-----------------------------------------------------------------------------
(* The dispute window.                                                     *)

(* No record comes from the future.                                        *)
CreatedInThePast == \A id \in Ids : attestations[id].created_at <= now

WindowInv == IInv /\ CreatedInThePast /\ WindowRespected

(* The saturating arithmetic of window_closed never closes a window early, *)
(* and as block times are u64 it never keeps one open too long either: a   *)
(* window that saturates does not close at all.                            *)
LEMMA WindowExact ==
    ASSUME TypeOK, NEW id \in Ids
    PROVE  /\ WindowClosed(attestations[id]) => now > WindowEnd(attestations[id])
           /\ ~ WindowClosed(attestations[id])
                => now <= WindowEnd(attestations[id])
<1> DEFINE created == attestations[id].created_at
           width == DisputeWindow * 1000
<1>1. created \in Nat /\ width \in Nat /\ now \in 0 .. MaxU64 /\ MaxU64 \in Nat
  BY ConfigAssumption, WidthAssumption DEF TypeOK, Attestation
<1>2. WindowEnd(attestations[id]) = created + width
  BY DEF WindowEnd
<1>3. WindowClosed(attestations[id]) <=> now > Saturated(created + Saturated(width))
  BY DEF WindowClosed
<1> HIDE DEF created, width
<1>4. QED
  BY <1>1, <1>2, <1>3 DEF Saturated

(* What the three deploys that touch a record leave of it.                 *)
LEMMA ChallengeRecords ==
    ASSUME TypeOK, NEW a \in Accounts, NEW id \in Ids, Challenge(a, id)
    PROVE  /\ Ids' = Ids /\ count' = count /\ now' = now
           /\ \A i \in Ids : i # id => attestations'[i] = attestations[i]
           /\ attestations[id].status = "Active"
           /\ attestations'[id] =
                [attestations[id] EXCEPT !.status = "Challenged",
                                         !.challenger = a,
                                         !.challenge_bond = ChallengeBond,
                                         !.challenged_at = now]
BY DEF Challenge, TypeOK, Ids

(* A verdict writes the status of one record and nothing else of it.       *)
LEMMA ResolveRecords ==
    ASSUME TypeOK, NEW a \in Accounts, NEW id \in Ids,
           NEW fraudulent \in BOOLEAN, Resolve(a, id, fraudulent)
    PROVE  /\ Ids' = Ids /\ count' = count /\ now' = now
           /\ \A i \in Ids : i # id => attestations'[i] = attestations[i]
           /\ attestations[id].status = "Challenged"
           /\ attestations[id].challenger # NoOne
           /\ attestations'[id] =
                [attestations[id] EXCEPT !.status =
                    IF fraudulent THEN "Slashed" ELSE "Finalized"]
BY DEF Resolve, CanResolve, TypeOK, Ids

(* So does a finalization.                                                 *)
LEMMA FinalizeRecords ==
    ASSUME TypeOK, NEW id \in Ids, Finalize(id)
    PROVE  /\ Ids' = Ids /\ count' = count /\ now' = now
           /\ \A i \in Ids : i # id => attestations'[i] = attestations[i]
           /\ attestations[id].status = "Active"
           /\ WindowClosed(attestations[id])
           /\ attestations'[id] =
                [attestations[id] EXCEPT !.status = "Finalized"]
BY DEF Finalize, CanFinalize, TypeOK, Ids

(* The window depends on the creation time only.                           *)
LEMMA WindowEndSame ==
    ASSUME NEW r, NEW s, r.created_at = s.created_at
    PROVE  WindowEnd(r) = WindowEnd(s)
BY DEF WindowEnd

(* Every deploy keeps the window.                                          *)
LEMMA NextWindow ==
    ASSUME WindowInv, TypeOK', [Next]_vars
    PROVE  CreatedInThePast' /\ WindowRespected'
<1>1. /\ TypeOK /\ RecordsWellFormed /\ CreatedInThePast /\ WindowRespected
      /\ now \in Nat /\ now' \in Nat
  BY WidthAssumption DEF WindowInv, IInv, TypeOK
<1>2. \A id \in Ids : /\ attestations[id] \in Attestation
                      /\ attestations[id].created_at \in Nat
                      /\ WindowEnd(attestations[id]) \in Nat
  BY <1>1, ConfigAssumption DEF TypeOK, Attestation, WindowEnd
<1>3. ASSUME NEW a \in Accounts, NEW m \in ModelIds, NEW c \in Commitments,
             NEW s \in Stakes, Submit(a, m, c, s)
      PROVE  CreatedInThePast' /\ WindowRespected'
  <2>1. now' = now
    BY <1>3 DEF Submit
  <2> DEFINE new == attestations'[count]
  <2>2. new.created_at = now /\ new.challenger = NoOne /\ new.status = "Active"
    <3>1. new = [attestor |-> a, model_id |-> m, commitment |-> c,
                 stake |-> s, created_at |-> now, status |-> "Active",
                 challenger |-> NoOne, challenge_bond |-> 0,
                 challenged_at |-> 0]
      BY <1>1, <1>3, SubmitRecords
    <3>2. QED
      BY <3>1
  <2>3. /\ Ids' = Ids \cup {count}
        /\ \A id \in Ids : attestations'[id] = attestations[id]
    BY <1>1, <1>3, SubmitRecords
  <2> HIDE DEF new
  <2>4. CreatedInThePast'
    BY <1>1, <2>1, <2>2, <2>3 DEF CreatedInThePast, new
  <2>5. WindowRespected'
    BY <1>1, <2>1, <2>2, <2>3 DEF WindowRespected, WindowEnd, new
  <2>6. QED
    BY <2>4, <2>5
<1>4. ASSUME NEW a \in Accounts, NEW id \in Ids, Challenge(a, id)
      PROVE  CreatedInThePast' /\ WindowRespected'
  <2> DEFINE old == attestations[id]
             new == attestations'[id]
  <2>1. /\ Ids' = Ids /\ now' = now
        /\ \A i \in Ids : i # id => attestations'[i] = attestations[i]
    BY <1>1, <1>4, ChallengeRecords
  <2>2. /\ new.created_at = old.created_at /\ new.challenged_at = now
        /\ new.status = "Challenged"
    <3>1. new = [old EXCEPT !.status = "Challenged", !.challenger = a,
                            !.challenge_bond = ChallengeBond,
                            !.challenged_at = now]
      BY <1>1, <1>4, ChallengeRecords
    <3>2. old \in Attestation
      BY <1>2
    <3> HIDE DEF old, new
    <3>3. QED
      BY <3>1, <3>2 DEF Attestation
  <2>3. now \in old.created_at .. WindowEnd(old)
    <3>1. ~ WindowClosed(old)
      BY <1>4 DEF Challenge
    <3>2. now <= WindowEnd(old)
      BY <1>1, <3>1, WindowExact
    <3>3. QED
      BY <1>1, <1>2, <3>2 DEF CreatedInThePast
  <2>4. WindowEnd(new) = WindowEnd(old)
    BY <2>2, WindowEndSame
  <2> HIDE DEF old, new
  <2>5. CreatedInThePast'
    BY <1>1, <2>1, <2>2 DEF CreatedInThePast, old, new
  <2>6. WindowRespected'
    <3>1. new.challenged_at \in new.created_at .. WindowEnd(new)
      BY <2>2, <2>3, <2>4
    <3>2. QED
      BY <1>1, <2>1, <2>2, <3>1 DEF WindowRespected, WindowEnd, new
  <2>7. QED
    BY <2>5, <2>6
<1>5. ASSUME NEW a \in Accounts, NEW id \in Ids, NEW fraudulent \in BOOLEAN,
             Resolve(a, id, fraudulent)
      PROVE  CreatedInThePast' /\ WindowRespected'
  <2> DEFINE old == attestations[id]
             new == attestations'[id]
  <2>1. /\ Ids' = Ids /\ now' = now
        /\ \A i \in Ids : i # id => attestations'[i] = attestations[i]
        /\ old.challenger # NoOne
    BY <1>1, <1>5 DEF Resolve, CanResolve, TypeOK, Ids
  <2>2. /\ new.created_at = old.created_at
        /\ new.challenged_at = old.challenged_at
        /\ new.challenger = old.challenger
    <3>1. new = [old EXCEPT !.status =
                   IF fraudulent THEN "Slashed" ELSE "Finalized"]
      BY <1>1, <1>5, ResolveRecords
    <3>2. old \in Attestation
      BY <1>2
    <3> HIDE DEF old, new
    <3>3. QED
      BY <3>1, <3>2 DEF Attestation
  <2>3. CreatedInThePast'
    BY <1>1, <2>1, <2>2 DEF CreatedInThePast
  <2>4. WindowRespected'
    BY <1>1, <2>1, <2>2 DEF WindowRespected, WindowEnd
  <2>5. QED
    BY <2>3, <2>4
<1>6. ASSUME NEW id \in Ids, Finalize(id)
      PROVE  CreatedInThePast' /\ WindowRespected'
  <2> DEFINE old == attestations[id]
             new == attestations'[id]
  <2>1. /\ Ids' = Ids /\ now' = now
        /\ \A i \in Ids : i # id => attestations'[i] = attestations[i]
        /\ old.status = "Active" /\ WindowClosed(old)
    BY <1>1, <1>6, FinalizeRecords
  <2>2. new.created_at = old.created_at /\ new.challenger = old.challenger
    BY <1>1, <1>2, <1>6, FinalizeRecords, ZenonT(60) DEF Attestation
  <2>3. old.challenger = NoOne
    BY <1>1, <2>1 DEF RecordsWellFormed
  <2>4. now > WindowEnd(old)
    BY <1>1, <2>1, WindowExact
  <2>5. CreatedInThePast'
    BY <1>1, <2>1, <2>2 DEF CreatedInThePast
  <2>6. WindowRespected'
    BY <1>1, <2>1, <2>2, <2>3, <2>4 DEF WindowRespected, WindowEnd
  <2>7. QED
    BY <2>5, <2>6
<1>7. ASSUME UNCHANGED <<count, attestations>>, now' >= now
      PROVE  CreatedInThePast' /\ WindowRespected'
  <2>1. Ids' = Ids
    BY <1>7 DEF Ids
  <2>2. CreatedInThePast'
    BY <1>1, <1>2, <1>7, <2>1 DEF CreatedInThePast
  <2>3. \A id \in Ids : now > WindowEnd(attestations[id])
                          => now' > WindowEnd(attestations[id])
    BY <1>1, <1>2, <1>7
  <2>4. WindowRespected'
    BY <1>1, <1>7, <2>1, <2>3 DEF WindowRespected, WindowEnd
  <2>5. QED
    BY <2>2, <2>4
<1>8. UNCHANGED <<now, count, attestations>> \/ Tick =>
        UNCHANGED <<count, attestations>> /\ now' >= now
  BY <1>1, WidthAssumption DEF Tick
<1>9. QED
  BY <1>3, <1>4, <1>5, <1>6, <1>7, <1>8
  DEF Next, vars, ApproveRegistry, TransferStake

(* The dispute window is kept to the millisecond, for every configuration  *)
(* and wherever the u64 arithmetic saturates: nobody challenges outside    *)
(* it, and nothing is finalized unchallenged inside it.                    *)
THEOREM WindowAlwaysRespected == Spec => []WindowRespected
<1>1. Init => WindowInv
  <2>1. Init => Ids = {}
    BY DEF Init, Ids
  <2>2. QED
    BY <2>1, InitIInv DEF WindowInv, CreatedInThePast, WindowRespected
<1>2. WindowInv /\ [Next]_vars => WindowInv'
  <2> SUFFICES ASSUME WindowInv, [Next]_vars
               PROVE  WindowInv'
    OBVIOUS
  <2>1. IInv'
    BY NextIInv DEF WindowInv
  <2>2. QED
    BY <2>1, NextWindow DEF WindowInv, IInv
<1>3. WindowInv => WindowRespected
  BY DEF WindowInv
<1>4. QED
  BY <1>1, <1>2, <1>3, PTL DEF Spec
-----------------------------------------------------------------------------
(* The lifecycle readers rely on.                                          *)

(* What a reader sees of one record.                                       *)
Seen(att) ==
    [attestor |-> att.attestor, model_id |-> att.model_id,
     commitment |-> att.commitment, status |-> att.status]

(* What readers see, record by record.                                     *)
LEMMA ReadableSeen == Readable = [id \in Ids |-> Seen(attestations[id])]
BY DEF Readable, Seen

(* A change of nothing but the status of one record is an advance of it.   *)
LEMMA ReadableAdvance ==
    ASSUME NEW id \in Ids, Ids' = Ids, NEW from, NEW to,
           \A i \in Ids : i # id => attestations'[i] = attestations[i],
           attestations[id].status = from,
           Seen(attestations'[id]) = [Seen(attestations[id]) EXCEPT !.status = to]
    PROVE  Lifecycle!Advance(id, from, to)
<1>1. DOMAIN Readable = Ids /\ Readable[id].status = from
  BY DEF Readable
<1>2. Readable' = [i \in Ids |-> Seen(attestations'[i])]
  BY ReadableSeen DEF Readable, Seen
<1>3. Readable' = [Readable EXCEPT ![id].status = to]
  <2>1. \A i \in Ids : i # id => Seen(attestations'[i]) = Seen(attestations[i])
    OBVIOUS
  <2>2. Readable[id] = Seen(attestations[id])
    BY ReadableSeen
  <2>3. Readable' = [Readable EXCEPT ![id] = Seen(attestations'[id])]
    BY <1>2, <2>1, ReadableSeen
  <2>4. QED
    BY <2>2, <2>3
<1>4. QED
  BY <1>1, <1>3 DEF Lifecycle!Advance, Lifecycle!Published

(* A submission publishes the next id.                                     *)
LEMMA SubmitPublishes ==
    ASSUME TypeOK, NEW a \in Accounts, NEW m \in ModelIds,
           NEW c \in Commitments, NEW s \in Stakes, Submit(a, m, c, s)
    PROVE  Lifecycle!Publish(a, m, c)
<1>1. count \in 0 .. MaxAttestations - 1 /\ count \in Nat
  BY InputAssumption DEF TypeOK, Submit
<1>2. DOMAIN Readable = 0 .. count - 1
  BY DEF Readable, Ids
<1> DEFINE new == [attestor |-> a, model_id |-> m, commitment |-> c,
                   status |-> "Active"]
<1>3. Readable' = [i \in 0 .. count |-> IF i < count THEN Readable[i] ELSE new]
  <2>1. Ids' = 0 .. count
    BY <1>1 DEF Submit, Ids
  <2>2. Readable' = [i \in 0 .. count |-> Seen(attestations'[i])]
    BY <2>1 DEF Readable, Seen
  <2>3. ASSUME NEW i \in 0 .. count, i < count
        PROVE  Seen(attestations'[i]) = Readable[i]
    <3>1. i \in Ids
      BY <1>1, <2>3 DEF Ids
    <3>2. attestations'[i] = attestations[i]
      BY <3>1, SubmitRecords
    <3>3. QED
      BY <3>1, <3>2 DEF Readable, Seen
  <2>4. Seen(attestations'[count]) = new
    <3>1. attestations'[count] =
            [attestor |-> a, model_id |-> m, commitment |-> c,
             stake |-> s, created_at |-> now, status |-> "Active",
             challenger |-> NoOne, challenge_bond |-> 0, challenged_at |-> 0]
      BY SubmitRecords
    <3>2. QED
      BY <3>1 DEF Seen
  <2>5. \A i \in 0 .. count : ~ (i < count) => i = count
    BY <1>1
  <2> HIDE DEF new
  <2>6. QED
    BY <2>2, <2>3, <2>4, <2>5
<1>4. QED
  BY <1>1, <1>2, <1>3 DEF Lifecycle!Publish, Lifecycle!Published

(* Every deploy is a step of the lifecycle, or one that readers cannot see.*)
LEMMA NextLifecycle ==
    ASSUME TypeOK, [Next]_vars
    PROVE  [Lifecycle!LifecycleNext]_Readable
<1> USE DEF Lifecycle!LifecycleNext
<1>0. DOMAIN Readable = Ids
  BY DEF Readable
<1>1. ASSUME NEW a \in Accounts, NEW m \in ModelIds, NEW c \in Commitments,
             NEW s \in Stakes, Submit(a, m, c, s)
      PROVE  Lifecycle!LifecycleNext
  BY <1>1, SubmitPublishes
<1>2. ASSUME NEW a \in Accounts, NEW id \in Ids, Challenge(a, id)
      PROVE  Lifecycle!LifecycleNext
  <2>1. Seen(attestations'[id]) =
          [Seen(attestations[id]) EXCEPT !.status = "Challenged"]
    <3>1. attestations[id] \in Attestation
      BY DEF TypeOK
    <3>2. attestations'[id] =
            [attestations[id] EXCEPT !.status = "Challenged",
                                     !.challenger = a,
                                     !.challenge_bond = ChallengeBond,
                                     !.challenged_at = now]
      BY <1>2, ChallengeRecords
    <3>3. QED
      BY <3>1, <3>2 DEF Seen, Attestation
  <2>2. Lifecycle!Dispute(id)
    BY <1>2, <2>1, ChallengeRecords, ReadableAdvance DEF Lifecycle!Dispute
  <2>3. QED
    BY <1>0, <2>2 DEF Lifecycle!Published
<1>3. ASSUME NEW a \in Accounts, NEW id \in Ids, NEW fraudulent \in BOOLEAN,
             Resolve(a, id, fraudulent)
      PROVE  Lifecycle!LifecycleNext
  <2> DEFINE verdict == IF fraudulent THEN "Slashed" ELSE "Finalized"
  <2>1. verdict \in {"Slashed", "Finalized"}
    OBVIOUS
  <2>2. /\ Ids' = Ids /\ attestations[id].status = "Challenged"
        /\ \A i \in Ids : i # id => attestations'[i] = attestations[i]
    BY <1>3 DEF Resolve, CanResolve, TypeOK, Ids
  <2>3. attestations'[id] = [attestations[id] EXCEPT !.status = verdict]
    BY <1>3, ResolveRecords
  <2> HIDE DEF verdict
  <2>4. Seen(attestations'[id]) =
          [Seen(attestations[id]) EXCEPT !.status = verdict]
    <3>1. attestations[id] \in Attestation
      BY DEF TypeOK
    <3>2. QED
      BY <2>3, <3>1 DEF Seen, Attestation
  <2>5. Lifecycle!Rule(id, verdict)
    BY <2>2, <2>4, ReadableAdvance DEF Lifecycle!Rule
  <2>6. QED
    BY <1>0, <2>1, <2>5 DEF Lifecycle!Published
<1>4. ASSUME NEW id \in Ids, Finalize(id)
      PROVE  Lifecycle!LifecycleNext
  <2>1. Seen(attestations'[id]) =
          [Seen(attestations[id]) EXCEPT !.status = "Finalized"]
    <3>1. attestations[id] \in Attestation
      BY DEF TypeOK
    <3>2. attestations'[id] = [attestations[id] EXCEPT !.status = "Finalized"]
      BY <1>4, FinalizeRecords
    <3>3. QED
      BY <3>1, <3>2 DEF Seen, Attestation
  <2>2. Lifecycle!Lapse(id)
    BY <1>4, <2>1, FinalizeRecords, ReadableAdvance DEF Lifecycle!Lapse
  <2>3. QED
    BY <1>0, <2>2 DEF Lifecycle!Published
<1>5. ASSUME UNCHANGED <<count, attestations>>
      PROVE  UNCHANGED Readable
  BY <1>5 DEF Readable, Ids
<1>6. QED
  BY <1>1, <1>2, <1>3, <1>4, <1>5
  DEF Next, vars, ApproveRegistry, TransferStake, Tick

(* The registry implements the abstract lifecycle that the insurance       *)
(* contract, the SDK and the dashboards are built on: a record, once       *)
(* published, is never rewritten, and its status only advances.            *)
THEOREM LifecycleImplemented == Spec => ImplementsLifecycle
<1>1. Init => Lifecycle!LifecycleInit
  BY DEF Init, Readable, Ids, Lifecycle!LifecycleInit
<1>2. TypeOK /\ [Next]_vars => [Lifecycle!LifecycleNext]_Readable
  BY NextLifecycle
<1>3. QED
  BY <1>1, <1>2, TypeCorrect, PTL
  DEF Spec, ImplementsLifecycle, Lifecycle!LifecycleSpec
-----------------------------------------------------------------------------
(* The reputation counters.                                                *)

(* The attestations a recount of the account of a looks at.                *)
Having(a, status) == {id \in AttestedBy(a) : attestations[id].status = status}
Defended(a) ==
    {id \in Having(a, "Finalized") : attestations[id].challenger # NoOne}

Recount(a) ==
    [total |-> Cardinality(AttestedBy(a)),
     successful |-> Cardinality(Having(a, "Finalized")),
     slashed |-> Cardinality(Having(a, "Slashed")),
     challenges_defended |-> Cardinality(Defended(a))]

(* The property the run checks, stated of the recount.                     *)
LEMMA HistoryRecount ==
    ReputationMatchesHistory <=> \A a \in Accounts : reputations[a] = Recount(a)
BY DEF ReputationMatchesHistory, Recount, Having, Defended

(* All of them are finite sets.                                            *)
LEMMA HistoryFinite ==
    ASSUME TypeOK, NEW a \in Accounts
    PROVE  /\ IsFiniteSet(AttestedBy(a))
           /\ \A status : IsFiniteSet(Having(a, status))
           /\ IsFiniteSet(Defended(a))
<1>1. IsFiniteSet(Ids)
  <2>1. 0 \in Int /\ count - 1 \in Int
    BY InputAssumption DEF TypeOK
  <2>2. QED
    BY <2>1, FS_Interval DEF Ids
<1>2. AttestedBy(a) \in SUBSET Ids /\ Defended(a) \in SUBSET Ids
  BY DEF AttestedBy, Defended, Having
<1>3. ASSUME NEW status
      PROVE  IsFiniteSet(Having(a, status))
  <2>1. Having(a, status) \in SUBSET Ids
    BY DEF AttestedBy, Having
  <2>2. QED
    BY <1>1, <2>1, FS_Subset
<1>4. QED
  BY <1>1, <1>2, <1>3, FS_Subset

(* One more, one less or none: what adding an element does to a count.     *)
LEMMA CountOneMore ==
    ASSUME NEW S, NEW x, IsFiniteSet(S), x \notin S
    PROVE  Cardinality(S \cup {x}) = Cardinality(S) + 1
BY FS_AddElement

(* A submission raises the attestor's total and nothing else.              *)
LEMMA SubmitRecount ==
    ASSUME TypeOK, NEW a \in Accounts, NEW m \in ModelIds,
           NEW c \in Commitments, NEW s \in Stakes, Submit(a, m, c, s),
           NEW b \in Accounts
    PROVE  Recount(b)' = IF b = a THEN [Recount(b) EXCEPT !.total = @ + 1]
                         ELSE Recount(b)
<1> DEFINE new == attestations'[count]
<1>1. /\ count \notin Ids /\ Ids' = Ids \cup {count}
      /\ \A id \in Ids : attestations'[id] = attestations[id]
  BY SubmitRecords
<1>2. new.attestor = a /\ new.status = "Active"
  <2>1. new = [attestor |-> a, model_id |-> m, commitment |-> c,
               stake |-> s, created_at |-> now, status |-> "Active",
               challenger |-> NoOne, challenge_bond |-> 0, challenged_at |-> 0]
    BY SubmitRecords
  <2>2. QED
    BY <2>1
<1> HIDE DEF new
<1>3. AttestedBy(b)' = IF b = a THEN AttestedBy(b) \cup {count} ELSE AttestedBy(b)
  BY <1>1, <1>2 DEF AttestedBy, new
<1>4. Having(b, "Finalized")' = Having(b, "Finalized")
  BY <1>1, <1>2 DEF Having, AttestedBy, new
<1>5. Having(b, "Slashed")' = Having(b, "Slashed")
  BY <1>1, <1>2 DEF Having, AttestedBy, new
<1>6. Defended(b)' = Defended(b)
  BY <1>1, <1>4 DEF Defended, Having, AttestedBy
<1>7. count \notin AttestedBy(b)
  BY <1>1 DEF AttestedBy
<1>8. Cardinality(AttestedBy(b) \cup {count}) = Cardinality(AttestedBy(b)) + 1
  BY <1>7, HistoryFinite, CountOneMore
<1>9. QED
  BY <1>3, <1>4, <1>5, <1>6, <1>8 DEF Recount

(* A change of one record that leaves its attestor moves its id to the set *)
(* of its new status.                                                      *)
LEMMA HavingAfterChange ==
    ASSUME NEW id \in Ids, Ids' = Ids,
           \A i \in Ids : i # id => attestations'[i] = attestations[i],
           attestations'[id].attestor = attestations[id].attestor,
           NEW b \in Accounts
    PROVE  /\ AttestedBy(b)' = AttestedBy(b)
           /\ \A status :
                 Having(b, status)' =
                   IF /\ b = attestations[id].attestor
                      /\ attestations'[id].status = status
                   THEN Having(b, status) \cup {id}
                   ELSE Having(b, status) \ {id}
<1>1. AttestedBy(b)' = AttestedBy(b)
  BY DEF AttestedBy
<1>2. ASSUME NEW status
      PROVE  Having(b, status)' =
                   IF /\ b = attestations[id].attestor
                      /\ attestations'[id].status = status
                   THEN Having(b, status) \cup {id}
                   ELSE Having(b, status) \ {id}
  BY DEF Having, AttestedBy
<1>3. QED
  BY <1>1, <1>2
(* A challenge changes no counter's worth of the records.                  *)
LEMMA ChallengeRecount ==
    ASSUME TypeOK, NEW a \in Accounts, NEW id \in Ids, Challenge(a, id),
           NEW b \in Accounts
    PROVE  Recount(b)' = Recount(b)
<1> DEFINE old == attestations[id]
           new == attestations'[id]
<1>1. /\ Ids' = Ids /\ old.status = "Active"
      /\ \A i \in Ids : i # id => attestations'[i] = attestations[i]
  BY ChallengeRecords
<1>2. new.attestor = old.attestor /\ new.status = "Challenged"
  <2>1. old \in Attestation
    BY DEF TypeOK
  <2>2. new = [old EXCEPT !.status = "Challenged", !.challenger = a,
                          !.challenge_bond = ChallengeBond,
                          !.challenged_at = now]
    BY ChallengeRecords
  <2>3. QED
    BY <2>1, <2>2 DEF Attestation
<1>3. id \notin Having(b, "Finalized") /\ id \notin Having(b, "Slashed")
  BY <1>1 DEF Having
<1>4. /\ AttestedBy(b)' = AttestedBy(b)
      /\ Having(b, "Finalized")' = Having(b, "Finalized") \ {id}
      /\ Having(b, "Slashed")' = Having(b, "Slashed") \ {id}
  BY <1>1, <1>2, HavingAfterChange
<1>5. /\ Having(b, "Finalized")' = Having(b, "Finalized")
      /\ Having(b, "Slashed")' = Having(b, "Slashed")
  BY <1>3, <1>4
<1>6. Defended(b)' = Defended(b)
  <2>1. \A i \in Having(b, "Finalized") : attestations'[i] = attestations[i]
    BY <1>1, <1>3 DEF Having, AttestedBy
  <2>2. QED
    BY <1>5, <2>1 DEF Defended
<1>7. QED
  BY <1>4, <1>5, <1>6 DEF Recount

(* A verdict raises what ReputationAfter says, for the attestor alone.     *)
LEMMA ResolveRecount ==
    ASSUME TypeOK, NEW a \in Accounts, NEW id \in Ids,
           NEW fraudulent \in BOOLEAN, Resolve(a, id, fraudulent),
           NEW b \in Accounts
    PROVE  Recount(b)' = IF b = attestations[id].attestor
                         THEN ReputationAfter(Recount(b), fraudulent)
                         ELSE Recount(b)
<1> DEFINE old == attestations[id]
           new == attestations'[id]
           verdict == IF fraudulent THEN "Slashed" ELSE "Finalized"
<1>1. /\ Ids' = Ids /\ old.status = "Challenged" /\ old.challenger # NoOne
      /\ \A i \in Ids : i # id => attestations'[i] = attestations[i]
  BY DEF Resolve, CanResolve, TypeOK, Ids
<1>2. /\ new.attestor = old.attestor /\ new.challenger = old.challenger
      /\ new.status = verdict
  <2>1. old \in Attestation
    BY DEF TypeOK
  <2>2. new = [old EXCEPT !.status = verdict]
    BY ResolveRecords
  <2> HIDE DEF verdict
  <2>3. QED
    BY <2>1, <2>2 DEF Attestation
<1>3. id \notin Having(b, "Finalized") /\ id \notin Having(b, "Slashed")
  BY <1>1 DEF Having
<1>4. id \notin Defended(b)
  BY <1>3 DEF Defended
<1>5. \A i \in Having(b, "Finalized") : attestations'[i] = attestations[i]
  BY <1>1, <1>3 DEF Having, AttestedBy
<1>6. AttestedBy(b)' = AttestedBy(b)
  BY <1>1, <1>2, HavingAfterChange
<1>7. /\ Having(b, "Finalized")' =
           IF b = old.attestor /\ new.status = "Finalized"
           THEN Having(b, "Finalized") \cup {id}
           ELSE Having(b, "Finalized") \ {id}
      /\ Having(b, "Slashed")' =
           IF b = old.attestor /\ new.status = "Slashed"
           THEN Having(b, "Slashed") \cup {id}
           ELSE Having(b, "Slashed") \ {id}
  BY <1>1, <1>2, HavingAfterChange
<1>8. CASE b # old.attestor
  <2>1. /\ Having(b, "Finalized")' = Having(b, "Finalized")
        /\ Having(b, "Slashed")' = Having(b, "Slashed")
    BY <1>3, <1>7, <1>8
  <2>2. Defended(b)' = Defended(b)
    BY <1>5, <2>1 DEF Defended
  <2>3. QED
    BY <1>6, <1>8, <2>1, <2>2 DEF Recount
<1>9. CASE b = old.attestor /\ fraudulent
  <2>0. new.status = "Slashed" /\ b = old.attestor
    BY <1>2, <1>9
  <2>1. /\ Having(b, "Finalized")' = Having(b, "Finalized")
        /\ Having(b, "Slashed")' = Having(b, "Slashed") \cup {id}
    <3> HIDE DEF new, old
    <3>1. QED
      BY <1>3, <1>7, <2>0
  <2>2. Defended(b)' = Defended(b)
    BY <1>5, <2>1 DEF Defended
  <2>3. Cardinality(Having(b, "Slashed")') = Cardinality(Having(b, "Slashed")) + 1
    BY <1>3, <2>1, HistoryFinite, CountOneMore
  <2>4. QED
    BY <1>6, <1>9, <2>1, <2>2, <2>3 DEF Recount, ReputationAfter
<1>10. CASE b = old.attestor /\ ~ fraudulent
  <2>0. new.status = "Finalized" /\ b = old.attestor
    BY <1>2, <1>10
  <2>1. /\ Having(b, "Finalized")' = Having(b, "Finalized") \cup {id}
        /\ Having(b, "Slashed")' = Having(b, "Slashed")
    <3> HIDE DEF new, old
    <3>1. QED
      BY <1>3, <1>7, <2>0
  <2>2. Defended(b)' = Defended(b) \cup {id}
    BY <1>1, <1>2, <1>5, <2>1 DEF Defended
  <2>3. /\ Cardinality(Having(b, "Finalized")')
             = Cardinality(Having(b, "Finalized")) + 1
        /\ Cardinality(Defended(b)') = Cardinality(Defended(b)) + 1
    BY <1>3, <1>4, <2>1, <2>2, HistoryFinite, CountOneMore
  <2>4. QED
    BY <1>6, <1>10, <2>1, <2>2, <2>3 DEF Recount, ReputationAfter
<1>11. QED
  BY <1>8, <1>9, <1>10

(* A finalization raises the attestor's successes; it defends nothing.     *)
LEMMA FinalizeRecount ==
    ASSUME TypeOK, RecordsWellFormed, NEW id \in Ids, Finalize(id),
           NEW b \in Accounts
    PROVE  Recount(b)' = IF b = attestations[id].attestor
                         THEN [Recount(b) EXCEPT !.successful = @ + 1]
                         ELSE Recount(b)
<1> DEFINE old == attestations[id]
           new == attestations'[id]
<1>1. /\ Ids' = Ids /\ old.status = "Active" /\ old.challenger = NoOne
      /\ \A i \in Ids : i # id => attestations'[i] = attestations[i]
  BY FinalizeRecords DEF RecordsWellFormed
<1>2. /\ new.attestor = old.attestor /\ new.challenger = old.challenger
      /\ new.status = "Finalized"
  <2>1. old \in Attestation
    BY DEF TypeOK
  <2>2. new = [old EXCEPT !.status = "Finalized"]
    BY FinalizeRecords
  <2>3. QED
    BY <2>1, <2>2 DEF Attestation
<1>3. id \notin Having(b, "Finalized") /\ id \notin Having(b, "Slashed")
  BY <1>1 DEF Having
<1>4. \A i \in Having(b, "Finalized") : attestations'[i] = attestations[i]
  BY <1>1, <1>3 DEF Having, AttestedBy
<1>5. AttestedBy(b)' = AttestedBy(b)
  BY <1>1, <1>2, HavingAfterChange
<1>6. /\ Having(b, "Finalized")' =
           IF b = old.attestor THEN Having(b, "Finalized") \cup {id}
           ELSE Having(b, "Finalized") \ {id}
      /\ Having(b, "Slashed")' = Having(b, "Slashed") \ {id}
  BY <1>1, <1>2, HavingAfterChange
<1>7. Having(b, "Slashed")' = Having(b, "Slashed")
  BY <1>3, <1>6
<1>8. Defended(b)' = Defended(b)
  BY <1>1, <1>2, <1>3, <1>4, <1>6 DEF Defended
<1>9. CASE b # old.attestor
  BY <1>3, <1>5, <1>6, <1>7, <1>8, <1>9 DEF Recount
<1>10. CASE b = old.attestor
  <2>1. Cardinality(Having(b, "Finalized")')
          = Cardinality(Having(b, "Finalized")) + 1
    BY <1>3, <1>6, <1>10, HistoryFinite, CountOneMore
  <2>2. QED
    BY <1>5, <1>7, <1>8, <1>10, <2>1 DEF Recount
<1>11. QED
  BY <1>9, <1>10

(* So every deploy keeps counters and recount in step.                     *)
LEMMA NextHistory ==
    ASSUME TypeOK, RecordsWellFormed, ReputationMatchesHistory, [Next]_vars
    PROVE  ReputationMatchesHistory'
<1>1. \A b \in Accounts : reputations[b] = Recount(b) /\ reputations[b] \in Reputation
  BY HistoryRecount DEF TypeOK
<1>2. SUFFICES ASSUME NEW b \in Accounts
               PROVE  reputations'[b] = Recount(b)'
  BY HistoryRecount DEF ReputationMatchesHistory, Recount, Having, Defended
<1>3. reputations \in [Accounts -> Reputation]
  BY DEF TypeOK
<1>4. ASSUME NEW a \in Accounts, NEW m \in ModelIds, NEW c \in Commitments,
             NEW s \in Stakes, Submit(a, m, c, s)
      PROVE  reputations'[b] = Recount(b)'
  <2>1. reputations' =
          [reputations EXCEPT ![a] = [reputations[a] EXCEPT !.total = @ + 1]]
    BY <1>4 DEF Submit
  <2>2. reputations'[b] = IF b = a THEN [reputations[b] EXCEPT !.total = @ + 1]
                          ELSE reputations[b]
    BY <1>3, <2>1
  <2>3. QED
    BY <1>1, <1>4, <2>2, SubmitRecount
<1>5. ASSUME NEW a \in Accounts, NEW id \in Ids, Challenge(a, id)
      PROVE  reputations'[b] = Recount(b)'
  <2>1. reputations' = reputations
    BY <1>5 DEF Challenge
  <2>2. QED
    BY <1>1, <1>5, <2>1, ChallengeRecount
<1>6. ASSUME NEW a \in Accounts, NEW id \in Ids, NEW fraudulent \in BOOLEAN,
             Resolve(a, id, fraudulent)
      PROVE  reputations'[b] = Recount(b)'
  <2> DEFINE who == attestations[id].attestor
  <2>1. reputations' = [reputations EXCEPT ![who] =
                          ReputationAfter(reputations[who], fraudulent)]
    BY <1>6 DEF Resolve
  <2>2. reputations'[b] = IF b = who
                          THEN ReputationAfter(reputations[b], fraudulent)
                          ELSE reputations[b]
    BY <1>3, <2>1
  <2>3. Recount(b)' = IF b = who THEN ReputationAfter(Recount(b), fraudulent)
                      ELSE Recount(b)
    BY <1>6, ResolveRecount
  <2>4. reputations[b] = Recount(b)
    BY <1>1
  <2>5. QED
    BY <2>2, <2>3, <2>4
<1>7. ASSUME NEW id \in Ids, Finalize(id)
      PROVE  reputations'[b] = Recount(b)'
  <2> DEFINE who == attestations[id].attestor
  <2>1. reputations' = [reputations EXCEPT ![who] =
                          [reputations[who] EXCEPT !.successful = @ + 1]]
    BY <1>7 DEF Finalize
  <2>2. reputations'[b] = IF b = who
                          THEN [reputations[b] EXCEPT !.successful = @ + 1]
                          ELSE reputations[b]
    BY <1>3, <2>1
  <2>3. Recount(b)' = IF b = who THEN [Recount(b) EXCEPT !.successful = @ + 1]
                      ELSE Recount(b)
    BY <1>7, FinalizeRecount
  <2>4. reputations[b] = Recount(b)
    BY <1>1
  <2>5. QED
    BY <2>2, <2>3, <2>4
<1>8. ASSUME UNCHANGED <<count, attestations, reputations>>
      PROVE  reputations'[b] = Recount(b)'
  BY <1>1, <1>8 DEF Recount, Defended, Having, AttestedBy, Ids
<1>9. QED
  BY <1>4, <1>5, <1>6, <1>7, <1>8
  DEF Next, vars, ApproveRegistry, TransferStake, Tick

(* An agent's reputation can be trusted: at any time its counters are what *)
(* a recount of all its attestations would give, however submissions,      *)
(* challenges, verdicts and lapses were interleaved.                       *)
THEOREM ReputationRecounts == Spec => []ReputationMatchesHistory
<1>1. Init => ReputationMatchesHistory
  <2> SUFFICES ASSUME Init
               PROVE  \A a \in Accounts : reputations[a] = Recount(a)
    BY HistoryRecount
  <2>1. Ids = {}
    BY DEF Init, Ids
  <2>2. \A a \in Accounts : /\ AttestedBy(a) = {} /\ Defended(a) = {}
                            /\ Having(a, "Finalized") = {}
                            /\ Having(a, "Slashed") = {}
    BY <2>1 DEF AttestedBy, Having, Defended
  <2>3. Cardinality({}) = 0
    BY FS_EmptySet
  <2>4. QED
    BY <2>2, <2>3 DEF Init, Recount
<1>2. IInv /\ ReputationMatchesHistory /\ [Next]_vars => ReputationMatchesHistory'
  BY NextHistory DEF IInv
<1>3. QED
  BY <1>1, <1>2, IInvInductive, PTL DEF Spec
-----------------------------------------------------------------------------
(* Money and records.                                                      *)

(* What a record has brought to somebody is an integer.                    *)
LEMMA EarnedInt ==
    ASSUME NEW att \in Attestation, NEW p
    PROVE  Earned(att, p) \in Int
<1>1. /\ att.stake \in Nat /\ att.challenge_bond \in Nat
      /\ Reward(att) \in Nat /\ TreasuryCut(att) \in Nat
  BY RewardBounds DEF Attestation
<1>2. QED
  BY <1>1 DEF Earned

(* The sum over all records is one as well.                                *)
LEMMA EarnedInAllInt ==
    ASSUME TypeOK, NEW p
    PROVE  EarnedInAll(p) \in Int
<1> DEFINE f == [id \in Ids |-> Earned(attestations[id], p)]
<1>1. count \in Nat
  BY InputAssumption DEF TypeOK
<1>2. \A id \in Ids : f[id] \in Int
  BY EarnedInt DEF TypeOK
<1>3. EarnedInAll(p) = Total(f, count)
  BY DEF EarnedInAll
<1> HIDE DEF f
<1>4. QED
  BY <1>1, <1>2, <1>3, TotalInt DEF Ids

(* A new record adds what it has brought.                                  *)
LEMMA EarnedAfterSubmit ==
    ASSUME TypeOK, NEW a \in Accounts, NEW m \in ModelIds,
           NEW c \in Commitments, NEW s \in Stakes, Submit(a, m, c, s), NEW p
    PROVE  EarnedInAll(p)' = EarnedInAll(p) + Earned(attestations'[count], p)
<1> DEFINE f == [id \in Ids |-> Earned(attestations[id], p)]
           g == [id \in 0 .. count |-> Earned(attestations'[id], p)]
<1>1. count \in Nat /\ count' = count + 1
  BY InputAssumption DEF TypeOK, Submit
<1>2. \A id \in Ids : attestations'[id] = attestations[id]
  BY SubmitRecords
<1>3. \A id \in 0 .. count - 1 : f[id] = g[id]
  BY <1>1, <1>2 DEF Ids
<1>4. g[count] = Earned(attestations'[count], p)
  BY <1>1
<1>5. EarnedInAll(p) = Total(f, count) /\ EarnedInAll(p)' = Total(g, count + 1)
  <2>1. Ids' = 0 .. count
    BY <1>1 DEF Ids
  <2>2. QED
    BY <1>1, <2>1 DEF EarnedInAll, Earned, Reward, TreasuryCut
<1> HIDE DEF f, g
<1>6. Total(g, count + 1) = Total(g, count) + g[count]
  BY <1>1, TotalStep
<1>7. Total(f, count) = Total(g, count)
  BY <1>1, <1>3, TotalAgree
<1>8. QED
  BY <1>4, <1>5, <1>6, <1>7

(* A rewritten record changes the sum by what it changes in its own worth. *)
LEMMA EarnedAfterUpdate ==
    ASSUME TypeOK, TypeOK', NEW id \in Ids, count' = count,
           \A i \in Ids : i # id => attestations'[i] = attestations[i], NEW p
    PROVE  EarnedInAll(p)' - EarnedInAll(p)
             = Earned(attestations'[id], p) - Earned(attestations[id], p)
<1> DEFINE f == [i \in Ids |-> Earned(attestations[i], p)]
           g == [i \in Ids |-> Earned(attestations'[i], p)]
<1>1. count \in Nat /\ Ids' = Ids
  BY InputAssumption DEF TypeOK, Ids
<1>2. \A i \in Ids : attestations[i] \in Attestation
                     /\ attestations'[i] \in Attestation
  BY <1>1 DEF TypeOK
<1>3. \A i \in Ids : f[i] \in Int /\ g[i] \in Int
  BY <1>2, EarnedInt
<1>4. \A i \in Ids : i # id => f[i] = g[i]
  OBVIOUS
<1>5. f[id] = Earned(attestations[id], p) /\ g[id] = Earned(attestations'[id], p)
  OBVIOUS
<1>6. EarnedInAll(p) = Total(f, count) /\ EarnedInAll(p)' = Total(g, count)
  BY <1>1 DEF EarnedInAll, Earned, Reward, TreasuryCut
<1> HIDE DEF f, g
<1>7. Total(g, count) = Total(f, count) + (g[id] - f[id])
  BY <1>1, <1>3, <1>4, TotalChange DEF Ids
<1>8. Total(f, count) \in Int /\ f[id] \in Int /\ g[id] \in Int
  BY <1>1, <1>3, TotalInt DEF Ids
<1>9. QED
  BY <1>5, <1>6, <1>7, <1>8

(* The registry's own account is nobody's: a transfer between it and       *)
(* another account moves the other account's balance only.                 *)
LEMMA MovedToSelf ==
    ASSUME NEW p \in Accounts, NEW a \in Accounts, NEW amount \in Nat
    PROVE  /\ Moved(p, a, Self, amount) = IF p = a THEN - amount ELSE 0
           /\ Moved(p, Self, a, amount) = IF p = a THEN amount ELSE 0
<1>1. p # Self /\ a # Self
  BY AddressAssumption
<1>2. QED
  BY <1>1 DEF Moved

(* submit_attestation: the attestor pays the stake it records.             *)
LEMMA SubmitPaid ==
    ASSUME TypeOK, NEW a \in Accounts, NEW m \in ModelIds,
           NEW c \in Commitments, NEW s \in Stakes, Submit(a, m, c, s),
           NEW p \in Accounts
    PROVE  token'.balances[p] - token.balances[p]
             = EarnedInAll(p)' - EarnedInAll(p)
<1> DEFINE new == attestations'[count]
<1>1. s \in Nat /\ token \in Ledgers(Principals, Accounts)
      /\ a \in Principals \cap Accounts /\ Self \in Principals
      /\ p \in Principals /\ token.balances[p] \in Nat
  BY InputAssumption DEF TypeOK, Principals, Ledgers
<1>2. token'.balances[p] = token.balances[p] + Moved(p, a, Self, s)
  <2>1. token' = TransferFrom(token, a, Self, s)
        /\ CanTransferFrom(token, a, Self, s)
    BY DEF Submit
  <2>2. QED
    BY <1>1, <2>1, PullLedger
<1>3. Moved(p, a, Self, s) = IF p = a THEN - s ELSE 0
  BY <1>1, MovedToSelf
<1>4. new = [attestor |-> a, model_id |-> m, commitment |-> c, stake |-> s,
             created_at |-> now, status |-> "Active", challenger |-> NoOne,
             challenge_bond |-> 0, challenged_at |-> 0]
  BY SubmitRecords
<1>5. p # NoOne
  BY AddressAssumption
<1> HIDE DEF new
<1>6. Earned(new, p) = IF p = a THEN - s ELSE 0
  BY <1>1, <1>4, <1>5 DEF Earned
<1>7. EarnedInAll(p)' = EarnedInAll(p) + Earned(new, p)
  BY EarnedAfterSubmit DEF new
<1>8. EarnedInAll(p) \in Int
  BY EarnedInAllInt
<1>9. QED
  BY <1>1, <1>2, <1>3, <1>6, <1>7, <1>8

(* challenge: the challenger pays the bond.                                *)
LEMMA ChallengePaid ==
    ASSUME TypeOK, TypeOK', RecordsWellFormed, NEW a \in Accounts,
           NEW id \in Ids, Challenge(a, id), NEW p \in Accounts
    PROVE  token'.balances[p] - token.balances[p]
             = EarnedInAll(p)' - EarnedInAll(p)
<1> DEFINE old == attestations[id]
           new == attestations'[id]
<1>1. /\ ChallengeBond \in Nat /\ token \in Ledgers(Principals, Accounts)
      /\ a \in Principals \cap Accounts /\ Self \in Principals
      /\ p \in Principals /\ token.balances[p] \in Nat
  BY ConfigAssumption DEF TypeOK, Principals, Ledgers
<1>2. token'.balances[p] = token.balances[p] + Moved(p, a, Self, ChallengeBond)
  <2>1. token' = TransferFrom(token, a, Self, ChallengeBond)
        /\ CanTransferFrom(token, a, Self, ChallengeBond)
    BY DEF Challenge
  <2>2. QED
    BY <1>1, <2>1, PullLedger
<1>3. Moved(p, a, Self, ChallengeBond) = IF p = a THEN - ChallengeBond ELSE 0
  BY <1>1, MovedToSelf
<1>4. /\ old \in Attestation /\ old.stake \in Nat
      /\ old.status = "Active" /\ old.challenger = NoOne
  BY ChallengeRecords DEF TypeOK, Attestation, RecordsWellFormed
<1>5. new = [old EXCEPT !.status = "Challenged", !.challenger = a,
                        !.challenge_bond = ChallengeBond,
                        !.challenged_at = now]
  BY ChallengeRecords
<1>6. p # NoOne
  BY AddressAssumption
<1>7. count' = count /\ \A i \in Ids : i # id => attestations'[i] = attestations[i]
  BY ChallengeRecords
<1>8. EarnedInAll(p)' - EarnedInAll(p) = Earned(new, p) - Earned(old, p)
  BY <1>7, EarnedAfterUpdate
<1> HIDE DEF old, new
<1>9. /\ new.attestor = old.attestor /\ new.stake = old.stake
      /\ new.status = "Challenged" /\ new.challenger = a
      /\ new.challenge_bond = ChallengeBond
  BY <1>4, <1>5 DEF Attestation
<1>10. Earned(old, p) = IF p = old.attestor THEN - old.stake ELSE 0
  BY <1>4, <1>6 DEF Earned
<1>11. Earned(new, p) = (IF p = old.attestor THEN - old.stake ELSE 0)
                        + (IF p = a THEN - ChallengeBond ELSE 0)
  BY <1>1, <1>4, <1>9 DEF Earned
<1>12. QED
  BY <1>1, <1>2, <1>3, <1>4, <1>8, <1>10, <1>11

(* finalize: the attestor gets the stake back.                             *)
LEMMA FinalizePaid ==
    ASSUME TypeOK, TypeOK', RecordsWellFormed, NEW id \in Ids, Finalize(id),
           NEW p \in Accounts
    PROVE  token'.balances[p] - token.balances[p]
             = EarnedInAll(p)' - EarnedInAll(p)
<1> DEFINE old == attestations[id]
           new == attestations'[id]
<1>1. /\ token \in Ledgers(Principals, Accounts)
      /\ Self \in Principals /\ p \in Principals /\ token.balances[p] \in Nat
      /\ old \in Attestation /\ old.stake \in Nat /\ old.attestor \in Accounts
      /\ old.attestor \in Principals
  BY DEF TypeOK, Principals, Ledgers, Attestation
<1>2. token'.balances[p]
        = token.balances[p] + Moved(p, Self, old.attestor, old.stake)
  <2>1. token' = Transfer(token, Self, old.attestor, old.stake)
        /\ CanTransfer(token, Self, old.attestor, old.stake)
    BY DEF Finalize, CanFinalize
  <2>2. QED
    BY <1>1, <2>1, TransferLedger
<1>3. Moved(p, Self, old.attestor, old.stake)
        = IF p = old.attestor THEN old.stake ELSE 0
  BY <1>1, MovedToSelf
<1>4. old.status = "Active" /\ old.challenger = NoOne /\ old.challenge_bond = 0
  BY FinalizeRecords DEF RecordsWellFormed
<1>5. new = [old EXCEPT !.status = "Finalized"]
  BY FinalizeRecords
<1>6. p # NoOne
  BY AddressAssumption
<1>7. count' = count /\ \A i \in Ids : i # id => attestations'[i] = attestations[i]
  BY FinalizeRecords
<1>8. EarnedInAll(p)' - EarnedInAll(p) = Earned(new, p) - Earned(old, p)
  BY <1>7, EarnedAfterUpdate
<1> HIDE DEF old, new
<1>9. /\ new.attestor = old.attestor /\ new.stake = old.stake
      /\ new.status = "Finalized" /\ new.challenger = NoOne
      /\ new.challenge_bond = 0
  BY <1>1, <1>4, <1>5 DEF Attestation
<1>10. Earned(old, p) = IF p = old.attestor THEN - old.stake ELSE 0
  BY <1>1, <1>4, <1>6 DEF Earned
<1>11. Earned(new, p) = 0
  BY <1>6, <1>9 DEF Earned
<1>12. QED
  BY <1>1, <1>2, <1>3, <1>8, <1>10, <1>11
(* The two payments of a verdict, as they reach an account.                *)
LEMMA VerdictMoves ==
    ASSUME TypeOK, NEW id, NEW fraudulent \in BOOLEAN,
           CanResolve(id, fraudulent), NEW p \in Accounts
    PROVE  LET att == attestations[id]
               after == TransferIfAny(AfterFirst(att, fraudulent), Self,
                                      Treasury, SecondPayment(att, fraudulent))
           IN  after.balances[p] = token.balances[p]
                 + (IF p = FirstPayee(att, fraudulent)
                    THEN FirstPayment(att, fraudulent) ELSE 0)
                 + (IF p = Treasury THEN SecondPayment(att, fraudulent) ELSE 0)
<1> DEFINE att == attestations[id]
           payee == FirstPayee(att, fraudulent)
           one == FirstPayment(att, fraudulent)
           two == SecondPayment(att, fraudulent)
           first == AfterFirst(att, fraudulent)
<1>1. id \in Ids /\ att \in Attestation /\ att.challenger # NoOne
  BY DEF CanResolve, TypeOK
<1>2. /\ token \in Ledgers(Principals, Accounts)
      /\ p \in Principals /\ token.balances[p] \in Nat
      /\ Self \in Principals /\ Treasury \in Principals /\ Treasury \in Accounts
  BY AddressAssumption DEF TypeOK, Principals, Ledgers
<1>3. /\ payee \in Accounts /\ payee \in Principals
      /\ one \in Nat /\ two \in Nat
  BY <1>1, PaymentTypes DEF Principals
<1>4. CanTransfer(token, Self, payee, one)
  BY DEF CanResolve
<1>5. /\ first \in Ledgers(Principals, Accounts)
      /\ first.balances[p] = token.balances[p] + Moved(p, Self, payee, one)
  BY <1>2, <1>3, <1>4, TransferLedger DEF AfterFirst
<1>6. Moved(p, Self, payee, one) = IF p = payee THEN one ELSE 0
  BY <1>3, MovedToSelf
<1>7. TransferIfAny(first, Self, Treasury, two).balances[p]
        = first.balances[p] + (IF p = Treasury THEN two ELSE 0)
  <2>1. CASE two > 0
    <3>1. CanTransfer(first, Self, Treasury, two)
      BY <2>1 DEF CanResolve, CanTransferIfAny
    <3>2. Transfer(first, Self, Treasury, two).balances[p]
            = first.balances[p] + Moved(p, Self, Treasury, two)
      BY <1>2, <1>3, <1>5, <3>1, TransferLedger
    <3>3. Moved(p, Self, Treasury, two) = IF p = Treasury THEN two ELSE 0
      BY <1>2, <1>3, MovedToSelf
    <3>4. QED
      BY <2>1, <3>2, <3>3 DEF TransferIfAny
  <2>2. CASE ~ (two > 0)
    <3>1. two = 0
      BY <1>3, <2>2
    <3>2. TransferIfAny(first, Self, Treasury, two) = first
      BY <2>2 DEF TransferIfAny
    <3>3. first.balances[p] \in Nat
      BY <1>2, <1>5 DEF Ledgers
    <3>4. QED
      BY <3>1, <3>2, <3>3
  <2>3. QED
    BY <2>1, <2>2
<1> HIDE DEF one, two, payee, first
<1>8. TransferIfAny(first, Self, Treasury, two).balances[p]
        = token.balances[p] + (IF p = payee THEN one ELSE 0)
          + (IF p = Treasury THEN two ELSE 0)
  BY <1>2, <1>3, <1>5, <1>6, <1>7
<1>9. QED
  BY <1>8 DEF one, two, payee, first

(* What a verdict is worth on record: the challenger's reward and bond and *)
(* the treasury's cut of a slashed stake, or the stake to the attestor and *)
(* the bond to the treasury.                                               *)
LEMMA VerdictEarned ==
    ASSUME NEW old \in Attestation, NEW fraudulent \in BOOLEAN,
           old.status = "Challenged", old.challenger # NoOne,
           NEW new, new = [old EXCEPT !.status =
                             IF fraudulent THEN "Slashed" ELSE "Finalized"],
           NEW p \in Accounts
    PROVE  Earned(new, p) - Earned(old, p)
             = (IF p = FirstPayee(old, fraudulent)
                THEN FirstPayment(old, fraudulent) ELSE 0)
               + (IF p = Treasury THEN SecondPayment(old, fraudulent) ELSE 0)
<1>1. /\ old.stake \in Nat /\ old.challenge_bond \in Nat
      /\ Reward(old) \in Nat /\ TreasuryCut(old) \in Nat
  BY RewardBounds DEF Attestation
<1>2. Earned(old, p) = (IF p = old.attestor THEN - old.stake ELSE 0)
                       + (IF p = old.challenger THEN - old.challenge_bond ELSE 0)
  BY <1>1 DEF Earned
<1> DEFINE verdict == IF fraudulent THEN "Slashed" ELSE "Finalized"
<1>3. /\ new.attestor = old.attestor /\ new.challenger = old.challenger
      /\ new.stake = old.stake /\ new.challenge_bond = old.challenge_bond
      /\ new.status = verdict
  <2> HIDE DEF verdict
  <2>1. new = [old EXCEPT !.status = verdict]
    BY DEF verdict
  <2>2. QED
    BY <2>1 DEF Attestation
<1>4. Reward(new) = Reward(old) /\ TreasuryCut(new) = TreasuryCut(old)
  BY <1>3 DEF Reward, TreasuryCut
<1>5. CASE fraudulent
  <2>1. new.status = "Slashed"
    BY <1>3, <1>5
  <2>2. Earned(new, p) = (IF p = old.attestor THEN - old.stake ELSE 0)
                         + (IF p = old.challenger THEN Reward(old) ELSE 0)
                         + (IF p = Treasury THEN TreasuryCut(old) ELSE 0)
    BY <1>1, <1>3, <1>4, <2>1 DEF Earned
  <2>3. /\ FirstPayee(old, fraudulent) = old.challenger
        /\ FirstPayment(old, fraudulent) = Reward(old) + old.challenge_bond
        /\ SecondPayment(old, fraudulent) = TreasuryCut(old)
    BY <1>5 DEF FirstPayee, FirstPayment, SecondPayment
  <2>4. QED
    BY <1>1, <1>2, <2>2, <2>3
<1>6. CASE ~ fraudulent
  <2>1. new.status = "Finalized"
    BY <1>3, <1>6
  <2>2. Earned(new, p) = (IF p = old.challenger THEN - old.challenge_bond ELSE 0)
                         + (IF p = Treasury THEN old.challenge_bond ELSE 0)
    BY <1>1, <1>3, <1>4, <2>1 DEF Earned
  <2>3. /\ FirstPayee(old, fraudulent) = old.attestor
        /\ FirstPayment(old, fraudulent) = old.stake
        /\ SecondPayment(old, fraudulent) = old.challenge_bond
    BY <1>6 DEF FirstPayee, FirstPayment, SecondPayment
  <2>4. QED
    BY <1>1, <1>2, <2>2, <2>3
<1>7. QED
  BY <1>5, <1>6

(* resolve: everybody gets what the record comes to say of the verdict.    *)
LEMMA ResolvePaid ==
    ASSUME TypeOK, TypeOK', NEW a \in Accounts, NEW id \in Ids,
           NEW fraudulent \in BOOLEAN, Resolve(a, id, fraudulent),
           NEW p \in Accounts
    PROVE  token'.balances[p] - token.balances[p]
             = EarnedInAll(p)' - EarnedInAll(p)
<1> DEFINE old == attestations[id]
           new == attestations'[id]
           one == IF p = FirstPayee(old, fraudulent)
                  THEN FirstPayment(old, fraudulent) ELSE 0
           two == IF p = Treasury THEN SecondPayment(old, fraudulent) ELSE 0
<1>1. /\ old \in Attestation /\ old.status = "Challenged"
      /\ old.challenger # NoOne /\ count' = count
      /\ \A i \in Ids : i # id => attestations'[i] = attestations[i]
  BY DEF Resolve, CanResolve, TypeOK, Ids
<1>2. CanResolve(id, fraudulent)
  BY DEF Resolve
<1>3. token'.balances[p] = token.balances[p] + one + two
  BY <1>2, VerdictMoves DEF Resolve
<1>4. new = [old EXCEPT !.status = IF fraudulent THEN "Slashed" ELSE "Finalized"]
  BY ResolveRecords
<1>5. EarnedInAll(p)' - EarnedInAll(p) = Earned(new, p) - Earned(old, p)
  BY <1>1, EarnedAfterUpdate
<1>6. Earned(new, p) - Earned(old, p) = one + two
  BY <1>1, <1>4, VerdictEarned
<1>7. token.balances[p] \in Int /\ one \in Int /\ two \in Int
  <2>1. token.balances[p] \in Int
    BY DEF TypeOK, Ledgers
  <2>2. /\ FirstPayment(old, fraudulent) \in Nat
        /\ SecondPayment(old, fraudulent) \in Nat
    BY <1>1, PaymentTypes
  <2>3. QED
    BY <2>1, <2>2
<1> HIDE DEF old, new, one, two
<1>8. QED
  BY <1>3, <1>5, <1>6, <1>7

(* The money follows the records: each deploy of the registry changes      *)
(* every account's balance by exactly what it changes in the worth of the  *)
(* records to that account, also when one account plays several parts.     *)
THEOREM MoneyFollowsRecords == Spec => PaidByTheRecord
<1> DEFINE Paid(p) == token'.balances[p] - token.balances[p]
                        = EarnedInAll(p)' - EarnedInAll(p)
<1>1. ASSUME IInv, TypeOK', [Next]_vars, attestations' # attestations,
             NEW p \in Accounts
      PROVE  Paid(p)
  <2>1. TypeOK /\ RecordsWellFormed
    BY <1>1 DEF IInv
  <2>2. ASSUME NEW a \in Accounts, NEW m \in ModelIds, NEW c \in Commitments,
               NEW s \in Stakes, Submit(a, m, c, s)
        PROVE  Paid(p)
    BY <2>1, <2>2, SubmitPaid
  <2>3. ASSUME NEW a \in Accounts, NEW id \in Ids, Challenge(a, id)
        PROVE  Paid(p)
    BY <1>1, <2>1, <2>3, ChallengePaid
  <2>4. ASSUME NEW a \in Accounts, NEW id \in Ids, NEW fraudulent \in BOOLEAN,
               Resolve(a, id, fraudulent)
        PROVE  Paid(p)
    BY <1>1, <2>1, <2>4, ResolvePaid
  <2>5. ASSUME NEW id \in Ids, Finalize(id)
        PROVE  Paid(p)
    BY <1>1, <2>1, <2>5, FinalizePaid
  <2> HIDE DEF Paid
  <2>6. QED
    BY <1>1, <2>2, <2>3, <2>4, <2>5
    DEF Next, vars, ApproveRegistry, TransferStake, Tick
<1>2. IInv /\ IInv' /\ [Next]_vars =>
        [attestations' # attestations =>
           \A p \in Accounts :
              token'.balances[p] - token.balances[p]
                = EarnedInAll(p)' - EarnedInAll(p)]_vars
  BY <1>1 DEF IInv
<1>3. QED
  BY <1>2, IInvInductive, PTL DEF Spec, PaidByTheRecord
=============================================================================
