------------------------ MODULE AttestationRegistry ------------------------
(***************************************************************************)
(* contracts/src/attestation_registry.rs: agents lock STAKE behind a       *)
(* commitment to their output, anyone may challenge it within the dispute  *)
(* window by posting a bond, the resolver settles disputes, and an         *)
(* undisputed attestation is finalized once its window has closed.         *)
(*                                                                         *)
(* One action is one deploy: the chain runs deploys one after the other,   *)
(* and a deploy that reverts anywhere (a check of the registry or of the   *)
(* token it calls) leaves every contract as it was.  So each action is the *)
(* whole entry point, its guard the conjunction of every check on the way, *)
(* and a reverting call is a stuttering step.                              *)
(***************************************************************************)
EXTENDS Cep18, Totals, FiniteSets

CONSTANTS
    Accounts,          \* account addresses: attestors, challengers, anyone
    Self,              \* the registry's own address
    Treasury,          \* RegistryConfig.treasury
    Resolver,          \* RegistryConfig.resolver
    NoOne,             \* attestation.challenger is None
    MinStake,          \* RegistryConfig.min_stake
    ChallengeBond,     \* RegistryConfig.challenge_bond
    DisputeWindow,     \* RegistryConfig.dispute_window, in seconds
    RewardBps,         \* RegistryConfig.reward_bps
    MaxU64,            \* the largest u64
    MaxU256,           \* the largest U256
    InitialBalances,   \* STAKE held by each account once the deployer has distributed it
    ModelIds,          \* the model ids attestors name
    Commitments,       \* the hashes and uri of an attestation, as one opaque value
    Stakes,            \* the stakes attestors offer
    Approvals,         \* the allowances owners grant to the registry
    Gifts,             \* the amounts of direct STAKE transfers
    Instants,          \* the block times that are looked at, in milliseconds
    LastSubmission,    \* bound: no attestation is submitted after this time
    MaxAttestations    \* bound: how many attestations are submitted

BpsDenom == 10000

ASSUME AddressAssumption ==
    /\ Self \notin Accounts
    /\ NoOne \notin Accounts
    /\ Treasury \in Accounts
    /\ Resolver \in Accounts

ASSUME ConfigAssumption ==
    /\ MinStake \in Nat
    /\ ChallengeBond \in Nat
    /\ DisputeWindow \in Nat
    /\ RewardBps \in Nat
    /\ RewardBps <= BpsDenom          \* init reverts with BadConfig otherwise

ASSUME InputAssumption ==
    /\ InitialBalances \in [Accounts -> Nat]
    /\ Stakes \subseteq Nat
    /\ Approvals \subseteq Nat
    /\ Gifts \subseteq Nat
    /\ MaxAttestations \in Nat
    /\ LastSubmission \in Nat

ASSUME WidthAssumption ==
    /\ MaxU64 \in Nat
    /\ MaxU256 \in Nat
    /\ 0 \in Instants
    /\ Instants \subseteq 0 .. MaxU64

VARIABLES
    now,            \* block time, milliseconds
    token,          \* the STAKE ledger
    count,          \* attestation_count, the next id
    attestations,   \* id -> Attestation
    reputations     \* account -> Reputation

vars == <<now, token, count, attestations, reputations>>
-----------------------------------------------------------------------------
Statuses == {"Active", "Challenged", "Slashed", "Finalized"}
Terminal == {"Slashed", "Finalized"}

Ids == 0 .. count - 1

Attestation ==
    [attestor: Accounts, model_id: ModelIds, commitment: Commitments,
     stake: Nat, created_at: Nat, status: Statuses,
     challenger: Accounts \cup {NoOne}, challenge_bond: Nat,
     challenged_at: Nat]

Reputation ==
    [total: Nat, successful: Nat, slashed: Nat, challenges_defended: Nat]

TypeOK ==
    /\ now \in 0 .. MaxU64
    /\ token \in Ledgers(Accounts \cup {Self}, Accounts)
    /\ count \in 0 .. MaxAttestations
    /\ attestations \in [Ids -> Attestation]
    /\ reputations \in [Accounts -> Reputation]

Init ==
    /\ now = 0
    /\ token = [balances   |-> [p \in Accounts \cup {Self} |->
                                  IF p = Self THEN 0 ELSE InitialBalances[p]],
                allowances |-> [a \in Accounts |-> 0]]
    /\ count = 0
    /\ attestations = [id \in {} |-> 0]
    /\ reputations = [a \in Accounts |->
                        [total |-> 0, successful |-> 0, slashed |-> 0,
                         challenges_defended |-> 0]]
-----------------------------------------------------------------------------
(* submit_attestation: the stake is pulled in before the record exists.    *)
Submit(attestor, model_id, commitment, stake) ==
    /\ count < MaxAttestations
    /\ now <= LastSubmission
    /\ stake >= MinStake
    /\ CanTransferFrom(token, attestor, Self, stake)
    /\ token' = TransferFrom(token, attestor, Self, stake)
    /\ attestations' =
          [id \in 0 .. count |->
              IF id < count THEN attestations[id]
              ELSE [attestor |-> attestor, model_id |-> model_id,
                    commitment |-> commitment, stake |-> stake,
                    created_at |-> now, status |-> "Active",
                    challenger |-> NoOne, challenge_bond |-> 0,
                    challenged_at |-> 0]]
    /\ count' = count + 1
    /\ reputations' = [reputations EXCEPT ![attestor].total = @ + 1]
    /\ UNCHANGED now

(* saturating_mul and saturating_add of u64.                               *)
Saturated(n) == IF n <= MaxU64 THEN n ELSE MaxU64

(* Mutation: the window is not converted to milliseconds.                  *)
WindowClosedUnscaled(att) ==
    now > Saturated(att.created_at + DisputeWindow)

(* Mutation: the sum wraps around instead of saturating.                   *)
WindowClosedWrapping(att) ==
    now > (att.created_at + DisputeWindow * 1000) % (MaxU64 + 1)

(* Mutation: the window is converted twice.                                *)
WindowClosedRescaled(att) ==
    now > Saturated(att.created_at + Saturated(DisputeWindow * 1000000))

(* window_closed: the window is configured in seconds, block time is in    *)
(* milliseconds, and the last millisecond of the window still counts.      *)
WindowClosed(att) ==
    now > Saturated(att.created_at + Saturated(DisputeWindow * 1000))

(* challenge *)
Challenge(challenger, id) ==
    /\ id \in Ids
    /\ attestations[id].status = "Active"
    /\ ~WindowClosed(attestations[id])
    /\ CanTransferFrom(token, challenger, Self, ChallengeBond)
    /\ token' = TransferFrom(token, challenger, Self, ChallengeBond)
    /\ attestations' = [attestations EXCEPT ![id] =
                          [@ EXCEPT !.status = "Challenged",
                                    !.challenger = challenger,
                                    !.challenge_bond = ChallengeBond,
                                    !.challenged_at = now]]
    /\ UNCHANGED <<now, count, reputations>>

(* The split of a slashed stake: U256 division rounds the reward down and  *)
(* the treasury gets what is left.                                         *)
Reward(att) == (att.stake * RewardBps) \div BpsDenom

(* Mutation: both shares are rounded down.                                 *)
TreasuryCutRounded(att) == (att.stake * (BpsDenom - RewardBps)) \div BpsDenom

TreasuryCut(att) == att.stake - Reward(att)

(* Mutation of the payee: the challenger is paid whatever the verdict.     *)
ChallengerPayee(att, fraudulent) == att.challenger

(* Mutation of the payment: the whole stake goes to the challenger.        *)
WholeStakePayment(att, fraudulent) ==
    att.stake + (IF fraudulent THEN att.challenge_bond ELSE 0)

(* The two transfers that pay out a verdict, in the order of the code: who *)
(* the first one goes to (the second goes to the treasury), and how much   *)
(* they carry.                                                             *)
FirstPayee(att, fraudulent) ==
    IF fraudulent THEN att.challenger ELSE att.attestor
FirstPayment(att, fraudulent) ==
    IF fraudulent THEN Reward(att) + att.challenge_bond ELSE att.stake
SecondPayment(att, fraudulent) ==
    IF fraudulent THEN TreasuryCut(att) ELSE att.challenge_bond

AfterFirst(att, fraudulent) ==
    Transfer(token, Self, FirstPayee(att, fraudulent),
             FirstPayment(att, fraudulent))

(* The checks of resolve once the caller is the resolver, down to those of *)
(* the token and of the checked U256 product and sum.                      *)
CanResolve(id, fraudulent) ==
    /\ id \in Ids
    /\ LET att == attestations[id]
       IN  /\ att.status = "Challenged"
           /\ att.challenger # NoOne
           /\ att.stake * RewardBps <= MaxU256
           /\ fraudulent => Reward(att) + att.challenge_bond <= MaxU256
           /\ CanTransfer(token, Self, FirstPayee(att, fraudulent),
                          FirstPayment(att, fraudulent))
           /\ CanTransferIfAny(AfterFirst(att, fraudulent), Self, Treasury,
                               SecondPayment(att, fraudulent))

(* Mutation: a defended challenge is not counted.                          *)
ReputationAfterUndefended(rep, fraudulent) ==
    IF fraudulent THEN [rep EXCEPT !.slashed = @ + 1]
    ELSE [rep EXCEPT !.successful = @ + 1]

(* Mutation: a slash takes an earlier success back.                        *)
ReputationAfterRevoked(rep, fraudulent) ==
    IF fraudulent THEN [rep EXCEPT !.slashed = @ + 1, !.successful = @ - 1]
    ELSE [rep EXCEPT !.successful = @ + 1, !.challenges_defended = @ + 1]

(* What bump_reputation records of a verdict.                              *)
ReputationAfter(rep, fraudulent) ==
    IF fraudulent THEN [rep EXCEPT !.slashed = @ + 1]
    ELSE [rep EXCEPT !.successful = @ + 1, !.challenges_defended = @ + 1]

(* resolve: terminal status and reputation first, then the transfers.      *)
Resolve(caller, id, fraudulent) ==
    /\ caller = Resolver
    /\ CanResolve(id, fraudulent)
    /\ LET att == attestations[id]
       IN  /\ token' = TransferIfAny(AfterFirst(att, fraudulent), Self,
                                     Treasury, SecondPayment(att, fraudulent))
           /\ attestations' = [attestations EXCEPT ![id].status =
                                 IF fraudulent THEN "Slashed" ELSE "Finalized"]
           /\ reputations' =
                 [reputations EXCEPT ![att.attestor] =
                    ReputationAfter(@, fraudulent)]
    /\ UNCHANGED <<now, count>>

(* Mutation: finalize forgets to check the status.                         *)
CanFinalizeAnyStatus(id) ==
    /\ id \in Ids
    /\ WindowClosed(attestations[id])
    /\ CanTransfer(token, Self, attestations[id].attestor,
                   attestations[id].stake)

(* finalize has no caller check: whoever calls it, the stake goes home.    *)
CanFinalize(id) ==
    /\ id \in Ids
    /\ attestations[id].status = "Active"
    /\ WindowClosed(attestations[id])
    /\ CanTransfer(token, Self, attestations[id].attestor,
                   attestations[id].stake)

Finalize(id) ==
    /\ CanFinalize(id)
    /\ LET att == attestations[id]
       IN  /\ token' = Transfer(token, Self, att.attestor, att.stake)
           /\ attestations' = [attestations EXCEPT ![id].status = "Finalized"]
           /\ reputations' =
                 [reputations EXCEPT ![att.attestor].successful = @ + 1]
    /\ UNCHANGED <<now, count>>
-----------------------------------------------------------------------------
(* Calls that go to the token directly, past the registry.                 *)
ApproveRegistry(owner, amount) ==
    /\ token' = Approve(token, owner, amount)
    /\ UNCHANGED <<now, count, attestations, reputations>>

TransferStake(from, to, amount) ==
    /\ CanTransfer(token, from, to, amount)
    /\ token' = Transfer(token, from, to, amount)
    /\ UNCHANGED <<now, count, attestations, reputations>>

(* The chain's clock: block times only grow.                               *)
Tick ==
    /\ now' \in {t \in Instants : t > now}
    /\ UNCHANGED <<token, count, attestations, reputations>>

Next ==
    \/ \E a \in Accounts, m \in ModelIds, c \in Commitments, s \in Stakes :
          Submit(a, m, c, s)
    \/ \E a \in Accounts, id \in Ids : Challenge(a, id)
    \/ \E a \in Accounts, id \in Ids, fraudulent \in BOOLEAN :
          Resolve(a, id, fraudulent)
    \/ \E id \in Ids : Finalize(id)
    \/ \E a \in Accounts, amount \in Approvals : ApproveRegistry(a, amount)
    \/ \E a \in Accounts, p \in Accounts \cup {Self}, amount \in Gifts :
          TransferStake(a, p, amount)
    \/ Tick

Spec == Init /\ [][Next]_vars

(* What has to keep happening for every stake to come home: time passes,   *)
(* the resolver rules on what is disputed, and somebody calls finalize.    *)
Fairness ==
    /\ WF_vars(Tick)
    /\ \A id \in 0 .. MaxAttestations - 1 :
          /\ WF_vars(Finalize(id))
          /\ WF_vars(\E fraudulent \in BOOLEAN :
                        Resolve(Resolver, id, fraudulent))

FairSpec == Spec /\ Fairness
-----------------------------------------------------------------------------
(* What the registry holds in trust: the stake of every attestation that   *)
(* is not settled, and the bond of the one that disputes it.               *)
Locked(att) ==
    IF att.status \in Terminal THEN 0 ELSE att.stake + att.challenge_bond

Escrowed == Total([id \in Ids |-> Locked(attestations[id])], count)

Surplus == token.balances[Self] - Escrowed

(* Whatever the order of submissions, challenges, verdicts and lapses, the *)
(* registry holds at least what it would have to pay out: no settlement    *)
(* ever spends the stake or the bond of another attestation.               *)
Solvent == Surplus >= 0

(* Every entry point moves exactly what the records say: what the registry *)
(* holds beyond its escrow is not changed by rounding a reward or by any   *)
(* settlement, it only grows when somebody sends it STAKE directly.        *)
SurplusOnlyDonated ==
    [][ \/ Surplus' = Surplus
        \/ Surplus' > Surplus /\ UNCHANGED attestations ]_vars

(* No attestation can be wedged: the resolver can always rule on a         *)
(* disputed one, either way, and an undisputed one whose window has closed *)
(* can always be finalized.  Neither the registry's checks, nor the        *)
(* token's, nor checked arithmetic can revert the settlement for good.     *)
NeverStuck ==
    \A id \in Ids :
        LET att == attestations[id]
        IN  /\ att.status = "Challenged" =>
                   \A fraudulent \in BOOLEAN : CanResolve(id, fraudulent)
            /\ (att.status = "Active" /\ WindowClosed(att)) => CanFinalize(id)

(* The product and the sum resolve computes fit in a U256.  Stakes are held *)
(* in a token whose whole supply is a U256, so this fails only for a supply *)
(* within a factor of ten thousand of 2^256.                               *)
StakesFit ==
    \A s \in Stakes : s * RewardBps <= MaxU256 /\ s + ChallengeBond <= MaxU256

(* The strengthening of Solvent and NeverStuck that the steps preserve: a  *)
(* record has a challenger exactly when it carries a bond, is undisputed   *)
(* while Active, and the escrow is covered.                                *)
RecordsWellFormed ==
    \A id \in Ids :
        LET att == attestations[id]
        IN  /\ att.stake \in Stakes
            /\ att.challenge_bond =
                  IF att.challenger = NoOne THEN 0 ELSE ChallengeBond
            /\ att.status = "Active" => att.challenger = NoOne
            /\ att.status \in {"Challenged", "Slashed"} => att.challenger # NoOne

IInv == TypeOK /\ RecordsWellFormed /\ Solvent

(* The dispute window means what the configuration says, in exact seconds  *)
(* (so also where the u64 arithmetic saturates): a challenge is admitted   *)
(* only inside it, and nothing is finalized unchallenged before its end.   *)
WindowEnd(att) == att.created_at + DisputeWindow * 1000

WindowRespected ==
    \A id \in Ids :
        LET att == attestations[id]
        IN  /\ att.challenger # NoOne =>
                   att.challenged_at \in att.created_at .. WindowEnd(att)
            /\ (att.status = "Finalized" /\ att.challenger = NoOne) =>
                   now > WindowEnd(att)

(* The reputation counters, which the contract only ever increments, agree *)
(* with what a recount of all the attestations of the account would give.  *)
AttestedBy(a) == {id \in Ids : attestations[id].attestor = a}

ReputationMatchesHistory ==
    \A a \in Accounts :
        LET survived == {id \in AttestedBy(a) :
                            attestations[id].status = "Finalized"}
        IN  reputations[a] =
              [total |-> Cardinality(AttestedBy(a)),
               successful |-> Cardinality(survived),
               slashed |-> Cardinality({id \in AttestedBy(a) :
                              attestations[id].status = "Slashed"}),
               challenges_defended |-> Cardinality({id \in survived :
                              attestations[id].challenger # NoOne})]

(* What an attestation has brought to p so far, read off the record alone: *)
(* the attestor is out its stake until the attestation is final, the       *)
(* challenger out the bond unless the stake was slashed, and the treasury  *)
(* earns the losing side's money less the challenger's reward.             *)
Earned(att, p) ==
    LET slashed == att.status = "Slashed"
        final == att.status = "Finalized"
        asAttestor == IF final THEN 0 ELSE - att.stake
        asChallenger == IF slashed THEN Reward(att) ELSE - att.challenge_bond
        asTreasury == IF slashed THEN TreasuryCut(att)
                      ELSE IF final THEN att.challenge_bond ELSE 0
    IN  (IF p = att.attestor THEN asAttestor ELSE 0)
        + (IF p = att.challenger THEN asChallenger ELSE 0)
        + (IF p = Treasury THEN asTreasury ELSE 0)

EarnedInAll(p) == Total([id \in Ids |-> Earned(attestations[id], p)], count)

(* Each deploy of the registry changes every account's balance by exactly  *)
(* what it changes in the records, also when one account plays several     *)
(* parts (attestor and challenger, treasury and resolver).                 *)
PaidByTheRecord ==
    [][ attestations' # attestations =>
          \A p \in Accounts :
              token'.balances[p] - token.balances[p]
                = EarnedInAll(p)' - EarnedInAll(p) ]_vars

(* Under the stated fairness every attestation is settled in the end, so   *)
(* no stake and no bond stays locked: a challenge may delay the settlement *)
(* but it cannot stop it.                                                  *)
EverySettled ==
    \A id \in 0 .. MaxAttestations - 1 :
        id \in Ids ~> (id \in Ids /\ attestations[id].status \in Terminal)

(* The registry implements the lifecycle its readers rely on: deploys that *)
(* move money, reputation or time appear to them as a legal step or none.  *)
Readable ==
    [id \in Ids |->
        [attestor |-> attestations[id].attestor,
         model_id |-> attestations[id].model_id,
         commitment |-> attestations[id].commitment,
         status |-> attestations[id].status]]

Lifecycle == INSTANCE AttestationLifecycle
                 WITH Attestors <- Accounts, records <- Readable

ImplementsLifecycle == Lifecycle!LifecycleSpec
=============================================================================
