----------------------------- MODULE StakingPage ----------------------------
(***************************************************************************)
(* The staking page: apps/web/src/app/staking/StakingView.tsx, the         *)
(* solvency arithmetic of lib/staking.ts and the withdrawal state machine  *)
(* of components/UnstakeFlow.tsx.                                          *)
(*                                                                         *)
(* The in-memory SDK answers in microtasks, before the browser takes the   *)
(* next event, so a handler with its awaits is one action.  Only the       *)
(* animated solvency check ends later, on an animation frame: every other  *)
(* action may come in between.                                             *)
(***************************************************************************)
EXTENDS MockBackend, Wallet

CONSTANTS
    SeedPoolStaked,         \* SEED_POOL_STAKED_MOTES: capital of the other LPs
    CoverageOutstanding,    \* COVERAGE_OUTSTANDING_MOTES
    MinSolvencyRatioBps,    \* MIN_SOLVENCY_RATIO_BPS, the guard floor
    RewardsPool,            \* REWARDS_POOL_MOTES
    Entries                 \* amounts typed; empty and malformed ones count as 0

ASSUME StakingAssumption ==
    /\ SeedPoolStaked \in Nat
    /\ CoverageOutstanding \in Nat
    /\ MinSolvencyRatioBps \in Nat
    /\ RewardsPool \in Nat
    /\ Entries \subseteq Nat

(* The guard floor lies above the ratio the badge calls CRITICAL.          *)
ASSUME FloorAssumption ==
    10 * ((CoverageOutstanding * MinSolvencyRatioBps) \div 10000)
        >= 11 * CoverageOutstanding

VARIABLE staking    \* the state of the mounted page and of its UnstakeFlow

StakingFresh ==
    [userStaked |-> 0, rewardsClaimed |-> FALSE,
     phase |-> "idle", requested |-> 0]

StakingTypeOK ==
    staking \in [userStaked: Nat, rewardsClaimed: BOOLEAN,
                 phase: {"idle", "checking", "executable", "gated", "done"},
                 requested: Nat]
-----------------------------------------------------------------------------
RequiredCapital == (CoverageOutstanding * MinSolvencyRatioBps) \div 10000

(* Mutation: the guard lets capital through down to the coverage itself.   *)
withdrawableUnfloored(total, user) ==
    LET free == total - CoverageOutstanding
        surplus == IF free > 0 THEN free ELSE 0
    IN  IF surplus < user THEN surplus ELSE user

withdrawableMotes(total, user) ==
    LET free == total - RequiredCapital
        surplus == IF free > 0 THEN free ELSE 0
    IN  IF surplus < user THEN surplus ELSE user

isWithdrawable(amount, withdrawable) == amount > 0 /\ amount <= withdrawable

pendingRewardsMotes(user, total) ==
    IF total <= 0 \/ user <= 0 THEN 0 ELSE (RewardsPool * user) \div total

(* solvencyLevelFor(solvencyRatio(total, coverage)), the badge of the pool. *)
SolvencyLevel(total) ==
    CASE 2 * total >= 3 * CoverageOutstanding -> "HEALTHY"
      [] /\ 2 * total < 3 * CoverageOutstanding
         /\ 10 * total >= 11 * CoverageOutstanding -> "CAUTION"
      [] OTHER -> "CRITICAL"

(* The pool shown: the seeded capital and the user's own.                  *)
PoolTotal == SeedPoolStaked + staking.userStaked
Withdrawable == withdrawableMotes(PoolTotal, staking.userStaked)
Rewards ==
    IF staking.rewardsClaimed THEN 0
    ELSE pendingRewardsMotes(staking.userStaked, PoolTotal)
-----------------------------------------------------------------------------
StakeOffered == isConnected

(* handleStake: nothing is sent for an amount of zero.  A check under way  *)
(* starts its animation again.  A new stake forgets that rewards were      *)
(* claimed.                                                                *)
StakeEntered(entry) ==
    /\ StakeOffered
    /\ entry > 0
    /\ Stake(entry)
    /\ staking' = [staking EXCEPT !.userStaked = @ + entry,
                                  !.rewardsClaimed = FALSE]

ClaimOffered == Rewards > 0

(* handleClaim: rewards are settled on the page only.                      *)
ClaimRewards ==
    /\ ClaimOffered
    /\ staking' = [staking EXCEPT !.rewardsClaimed = TRUE]
    /\ UNCHANGED vars

RequestValid(entry) ==
    /\ entry > 0
    /\ entry <= staking.userStaked
    /\ isConnected

RequestUnstake(entry) ==
    /\ staking.phase = "idle"
    /\ RequestValid(entry)
    /\ staking' = [staking EXCEPT !.requested = entry, !.phase = "checking"]
    /\ UNCHANGED vars

(* Mutation: the verdict only looks at the user's own position.            *)
VerdictOnPosition(amount) ==
    IF isWithdrawable(amount, staking.userStaked) THEN "executable" ELSE "gated"

Verdict(amount) ==
    IF isWithdrawable(amount, Withdrawable) THEN "executable" ELSE "gated"

(* The last animation frame settles the check against the pool as it is by *)
(* then; with reduced motion that is at once.                              *)
SettleCheck ==
    /\ staking.phase = "checking"
    /\ staking' = [staking EXCEPT !.phase = Verdict(staking.requested)]
    /\ UNCHANGED vars

WithdrawAvailable ==
    /\ staking.phase = "gated"
    /\ Withdrawable > 0
    /\ staking' = [staking EXCEPT !.requested = Withdrawable,
                                  !.phase = "executable"]
    /\ UNCHANGED vars

(* handleUnstake: the position never shows less than nothing.              *)
PositionAfter(position, amount) ==
    IF position - amount > 0 THEN position - amount ELSE 0

(* The button neither checks the pool again nor asks for a wallet.  If the *)
(* SDK throws, the flow stays where it is and shows the error.             *)
ExecuteUnstake ==
    /\ staking.phase = "executable"
    /\ Unstake(staking.requested)
    /\ staking' = [staking EXCEPT
                     !.userStaked = PositionAfter(@, staking.requested),
                     !.phase = "done"]

(* "Cancel" of a gated request and "Unstake more" of a finished one.       *)
StartOver ==
    /\ staking.phase \in {"gated", "done"}
    /\ staking' = [staking EXCEPT !.phase = "idle", !.requested = 0]
    /\ UNCHANGED vars

(* What the step row shows of the request, the check and the execution.    *)
StepRow(phase) ==
    [request |-> IF phase = "idle" THEN "active" ELSE "done",
     check |-> CASE phase = "checking" -> "active"
                 [] phase = "gated" -> "gated"
                 [] phase = "idle" -> "pending"
                 [] OTHER -> "done",
     execute |-> CASE phase = "executable" -> "active"
                   [] phase = "done" -> "done"
                   [] OTHER -> "pending"]

StakingStep ==
    \/ \E entry \in Entries : StakeEntered(entry) \/ RequestUnstake(entry)
    \/ ClaimRewards
    \/ SettleCheck
    \/ WithdrawAvailable
    \/ ExecuteUnstake
    \/ StartOver
-----------------------------------------------------------------------------
(* A request whose check the step row shows as done is still covered when  *)
(* it is executed, however long ago it was checked and whatever was staked *)
(* since: by the free surplus of the pool, by the position and by what the *)
(* SDK holds, so the button that promises "free to withdraw" does not fail. *)
WithdrawalBacked ==
    LET row == StepRow(staking.phase)
    IN  /\ staking.userStaked <= stakedTotal
        /\ (row.check = "done" /\ row.execute # "done") =>
              isWithdrawable(staking.requested, Withdrawable)

(* No withdrawal, full or partial, takes the pool below its guard floor:   *)
(* after each one the coverage is collateralised to the minimum ratio and  *)
(* the badge is not CRITICAL.                                              *)
UnstakeKeepsFloor ==
    [][ stakedTotal' < stakedTotal =>
          /\ PoolTotal' >= RequiredCapital
          /\ SolvencyLevel(PoolTotal') # "CRITICAL" ]_<<vars, staking>>
=============================================================================
