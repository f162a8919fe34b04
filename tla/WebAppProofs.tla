---------------------------- MODULE WebAppProofs ----------------------------
(***************************************************************************)
(* What the pages guarantee whatever the amounts, the pool, the policies,  *)
(* the scores and the number of attestations: each page's part of the      *)
(* invariant is preserved by its own handlers, and by those of the other   *)
(* pages, which only add to the backend they share.                        *)
(* The page of a result computes: there the sums are shown to be linear in *)
(* the factors, and six passes over them to reconcile the breakdown.       *)
(***************************************************************************)
EXTENDS WebApp, MockBackendProofs

-----------------------------------------------------------------------------
(* Two events of one call.                                                 *)

(* The ring after two events is the ring after one and then the other,     *)
LEMMA RingAfterTwo ==
    ASSUME NEW ring, NEW e, NEW d
    PROVE  RingAfter(ring, <<e, d>>) = Pushed(Pushed(ring, e), d)
<1> DEFINE one == Pushed(ring, e)
           two == Pushed(one, d)
           s0 == [n \in 0 .. 2 |-> IF n = 0 THEN ring
                                   ELSE IF n = 1 THEN one ELSE two]
<1>1. Len(<<e, d>>) = 2 /\ <<e, d>>[1] = e /\ <<e, d>>[2] = d
  OBVIOUS
<1>0. two = Pushed(one, d) /\ one = Pushed(ring, e)
  OBVIOUS
<1> HIDE DEF one, two
<1>2. IsRing(s0, ring, <<e, d>>)
  <2>1. s0[0] = ring /\ s0[1] = one /\ s0[2] = two
    OBVIOUS
  <2>2. s0 = [n \in 0 .. 2 |-> s0[n]]
    OBVIOUS
  <2> HIDE DEF s0
  <2>3. \A n \in 0 .. 2 : s0[n] = IF n = 0 THEN ring
                                  ELSE Pushed(s0[n - 1], <<e, d>>[n])
    <3>1. \A n \in 0 .. 2 : n = 0 \/ n = 1 \/ n = 2
      OBVIOUS
    <3>2. 1 - 1 = 0 /\ 2 - 1 = 1
      OBVIOUS
    <3>3. s0[1] = Pushed(s0[1 - 1], <<e, d>>[1])
      BY <1>0, <1>1, <2>1, <3>2
    <3>4. s0[2] = Pushed(s0[2 - 1], <<e, d>>[2])
      BY <1>0, <1>1, <2>1, <3>2
    <3>5. QED
      BY <2>1, <3>1, <3>3, <3>4
  <2>4. QED
    BY <1>1, <2>2, <2>3 DEF IsRing
<1> HIDE DEF s0
<1>3. \E s : IsRing(s, ring, <<e, d>>) /\ RingAfter(ring, <<e, d>>) = s[Len(<<e, d>>)]
  BY <1>2 DEF IsRing, RingAfter
<1>4. PICK s : IsRing(s, ring, <<e, d>>) /\ RingAfter(ring, <<e, d>>) = s[2]
  BY <1>1, <1>3
<1>5. s[0] = ring /\ s[1] = Pushed(s[0], e) /\ s[2] = Pushed(s[1], d)
  <2>1. 0 \in 0 .. 2 /\ 1 \in 0 .. 2 /\ 2 \in 0 .. 2 /\ 1 - 1 = 0 /\ 2 - 1 = 1
    OBVIOUS
  <2>2. QED
    BY <1>1, <1>4, <2>1 DEF IsRing
<1>6. QED
  BY <1>0, <1>4, <1>5

(* and so are the entries of a feed.                                       *)
LEMMA ShownAfterTwo ==
    ASSUME NEW entries, NEW e, NEW d
    PROVE  ShownAfter(entries, <<e, d>>) = Entered(Entered(entries, e), d)
<1> DEFINE one == Entered(entries, e)
           two == Entered(one, d)
           s0 == [n \in 0 .. 2 |-> IF n = 0 THEN entries
                                   ELSE IF n = 1 THEN one ELSE two]
<1>1. Len(<<e, d>>) = 2 /\ <<e, d>>[1] = e /\ <<e, d>>[2] = d
  OBVIOUS
<1>0. two = Entered(one, d) /\ one = Entered(entries, e)
  OBVIOUS
<1> HIDE DEF one, two
<1>2. IsReplay(s0, entries, <<e, d>>)
  <2>1. s0[0] = entries /\ s0[1] = one /\ s0[2] = two
    OBVIOUS
  <2>2. s0 = [n \in 0 .. 2 |-> s0[n]]
    OBVIOUS
  <2> HIDE DEF s0
  <2>3. \A n \in 0 .. 2 : s0[n] = IF n = 0 THEN entries
                                  ELSE Entered(s0[n - 1], <<e, d>>[n])
    <3>1. \A n \in 0 .. 2 : n = 0 \/ n = 1 \/ n = 2
      OBVIOUS
    <3>2. 1 - 1 = 0 /\ 2 - 1 = 1
      OBVIOUS
    <3>3. s0[1] = Entered(s0[1 - 1], <<e, d>>[1])
      BY <1>0, <1>1, <2>1, <3>2
    <3>4. s0[2] = Entered(s0[2 - 1], <<e, d>>[2])
      BY <1>0, <1>1, <2>1, <3>2
    <3>5. QED
      BY <2>1, <3>1, <3>3, <3>4
  <2>4. QED
    BY <1>1, <2>2, <2>3 DEF IsReplay
<1> HIDE DEF s0
<1>3. \E s : IsReplay(s, entries, <<e, d>>)
             /\ ShownAfter(entries, <<e, d>>) = s[Len(<<e, d>>)]
  BY <1>2 DEF IsReplay, ShownAfter
<1>4. PICK s : IsReplay(s, entries, <<e, d>>)
               /\ ShownAfter(entries, <<e, d>>) = s[2]
  BY <1>1, <1>3
<1>5. s[0] = entries /\ s[1] = Entered(s[0], e) /\ s[2] = Entered(s[1], d)
  <2>1. 0 \in 0 .. 2 /\ 1 \in 0 .. 2 /\ 2 \in 0 .. 2 /\ 1 - 1 = 0 /\ 2 - 1 = 1
    OBVIOUS
  <2>2. QED
    BY <1>1, <1>4, <2>1 DEF IsReplay
<1>6. QED
  BY <1>0, <1>4, <1>5

(* So a call that emits two events keeps ring and feeds in step as well.   *)
LEMMA EmitTwoFeeds ==
    ASSUME FeedsOK, NEW e \in Event, NEW d \in Event, EmitAll(<<e, d>>)
    PROVE  FeedsOK' /\ log' = Append(Append(log, e), d)
<1> DEFINE one == Append(log, e)
           two == Append(one, d)
<1>1. log \in Seq(Event) /\ one \in Seq(Event) /\ two \in Seq(Event)
  BY Appended DEF FeedsOK
<1>2. log' = two
  <2>1. log' = log \o <<e, d>>
    BY DEF EmitAll
  <2>2. log \o <<e, d>> = Append(Append(log, e), d)
    BY <1>1
  <2>3. QED
    BY <2>1, <2>2
<1>3. recentEvents' = Kept(two)
  <2>1. recentEvents' = Pushed(Pushed(Kept(log), e), d)
    BY RingAfterTwo DEF EmitAll, FeedsOK
  <2>2. Pushed(Kept(log), e) = Kept(one) /\ Pushed(Kept(one), d) = Kept(two)
    BY <1>1, PushedKept
  <2>3. QED
    BY <2>1, <2>2
<1>4. feeds' = [f \in DOMAIN feeds |-> Shown(two)]
  <2>1. \A f \in DOMAIN feeds : feeds[f] = Shown(log)
    BY DEF FeedsOK
  <2>2. Entered(Shown(log), e) = Shown(one) /\ Entered(Shown(one), d) = Shown(two)
    BY <1>1, EnteredShown
  <2>3. \A f \in DOMAIN feeds : ShownAfter(feeds[f], <<e, d>>) = Shown(two)
    BY <2>1, <2>2, ShownAfterTwo
  <2>4. QED
    BY <2>3 DEF EmitAll
<1> HIDE DEF one, two
<1>5. QED
  BY <1>1, <1>2, <1>3, <1>4 DEF FeedsOK, one, two
-----------------------------------------------------------------------------
(* The backend under the pages.                                            *)

OutputTexts == {HonestOutput, ClaimOutput} \cup Texts

SdkInv ==
    /\ IInv
    /\ outputs \in Seq(OutputTexts) /\ Len(outputs) = Count

(* What a step of a page means for the others: attestations are added, and *)
(* nothing else of the backend changes, save what the page is there for.   *)
OnlyAdded ==
    /\ Ids \subseteq Ids'
    /\ \A id \in Ids : attestations'[id] = attestations[id]

(* The page submits an attestation of one of its outputs.                  *)
LEMMA SubmitOutputSdk ==
    ASSUME SdkInv, NEW m \in ModelIds, NEW u \in Uris, NEW s,
           NEW o \in OutputTexts, SubmitOutput(m, u, s, o)
    PROVE  /\ SdkInv' /\ OnlyAdded
           /\ Count \in Nat /\ Count' = Count + 1 /\ Count' <= MaxAttestations
           /\ attestations'[Count + 1].status = "Active"
           /\ log' = Append(log, Submitted(Count + 1))
           /\ Submitted(Count + 1) \in Event
           /\ UNCHANGED <<policies, reputations, stakedTotal>>
<1>1. SubmitAttestation(MockAccount, m, u, s) /\ outputs' = Append(outputs, o)
  BY DEF SubmitOutput
<1>2. /\ IInv' /\ Count \in Nat /\ Count' = Count + 1
      /\ \A i \in Ids : attestations'[i] = attestations[i]
      /\ attestations'[Count + 1] = NewAttestation(MockAccount, m, u)
      /\ log' = Append(log, Submitted(Count + 1))
      /\ UNCHANGED <<policies, reputations, stakedTotal>>
  BY <1>1, SubmitInv, WebAssumption DEF SdkInv, Submitted
<1>3. outputs' \in Seq(OutputTexts) /\ Len(outputs') = Count'
  BY <1>1, <1>2, Appended DEF SdkInv
<1>4. attestations'[Count + 1].status = "Active"
  BY <1>2 DEF NewAttestation
<1>5. Ids \subseteq Ids'
  BY <1>2 DEF Ids
<1>6. Count' <= MaxAttestations
  BY <1>2 DEF IInv, StoreOK
<1>7. Submitted(Count + 1) \in Event
  <2>1. Count + 1 \in 1 .. MaxAttestations
    BY <1>2, <1>6, MockAssumption
  <2>2. QED
    BY <2>1 DEF Submitted, Event
<1>8. QED
  BY <1>2, <1>3, <1>4, <1>5, <1>6, <1>7 DEF SdkInv, OnlyAdded

(* The two events of a simulated trigger are events.                       *)
LEMMA TriggerEvents ==
    ASSUME SdkInv, Count < MaxAttestations, NEW p \in PolicyIds
    PROVE  Submitted(Count + 1) \in Event /\ Paid(p) \in Event
<1>1. /\ MaxAttestations \in Nat /\ Count \in Nat
      /\ MaxPolicies \in Nat /\ Len(policies) \in Nat
      /\ Len(policies) <= MaxPolicies
  BY MockAssumption DEF SdkInv, IInv, StoreOK, Count
<1>2. Count + 1 \in 1 .. MaxAttestations /\ p \in 1 .. MaxPolicies
  BY <1>1 DEF PolicyIds
<1>3. QED
  BY <1>2 DEF Event, Submitted, Paid

(* A simulated trigger attests first: the record and its output are added. *)
LEMMA AttestTriggerSdk ==
    ASSUME SdkInv, NEW covered \in BuyableTriggers, AttestTrigger(covered)
    PROVE  /\ attestations' \in Seq(StoredAttestation)
           /\ Count \in Nat /\ Count' = Count + 1
           /\ Count < MaxAttestations /\ Count' <= MaxAttestations
           /\ outputs' \in Seq(OutputTexts) /\ Len(outputs') = Count'
           /\ OnlyAdded
<1>1. /\ Count < MaxAttestations
      /\ attestations' = Append(attestations,
            NewAttestation(MockAccount, "claimoracle", covered))
      /\ outputs' = Append(outputs, ClaimOutput)
  BY DEF AttestTrigger
<1>2. NewAttestation(MockAccount, "claimoracle", covered) \in StoredAttestation
  BY WebAssumption DEF NewAttestation, StoredAttestation
<1>3. attestations \in Seq(StoredAttestation) /\ outputs \in Seq(OutputTexts)
      /\ Len(outputs) = Len(attestations)
  BY DEF SdkInv, IInv, StoreOK, Count
<1>4. /\ attestations' \in Seq(StoredAttestation)
      /\ Count \in Nat /\ Count' = Count + 1
      /\ \A i \in Ids : attestations'[i] = attestations[i]
  BY <1>1, <1>2, <1>3, Appended DEF Count, Ids
<1>5. outputs' \in Seq(OutputTexts) /\ Len(outputs') = Count'
  <2>1. ClaimOutput \in OutputTexts
    BY DEF OutputTexts
  <2>2. QED
    BY <1>1, <1>3, <1>4, <2>1, Appended DEF Count
<1>6. Count' <= MaxAttestations
  BY <1>1, <1>4, MockAssumption
<1>7. Ids \subseteq Ids'
  BY <1>4 DEF Ids
<1>8. QED
  BY <1>1, <1>4, <1>5, <1>6, <1>7 DEF OnlyAdded

(* A trigger that pays, and one that is refused.                           *)
LEMMA TriggerPaysSdk ==
    ASSUME SdkInv, NEW i \in DOMAIN insurance.policies, NEW now \in Times,
           NEW p \in PolicyIds, NEW covered \in BuyableTriggers,
           p = insurance.policies[i].id, covered = insurance.policies[i].covered,
           TriggerPays(i, now)
    PROVE  /\ SdkInv' /\ OnlyAdded
           /\ Count \in Nat /\ Count' = Count + 1 /\ Count < MaxAttestations
           /\ PolicyIds' = PolicyIds
           /\ policies[p].status # "Expired"
           /\ \A q \in PolicyIds : q # p => policies'[q] = policies[q]
           /\ policies'[p].status = "Claimed"
           /\ log' = Append(Append(log, Submitted(Count + 1)), Paid(p))
           /\ Submitted(Count + 1) \in Event /\ Paid(p) \in Event
           /\ UNCHANGED stakedTotal
<1>1. /\ AttestTrigger(covered) /\ ~Lapsed(policies[p], now)
      /\ policies' = [policies EXCEPT ![p].status = "Claimed"]
      /\ EmitAll(<<Submitted(Count + 1), Paid(p)>>)
      /\ UNCHANGED <<reputations, stakedTotal>>
  BY DEF TriggerPays
<1>2. /\ attestations' \in Seq(StoredAttestation)
      /\ Count \in Nat /\ Count' = Count + 1
      /\ Count < MaxAttestations /\ Count' <= MaxAttestations
      /\ outputs' \in Seq(OutputTexts) /\ Len(outputs') = Count'
      /\ OnlyAdded
  BY <1>1, AttestTriggerSdk
<1>3. /\ policies' \in Seq(StoredPolicy)
      /\ Len(policies') = Len(policies) /\ PolicyIds' = PolicyIds
      /\ \A q \in PolicyIds : q # p => policies'[q] = policies[q]
      /\ policies'[p].status = "Claimed"
  BY <1>1, PolicyMarked DEF SdkInv
<1>4. Submitted(Count + 1) \in Event /\ Paid(p) \in Event
  BY <1>2, TriggerEvents
<1>5. FeedsOK' /\ log' = Append(Append(log, Submitted(Count + 1)), Paid(p))
  BY <1>1, <1>4, EmitTwoFeeds DEF SdkInv, IInv
<1>6. IInv'
  BY <1>1, <1>2, <1>3, <1>5 DEF SdkInv, IInv, StoreOK
<1>7. policies[p].status # "Expired"
  BY <1>1 DEF Lapsed
<1>8. QED
  BY <1>1, <1>2, <1>3, <1>4, <1>5, <1>6, <1>7 DEF SdkInv

(* One that is refused, on a page left open for a year.                     *)
LEMMA TriggerRefusedSdk ==
    ASSUME SdkInv, NEW i \in DOMAIN insurance.policies, NEW now \in Times,
           NEW p \in PolicyIds, NEW covered \in BuyableTriggers,
           p = insurance.policies[i].id, covered = insurance.policies[i].covered,
           TriggerRefused(i, now)
    PROVE  /\ SdkInv' /\ OnlyAdded
           /\ PolicyIds' = PolicyIds
           /\ \A q \in PolicyIds : q # p => policies'[q] = policies[q]
           /\ policies'[p].status = "Expired"
           /\ log' = Append(log, Submitted(Count + 1))
           /\ Submitted(Count + 1) \in Event
           /\ UNCHANGED stakedTotal
<1>1. /\ AttestTrigger(covered)
      /\ policies' = [policies EXCEPT ![p].status = "Expired"]
      /\ EmitAll(<<Submitted(Count + 1)>>)
      /\ UNCHANGED <<reputations, stakedTotal>>
  BY DEF TriggerRefused
<1>2. /\ attestations' \in Seq(StoredAttestation)
      /\ Count \in Nat /\ Count' = Count + 1
      /\ Count < MaxAttestations /\ Count' <= MaxAttestations
      /\ outputs' \in Seq(OutputTexts) /\ Len(outputs') = Count'
      /\ OnlyAdded
  BY <1>1, AttestTriggerSdk
<1>3. /\ policies' \in Seq(StoredPolicy)
      /\ Len(policies') = Len(policies) /\ PolicyIds' = PolicyIds
      /\ \A q \in PolicyIds : q # p => policies'[q] = policies[q]
      /\ policies'[p].status = "Expired"
  BY <1>1, PolicyMarked DEF SdkInv
<1>4. Submitted(Count + 1) \in Event
  BY <1>2, TriggerEvents
<1>5. FeedsOK' /\ log' = Append(log, Submitted(Count + 1))
  BY <1>1, <1>4, EmitFeeds DEF SdkInv, IInv, Emit, Submitted
<1>6. IInv'
  BY <1>1, <1>2, <1>3, <1>5 DEF SdkInv, IInv, StoreOK
<1>7. QED
  BY <1>1, <1>2, <1>3, <1>4, <1>5, <1>6 DEF SdkInv
-----------------------------------------------------------------------------
(* The staking page.                                                       *)

(* The position shown is covered by what the SDK holds, and so is, by the  *)
(* pool, a request whose check has settled.                                *)
PoolInv ==
    /\ StakingTypeOK
    /\ staking.userStaked <= stakedTotal
    /\ staking.phase = "executable" =>
          isWithdrawable(staking.requested, Withdrawable)

(* The capital the guard keeps back is a number.                           *)
LEMMA CapitalType == RequiredCapital \in Nat
<1> DEFINE scaled == CoverageOutstanding * MinSolvencyRatioBps
<1>1. scaled \in Nat
  BY StakingAssumption
<1> HIDE DEF scaled
<1>2. scaled \div 10000 \in Nat
  BY <1>1
<1>3. QED
  BY <1>2 DEF RequiredCapital, scaled

(* What can be withdrawn is at most the position and leaves the floor, and *)
(* it does not shrink when the pool and the position grow.                 *)
LEMMA WithdrawableBounds ==
    ASSUME NEW total \in Nat, NEW user \in Nat
    PROVE  /\ withdrawableMotes(total, user) \in Nat
           /\ withdrawableMotes(total, user) <= user
           /\ withdrawableMotes(total, user) > 0 =>
                 total - withdrawableMotes(total, user) >= RequiredCapital
<1>1. RequiredCapital \in Nat
  BY CapitalType
<1>2. QED
  BY <1>1 DEF withdrawableMotes

(* and it does not shrink when the pool and the position grow.             *)
LEMMA WithdrawableGrows ==
    ASSUME NEW total \in Nat, NEW user \in Nat, NEW more \in Nat
    PROVE  withdrawableMotes(total, user)
              <= withdrawableMotes(total + more, user + more)
<1>1. RequiredCapital \in Nat
  BY CapitalType
<1>2. QED
  BY <1>1 DEF withdrawableMotes

(* The pool shown and what it lets the user withdraw.                      *)
LEMMA PoolBounds ==
    ASSUME PoolInv
    PROVE  /\ staking.userStaked \in Nat /\ staking.requested \in Nat
           /\ PoolTotal \in Nat
           /\ Withdrawable \in Nat /\ Withdrawable <= staking.userStaked
           /\ Withdrawable > 0 => PoolTotal - Withdrawable >= RequiredCapital
<1>1. staking.userStaked \in Nat /\ staking.requested \in Nat
  BY DEF PoolInv, StakingTypeOK
<1>2. PoolTotal \in Nat
  BY <1>1, StakingAssumption DEF PoolTotal
<1>3. QED
  BY <1>1, <1>2, WithdrawableBounds DEF Withdrawable

(* A stake adds to what the SDK holds, to the pool and to the position.    *)
LEMMA StakeEnteredPool ==
    ASSUME SdkInv, PoolInv, NEW entry \in Entries, StakeEntered(entry),
           outputs' = outputs
    PROVE  /\ SdkInv' /\ PoolInv' /\ stakedTotal' >= stakedTotal
           /\ UNCHANGED <<attestations, policies, log>>
<1>1. /\ Stake(entry) /\ entry \in Nat
      /\ staking' = [staking EXCEPT !.userStaked = @ + entry,
                                    !.rewardsClaimed = FALSE]
  BY StakingAssumption DEF StakeEntered
<1>2. IInv' /\ UNCHANGED <<attestations, policies, log>>
  BY <1>1, StakingInv DEF SdkInv
<1>3. stakedTotal' = stakedTotal + entry /\ stakedTotal \in Nat
  BY <1>1 DEF Stake, SdkInv, IInv, StoreOK
<1>4. /\ staking.userStaked \in Nat /\ staking.requested \in Nat
      /\ PoolTotal \in Nat /\ Withdrawable \in Nat
  BY PoolBounds
<1>5. /\ staking' \in [userStaked: Nat, rewardsClaimed: BOOLEAN,
                       phase: {"idle", "checking", "executable", "gated", "done"},
                       requested: Nat]
      /\ staking'.userStaked = staking.userStaked + entry
      /\ staking'.phase = staking.phase
      /\ staking'.requested = staking.requested
  <2> DEFINE position == staking.userStaked + entry
  <2>1. position \in Nat
    BY <1>1, <1>4
  <2>2. staking' = [staking EXCEPT !.userStaked = position,
                                   !.rewardsClaimed = FALSE]
    BY <1>1
  <2> HIDE DEF position
  <2>3. /\ staking' \in [userStaked: Nat, rewardsClaimed: BOOLEAN,
                          phase: {"idle", "checking", "executable", "gated",
                                  "done"},
                          requested: Nat]
        /\ staking'.userStaked = position
        /\ staking'.phase = staking.phase
        /\ staking'.requested = staking.requested
    BY <2>1, <2>2 DEF PoolInv, StakingTypeOK
  <2>4. QED
    BY <2>3 DEF position
<1>6. Withdrawable <= Withdrawable' /\ Withdrawable' \in Nat
  <2>1. PoolTotal' = PoolTotal + entry
    BY <1>1, <1>4, <1>5, StakingAssumption DEF PoolTotal
  <2>2. PoolTotal' \in Nat /\ staking'.userStaked \in Nat
    BY <1>1, <1>4, <1>5, <2>1
  <2>3. QED
    BY <1>1, <1>4, <1>5, <2>1, <2>2, WithdrawableGrows, WithdrawableBounds
    DEF Withdrawable
<1>7. PoolInv'
  <2>1. staking'.userStaked <= stakedTotal'
    BY <1>1, <1>3, <1>4, <1>5 DEF PoolInv
  <2>2. staking'.phase = "executable" =>
           isWithdrawable(staking'.requested, Withdrawable')
    BY <1>4, <1>5, <1>6 DEF PoolInv, isWithdrawable
  <2>3. QED
    BY <1>5, <2>1, <2>2 DEF PoolInv, StakingTypeOK
<1>8. QED
  BY <1>1, <1>2, <1>3, <1>7 DEF SdkInv, Count

(* The buttons that write nothing: the phase of the flow changes, and it   *)
(* becomes executable only for a request the pool covers by then.          *)
LEMMA FlowPool ==
    ASSUME PoolInv, UNCHANGED sdkVars,
           \/ ClaimRewards \/ SettleCheck \/ WithdrawAvailable \/ StartOver
           \/ \E entry \in Entries : RequestUnstake(entry)
    PROVE  PoolInv'
<1> DEFINE Flow == [userStaked: Nat, rewardsClaimed: BOOLEAN,
                    phase: {"idle", "checking", "executable", "gated", "done"},
                    requested: Nat]
<1>1. staking \in Flow /\ stakedTotal' = stakedTotal
  BY DEF PoolInv, StakingTypeOK, sdkVars, vars
<1>2. Withdrawable \in Nat /\ staking.userStaked \in Nat
  BY PoolBounds
<1>3. ASSUME staking' \in Flow,
             staking'.userStaked = staking.userStaked,
             staking'.phase = "executable" =>
                isWithdrawable(staking'.requested, Withdrawable)
      PROVE  PoolInv'
  <2>1. Withdrawable' = Withdrawable
    BY <1>3 DEF Withdrawable, PoolTotal
  <2>2. QED
    BY <1>1, <1>3, <2>1 DEF PoolInv, StakingTypeOK
<1>4. CASE ClaimRewards
  <2>1. staking' = [staking EXCEPT !.rewardsClaimed = TRUE]
    BY <1>4 DEF ClaimRewards
  <2>2. QED
    BY <1>1, <1>3, <2>1 DEF PoolInv
<1>5. CASE SettleCheck
  <2>1. /\ staking' = [staking EXCEPT !.phase = Verdict(staking.requested)]
        /\ Verdict(staking.requested) \in {"executable", "gated"}
    BY <1>5 DEF SettleCheck, Verdict
  <2>2. Verdict(staking.requested) = "executable" =>
           isWithdrawable(staking.requested, Withdrawable)
    BY DEF Verdict
  <2> HIDE DEF Flow
  <2>3. QED
    BY <1>1, <1>3, <2>1, <2>2 DEF Flow
<1>6. CASE WithdrawAvailable
  <2>1. /\ staking' = [staking EXCEPT !.requested = Withdrawable,
                                      !.phase = "executable"]
        /\ Withdrawable > 0
    BY <1>6 DEF WithdrawAvailable
  <2>2. isWithdrawable(Withdrawable, Withdrawable)
    BY <1>2, <2>1 DEF isWithdrawable
  <2>3. QED
    BY <1>1, <1>3, <1>2, <2>1, <2>2
<1>7. CASE StartOver
  <2>1. staking' = [staking EXCEPT !.phase = "idle", !.requested = 0]
    BY <1>7 DEF StartOver
  <2>2. QED
    BY <1>1, <1>3, <2>1
<1>8. CASE \E entry \in Entries : RequestUnstake(entry)
  <2>1. PICK entry \in Entries :
           staking' = [staking EXCEPT !.requested = entry, !.phase = "checking"]
    BY <1>8 DEF RequestUnstake
  <2>2. entry \in Nat
    BY StakingAssumption
  <2>3. QED
    BY <1>1, <1>3, <2>1, <2>2
<1>9. QED
  BY <1>4, <1>5, <1>6, <1>7, <1>8

(* The button that withdraws: what was requested leaves the position, what *)
(* the SDK holds and the pool, which stays above its floor.                *)
LEMMA ExecutePool ==
    ASSUME SdkInv, PoolInv, ExecuteUnstake, outputs' = outputs
    PROVE  /\ SdkInv' /\ PoolInv'
           /\ PoolTotal' \in Nat /\ PoolTotal' >= RequiredCapital
           /\ UNCHANGED <<attestations, policies, log>>
<1> DEFINE amount == staking.requested
           left == PositionAfter(staking.userStaked, amount)
<1>1. /\ Unstake(amount) /\ isWithdrawable(amount, Withdrawable)
      /\ staking' = [staking EXCEPT !.userStaked = left, !.phase = "done"]
  BY DEF ExecuteUnstake, PoolInv
<1>2. /\ amount \in Nat /\ staking.userStaked \in Nat
      /\ PoolTotal \in Nat /\ Withdrawable \in Nat
      /\ Withdrawable <= staking.userStaked
      /\ Withdrawable > 0 => PoolTotal - Withdrawable >= RequiredCapital
  BY PoolBounds
<1>3. IInv' /\ UNCHANGED <<attestations, policies, log>>
  BY <1>1, <1>2, StakingInv DEF SdkInv
<1>4. stakedTotal' = stakedTotal - amount /\ stakedTotal \in Nat
      /\ staking.userStaked <= stakedTotal
  BY <1>1 DEF Unstake, SdkInv, IInv, StoreOK, PoolInv
<1>5. 0 < amount /\ amount <= Withdrawable
  BY <1>1 DEF isWithdrawable
<1>6. left = staking.userStaked - amount /\ left \in Nat
  BY <1>2, <1>5 DEF PositionAfter
<1>7. /\ staking' \in [userStaked: Nat, rewardsClaimed: BOOLEAN,
                       phase: {"idle", "checking", "executable", "gated", "done"},
                       requested: Nat]
      /\ staking'.userStaked = left
      /\ staking'.phase = "done"
  <2> HIDE DEF left
  <2>1. QED
    BY <1>1, <1>6 DEF PoolInv, StakingTypeOK
<1>8. PoolTotal' = PoolTotal - amount
  <2>1. PoolTotal' = SeedPoolStaked + left /\ SeedPoolStaked \in Nat
    BY <1>7, StakingAssumption DEF PoolTotal
  <2>2. QED
    BY <1>2, <1>6, <2>1 DEF PoolTotal
<1> HIDE DEF amount, left
<1>9. PoolTotal' \in Nat /\ PoolTotal' >= RequiredCapital
  BY <1>2, <1>5, <1>8, CapitalType
<1>10. PoolInv'
  <2>1. staking'.userStaked <= stakedTotal'
    BY <1>2, <1>4, <1>5, <1>6, <1>7
  <2>2. QED
    BY <1>7, <2>1 DEF PoolInv, StakingTypeOK
<1>11. QED
  BY <1>3, <1>9, <1>10 DEF SdkInv, Count

(* All the buttons of the page.                                            *)
LEMMA StakingPool ==
    ASSUME SdkInv, PoolInv, StakingStep, outputs' = outputs
    PROVE  /\ SdkInv' /\ PoolInv'
           /\ UNCHANGED <<attestations, policies, log>>
           /\ stakedTotal' < stakedTotal =>
                 PoolTotal' \in Nat /\ PoolTotal' >= RequiredCapital
<1>1. CASE \E entry \in Entries : StakeEntered(entry)
  <2>1. /\ SdkInv' /\ PoolInv' /\ stakedTotal' >= stakedTotal
        /\ UNCHANGED <<attestations, policies, log>>
    BY <1>1, StakeEnteredPool
  <2>2. stakedTotal \in Nat /\ stakedTotal' \in Nat
    BY <2>1 DEF SdkInv, IInv, StoreOK
  <2>3. QED
    BY <2>1, <2>2
<1>2. CASE ExecuteUnstake
  BY <1>2, ExecutePool
<1>3. CASE \/ ClaimRewards \/ SettleCheck \/ WithdrawAvailable \/ StartOver
           \/ \E entry \in Entries : RequestUnstake(entry)
  <2>1. UNCHANGED vars
    BY <1>3 DEF ClaimRewards, SettleCheck, WithdrawAvailable, StartOver,
                RequestUnstake
  <2>2. UNCHANGED sdkVars
    BY <2>1 DEF sdkVars
  <2>3. PoolInv'
    BY <1>3, <2>2, FlowPool
  <2>4. SdkInv'
    BY <2>2 DEF sdkVars, vars, SdkInv, IInv, StoreOK, FeedsOK, Count
  <2>5. stakedTotal' = stakedTotal /\ stakedTotal \in Nat
    BY <2>1 DEF vars, SdkInv, IInv, StoreOK
  <2>6. QED
    BY <2>1, <2>3, <2>4, <2>5 DEF vars
<1>4. QED
  BY <1>1, <1>2, <1>3 DEF StakingStep

(* It gives what the page promises of a withdrawal.                        *)
LEMMA PoolBacked == PoolInv => WithdrawalBacked
<1> SUFFICES ASSUME PoolInv
             PROVE  WithdrawalBacked
  OBVIOUS
<1>1. ASSUME StepRow(staking.phase).check = "done",
             StepRow(staking.phase).execute # "done"
      PROVE  staking.phase = "executable"
  BY <1>1 DEF StepRow, PoolInv, StakingTypeOK
<1>2. QED
  BY <1>1 DEF WithdrawalBacked, PoolInv
-----------------------------------------------------------------------------
(* The slash demo.                                                         *)

DemoInv ==
    /\ SlashTypeOK
    /\ slash.id # 0 => slash.id \in Ids
    /\ SlashTellsStatus

(* No payout is announced by a step.                                       *)
NonePaid == \A p \in Nat : PaidAt(p)' = PaidAt(p)

(* An event that is no payout announces none.                              *)
LEMMA NoneIsPaid ==
    ASSUME NEW e, Emitted(e), e.name # "ClaimPaid"
    PROVE  NonePaid
BY PaidSame DEF NonePaid

(* Silence announces none either.                                          *)
LEMMA SilencePaysNone == log' = log => NonePaid
BY DEF NonePaid, PaidAt

(* Attestations added by other pages leave the demo's own as it was.       *)
LEMMA DemoUndisturbed ==
    ASSUME DemoInv, OnlyAdded, slash' = slash
    PROVE  DemoInv'
<1>1. CASE slash.id = 0
  BY <1>1 DEF DemoInv, SlashTypeOK, SlashTellsStatus
<1>2. CASE slash.id # 0
  <2>1. PICK id \in Ids : id = slash.id
    BY <1>2 DEF DemoInv
  <2>2. id \in Ids' /\ attestations'[id] = attestations[id]
    BY DEF OnlyAdded
  <2>3. QED
    BY <2>1, <2>2 DEF DemoInv, SlashTypeOK, SlashTellsStatus
<1>3. QED
  BY <1>1, <1>2

(* Submitting: the demo's attestation is the new one, Active on record.    *)
LEMMA SubmitForDemoInv ==
    ASSUME SdkInv, DemoInv, SubmitForDemo
    PROVE  /\ SdkInv' /\ DemoInv' /\ NonePaid
           /\ UNCHANGED <<policies, stakedTotal>>
<1>1. /\ SubmitOutput("riskscorer", "agent_error", 3, HonestOutput)
      /\ slash' = [slash EXCEPT !.step = "submitted", !.id = Count + 1,
                                !.shown = "Active"]
  BY DEF SubmitForDemo
<1>2. /\ SdkInv'
      /\ Count \in Nat /\ Count' = Count + 1 /\ Count' <= MaxAttestations
      /\ attestations'[Count + 1].status = "Active"
      /\ log' = Append(log, Submitted(Count + 1))
      /\ Submitted(Count + 1) \in Event
      /\ UNCHANGED <<policies, stakedTotal>>
  <2>1. HonestOutput \in OutputTexts
    BY DEF OutputTexts
  <2>2. QED
    BY <1>1, <2>1, SubmitOutputSdk, WebAssumption
<1>3. NonePaid
  BY <1>2, NoneIsPaid DEF Emitted, SdkInv, IInv, FeedsOK, Submitted
<1>4. DemoInv'
  <2>1. PICK id \in Ids' : id = Count + 1
    BY <1>2 DEF Ids
  <2>2. id \in 0 .. MaxAttestations /\ id # 0
    BY <1>2, <2>1, MockAssumption DEF Ids
  <2>3. slash' = [step |-> "submitted", id |-> id, shown |-> "Active",
                  result |-> slash.result]
    BY <1>1, <2>1 DEF DemoInv, SlashTypeOK
  <2>4. attestations'[id].status = "Active"
    BY <1>2, <2>1
  <2>5. QED
    BY <2>2, <2>3, <2>4 DEF DemoInv, SlashTypeOK, SlashTellsStatus
<1>5. QED
  BY <1>2, <1>3, <1>4

(* Verifying, and starting over, write nothing.                            *)
LEMMA ReadingDemo ==
    ASSUME DemoInv, UNCHANGED sdkVars,
           (\E payload \in Payloads : VerifyPayload(payload)) \/ RunDemoAgain
    PROVE  DemoInv'
<1>1. attestations' = attestations /\ Ids' = Ids
  BY DEF sdkVars, vars, Ids, Count
<1>2. CASE RunDemoAgain
  <2>1. slash' = SlashFresh /\ 0 \in 0 .. MaxAttestations
    BY <1>2, MockAssumption DEF RunDemoAgain
  <2>2. QED
    BY <2>1 DEF SlashFresh, DemoInv, SlashTypeOK, SlashTellsStatus
<1>3. CASE \E payload \in Payloads : VerifyPayload(payload)
  <2>1. PICK verdict \in {"pass", "fail"} :
           slash' = [slash EXCEPT !.step = "verified", !.result = verdict]
    BY <1>3 DEF VerifyPayload, verify
  <2>2. slash' = [step |-> "verified", id |-> slash.id, shown |-> slash.shown,
                  result |-> verdict]
    BY <2>1 DEF DemoInv, SlashTypeOK
  <2>3. QED
    BY <1>1, <2>2 DEF DemoInv, SlashTypeOK, SlashTellsStatus
<1>4. QED
  BY <1>2, <1>3

(* Challenging and resolving change the demo's attestation on record, and  *)
(* the page's copy with it.                                                *)
LEMMA ChallengeForDemoInv ==
    ASSUME SdkInv, DemoInv, ChallengeForDemo
    PROVE  /\ SdkInv' /\ DemoInv' /\ NonePaid
           /\ UNCHANGED <<policies, stakedTotal>>
<1>1. PICK id \in Ids : id = slash.id
  BY DEF ChallengeForDemo, Challenge, MayChallenge
<1>2. /\ Challenge(id) /\ outputs' = outputs
      /\ slash' = [slash EXCEPT !.step = "challenged", !.shown = "Challenged"]
  BY <1>1 DEF ChallengeForDemo
<1>3. /\ IInv' /\ Count' = Count /\ Ids' = Ids
      /\ attestations'[id] = [attestations[id] EXCEPT
            !.status = "Challenged", !.challenger = MockAccount]
      /\ log' = Append(log, [name |-> "Challenged", id |-> id])
      /\ UNCHANGED <<policies, stakedTotal>>
  BY <1>2, ChallengeInv DEF SdkInv
<1>4. SdkInv'
  BY <1>2, <1>3 DEF SdkInv
<1>5. NonePaid
  BY <1>3, AboutEvent, NoneIsPaid DEF Emitted, SdkInv, IInv, FeedsOK
<1>6. attestations'[id].status = "Challenged"
  <2>1. attestations[id] \in StoredAttestation
    BY DEF SdkInv, IInv, StoreOK, Ids, Count
  <2>2. QED
    BY <1>3, <2>1 DEF StoredAttestation
<1>7. slash' = [step |-> "challenged", id |-> slash.id, shown |-> "Challenged",
                result |-> slash.result]
  BY <1>2 DEF DemoInv, SlashTypeOK
<1>8. DemoInv'
  BY <1>1, <1>3, <1>6, <1>7 DEF DemoInv, SlashTypeOK, SlashTellsStatus
<1>9. QED
  BY <1>3, <1>4, <1>5, <1>8

(* Resolving, always as fraudulent.                                        *)
LEMMA ResolveForDemoInv ==
    ASSUME SdkInv, DemoInv, ResolveForDemo
    PROVE  /\ SdkInv' /\ DemoInv' /\ NonePaid
           /\ UNCHANGED <<policies, stakedTotal>>
<1>1. PICK id \in Ids : id = slash.id
  BY DEF ResolveForDemo, Resolve, MayResolve
<1>2. /\ Resolve(id, TRUE) /\ outputs' = outputs
      /\ slash' = [slash EXCEPT !.step = "slashed", !.shown = "Slashed"]
  BY <1>1 DEF ResolveForDemo
<1>3. /\ IInv' /\ Count' = Count /\ Ids' = Ids
      /\ attestations'[id] =
            [attestations[id] EXCEPT !.status = RulingOf(TRUE)]
      /\ log' = Append(log, [name |-> "Resolved", id |-> id])
      /\ UNCHANGED <<policies, stakedTotal>>
  BY <1>2, ResolveInv DEF SdkInv
<1>4. SdkInv'
  BY <1>2, <1>3 DEF SdkInv
<1>5. NonePaid
  BY <1>3, AboutEvent, NoneIsPaid DEF Emitted, SdkInv, IInv, FeedsOK
<1>6. attestations'[id].status = "Slashed"
  <2>1. attestations[id] \in StoredAttestation
    BY DEF SdkInv, IInv, StoreOK, Ids, Count
  <2>2. QED
    BY <1>3, <2>1 DEF StoredAttestation, RulingOf
<1>7. slash' = [step |-> "slashed", id |-> slash.id, shown |-> "Slashed",
                result |-> slash.result]
  BY <1>2 DEF DemoInv, SlashTypeOK
<1>8. DemoInv'
  BY <1>1, <1>3, <1>6, <1>7 DEF DemoInv, SlashTypeOK, SlashTellsStatus
<1>9. QED
  BY <1>3, <1>4, <1>5, <1>8

(* All the buttons of the demo.                                            *)
LEMMA SlashDemo ==
    ASSUME SdkInv, DemoInv, SlashStep
    PROVE  /\ SdkInv' /\ DemoInv' /\ NonePaid
           /\ UNCHANGED <<policies, stakedTotal>>
<1>1. CASE (\E payload \in Payloads : VerifyPayload(payload)) \/ RunDemoAgain
  <2>1. UNCHANGED sdkVars
    BY <1>1 DEF VerifyPayload, RunDemoAgain
  <2>2. SdkInv' /\ UNCHANGED <<policies, stakedTotal, log>>
    BY <2>1 DEF sdkVars, vars, SdkInv, IInv, StoreOK, FeedsOK, Count
  <2>3. QED
    BY <1>1, <2>1, <2>2, ReadingDemo, SilencePaysNone
<1>2. QED
  BY <1>1, SubmitForDemoInv, ChallengeForDemoInv, ResolveForDemoInv
  DEF SlashStep
-----------------------------------------------------------------------------
(* The insurance page.                                                     *)

Copy == [id: 1 .. MaxPolicies, covered: BuyableTriggers,
         status: {"Active", "Claimed"}]

(* A payout was announced for each claimed policy, once, and for no other. *)
PaidIfClaimed ==
    \A p \in Nat :
        Payouts(p) = IF p \in PolicyIds /\ policies[p].status = "Claimed"
                     THEN 1 ELSE 0

(* The copies are of different policies, and tell which are claimed.       *)
CopiesTell ==
    /\ \A i \in DOMAIN insurance.policies :
          /\ insurance.policies[i].id \in PolicyIds
          /\ insurance.policies[i].status = "Claimed"
                <=> policies[insurance.policies[i].id].status = "Claimed"
    /\ \A i, j \in DOMAIN insurance.policies :
          i # j => insurance.policies[i].id # insurance.policies[j].id

CoverInv ==
    /\ insurance \in [score: 0 .. 101, policies: Seq(Copy),
                      claim: {<<>>} \cup
                             ((1 .. MaxPolicies) \X (1 .. MaxAttestations))]
    /\ PaidIfClaimed
    /\ CopiesTell

(* What other pages do pays nobody and leaves the policies alone.          *)
LEMMA CoverUndisturbed ==
    ASSUME CoverInv, NonePaid, UNCHANGED <<insurance, policies>>
    PROVE  CoverInv'
<1>1. PolicyIds' = PolicyIds
  BY DEF PolicyIds
<1>2. \A p \in Nat : Payouts(p)' = Payouts(p)
  BY DEF NonePaid, Payouts
<1>3. PaidIfClaimed'
  BY <1>1, <1>2 DEF CoverInv, PaidIfClaimed
<1>4. CopiesTell'
  BY <1>1 DEF CoverInv, CopiesTell
<1>5. QED
  BY <1>3, <1>4 DEF CoverInv

(* Leaving the page drops the copies.                                      *)
LEMMA CoverDropped ==
    ASSUME CoverInv, NonePaid, policies' = policies, insurance' = InsuranceFresh
    PROVE  CoverInv'
<1>1. PolicyIds' = PolicyIds
  BY DEF PolicyIds
<1>2. \A p \in Nat : Payouts(p)' = Payouts(p)
  BY DEF NonePaid, Payouts
<1>3. PaidIfClaimed'
  BY <1>1, <1>2 DEF CoverInv, PaidIfClaimed
<1>4. /\ insurance'.policies = <<>>
      /\ insurance' \in [score: 0 .. 101, policies: Seq(Copy),
                         claim: {<<>>} \cup
                             ((1 .. MaxPolicies) \X (1 .. MaxAttestations))]
  BY DEF InsuranceFresh
<1>5. CopiesTell'
  BY <1>4 DEF CopiesTell
<1>6. QED
  BY <1>3, <1>4, <1>5 DEF CoverInv

(* The lookup writes nothing.                                              *)
LEMMA ScoreCover ==
    ASSUME CoverInv, NEW seed \in Seeds, ScoreAddress(seed)
    PROVE  CoverInv'
<1>1. /\ insurance' = [insurance EXCEPT !.score = RiskScoreOf[seed]]
      /\ RiskScoreOf[seed] \in 0 .. 101
      /\ UNCHANGED <<policies, log>>
  BY RiskScoreAssumption DEF ScoreAddress, sdkVars, vars
<1>2. insurance'.policies = insurance.policies
      /\ insurance' \in [score: 0 .. 101, policies: Seq(Copy),
                         claim: {<<>>} \cup
                             ((1 .. MaxPolicies) \X (1 .. MaxAttestations))]
  BY <1>1 DEF CoverInv
<1>3. PolicyIds' = PolicyIds /\ \A p \in Nat : Payouts(p)' = Payouts(p)
  BY <1>1 DEF PolicyIds, Payouts, PaidAt
<1>4. PaidIfClaimed'
  BY <1>1, <1>3 DEF CoverInv, PaidIfClaimed
<1>5. CopiesTell'
  BY <1>1, <1>2, <1>3 DEF CoverInv, CopiesTell
<1>6. QED
  BY <1>2, <1>4, <1>5 DEF CoverInv

(* A policy bought is listed first, unclaimed and unpaid.                  *)
LEMMA BuyCover ==
    ASSUME SdkInv, CoverInv, NEW covered \in BuyableTriggers, BuyPolicy(covered)
    PROVE  SdkInv' /\ CoverInv' /\ UNCHANGED <<attestations, stakedTotal>>
<1> DEFINE fresh == Len(policies) + 1
           copies == insurance.policies
           bought == [id |-> fresh, covered |-> covered, status |-> "Active"]
<1>1. /\ CreatePolicy({covered}, Later) /\ outputs' = outputs
      /\ insurance' = [insurance EXCEPT !.policies = <<bought>> \o copies]
  BY DEF BuyPolicy
<1>2. /\ IInv' /\ Len(policies) \in Nat /\ Len(policies') = fresh
      /\ \A p \in PolicyIds : policies'[p] = policies[p]
      /\ policies'[fresh].status = "Active"
      /\ UNCHANGED <<attestations, reputations, stakedTotal, log>>
  BY <1>1, CreatePolicyInv, WebAssumption, InsurancePageAssumption DEF SdkInv
<1>3. SdkInv'
  BY <1>1, <1>2 DEF SdkInv, Count
<1>4. /\ PolicyIds' = PolicyIds \cup {fresh} /\ fresh \notin PolicyIds
      /\ PolicyIds \subseteq Nat /\ fresh \in Nat
  BY <1>2 DEF PolicyIds
<1>5. fresh \in 1 .. MaxPolicies
  BY <1>2, MockAssumption DEF IInv, StoreOK
<1>6. copies \in Seq(Copy) /\ bought \in Copy
  BY <1>5 DEF CoverInv, Copy
<1> HIDE DEF copies, bought
<1>7. /\ insurance' \in [score: 0 .. 101, policies: Seq(Copy),
                         claim: {<<>>} \cup
                             ((1 .. MaxPolicies) \X (1 .. MaxAttestations))]
      /\ insurance'.policies = <<bought>> \o copies
  BY <1>1, <1>6, Prefixed DEF CoverInv
<1>8. /\ Len(copies) \in Nat /\ DOMAIN insurance'.policies = 1 .. Len(copies) + 1
      /\ insurance'.policies[1] = bought
      /\ \A i \in 2 .. Len(copies) + 1 : insurance'.policies[i] = copies[i - 1]
  BY <1>6, <1>7, Prefixed
<1> HIDE DEF fresh
<1>9. PaidIfClaimed'
  <2>1. \A p \in Nat : Payouts(p)' = Payouts(p)
    BY <1>2 DEF Payouts, PaidAt
  <2>2. QED
    BY <1>2, <1>4, <2>1 DEF CoverInv, PaidIfClaimed, fresh
<1>10. CopiesTell'
  <2>1. bought.id = fresh /\ bought.status = "Active"
    BY DEF bought
  <2>2. \A i \in 1 .. Len(copies) :
           /\ copies[i].id \in PolicyIds
           /\ copies[i].status = "Claimed"
                 <=> policies[copies[i].id].status = "Claimed"
    BY <1>6 DEF CoverInv, CopiesTell, copies
  <2>3. \A i, j \in 1 .. Len(copies) : i # j => copies[i].id # copies[j].id
    BY <1>6 DEF CoverInv, CopiesTell, copies
  <2>4. ASSUME NEW i \in DOMAIN insurance'.policies, i # 1
        PROVE  /\ i - 1 \in 1 .. Len(copies)
               /\ insurance'.policies[i] = copies[i - 1]
    BY <1>8, <2>4
  <2>5. ASSUME NEW i \in DOMAIN insurance'.policies
        PROVE  /\ insurance'.policies[i].id \in PolicyIds'
               /\ insurance'.policies[i].status = "Claimed"
                     <=> policies'[insurance'.policies[i].id].status = "Claimed"
    <3>1. CASE i = 1
      BY <1>2, <1>4, <1>8, <2>1, <3>1
    <3>2. CASE i # 1
      <4>1. /\ i - 1 \in 1 .. Len(copies)
            /\ insurance'.policies[i] = copies[i - 1]
        BY <2>4, <3>2
      <4>2. QED
        BY <1>2, <1>4, <2>2, <4>1
    <3>3. QED
      BY <3>1, <3>2
  <2>6. ASSUME NEW i \in DOMAIN insurance'.policies,
               NEW j \in DOMAIN insurance'.policies, i # j
        PROVE  insurance'.policies[i].id # insurance'.policies[j].id
    <3>1. CASE i = 1
      <4>1. j # 1
        BY <2>6, <3>1
      <4>2. QED
        BY <1>4, <1>8, <2>1, <2>2, <2>4, <3>1, <4>1
    <3>2. CASE j = 1
      <4>1. i # 1
        BY <2>6, <3>2
      <4>2. QED
        BY <1>4, <1>8, <2>1, <2>2, <2>4, <3>2, <4>1
    <3>3. CASE i # 1 /\ j # 1
      <4>1. i \in Int /\ j \in Int /\ i - 1 # j - 1
        BY <1>8, <2>6
      <4>2. QED
        BY <2>3, <2>4, <3>3, <4>1
    <3>4. QED
      BY <3>1, <3>2, <3>3
  <2>7. QED
    BY <2>5, <2>6 DEF CopiesTell
<1>11. QED
  BY <1>2, <1>3, <1>7, <1>9, <1>10 DEF CoverInv

(* A copy marked as claimed.                                               *)
LEMMA CopyMarked ==
    ASSUME NEW copies \in Seq(Copy), NEW i \in DOMAIN copies, NEW marked,
           marked = [copies EXCEPT ![i].status = "Claimed"]
    PROVE  /\ marked \in Seq(Copy) /\ DOMAIN marked = DOMAIN copies
           /\ \A j \in DOMAIN copies : j # i => marked[j] = copies[j]
           /\ marked[i].id = copies[i].id /\ marked[i].status = "Claimed"
<1> DEFINE claimed == [copies[i] EXCEPT !.status = "Claimed"]
<1>1. copies[i] \in Copy
  OBVIOUS
<1>2. claimed \in Copy /\ claimed.id = copies[i].id /\ claimed.status = "Claimed"
  BY <1>1 DEF Copy
<1>3. marked = [copies EXCEPT ![i] = claimed]
  OBVIOUS
<1> HIDE DEF claimed
<1>4. QED
  BY <1>2, <1>3

(* The events of a trigger that pays announce one payout more.             *)
LEMMA PaidByTrigger ==
    ASSUME log \in Seq(Event), NEW d \in Event, NEW e \in Event,
           log' = Append(Append(log, d), e),
           d.name # "ClaimPaid", e.name = "ClaimPaid"
    PROVE  /\ Payouts(e.id)' = Payouts(e.id) + 1
           /\ \A q \in Nat : q # e.id => Payouts(q)' = Payouts(q)
<1> DEFINE n == Len(log)
<1>1. /\ n \in Nat /\ Len(log') = n + 2
      /\ \A i \in 1 .. n : log'[i] = log[i]
      /\ log'[n + 1] = d /\ log'[n + 2] = e
  <2>1. Append(log, d) \in Seq(Event)
    OBVIOUS
  <2>2. /\ n \in Nat /\ Len(Append(log, d)) = n + 1
        /\ \A i \in 1 .. n : Append(log, d)[i] = log[i]
        /\ Append(log, d)[n + 1] = d
    BY Appended
  <2>3. /\ Len(log') = n + 2
        /\ \A i \in 1 .. n + 1 : log'[i] = Append(log, d)[i]
        /\ log'[n + 2] = e
    BY <2>1, <2>2, Appended
  <2>4. QED
    BY <2>2, <2>3
<1>2. 1 .. Len(log') = (1 .. n) \cup {n + 1, n + 2} /\ n + 2 \notin 1 .. n
  BY <1>1
<1>3. PaidAt(e.id)' = PaidAt(e.id) \cup {n + 2} /\ n + 2 \notin PaidAt(e.id)
  BY <1>1, <1>2 DEF PaidAt
<1>4. \A q \in Nat : q # e.id => PaidAt(q)' = PaidAt(q)
  BY <1>1, <1>2 DEF PaidAt
<1>5. Payouts(e.id)' = Payouts(e.id) + 1
  BY <1>3, PaidFinite, OneCounted DEF Payouts
<1>6. QED
  BY <1>4, <1>5 DEF Payouts

(* A trigger that pays: the copy was Active, so the policy was unpaid, and *)
(* both are claimed now.                                                   *)
LEMMA PayCover ==
    ASSUME SdkInv, CoverInv, NEW i \in DOMAIN insurance.policies,
           NEW now \in Times, TriggerPays(i, now)
    PROVE  SdkInv' /\ CoverInv' /\ OnlyAdded /\ stakedTotal' = stakedTotal
<1> DEFINE copies == insurance.policies
<1>1. copies \in Seq(Copy) /\ copies[i] \in Copy /\ copies[i].status = "Active"
  BY DEF CoverInv, TriggerPays, TriggerOffered
<1>2. PICK p \in PolicyIds : p = copies[i].id
  BY DEF CoverInv, CopiesTell
<1>3. PICK covered \in BuyableTriggers : covered = copies[i].covered
  BY <1>1 DEF Copy
<1>4. /\ SdkInv' /\ OnlyAdded
      /\ Count \in Nat /\ Count' = Count + 1 /\ Count < MaxAttestations
      /\ PolicyIds' = PolicyIds
      /\ \A q \in PolicyIds : q # p => policies'[q] = policies[q]
      /\ policies'[p].status = "Claimed"
      /\ log' = Append(Append(log, Submitted(Count + 1)), Paid(p))
      /\ Submitted(Count + 1) \in Event /\ Paid(p) \in Event
      /\ UNCHANGED stakedTotal
  BY <1>2, <1>3, TriggerPaysSdk
<1>5. insurance' = [insurance EXCEPT !.policies = Marked(i),
                                     !.claim = <<p, Count + 1>>]
  BY <1>2 DEF TriggerPays
<1>6. p \in Nat /\ p \in 1 .. MaxPolicies /\ Count + 1 \in 1 .. MaxAttestations
  BY <1>1, <1>2, <1>4, MockAssumption DEF Copy
<1>7. PICK marked : marked = Marked(i)
  OBVIOUS
<1>8. /\ marked \in Seq(Copy) /\ DOMAIN marked = DOMAIN copies
      /\ \A j \in DOMAIN copies : j # i => marked[j] = copies[j]
      /\ marked[i].id = copies[i].id /\ marked[i].status = "Claimed"
  BY <1>1, <1>7, CopyMarked DEF Marked
<1>9. PICK claim \in (1 .. MaxPolicies) \X (1 .. MaxAttestations) :
         insurance' = [insurance EXCEPT !.policies = marked, !.claim = claim]
  BY <1>5, <1>6, <1>7
<1>10. /\ insurance' \in [score: 0 .. 101, policies: Seq(Copy),
                          claim: {<<>>} \cup
                             ((1 .. MaxPolicies) \X (1 .. MaxAttestations))]
       /\ insurance'.policies = marked
  BY <1>8, <1>9 DEF CoverInv
<1>11. PaidIfClaimed'
  <2>1. /\ Submitted(Count + 1).name # "ClaimPaid"
        /\ Paid(p).name = "ClaimPaid" /\ Paid(p).id = p
    BY DEF Submitted, Paid
  <2>2. log \in Seq(Event)
    BY DEF SdkInv, IInv, FeedsOK
  <2>3. /\ Payouts(p)' = Payouts(p) + 1
        /\ \A q \in Nat : q # p => Payouts(q)' = Payouts(q)
    BY <1>4, <2>1, <2>2, PaidByTrigger
  <2>4. Payouts(p) = 0
    BY <1>1, <1>2, <1>6 DEF CoverInv, PaidIfClaimed, CopiesTell
  <2>5. SUFFICES ASSUME NEW q \in Nat
                 PROVE  Payouts(q)' =
                           IF q \in PolicyIds' /\ policies'[q].status = "Claimed"
                           THEN 1 ELSE 0
    BY DEF PaidIfClaimed
  <2>6. CASE q = p
    BY <1>4, <2>3, <2>4, <2>6
  <2>7. CASE q # p
    BY <1>4, <2>3, <2>7 DEF CoverInv, PaidIfClaimed
  <2>8. QED
    BY <2>6, <2>7
<1>12. CopiesTell'
  <2>1. /\ \A j \in DOMAIN copies :
              /\ copies[j].id \in PolicyIds
              /\ copies[j].status = "Claimed"
                    <=> policies[copies[j].id].status = "Claimed"
        /\ \A j, k \in DOMAIN copies : j # k => copies[j].id # copies[k].id
    BY DEF CoverInv, CopiesTell
  <2> HIDE DEF copies
  <2>2. \A j \in DOMAIN copies : marked[j].id = copies[j].id
    BY <1>8
  <2>3. \A j \in DOMAIN copies : marked[j].id \in PolicyIds'
    BY <1>4, <2>1, <2>2
  <2>4. \A j \in DOMAIN copies :
           marked[j].status = "Claimed"
              <=> policies'[marked[j].id].status = "Claimed"
    <3>1. \A j \in DOMAIN copies : j # i => copies[j].id # p
      BY <1>2, <2>1 DEF copies
    <3>2. marked[i].id = p
      BY <1>2, <1>8
    <3>3. QED
      BY <1>4, <1>8, <2>1, <3>1, <3>2
  <2>5. \A j, k \in DOMAIN copies : j # k => marked[j].id # marked[k].id
    BY <2>1, <2>2
  <2>6. QED
    BY <1>8, <1>10, <2>3, <2>4, <2>5 DEF CopiesTell
<1>13. QED
  BY <1>4, <1>10, <1>11, <1>12 DEF CoverInv

(* A trigger that is refused: policy and copy stay unclaimed.              *)
LEMMA RefuseCover ==
    ASSUME SdkInv, CoverInv, NEW i \in DOMAIN insurance.policies,
           NEW now \in Times, TriggerRefused(i, now)
    PROVE  SdkInv' /\ CoverInv' /\ OnlyAdded /\ stakedTotal' = stakedTotal
<1> DEFINE copies == insurance.policies
<1>1. copies \in Seq(Copy) /\ copies[i] \in Copy /\ copies[i].status = "Active"
  BY DEF CoverInv, TriggerRefused, TriggerOffered
<1>2. PICK p \in PolicyIds : p = copies[i].id
  BY DEF CoverInv, CopiesTell
<1>3. PICK covered \in BuyableTriggers : covered = copies[i].covered
  BY <1>1 DEF Copy
<1>4. /\ SdkInv' /\ OnlyAdded
      /\ PolicyIds' = PolicyIds
      /\ \A q \in PolicyIds : q # p => policies'[q] = policies[q]
      /\ policies'[p].status = "Expired"
      /\ log' = Append(log, Submitted(Count + 1))
      /\ Submitted(Count + 1) \in Event
      /\ UNCHANGED stakedTotal
  BY <1>2, <1>3, TriggerRefusedSdk
<1>5. insurance' = insurance
  BY DEF TriggerRefused
<1>6. NonePaid
  BY <1>4, NoneIsPaid DEF Emitted, SdkInv, IInv, FeedsOK, Submitted
<1>7. policies[p].status # "Claimed"
  BY <1>1, <1>2 DEF CoverInv, CopiesTell
<1>8. \A q \in PolicyIds :
         policies'[q].status = "Claimed" <=> policies[q].status = "Claimed"
  BY <1>4, <1>7
<1>9. PaidIfClaimed'
  <2>1. \A q \in Nat : Payouts(q)' = Payouts(q)
    BY <1>6 DEF NonePaid, Payouts
  <2>2. QED
    BY <1>4, <1>8, <2>1 DEF CoverInv, PaidIfClaimed
<1>10. CopiesTell'
  BY <1>4, <1>5, <1>8 DEF CoverInv, CopiesTell
<1>11. QED
  BY <1>4, <1>5, <1>9, <1>10 DEF CoverInv

(* All the buttons of the page.                                            *)
LEMMA InsuranceCover ==
    ASSUME SdkInv, CoverInv, InsuranceStep
    PROVE  SdkInv' /\ CoverInv' /\ OnlyAdded /\ stakedTotal' = stakedTotal
<1>1. CASE \E seed \in Seeds : ScoreAddress(seed)
  <2>1. UNCHANGED sdkVars
    BY <1>1 DEF ScoreAddress
  <2>2. SdkInv' /\ OnlyAdded /\ stakedTotal' = stakedTotal
    BY <2>1 DEF sdkVars, vars, SdkInv, IInv, StoreOK, FeedsOK, Count, Ids,
                OnlyAdded
  <2>3. QED
    BY <1>1, <2>2, ScoreCover
<1>2. CASE \E covered \in BuyableTriggers : BuyPolicy(covered)
  BY <1>2, BuyCover DEF OnlyAdded, Ids, Count
<1>3. QED
  BY <1>1, <1>2, PayCover, RefuseCover DEF InsuranceStep

(* It gives the type of the page's state, and that policies are paid once. *)
LEMMA CoverTold == SdkInv /\ CoverInv => InsuranceTypeOK /\ PoliciesPaidOnce
<1> SUFFICES ASSUME SdkInv, CoverInv
             PROVE  InsuranceTypeOK /\ PoliciesPaidOnce
  OBVIOUS
<1>1. InsuranceTypeOK
  BY DEF CoverInv, InsuranceTypeOK, Copy
<1>2. \A p \in PolicyIds : p \in Nat
  BY DEF PolicyIds
<1>3. \A p \in PolicyIds : Payouts(p) <= 1
  BY <1>2 DEF CoverInv, PaidIfClaimed
<1>4. QED
  BY <1>1, <1>3 DEF CoverInv, CopiesTell, PoliciesPaidOnce
-----------------------------------------------------------------------------
(* The assessment page.                                                    *)

(* There are fifteen factors.                                              *)
LEMMA FifteenFactors == Len(Factors) = 15 /\ FactorIds = 1 .. 15
BY DEF Factors, FactorIds

(* There are factors, and they are numbered.                               *)
LEMMA FactorsNumbered ==
    Len(Factors) \in Nat \ {0} /\ FactorIds = 1 .. Len(Factors)
BY FifteenFactors

(* The pipeline a after n scans: the factors before are done, the next one *)
(* is being scanned while the scan timer runs, the others are pending.     *)
PipelineAt(a, n) ==
    /\ \A k \in FactorIds :
          a.steps[k] = IF k <= n THEN "done"
                       ELSE IF k = n + 1 /\ a.timer = "scan" THEN "scanning"
                       ELSE "pending"
    /\ a.timer = "collect" => n = 0
    /\ a.timer = "scan" => n < Len(Factors)
    /\ a.timer = "reveal" \/ a.phase = "summary" => n = Len(Factors)
    /\ a.timer # "none" \/ a.phase = "summary" => a.seed \in Seeds

AnalysisInv ==
    /\ AssessmentTypeOK
    /\ \E n \in 0 .. Len(Factors) : PipelineAt(assessment, n)

(* The steps done are those scanned so far, and the current step is next.  *)
LEMMA ScannedSoFar ==
    ASSUME NEW n \in 0 .. Len(Factors), PipelineAt(assessment, n)
    PROVE  /\ DoneSteps = 1 .. n
           /\ n < Len(Factors) => Current = n + 1
           /\ AllScanned <=> n = Len(Factors)
<1>1. Len(Factors) \in Nat /\ FactorIds = 1 .. Len(Factors) /\ n \in Nat
      /\ n <= Len(Factors)
  BY FactorsNumbered
<1>2. DoneSteps = 1 .. n
  <2>1. \A k \in FactorIds : assessment.steps[k] = "done" <=> k <= n
    BY DEF PipelineAt
  <2>2. QED
    BY <1>1, <2>1 DEF DoneSteps
<1>3. ASSUME n < Len(Factors)
      PROVE  Current = n + 1
  <2>1. n + 1 \in FactorIds \ DoneSteps /\ 1 .. (n + 1) - 1 \subseteq DoneSteps
    BY <1>1, <1>2, <1>3
  <2>2. \A k \in FactorIds \ DoneSteps :
           1 .. k - 1 \subseteq DoneSteps => k = n + 1
    <3>1. SUFFICES ASSUME NEW k \in FactorIds \ DoneSteps, k # n + 1
                   PROVE  ~ (1 .. k - 1 \subseteq DoneSteps)
      OBVIOUS
    <3>2. n + 1 \in 1 .. k - 1 /\ n + 1 \notin DoneSteps
      BY <1>1, <1>2, <3>1
    <3>3. QED
      BY <3>2
  <2>3. QED
    BY <2>1, <2>2 DEF Current
<1>4. AllScanned <=> n = Len(Factors)
  BY <1>1, <1>2 DEF AllScanned
<1>5. QED
  BY <1>2, <1>3, <1>4

Assessments ==
    [run: 0 .. MaxRuns, seed: Seeds \cup {"none"}, score: 0 .. 100,
     phase: {"collect", "analyze", "summary"},
     timer: {"none", "collect", "scan", "gap", "reveal"},
     steps: [FactorIds -> {"pending", "scanning", "done"}]]

(* A fresh page has scanned nothing.                                       *)
LEMMA FreshAnalysis ==
    /\ AssessmentFresh \in Assessments
    /\ \E n \in 0 .. Len(Factors) : PipelineAt(AssessmentFresh, n)
<1>1. AssessmentFresh \in Assessments
  BY SharedAssumption DEF AssessmentFresh, Assessments
<1>2. PipelineAt(AssessmentFresh, 0)
  <2>1. \A k \in FactorIds : k \in Nat /\ ~ (k <= 0)
    BY FactorsNumbered
  <2>2. QED
    BY <2>1 DEF AssessmentFresh, PipelineAt
<1>3. 0 \in 0 .. Len(Factors)
  BY FactorsNumbered
<1>4. QED
  BY <1>1, <1>2, <1>3

(* A run starts with nothing scanned, or with reduced motion with all.     *)
LEMMA RunAnalysis ==
    ASSUME AnalysisInv, NEW seed \in Seeds, NEW reducedMotion \in BOOLEAN,
           RunAssessment(seed, reducedMotion)
    PROVE  AnalysisInv'
<1>1. /\ Len(Factors) \in Nat \ {0} /\ FactorIds = 1 .. Len(Factors)
      /\ \A k \in FactorIds : k \in Nat /\ ~ (k <= 0) /\ k <= Len(Factors)
  BY FactorsNumbered
<1>2. /\ assessment.run \in Nat /\ assessment.run < MaxRuns /\ result' = result
      /\ result = <<>> \/ result \in (0 .. 100) \X Jitters
  BY DEF RunAssessment, AnalysisInv, AssessmentTypeOK
<1>3. PICK run \in 0 .. MaxRuns, score \in 0 .. 100 :
         assessment' =
            [run |-> run, seed |-> seed, score |-> score,
             phase |-> IF reducedMotion THEN "summary" ELSE "collect",
             timer |-> IF reducedMotion THEN "none" ELSE "collect",
             steps |-> [k \in FactorIds |->
                          IF reducedMotion THEN "done" ELSE "pending"]]
  <2>1. assessment.run + 1 \in 0 .. MaxRuns /\ RiskScoreOf[seed] \in 0 .. 100
    BY <1>2, SharedAssumption, RiskScoreAssumption
  <2>2. QED
    BY <2>1 DEF RunAssessment
<1>4. assessment' \in Assessments
  BY <1>3 DEF Assessments
<1>5. \E n \in 0 .. Len(Factors) : PipelineAt(assessment', n)
  <2>1. CASE reducedMotion
    <3>1. PipelineAt(assessment', Len(Factors))
      BY <1>1, <1>3, <2>1 DEF PipelineAt
    <3>2. QED
      BY <1>1, <3>1
  <2>2. CASE ~ reducedMotion
    <3>1. PipelineAt(assessment', 0)
      BY <1>1, <1>3, <2>2 DEF PipelineAt
    <3>2. QED
      BY <1>1, <3>1
  <2>3. QED
    BY <2>1, <2>2
<1>6. QED
  BY <1>2, <1>4, <1>5 DEF AnalysisInv, AssessmentTypeOK, Assessments

Timers == {"none", "collect", "scan", "gap", "reveal"}
Progress == {"pending", "scanning", "done"}

(* The pipeline a after a timer that puts step k at v and sets timer t.    *)
Fired(a, k, v, t) == [a EXCEPT !.steps[k] = v, !.timer = t]

(* Nothing else changes.                                                   *)
LEMMA TimerFired ==
    ASSUME NEW a \in Assessments, NEW k \in FactorIds,
           NEW t \in Timers, NEW v \in Progress, NEW b,
           b = Fired(a, k, v, t)
    PROVE  /\ b \in Assessments
           /\ b.timer = t /\ b.phase = a.phase /\ b.seed = a.seed
           /\ b.steps[k] = v
           /\ \A j \in FactorIds : j # k => b.steps[j] = a.steps[j]
<1> DEFINE stepped == [a.steps EXCEPT ![k] = v]
<1>1. /\ stepped \in [FactorIds -> {"pending", "scanning", "done"}]
      /\ stepped[k] = v
      /\ \A j \in FactorIds : j # k => stepped[j] = a.steps[j]
  BY DEF Assessments, Progress
<1>2. b = [a EXCEPT !.steps = stepped, !.timer = t]
  BY DEF Assessments, Fired
<1> HIDE DEF stepped
<1>3. QED
  BY <1>1, <1>2 DEF Assessments, Timers

(* The timers of the pipeline: the first scan begins,                      *)
LEMMA BeginPipeline ==
    ASSUME assessment \in Assessments,
           NEW n \in 0 .. Len(Factors), PipelineAt(assessment, n), BeginAnalysis
    PROVE  /\ assessment' \in Assessments
           /\ \E m \in 0 .. Len(Factors) : PipelineAt(assessment', m)
<1>1. /\ Len(Factors) \in Nat \ {0} /\ FactorIds = 1 .. Len(Factors)
      /\ 1 \in FactorIds /\ n = 0
  BY FactorsNumbered DEF BeginAnalysis, PipelineAt
<1>2. PICK fired : fired = Fired(assessment, 1, "scanning", "scan")
  OBVIOUS
<1>3. /\ fired \in Assessments
      /\ fired.timer = "scan" /\ fired.seed = assessment.seed
      /\ fired.steps[1] = "scanning"
      /\ \A j \in FactorIds : j # 1 => fired.steps[j] = assessment.steps[j]
  <2>1. "scan" \in Timers /\ "scanning" \in Progress
    BY DEF Timers, Progress
  <2>2. QED
    BY <1>1, <1>2, <2>1, TimerFired
<1>4. assessment' = [fired EXCEPT !.phase = "analyze"]
  BY <1>2 DEF BeginAnalysis, Assessments, Fired
<1>5. /\ assessment' \in Assessments
      /\ assessment'.phase = "analyze" /\ assessment'.timer = "scan"
      /\ assessment'.seed = fired.seed /\ assessment'.steps = fired.steps
  BY <1>3, <1>4 DEF Assessments
<1>6. \A j \in FactorIds : j # 1 => assessment.steps[j] = "pending"
  BY <1>1 DEF PipelineAt, BeginAnalysis
<1>7. PipelineAt(assessment', 0)
  <2>1. \A j \in FactorIds :
           assessment'.steps[j] = IF j <= 0 THEN "done"
                                  ELSE IF j = 0 + 1 THEN "scanning"
                                  ELSE "pending"
    BY <1>1, <1>3, <1>5, <1>6
  <2>2. QED
    BY <1>1, <1>3, <1>5, <2>1 DEF PipelineAt, BeginAnalysis
<1>8. QED
  BY <1>1, <1>5, <1>7

(* a scan ends,                                                            *)
LEMMA FinishPipeline ==
    ASSUME assessment \in Assessments,
           NEW n \in 0 .. Len(Factors), PipelineAt(assessment, n), FinishScan
    PROVE  /\ assessment' \in Assessments
           /\ \E m \in 0 .. Len(Factors) : PipelineAt(assessment', m)
<1>1. /\ Len(Factors) \in Nat \ {0} /\ FactorIds = 1 .. Len(Factors)
      /\ n \in Nat /\ n < Len(Factors) /\ Current = n + 1
      /\ n + 1 \in FactorIds /\ n + 1 \in 0 .. Len(Factors)
  BY FactorsNumbered, ScannedSoFar DEF FinishScan, PipelineAt
<1>2. /\ assessment' \in Assessments
      /\ assessment'.timer = "gap" /\ assessment'.phase = assessment.phase
      /\ assessment'.seed = assessment.seed
      /\ assessment'.steps[n + 1] = "done"
      /\ \A j \in FactorIds :
            j # n + 1 => assessment'.steps[j] = assessment.steps[j]
  <2>1. assessment' = Fired(assessment, n + 1, "done", "gap")
    BY <1>1 DEF FinishScan, Fired
  <2>2. "gap" \in Timers /\ "done" \in Progress
    BY DEF Timers, Progress
  <2>3. QED
    BY <1>1, <2>1, <2>2, TimerFired
<1>3. \A j \in FactorIds :
         assessment'.steps[j] = IF j <= n + 1 THEN "done" ELSE "pending"
  <2>1. SUFFICES ASSUME NEW j \in FactorIds
                 PROVE  assessment'.steps[j]
                           = IF j <= n + 1 THEN "done" ELSE "pending"
    OBVIOUS
  <2>2. j \in Nat /\ (j # n + 1 => (j <= n + 1 <=> j <= n))
    BY <1>1
  <2>3. QED
    BY <1>1, <1>2, <2>2 DEF PipelineAt
<1>4. assessment.phase # "summary" /\ assessment.seed \in Seeds
  BY <1>1 DEF PipelineAt, FinishScan
<1>5. PipelineAt(assessment', n + 1)
  BY <1>2, <1>3, <1>4 DEF PipelineAt
<1>6. QED
  BY <1>1, <1>2, <1>5

(* the next one begins, or all are done,                                   *)
LEMMA NextPipeline ==
    ASSUME assessment \in Assessments,
           NEW n \in 0 .. Len(Factors), PipelineAt(assessment, n), NextStep
    PROVE  /\ assessment' \in Assessments
           /\ \E m \in 0 .. Len(Factors) : PipelineAt(assessment', m)
<1>1. /\ Len(Factors) \in Nat \ {0} /\ FactorIds = 1 .. Len(Factors)
      /\ n \in Nat /\ n <= Len(Factors)
      /\ n < Len(Factors) => Current = n + 1
      /\ AllScanned <=> n = Len(Factors)
  BY FactorsNumbered, ScannedSoFar
<1>2. assessment.timer = "gap" /\ assessment.seed \in Seeds
  BY DEF NextStep, PipelineAt
<1>3. CASE AllScanned
  <2>1. assessment' = [assessment EXCEPT !.timer = "reveal"]
    BY <1>3 DEF NextStep
  <2>2. /\ assessment' \in Assessments /\ assessment'.timer = "reveal"
        /\ assessment'.seed = assessment.seed
        /\ assessment'.steps = assessment.steps
        /\ assessment'.phase = assessment.phase
    BY <2>1 DEF Assessments
  <2>3. PipelineAt(assessment', n)
    BY <1>1, <1>2, <1>3, <2>2 DEF PipelineAt
  <2>4. QED
    BY <2>2, <2>3
<1>4. CASE ~ AllScanned
  <2>1. n + 1 \in FactorIds /\ n < Len(Factors) /\ Current = n + 1
    BY <1>1, <1>4
  <2>2. assessment' = Fired(assessment, n + 1, "scanning", "scan")
    BY <1>4, <2>1 DEF NextStep, Fired
  <2>3. /\ assessment' \in Assessments
        /\ assessment'.timer = "scan" /\ assessment'.phase = assessment.phase
        /\ assessment'.seed = assessment.seed
        /\ assessment'.steps[n + 1] = "scanning"
        /\ \A j \in FactorIds :
              j # n + 1 => assessment'.steps[j] = assessment.steps[j]
    <3>1. "scan" \in Timers /\ "scanning" \in Progress
      BY DEF Timers, Progress
    <3>2. QED
      BY <2>1, <2>2, <3>1, TimerFired
  <2>4. ~ (n + 1 <= n)
    BY <1>1
  <2>5. PipelineAt(assessment', n)
    BY <1>1, <1>2, <2>1, <2>3, <2>4 DEF PipelineAt
  <2>6. QED
    BY <2>3, <2>5
<1>5. QED
  BY <1>3, <1>4

(* and the summary is revealed.                                            *)
LEMMA RevealPipeline ==
    ASSUME assessment \in Assessments,
           NEW n \in 0 .. Len(Factors), PipelineAt(assessment, n), Reveal
    PROVE  /\ assessment' \in Assessments
           /\ \E m \in 0 .. Len(Factors) : PipelineAt(assessment', m)
<1>1. /\ assessment.timer = "reveal"
      /\ assessment' = [assessment EXCEPT !.phase = "summary", !.timer = "none"]
  BY DEF Reveal
<1>2. /\ assessment' \in Assessments
      /\ assessment'.timer = "none" /\ assessment'.phase = "summary"
      /\ assessment'.seed = assessment.seed
      /\ assessment'.steps = assessment.steps
  BY <1>1 DEF Assessments
<1>3. PipelineAt(assessment', n)
  BY <1>1, <1>2 DEF PipelineAt
<1>4. QED
  BY <1>2, <1>3

(* All the steps of the page.                                              *)
LEMMA AssessmentAnalysis ==
    ASSUME AnalysisInv, AssessmentStep
    PROVE  AnalysisInv'
<1>1. CASE PipelineTimer
  <2>1. PICK n \in 0 .. Len(Factors) : PipelineAt(assessment, n)
    BY DEF AnalysisInv
  <2>2. /\ assessment \in Assessments /\ result' = result
        /\ result = <<>> \/ result \in (0 .. 100) \X Jitters
    BY <1>1 DEF AnalysisInv, AssessmentTypeOK, Assessments, PipelineTimer,
                BeginAnalysis, FinishScan, NextStep, Reveal
  <2>3. /\ assessment' \in Assessments
        /\ \E n1 \in 0 .. Len(Factors) : PipelineAt(assessment', n1)
    BY <1>1, <2>1, <2>2, BeginPipeline, FinishPipeline, NextPipeline,
       RevealPipeline DEF PipelineTimer
  <2>4. QED
    BY <2>2, <2>3 DEF AnalysisInv, AssessmentTypeOK, Assessments
<1>2. QED
  BY <1>1, RunAnalysis DEF AssessmentStep

(* The pipeline is where the user sees it: a summary comes last, and no    *)
(* factor is touched before those above it are done.                       *)
LEMMA AnalysisTold == AnalysisInv => SummaryComplete
<1> SUFFICES ASSUME AnalysisInv
             PROVE  SummaryComplete
  OBVIOUS
<1>1. PICK n \in 0 .. Len(Factors) : PipelineAt(assessment, n)
  BY DEF AnalysisInv
<1>2. DoneSteps = 1 .. n /\ (AllScanned <=> n = Len(Factors))
  BY <1>1, ScannedSoFar
<1>3. assessment.phase = "summary" => AllScanned
  BY <1>1, <1>2 DEF PipelineAt
<1>4. ASSUME NEW k \in FactorIds, assessment.steps[k] # "pending"
      PROVE  1 .. k - 1 \subseteq DoneSteps
  <2>1. k \in Nat /\ n \in Nat
    BY FactorsNumbered
  <2>2. k <= n \/ k = n + 1
    BY <1>1, <1>4 DEF PipelineAt
  <2>3. QED
    BY <1>2, <2>1, <2>2
<1>5. QED
  BY <1>3, <1>4 DEF SummaryComplete
-----------------------------------------------------------------------------
(* Weighted sums of the factors.                                           *)

(* The weighted sum of the factors, written out.                           *)
LEMMA SumWritten ==
    ASSUME NEW v \in [FactorIds -> Int], NEW w \in [FactorIds -> Int]
    PROVE  Sum(v, w) =
             v[1] * w[1] + v[2] * w[2] + v[3] * w[3] + v[4] * w[4]
             + v[5] * w[5] + v[6] * w[6] + v[7] * w[7] + v[8] * w[8]
             + v[9] * w[9] + v[10] * w[10] + v[11] * w[11] + v[12] * w[12]
             + v[13] * w[13] + v[14] * w[14] + v[15] * w[15]
<1> DEFINE f == [i \in 0 .. 14 |-> v[i + 1] * w[i + 1]]
<1>1. Sum(v, w) = Total(f, 15)
  <2>1. 15 - 1 = 14
    OBVIOUS
  <2>2. QED
    BY <2>1, FifteenFactors DEF Sum
<1>2. \A i \in 0 .. 14 : f[i] = v[i + 1] * w[i + 1]
  OBVIOUS
<1>3. \A i \in 0 .. 14 : f[i] \in Int
  BY <1>2, FifteenFactors
<1> HIDE DEF f
<1>4. /\ f[0] = v[1] * w[1] /\ f[1] = v[2] * w[2] /\ f[2] = v[3] * w[3]
      /\ f[3] = v[4] * w[4] /\ f[4] = v[5] * w[5] /\ f[5] = v[6] * w[6]
      /\ f[6] = v[7] * w[7] /\ f[7] = v[8] * w[8] /\ f[8] = v[9] * w[9]
      /\ f[9] = v[10] * w[10] /\ f[10] = v[11] * w[11]
      /\ f[11] = v[12] * w[12] /\ f[12] = v[13] * w[13]
      /\ f[13] = v[14] * w[14] /\ f[14] = v[15] * w[15]
  BY <1>2
<1>5. \A n \in 0 .. 14 : Total(f, n + 1) = Total(f, n) + f[n]
  BY TotalStep
<1>6. /\ Total(f, 1) = Total(f, 0) + f[0]
      /\ Total(f, 2) = Total(f, 1) + f[1]
      /\ Total(f, 3) = Total(f, 2) + f[2]
      /\ Total(f, 4) = Total(f, 3) + f[3]
      /\ Total(f, 5) = Total(f, 4) + f[4]
      /\ Total(f, 6) = Total(f, 5) + f[5]
      /\ Total(f, 7) = Total(f, 6) + f[6]
      /\ Total(f, 8) = Total(f, 7) + f[7]
      /\ Total(f, 9) = Total(f, 8) + f[8]
      /\ Total(f, 10) = Total(f, 9) + f[9]
      /\ Total(f, 11) = Total(f, 10) + f[10]
      /\ Total(f, 12) = Total(f, 11) + f[11]
      /\ Total(f, 13) = Total(f, 12) + f[12]
      /\ Total(f, 14) = Total(f, 13) + f[13]
      /\ Total(f, 15) = Total(f, 14) + f[14]
  BY <1>5
<1>7. Total(f, 0) = 0
  BY TotalZero
<1>8. Total(f, 15) = f[0] + f[1] + f[2] + f[3] + f[4] + f[5] + f[6] + f[7]
                     + f[8] + f[9] + f[10] + f[11] + f[12] + f[13] + f[14]
  BY <1>3, <1>6, <1>7
<1>9. QED
  BY <1>1, <1>4, <1>8

(* The weights, written out.                                               *)
LEMMA WeightsWritten ==
    /\ Factors[1].weight = 5 /\ Factors[2].weight = 5
    /\ Factors[3].weight = 9 /\ Factors[4].weight = 9
    /\ Factors[5].weight = 8 /\ Factors[6].weight = 6
    /\ Factors[7].weight = 7 /\ Factors[8].weight = 10
    /\ Factors[9].weight = 6 /\ Factors[10].weight = 4
    /\ Factors[11].weight = 4 /\ Factors[12].weight = 4
    /\ Factors[13].weight = 10 /\ Factors[14].weight = 8
    /\ Factors[15].weight = 5
BY DEF Factors, Factor

(* The terms of a weighted sum.                                            *)
Share(ids, i) == IF i \in ids THEN Factors[i].weight ELSE 0
Terms(v, ids) == [i \in 0 .. 14 |-> v[i + 1] * Share(ids, i + 1)]

(* The weights are positive, and a weighted sum is the sum of its terms.   *)
LEMMA WeightedTerms ==
    /\ \A i \in FactorIds : Factors[i].weight \in Nat \ {0}
    /\ \A ids, i : i \in FactorIds => Share(ids, i) \in Nat
    /\ \A v, ids : Weighted(v, ids) = Total(Terms(v, ids), 15)
<1>1. \A i \in FactorIds : Factors[i].weight \in Nat \ {0}
  BY FifteenFactors, WeightsWritten
<1>2. ASSUME NEW v, NEW ids
      PROVE  Weighted(v, ids) = Total(Terms(v, ids), 15)
  <2> DEFINE w == [i \in FactorIds |-> Share(ids, i)]
  <2>1. Weighted(v, ids) = Sum(v, w)
    BY DEF Weighted, Share
  <2>2. \A i \in 0 .. 14 : w[i + 1] = Share(ids, i + 1)
    BY FifteenFactors
  <2> HIDE DEF w
  <2>3. [i \in 0 .. 14 |-> v[i + 1] * w[i + 1]] = Terms(v, ids)
    BY <2>2 DEF Terms
  <2>4. QED
    BY <2>1, <2>3, FifteenFactors DEF Sum
<1>3. QED
  BY <1>1, <1>2 DEF Share

(* A weighted sum of integers is an integer.                               *)
LEMMA WeightedInt ==
    ASSUME NEW v \in [FactorIds -> Int], NEW ids
    PROVE  Weighted(v, ids) \in Int
<1>1. \A i \in 0 .. 14 : Terms(v, ids)[i] \in Int
  <2> TAKE i \in 0 .. 14
  <2>1. i + 1 \in FactorIds
    BY FifteenFactors
  <2>2. v[i + 1] \in Int /\ Share(ids, i + 1) \in Int
    BY <2>1, WeightedTerms
  <2>3. QED
    BY <2>2 DEF Terms
<1>2. QED
  BY <1>1, TotalInt, WeightedTerms

(* Larger values have a larger weighted sum.                               *)
LEMMA WeightedMonotone ==
    ASSUME NEW x \in [FactorIds -> Int], NEW y \in [FactorIds -> Int],
           NEW ids, \A i \in FactorIds : i \in ids => x[i] <= y[i]
    PROVE  Weighted(x, ids) <= Weighted(y, ids)
<1>1. ASSUME NEW i \in 0 .. 14
      PROVE  /\ Terms(x, ids)[i] \in Int /\ Terms(y, ids)[i] \in Int
             /\ Terms(x, ids)[i] <= Terms(y, ids)[i]
  <2>1. i + 1 \in FactorIds
    BY FifteenFactors
  <2>2. PICK a \in Int, b \in Int, s \in Nat :
           a = x[i + 1] /\ b = y[i + 1] /\ s = Share(ids, i + 1)
    BY <2>1, WeightedTerms
  <2>3. Terms(x, ids)[i] = a * s /\ Terms(y, ids)[i] = b * s
    BY <2>2 DEF Terms
  <2>4. a <= b \/ s = 0
    BY <2>1, <2>2 DEF Share
  <2>5. a * s <= b * s
    BY <2>4
  <2>6. QED
    BY <2>3, <2>5
<1>2. QED
  BY <1>1, TotalMonotone, WeightedTerms

(* x is the linear combination of y and c times u, factor by factor.       *)
Combines(x, y, u, c) == \A i \in FactorIds : x[i] = y[i] + u[i] * c

(* The weighted sum of a linear combination.                               *)
LEMMA WeightedLinear ==
    ASSUME NEW x \in [FactorIds -> Int], NEW y \in [FactorIds -> Int],
           NEW u \in [FactorIds -> Int], NEW c \in Int, NEW ids,
           Combines(x, y, u, c)
    PROVE  Weighted(x, ids) = Weighted(y, ids) + Weighted(u, ids) * c
<1>1. ASSUME NEW i \in 0 .. 14
      PROVE  /\ Terms(y, ids)[i] \in Int /\ Terms(u, ids)[i] \in Int
             /\ Terms(x, ids)[i] = Terms(y, ids)[i] + Terms(u, ids)[i] * c
  <2>1. i + 1 \in FactorIds
    BY FifteenFactors
  <2>2. PICK a \in Int, b \in Int, s \in Int :
           a = y[i + 1] /\ b = u[i + 1] /\ s = Share(ids, i + 1)
    BY <2>1, WeightedTerms
  <2>3. /\ Terms(y, ids)[i] = a * s /\ Terms(u, ids)[i] = b * s
        /\ Terms(x, ids)[i] = (a + b * c) * s
    BY <2>1, <2>2 DEF Terms, Combines
  <2>4. (a + b * c) * s = a * s + (b * s) * c
    OBVIOUS
  <2>5. QED
    BY <2>3, <2>4
<1> DEFINE f == Terms(x, ids)
           g == Terms(y, ids)
           h == Terms(u, ids)
<1>2. \A i \in 0 .. 15 - 1 :
         g[i] \in Int /\ h[i] \in Int /\ f[i] = g[i] + h[i] * c
  BY <1>1
<1>3. /\ Weighted(x, ids) = Total(f, 15) /\ Weighted(y, ids) = Total(g, 15)
      /\ Weighted(u, ids) = Total(h, 15)
  BY WeightedTerms
<1> HIDE DEF f, g, h
<1>4. Total(f, 15) = Total(g, 15) + Total(h, 15) * c
  <2> DEFINE Linear(n, i) ==
               g[i] \in Int /\ h[i] \in Int /\ f[i] = g[i] + h[i] * c
             Equal(n) == Total(f, n) = Total(g, n) + Total(h, n) * c
  <2>1. \A n \in Nat : (\A i \in 0 .. n - 1 : Linear(n, i)) => Equal(n)
    BY TotalLinear
  <2>2. \A i \in 0 .. 15 - 1 : Linear(15, i)
    BY <1>2
  <2> HIDE DEF Linear, Equal
  <2>3. Equal(15)
    BY <2>1, <2>2
  <2>4. QED
    BY <2>3 DEF Equal
<1>5. QED
  BY <1>3, <1>4

(* The group of each factor.                                               *)
LEMMA FactorGroups ==
    /\ Factors[1].group = "TRANSACTION" /\ Factors[2].group = "TRANSACTION"
    /\ Factors[3].group = "TRANSACTION" /\ Factors[4].group = "PROTOCOL"
    /\ Factors[5].group = "PROTOCOL" /\ Factors[6].group = "PROTOCOL"
    /\ Factors[7].group = "PROTOCOL" /\ Factors[8].group = "SECURITY"
    /\ Factors[9].group = "SECURITY" /\ Factors[10].group = "SECURITY"
    /\ Factors[11].group = "SECURITY" /\ Factors[12].group = "IDENTITY"
    /\ Factors[13].group = "IDENTITY" /\ Factors[14].group = "IDENTITY"
    /\ Factors[15].group = "IDENTITY"
BY DEF Factors, Factor

(* The weights sum to a hundred, all of them and those of the groups.      *)
LEMMA HundredPercent ==
    /\ Weighted([i \in FactorIds |-> 1], FactorIds) = 100
    /\ GroupWeight("TRANSACTION") = 19 /\ GroupWeight("PROTOCOL") = 30
    /\ GroupWeight("SECURITY") = 24 /\ GroupWeight("IDENTITY") = 27
<1> DEFINE ones == [i \in FactorIds |-> 1]
<1>1. ones \in [FactorIds -> Int] /\ \A i \in 1 .. 15 : ones[i] = 1
  BY FifteenFactors
<1>2. ASSUME NEW ids
      PROVE  Weighted(ones, ids) =
               Share(ids, 1) + Share(ids, 2) + Share(ids, 3) + Share(ids, 4)
               + Share(ids, 5) + Share(ids, 6) + Share(ids, 7)
               + Share(ids, 8) + Share(ids, 9) + Share(ids, 10)
               + Share(ids, 11) + Share(ids, 12) + Share(ids, 13)
               + Share(ids, 14) + Share(ids, 15)
  <2> DEFINE w == [i \in FactorIds |-> Share(ids, i)]
  <2>1. Weighted(ones, ids) = Sum(ones, w)
    BY DEF Weighted, Share
  <2>2. w \in [FactorIds -> Int] /\ \A i \in 1 .. 15 : w[i] = Share(ids, i)
    BY WeightedTerms, FifteenFactors
  <2> HIDE DEF w, ones
  <2>3. \A i \in 1 .. 15 : ones[i] * w[i] = Share(ids, i)
    <3> TAKE i \in 1 .. 15
    <3>1. ones[i] = 1 /\ w[i] \in Int /\ w[i] = Share(ids, i)
      BY <1>1, <2>2, FifteenFactors
    <3>2. QED
      BY <3>1
  <2>4. QED
    BY <1>1, <2>1, <2>2, <2>3, SumWritten
<1> HIDE DEF ones
<1>3. Weighted(ones, FactorIds) = 100
  <2>1. \A i \in 1 .. 15 : Share(FactorIds, i) = Factors[i].weight
    BY FifteenFactors DEF Share
  <2>2. QED
    BY <1>2, <2>1, WeightsWritten
<1>4. ASSUME NEW group
      PROVE  GroupWeight(group) = Weighted(ones, InGroup(group))
  BY DEF GroupWeight, ones
<1>5. ASSUME NEW group, NEW i \in 1 .. 15
      PROVE  Share(InGroup(group), i) =
               IF Factors[i].group = group THEN Factors[i].weight ELSE 0
  BY FifteenFactors DEF Share, InGroup
<1>6. GroupWeight("TRANSACTION") = 19
  BY <1>2, <1>4, <1>5, FactorGroups, WeightsWritten
<1>7. GroupWeight("PROTOCOL") = 30
  BY <1>2, <1>4, <1>5, FactorGroups, WeightsWritten
<1>8. GroupWeight("SECURITY") = 24
  BY <1>2, <1>4, <1>5, FactorGroups, WeightsWritten
<1>9. GroupWeight("IDENTITY") = 27
  BY <1>2, <1>4, <1>5, FactorGroups, WeightsWritten
<1>10. QED
  BY <1>3, <1>6, <1>7, <1>8, <1>9 DEF ones

(* x is at most y lowered by c, except where u is 1 and it may stay.        *)
Shifted(x, y, u, c) == \A i \in FactorIds : x[i] <= y[i] - c + u[i] * c

(* Such a factor-wise bound bounds the weighted sums, which a shift of     *)
(* every factor moves by a hundred times as much.                          *)
LEMMA WeightedShift ==
    ASSUME NEW x \in [FactorIds -> Int], NEW y \in [FactorIds -> Int],
           NEW u \in [FactorIds -> Int], NEW c \in Int,
           Shifted(x, y, u, c)
    PROVE  Weighted(x, FactorIds)
             <= Weighted(y, FactorIds) - 100 * c + Weighted(u, FactorIds) * c
<1> DEFINE ones == [i \in FactorIds |-> 1]
           less == [i \in FactorIds |-> u[i] - 1]
           z == [i \in FactorIds |-> y[i] + less[i] * c]
<1>1. /\ ones \in [FactorIds -> Int] /\ less \in [FactorIds -> Int]
      /\ Combines(less, u, ones, -1)
  BY DEF Combines
<1>2. z \in [FactorIds -> Int] /\ Combines(z, y, less, c)
  <2> HIDE DEF less
  <2>1. \A i \in FactorIds : y[i] + less[i] * c \in Int
    BY <1>1
  <2>2. QED
    BY <2>1 DEF Combines
<1>3. \A i \in FactorIds : x[i] <= z[i]
  <2> TAKE i \in FactorIds
  <2>1. PICK a \in Int, b \in Int, e \in Int :
           a = x[i] /\ b = y[i] /\ e = u[i]
    OBVIOUS
  <2>2. z[i] = b + (e - 1) * c
    BY <2>1
  <2>3. a <= b - c + e * c /\ (e - 1) * c = e * c - c
    BY <2>1 DEF Shifted
  <2>4. QED
    BY <2>1, <2>2, <2>3
<1>4. Weighted(ones, FactorIds) = 100
  BY HundredPercent
<1> HIDE DEF ones, less, z
<1>5. Weighted(x, FactorIds) <= Weighted(z, FactorIds)
  BY <1>2, <1>3, WeightedMonotone
<1>6. Weighted(less, FactorIds) = Weighted(u, FactorIds) + 100 * (-1)
  BY <1>1, <1>4, WeightedLinear
<1>7. Weighted(z, FactorIds)
        = Weighted(y, FactorIds) + Weighted(less, FactorIds) * c
  BY <1>1, <1>2, WeightedLinear
<1>8. PICK a \in Int, b \in Int, e \in Int, k \in Int :
         /\ a = Weighted(x, FactorIds) /\ b = Weighted(y, FactorIds)
         /\ e = Weighted(u, FactorIds) /\ k = Weighted(z, FactorIds)
  BY <1>2, WeightedInt
<1>9. (e - 100) * c = e * c - 100 * c
  OBVIOUS
<1>10. k = b + (e - 100) * c
  BY <1>6, <1>7, <1>8
<1>11. QED
  BY <1>5, <1>8, <1>9, <1>10
-----------------------------------------------------------------------------
(* How far the passes get.                                                 *)

(* What remains after six passes of a deviation d0 in which, at every      *)
(* pass, factors of weight z at most are stuck at their end of the scale   *)
(* and keep that part of it: the more weight is stuck the slower, but the  *)
(* less is there to remove, none of the other factors having been further  *)
(* than the jitter from the target t.                                      *)
LEMMA Residual ==
    ASSUME NEW z \in Nat, z <= 100, NEW t \in Nat,
           NEW d0 \in Nat, NEW d1 \in Nat, NEW d2 \in Nat, NEW d3 \in Nat,
           NEW d4 \in Nat, NEW d5 \in Nat, NEW d6 \in Nat,
           100 * d1 <= 198 + z * d0, 100 * d2 <= 198 + z * d1,
           100 * d3 <= 198 + z * d2, 100 * d4 <= 198 + z * d3,
           100 * d5 <= 198 + z * d4, 100 * d6 <= 198 + z * d5,
           100000 * t + 100 * d6
             <= 99 + (100 - z) * (1000 * t + 22000
                                  - (d0 + d1 + d2 + d3 + d4 + d5))
    PROVE  d6 <= 1500 /\ (t >= 25 => d6 < 50)
<1> DEFINE sum == d0 + d1 + d2 + d3 + d4 + d5
<1>1. ASSUME NEW low \in Nat, NEW high \in Nat, low <= z, z <= high,
             high <= 100
      PROVE  /\ z * d0 <= high * d0 /\ z * d1 <= high * d1
             /\ z * d2 <= high * d2 /\ z * d3 <= high * d3
             /\ z * d4 <= high * d4 /\ z * d5 <= high * d5
             /\ 100 * d6 + (100 - high) * sum
                  <= 99 + 2200000 - 22000 * low - (low * t) * 1000
  <2>1. \A n \in Nat : z * n <= high * n
    BY <1>1
  <2>2. low * t <= z * t
    BY <1>1
  <2>3. PICK s \in Nat : s = sum
    OBVIOUS
  <2>4. (100 - high) * s <= (100 - z) * s
    BY <1>1
  <2>5. (100 - z) * (1000 * t + 22000 - s)
          = 100000 * t - (z * t) * 1000 + 2200000 - 22000 * z - (100 - z) * s
    OBVIOUS
  <2>6. 100000 * t + 100 * d6 <= 99 + (100 - z) * (1000 * t + 22000 - s)
    BY <2>3
  <2>7. 100 * d6 + (100 - high) * s
          <= 99 + 2200000 - 22000 * low - (low * t) * 1000
    <3>1. z * t \in Nat /\ low * t \in Nat /\ (100 - z) * s \in Int
          /\ (100 - high) * s \in Int
          /\ (100 - z) * (1000 * t + 22000 - s) \in Int
      OBVIOUS
    <3>2. QED
      BY <1>1, <2>2, <2>4, <2>5, <2>6, <3>1
  <2>8. QED
    BY <2>1, <2>3, <2>7
<1> HIDE DEF sum
<1>2. sum \in Nat /\ sum = d0 + d1 + d2 + d3 + d4 + d5
  BY DEF sum
<1>3. z >= 0 /\ z <= 60 => d6 <= 1500
  BY <1>1, <1>2
<1>4. z >= 60 /\ z <= 70 => d6 <= 1500
  BY <1>1, <1>2
<1>5. z >= 70 /\ z <= 76 => d6 <= 1500
  BY <1>1, <1>2
<1>6. z >= 76 /\ z <= 80 => d6 <= 1500
  BY <1>1, <1>2
<1>7. z >= 80 /\ z <= 83 => d6 <= 1500
  BY <1>1, <1>2
<1>8. z >= 83 /\ z <= 85 => d6 <= 1500
  BY <1>1, <1>2
<1>9. z >= 85 /\ z <= 87 => d6 <= 1500
  BY <1>1, <1>2
<1>10. z >= 87 /\ z <= 89 => d6 <= 1500
  BY <1>1, <1>2
<1>11. z >= 89 /\ z <= 91 => d6 <= 1500
  BY <1>1, <1>2
<1>12. z >= 91 /\ z <= 94 => d6 <= 1500
  BY <1>1, <1>2
<1>13. z >= 94 /\ z <= 100 => d6 <= 1500
  BY <1>1, <1>2
<1>14. t >= 25 /\ z >= 0 /\ z <= 35 => d6 < 50
  BY <1>1, <1>2
<1>15. t >= 25 /\ z >= 35 /\ z <= 41 => d6 < 50
  BY <1>1, <1>2
<1>16. t >= 25 /\ z >= 41 /\ z <= 47 => d6 < 50
  BY <1>1, <1>2
<1>17. t >= 25 /\ z >= 47 /\ z <= 100 => d6 < 50
  BY <1>1, <1>2
<1>18. QED
  BY <1>3, <1>4, <1>5, <1>6, <1>7, <1>8, <1>9, <1>10, <1>11, <1>12, <1>13, <1>14, <1>15, <1>16, <1>17

(* The weighted sum of nothing is zero.                                    *)
LEMMA WeightNone ==
    ASSUME NEW ids
    PROVE  /\ [i \in FactorIds |-> 0] \in [FactorIds -> Int]
           /\ Weighted([i \in FactorIds |-> 0], ids) = 0
<1> DEFINE none == [i \in FactorIds |-> 0]
<1>1. none \in [FactorIds -> Int] /\ Combines(none, none, none, 1)
  BY DEF Combines
<1> HIDE DEF none
<1>2. PICK n \in Int : n = Weighted(none, ids)
  BY <1>1, WeightedInt
<1>3. n = n + n * 1
  BY <1>1, <1>2, WeightedLinear
<1>4. n = 0
  BY <1>3
<1>5. QED
  BY <1>1, <1>2, <1>4 DEF none

(* A weighted sum of ones and zeros is the weight of the ones.             *)
LEMMA WeightBounds ==
    ASSUME NEW u \in [FactorIds -> {0, 1}]
    PROVE  Weighted(u, FactorIds) \in Nat /\ Weighted(u, FactorIds) <= 100
<1> DEFINE ones == [i \in FactorIds |-> 1]
           none == [i \in FactorIds |-> 0]
<1>1. /\ u \in [FactorIds -> Int] /\ ones \in [FactorIds -> Int]
      /\ none \in [FactorIds -> Int]
      /\ \A i \in FactorIds : none[i] <= u[i] /\ u[i] <= ones[i]
  OBVIOUS
<1>2. Weighted(ones, FactorIds) = 100 /\ Weighted(none, FactorIds) = 0
  BY HundredPercent, WeightNone
<1> HIDE DEF ones, none
<1>3. Weighted(u, FactorIds) \in Int
  BY <1>1, WeightedInt
<1>4. Weighted(none, FactorIds) <= Weighted(u, FactorIds)
  BY <1>1, WeightedMonotone
<1>5. Weighted(u, FactorIds) <= Weighted(ones, FactorIds)
  BY <1>1, WeightedMonotone
<1>6. QED
  BY <1>2, <1>3, <1>4, <1>5

(* One pass down: every factor loses d, but none goes below 0.             *)
Lowered(v, d) == [i \in FactorIds |-> IF v[i] < d THEN 0 ELSE v[i] - d]

(* d is by how much the weighted mean of v is above t, give or take the    *)
(* part of a hundredth that rounding down loses.                           *)
Above(v, t, d) ==
    /\ Weighted(v, FactorIds) <= 100000 * t + 100 * d + 99
    /\ 100000 * t + 100 * d <= Weighted(v, FactorIds) + 99

(* Six passes down, from values no further than the jitter above t.        *)
LEMMA Descent ==
    ASSUME NEW x \in [0 .. 6 -> [FactorIds -> Nat]],
           NEW d \in [0 .. 6 -> Nat], NEW t \in Nat,
           \A i \in FactorIds : x[0][i] <= 1000 * t + 22000,
           \A k \in 0 .. 5 : x[k + 1] = Lowered(x[k], d[k]),
           \A k \in 0 .. 6 : Above(x[k], t, d[k])
    PROVE  d[6] <= 1500 /\ (t >= 25 => d[6] < 50)
<1> DEFINE stuck == [i \in FactorIds |-> IF x[6][i] = 0 THEN 1 ELSE 0]
           z == Weighted(stuck, FactorIds)
           sum == d[0] + d[1] + d[2] + d[3] + d[4] + d[5]
<1>1. stuck \in [FactorIds -> {0, 1}] /\ stuck \in [FactorIds -> Int]
  OBVIOUS
<1>2. z \in Nat /\ z <= 100
  BY <1>1, WeightBounds
<1>3. ASSUME NEW i \in FactorIds
      PROVE  /\ x[6][i] = 0 \/ x[6][i] = x[0][i] - sum
             /\ \A k \in 0 .. 6 : x[k][i] = 0 => x[6][i] = 0
  <2> DEFINE Step(k) == /\ x[k][i] \in Nat /\ x[k + 1][i] \in Nat
                        /\ d[k] \in Nat
                        /\ x[k + 1][i] = IF x[k][i] < d[k] THEN 0
                                         ELSE x[k][i] - d[k]
  <2>1. \A k \in 0 .. 5 : Step(k)
    BY DEF Lowered
  <2>2. Step(0) /\ Step(1) /\ Step(2) /\ Step(3) /\ Step(4) /\ Step(5)
    BY <2>1
  <2>3. 0 + 1 = 1 /\ 1 + 1 = 2 /\ 2 + 1 = 3 /\ 3 + 1 = 4 /\ 4 + 1 = 5
        /\ 5 + 1 = 6
    OBVIOUS
  <2>4. x[6][i] = 0 \/ x[6][i] = x[0][i] - sum
    BY <2>2, <2>3
  <2>5. /\ x[0][i] = 0 => x[1][i] = 0
        /\ x[1][i] = 0 => x[2][i] = 0
        /\ x[2][i] = 0 => x[3][i] = 0
        /\ x[3][i] = 0 => x[4][i] = 0
        /\ x[4][i] = 0 => x[5][i] = 0
        /\ x[5][i] = 0 => x[6][i] = 0
    BY <2>2, <2>3
  <2>6. \A k \in 0 .. 6 : k = 0 \/ k = 1 \/ k = 2 \/ k = 3 \/ k = 4 \/ k = 5
                          \/ k = 6
    OBVIOUS
  <2>7. QED
    BY <2>4, <2>5, <2>6
<1>4. ASSUME NEW k \in 0 .. 5
      PROVE  100 * d[k + 1] <= 198 + z * d[k]
  <2>1. k \in 0 .. 6 /\ k + 1 \in 0 .. 6
    OBVIOUS
  <2>2. PICK y \in [FactorIds -> Nat], w \in [FactorIds -> Nat],
             c \in Nat, e \in Nat :
           y = x[k] /\ w = x[k + 1] /\ c = d[k] /\ e = d[k + 1]
    <3> USE <2>1
    <3> WITNESS x[k] \in [FactorIds -> Nat], x[k + 1] \in [FactorIds -> Nat],
                d[k] \in Nat, d[k + 1] \in Nat
    <3> QED
      OBVIOUS
  <2>3. y \in [FactorIds -> Int] /\ w \in [FactorIds -> Int] /\ c \in Int
    BY <2>1, <2>2
  <2>4. Shifted(w, y, stuck, c)
    <3> SUFFICES \A i \in FactorIds : w[i] <= y[i] - c + stuck[i] * c
      BY DEF Shifted
    <3> TAKE i \in FactorIds
    <3>1. y[i] \in Nat /\ w[i] = IF y[i] < c THEN 0 ELSE y[i] - c
      BY <2>1, <2>2 DEF Lowered
    <3>2. w[i] = 0 => stuck[i] = 1
      BY <1>3, <2>1, <2>2
    <3>3. stuck[i] = 0 \/ stuck[i] = 1
      OBVIOUS
    <3>4. 0 * c = 0 /\ 1 * c = c
      OBVIOUS
    <3> HIDE DEF stuck
    <3>5. QED
      BY <3>1, <3>2, <3>3, <3>4
  <2> HIDE DEF stuck
  <2>5. Weighted(w, FactorIds)
          <= Weighted(y, FactorIds) - 100 * c + Weighted(stuck, FactorIds) * c
    BY <1>1, <2>3, <2>4, WeightedShift
  <2>6. Above(y, t, c) /\ Above(w, t, e)
    BY <2>1, <2>2
  <2>7. Weighted(w, FactorIds) \in Int /\ Weighted(y, FactorIds) \in Int
    BY <2>3, WeightedInt
  <2>8. z * c \in Int
    BY <1>2
  <2> HIDE DEF z
  <2>9. 100 * e <= 198 + z * c
    <3>1. PICK a \in Int, b \in Int, f \in Int :
             /\ a = Weighted(w, FactorIds) /\ b = Weighted(y, FactorIds)
             /\ f = z * c
      BY <2>7, <2>8
    <3>2. a <= b - 100 * c + f
      BY <2>5, <3>1 DEF z
    <3>3. b <= 100000 * t + 100 * c + 99 /\ 100000 * t + 100 * e <= a + 99
      BY <2>6, <3>1 DEF Above
    <3>4. 100 * e <= 198 + f
      BY <3>2, <3>3
    <3>5. QED
      BY <3>1, <3>4
  <2>10. QED
    BY <2>2, <2>9
<1>5. 100000 * t + 100 * d[6] <= 99 + (100 - z) * (1000 * t + 22000 - sum)
  <2> DEFINE none == [i \in FactorIds |-> 0]
  <2>1. PICK y \in [FactorIds -> Nat], c \in Int, s \in Int :
           /\ y = x[6] /\ s = sum /\ c = s - (1000 * t + 22000)
    OBVIOUS
  <2>2. y \in [FactorIds -> Int] /\ none \in [FactorIds -> Int]
    BY <2>1
  <2>3. Shifted(y, none, stuck, c)
    <3> SUFFICES \A i \in FactorIds : y[i] <= none[i] - c + stuck[i] * c
      BY DEF Shifted
    <3> TAKE i \in FactorIds
    <3>1. y[i] = 0 \/ y[i] = x[0][i] - s
      BY <1>3, <2>1
    <3>2. x[0][i] \in Nat /\ x[0][i] <= 1000 * t + 22000
      OBVIOUS
    <3>3. /\ y[i] = 0 => stuck[i] = 1
          /\ y[i] # 0 => stuck[i] = 0
      BY <2>1
    <3>4. 0 * c = 0 /\ 1 * c = c
      OBVIOUS
    <3> HIDE DEF stuck
    <3>5. QED
      BY <2>1, <3>1, <3>2, <3>3, <3>4
  <2>4. Weighted(none, FactorIds) = 0
    BY WeightNone
  <2> HIDE DEF stuck, none
  <2>5. Weighted(y, FactorIds)
          <= Weighted(none, FactorIds) - 100 * c
             + Weighted(stuck, FactorIds) * c
    BY <1>1, <2>2, <2>3, WeightedShift
  <2>6. Above(y, t, d[6]) /\ Weighted(y, FactorIds) \in Int /\ d[6] \in Nat
    BY <2>1, <2>2, WeightedInt
  <2>7. PICK g \in Int : g = 1000 * t + 22000 - s
    OBVIOUS
  <2>8. c = -g
    BY <2>1, <2>7
  <2> HIDE DEF z
  <2>9. 0 - 100 * c + z * c = (100 - z) * g
    BY <1>2, <2>8
  <2>10. (100 - z) * g \in Int
    BY <1>2
  <2>11. 100000 * t + 100 * d[6] <= 99 + (100 - z) * g
    <3>1. PICK a \in Int, f \in Int, e \in Nat :
             a = Weighted(y, FactorIds) /\ f = (100 - z) * g /\ e = d[6]
      BY <2>6, <2>10
    <3>2. a <= f
      BY <2>4, <2>5, <2>9, <3>1 DEF z
    <3>3. 100000 * t + 100 * e <= a + 99
      BY <2>6, <3>1 DEF Above
    <3>4. 100000 * t + 100 * e <= 99 + f
      BY <3>2, <3>3
    <3>5. QED
      BY <3>1, <3>4
  <2>12. QED
    BY <2>1, <2>7, <2>11
<1> HIDE DEF z
<1>6. PICK d0 \in Nat, d1 \in Nat, d2 \in Nat, d3 \in Nat, d4 \in Nat,
           d5 \in Nat, d6 \in Nat :
         /\ d0 = d[0] /\ d1 = d[1] /\ d2 = d[2] /\ d3 = d[3] /\ d4 = d[4]
         /\ d5 = d[5] /\ d6 = d[6]
  <2> WITNESS d[0] \in Nat, d[1] \in Nat, d[2] \in Nat, d[3] \in Nat,
              d[4] \in Nat, d[5] \in Nat, d[6] \in Nat
  <2> QED
    OBVIOUS
<1>7. /\ 100 * d1 <= 198 + z * d0 /\ 100 * d2 <= 198 + z * d1
      /\ 100 * d3 <= 198 + z * d2 /\ 100 * d4 <= 198 + z * d3
      /\ 100 * d5 <= 198 + z * d4 /\ 100 * d6 <= 198 + z * d5
  <2>1. 0 + 1 = 1 /\ 1 + 1 = 2 /\ 2 + 1 = 3 /\ 3 + 1 = 4 /\ 4 + 1 = 5
        /\ 5 + 1 = 6
    OBVIOUS
  <2>2. 0 \in 0 .. 5 /\ 1 \in 0 .. 5 /\ 2 \in 0 .. 5 /\ 3 \in 0 .. 5
        /\ 4 \in 0 .. 5 /\ 5 \in 0 .. 5
    OBVIOUS
  <2>3. QED
    BY <1>4, <1>6, <2>1, <2>2
<1>8. 100000 * t + 100 * d6
        <= 99 + (100 - z) * (1000 * t + 22000
                             - (d0 + d1 + d2 + d3 + d4 + d5))
  BY <1>5, <1>6
<1>9. d6 <= 1500 /\ (t >= 25 => d6 < 50)
  BY <1>2, <1>7, <1>8, Residual
<1>10. QED
  BY <1>6, <1>9
-----------------------------------------------------------------------------
(* The passes that reconcile the values with the score.                    *)

(* s holds the values after each of the passes.                            *)
IsTrail(s, t, v) ==
    s = [n \in 0 .. 6 |-> IF n = 0 THEN v ELSE Pass(t, s[n - 1])]

(* The values are those at the end of six passes from the first ones.      *)
LEMMA SixPasses ==
    ASSUME NEW t, NEW v
    PROVE  \E s : /\ s[0] = v /\ s[6] = Reconciled(t, v)
                  /\ \A k \in 0 .. 5 : s[k + 1] = Pass(t, s[k])
<1> DEFINE v1 == Pass(t, v)
           v2 == Pass(t, v1)
           v3 == Pass(t, v2)
           v4 == Pass(t, v3)
           v5 == Pass(t, v4)
           v6 == Pass(t, v5)
           s0 == [n \in 0 .. 6 |-> IF n = 0 THEN v ELSE IF n = 1 THEN v1
                                   ELSE IF n = 2 THEN v2 ELSE IF n = 3 THEN v3
                                   ELSE IF n = 4 THEN v4 ELSE IF n = 5 THEN v5
                                   ELSE v6]
<1>1. /\ v1 = Pass(t, v) /\ v2 = Pass(t, v1) /\ v3 = Pass(t, v2)
      /\ v4 = Pass(t, v3) /\ v5 = Pass(t, v4) /\ v6 = Pass(t, v5)
  OBVIOUS
<1> HIDE DEF v1, v2, v3, v4, v5, v6
<1>2. IsTrail(s0, t, v)
  <2>1. /\ s0[0] = v /\ s0[1] = v1 /\ s0[2] = v2 /\ s0[3] = v3
        /\ s0[4] = v4 /\ s0[5] = v5 /\ s0[6] = v6
        /\ s0 = [n \in 0 .. 6 |-> s0[n]]
    OBVIOUS
  <2> HIDE DEF s0
  <2>2. \A n \in 0 .. 6 : s0[n] = IF n = 0 THEN v ELSE Pass(t, s0[n - 1])
    <3>1. \A n \in 0 .. 6 : n = 0 \/ n = 1 \/ n = 2 \/ n = 3 \/ n = 4
                            \/ n = 5 \/ n = 6
      OBVIOUS
    <3>2. 1 - 1 = 0 /\ 2 - 1 = 1 /\ 3 - 1 = 2 /\ 4 - 1 = 3 /\ 5 - 1 = 4
          /\ 6 - 1 = 5
      OBVIOUS
    <3>3. /\ s0[1] = Pass(t, s0[1 - 1]) /\ s0[2] = Pass(t, s0[2 - 1])
          /\ s0[3] = Pass(t, s0[3 - 1]) /\ s0[4] = Pass(t, s0[4 - 1])
          /\ s0[5] = Pass(t, s0[5 - 1]) /\ s0[6] = Pass(t, s0[6 - 1])
      BY <1>1, <2>1, <3>2
    <3>4. 1 # 0 /\ 2 # 0 /\ 3 # 0 /\ 4 # 0 /\ 5 # 0 /\ 6 # 0
      OBVIOUS
    <3>5. QED
      BY <2>1, <3>1, <3>3, <3>4, Zenon
  <2>3. [n \in 0 .. 6 |-> s0[n]]
          = [n \in 0 .. 6 |-> IF n = 0 THEN v ELSE Pass(t, s0[n - 1])]
    BY <2>2, Zenon
  <2>4. QED
    BY <2>1, <2>3 DEF IsTrail
<1> HIDE DEF s0
<1>3. PICK s : s = CHOOSE r : IsTrail(r, t, v)
  OBVIOUS
<1>4. IsTrail(s, t, v)
  BY <1>2, <1>3
<1>5. Reconciled(t, v) = s[6]
  BY <1>3 DEF Reconciled, IsTrail
<1>6. s[0] = v /\ \A k \in 0 .. 5 : s[k + 1] = Pass(t, s[k])
  <2>1. s[0] = v
    BY <1>4 DEF IsTrail
  <2>2. ASSUME NEW k \in 0 .. 5
        PROVE  s[k + 1] = Pass(t, s[k])
    <3>1. k + 1 \in 0 .. 6 /\ k + 1 # 0 /\ (k + 1) - 1 = k
      OBVIOUS
    <3>2. s[k + 1] = Pass(t, s[(k + 1) - 1])
      BY <1>4, <3>1 DEF IsTrail
    <3>3. QED
      BY <3>1, <3>2
  <2>3. QED
    BY <2>1, <2>2
<1>7. QED
  BY <1>5, <1>6

(* Values of factors, from 0 to 100 points.                                *)
InScale(v) == v \in [FactorIds -> Nat] /\ \A i \in FactorIds : v[i] <= 100000
Mirrored(v) == [i \in FactorIds |-> 100000 - v[i]]

(* The bias is the distance of the target from the mean, which is rounded  *)
(* down.                                                                   *)
LEMMA BiasTells ==
    ASSUME NEW t \in Nat, NEW v, InScale(v)
    PROVE  /\ Weighted(v, FactorIds) \in Int /\ Bias(t, v) \in Int
           /\ 100000 * t - 100 * Bias(t, v) <= Weighted(v, FactorIds)
           /\ Weighted(v, FactorIds) <= 100000 * t - 100 * Bias(t, v) + 99
<1>1. v \in [FactorIds -> Int]
  BY DEF InScale
<1>2. PICK w \in Int : w = Weighted(v, FactorIds)
  BY <1>1, WeightedInt
<1>3. PICK q \in Int : q = w \div 100
  OBVIOUS
<1>4. 100 * q <= w /\ w <= 100 * q + 99
  BY <1>3
<1>5. Bias(t, v) = 1000 * t - q
  BY <1>2, <1>3 DEF Bias
<1>6. QED
  BY <1>2, <1>4, <1>5

(* Lowered values are natural, and lowered by d at most.                   *)
LEMMA LoweredKeeps ==
    ASSUME NEW v \in [FactorIds -> Nat], NEW d \in Nat
    PROVE  /\ Lowered(v, d) \in [FactorIds -> Nat]
           /\ Weighted(v, FactorIds)
                <= Weighted(Lowered(v, d), FactorIds) + 100 * d
<1> DEFINE w == Lowered(v, d)
           none == [i \in FactorIds |-> 0]
<1>1. w \in [FactorIds -> Nat] /\ \A i \in FactorIds : v[i] <= w[i] + d
  BY DEF Lowered
<1>2. none \in [FactorIds -> Int] /\ Weighted(none, FactorIds) = 0
  BY WeightNone
<1>3. Shifted(v, w, none, -d)
  <2> SUFFICES ASSUME NEW i \in FactorIds
               PROVE  v[i] <= w[i] - (-d) + none[i] * (-d)
    BY DEF Shifted
  <2>1. none[i] = 0
    OBVIOUS
  <2> HIDE DEF none, w
  <2>2. QED
    BY <1>1, <2>1
<1>4. v \in [FactorIds -> Int] /\ w \in [FactorIds -> Int] /\ -d \in Int
  BY <1>1
<1> HIDE DEF none, w
<1>5. Weighted(v, FactorIds)
        <= Weighted(w, FactorIds) - 100 * (-d)
           + Weighted(none, FactorIds) * (-d)
  BY <1>2, <1>3, <1>4, WeightedShift
<1>6. Weighted(v, FactorIds) \in Int /\ Weighted(w, FactorIds) \in Int
  BY <1>4, WeightedInt
<1>7. Weighted(v, FactorIds) <= Weighted(w, FactorIds) + 100 * d
  BY <1>2, <1>5, <1>6
<1>8. QED
  BY <1>1, <1>7 DEF w

(* Mirroring mirrors the sum.                                              *)
LEMMA MirroredSum ==
    ASSUME NEW v, InScale(v)
    PROVE  /\ InScale(Mirrored(v))
           /\ Weighted(Mirrored(v), FactorIds)
                = 100 * 100000 - Weighted(v, FactorIds)
<1> DEFINE ones == [i \in FactorIds |-> 1]
           none == [i \in FactorIds |-> 0]
           full == [i \in FactorIds |-> 100000]
           m == Mirrored(v)
<1>1. /\ v \in [FactorIds -> Int] /\ m \in [FactorIds -> Int]
      /\ ones \in [FactorIds -> Int] /\ full \in [FactorIds -> Int]
      /\ InScale(m) /\ none \in [FactorIds -> Int]
  BY DEF InScale, Mirrored
<1>2. Combines(full, none, ones, 100000)
  BY DEF Combines
<1>3. Combines(m, full, v, -1)
  BY <1>1 DEF Combines, Mirrored
<1>4. Weighted(ones, FactorIds) = 100 /\ Weighted(none, FactorIds) = 0
  BY HundredPercent, WeightNone
<1> HIDE DEF ones, none, full, m
<1>5. Weighted(full, FactorIds)
        = Weighted(none, FactorIds) + Weighted(ones, FactorIds) * 100000
  BY <1>1, <1>2, WeightedLinear
<1>6. Weighted(m, FactorIds)
        = Weighted(full, FactorIds) + Weighted(v, FactorIds) * (-1)
  BY <1>1, <1>3, WeightedLinear
<1>7. Weighted(v, FactorIds) \in Int
  BY <1>1, WeightedInt
<1>8. Weighted(m, FactorIds) = 100 * 100000 - Weighted(v, FactorIds)
  BY <1>4, <1>5, <1>6, <1>7
<1>9. QED
  BY <1>1, <1>8 DEF m

Reached(t, v) == -50 < Bias(t, v) /\ Bias(t, v) < 50

(* A pass stops at a small bias, and lowers the values - or raises them,   *)
(* which is lowering their mirror image - by a large one.                  *)
LEMMA PassMoves ==
    ASSUME NEW t \in Nat, NEW v, InScale(v)
    PROVE  /\ InScale(Pass(t, v))
           /\ Reached(t, v) => Pass(t, v) = v
           /\ Bias(t, v) <= -50 => Pass(t, v) = Lowered(v, -Bias(t, v))
           /\ Bias(t, v) >= 50
                => Mirrored(Pass(t, v)) = Lowered(Mirrored(v), Bias(t, v))
<1>1. PICK b \in Int : b = Bias(t, v)
  BY BiasTells
<1>2. \A i \in FactorIds : v[i] \in Nat /\ v[i] <= 100000
  BY DEF InScale
<1> DEFINE w == [i \in FactorIds |-> clamp(v[i] + b, 0, 100000)]
<1>3. Pass(t, v) = IF -50 < b /\ b < 50 THEN v ELSE w
  BY <1>1 DEF Pass
<1>4. \A i \in FactorIds :
         w[i] = IF v[i] + b < 0 THEN 0
                ELSE IF v[i] + b > 100000 THEN 100000 ELSE v[i] + b
  BY DEF clamp
<1>5. w = [i \in FactorIds |-> w[i]]
  OBVIOUS
<1> HIDE DEF w
<1>6. InScale(w)
  <2>1. \A i \in FactorIds : w[i] \in Nat /\ w[i] <= 100000
    BY <1>2, <1>4
  <2>2. QED
    BY <1>5, <2>1 DEF InScale
<1>7. b <= -50 => w = Lowered(v, -b)
  <2>1. ASSUME b <= -50, NEW i \in FactorIds
        PROVE  w[i] = IF v[i] < -b THEN 0 ELSE v[i] - (-b)
    BY <1>2, <1>4, <2>1
  <2>2. QED
    BY <1>5, <2>1 DEF Lowered
<1>8. b >= 50 => Mirrored(w) = Lowered(Mirrored(v), b)
  <2>1. ASSUME b >= 50, NEW i \in FactorIds
        PROVE  100000 - w[i] = IF 100000 - v[i] < b THEN 0
                               ELSE (100000 - v[i]) - b
    BY <1>2, <1>4, <2>1
  <2>2. QED
    BY <2>1 DEF Lowered, Mirrored
<1>9. b <= -50 \/ b >= 50 => Pass(t, v) = w
  BY <1>3
<1>10. Reached(t, v) <=> -50 < b /\ b < 50
  BY <1>1 DEF Reached
<1>11. InScale(Pass(t, v)) /\ (Reached(t, v) => Pass(t, v) = v)
  BY <1>3, <1>6, <1>10
<1>12. QED
  BY <1>1, <1>7, <1>8, <1>9, <1>11

(* No pass overshoots: values whose mean is above the target stay there,   *)
(* and so do those below.                                                  *)
LEMMA NoOvershoot ==
    ASSUME NEW t \in Nat, NEW v, InScale(v)
    PROVE  /\ Bias(t, v) <= -50 => Bias(t, Pass(t, v)) <= 0
           /\ Bias(t, v) >= 50 => Bias(t, Pass(t, v)) >= 0
<1> DEFINE p == Pass(t, v)
<1>1. PICK b \in Int, c \in Int, x \in Int, y \in Int :
         /\ b = Bias(t, v) /\ c = Bias(t, p)
         /\ x = Weighted(v, FactorIds) /\ y = Weighted(p, FactorIds)
  <2>1. InScale(p)
    BY PassMoves
  <2>2. /\ Bias(t, v) \in Int /\ Bias(t, p) \in Int
        /\ Weighted(v, FactorIds) \in Int /\ Weighted(p, FactorIds) \in Int
    BY <2>1, BiasTells
  <2> HIDE DEF p
  <2> USE <2>2
  <2> WITNESS Bias(t, v) \in Int, Bias(t, p) \in Int,
              Weighted(v, FactorIds) \in Int, Weighted(p, FactorIds) \in Int
  <2> QED
    OBVIOUS
<1>2. /\ 100000 * t - 100 * b <= x /\ x <= 100000 * t - 100 * b + 99
      /\ 100000 * t - 100 * c <= y /\ y <= 100000 * t - 100 * c + 99
  BY <1>1, PassMoves, BiasTells
<1>3. b <= -50 => c <= 0
  <2>1. SUFFICES ASSUME b <= -50
                 PROVE  c <= 0
    OBVIOUS
  <2>2. p = Lowered(v, -b) /\ v \in [FactorIds -> Nat] /\ -b \in Nat
    BY <1>1, <2>1, PassMoves DEF InScale
  <2>3. x <= y + 100 * (-b)
    BY <1>1, <2>2, LoweredKeeps
  <2>4. QED
    BY <1>2, <2>3
<1>4. b >= 50 => c >= 0
  <2>1. SUFFICES ASSUME b >= 50
                 PROVE  c >= 0
    OBVIOUS
  <2>2. /\ Mirrored(p) = Lowered(Mirrored(v), b) /\ b \in Nat
        /\ InScale(p) /\ Mirrored(v) \in [FactorIds -> Nat]
    BY <1>1, <2>1, PassMoves, MirroredSum DEF InScale
  <2>3. Weighted(Mirrored(v), FactorIds)
          <= Weighted(Mirrored(p), FactorIds) + 100 * b
    BY <2>2, LoweredKeeps
  <2>4. /\ Weighted(Mirrored(v), FactorIds) = 100 * 100000 - x
        /\ Weighted(Mirrored(p), FactorIds) = 100 * 100000 - y
    BY <1>1, <2>2, MirroredSum
  <2>5. y <= x + 100 * b
    BY <2>3, <2>4
  <2>6. QED
    BY <1>2, <2>5
<1>5. QED
  BY <1>1, <1>3, <1>4

(* Values that start no further from the target than the jitter end six    *)
(* passes later within a point and a half of it, whatever the jitter, and  *)
(* settled when the target is far enough from both ends of the scale.      *)
LEMMA PassesReconcile ==
    ASSUME NEW t \in Nat, t <= 100, NEW v, InScale(v),
           \A i \in FactorIds : /\ v[i] <= 1000 * t + 22000
                                /\ 1000 * t <= v[i] + 22000
    PROVE  LET r == Reconciled(t, v)
           IN  /\ InScale(r)
               /\ -1500 <= Bias(t, r) /\ Bias(t, r) <= 1500
               /\ t >= 25 /\ t <= 75 => Reached(t, r)
<1>1. PICK s : /\ s[0] = v /\ s[6] = Reconciled(t, v)
               /\ \A k \in 0 .. 5 : s[k + 1] = Pass(t, s[k])
  BY SixPasses
<1>2. 0 + 1 = 1 /\ 1 + 1 = 2 /\ 2 + 1 = 3 /\ 3 + 1 = 4 /\ 4 + 1 = 5
      /\ 5 + 1 = 6
  OBVIOUS
<1>3. \A k \in 0 .. 6 : k = 0 \/ k = 1 \/ k = 2 \/ k = 3 \/ k = 4 \/ k = 5
                        \/ k = 6
  OBVIOUS
<1>4. /\ s[1] = Pass(t, s[0]) /\ s[2] = Pass(t, s[1]) /\ s[3] = Pass(t, s[2])
      /\ s[4] = Pass(t, s[3]) /\ s[5] = Pass(t, s[4]) /\ s[6] = Pass(t, s[5])
  BY <1>1, <1>2
<1>5. \A k \in 0 .. 6 : InScale(s[k])
  <2>1. InScale(s[0])
    BY <1>1
  <2>2. InScale(s[1])
    BY <1>4, <2>1, PassMoves
  <2>3. InScale(s[2])
    BY <1>4, <2>2, PassMoves
  <2>4. InScale(s[3])
    BY <1>4, <2>3, PassMoves
  <2>5. InScale(s[4])
    BY <1>4, <2>4, PassMoves
  <2>6. InScale(s[5])
    BY <1>4, <2>5, PassMoves
  <2>7. InScale(s[6])
    BY <1>4, <2>6, PassMoves
  <2>8. QED
    BY <1>3, <2>1, <2>2, <2>3, <2>4, <2>5, <2>6, <2>7
<1> DEFINE b(k) == Bias(t, s[k])
<1>6. \A k \in 0 .. 6 : b(k) \in Int
  <2> TAKE k \in 0 .. 6
  <2>1. PICK w : w = s[k] /\ InScale(w)
    BY <1>5
  <2>2. Bias(t, w) \in Int
    BY <2>1, BiasTells
  <2>3. QED
    BY <2>1, <2>2
<1>7. ASSUME NEW k \in 0 .. 6, Reached(t, s[k])
      PROVE  Reached(t, s[6])
  <2>1. \A j \in 0 .. 5 : Reached(t, s[j]) => s[j + 1] = s[j]
    BY <1>1, <1>5, PassMoves
  <2>2. /\ Reached(t, s[0]) => Reached(t, s[1])
        /\ Reached(t, s[1]) => Reached(t, s[2])
        /\ Reached(t, s[2]) => Reached(t, s[3])
        /\ Reached(t, s[3]) => Reached(t, s[4])
        /\ Reached(t, s[4]) => Reached(t, s[5])
        /\ Reached(t, s[5]) => Reached(t, s[6])
    BY <1>2, <2>1
  <2>3. QED
    BY <1>3, <1>7, <2>2
<1>8. ASSUME \A k \in 0 .. 6 : ~ Reached(t, s[k]), b(0) <= -50
      PROVE  /\ -1500 <= b(6) /\ b(6) <= 1500
             /\ ~ (t >= 25)
  <2>1. ASSUME NEW k \in 0 .. 5, b(k) <= -50
        PROVE  b(k + 1) <= -50
    <3>1. b(k + 1) <= 0
      BY <1>1, <1>5, <2>1, NoOvershoot
    <3>2. ~ Reached(t, s[k + 1]) /\ b(k + 1) \in Int
      BY <1>6, <1>8
    <3>3. QED
      BY <3>1, <3>2 DEF Reached
  <2>2. \A k \in 0 .. 6 : b(k) <= -50
    <3> HIDE DEF b
    <3>1. /\ b(0) <= -50 => b(1) <= -50
          /\ b(1) <= -50 => b(2) <= -50
          /\ b(2) <= -50 => b(3) <= -50
          /\ b(3) <= -50 => b(4) <= -50
          /\ b(4) <= -50 => b(5) <= -50
          /\ b(5) <= -50 => b(6) <= -50
      BY <1>2, <2>1
    <3>2. QED
      BY <1>3, <1>8, <3>1
  <2> DEFINE x == [k \in 0 .. 6 |-> s[k]]
             d == [k \in 0 .. 6 |-> -b(k)]
  <2>3. x \in [0 .. 6 -> [FactorIds -> Nat]]
    BY <1>5 DEF InScale
  <2>4. d \in [0 .. 6 -> Nat]
    <3> HIDE DEF b
    <3>1. \A k \in 0 .. 6 : -b(k) \in Nat
      BY <1>6, <2>2
    <3>2. QED
      BY <3>1
  <2>5. \A k \in 0 .. 5 : x[k + 1] = Lowered(x[k], d[k])
    <3> TAKE k \in 0 .. 5
    <3>1. k \in 0 .. 6 /\ k + 1 \in 0 .. 6
      OBVIOUS
    <3>2. s[k + 1] = Lowered(s[k], -b(k))
      BY <1>1, <1>5, <2>2, <3>1, PassMoves
    <3>3. QED
      BY <3>1, <3>2
  <2>6. \A k \in 0 .. 6 : Above(x[k], t, d[k])
    <3> TAKE k \in 0 .. 6
    <3>1. PICK y : y = s[k] /\ InScale(y)
      BY <1>5
    <3>2. x[k] = y /\ d[k] = -Bias(t, y)
      BY <3>1
    <3> HIDE DEF x, d, b
    <3>3. PICK w \in Int, e \in Int : w = Weighted(y, FactorIds) /\ e = Bias(t, y)
      BY <3>1, BiasTells
    <3>4. 100000 * t - 100 * e <= w /\ w <= 100000 * t - 100 * e + 99
      BY <3>1, <3>3, BiasTells
    <3>5. /\ w <= 100000 * t + 100 * (-e) + 99
          /\ 100000 * t + 100 * (-e) <= w + 99
      BY <3>4
    <3>6. QED
      BY <3>2, <3>3, <3>5 DEF Above
  <2>7. \A i \in FactorIds : x[0][i] <= 1000 * t + 22000
    BY <1>1
  <2>8. d[6] = -b(6)
    OBVIOUS
  <2> HIDE DEF x, d
  <2>9. d[6] <= 1500 /\ (t >= 25 => d[6] < 50)
    BY <2>3, <2>4, <2>5, <2>6, <2>7, Descent
  <2>10. b(6) <= -50 /\ b(6) \in Int
    BY <1>6, <2>2
  <2> HIDE DEF b
  <2>11. QED
    BY <2>8, <2>9, <2>10
<1>9. ASSUME \A k \in 0 .. 6 : ~ Reached(t, s[k]), b(0) >= 50
      PROVE  /\ -1500 <= b(6) /\ b(6) <= 1500
             /\ ~ (t <= 75)
  <2>1. ASSUME NEW k \in 0 .. 5, b(k) >= 50
        PROVE  b(k + 1) >= 50
    <3>1. b(k + 1) >= 0
      BY <1>1, <1>5, <2>1, NoOvershoot
    <3>2. ~ Reached(t, s[k + 1]) /\ b(k + 1) \in Int
      BY <1>6, <1>9
    <3>3. QED
      BY <3>1, <3>2 DEF Reached
  <2>2. \A k \in 0 .. 6 : b(k) >= 50
    <3> HIDE DEF b
    <3>1. /\ b(0) >= 50 => b(1) >= 50
          /\ b(1) >= 50 => b(2) >= 50
          /\ b(2) >= 50 => b(3) >= 50
          /\ b(3) >= 50 => b(4) >= 50
          /\ b(4) >= 50 => b(5) >= 50
          /\ b(5) >= 50 => b(6) >= 50
      BY <1>2, <2>1
    <3>2. QED
      BY <1>3, <1>9, <3>1
  <2> DEFINE x == [k \in 0 .. 6 |-> Mirrored(s[k])]
             d == [k \in 0 .. 6 |-> b(k)]
             u == 100 - t
  <2>3. x \in [0 .. 6 -> [FactorIds -> Nat]]
    BY <1>5, MirroredSum DEF InScale
  <2>4. d \in [0 .. 6 -> Nat]
    <3> HIDE DEF b
    <3>1. \A k \in 0 .. 6 : b(k) \in Nat
      BY <1>6, <2>2
    <3>2. QED
      BY <3>1
  <2>5. \A k \in 0 .. 5 : x[k + 1] = Lowered(x[k], d[k])
    <3> TAKE k \in 0 .. 5
    <3>1. k \in 0 .. 6 /\ k + 1 \in 0 .. 6
      OBVIOUS
    <3>2. Mirrored(s[k + 1]) = Lowered(Mirrored(s[k]), b(k))
      BY <1>1, <1>5, <2>2, <3>1, PassMoves
    <3>3. QED
      BY <3>1, <3>2
  <2>6. \A k \in 0 .. 6 : Above(x[k], u, d[k])
    <3> TAKE k \in 0 .. 6
    <3>1. PICK y : y = s[k] /\ InScale(y)
      BY <1>5
    <3>2. x[k] = Mirrored(y) /\ d[k] = Bias(t, y) /\ u = 100 - t
      BY <3>1
    <3> HIDE DEF x, d, b, u
    <3>3. PICK w \in Int, e \in Int : w = Weighted(y, FactorIds) /\ e = Bias(t, y)
      BY <3>1, BiasTells
    <3>4. 100000 * t - 100 * e <= w /\ w <= 100000 * t - 100 * e + 99
      BY <3>1, <3>3, BiasTells
    <3>5. Weighted(x[k], FactorIds) = 100 * 100000 - w
      BY <3>1, <3>2, <3>3, MirroredSum
    <3>6. /\ 100 * 100000 - w <= 100000 * (100 - t) + 100 * e + 99
          /\ 100000 * (100 - t) + 100 * e <= (100 * 100000 - w) + 99
      BY <3>4
    <3>7. QED
      BY <3>2, <3>3, <3>5, <3>6 DEF Above
  <2>7. u \in Nat /\ \A i \in FactorIds : x[0][i] <= 1000 * u + 22000
    <3>1. ASSUME NEW i \in FactorIds
          PROVE  x[0][i] <= 1000 * u + 22000
      <4>1. x[0][i] = 100000 - v[i]
        BY <1>1 DEF Mirrored
      <4>2. 1000 * t <= v[i] + 22000 /\ v[i] \in Nat
        BY DEF InScale
      <4> HIDE DEF x
      <4>3. QED
        BY <4>1, <4>2
    <3>2. QED
      BY <3>1
  <2>8. d[6] = b(6)
    OBVIOUS
  <2>9. u >= 25 <=> t <= 75
    OBVIOUS
  <2> HIDE DEF x, d, u
  <2>10. d[6] <= 1500 /\ (u >= 25 => d[6] < 50)
    BY <2>3, <2>4, <2>5, <2>6, <2>7, Descent
  <2>11. b(6) >= 50 /\ b(6) \in Int
    BY <1>6, <2>2
  <2> HIDE DEF b
  <2>12. QED
    BY <2>8, <2>9, <2>10, <2>11
<1>10. Reached(t, s[6]) => -1500 <= b(6) /\ b(6) <= 1500
  BY <1>6 DEF Reached
<1>11. /\ -1500 <= b(6) /\ b(6) <= 1500
       /\ t >= 25 /\ t <= 75 => Reached(t, s[6])
  <2>1. CASE \E k \in 0 .. 6 : Reached(t, s[k])
    BY <1>7, <1>10, <2>1
  <2>2. CASE \A k \in 0 .. 6 : ~ Reached(t, s[k])
    <3>1. b(0) <= -50 \/ b(0) >= 50
      <4>1. ~ Reached(t, s[0]) /\ b(0) \in Int
        BY <1>6, <2>2
      <4>2. QED
        BY <4>1 DEF Reached
    <3>2. QED
      BY <1>8, <1>9, <2>2, <3>1
  <2>3. QED
    BY <2>1, <2>2
<1>12. QED
  BY <1>1, <1>5, <1>11
-----------------------------------------------------------------------------
(* What the page shows of the values.                                      *)

(* The factors shown are in range, and rounding them moves their weighted  *)
(* mean by half a point at most.                                           *)
LEMMA FactorsShown ==
    ASSUME NEW r, InScale(r), NEW v,
           v = [i \in FactorIds |-> Rounded(r[i], 1000)]
    PROVE  /\ v \in [FactorIds -> 0 .. 100]
           /\ 1000 * Weighted(v, FactorIds) <= Weighted(r, FactorIds) + 50000
           /\ Weighted(r, FactorIds) <= 1000 * Weighted(v, FactorIds) + 50000
<1> DEFINE none == [i \in FactorIds |-> 0]
           large == [i \in FactorIds |-> v[i] * 1000]
<1>1. ASSUME NEW i \in FactorIds
      PROVE  /\ v[i] \in 0 .. 100 /\ v[i] * 1000 <= r[i] + 500
             /\ r[i] <= v[i] * 1000 + 500
  <2>1. PICK n \in Nat : n = r[i] /\ n <= 100000
    BY DEF InScale
  <2>2. PICK m \in Int : m = (2 * n + 1000) \div (2 * 1000)
    OBVIOUS
  <2>3. /\ m \in 0 .. 100 /\ m * 1000 <= n + 500 /\ n <= m * 1000 + 500
    BY <2>1, <2>2
  <2>4. v[i] = m
    BY <2>1, <2>2 DEF Rounded
  <2>5. QED
    BY <2>1, <2>3, <2>4
<1>2. v \in [FactorIds -> 0 .. 100]
  BY <1>1
<1>3. /\ large \in [FactorIds -> Int] /\ none \in [FactorIds -> Int]
      /\ v \in [FactorIds -> Int] /\ r \in [FactorIds -> Int]
      /\ Combines(large, none, v, 1000)
  BY <1>2 DEF Combines, InScale
<1>4. Shifted(large, r, none, -500) /\ Shifted(r, large, none, -500)
  <2>1. ASSUME NEW i \in FactorIds
        PROVE  /\ large[i] <= r[i] - (-500) + none[i] * (-500)
               /\ r[i] <= large[i] - (-500) + none[i] * (-500)
    <3>1. large[i] = v[i] * 1000 /\ none[i] = 0
      OBVIOUS
    <3>2. large[i] \in Int /\ r[i] \in Int
      BY <1>3
    <3> HIDE DEF large, none
    <3>3. QED
      BY <1>1, <3>1, <3>2
  <2>2. QED
    BY <2>1 DEF Shifted
<1>5. Weighted(none, FactorIds) = 0
  BY WeightNone
<1> HIDE DEF large, none
<1>6. PICK a \in Int, b \in Int, c \in Int :
         /\ a = Weighted(large, FactorIds) /\ b = Weighted(r, FactorIds)
         /\ c = Weighted(v, FactorIds)
  BY <1>3, WeightedInt
<1>7. a = c * 1000
  <2>1. a = Weighted(none, FactorIds) + c * 1000
    BY <1>3, <1>6, WeightedLinear
  <2>2. QED
    BY <1>5, <2>1
<1>8. /\ a <= b - 100 * (-500) + Weighted(none, FactorIds) * (-500)
      /\ b <= a - 100 * (-500) + Weighted(none, FactorIds) * (-500)
  BY <1>3, <1>4, <1>6, WeightedShift
<1>9. QED
  BY <1>2, <1>5, <1>6, <1>7, <1>8

(* The weighted sum of two groups together.                                *)
LEMMA WeightedUnion ==
    ASSUME NEW v \in [FactorIds -> Int], NEW S, NEW T, S \cap T = {}
    PROVE  Weighted(v, S \cup T) = Weighted(v, S) + Weighted(v, T)
<1> DEFINE f == Terms(v, S \cup T)
           g == Terms(v, S)
           h == Terms(v, T)
           Linear(n, i) ==
               g[i] \in Int /\ h[i] \in Int /\ f[i] = g[i] + h[i] * 1
           Equal(n) == Total(f, n) = Total(g, n) + Total(h, n) * 1
<1>1. ASSUME NEW i \in 0 .. 14
      PROVE  Linear(15, i)
  <2>1. i + 1 \in FactorIds
    BY FifteenFactors
  <2>2. PICK a \in Int, w \in Nat :
           a = v[i + 1] /\ w = Factors[i + 1].weight
    BY <2>1, WeightedTerms
  <2>3. /\ f[i] = a * Share(S \cup T, i + 1)
        /\ g[i] = a * Share(S, i + 1) /\ h[i] = a * Share(T, i + 1)
    BY <2>2 DEF Terms
  <2>4. \/ Share(S, i + 1) = 0 /\ Share(T, i + 1) = Share(S \cup T, i + 1)
        \/ Share(T, i + 1) = 0 /\ Share(S, i + 1) = Share(S \cup T, i + 1)
    BY DEF Share
  <2>5. PICK k \in Int : k = Share(S \cup T, i + 1)
    BY <2>1, WeightedTerms
  <2>6. a * 0 = 0 /\ a * k \in Int
    OBVIOUS
  <2> HIDE DEF f, g, h
  <2>7. \/ g[i] = 0 /\ h[i] = a * k /\ f[i] = a * k
        \/ h[i] = 0 /\ g[i] = a * k /\ f[i] = a * k
    BY <2>3, <2>4, <2>5, <2>6
  <2>8. QED
    BY <2>6, <2>7
<1>2. /\ Weighted(v, S \cup T) = Total(f, 15) /\ Weighted(v, S) = Total(g, 15)
      /\ Weighted(v, T) = Total(h, 15)
  BY WeightedTerms
<1>3. /\ Weighted(v, S) \in Int /\ Weighted(v, T) \in Int
  BY WeightedInt
<1> HIDE DEF f, g, h
<1>4. \A n \in Nat : (\A i \in 0 .. n - 1 : Linear(n, i)) => Equal(n)
  BY TotalLinear
<1>5. \A i \in 0 .. 15 - 1 : Linear(15, i)
  BY <1>1
<1>6. Total(f, 15) = Total(g, 15) + Total(h, 15) * 1
  <2> HIDE DEF Linear
  <2>1. Equal(15)
    BY <1>4, <1>5
  <2>2. QED
    BY <2>1
<1>7. QED
  BY <1>2, <1>3, <1>6

(* The groups share the factors.                                           *)
LEMMA GroupsShare ==
    ASSUME NEW v \in [FactorIds -> Int]
    PROVE  Weighted(v, FactorIds) =
             Weighted(v, InGroup("TRANSACTION"))
             + Weighted(v, InGroup("PROTOCOL"))
             + Weighted(v, InGroup("SECURITY"))
             + Weighted(v, InGroup("IDENTITY"))
<1> DEFINE A == InGroup("TRANSACTION")
           B == InGroup("PROTOCOL")
           C == InGroup("SECURITY")
           D == InGroup("IDENTITY")
<1>1. /\ "TRANSACTION" # "PROTOCOL" /\ "TRANSACTION" # "SECURITY"
      /\ "TRANSACTION" # "IDENTITY" /\ "PROTOCOL" # "SECURITY"
      /\ "PROTOCOL" # "IDENTITY" /\ "SECURITY" # "IDENTITY"
  OBVIOUS
<1>2. A \cap B = {} /\ (A \cup B) \cap C = {} /\ ((A \cup B) \cup C) \cap D = {}
  BY <1>1 DEF InGroup
<1>3. \A i \in FactorIds : Factors[i].group \in Groups
  <2>1. \A i \in 1 .. 15 : Factors[i].group \in Groups
    BY FactorGroups DEF Groups
  <2>2. QED
    BY <2>1, FifteenFactors
<1>4. FactorIds = ((A \cup B) \cup C) \cup D
  BY <1>3 DEF InGroup, Groups
<1> HIDE DEF A, B, C, D
<1>5. /\ Weighted(v, A) \in Int /\ Weighted(v, B) \in Int
      /\ Weighted(v, C) \in Int /\ Weighted(v, D) \in Int
  BY WeightedInt
<1>6. /\ Weighted(v, A \cup B) = Weighted(v, A) + Weighted(v, B)
      /\ Weighted(v, (A \cup B) \cup C)
           = Weighted(v, A \cup B) + Weighted(v, C)
      /\ Weighted(v, ((A \cup B) \cup C) \cup D)
           = Weighted(v, (A \cup B) \cup C) + Weighted(v, D)
  BY <1>2, WeightedUnion
<1>7. Weighted(v, FactorIds) = Weighted(v, A) + Weighted(v, B)
                               + Weighted(v, C) + Weighted(v, D)
  BY <1>4, <1>5, <1>6
<1>8. QED
  BY <1>7 DEF A, B, C, D

(* A group whose factors all show the same value weighs its weight times   *)
(* that value.                                                             *)
LEMMA GroupOfEqual ==
    ASSUME NEW v \in [FactorIds -> Int], NEW group, NEW c \in Int,
           \A i \in InGroup(group) : v[i] = c
    PROVE  Weighted(v, InGroup(group)) = GroupWeight(group) * c
<1> DEFINE ones == [i \in FactorIds |-> 1]
           none == [i \in FactorIds |-> 0]
           same == [i \in FactorIds |-> c]
<1>1. /\ ones \in [FactorIds -> Int] /\ none \in [FactorIds -> Int]
      /\ same \in [FactorIds -> Int] /\ Combines(same, none, ones, c)
  BY DEF Combines
<1>2. \A i \in FactorIds :
         i \in InGroup(group) => v[i] <= same[i] /\ same[i] <= v[i]
  OBVIOUS
<1>3. /\ Weighted(ones, InGroup(group)) = GroupWeight(group)
      /\ Weighted(none, InGroup(group)) = 0
  BY WeightNone DEF GroupWeight
<1> HIDE DEF ones, none, same
<1>4. /\ Weighted(v, InGroup(group)) <= Weighted(same, InGroup(group))
      /\ Weighted(same, InGroup(group)) <= Weighted(v, InGroup(group))
  BY <1>1, <1>2, WeightedMonotone
<1>5. PICK a \in Int, b \in Int, e \in Int :
         /\ a = Weighted(v, InGroup(group))
         /\ b = Weighted(same, InGroup(group))
         /\ e = Weighted(ones, InGroup(group))
  BY <1>1, WeightedInt
<1>6. b = Weighted(none, InGroup(group)) + e * c
  BY <1>1, <1>5, WeightedLinear
<1>7. b = 0 + e * c
  BY <1>3, <1>6
<1>8. e * c \in Int
  OBVIOUS
<1>9. a = b
  BY <1>4, <1>5
<1>10. a = e * c
  BY <1>7, <1>8, <1>9
<1>11. QED
  BY <1>3, <1>5, <1>10

(* The group scores shown instead of their factors' move the weighted mean *)
(* by half a point at most.                                                *)
LEMMA CategoriesShown ==
    ASSUME NEW v \in [FactorIds -> Int], NEW shown,
           shown = computeCategories(v), NEW rolled,
           rolled = [i \in FactorIds |-> shown[Factors[i].group]]
    PROVE  /\ Weighted(rolled, FactorIds) \in Int
           /\ Weighted(rolled, FactorIds) <= Weighted(v, FactorIds) + 50
           /\ Weighted(v, FactorIds) <= Weighted(rolled, FactorIds) + 50
<1>1. ASSUME NEW group \in Groups
      PROVE  shown[group]
               = Rounded(Weighted(v, InGroup(group)), GroupWeight(group))
  BY DEF computeCategories
<1>2. ASSUME NEW group \in Groups, NEW d \in {19, 24, 27, 30},
             d = GroupWeight(group)
      PROVE  /\ shown[group] \in Int
             /\ 2 * (d * shown[group]) <= 2 * Weighted(v, InGroup(group)) + d
             /\ 2 * Weighted(v, InGroup(group)) <= 2 * (d * shown[group]) + d
  <2>1. PICK w \in Int : w = Weighted(v, InGroup(group))
    BY WeightedInt
  <2>2. PICK m \in Int : m = (2 * w + d) \div (2 * d)
    OBVIOUS
  <2>3. 2 * (d * m) <= 2 * w + d /\ 2 * w <= 2 * (d * m) + d
    <3>1. CASE d = 19
      BY <2>2, <3>1
    <3>2. CASE d = 24
      BY <2>2, <3>2
    <3>3. CASE d = 27
      BY <2>2, <3>3
    <3>4. CASE d = 30
      BY <2>2, <3>4
    <3>5. QED
      BY <3>1, <3>2, <3>3, <3>4
  <2>4. shown[group] = m
    BY <1>1, <1>2, <2>1, <2>2 DEF Rounded
  <2>5. QED
    BY <2>1, <2>3, <2>4
<1>3. \A group \in Groups : shown[group] \in Int
  BY <1>2, HundredPercent DEF Groups
<1>4. rolled \in [FactorIds -> Int]
  <2>1. \A i \in 1 .. 15 : Factors[i].group \in Groups
    BY FactorGroups DEF Groups
  <2>2. QED
    BY <1>3, <2>1, FifteenFactors
<1>5. ASSUME NEW group \in Groups
      PROVE  Weighted(rolled, InGroup(group))
               = GroupWeight(group) * shown[group]
  <2>1. \A i \in InGroup(group) : rolled[i] = shown[group]
    BY DEF InGroup
  <2>2. shown[group] \in Int
    BY <1>3
  <2>3. QED
    BY <1>4, <2>1, <2>2, GroupOfEqual
<1> DEFINE Close(a, b, d) == 2 * a <= 2 * b + d /\ 2 * b <= 2 * a + d
           Within(group, d) ==
             Close(Weighted(rolled, InGroup(group)),
                   Weighted(v, InGroup(group)), d)
<1>6. /\ Within("TRANSACTION", 19) /\ Within("PROTOCOL", 30)
      /\ Within("SECURITY", 24) /\ Within("IDENTITY", 27)
  <2>1. ASSUME NEW group \in Groups, NEW d \in {19, 24, 27, 30},
               d = GroupWeight(group)
        PROVE  Within(group, d)
    <3>1. Weighted(rolled, InGroup(group)) = d * shown[group]
      BY <1>5, <2>1
    <3>2. QED
      BY <1>2, <2>1, <3>1
  <2>2. /\ 19 \in {19, 24, 27, 30} /\ 30 \in {19, 24, 27, 30}
        /\ 24 \in {19, 24, 27, 30} /\ 27 \in {19, 24, 27, 30}
        /\ "TRANSACTION" \in Groups /\ "PROTOCOL" \in Groups
        /\ "SECURITY" \in Groups /\ "IDENTITY" \in Groups
    BY DEF Groups
  <2> HIDE DEF Within
  <2>3. QED
    BY <2>1, <2>2, HundredPercent
<1>7. PICK a1 \in Int, a2 \in Int, a3 \in Int, a4 \in Int :
         /\ a1 = Weighted(v, InGroup("TRANSACTION"))
         /\ a2 = Weighted(v, InGroup("PROTOCOL"))
         /\ a3 = Weighted(v, InGroup("SECURITY"))
         /\ a4 = Weighted(v, InGroup("IDENTITY"))
  BY WeightedInt
<1>8. PICK b1 \in Int, b2 \in Int, b3 \in Int, b4 \in Int :
         /\ b1 = Weighted(rolled, InGroup("TRANSACTION"))
         /\ b2 = Weighted(rolled, InGroup("PROTOCOL"))
         /\ b3 = Weighted(rolled, InGroup("SECURITY"))
         /\ b4 = Weighted(rolled, InGroup("IDENTITY"))
  BY <1>4, WeightedInt
<1>9. /\ Close(b1, a1, 19) /\ Close(b2, a2, 30) /\ Close(b3, a3, 24)
      /\ Close(b4, a4, 27)
  BY <1>6, <1>7, <1>8
<1>10. /\ Weighted(v, FactorIds) = a1 + a2 + a3 + a4
       /\ Weighted(rolled, FactorIds) = b1 + b2 + b3 + b4
  BY <1>4, <1>7, <1>8, GroupsShare
<1>11. QED
  BY <1>9, <1>10

(* No two factors have the same key, and the agent gives each the weight   *)
(* the web application gives it.                                           *)
LEMMA KeysDistinct ==
    /\ \A i, j \in FactorIds : Factors[i].key = Factors[j].key => i = j
    /\ \A i \in FactorIds : SignalWeights[Factors[i].key] = Factors[i].weight
<1>1. /\ Factors[1].key = "failureRate" /\ Factors[2].key = "txVelocity"
      /\ Factors[3].key = "volatility" /\ Factors[4].key = "oracleDeviation"
      /\ Factors[5].key = "counterpartyRisk"
      /\ Factors[6].key = "bridgeExposure" /\ Factors[7].key = "leverageRatio"
      /\ Factors[8].key = "exploitHistory"
      /\ Factors[9].key = "slashingHistory" /\ Factors[10].key = "upgradeRisk"
      /\ Factors[11].key = "auditCoverage" /\ Factors[12].key = "age"
      /\ Factors[13].key = "liquidity" /\ Factors[14].key = "concentration"
      /\ Factors[15].key = "governanceActivity"
  BY DEF Factors, Factor
<1>2. /\ SignalWeights["failureRate"] = 5 /\ SignalWeights["txVelocity"] = 5
      /\ SignalWeights["volatility"] = 9
      /\ SignalWeights["oracleDeviation"] = 9
      /\ SignalWeights["counterpartyRisk"] = 8
      /\ SignalWeights["bridgeExposure"] = 6
      /\ SignalWeights["leverageRatio"] = 7
      /\ SignalWeights["exploitHistory"] = 10
      /\ SignalWeights["slashingHistory"] = 6
      /\ SignalWeights["upgradeRisk"] = 4
      /\ SignalWeights["auditCoverage"] = 4 /\ SignalWeights["age"] = 4
      /\ SignalWeights["liquidity"] = 10
      /\ SignalWeights["concentration"] = 8
      /\ SignalWeights["governanceActivity"] = 5
  BY DEF SignalWeights
<1>3. \A i \in 1 .. 15 :
         \/ i = 1 \/ i = 2 \/ i = 3 \/ i = 4 \/ i = 5 \/ i = 6 \/ i = 7
         \/ i = 8 \/ i = 9 \/ i = 10 \/ i = 11 \/ i = 12 \/ i = 13
         \/ i = 14 \/ i = 15
  OBVIOUS
<1>4. \A i \in FactorIds : SignalWeights[Factors[i].key] = Factors[i].weight
  BY <1>1, <1>2, <1>3, WeightsWritten, FifteenFactors
<1>5. \A i, j \in FactorIds : Factors[i].key = Factors[j].key => i = j
  BY <1>1, <1>3, FifteenFactors
<1>6. QED
  BY <1>4, <1>5

(* The agent's scorer, given the factors as its signals, rounds the same   *)
(* weighted mean.                                                          *)
LEMMA ScorerAgrees ==
    ASSUME NEW v \in [FactorIds -> 0 .. 100], NEW signals,
           \A i \in FactorIds : signals[Factors[i].key] = v[i]
    PROVE  /\ scoreRisk(signals) \in Int
           /\ 100 * scoreRisk(signals) <= Weighted(v, FactorIds) + 50
           /\ Weighted(v, FactorIds) <= 100 * scoreRisk(signals) + 50
<1> DEFINE values == [i \in FactorIds |-> clamp(signals[Factors[i].key], 0, 100)]
           weights == [i \in FactorIds |-> SignalWeights[Factors[i].key]]
           ones == [i \in FactorIds |-> 1]
           none == [i \in FactorIds |-> 0]
           full == [i \in FactorIds |-> 100]
<1>1. values = v
  <2>1. \A i \in FactorIds : clamp(signals[Factors[i].key], 0, 100) = v[i]
    BY DEF clamp
  <2>2. values = [i \in FactorIds |-> v[i]]
    BY <2>1
  <2>3. QED
    BY <2>2
<1>2. weights = [i \in FactorIds |->
                   IF i \in FactorIds THEN Factors[i].weight ELSE 0]
  BY KeysDistinct
<1>3. Sum(values, weights) = Weighted(v, FactorIds)
  BY <1>1, <1>2 DEF Weighted
<1>4. /\ v \in [FactorIds -> Int] /\ ones \in [FactorIds -> Int]
      /\ none \in [FactorIds -> Int] /\ full \in [FactorIds -> Int]
      /\ Combines(full, none, ones, 100)
      /\ \A i \in FactorIds : none[i] <= v[i] /\ v[i] <= full[i]
  BY DEF Combines
<1>5. Weighted(ones, FactorIds) = 100 /\ Weighted(none, FactorIds) = 0
  BY HundredPercent, WeightNone
<1> HIDE DEF ones, none, full
<1>6. Weighted(full, FactorIds)
        = Weighted(none, FactorIds) + Weighted(ones, FactorIds) * 100
  BY <1>4, WeightedLinear
<1>7. PICK w \in Int : w = Weighted(v, FactorIds)
  BY <1>4, WeightedInt
<1>8. 0 <= w
  BY <1>4, <1>5, <1>7, WeightedMonotone
<1>9. w <= Weighted(full, FactorIds)
  BY <1>4, <1>7, WeightedMonotone
<1>10. w <= 100 * 100
  BY <1>5, <1>6, <1>9
<1>11. PICK m \in Int : m = (2 * w + 100) \div (2 * 100)
  OBVIOUS
<1>12. /\ 0 <= m /\ m <= 100
       /\ 100 * m <= w + 50 /\ w <= 100 * m + 50
  BY <1>8, <1>10, <1>11
<1>13. scoreRisk(signals) = clamp(m, 0, 100)
  BY <1>3, <1>7, <1>11 DEF scoreRisk, Rounded
<1>14. clamp(m, 0, 100) = m
  BY <1>12 DEF clamp
<1>15. QED
  BY <1>7, <1>12, <1>13, <1>14

(* A value of a function into a range lies between its ends.               *)
LEMMA WithinSpread ==
    ASSUME NEW S, NEW n \in Int, NEW f \in [S -> -n .. n], NEW x \in S
    PROVE  f[x] \in Int /\ -n <= f[x] /\ f[x] <= n
  OBVIOUS

(* The spread of the jitter, in thousandths.                               *)
LEMMA SpreadWritten ==
    /\ JitterSpread \in Int
    /\ \A j \in Int :
          -JitterSpread <= j /\ j <= JitterSpread => -22000 <= j /\ j <= 22000
  BY DEF JitterSpread

(* Jitter keeps the values in scale and within its spread of the score.    *)
LEMMA JitterInScale ==
    ASSUME NEW score \in Nat, score <= 100,
           NEW jitter \in [FactorIds -> -JitterSpread .. JitterSpread]
    PROVE  /\ InScale(Jittered(score, jitter))
           /\ \A i \in FactorIds :
                 /\ Jittered(score, jitter)[i] <= 1000 * score + 22000
                 /\ 1000 * score <= Jittered(score, jitter)[i] + 22000
<1>1. \A i \in FactorIds : /\ jitter[i] \in Int
                            /\ -JitterSpread <= jitter[i]
                            /\ jitter[i] <= JitterSpread
  BY SpreadWritten, WithinSpread
<1> DEFINE start == Jittered(score, jitter)
<1>2. ASSUME NEW i \in FactorIds
      PROVE  /\ start[i] \in Nat /\ start[i] <= 100000
             /\ start[i] <= 1000 * score + 22000
             /\ 1000 * score <= start[i] + 22000
  <2>1. PICK j \in Int : j = jitter[i] /\ -22000 <= j /\ j <= 22000
    <3>1. jitter[i] \in Int /\ -22000 <= jitter[i] /\ jitter[i] <= 22000
      BY <1>1, SpreadWritten
    <3>2. QED
      BY <3>1
  <2>2. start[i] = clamp(1000 * score + j, 0, 100000)
    BY <2>1 DEF Jittered
  <2>3. PICK n \in Int : n = 1000 * score + j
    OBVIOUS
  <2>4. start[i] = IF n < 0 THEN 0 ELSE IF n > 100000 THEN 100000 ELSE n
    BY <2>2, <2>3 DEF clamp
  <2> HIDE DEF start
  <2>5. 1000 * score - 22000 <= n /\ n <= 1000 * score + 22000
    BY <2>1, <2>3
  <2>6. QED
    BY <2>4, <2>5
<1>3. start = [i \in FactorIds |-> start[i]]
  BY DEF Jittered
<1> HIDE DEF start
<1>4. InScale(start)
  BY <1>2, <1>3 DEF InScale
<1>5. QED
  BY <1>2, <1>4 DEF start

(* Whatever the score and the jitter, the page of a result shows factors   *)
(* and group scores that tell the score.                                   *)
LEMMA BreakdownReconciles ==
    ASSUME NEW score \in 0 .. 100,
           NEW jitter \in [FactorIds -> -JitterSpread .. JitterSpread]
    PROVE  Reconciles(ResultBody(score, jitter))
<1> DEFINE start == Jittered(score, jitter)
           r == Reconciled(score, start)
           v == [i \in FactorIds |-> Rounded(r[i], 1000)]
           shown == computeCategories(v)
           rolled == [i \in FactorIds |-> shown[Factors[i].group]]
           keys == {Factors[i].key : i \in FactorIds}
           signals == [key \in keys |->
                         v[CHOOSE i \in FactorIds : Factors[i].key = key]]
<1>1. score \in Nat /\ score <= 100 /\ clamp(score, 0, 100) = score
  BY DEF clamp
<1>2. /\ InScale(start)
      /\ \A i \in FactorIds : /\ start[i] <= 1000 * score + 22000
                              /\ 1000 * score <= start[i] + 22000
  BY <1>1, JitterInScale
<1> HIDE DEF start
<1>3. /\ InScale(r) /\ -1500 <= Bias(score, r) /\ Bias(score, r) <= 1500
      /\ score >= 25 /\ score <= 75 => Reached(score, r)
  BY <1>1, <1>2, PassesReconcile
<1>4. computeFactors(jitter, score) = v
  BY <1>1 DEF computeFactors, start
<1> HIDE DEF r
<1>5. /\ v \in [FactorIds -> 0 .. 100]
      /\ 1000 * Weighted(v, FactorIds) <= Weighted(r, FactorIds) + 50000
      /\ Weighted(r, FactorIds) <= 1000 * Weighted(v, FactorIds) + 50000
  BY <1>3, FactorsShown
<1>6. /\ ResultBody(score, jitter).score = score
      /\ ResultBody(score, jitter).factors = v
      /\ ResultBody(score, jitter).categories = shown
  BY <1>4 DEF ResultBody
<1>7. \A i \in FactorIds : signals[Factors[i].key] = v[i]
  <2> TAKE i \in FactorIds
  <2>1. (CHOOSE j \in FactorIds : Factors[j].key = Factors[i].key) = i
    BY KeysDistinct
  <2>2. Factors[i].key \in keys
    OBVIOUS
  <2>3. QED
    BY <2>1, <2>2
<1> HIDE DEF v
<1>8. v \in [FactorIds -> Int]
  BY <1>5
<1>9. PICK w \in Int, c \in Int, e \in Int, k \in Int :
         /\ w = Weighted(v, FactorIds) /\ c = Weighted(rolled, FactorIds)
         /\ e = 100 * scoreRisk(signals) /\ k = Weighted(r, FactorIds)
  <2>1. Weighted(v, FactorIds) \in Int /\ Weighted(r, FactorIds) \in Int
    <3>1. r \in [FactorIds -> Int]
      BY <1>3 DEF InScale
    <3>2. QED
      BY <1>8, <3>1, WeightedInt
  <2>2. Weighted(rolled, FactorIds) \in Int
    BY <1>8, CategoriesShown
  <2> HIDE DEF signals
  <2>3. 100 * scoreRisk(signals) \in Int
    <3>1. scoreRisk(signals) \in Int
      BY <1>5, <1>7, ScorerAgrees
    <3>2. QED
      BY <3>1
  <2> USE <2>1, <2>2, <2>3
  <2> HIDE DEF rolled, signals
  <2> WITNESS Weighted(v, FactorIds) \in Int,
              Weighted(rolled, FactorIds) \in Int,
              100 * scoreRisk(signals) \in Int, Weighted(r, FactorIds) \in Int
  <2> QED
    OBVIOUS
<1>10. c <= w + 50 /\ w <= c + 50
  BY <1>8, <1>9, CategoriesShown
<1>11. e <= w + 50 /\ w <= e + 50
  <2> HIDE DEF signals
  <2>1. /\ 100 * scoreRisk(signals) <= Weighted(v, FactorIds) + 50
        /\ Weighted(v, FactorIds) <= 100 * scoreRisk(signals) + 50
    BY <1>5, <1>7, ScorerAgrees
  <2>2. QED
    BY <1>9, <2>1
<1>12. PICK b \in Int : b = Bias(score, r)
  BY <1>3, BiasTells, <1>1
<1>13. /\ 100000 * score - 100 * b <= k
       /\ k <= 100000 * score - 100 * b + 99
  BY <1>1, <1>3, <1>9, <1>12, BiasTells
<1>14. PICK tolerance \in Nat :
          /\ tolerance = Tolerance(score)
          /\ 100 * score - tolerance <= w /\ w <= 100 * score + tolerance
  <2>1. 1000 * w <= k + 50000 /\ k <= 1000 * w + 50000
    BY <1>5, <1>9
  <2>2. CASE score \in 25 .. 75
    <3>1. -50 < b /\ b < 50
      BY <1>3, <1>12, <2>2 DEF Reached
    <3>2. Tolerance(score) = 55
      BY <2>2 DEF Tolerance
    <3>3. 100 * score - 55 <= w /\ w <= 100 * score + 55
      BY <1>13, <2>1, <3>1
    <3>4. QED
      BY <3>2, <3>3
  <2>3. CASE score \notin 25 .. 75
    <3>1. -1500 <= b /\ b <= 1500
      BY <1>3, <1>12
    <3>2. Tolerance(score) = 200
      BY <2>3 DEF Tolerance
    <3>3. 100 * score - 200 <= w /\ w <= 100 * score + 200
      BY <1>13, <2>1, <3>1
    <3>4. QED
      BY <3>2, <3>3
  <2>4. QED
    BY <2>2, <2>3
<1>15. /\ Near(w, score, tolerance) /\ Near(c, score, tolerance + 50)
       /\ Near(e, score, tolerance + 50)
  BY <1>10, <1>11, <1>14 DEF Near
<1>16. \A i \in FactorIds : v[i] \in 0 .. 100
  BY <1>5
<1>17. /\ Near(Weighted(v, FactorIds), score, Tolerance(score))
       /\ Near(Weighted(rolled, FactorIds), score, Tolerance(score) + 50)
       /\ Near(100 * scoreRisk(signals), score, Tolerance(score) + 50)
  BY <1>9, <1>14, <1>15
<1>18. QED
  BY <1>6, <1>16, <1>17 DEF Reconciles

(* The tiers of one score are one step apart at most, and what the agent   *)
(* blocks is not insurable.                                                *)
LEMMA TiersAgree ==
    ASSUME NEW score \in 0 .. 100
    PROVE  /\ OneStepApart(webTier(score), agentTier(score))
           /\ OneStepApart(webTier(score), sdkTier(score))
           /\ decisionForTier[agentTier(score)] = "block"
                => ~ insurable(webTier(score))
<1>1. /\ OneStepApart("LOW", "LOW") /\ OneStepApart("LOW", "MEDIUM")
      /\ OneStepApart("MEDIUM", "MEDIUM") /\ OneStepApart("MEDIUM", "HIGH")
      /\ OneStepApart("HIGH", "MEDIUM") /\ OneStepApart("HIGH", "HIGH")
      /\ OneStepApart("EXTREME", "HIGH") /\ OneStepApart("EXTREME", "EXTREME")
  <2>1. DOMAIN Ordered = 1 .. 4 /\ Ordered[1] = "LOW" /\ Ordered[2] = "MEDIUM"
        /\ Ordered[3] = "HIGH" /\ Ordered[4] = "EXTREME"
    BY DEF Ordered
  <2>2. ASSUME NEW i \in 1 .. 4, NEW j \in 1 .. 4, i - j \in -1 .. 1
        PROVE  OneStepApart(Ordered[i], Ordered[j])
    BY <2>1, <2>2 DEF OneStepApart
  <2>3. /\ 1 - 1 \in -1 .. 1 /\ 1 - 2 \in -1 .. 1 /\ 2 - 2 \in -1 .. 1
        /\ 2 - 3 \in -1 .. 1 /\ 3 - 2 \in -1 .. 1 /\ 3 - 3 \in -1 .. 1
        /\ 4 - 3 \in -1 .. 1 /\ 4 - 4 \in -1 .. 1
        /\ 1 \in 1 .. 4 /\ 2 \in 1 .. 4 /\ 3 \in 1 .. 4 /\ 4 \in 1 .. 4
    OBVIOUS
  <2>4. /\ OneStepApart(Ordered[1], Ordered[1])
        /\ OneStepApart(Ordered[1], Ordered[2])
        /\ OneStepApart(Ordered[2], Ordered[2])
        /\ OneStepApart(Ordered[2], Ordered[3])
        /\ OneStepApart(Ordered[3], Ordered[2])
        /\ OneStepApart(Ordered[3], Ordered[3])
        /\ OneStepApart(Ordered[4], Ordered[3])
        /\ OneStepApart(Ordered[4], Ordered[4])
    BY <2>2, <2>3, Zenon
  <2>5. QED
    BY <2>1, <2>4
<1>2. /\ score < 40 => webTier(score) = "LOW"
      /\ score >= 40 /\ score < 60 => webTier(score) = "MEDIUM"
      /\ score >= 60 /\ score < 80 => webTier(score) = "HIGH"
      /\ score >= 80 => webTier(score) = "EXTREME"
  BY DEF webTier
<1>3. /\ score < 34 => agentTier(score) = "LOW" /\ sdkTier(score) = "LOW"
      /\ score >= 34 /\ score < 67
           => agentTier(score) = "MEDIUM" /\ sdkTier(score) = "MEDIUM"
      /\ score >= 67 => sdkTier(score) = "HIGH"
      /\ score >= 67 /\ score < 85 => agentTier(score) = "HIGH"
      /\ score >= 85 => agentTier(score) = "EXTREME"
  BY DEF agentTier, sdkTier
<1>4. /\ decisionForTier["LOW"] # "block"
      /\ decisionForTier["MEDIUM"] # "block"
      /\ decisionForTier["HIGH"] # "block"
  BY DEF decisionForTier
<1>5. ~ insurable("EXTREME")
  BY DEF insurable
<1>6. CASE score < 34
  BY <1>1, <1>2, <1>3, <1>4, <1>6
<1>7. CASE score >= 34 /\ score < 40
  BY <1>1, <1>2, <1>3, <1>4, <1>7
<1>8. CASE score >= 40 /\ score < 60
  BY <1>1, <1>2, <1>3, <1>4, <1>8
<1>9. CASE score >= 60 /\ score < 67
  BY <1>1, <1>2, <1>3, <1>4, <1>9
<1>10. CASE score >= 67 /\ score < 80
  BY <1>1, <1>2, <1>3, <1>4, <1>10
<1>11. CASE score >= 80 /\ score < 85
  BY <1>1, <1>2, <1>3, <1>4, <1>11
<1>12. CASE score >= 85
  BY <1>1, <1>2, <1>3, <1>5, <1>12
<1>13. QED
  BY <1>6, <1>7, <1>8, <1>9, <1>10, <1>11, <1>12
-----------------------------------------------------------------------------
(* The oracle page.                                                        *)

(* Rows are added with their panel closed, and panels change in place.     *)
LEMMA OracleRows ==
    ASSUME SdkInv, OracleTypeOK, OracleStep
    PROVE  /\ SdkInv' /\ OracleTypeOK' /\ OnlyAdded /\ NonePaid
           /\ UNCHANGED <<policies, stakedTotal>>
<1> DEFINE Panels == {"closed", "open", "pass", "fail"}
<1>1. ASSUME NEW m \in ModelIds, NEW output \in Texts, NEW stake \in Offers,
             SubmitFromForm(m, output, stake)
      PROVE  /\ SdkInv' /\ OracleTypeOK' /\ OnlyAdded /\ NonePaid
             /\ UNCHANGED <<policies, stakedTotal>>
  <2>1. output \in OutputTexts /\ "oracle_failure" \in Uris
    BY WebAssumption DEF OutputTexts
  <2>2. SubmitOutput(m, "oracle_failure", stake, output)
        /\ oracle' = Append(oracle, "closed")
    BY <1>1 DEF SubmitFromForm
  <2>3. /\ SdkInv' /\ OnlyAdded
        /\ log' = Append(log, Submitted(Count + 1))
        /\ Submitted(Count + 1) \in Event
        /\ UNCHANGED <<policies, stakedTotal>>
    BY <2>1, <2>2, SubmitOutputSdk
  <2>4. NonePaid
    BY <2>3, NoneIsPaid DEF Emitted, SdkInv, IInv, FeedsOK, Submitted
  <2>5. OracleTypeOK'
    BY <2>2 DEF OracleTypeOK
  <2>6. QED
    BY <2>3, <2>4, <2>5
<1>2. ASSUME NEW id \in DOMAIN oracle, NEW verdict \in Panels,
             oracle' = [oracle EXCEPT ![id] = verdict], UNCHANGED sdkVars
      PROVE  /\ SdkInv' /\ OracleTypeOK' /\ OnlyAdded /\ NonePaid
             /\ UNCHANGED <<policies, stakedTotal>>
  <2>1. OracleTypeOK'
    BY <1>2 DEF OracleTypeOK
  <2>2. SdkInv' /\ OnlyAdded /\ UNCHANGED <<policies, stakedTotal, log>>
    BY <1>2 DEF sdkVars, vars, SdkInv, IInv, StoreOK, FeedsOK, Count, Ids,
                OnlyAdded
  <2>3. QED
    BY <2>1, <2>2, SilencePaysNone
<1>3. ASSUME NEW id \in DOMAIN oracle, TogglePanel(id)
      PROVE  \E verdict \in Panels :
                oracle' = [oracle EXCEPT ![id] = verdict] /\ UNCHANGED sdkVars
  BY <1>3 DEF TogglePanel
<1>4. ASSUME NEW id \in DOMAIN oracle, NEW payload \in Texts,
             VerifyInPanel(id, payload)
      PROVE  \E verdict \in Panels :
                oracle' = [oracle EXCEPT ![id] = verdict] /\ UNCHANGED sdkVars
  BY <1>4 DEF VerifyInPanel, verify
<1>5. QED
  BY <1>1, <1>2, <1>3, <1>4 DEF OracleStep
-----------------------------------------------------------------------------
(* The application.                                                        *)

WebInv ==
    /\ SdkInv
    /\ wallet \in {"disconnected", "connecting", "connected"}
    /\ page \in Pages
    /\ PoolInv /\ DemoInv /\ CoverInv /\ OracleTypeOK /\ AnalysisInv

(* It gives the type of every page and what the pages promise.             *)
LEMMA WebInvTold ==
    WebInv => WebTypeOK /\ WithdrawalBacked /\ PagesTellState
<1> SUFFICES ASSUME WebInv
             PROVE  WebTypeOK /\ WithdrawalBacked /\ PagesTellState
  OBVIOUS
<1>1. DOMAIN outputs = Ids /\ TypeOK
  BY InvTypeOK DEF WebInv, SdkInv, Ids
<1>2. InsuranceTypeOK /\ PoliciesPaidOnce
  BY CoverTold DEF WebInv
<1>3. WebTypeOK
  BY <1>1, <1>2 DEF WebInv, WebTypeOK, PoolInv, DemoInv, AnalysisInv
<1>4. PagesTellState
  BY <1>2, AnalysisTold DEF WebInv, DemoInv, PagesTellState
<1>5. QED
  BY <1>3, <1>4, PoolBacked DEF WebInv

(* A page is opened in its initial state, over whatever the SDK holds.     *)
LEMMA MountInv ==
    ASSUME WebInv, NEW p \in Pages, Mount(p),
           result' = <<>> \/ result' \in (0 .. 100) \X Jitters
    PROVE  WebInv' /\ stakedTotal' = stakedTotal
<1>1. /\ UNCHANGED sdkVars /\ wallet' = wallet /\ page' = p
      /\ staking' = StakingFresh /\ slash' = SlashFresh
      /\ insurance' = InsuranceFresh /\ assessment' = AssessmentFresh
      /\ oracle' = IF p = "oracle" THEN OracleFresh ELSE <<>>
  BY DEF Mount
<1>2. SdkInv' /\ UNCHANGED <<policies, stakedTotal, log>>
  BY <1>1 DEF WebInv, sdkVars, vars, SdkInv, IInv, StoreOK, FeedsOK, Count
<1>3. PoolInv'
  <2>1. stakedTotal' \in Nat
    BY <1>2 DEF SdkInv, IInv, StoreOK
  <2>2. QED
    BY <1>1, <2>1 DEF StakingFresh, PoolInv, StakingTypeOK
<1>4. DemoInv'
  <2>1. 0 \in 0 .. MaxAttestations
    BY MockAssumption
  <2>2. QED
    BY <1>1, <2>1 DEF SlashFresh, DemoInv, SlashTypeOK, SlashTellsStatus
<1>5. CoverInv'
  BY <1>1, <1>2, SilencePaysNone, CoverDropped DEF WebInv
<1>6. OracleTypeOK'
  <2>1. Count \in Nat
    BY DEF WebInv, SdkInv, IInv, StoreOK, Count
  <2>2. OracleFresh \in Seq({"closed", "open", "pass", "fail"})
    BY <2>1 DEF OracleFresh, Ids
  <2>3. QED
    BY <1>1, <2>2 DEF OracleTypeOK
<1>7. AnalysisInv'
  BY <1>1, FreshAnalysis DEF AnalysisInv, AssessmentTypeOK, Assessments
<1>8. QED
  BY <1>1, <1>2, <1>3, <1>4, <1>5, <1>6, <1>7 DEF WebInv

(* A handler of the page on screen keeps its own part, and the others'.    *)
LEMMA OnPageInv ==
    ASSUME WebInv, OnPage, UNCHANGED <<wallet, page>>
    PROVE  /\ WebInv'
           /\ stakedTotal' < stakedTotal =>
                 PoolTotal' \in Nat /\ PoolTotal' >= RequiredCapital
<1>0. SUFFICES ASSUME stakedTotal \in Nat
               PROVE  /\ WebInv'
                      /\ stakedTotal' < stakedTotal =>
                            PoolTotal' \in Nat /\ PoolTotal' >= RequiredCapital
  BY DEF WebInv, SdkInv, IInv, StoreOK
<1>1. CASE /\ StakingStep
           /\ UNCHANGED <<outputs, slash, insurance, oracle, assessment, result>>
  <2>1. /\ SdkInv' /\ PoolInv'
        /\ UNCHANGED <<attestations, policies, log>>
        /\ stakedTotal' < stakedTotal =>
              PoolTotal' \in Nat /\ PoolTotal' >= RequiredCapital
    BY <1>1, StakingPool DEF WebInv
  <2>2. OnlyAdded /\ NonePaid
    BY <2>1, SilencePaysNone DEF OnlyAdded, Ids, Count
  <2>3. DemoInv' /\ CoverInv'
    BY <1>1, <2>1, <2>2, DemoUndisturbed, CoverUndisturbed DEF WebInv
  <2>4. OracleTypeOK' /\ AnalysisInv'
    BY <1>1 DEF WebInv, OracleTypeOK, AnalysisInv, AssessmentTypeOK, PipelineAt
  <2>5. QED
    BY <2>1, <2>3, <2>4 DEF WebInv
<1>2. CASE /\ SlashStep
           /\ UNCHANGED <<staking, insurance, oracle, assessment, result>>
  <2>1. /\ SdkInv' /\ DemoInv' /\ NonePaid
        /\ UNCHANGED <<policies, stakedTotal>>
    BY <1>2, SlashDemo DEF WebInv
  <2>2. CoverInv'
    BY <1>2, <2>1, CoverUndisturbed DEF WebInv
  <2>3. PoolInv'
    BY <1>2, <2>1 DEF WebInv, PoolInv, StakingTypeOK, Withdrawable, PoolTotal
  <2>4. OracleTypeOK' /\ AnalysisInv'
    BY <1>2 DEF WebInv, OracleTypeOK, AnalysisInv, AssessmentTypeOK, PipelineAt
  <2>5. QED
    BY <1>0, <2>1, <2>2, <2>3, <2>4 DEF WebInv
<1>3. CASE /\ InsuranceStep
           /\ UNCHANGED <<staking, slash, oracle, assessment, result>>
  <2>1. SdkInv' /\ CoverInv' /\ OnlyAdded /\ stakedTotal' = stakedTotal
    BY <1>3, InsuranceCover DEF WebInv
  <2>2. DemoInv'
    BY <1>3, <2>1, DemoUndisturbed DEF WebInv
  <2>3. PoolInv'
    BY <1>3, <2>1 DEF WebInv, PoolInv, StakingTypeOK, Withdrawable, PoolTotal
  <2>4. OracleTypeOK' /\ AnalysisInv'
    BY <1>3 DEF WebInv, OracleTypeOK, AnalysisInv, AssessmentTypeOK, PipelineAt
  <2>5. QED
    BY <1>0, <2>1, <2>2, <2>3, <2>4 DEF WebInv
<1>4. CASE /\ OracleStep
           /\ UNCHANGED <<staking, slash, insurance, assessment, result>>
  <2>1. /\ SdkInv' /\ OracleTypeOK' /\ OnlyAdded /\ NonePaid
        /\ UNCHANGED <<policies, stakedTotal>>
    BY <1>4, OracleRows DEF WebInv
  <2>2. DemoInv' /\ CoverInv'
    BY <1>4, <2>1, DemoUndisturbed, CoverUndisturbed DEF WebInv
  <2>3. PoolInv'
    BY <1>4, <2>1 DEF WebInv, PoolInv, StakingTypeOK, Withdrawable, PoolTotal
  <2>4. AnalysisInv'
    BY <1>4 DEF WebInv, AnalysisInv, AssessmentTypeOK, PipelineAt
  <2>5. QED
    BY <1>0, <2>1, <2>2, <2>3, <2>4 DEF WebInv
<1>5. CASE /\ AssessmentStep
           /\ UNCHANGED <<sdkVars, staking, slash, insurance, oracle>>
  <2>1. AnalysisInv'
    BY <1>5, AssessmentAnalysis DEF WebInv
  <2>2. /\ SdkInv' /\ OnlyAdded
        /\ UNCHANGED <<policies, stakedTotal, log>>
    BY <1>5 DEF WebInv, sdkVars, vars, SdkInv, IInv, StoreOK, FeedsOK, Count,
                Ids, OnlyAdded
  <2>3. DemoInv' /\ CoverInv'
    BY <1>5, <2>2, SilencePaysNone, DemoUndisturbed, CoverUndisturbed DEF WebInv
  <2>4. PoolInv' /\ OracleTypeOK'
    BY <1>5, <2>2
    DEF WebInv, PoolInv, StakingTypeOK, Withdrawable, PoolTotal, OracleTypeOK
  <2>5. QED
    BY <1>0, <2>1, <2>2, <2>3, <2>4 DEF WebInv
<1>6. QED
  BY <1>1, <1>2, <1>3, <1>4, <1>5 DEF OnPage

(* The wallet's own steps, and steps of the environment, touch no page.    *)
LEMMA ElsewhereInv ==
    ASSUME WebInv, UNCHANGED <<sdkVars, page, pageStates>>,
           wallet' \in {"disconnected", "connecting", "connected"}
    PROVE  WebInv' /\ stakedTotal' = stakedTotal
<1>1. /\ SdkInv' /\ OnlyAdded /\ UNCHANGED <<policies, stakedTotal, log>>
  BY DEF WebInv, sdkVars, vars, SdkInv, IInv, StoreOK, FeedsOK, Count, Ids,
         OnlyAdded
<1>2. UNCHANGED <<page, staking, slash, insurance, oracle, assessment, result>>
  BY DEF pageStates
<1>3. DemoInv' /\ CoverInv'
  BY <1>1, <1>2, SilencePaysNone, DemoUndisturbed, CoverUndisturbed DEF WebInv
<1>4. PoolInv' /\ OracleTypeOK'
  BY <1>1, <1>2
  DEF WebInv, PoolInv, StakingTypeOK, Withdrawable, PoolTotal, OracleTypeOK
<1>5. AnalysisInv'
  BY <1>2 DEF WebInv, AnalysisInv, AssessmentTypeOK, PipelineAt
<1>6. QED
  BY <1>1, <1>2, <1>3, <1>4, <1>5 DEF WebInv

(* Every step keeps the invariant, and one that withdraws keeps the floor. *)
LEMMA NextWebInv ==
    ASSUME WebInv, [WebNext]_webVars
    PROVE  /\ WebInv'
           /\ stakedTotal' < stakedTotal =>
                 PoolTotal' \in Nat /\ PoolTotal' >= RequiredCapital
<1>0. stakedTotal \in Nat
  BY DEF WebInv, SdkInv, IInv, StoreOK
<1>1. CASE OnPage /\ UNCHANGED <<wallet, page>>
  BY <1>1, OnPageInv
<1>2. CASE WalletStep
  <2>1. /\ UNCHANGED <<sdkVars, page, pageStates>>
        /\ wallet' \in {"disconnected", "connecting", "connected"}
    BY <1>2 DEF WalletStep, PressWalletButton, FinishHandshake, walletReducer
  <2>2. QED
    BY <1>0, <2>1, ElsewhereInv
<1>3. CASE \E p \in Pages \ {"result"} : Visit(p)
  <2>1. PICK p \in Pages : Mount(p) /\ result' = <<>>
    BY <1>3 DEF Visit
  <2>2. QED
    BY <1>0, <2>1, MountInv
<1>4. CASE ViewResult
  <2>1. /\ assessment.phase = "summary" /\ Mount("result")
        /\ result' = LinkedResult
    BY <1>4 DEF ViewResult, ResultLinked
  <2>2. assessment.seed \in Seeds
    BY <2>1 DEF WebInv, AnalysisInv, PipelineAt
  <2>3. LinkedResult \in (0 .. 100) \X Jitters /\ "result" \in Pages
    BY <2>2, RiskScoreAssumption, SharedAssumption DEF LinkedResult, Pages
  <2>4. QED
    BY <1>0, <2>1, <2>3, MountInv
<1>5. CASE UNCHANGED webVars
  <2>1. /\ UNCHANGED <<sdkVars, page, pageStates>>
        /\ wallet' \in {"disconnected", "connecting", "connected"}
    BY <1>5 DEF webVars, WebInv
  <2>2. QED
    BY <1>0, <2>1, ElsewhereInv
<1>6. QED
  BY <1>1, <1>2, <1>3, <1>4, <1>5 DEF WebNext

(* The application is opened with nothing stored and no page used.         *)
LEMMA InitWebInv == WebInit => WebInv
<1> SUFFICES ASSUME WebInit
             PROVE  WebInv
  OBVIOUS
<1>1. IInv /\ Init
  BY InitIInv DEF WebInit
<1>2. /\ SdkInv /\ stakedTotal = 0 /\ log = <<>> /\ policies = <<>>
  BY <1>1 DEF WebInit, SdkInv, Init, Count
<1>3. PoolInv
  BY <1>2 DEF WebInit, StakingFresh, PoolInv, StakingTypeOK
<1>4. DemoInv
  <2>1. 0 \in 0 .. MaxAttestations
    BY MockAssumption
  <2>2. QED
    BY <2>1 DEF WebInit, SlashFresh, DemoInv, SlashTypeOK, SlashTellsStatus
<1>5. CoverInv
  <2>1. \A p \in Nat : PaidAt(p) = {}
    BY <1>2 DEF PaidAt
  <2>2. PaidIfClaimed
    BY <1>2, <2>1, FS_EmptySet DEF PaidIfClaimed, Payouts, PolicyIds
  <2>3. /\ insurance.policies = <<>>
        /\ insurance \in [score: 0 .. 101, policies: Seq(Copy),
                          claim: {<<>>} \cup
                             ((1 .. MaxPolicies) \X (1 .. MaxAttestations))]
    BY DEF WebInit, InsuranceFresh
  <2>4. QED
    BY <2>2, <2>3 DEF CoverInv, CopiesTell
<1>6. OracleTypeOK
  BY DEF WebInit, OracleTypeOK
<1>7. AnalysisInv
  <2>1. result = <<>> \/ result \in (0 .. 100) \X Jitters
    BY SharedAssumption DEF WebInit, DecodedResults
  <2>2. assessment = AssessmentFresh
    BY DEF WebInit
  <2>3. QED
    BY <2>1, <2>2, FreshAnalysis DEF AnalysisInv, AssessmentTypeOK, Assessments
<1>8. QED
  BY <1>2, <1>3, <1>4, <1>5, <1>6, <1>7 DEF WebInv, WebInit, WalletInit, Pages

(* It holds in every state the application reaches.                       *)
LEMMA WebInvInductive == WebSpec => []WebInv
BY InitWebInv, NextWebInv, PTL DEF WebSpec

(* Whatever is on screen, the state of every page, of the wallet and of    *)
(* the backend they share is well typed.                                   *)
THEOREM PagesTypeCorrect == WebSpec => []WebTypeOK
BY WebInvInductive, WebInvTold, PTL

(* Whatever is staked after the solvency check has settled, and however    *)
(* long the user waits, a request the step row shows as checked is covered *)
(* by the surplus of the pool and by what the SDK holds.                   *)
THEOREM RequestsStayBacked == WebSpec => []WithdrawalBacked
BY WebInvInductive, WebInvTold, PTL

(* The slash demo, the list of policies and the pipeline tell what is so.  *)
THEOREM PagesTellTruth == WebSpec => []PagesTellState
BY WebInvInductive, WebInvTold, PTL

(* A pool that has its required capital is not shown as CRITICAL.          *)
LEMMA FloorKeepsBadge ==
    ASSUME NEW total \in Nat, total >= RequiredCapital
    PROVE  SolvencyLevel(total) # "CRITICAL"
<1>1. /\ RequiredCapital \in Nat /\ CoverageOutstanding \in Nat
      /\ 10 * RequiredCapital >= 11 * CoverageOutstanding
  BY CapitalType, FloorAssumption, StakingAssumption DEF RequiredCapital
<1>2. 10 * total >= 11 * CoverageOutstanding
  BY <1>1
<1> DEFINE healthy == 2 * total >= 3 * CoverageOutstanding
           caution == /\ 2 * total < 3 * CoverageOutstanding
                      /\ 10 * total >= 11 * CoverageOutstanding
<1>3. healthy \/ caution
  BY <1>1, <1>2
<1>4. SolvencyLevel(total) = CASE healthy -> "HEALTHY"
                               [] caution -> "CAUTION"
                               [] OTHER -> "CRITICAL"
  BY DEF SolvencyLevel
<1> HIDE DEF healthy, caution
<1>5. QED
  BY <1>3, <1>4

(* No withdrawal, of the amount asked for or of what is available, takes   *)
(* the pool below its floor, whatever the coverage and the ratio.          *)
THEOREM FloorIsKept == WebSpec => UnstakeKeepsFloor
<1>1. ASSUME WebInv, [WebNext]_webVars
      PROVE  [ stakedTotal' < stakedTotal =>
                  /\ PoolTotal' >= RequiredCapital
                  /\ SolvencyLevel(PoolTotal') # "CRITICAL" ]_<<vars, staking>>
  <2>1. ASSUME stakedTotal' < stakedTotal
        PROVE  /\ PoolTotal' >= RequiredCapital
               /\ SolvencyLevel(PoolTotal') # "CRITICAL"
    <3>1. PICK total \in Nat : total = PoolTotal' /\ total >= RequiredCapital
      BY <1>1, <2>1, NextWebInv
    <3>2. QED
      BY <3>1, FloorKeepsBadge
  <2>2. QED
    BY <2>1
<1>2. QED
  BY <1>1, WebInvInductive, PTL DEF WebSpec, UnstakeKeepsFloor

(* Whatever the seed, its score and the digest that jitters its factors,   *)
(* what the page of a result shows tells the score: the factors are in     *)
(* range, they, their groups and the agent's scorer all come back to it,   *)
(* and the tiers agree (computeFactors, computeCategories, scoreRisk).     *)
THEOREM BreakdownTruthful == WebSpec => []BreakdownTellsScore
<1>1. WebInv => BreakdownTellsScore
  <2>1. SUFFICES ASSUME WebInv, result # <<>>
                 PROVE  LET shown == ResultBody(result[1], result[2])
                        IN  /\ Reconciles(shown)
                            /\ OneStepApart(shown.tier, agentTier(shown.score))
                            /\ OneStepApart(shown.tier, sdkTier(shown.score))
                            /\ decisionForTier[agentTier(shown.score)] = "block"
                                  => ~shown.insurable
    BY DEF BreakdownTellsScore
  <2>2. result \in (0 .. 100) \X Jitters
    BY <2>1 DEF WebInv, AnalysisInv, AssessmentTypeOK
  <2>3. PICK score \in 0 .. 100, jitter \in Jitters :
           score = result[1] /\ jitter = result[2]
    BY <2>2
  <2>4. jitter \in [FactorIds -> -JitterSpread .. JitterSpread]
    BY <2>3, SharedAssumption
  <2>5. Reconciles(ResultBody(score, jitter))
    BY <2>3, <2>4, BreakdownReconciles
  <2>6. /\ ResultBody(score, jitter).score = score
        /\ ResultBody(score, jitter).tier = webTier(score)
        /\ ResultBody(score, jitter).insurable = insurable(webTier(score))
    BY DEF ResultBody
  <2>7. QED
    BY <2>3, <2>5, <2>6, TiersAgree
<1>2. QED
  BY <1>1, WebInvInductive, PTL
=============================================================================
