---------------------------- MODULE MockBackend -----------------------------
(***************************************************************************)
(* packages/sdk/src/mock-backend.ts: the in-memory backend the web demo    *)
(* runs on, with the event stream its LiveFeed components subscribe to     *)
(* (apps/web/src/components/LiveFeed.tsx).                                  *)
(*                                                                         *)
(* Every method is async but awaits nothing, so it runs to its end at the  *)
(* call, handlers of its event included: one action is one call.  A method *)
(* that throws changes nothing, except submitClaim, which marks an expired *)
(* policy before it throws.                                                *)
(***************************************************************************)
EXTENDS Naturals, SequencesExt

CONSTANTS
    Accounts,          \* attestor addresses
    MockAccount,       \* MOCK_ACCOUNT, the challenger of everything
    NoOne,             \* attestation.challenger is undefined
    ModelIds,          \* the model ids attestors name
    Uris,              \* payload uris; the tag in it names the trigger, if any
    Triggers,          \* the known trigger types
    Offers,            \* the stakes offered
    MinStake,          \* MOCK_MIN_STAKE
    TriggerChoices,    \* the sets of triggers a policy may cover
    Expiries,          \* the expiries policies are created with
    Times,             \* what now() may read; Date.now may also step back
    Amounts,           \* the amounts staked and unstaked
    Feeds,             \* the LiveFeed components that may be on screen
    RingSize,          \* events kept for late subscribers (100)
    FeedLimit,         \* entries a feed shows (12)
    MaxAttestations,   \* bound: how many attestations are submitted
    MaxPolicies,       \* bound: how many policies are created
    MaxPayouts,        \* bound: how many claims are paid
    MaxStaked          \* bound: how much is staked

ASSUME MockAssumption ==
    /\ MockAccount # NoOne
    /\ RingSize \in Nat \ {0}
    /\ FeedLimit \in 1 .. RingSize
    /\ Amounts \subseteq Nat
    /\ {MaxAttestations, MaxPolicies, MaxStaked} \subseteq Nat

VARIABLES
    attestations,   \* the Map of attestations; ids are given out from 1
    policies,       \* the Map of policies; ids are given out from 1
    reputations,    \* the counters of each attestor, zero before the first verdict
    stakedTotal,    \* the one sum of everything staked
    recentEvents,   \* the ring, most recent last
    feeds,          \* mounted LiveFeed -> its entries, most recent first
    log             \* history: every event emitted since the page was loaded

vars == <<attestations, policies, reputations, stakedTotal,
          recentEvents, feeds, log>>

Count == Len(attestations)
Ids == 1 .. Count
PolicyIds == 1 .. Len(policies)

Event == [name: {"AttestationSubmitted", "Challenged", "Resolved"},
          id: 1 .. MaxAttestations]
         \cup [name: {"ClaimPaid"}, id: 1 .. MaxPolicies]

TypeOK ==
    /\ attestations \in
          Seq([attestor: Accounts, modelId: ModelIds, uri: Uris,
               status: {"Active", "Challenged", "Slashed", "Finalized"},
               challenger: {NoOne, MockAccount}])
    /\ policies \in
          Seq([triggerTypes: TriggerChoices, expiry: Expiries,
               status: {"Active", "Claimed", "Expired"}])
    /\ reputations \in
          [Accounts -> [successful: Nat, slashed: Nat, challengesDefended: Nat]]
    /\ stakedTotal \in 0 .. MaxStaked
    /\ recentEvents \in Seq(Event) /\ Len(recentEvents) <= RingSize
    /\ DOMAIN feeds \subseteq Feeds
    /\ \A f \in DOMAIN feeds :
          feeds[f] \in Seq(Event) /\ Len(feeds[f]) <= FeedLimit
    /\ log \in Seq(Event)

Init ==
    /\ attestations = <<>>
    /\ policies = <<>>
    /\ reputations =
          [a \in Accounts |->
              [successful |-> 0, slashed |-> 0, challengesDefended |-> 0]]
    /\ stakedTotal = 0
    /\ recentEvents = <<>>
    /\ feeds = [f \in {} |-> <<>>]
    /\ log = <<>>
-----------------------------------------------------------------------------
(* Mutation: the ring is never shortened.                                  *)
PushedUncapped(ring, event) == Append(ring, event)

Pushed(ring, event) ==
    IF Len(ring) = RingSize THEN Append(Tail(ring), event)
    ELSE Append(ring, event)

(* The handler of a LiveFeed: the event goes on top of the entries.        *)
Entered(entries, event) ==
    LET next == <<event>> \o entries
    IN  IF Len(next) > FeedLimit THEN Front(next) ELSE next

(* The ring and the entries of a feed after one event after the other.     *)
RingAfter(ring, events) ==
    LET after[n \in 0 .. Len(events)] ==
            IF n = 0 THEN ring ELSE Pushed(after[n - 1], events[n])
    IN  after[Len(events)]

ShownAfter(entries, events) ==
    LET after[n \in 0 .. Len(events)] ==
            IF n = 0 THEN entries ELSE Entered(after[n - 1], events[n])
    IN  after[Len(events)]

(* emit, once per event of a call: the ring first, then every handler.     *)
EmitAll(events) ==
    /\ recentEvents' = RingAfter(recentEvents, events)
    /\ feeds' = [f \in DOMAIN feeds |-> ShownAfter(feeds[f], events)]
    /\ log' = log \o events

Emit(name, id) == EmitAll(<<[name |-> name, id |-> id]>>)

Quiet == UNCHANGED <<recentEvents, feeds, log>>

NewAttestation(attestor, modelId, uri) ==
    [attestor |-> attestor, modelId |-> modelId, uri |-> uri,
     status |-> "Active", challenger |-> NoOne]

SubmitAttestation(attestor, modelId, uri, stake) ==
    /\ Count < MaxAttestations
    /\ stake >= MinStake
    /\ attestations' =
          Append(attestations, NewAttestation(attestor, modelId, uri))
    /\ Emit("AttestationSubmitted", Count + 1)
    /\ UNCHANGED <<policies, reputations, stakedTotal>>

(* Mutation: only a second challenge is refused, not one after the verdict. *)
MayChallengeSettled(id) == id \in Ids /\ attestations[id].status # "Challenged"

MayChallenge(id) == id \in Ids /\ attestations[id].status = "Active"

Challenge(id) ==
    /\ MayChallenge(id)
    /\ attestations' = [attestations EXCEPT ![id].status = "Challenged",
                                            ![id].challenger = MockAccount]
    /\ Emit("Challenged", id)
    /\ UNCHANGED <<policies, reputations, stakedTotal>>

(* Mutation: a verdict is accepted on what nobody disputes.                *)
MayResolveUndisputed(id) ==
    id \in Ids /\ attestations[id].status \in {"Active", "Challenged"}

MayResolve(id) == id \in Ids /\ attestations[id].status = "Challenged"

(* Mutation: a defended challenge is not counted.                          *)
CountersAfterUndefended(rep, fraudulent) ==
    IF fraudulent THEN [rep EXCEPT !.slashed = @ + 1]
    ELSE [rep EXCEPT !.successful = @ + 1]

CountersAfter(rep, fraudulent) ==
    IF fraudulent THEN [rep EXCEPT !.slashed = @ + 1]
    ELSE [rep EXCEPT !.successful = @ + 1, !.challengesDefended = @ + 1]

Resolve(id, fraudulent) ==
    /\ MayResolve(id)
    /\ attestations' = [attestations EXCEPT ![id].status =
                          IF fraudulent THEN "Slashed" ELSE "Finalized"]
    /\ reputations' = [reputations EXCEPT ![attestations[id].attestor] =
                         CountersAfter(@, fraudulent)]
    /\ Emit("Resolved", id)
    /\ UNCHANGED <<policies, stakedTotal>>

CreatePolicy(triggerTypes, expiry) ==
    /\ Len(policies) < MaxPolicies
    /\ policies' = Append(policies, [triggerTypes |-> triggerTypes,
                                     expiry |-> expiry, status |-> "Active"])
    /\ Quiet
    /\ UNCHANGED <<attestations, reputations, stakedTotal>>

(* Mutation: only the clock decides.                                       *)
LapsedByClock(policy, now) == policy.expiry <= now

Lapsed(policy, now) == policy.status = "Expired" \/ policy.expiry <= now

(* submitClaim on a lapsed policy marks it and throws, whatever the        *)
(* attestation the claim names.                                            *)
RefuseLapsed(p, now) ==
    /\ p \in PolicyIds
    /\ Lapsed(policies[p], now)
    /\ policies' = [policies EXCEPT ![p].status = "Expired"]
    /\ Quiet
    /\ UNCHANGED <<attestations, reputations, stakedTotal>>

(* How many payouts of a policy were announced.                            *)
PaidAt(p) == {i \in 1 .. Len(log) : log[i].name = "ClaimPaid" /\ log[i].id = p}

Payouts(p) == Cardinality(PaidAt(p))

(* triggerFromOutput: the trigger is the tag of the uri, if it is known.   *)
Covers(policy, att) == att.uri \in Triggers /\ att.uri \in policy.triggerTypes

(* submitClaim that pays: a Claimed policy is paid again, and neither the  *)
(* status nor the model of the attestation is looked at.                   *)
PayClaim(p, id, now) ==
    /\ Payouts(p) < MaxPayouts
    /\ p \in PolicyIds
    /\ ~Lapsed(policies[p], now)
    /\ id \in Ids
    /\ Covers(policies[p], attestations[id])
    /\ policies' = [policies EXCEPT ![p].status = "Claimed"]
    /\ Emit("ClaimPaid", p)
    /\ UNCHANGED <<attestations, reputations, stakedTotal>>

Stake(amount) ==
    /\ stakedTotal + amount <= MaxStaked
    /\ stakedTotal' = stakedTotal + amount
    /\ Quiet
    /\ UNCHANGED <<attestations, policies, reputations>>

Unstake(amount) ==
    /\ amount <= stakedTotal
    /\ stakedTotal' = stakedTotal - amount
    /\ Quiet
    /\ UNCHANGED <<attestations, policies, reputations>>
-----------------------------------------------------------------------------
(* Mutation: a late subscriber only gets what happens from now on.         *)
ReplayedNothing(ring) == <<>>

(* What a fresh feed shows once the ring has been replayed to it.          *)
Replayed(ring) == ShownAfter(<<>>, ring)

(* subscribeEvents: replay, then register.                                 *)
MountFeed(f) ==
    /\ f \notin DOMAIN feeds
    /\ feeds' = [g \in DOMAIN feeds \cup {f} |->
                    IF g = f THEN Replayed(recentEvents) ELSE feeds[g]]
    /\ UNCHANGED <<attestations, policies, reputations, stakedTotal,
                   recentEvents, log>>

(* Navigating away unsubscribes the feed and drops its entries.            *)
UnmountFeed(f) ==
    /\ f \in DOMAIN feeds
    /\ feeds' = Restrict(feeds, DOMAIN feeds \ {f})
    /\ UNCHANGED <<attestations, policies, reputations, stakedTotal,
                   recentEvents, log>>

Next ==
    \/ \E a \in Accounts, m \in ModelIds, u \in Uris, s \in Offers :
          SubmitAttestation(a, m, u, s)
    \/ \E id \in Ids : Challenge(id)
    \/ \E id \in Ids, fraudulent \in BOOLEAN : Resolve(id, fraudulent)
    \/ \E ts \in TriggerChoices, e \in Expiries : CreatePolicy(ts, e)
    \/ \E p \in PolicyIds, now \in Times : RefuseLapsed(p, now)
    \/ \E p \in PolicyIds, id \in Ids, now \in Times : PayClaim(p, id, now)
    \/ \E amount \in Amounts : Stake(amount) \/ Unstake(amount)
    \/ \E f \in Feeds : MountFeed(f) \/ UnmountFeed(f)

Spec == Init /\ [][Next]_vars
-----------------------------------------------------------------------------
(* A feed shows the newest events, newest first, whether they reached it   *)
(* live or by replay and whenever it was mounted: between replay and       *)
(* registration nothing is lost or shown twice, and the ring is deep       *)
(* enough for what a feed shows.                                           *)
FeedShowsLatest ==
    \A f \in DOMAIN feeds :
        feeds[f] = [i \in 1 .. (IF Len(log) < FeedLimit THEN Len(log)
                                ELSE FeedLimit) |-> log[Len(log) + 1 - i]]

(* The event stream tells the whole story: from the events about it alone, *)
(* in the order they were emitted, an observer knows the status of every   *)
(* attestation, and a policy counts as claimed only if a payout was        *)
(* announced.                                                              *)
EventsAbout(id) ==
    {i \in 1 .. Len(log) : log[i].name # "ClaimPaid" /\ log[i].id = id}

(* The events about an attestation are exactly these, in this order.       *)
Told(id, names) ==
    \E at \in [1 .. Len(names) -> EventsAbout(id)] :
        /\ EventsAbout(id) = {at[k] : k \in 1 .. Len(names)}
        /\ \A k \in 1 .. Len(names) : log[at[k]].name = names[k]
        /\ \A k \in 2 .. Len(names) : at[k - 1] < at[k]

StoryOf(status) ==
    CASE status = "Active"     -> <<"AttestationSubmitted">>
      [] status = "Challenged" -> <<"AttestationSubmitted", "Challenged">>
      [] OTHER -> <<"AttestationSubmitted", "Challenged", "Resolved">>

EventsTellState ==
    /\ \A id \in Ids : Told(id, StoryOf(attestations[id].status))
    /\ \A p \in PolicyIds :
          /\ policies[p].status = "Claimed" => Payouts(p) > 0
          /\ policies[p].status = "Active" => Payouts(p) = 0

(* The counters, only ever incremented, agree with a recount of the        *)
(* attestor's settled attestations.  Unlike on chain, where an undisputed  *)
(* attestation also succeeds, every success is a defended challenge here.  *)
Settled(a, verdict) ==
    {id \in Ids : attestations[id].attestor = a
                  /\ attestations[id].status = verdict}

ReputationRecount ==
    \A a \in Accounts :
        LET survived == Cardinality(Settled(a, "Finalized"))
        IN  reputations[a] =
              [successful |-> survived, challengesDefended |-> survived,
               slashed |-> Cardinality(Settled(a, "Slashed"))]

(* Once a claim has been refused because the policy expired, the policy    *)
(* stays expired and pays nothing more, even if the clock is set back.     *)
ExpiredIsFinal ==
    [][ \A p \in PolicyIds :
          policies[p].status = "Expired" =>
              policies'[p].status = "Expired" /\ Payouts(p)' = Payouts(p) ]_vars

(* The mock keeps the promise the registry makes to its readers, with ids  *)
(* counted from 1: code written against one works against the other.       *)
Readable ==
    [i \in 0 .. Count - 1 |->
        [attestor |-> attestations[i + 1].attestor,
         model_id |-> attestations[i + 1].modelId,
         commitment |-> attestations[i + 1].uri,
         status |-> attestations[i + 1].status]]

Lifecycle == INSTANCE AttestationLifecycle
                 WITH Attestors <- Accounts, Commitments <- Uris,
                      records <- Readable

ImplementsLifecycle == Lifecycle!LifecycleSpec
=============================================================================
