# CasperProof in TLA+

CasperProof lets AI agents commit to what they output on the Casper chain, with
a stake that a successful challenge slashes, and sells insurance that pays out
when an attestation of a claim oracle backs a claim. This directory holds the
TLA+ model of the contracts under `src/contracts` and of the off-chain parts listed
below, the TLC configurations that
check it on small instances, and the theorems TLAPS proves about it for every
value of the constants.

## The system

### Components, their state and operations

| Component | State | Operations | Talks to |
|---|---|---|---|
| Attestation registry (`contracts/src/attestation_registry.rs`) | count, attestations, reputations, configuration | `submit_attestation`, `challenge`, `resolve`, `finalize`, readers | STAKE token (`transfer_from`, `transfer`) |
| Insurance (`contracts/src/insurance.rs`) | policies, LP positions, total staked | `buy_policy`, `claim`, `stake`, `unstake`, readers | USDC token; reads the registry with `get_attestation` |
| Tokens (`contracts/src/tokens.rs`) | balances, allowances | `approve`, `transfer`, `transfer_from` (wrapping odra's `Cep18`) | called by holders and by both contracts |
| Commitment library (`packages/commitment`, `contracts/src/commitment.rs`) | none | canonical JSON, blake2b, commitment | used by SDK, agent, server |
| SDK (`packages/sdk`) | mock backend: records, reputations, a ring of events, subscribers; REST backend: none | the contract entry points as async methods, `subscribeEvents`, retrying `get` | CSPR.cloud over HTTP |
| Agent (`packages/agent`) | payload store (in memory or an S3 bucket), `running` flag of the loop | `attest`, `verify`, `evaluateClaim`, `scoreRisk`, `runOnce`, `runLoop`, `stop` | SDK, S3, an LLM that may be absent |
| x402 server (`apps/x402-server`) | the requests being served | payment gate, `GET /attestation/:id`, `POST /verify` | facilitator, SDK, store |
| MCP server (`apps/mcp-server`) | the calls being served | seven tools that forward, behind one guard | SDK, agent |
| Web application (`apps/web`) | component state of each view, its timers, the wallet's status | unstake flow, wallet connection, the demo steps, risk assessment | in-memory SDK, mock wallet |
| Scripts (`scripts/seed-demo.ts`, `packages/agent/src/cli.ts`, `scripts/deploy-testnet.ts`, `contracts/bin/livenet.rs`) | how far they got; `.env.local` | seeding, the agent's cycle, deployment | SDK, store, the chain |
| Presentation and tooling (`packages/ui`, `apps/marketing`, `e2e`, `docker`, `contracts/problem`) | none | rendering, packaging, error documents | |

### What is hard about it, and what makes it correct

* **Registry.** Deploys of attestors, challengers, the resolver and whoever calls
  `finalize` interleave around the edge of the dispute window. It is correct when
  it can always pay what it owes, never pays twice, splits a slashed stake without
  loss, keeps its counters in step with its records, respects the window in
  milliseconds although it is configured in seconds, and never holds a stake that
  no call can free.
* **Insurance.** Capital, premiums and payouts share one balance, and a claim
  depends on the state of another contract at that very moment. It is correct when
  the books and the balance agree, positions stay redeemable as far as there is
  money, and a payout needs an attestation that is neither disputed nor slashed.
* **Both together.** The vault reads records that other deploys change.
* **In the browser.** Feeds subscribe late and must show what early ones show;
  refreshes overlap with each other and with writes.
* **On the pages.** Timers and animation frames fire between clicks: a withdrawal is
  checked now and executed later, an assessment is restarted while it runs, demo
  steps stay clickable, pages keep copies of what the SDK holds. They are correct
  when the copies agree, the pool keeps its floor and what is started ends.
* **Off chain.** `attest`, `verify`, `challenge` and the routes and tools over them are
  chains of awaits that interleave with each other and with writers of the same
  registry and bucket; reads are retried, payloads vanish or change, a facilitator,
  a bucket or a language model fails or never answers. They are correct when a
  verdict or an answer is true of what was there when it was given, an unpaid
  request learns nothing, a script tells what it leaves behind, and no task hangs
  on the process itself.
* **Pure algorithms.** Commitments must tell calls apart and survive re-ordered
  JSON; claim decisions must follow the evidence; a breakdown must tell its score.

`PROJECT.json` lists every component and every hazard with its source line.

## Modules

| Module | Models |
|---|---|
| `Cep18` | the token as operators on a ledger value: what a transfer, pull or approval needs and does |
| `Totals` | finite sums as recursive functions (no `RECURSIVE` operator, so they can be proved about) |
| `AttestationLifecycle` | abstract: what a reader of the registry may rely on |
| `AttestationRegistry` | the registry: one action per writing entry point, direct token calls, the clock; its properties |
| `Insurance` | the vault over the abstract lifecycle; its properties |
| `CasperProof` | both contracts deployed together, the vault reading the real records |
| `MockBackend` | the SDK's in-memory backend and the live feeds subscribed to it; its properties |
| `Dashboard` | the attestation list of the web application over that backend, with overlapping refreshes |
| `Wallet`, `WebSdk` | the mock wallet, and what all pages share: client, wallet, `verify` |
| `StakingPage` | staking view, solvency arithmetic, withdrawal flow with its animated check |
| `SlashPage`, `InsurancePage`, `OraclePage` | the three demo views and their copies of attestations and policies |
| `RiskModel` | the fifteen factors, both scorers, both tier tables, the derived breakdown |
| `AssessmentPage` | the animated risk assessment, timer by timer, and the page of a shared result |
| `WebApp` | one page mounted at a time over the shared client; navigation; properties across pages |
| `Commitment` | JSON values, canonical text (TypeScript and Rust), payload hash, commitment |
| `PayloadStore` | the content-addressed store over memory or a bucket |
| `RestBackend` | one read of the live client, attempt by attempt; codes and statuses |
| `AgentTasks` | `attest`, `verify`, reads and challenges, await by await, over either client |
| `X402Server`, `McpServer` | the routes behind the payment gate; the seven tools behind `guard` |
| `AgentRuntime` | `runLoop`, `stop`, the deterministic policy and a language model's decisions |
| `ClaimOracle` | the decision on a claim |
| `Scripts`, `DeployScript` | seeding and command line over `AgentTasks`; the deployment and `.env.local` |
| `Services` | a process of one of these kinds in one of its environments, with everybody outside it; properties |
| `MC*` | constants for TLC |
| `LedgerProofs` | lemmas on sums and on the ledger of a token, for the proofs about the contracts |
| `AttestationRegistryProofs`, `InsuranceProofs`, `SystemProofs` | theorems about the registry, the vault, and both deployed together |
| `MockBackendProofs`, `DashboardProofs`, `WebAppProofs` | theorems about the in-memory backend, the attestation list over it, and the pages |
| `ServicesProofs` | theorems about a process of the services: tasks, store, servers, tools, runtime, claim oracle, scripts |

Composition: `AttestationRegistry` implements `AttestationLifecycle`
(`ImplementsLifecycle`, mapping `records <- Readable`); `Insurance` is specified
over `AttestationLifecycle`; `CasperProof` runs `AttestationRegistry` and the
actions of `Insurance` side by side and implements `Insurance!Spec`
(`ImplementsInsurance`). `MockBackend` implements `AttestationLifecycle` too, so the
registry and its stand-in are held to the same promise. `Dashboard` and `WebApp`
run over `MockBackend`. `Services` runs over `AttestationLifecycle`, which both
backends of the SDK implement, so what holds there holds over either.

### How model and code correspond

* **One action is one deploy.** The chain executes deploys one after the other and
  undoes everything a reverting deploy did. So an action is a whole entry point
  with every token call it makes; its guard is the conjunction of all checks on the
  way, those of the token and of checked `U256` arithmetic included, and a
  reverting call is a stuttering step. Where an entry point makes two transfers
  (`resolve`), the second is checked against the ledger the first one leaves.
* **State.** `attestations`, `reputations` and `count` are the contract's `Mapping`s
  and `Var`; ids run from 0 to `count - 1`, so functions over `0 .. count - 1`
  stand for the mappings. Hashes and uri of an attestation are one opaque value
  (`Commitments`): no entry point looks into them. `Init` is the state after the
  deployer has distributed the tokens.
* **Token.** odra's `Cep18` is outside the repository; `Cep18.tla` states what its
  callers meet: no transfer to oneself, balance and allowance checks, a pull of
  zero returns at once, `approve` overwrites. Each token has one spending contract,
  so an owner has one allowance.
* **Widths.** `u64` time saturates at `MaxU64` (`Saturated`); the `U256` product
  and sum of `resolve` and the product of `buy_policy` revert beyond `MaxU256`.
  Other `U256` sums are parts of one token's supply and cannot overflow; `u64`
  counters are bounded by the number of deploys.
* **Who may call.** `resolve` checks its caller, `finalize` does not, and `claim`
  is only for the holder; other actions take any account.
* **In-memory backend.** Its methods are `async` but await nothing, so a call is one
  action, the event handlers it runs included; a method that throws changes nothing,
  except that `submitClaim` marks a lapsed policy first (`RefuseLapsed`). Sequences
  stand for its maps, whose ids are given out from 1. The clock is an input of each
  claim, since the host's clock may step back. `log` is a history variable; what the
  ring and the feeds hold after a call's events is a recursive function of them
  (`RingAfter`, `ShownAfter`). A feed
  (`LiveFeed`) is its list of entries, created by the replay when it mounts.
* **Refresh.** `refresh` of `useAttestations` is three steps, split at its two awaits.
  Against the in-memory backend all of them are promise continuations of equal depth,
  which run in the order they were queued; `LoadRecords` and `MayShow` say so.
* **Pages.** The application's `getSdk()` is always the in-memory client, whose methods
  settle in microtasks, before the browser takes the next event. So an event handler
  with all its awaits is one action and its busy flag is never seen; only timers and
  animation frames come between. Leaving a page drops its state and clears its timers;
  client and wallet stay. `outputs` of `WebSdk` is the output hash of each attestation
  (a perfect hash). Digests of a seed (its score and jitter) are inputs.
* **Tasks.** Each `await` of a service is a step. A task (`tasks[s]`) is a chain of
  them: its `stage` names the await it is at and `answer` what it will return;
  `answered` is the server's reply, which the client takes away (`Dismiss`). A read of
  the live client ends at each attempt with one of the API's answers (`RestReplies`)
  or with none, and sleeps before a retry; writes of the live client are the
  placeholders of the source: they change nothing on the chain and make up an id.
* **Environments.** What a process is (`services`), the variables it finds set (token,
  bucket, facilitator, mock opt-in, production, Ollama), which payloads exist and what
  others may put in their place are fields of `Environments[deployed]`; a behaviour
  stays in one. With a token others publish on the chain; with a bucket others write to
  it; without either, registry and store belong to the process.
* **JSON.** A value is an atom, a number, an array or an object whose members have an
  order of writing. A text is a sequence of tokens: the marks of JSON, and one token for
  each atom or number. What the source leaves to the engine is modelled by what it does:
  `sorted[key] = ...` makes no member of `__proto__` (`Written`), and keys that spell an
  array index are enumerated first and by value (`Precedes`). A hash is
  the hashed sequence itself; model id and time are encoded byte by byte, a time by the
  shifts of the source (`Remaining`). `Json` is the set
  of the values there are, closed under parts: what recurses over a value (`Text`,
  `Canonicalizable`, and `Alike` of the properties) is a recursive function on it, so that
  modules over `Commitment` can be proved about; `Nesting` is what makes it well-founded.
* **Chains of conditions.** An early return takes precedence over what is written below
  it; a `CASE` of TLA+ takes any arm whose guard holds. So arms are guarded by the
  negation of those above them, or the chain is an `IF`; the tier tables, the attempts of
  `get`, `SolvencyLevel` and the scripts' programs are written that way.

## Runs

Each property is described at its definition. Bounds are in the `.cfg` files.

| Run | States | Bounds and why they are enough |
|---|---|---|
| `Registry_safety` | 593,560 | 2 attestations (one to settle, one whose money could be taken), 3 accounts with one in treasury and resolver roles, stakes below, at and above the minimum with an odd one so the 50% split rounds, block times at 0, on the last millisecond of the window, just after it and past the second window; with fairness, for `EverySettled` |
| `Registry_edges` | 1.7 M | minimum stake 0, stakes 0 to 2, whole-stake reward, the attestor may be treasury and resolver, partial allowances, direct transfers, and a `MaxU64` that the end of a window passes |
| `Insurance_safety` | 2.6 M | 2 policies with a premium that rounds to zero and one that does not, 2 attestations of 2 models in every status, capital staked twice, withdrawn, and sent directly |
| `System` | 52,416 | 1 policy, 2 attestations of the claim model, all interleavings with the registry, the window closing in between |
| `Mock_backend` | 153,736 | 2 attestations with and without a trigger, so up to 6 events and 2 payouts pass a ring of 3; feeds of 2 entries that mount and unmount at any moment; a policy claimed twice; clock readings on both sides of the expiry in any order; attestors are interchangeable |
| `Dashboard_view` | 122,814 | 2 attestations, 3 refreshes under way, the page left and opened again |
| `Web_app` | 217,698 | every page and every change between them; 2 attestations and 1 policy shared by the pages; a pool whose free surplus is 0 to 8 with amounts of 3 and 5, so requests are covered, partly covered and refused; an assessment started twice; shared results of every score from 0 to 100, with jitters at both ends for each group of factors and for each factor against the others |
| `Services` | 98,008 | 18 environments (below), 2 tasks at a time, 1 retry, 6 answers of the API |
| `Insurance_expiry`, `Insurance_withdraw`, `Insurance_premiums`, `Canonical_keys` | | each finds a statement of the repository violated |

Two attestations and two policies are enough for the safety properties of the
contracts because
each one relates a record to the common balance: one record to misbehave and one to
be harmed. They are proved without any bound, too. There no action is
blocked by a bound other than `MaxAttestations`, `LastSubmission`, `MaxPolicies`
and the sets of amounts and block times; `LastSubmission` only leaves the clock
room for the window of the last attestation to close. Deadlock checking stays on
everywhere but in `Services`, where scripts, deployments and single decisions end.

Bounds of `Services`. Two slots let a task be overtaken by any other at each of its
awaits; three would add tasks that meet nobody new, since tasks share only the
registry, the store, the policies and the `running` flag, and what a third could do
to those, `OthersWrite`, `OthersSpoil` and `stop` do. One retry has a first, a last
and a repeated attempt. The answers of the API are one of each way an attempt can
end: no answer, JSON, a page that is not JSON, not found, a status that is not
retried, a retryable status with a problem body. Servers and tools meet one record
(room 1) and ask for it before and after it exists; scripts have room for the four they
make. What may lie in the place of a payload (`spoilt`) is chosen per environment:
nothing, bytes that are not JSON, the same value written otherwise, another value,
another call's wrapper, an output that throws when it is hashed, an input or a time that
does. The environments are `laptop`, `tools` and
`agent` (nothing set), `live`, `live_tools` and `live_agent` (the chain, a bucket and a
facilitator where the process has one), `insurer` and `insurer_live` (policies), `closed`
(production without a way to check payments), `seed`, `seed_s3`, `seed_live`, `cli`,
`cli_s3`, `cli_live`, `claims`, `commitments` and `deploy`; a process is never in two of
them, so their states add up instead of multiplying. Claim decisions are checked for
all evidence with deviations around each threshold, commitments for all pairs of calls
over values that differ in order, kind, nesting or a `__proto__` member and over model ids and times whose
bytes run into each other (bytes have `Base` 2 and a `u64` has `Width` 2), deployments
for 3 runs.

What the violated statements show:

* `LiveUntilExpiry`: the SDK and the deploy script give policy expiries in unix
  seconds; the contract compares them with a block time in milliseconds, so such a
  policy is already expired when it is bought.
* `WithdrawalsKeepCover`: the staking page promises that withdrawals keep the pool
  collateralised at 120%; `unstake` only checks that the vault holds the amount.
* `PremiumsReachProviders`: providers are said to earn from premiums; no entry point
  ever pays a premium out to them.
* `RustAgrees`: `canonical.ts` inserts sorted keys into an object, and the engine writes
  keys that spell an array index first and by value ("9" before "10"), where the Rust
  mirror sorts all keys as strings; and it drops a member `__proto__`, which the mirror
  keeps. The payloads of this repository have no such keys.

Behaviour of the code that the models keep and that a reader may not expect:

* A payment is checked, and settled, before the attestation is looked up: a request
  for an unknown id is charged and answered 404.
* Live `createPolicy`, `submitClaim` and `challenge` are placeholders: they report
  success (a claim is reported paid, with id 0) and change nothing. `AnswersTrue`
  therefore speaks of what is said not to exist. That the API answers 404 for a record
  exactly if there is none is an assumption about the API.
* `verify` reads the attestor's reputation after the record, by the same `get`. If the
  API answers that with 404, because it knows no reputation of the attestor, the server
  and the tools report `ATTESTATION_NOT_FOUND` of an attestation
  that exists (`rest-backend.ts:160`, `server.ts:107`). Of a reputation nothing is assumed,
  and `AnswersTrue` names this one exception.
* The stake comes from the environment (`agent.config.ts:106`) or from a tool's caller and
  is not validated. In memory one below the minimum fails with `INSUFFICIENT_STAKE`, one
  that does not parse with `INTERNAL_ERROR`, in both cases after the payload was stored; the
  command line then ends with nothing on record (so `ScriptsTellState`). The seeding
  has a stake of its own, which is enough.
* A member named `__proto__` is lost from the canonical text (`canonical.ts:54`), so values
  that differ only there share a commitment, and a verdict cannot tell them apart:
  `CommitmentFaithful` and `VerdictsHonest` compare by `SameValue`, which ignores them.
* A payload whose input or time cannot be hashed fails the whole `verify`
  (`verifier.ts:96`), even where its output is the attested one.
* The in-memory backend reads a claim's trigger from a tag of the attestation's uri, and
  no payload put by a tool gets one, so every claim of the MCP tool `submit_claim` on an
  active policy is refused.
* The seeding tampers with a payload without awaiting it. In memory that takes effect at
  once; over a bucket the promise is rejected, nobody handles it, and the process ends
  while it verifies, before it challenges anything.
* The slash demo's steps stay clickable, so "verified" may be shown of an attestation
  already slashed; `SlashTellsStatus` therefore claims nothing of that step.

### Fairness

Safety is checked without fairness. `EverySettled` needs three assumptions, all on
the contract's environment: blocks keep coming (`Tick`), the resolver eventually
rules on a disputed attestation, and somebody eventually calls `finalize` on a
lapsed one. The last is in the attestor's own interest, since it returns its stake;
nothing in the repository automates it. The property then says that challengers
can delay but not prevent settlement. Weak fairness suffices because, once possible,
each of these steps stays possible until taken or until a challenge replaces it.

`AssessmentCompletes` assumes that a browser fires the timers of a page left open
(`WF` of `PipelineTimer`). `ServicesProgress` assumes for each slot that the process
goes on unless the task waits for somebody without a time limit (`Outside`): the
facilitator, the bucket and the language model are called with no timeout in the
source, so nothing is assumed of them and the property excuses a task that waits for
them. Reads of the live client are aborted after `timeoutMs` and the memory backend
answers at once. Fairness per slot is what an event loop gives: a settled promise's
continuation is run. No fairness is assumed of clients, of other writers, of the user,
or of a start of a task.

## Proofs

Every theorem holds for all values of the constants that satisfy the assumptions of
the modules (below), so without the bounds of the runs: any number of accounts,
attestations, policies, feeds, refreshes; any stakes, shares, windows and widths.

| Module | Theorem | States |
|---|---|---|
| `LedgerProofs` | `TotalChange` | changing one summand changes a total by the difference |
| `AttestationRegistryProofs` | `TypeCorrect` | `Spec => []TypeOK`: nothing ever goes below zero |
| | `AlwaysSolvent` | `Spec => []Solvent` |
| | `SurplusConserved` | `Spec => SurplusOnlyDonated` |
| | `NeverWedged` | `StakesFit` implies `Spec => []NeverStuck` |
| | `WindowAlwaysRespected` | `Spec => []WindowRespected` |
| | `LifecycleImplemented` | `Spec => ImplementsLifecycle` (refinement) |
| | `ReputationRecounts` | `Spec => []ReputationMatchesHistory` |
| | `MoneyFollowsRecords` | `Spec => PaidByTheRecord` |
| `InsuranceProofs` | `VaultTypeCorrect` | `Spec => []TypeOK` |
| | `BooksKept`, `BooksAlwaysCovered` | `Spec => VaultByTheBook`, `Spec => []BooksCovered` |
| | `PositionsAlwaysAddUp`, `WithdrawalsNeverBlocked` | `Spec => []PositionsAddUp`, `Spec => []PositionsRedeemable` |
| | `DisputeStopsPayouts` | `Spec => NoPayoutWithoutTrust` |
| `SystemProofs` | `VaultImplemented` | `SystemSpec => ImplementsInsurance` (refinement) |
| | `BothAlwaysSolvent` | `SystemSpec => []BothSolvent` |
| | `PayoutsBacked` | `SystemSpec => PayoutsAreStaked` |
| `MockBackendProofs` | `BackendTypeCorrect`, `FeedsShowLatest` | `Spec => []TypeOK`, `Spec => []FeedShowsLatest` |
| | `ReputationAlwaysRecounts` | `Spec => []ReputationRecount` |
| | `MockLifecycle` | `Spec => ImplementsLifecycle` (refinement) |
| | `StreamTellsState` | `Spec => []EventsTellState` |
| | `ExpiredNeverPays` | `Spec => ExpiredIsFinal` |
| `DashboardProofs` | `ListNeverGoesBack` | `DashboardSpec => ViewNeverRegresses` |
| `WebAppProofs` | `PagesTypeCorrect` | `WebSpec => []WebTypeOK` |
| | `RequestsStayBacked`, `FloorIsKept` | `WebSpec => []WithdrawalBacked`, `WebSpec => UnstakeKeepsFloor` |
| | `PagesTellTruth` | `WebSpec => []PagesTellState` |
| | `BreakdownTruthful` | `WebSpec => []BreakdownTellsScore` |
| `ServicesProofs` | `ServicesTypes` | `ServicesSpec => []ServicesTypeOK` |
| | `AnswersAreTrue`, `VerdictsAreHonest` | `ServicesSpec => AnswersTrue`, `ServicesSpec => VerdictsHonest` |
| | `ClaimsDecided` | `ServicesSpec => []ClaimDecisionSound` |
| | `CommitmentsFaithful` | `ServicesSpec => []CommitmentFaithful` |
| | `CanonicalTextsTell` | two values have one canonical text exactly if they are `SameValue` |
| | `ScriptsTell` | `ServicesSpec => []ScriptsTellState` |

### The arguments

*Sums.* A total is a recursive function, so `LedgerProofs` first shows that the
recursion has a solution (by the least counterexample, since the induction theorems of
the library need an operator as a parameter), and from it what a longer function, an
equal one and a change of one summand do to the total; likewise for sums over a finite
set, and what a transfer, pull or approval does to each balance of a ledger. The argument
for the recursion is stated once for any function that looks only at what is of smaller rank
(`RecursionExists`), and serves the texts of JSON values too.

*Registry.* `Solvent` is not inductive alone: a verdict pays `challenge_bond` from
the record, and whether that was collected depends on how the record came about.
`IInv` therefore adds `RecordsWellFormed`: a record carries the configured bond
exactly when it has a challenger, has none while Active, and has one while
Challenged or Slashed. For each action the change of the escrow is computed and
compared with the change of the registry's balance; they are equal for every entry
point, which is `SurplusConserved`, and `Solvent` follows. `NeverStuck` follows because
what a settlement pays is part of the escrow, hence covered by the balance. The window
needs `CreatedInThePast`: no record is from a later block. It turns on the saturating
addition never closing a window early, and never leaving one open past its end, since
block times are themselves `u64`. A recount of the reputations changes by the one
record that changed, and the balance of each account likewise (`MoneyFollowsRecords`);
there the account may be attestor, challenger and treasury at once, so its parts are
added up.

*Vault.* `PositionsAddUp` is inductive with the types; `PositionsRedeemable` follows,
because a member of a sum of naturals is not above the sum. `VaultSurplus` is unchanged by
every deploy of the contract, which is `BooksKept`, and `BooksCovered` follows.

*Both.* The readable records of the real registry take each step the abstract oracle
may take, so `SystemSpec` implements the vault's specification, and the vault's theorems
are taken over for the deployed one through that instance. `PayoutsAreStaked` needs
`StakesAreEnough`: no record was published below the minimum stake.

*In-memory backend.* The invariant says that the ring is the newest `RingSize`
events of the history and each feed the newest `FeedLimit` of them, latest first. A new
event moves both windows by one; mounting replays the ring, and because a feed is no
longer than the ring nothing it should show is missing. `EventsTellState` needs
`EventsOnRecord`: events are only about records that exist, so a new record has no
story yet. Then a call adds its one event to the story of one record and moves that
record as the event says.

*Attestation list.* Refreshes under way are ordered in time: each brings no less than is
shown and no less than the one started before it, and nothing of the future (`InTime`,
`InOrder`). A write only moves records on, so what was loaded stays in the past.

*Pages.* `WebInv` is one part per page, each over the page's state and the
shared backend. A page's own handlers keep its part; those of the others only add records
and payouts of other policies (`OnlyAdded`, `NonePaid`), which no part minds. The parts
say: staking, that a request shown as executable is withdrawable and the user's
stake is part of the pool; slash demo, that its step tells the status of its own record;
insurance, that a copied policy and the policy behind it agree, and that a policy was paid
at most once and exactly if it counts as claimed; assessment, that the steps before the
current one and no others are done (`PipelineAt`). The floor argument is arithmetic:
a withdrawal is covered by the surplus above the required capital.

*Breakdown.* A weighted sum of the factors is a `Total`, so it is linear and monotone in them
(`WeightedLinear`, `WeightedMonotone`), and the weights add up to 100 (`HundredPercent`).
`computeFactors` starts at the score with a jitter of up to 22 points, and moves all factors, six
times, by what their mean lacks of the score; a factor that would leave the scale stops at its
end. No pass overshoots (`NoOvershoot`), so all of them move the same way; one direction is the
other in the mirror (`Mirrored`, `PassMoves`), and it is enough to look at the way down. A factor
at zero stays there. Let Z be the weight, in percent, of those at zero in the end. Two facts bound
the distance that is left (`Descent`): each pass leaves at most Z percent of the distance and what
the division rounds off, as at most Z percent were stopped during it; and the sum in the end
is only that of the other factors, each of which began no higher than 22 points above the score and
went down by every pass. The more factors are stopped the slower the distance shrinks, but the less
there is to remove: by cases on ranges of Z the two leave at most 1.5 points, and less
than 0.05 where the score is 25 or more (`Residual`). So the mean is within 1.5
points of any score, and settled for one from 25 to 75 (`PassesReconcile`). Rounding the factors
moves their mean by half a point at most (`FactorsShown`), rounding the scores of their groups by
another half (`CategoriesShown`), and so does the agent's scorer when it is given the factors
(`ScorerAgrees`): these are the tolerances of `Reconciles`. The tier tables are compared
interval by interval (`TiersAgree`).

*Services.* `ServInv` says, of the data, that a key nobody spoiled holds nothing or a payload of
its own bytes, and that in memory what is on record was stored before (`KeysHold`,
`RecordsHad`). Of each task it says that its stage goes with its job, its caller and its answer
(`Proper`), and that what the rest of the code relies on after an await was there
before it: a payload is read only of a published record, a record submitted only for a
payload already put (`Backed`). Every step of every server, tool or runtime moves at most
one task (`Moves`) and takes nothing away (`Kept`: records, objects that were had), so the
tasks in the other slots stay backed whatever interleaves; that is the argument that state
read before an await is not stale after it. `AnswersTrue` needs in addition what a step did
(`Honest`): a "not found" is decided by the step that says so, of a record that is not there
or, in a live verification, by the read of the reputation. `VerdictsHonest` follows
for the step that reads the payload: an unspoiled key holds the attested bytes, so `FAIL`
means that others have written there.

*Claims.* The highest score decides (`ClassifiedHighest`), a confidence of 70 needs both
kinds of evidence (`Proven`), and the amount is a minimum. Further evidence adds to a
score and takes nothing away, so confidence only grows.

*Commitments.* The preimage is two digests, the bytes of the model id, of any length, and the
bytes of the time. What is left of a time after each shift fits the bytes to come
(`RemainingFits`), so nothing is left after the last and the bytes tell the time
(`BytesTell`, for every base and width). As a time always takes the same number of bytes, the length of the
preimage tells where the model id ends (`RowTells`), and so the preimage tells all four parts
(`PreimageTells`). The digests are of canonical texts, and a text tells its value
(`CanonicalTextsTell`). The names of an object's members come in one order whatever the
order of writing (`Precedes` is total, as ranks and indices tell names). Followed by anything,
a text tells what it is of and what follows it: by least counterexample over the nesting of
values, and in a bracketed text (`Enclosed`) over how many parts are left (`EnclosedTells`). A closing
mark begins no part, so lists of different lengths part there; texts that begin alike and
are of values that tell are followed alike, so what is left is a shorter list.

*Scripts.* `ServInv` does not say how far a script has got. `TellInv` does, of a process whose
registry is its own: at each step, how many records have been made and with which ids
(`MadeOK`), which one is challenged or slashed (`StatusOK`), what has been told (`Told`),
what the task under way will answer (`Expected`), what lies at the spoiled key (`SpoiledOK`),
and that over a bucket a script gets no further than the tampering (`EndOK`). A submission
is the only other place to fail, on a stake that is not enough, and then nothing of it is on
record (`AtSubmission`, `Refusals`). It holds for a
seeding of any number of payloads. The deployment keeps its own (`DeployOK`): addresses in
`.env.local` are of one run.

### Assumptions used

* The registry's and the vault's own addresses are none of the accounts, so no contract
  pays or calls itself; accounts are finitely many (sums over them).
* Shares and premiums are at most 10000 basis points (checked by `init`); inputs,
  windows and widths are natural numbers. `StakesFit`, for `NeverWedged` only, says that the
  product of a stake and the reward share fits a `U256`.
* The ring holds at least one event and a feed shows no more than the ring
  (100 events and 12 entries in the source).
* `FloorAssumption`: the pool's minimum ratio lies above what the badge calls
  critical (120% and 110%). `WebAssumption`, `StakingAssumption`, `SharedAssumption`: the
  names the pages use are among the constants, amounts are natural numbers and scores in 0
  to 100.
* About the services: there is a slot; what scripts attest and environments list are
  payloads with hashable outputs, the object that `corrupt` writes has an output of its own;
  a problem document has the status of its code; policies cover triggers of the
  taxonomy (`CoverAssumption`); a process that runs a script runs nothing else.
* `JsonAssumption`: the values of `Json` are of the six kinds, an object has each name once,
  what is in a value nests less deep than the value, different names have different places in
  code unit order, and different array indices are spelt differently. That is what JSON is; no
  assumption is about texts or hashes of them.
* Base and width of a time's bytes are natural numbers, a model id is a sequence of bytes, the
  values of the calls compared are in `Json` (`CommitmentAssumption`).
* The jitter of a seed's factors is within the spread of 22 points, since the digest it is
  taken from is a fraction of one (`SharedAssumption`).

TLC evaluates all of them in the runs.

### Only model-checked

Liveness (`EverySettled`, `AssessmentCompletes`, `ServicesProgress`): fairness and `ENABLED`
are outside what the prover supports. Every other property of a passing run is a theorem.

## Plan

Done: tokens, registry, lifecycle, vault and their composition; the in-memory backend
with its feeds and the attestation list; all pages of the web application; commitment,
store, agent, both servers, runtime, claim oracle and scripts over either client; the
theorems about the contracts, the in-memory backend, the list, the pages and the services.

Left: what `EverySettled` and `ServicesProgress` rest on, as safety theorems (a step towards
settlement is possible at every moment).

## Not modelled

* **Contracts.** Gas, events and error codes (an event is emitted exactly where the
  state changes, a code only names the failing guard); token names, decimals and
  initial supply; the build binary.
* **Encodings.** blake2b (a perfect hash stands for it, and golden vectors cover it),
  UTF-8, escaping of strings.
* **SDK.** The deploy builders of `onchain.ts` are pure construction; the live client's
  `getPolicy`, `getRiskScore`, `stake` and `unstake` and its subscription are called by nothing here; the
  mapping of fields, mock deploy hashes and timestamps are data.
* **Web application.** `writes.ts` and `csprclick.ts`, the on-chain writes, are imported
  by no view; going back and forward in the browser's history; React's double run of
  effects in development, under which a feed would replay the ring twice; rendering.
* **Agent.** The bound on the cycles of `runLoop` and the delays of backoff and loop; the
  `score` action, which no backend produces; the command line with a language model
  (`LLM_BACKEND` other than `none`), whose decisions, modelled in `AgentRuntime`, would take the
  place of its program, and a paid model's client that throws when it is made; creating the bucket, which nothing calls.
* **Servers.** The health route, transports, validation of arguments by schema.
* **Rest.** UI kit, marketing site, problem crate, end-to-end tests, containers,
  `fund-testnet.ts`: presentation, wording and packaging without state of their own.

## Running

    tlc -config Registry_safety.cfg MCAttestationRegistry
    tlc -config Registry_edges.cfg MCAttestationRegistry
    tlc -config Insurance_safety.cfg MCInsurance
    tlc -config CasperProof.cfg MCCasperProof
    tlc -config MockBackend.cfg MCMockBackend
    tlc -config Dashboard.cfg MCDashboard
    tlc -config Web_app.cfg MCWebApp
    tlc -config Services.cfg MCServices
    for m in Ledger AttestationRegistry Insurance System MockBackend Dashboard WebApp Services; do
        tlapm ${m}Proofs.tla
    done

Each of these finds the statement it names violated:

    tlc -config Insurance_expiry.cfg MCInsurance         # LiveUntilExpiry
    tlc -config Insurance_withdraw.cfg MCInsurance       # WithdrawalsKeepCover
    tlc -config Insurance_premiums.cfg MCInsurance       # PremiumsReachProviders
    tlc -config Canonical_keys.cfg MCServices            # RustAgrees
