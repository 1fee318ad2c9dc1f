# Verification of the IntentOS protocol

IntentOS lets an account *declare an intent* (the outcome it wants and the
limits it sets), has bonded *solvers* bid to deliver it, selects one bid, and
lets that solver settle in one transaction. This directory holds TLA+ models of
the protocol's contracts, of the services that close auctions, solve intents and
run standing orders, and of the clients that declare intents, the TLC runs that
check them on small instances, and TLAPS proofs about the models for every value
of their constants.

```
tlc -workers 2 -config Auction.cfg MCIntentRegistry.tla     # one run
tlapm IntentRegistry_proofs.tla                             # one proof module
```

`PROJECT.json` lists the runs, the source lines each definition models, the
mutants that show each property has teeth, the hazards and the findings.

## 1. Inventory of the system

Paths are relative to `src/`.

| Part | State it keeps | Operations | Talks to |
|---|---|---|---|
| `contracts/contracts/SolverRegistry.sol` | per solver: registration, bond, reputation (moving average), counters, unbonding ticket, KYB bit, capabilities; `minBond`, `unbondDelay`, the reporters | `register`, `addBond`, `requestUnbond`, `unbond`, `setCapabilities`; `reportOutcome`, `slash` (reporters); `attestKyb`, `attestCapabilities`, `setMinBond`, `setUnbondDelay`, `setReporter` (governance) | called by the intent registry, which is its reporter, and by the policy engine |
| `contracts/contracts/IntentRegistry.sol` | per intent: record (status, times, selection), list of bids, sealed commitments; the auctioneer's bond; the auctioneer, settlement and reward roles; nonces and sessions | `submit`, `submitFor`, `cancel`, `expire`, `placeBid`, `commitBid`, `revealBid`, `withdrawBid`, `selectWinner`, `selectWinnerChecked`, `challengeSelection`, `markFulfilled`, `markFailed`, sessions, governance | reports and slashes on the solver registry; called by settlement |
| `contracts/contracts/IntentSettlement.sol`, `PolicyEngine.sol` | fee, treasury, allowed routers | `settle`, `reportFailure`; `check` | reads the intent registry, moves tokens through routers, calls back `markFulfilled` / `markFailed` |
| `contracts/contracts/RWARegistry.sol`, `RwaVault.sol` | attestations with review dates, onboarding requests; vault shares | `attest`, `revoke`, `requestOnboarding`, `resolveOnboarding`; `deposit`, `withdraw` | read by the policy engine and the vault; settlement files requests |
| `contracts/contracts/RecurringRegistry.sol`, `server/_lib/recurring.ts` | standing orders, their runs and next due date | `create`, `createFor`, `cancel`, `markRun`, `dueIds`; the keeper `tickDueJobs` | the keeper declares an intent per run with its owner's session |
| `packages/solver-core/src/coordinator.ts`, `auction.ts` | reputation cache; per call of `close`: what it has read | `close`, `refresh`, `rankBids`, `selectWinnerFrom` | reads both registries through `packages/sdk/src/client.ts`, writes `selectWinnerChecked` |
| `packages/solver-core/src/solver.ts`, `planner.ts`, `quotes.ts` | sets of intents bid on and being settled | `tick`, `consider`, `settle` | bids, settles, reports failure |
| `packages/sdk/src/client.ts`, `agent.ts`, `server/relay.ts` | none | submission, direct or through the relay | intent registry |
| `packages/intent-schema`, `packages/intent-ai` | none | build, hash and parse drafts | feed the SDK |
| `apps/*`, `server/*.ts` | in-memory mempool | routes and timers | coordinator, solvers, SDK |

### What is hard

* **Many actors, one book.** Owner, auctioneer, solvers, challengers and
  governance act on one intent in any order. A selection names a bid by id; the
  book under that id must not move.
* **Two clocks at the close.** Selection is allowed from the close of the
  auction (inclusive), bids until it (inclusive), reveals after it, and
  everything until the deadline, where settling, failing, challenging and
  expiring race.
* **Nested calls.** `markFailed` and `expire` report and slash on the other
  contract and push ether to a third party; any of these may revert, and then
  the whole transaction does.
* **A bond with several lives.** It is slashed by misses of several intents,
  withdrawn on a ticket that ripens in time, overwritten by a new registration,
  and judged against a `minBond` governance moves.
* **Read, then write.** The coordinator reads the record, the time, the bids
  and the scores one call at a time and writes later.
* **A dozen calls in one settlement.** `settle` pulls, sells, checks, buys and
  pays through tokens and routers it does not control, and rounds at every step.
* **Lost answers and retries** off chain: the solver reports failure after any
  error of `settle`, the agent falls back from the relay to its own
  transaction, the keeper declares and then marks; timers and requests overlap
  and end where they stand, and what they sent lands all the same.

`PROJECT.json`'s `hazards` lists these at their lines, with the properties that
cover each and a note where none does.

### What makes each part correct

* Solver registry: it can always pay out the bonds it records; nobody stays
  registered on a bond no requirement ever allowed; a score is justified by the
  record; one ticket buys one withdrawal.
* Intent registry: a recorded selection is a standing bid chosen in time; bids
  are final; a bond falls only for a cause; the auctioneer is not punished for
  a right choice; an engagement ends once, and the solver's record counts it;
  every live intent ends.
* Coordinator: what it read is still true of the book when it writes; it does
  not pick what would be overturned, nor what could never be settled.
* Settlement: an intent is exchanged whole, once and on its own terms, or
  nothing moves; the whole spendable amount is spent, every leg meets its floor.
* Vault: every share stays redeemable, attested or not.
* Submission: nothing signed counts twice.
* Standing orders: each period is declared once, and what disturbs that is
  named; a due job gets its turn.
* Solver agent: one bid per intent, no failure reported that was not its own
  doing, no won intent left lying that could be given back.

## 2. The modules

```
 the auction                                   settlement
 IntentMarket <=implements= IntentRegistry     Exchange <=implements= RwaVault
      ^                       |        ^                                | extends
      | INSTANCE       extends|        |extends                     Settlement
 SolverAgent       SolverRegistry   Coordinator               extends /     \ extends
                                                           RWARegistry     Weights
 declaring                                                                    ^
 StandingOrders --extends--> Submission                     Planner --extends-'
                                                            PlannedSettlement
                                                            extends RwaVault, Planner

 MC<Module>       instances for TLC (MCSettlement of PlannedSettlement)
 <Module>_proofs  SolverRegistry_proofs <- MCSolverRegistry_proofs
                                       <- IntentRegistry_proofs <- Coordinator_proofs
                  Settlement_proofs    <- PlannedSettlement_proofs
                  StandingOrders_proofs, SolverAgent_proofs
```

The three groups meet at the intent's status. IntentMarket is what the first
group promises the others, and the agent's world is that module, not a copy of
the registry; Settlement and StandingOrders have the few registry transactions
they need as actions of their own.

One action is one transaction, nested calls and ether transfers included; a call
that would revert disables its action.

**SolverRegistry** models `SolverRegistry.sol`. `solvers` is `_solvers` without
the fields no contract reads back (metadata, dates, notional). `escrow` is the
contract's balance split by who paid it in: it moves with the transfers, not
with the records, which is what makes `Solvency` a statement about the code.
Record transformers (`AfterRegister`, `AfterUnbond`, `AfterOutcome`,
`AfterSlash`) are what the functions make of a record; they are operators of
their own so that the intent registry can compose two of them in one
transaction and lemmas can be stated about each. `isReporter` is the bit of the
intent registry. `attestCapabilities` differs from `setCapabilities` by its
caller only and is the same action.

**IntentRegistry** extends it and models `IntentRegistry.sol`, with the two
transactions of the settlement contract that come back to it. `PunishMiss` is
`reportOutcome(false)` followed by `_slashMissedGuarantee`: share of the bond,
runner-up or owner as payee, and the payee's refusal to take ether, which
reverts everything. `Settle` has the guards of `_open` and of
`PolicyEngine.check` that read the registries: the deadline, the reputation
floor, KYB, the gasless capability, and the fee cap. The remaining checks and
the token transfers are Settlement's; here they are a `settle` that may not
happen. Hashes are the values they commit to.

**IntentMarket** is the abstract specification: phases of an intent, who is
engaged to it, and the solver's record of kept and missed engagements. It knows
no bids, bonds, challenges or roles. `ImplementsMarket` in IntentRegistry is
its specification under a mapping: phase = status, engaged = `selectedSolver`
while SELECTED, kept and missed = `fulfilled` and `failed` of the *other*
contract.

**Coordinator** extends IntentRegistry with passes of `Coordinator.close`. Each
`await` is a boundary: the record, the time (`chainNow` may be ahead of the
chain by up to `MaxLead`), the bid count, each bid, each score, the choice, the
write. A score comes out of the cache, or off the register and is put in the cache
a step later, when the timer may have dropped it in between. Any of the calls may
fail, which ends the pass. Any transaction of anybody else, and the
clock, come in between. Valuation is abstract: the order it gives the bids, and
which it cannot price, are arbitrary. The auctioneer's key signs for the
service alone (`OthersStep`).

**Settlement** opens the one transaction up: `settle` is a frame with a program
counter that advances call by call (`Begin`, `SellExit`, `Check`, `SkipLeg`,
`HandOverLeg`, `SwapLeg`, `Close`, `OnboardOnly`) and may `Revert` at every
call, which restores the ledger and the allowances it began with. Nothing else
happens while a frame is open, as on a chain. Routers take the whole input and
yield anything; governance, attestors, transfers and the registry's side act
between frames. An engagement is what was committed and the winning bid. It
extends **RWARegistry** (attestations, review dates, onboarding requests) and
**Weights** (basis points, and the builder's weights and floors).

**Exchange** is the abstract specification of settlement: one step that takes
the owner's input and positions and pays solver, treasury and recipient, on the
intent's terms and once. `ImplementsExchange`, in Settlement, is its specification
over the ledger as seen from outside a frame.

**RwaVault** puts the vault beside the settlement that moves the same asset.
**Planner** is the planner's arithmetic and its reasons to decline.
**PlannedSettlement** puts it beside the contract's: `IsPlanned` says that the
engagement a frame settles is a draft with the bid the planner makes on it, from
the drafts, quotes and strategies in `Priced`, and the two properties compare what
the two pieces of code compute for one leg. MCSettlement makes the engagements it
settles out of such drafts (built by Weights; floors are the ones given with the
legs, or else derived from their quotes), next to bids no planner would make.

**Submission** is who may declare what: nonces, sessions, session messages, and
the client that asks the relay and falls back on its own transaction. Messages
that were signed stay around and may be handed in late, again or never.

**StandingOrders** extends it with the recurring registry and the keeper. A tick
is the read of `dueIds`, then per job a declaration and a mark, each of them
simulated, sent, landed and waited for. A job whose prompt does not compile
(`compiles`: the register takes any text, `parseIntent` throws) is never declared
and stays due. Ticks overlap, die anywhere, as one that is not waited for may
(`server/health.ts:16`), and pass over a job when one of its calls fails
(`GiveUp`: what is read, simulated or sent, or a receipt that is late); the
coordinator's transactions land in the order it sent them.

**SolverAgent** is `solver.ts`: passes over the feed that do not wait for each
other, the sets `bidded` and `settling`, and the calls, which fail in
simulation, on landing, or by a receipt that does not come. The chain side is
`INSTANCE IntentMarket`. `barred` holds the intents whose failure the registries
would not record, for the reasons SolverRegistry and IntentRegistry have: the agent
is off the register (slashed off for another intent, say), the registry's reporter
bit is gone, or the payee refuses ether. A report is then refused, in its simulation
or on landing, and swallowed as in the code; that a settlement would be refused too
is among the failures any settlement may have. Restarts empty the memory and leave the sent
transactions alone; the serverless routes, which make a solver per request, are
passes after a restart each.

### Properties

| Property | Kind | Says |
|---|---|---|
| `SRTypeOK`, `TypeOK`, `SettlementTypeOK`, `StandingTypeOK`, `AgentTypeOK` | invariant | types: the `uint16` score in 0 .. 10000, balances that never go negative, runs within `maxRuns`, `settling` exactly the intents in settlement |
| `Solvency` | invariant | a bond on record is backed by ether its solver paid in |
| `RegisteredIsCovered` | invariant | registered on a bond some requirement allowed |
| `ScoreIsEarned` | invariant | a score above (below) the seed has a fulfilment (failure) behind it |
| `CooldownPerWithdrawal` | action | two withdrawals of a solver are a cool-down apart: one request buys one |
| `SelectionIsStanding` | invariant | the selection is a standing bid of that solver, made in time; an open intent names nobody |
| `BidBookIsAppendOnly` | action | bids are never rewritten, and withdrawn only during the auction |
| `RightChoiceIsSafe` | action | an undominated selection stays so and is reopened by its solver's failure only |
| `BondFallsForCause` | action | a bond falls by a ripe withdrawal, a new registration, or one miss of that solver, by exactly its share; and every miss is recorded and pays it, whatever withdrawal is pending, but for one whose selection a better bid beats |
| `ImplementsMarket` | refinement | every step is a step of IntentMarket or a stutter |
| `RetiresUnlessOrphaned` | liveness | every live intent ends, unless its expiry is kept from running |
| `SnapshotIsOfTheBook` | invariant | what a pass read is a prefix of the present book, but for withdrawals |
| `LateReadsAreSafe` | invariant | a winner chosen on bids counted after the reveal window is not dominated, however late the write |
| `FeeIsWithinTheCap` | invariant | the auctioneer never selects a fee settlement would refuse |
| `FrameIsFunded` | invariant | the settlement contract holds what it collected and has not spent, and nothing between settlements |
| `SpentWithinBudget`, `FullyDeployed` | invariant | legs never cost more than may be spent, and together exactly that |
| `FloorsBind` | invariant | what was delivered clears the user's floor and the guarantee of the bid selected last |
| `SizedAsPlanned`, `SleeveIsShortByRounding` | invariant | the contract sizes legs as the planner did when the exits raise what was quoted; when they raise more, a base-token leg is never short of its guarantee, but for the last of k legs, by k - 2 units at most |
| `VaultIsBacked`, `ExitIsNeverBlocked` | invariant | a unit of the asset for every share; a holder can always withdraw all it holds |
| `ImplementsExchange` | refinement | from outside a settlement is one exchange on the intent's terms, or nothing |
| `SignatureCountsOnce` | invariant | no signed message is applied twice |
| `SecondDeclarationIsTheFallback` | invariant | a request is declared twice only as relay and fallback, timed differently |
| `NoRunWithoutDeclaration` | invariant | every marked run was declared |
| `ExtraRunsHaveACause` | invariant | declarations beyond the marks, or beyond `maxRuns`, are covered one by one by deaths, failed calls, overlaps, owners' marks or a cancellation |
| `OncePerPeriodUndisturbed` | invariant | without those, declarations of a job are a period apart |
| `DueJobsRunUnlessCrowdedOut` | liveness | if ticks run through again and again, a due job with a session and a prompt that compiles gets its turn, unless due jobs before it fill every tick |
| `OneBidUnlessDisturbed` | invariant | one bid per intent while passes do not overlap, nothing restarts and no receipt is lost |
| `UntriedMissesHaveACause` | invariant | on each intent, the reported misses of selections that were never tried are covered one by one by restarts, lost receipts, challenges and stale records; overlap is not enough |
| `WonIntentsMoveOn` | liveness | a won intent is settled or given back, not held to its deadline, unless the registries keep refusing the agent's reports |

## 3. The runs

| Run | Instance | Distinct states |
|---|---|---|
| `solver_bonds` | one solver, amounts 0, 10, 25, two values of `minBond` and of the delay, any reporter | 290 k |
| `auction` | one intent, two solvers, open and sealed bids of two terms (one dominates), integrator | 226 k |
| `guarded` | one solver bonding and unbonding, a policy with every gate, all of governance, an owner that refuses ether; fairness | 308 k |
| `two_intents` | two intents sharing two solvers | 267 k |
| `coordinator` | one pass at a time, one solver below the reputation floor, two policies, `chainNow` a tick ahead | 772 k |
| `settlement` | two intents with four and five engagements, six accounts, three tokens, a vault | 268 k |
| `standing_orders` | two jobs, the first of which never compiles, one request, one session grant, two ticks of one job each | 805 k |
| `agent` | one intent, the agent and a rival, two passes; fairness | 1.0 M |
| `stuck`, `reveal_window`, `residual_bond`, `stale_snapshot` | each finds one counterexample, section 5 | |

**Bounds.** `MaxTime`, `MaxEscrow`, `MaxOutcomes`, `MaxBids`, `MaxReopened` and
`MaxAuctioneerBond` are in the guards of the actions that grow what they bound.
Times are ticks: an auction closes at tick 1, or runs into the deadline's
neighbourhood at tick 2 or 3, so that the close, the reveal window, the
challenge window and the deadline each have a tick before, at and after them
(the coordinator's instance stops at the deadline, past which it does nothing, and
follows an intent until it ends: its book is closed then and every write reverts,
`NotEnded`, a constraint).
Two solvers are what a challenge, a runner-up and a wrong payee need; two bids
are what domination needs; two intents are what a confusion between engagements
needs. One reopening is enough to bring back an old book, old bids and an old
commitment. Solvers that start registered (`Ready`), or marked down once
(`Failed`), and an auctioneer that starts funded, are states every deployment
passes through; `solver_bonds` starts from nothing, and so do the proofs.
`settlement` has the amounts that matter instead of ranges: a deposit of 1000 in
weights that do not divide, one unit in two halves, a rebalance without a
deposit whose sale yields 8 (below its floor), 9 or 10, weights short of the
whole, a fee above the cap; the owner can pay for both intents or, after one
transfer, for one of them. Governance, attestors, transfers and the clock may
each leave the initial state of affairs, one excursion at a time
(`OneExcursion`, a constraint): a pair of them has nothing in common but the
frame in between. `MaxRequests` lets one onboarding file its request and makes
the next revert. `standing_orders` needs two jobs for crowding out with ticks of
`Cap` = 1 (the one that never compiles comes first, runs without end and stays
due, so that ticks have something to run through at the last tick of the clock as
well), a session for one kind only that ends while the clock still runs, and two
periods and runs of the other; `MaxDisturbances` = 1 is the strictest test of properties that
count causes one by one, `MaxOwnerCalls` = 2 is a session given and revoked or
given twice. `agent` needs two selections of one intent for a report that hits
the wrong one (`MaxSelections`), two passes for overlap (`MaxPasses`), and one
restart, lost receipt, challenge or refusal of its reports (`MaxDisturbances`).
Symmetry is used only where the solvers (and intents) of the instance are
interchangeable, and never with liveness.

**Deadlock.** All runs are finite by their time bound: at the last tick
everything may have ended, so the runs do not check deadlock. What must not get
stuck is stated by the liveness properties, and for the vault by
`ExitIsNeverBlocked`, which asks of every state that the withdrawal is enabled.

**Fairness** is assumed where liveness is checked. `guarded` and `stuck`: time
passes, blocks
are produced (`WF` of `Tick`). Expiry is permissionless, `expire` may be called
by anybody for any intent past its deadline, and the owner has a reason to; so
weak fairness of `Expire(i)` says that somebody eventually calls it as long as
it would not revert. Nothing is assumed of solvers, of the auctioneer, of
governance or of settlement. `RetiresUnlessOrphaned` excludes exactly the states
in which `expire` reverts (`Orphaned`): the selected solver left the register,
the registry lost its reporter bit, or a nonzero share is owed to an account
that refuses ether. `agent` (`FairSpec`): the timer goes on, calls return and
transactions land (`WF` of each pass and of `Land`). Nothing is assumed of who
bids, selects, challenges or ends intents; what the property does ask is that the
registries take the agent's report from some time on (`<>[](i \notin barred)`), as
nothing the agent does makes them.

`standing_orders` assumes no fairness. Ticks are started by visits, and by a
daily cron, of `/api/health`, which answers without waiting for the tick it starts
(`server/health.ts:16`); the platform may end it at any of its steps, every time. (The
handler at that path, `api/health.ts`, does not even start one for a plain GET. The
ticks that are waited for are `?kind=tick` and the POST of `recurring.ts:130`, which
nothing in the repository calls on a schedule.) `DueJobsRunUnlessCrowdedOut` is
therefore an implication: *if* ticks come to the end of their list again and again
(`RunsThrough`), then no job that can be declared waits for ever. That much is the
code's own: that a tick passes over the jobs that fail, reads afresh what is due and
leaves nothing behind that would stop the next.

**Mutants.** Each property of each passing run is paired with a variant of one
action or helper as a plausible slip would leave it (a dropped guard, a swapped
order, a missing reset); the definitions marked "Broken, for a mutant" stand
before the originals they replace and are used by nothing else.

## 4. What is proved

| Theorem | Module |
|---|---|
| `SRTypeCorrect`, `SolvencyHolds`, `CoverHolds`, `ScoreHolds` | SolverRegistry_proofs |
| `CoolDownsApply` | MCSolverRegistry_proofs |
| `TypeCorrect`, `SelectionStands`, `BidsAreFinal`, `BondsFallForCause`, `RightChoicesAreSafe`, `MarketImplemented` | IntentRegistry_proofs |
| `SnapshotsAreOfTheBook`, `LateReadsStaySafe`, `FeesAreWithinTheCap`, `CoordinatorIsOnTheRegistry`, `LateSelectionsStand` | Coordinator_proofs |
| `SettlementTypesHold`, `FramesAreFunded`, `BudgetsHold`, `DeploymentIsFull`, `FloorsAreBinding`, `SettlementIsAnExchange`; with the vault: `SettlementsBesideAVault`, `SharesAreBacked`, `ExitsAreFunded`, `SurplusNeverFalls`, `ExchangeBesideAVault` | Settlement_proofs |
| `LegsAreSizedAsPlanned`, `SleevesAreShortByRounding`, `BuiltBasketsAreWhole` | PlannedSettlement_proofs |
| `SignaturesCountOnce`, `StandingTypesHold`, `SecondDeclarationsAreFallbacks`, `RunsWereDeclared`, `ExtraRunsAreExplained`, `PeriodsAreKeptUndisturbed` | StandingOrders_proofs |
| `AgentTypesHold`, `OneBidIsEnough`, `UntriedMissesAreExplained`, `AgentIsInTheMarket` | SolverAgent_proofs |

They hold for all sets of solvers, intents, accounts, offers and policies, any
number of ticks and passes, all window lengths, slash shares up to 100 % and all
bounds, from the assumptions named `SolverRegistryAssumption`,
`IntentRegistryAssumption`, `CoordinatorAssumption`, `RWARegistryAssumption`,
`SettlementAssumption`, `RwaVaultAssumption`, `PlannedSettlementAssumption`,
`SubmissionAssumption`, `StandingOrdersAssumption` and `SolverAgentAssumption` alone, which TLC
evaluates in the runs of these modules. They are about types of constants and
keep apart the accounts that are apart in a deployment; the holders of a vault's
shares are finitely many, as anything that sums over them needs.

*The solver registry.* None of its invariants is inductive alone: `slash` and
`unbond` compare with today's `minBond`, which governance moves, so the cover of
a bond cannot be stated by today's value. `SRInv` adds that `minBond` is one of
the values it was ever given, and states the rest pointwise, as `RecordOK` of a
record and the ether behind it. One lemma per transformer (`RegisterFacts`,
`OutcomeFacts`, ...) says what it keeps of `RecordOK`; integer division enters
only there, in a lemma that bounds the moving average. Each action changes one
record through one transformer.

*The intent registry.* `IRInv` is `SRInv` with the types of the books and roles
and `Standing(record, book)` for every intent. `SelectionIsStanding` is nearly
inductive: what it needs is the types, so that appending to a book leaves its
ids in place, and that a bid can be withdrawn only while the intent is open,
when nothing is selected. `PunishMiss` is handled once, by composing the facts
of `AfterOutcome` and `AfterSlash`.

*Action properties* are consequences of one step from a state in `IRInv`. Each
quantifies a predicate over one intent or solver (`BookStepOK`, `ChoiceStepOK`,
`BondStepOK`, `MissStepOK`), so that a proof has a case per action: those that leave the
intent alone, those that append, and the few that matter. `RightChoiceIsSafe`
rests on the same fact as above: while a selection stands, its book is frozen.

*Refinement.* `MarketImplemented` shows that Init maps to IntentMarket's and
that each action maps to one of its actions or a stutter: `SelectWinner` to
`Engage`, `Settle` to `Keep`, `ReportFailure` and an `Expire` of a selected
intent to `Miss`, `ChallengeSelection` and a `Cancel` of a selected intent to
`Excuse`. The delicate part is that the counters live on the other contract:
all its own transactions, registering again included, must leave `fulfilled`
and `failed` alone, which the transformer facts say.

*Cool-downs.* `CooldownPerWithdrawal` compares two withdrawals that may be far
apart. What connects them is the ticket: `CoolDownInv` says that one that is out
was drawn after the solver's last withdrawal, so that it ripens a cool-down after
that withdrawal, for one of the delays there have been. An unbond spends its
ticket, and registering again does not bring one back.

*The coordinator.* `CInv` is `IRInv` with one predicate per pass: its snapshot
is a prefix of the present book but for withdrawals, what it chose is undominated
in that snapshot, and when it counted. `ChainOK` says what any transaction of
anybody leaves to a reader, and follows from the book facts above; one lemma
carries the predicate of a pass over any such step, so that only the steps of the
pass itself are left to look at. For `LateReadsAreSafe` the counting after the
reveal window matters: no bid is added from then on. `CoordinatorIsOnTheRegistry`
says that the composition implements the registry it stands on (CSpec => Spec, no
mapping needed), so all that is proved of the registry holds with the service at
work. With it, `LateSelectionsStand` closes the argument that counting late is
enough: such a selection is unbeaten when it is made (`LateStep`), and
`RightChoiceIsSafe` says what becomes of an unbeaten one.

*Settlement.* The running contract is funded by `notional - spent` only as long
as `spent` stays within the budget, and that rests on the arithmetic of rounding:
`ShareAdd` says that two shares rounded down never exceed the share of both, so
that what was spent up to leg k is at most the share of the weights up to k
(`SInv`, whose part `Frame` says this of the state before every leg). The policy
check puts the last total at 10000, and the last leg takes the rest; the budget
is then spent exactly. `FloorsBind` needs that the list of receipts grows with
the legs and that the engagement of an intent does not change under its frame.

*One exchange.* The refinement of Exchange is a statement about sums: what a dozen
calls moved, account by account and token by token. `XInv` adds the books of an
open frame: the present ledger is the saved one, less what was pulled and sold so
far, plus what the legs delivered (`Selling`, `Paying`); and what an engagement takes is
what one of its intent's offers says (`Origins`). A sum over the legs is
`UpTo`, the fold of the community modules; that it grows by one leg at a time is
proved from the fold's definition. As no induction over data is available, the
uniqueness of the function behind the fold is argued by its smallest
counterexample among the finite subsets. `Close` turns the books into
one step of Exchange, `OnboardOnly` is one by itself, and the other steps of a
frame, `Revert` included, stutter, because an open frame shows the saved ledger.

*The vault.* `Issued` is a sum over holders by the same fold. `Backed` says that the
asset covers it in the ledger and, while a frame is open, in the saved ledger too:
a revert brings the latter back. The rest is that nothing but a withdrawal takes
from the vault, since it is neither an owner nor the source of a transfer.
`ExitsAreFunded` draws from it the guard of a withdrawal of all a holder has.
`SurplusNeverFalls` compares states: what the vault owns, by the ledger a revert
would restore while a frame is open (`Custody`), grows by what is deposited and
delivered and falls by what is redeemed. A `Close` lets the frame's ledger through,
so the proof needs that a frame only ever adds to the vault (`Gains`).

*Planned and settled sizes.* Both computations cut shares off one amount and give
the last leg the rest. When the amounts agree so does every leg: what the contract
has spent before the last one and what the planner sums are the same sum
(`PlannedIsSized`). When the contract has more to spend, an earlier leg can only
grow, by its exact share and less than one unit (`ShareGrows`). The k - 1 legs before
the last grow together by no more than the amount does and less than k - 1 units
(`PartsGrow`), so the rest shrinks by k - 2 whole units at most (`SliceGrows`). That
raising more leaves more to spend is `NetGrows`: a fee never turns more gross into
less net.

*The builder.* A floor given with a leg is the leg's, whatever the quote
(`BuiltFloor`); only the floors derived from quotes are bounded by them. Weights are
natural numbers, as the draft's schema has them; the builder does not look.
`NormalizeFacts`: scaling takes less than one unit per leg from the
total, so that the remainder its largest leg takes is below the number of legs; the
total is then 10000 for any weights with a positive sum. That totals are running is
induction over the legs. It has no scheme to cite, and is made of one lemma
(`Induction`) about the least set of numbers that leaves a member out.

*Submission and standing orders.* That two intents of one owner carry different
nonces says nothing of the next one. `NonceInv` adds that every nonce on the books
is below its owner's present one (`Behind`), for submissions and for session
messages, and the types that say who owns messages, jobs and transactions under
way. One lemma (`NextNonce`) applies to both kinds: a message of the present nonce
is put on the list and the nonce moves on. An intent declared by the owner's own
transaction has no nonce and uses none (`NoNonce`). The keeper's submissions land
through the same test as anybody's, whatever happened to the tick that sent them.

*Runs and declarations.* `Requests` says which declarations of a request are on
the books, one by message and one by the client, and that each ends at its own
time. For the jobs the invariants are accounts, kept job by job. `Runs`: what was
marked, is about to be, or is sent to be, is at most what was declared or marked
by the owner. `Extra`: what was declared, may yet be, or is held by a tick, is at
most the runs, the marks under way and the causes counted so far; the account
has one unit to spare for a job that is due and on a list, as one declaration
more is then right. Counting is done by `Count` over the sequences of
intents and transactions, with a lemma for each of appending, landing and
forgetting. Without disturbances
one tick runs at a time and awaits every call (`CalmBook`), and what was declared
last is a period old when the job is next due (`Paced`).

*The solver agent.* What it remembers, where its passes stand and what it sent are
three accounts of one thing. `Waiting`: every call a pass waits for is under way
once, in its name. `Apart`: `settling` holds the intents of the passes in
settlement, one pass each. `Calm`: while nothing disturbed it there is one pass,
and a bid on the book is remembered. `UntriedMissesHaveACause` counts events of
the past, but the harm of a restart comes later, when the report it left behind
lands on a selection of its own. `Charged` therefore adds to the misses that
happened those that still may (`Peril`): the loose reports of the intent, and the
pass that is past its try, but for the first report of a selection that was tried.
Which of them hits what depends on their order, and `LooseFirst` says it: reports
nobody waits for are older than those somebody does. The property is stated per
intent. Summed over the intents it is false, as the attempted proof showed and a
run with two intents confirmed: one restart sends one report astray on *each* intent the agent was
settling. `AgentIsInTheMarket` shows that the world the agent is modelled in moves as
IntentMarket does; with `MarketImplemented` it is the registry's own view of it.

**Model-checked only**: liveness (`RetiresUnlessOrphaned`,
`DueJobsRunUnlessCrowdedOut`, `WonIntentsMoveOn`) and `ExitIsNeverBlocked`, which
speaks of `ENABLED`: the proof system does neither. (What the latter needs of the
state is the theorem `ExitsAreFunded`.) Every other invariant, action
property and refinement the passing runs check is a theorem. The four
disagreements below are counterexamples, found by TLC.

## 5. What the runs found

Four places where a comment or a document promises more than the code does:

1. **Expiry can be blocked for good** (`stuck`). `docs/intent-standard.md:71`
   says `expire` is permissionless once the deadline passes and marks down a
   solver that won and walked. A winner that withdraws its bond leaves the
   register, after which `reportOutcome` reverts with `NotRegistered`, and with
   it `expire` and `reportFailure`; the owner's `cancel` is the only way out,
   and the solver is never marked down.
2. **The reveal window can close early** (`reveal_window`).
   `IntentRegistry.sol:58` gives committed bids the window after the close to
   reveal; a selection at the close ends it, as `revealBid` wants an open
   intent.
3. **Withdrawing leaves a remainder behind** (`residual_bond`).
   `SolverRegistry.sol:128` says an unbond goes down to `minBond` or takes it
   all; a partial one strikes the solver off and leaves the rest where `unbond`
   cannot reach it and a new registration overwrites it.
4. **The coordinator can pick a dominated bid** (`stale_snapshot`).
   `auction.ts:12-14` says it is stopped before it is punished; a bid revealed
   between its read and its write dominates the winner. `LateReadsAreSafe` shows
   that counting the bids after the reveal window is enough.

Further places where documents and code differ, which the models show as
behaviour and no run singles out:

* `docs/architecture.md:43` and `CapitalUnderdeployed` speak of capital left
  undeployed within `maxSlippageBps`; `FullyDeployed` shows that nothing is ever
  left, so the test cannot fail and the refund is zero.
* A leg whose share rounds to zero is skipped before its floor is read, so that
  "every leg" does not clear both floors (`architecture.md`, per-leg floors):
  `FloorsBind` and `Exchange.Terms` leave such legs out.
* `docs/intent-standard.md:125` promises one submission per period;
  `ExtraRunsHaveACause` bounds by how many it may be more under overlapping or
  dying ticks and failed calls, and `OncePerPeriodUndisturbed` shows it without.
* The cron of `vercel.json` and the visits of the page start ticks nobody waits
  for, if any (section 3, fairness), so that a job runs when due is a matter of the
  platform; a job whose prompt does not compile stays due and at the head of the list.
* `createFor` is "after the owner has authorized a session"
  (`RecurringRegistry.sol:44`); it is not checked, and jobs without a session are
  what crowds others out of `dueIds`.
* A session message signed before `revokeSession` and handed in afterwards opens
  the session again, as revoking takes no session nonce.
* A challenge of an integrator's selection is paid from the auctioneer's bond,
  and a dominating bid may belong to a solver that could not have been selected.

## 6. Not modelled, and why

* *Reentrancy.* The functions that send ether or settle are `nonReentrant`; a
  payee can accept or refuse (`RefusesEther`), no more.
* *Tokens that charge fees, rebase or return false.* The ledger moves what was
  asked or the call reverts, as the tokens of this repository do. `RwaVault.deposit`
  mints for what it asked for and does not look at what `transferFrom` returns;
  with a token that returns false that would matter, and no property here sees it.
* *ERC-1271 and EIP-712.* A signature is what it recovers to; ids and hashes are
  injective.
* *Metadata, dates, notionals, indices* (`_solverList`, `_intentIds`,
  `_attestedTokens`): written, never read by a guard. `setMetadata` and
  `RecurringRegistry.setCoordinator` are therefore no actions: the first touches
  no modelled state, the second is called once, at deployment.
* *Scores, routes and the quote cache* of the planner: which plan is best is the
  solver's taste; what a plan commits to is modelled.
* *The client's retry with `selectWinner`* for registries older than
  `selectWinnerChecked`: not this repository's registry.
* *Liveness of the coordinator.* It does not always close an auction: a standing
  bid of an ineligible solver may dominate every eligible one, and the best bid
  may be inactive, which makes every write revert. No document promises more.
* *What a prompt means.* Of a standing order's prompt there is whether it compiles.
  A parser that answers differently on another day is a call that fails (`GiveUp`).
* *Natural-language parsing, web and API applications, validation schemas,
  mocks, the router adapter*: text processing, presentation, declarations, call
  forwarding or test doubles.
* *Generated code*: the ABIs, and `bundled/*.cjs`, which are the TypeScript of
  this repository together with its dependencies as esbuild joins them. They are
  by far most of the repository's lines; what is theirs to model is modelled from
  its source.

## 7. Plan

Done: the modules of section 2 and the theorems of section 4.

What would add most next: agent and coordinator in one composition over the registry
instead of the abstract market, for the loop of select, fail and select again.
