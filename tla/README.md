# A TLA+ model of the Autonolas indexers

The repository indexes the Autonolas contracts of several EVM chains. Its newer
part, `squids/`, is a family of Subsquid batch processors that write to
PostgreSQL; the older one, `subgraphs/`, is a family of graph-node mappings,
from which most squids are ported "branch for branch". This directory models
both: the infrastructure all squids share, the handlers of the squids and of
the subgraphs, and - where a squid replaces a subgraph - that the two give the
same tables.

1. [Inventory](#1-inventory) · 2. [Modules](#2-modules) · 3. [Runs](#3-runs) ·
4. [Fairness](#4-fairness) · 5. [Proofs](#5-proofs) ·
6. [Not modelled](#6-not-modelled) · 7. [Plan](#7-plan)

## 1. Inventory

### How a squid runs

The Subsquid SDK streams blocks and calls a *batch handler* with some of them.
Each call makes a new `EntityCache`, dispatches the logs to handlers (which
`get` rows and `set` them in memory), and calls `cache.flush()` once at the end,
which upserts the dirty rows one entity class after the other. The database is
a `TypeormDatabase({supportHotBlocks: true})`: a transaction consists of one
call for the blocks that are final and one call per hot block; when the chain
reorganises, the SDK rolls the tables back to the last common block. A
serialization failure makes the SDK run the same blocks again in the same
process; any other error ends the process, which is restarted. Handlers
`await` each read, but within a process they run one at a time.

### How a subgraph runs

graph-node handles a block's logs one at a time, each by the handler of a data
source. A handler may create a data source from a template: the logs of the new
one in the same block are handled after the others of the block. A handler that
calls a contract gets its state at the end of the block.

### Components

| component | state | operations | what makes it correct | status |
|---|---|---|---|---|
| entity cache and batch loop (`squids/_shared`) | buckets of cached rows, dirty rows, the batch under way | `get` (with relations), `set`, `flush`; begin, commit, roll back, fail | it is invisible: tables are those of a sequential run over a canonical chain | modelled |
| tokenomics squid, and its subgraph's balances | `Token`, `TokenHolder` | `handleTransfer` | balances, supply and holder count are the contract's | modelled; subgraph partly |
| service-registry squid: Safe logs | parked logs and fresh Safes of a block; the known-multisig set, which outlives batches | `createMultisig`, `safeLog`, `endBlock`, `isKnownMultisig` | the logs handled are those graph-node's template would handle, in its order | modelled |
| service-registry squid: handlers, and the subgraph it replaces | services, registrations, multisigs, identities, daily tables | every handler of both | daily tables agree with each other, and the squid with the subgraph | modelled |
| registries of Ethereum and Base (`subgraphs/autonolas*`) | units, services, owners, packages, builders, daily activity | every handler | rows are what the contracts say | partly |
| marketplace squid | requests, deliveries, fees, mechs, senders; two maps per batch | one handler per log of marketplace, mechs, factories and registry | each request, delivery, fee and transaction counts once, for the right party | partly |
| marketplace and mech subgraphs | the same, and the legacy mechs | every handler of the marketplace, the legacy mechs twice | the squid has the subgraph's tables; the merged subgraph the legacy one's | partly |
| RPC reads (`_shared/rpc.ts`, `price.ts`) and liquidity squid | endpoints, memos, reserves, fees, cached price | `at`, `latest`, `refreshNativePrice`; joins, exits, swaps | a read is of its own block; each swap is in the fees once | partly |
| staking squid and subgraph | services, epochs, rewards, totals, daily rows | stake, checkpoint, claim, unstake, evict | totals are sums; no epoch of a service is missing | partly |
| pearl-transactions squid | Safes and their owners, bonds, ledgers; an index and a memo that outlive batches | classification of transfers, late links, the index, reads of Safes | an address gets its role whatever comes first; the index is the table; no Safe is missed | partly |
| predict-polymarket squid, predict-omen subgraph | markets, questions, participants, agents, daily profits | fills, answers, resolution, redemption | each position is settled once; totals are sums | partly; omen modelled |
| babydegen squid | data sources, portfolios | a stream cut at each spawn, block assembly | no log of a spawned source is missed or handled twice | partly |
| babydegen-mode subgraph | services, funding, balances, positions, swaps, snapshots, prices | every handler | funding, positions and snapshots are what the Safes did and hold | partly |
| mech-fees squid | fees by mech, model, day | deposits, withdrawals, drains | the five tables agree | partly |
| BigDecimal arithmetic | none | 34-digit decimals | - | not modelled |
| processors, ABIs, generated models; scripts and workflows | none | configuration; tools over files | - | not modelled |

Squids do not talk to each other. Within one, components interact through the
tables and the cache; what survives a batch in memory is little and therefore
interesting: the known-multisig set, the tracked-address index, the memos of
contract reads and prices.

### What is hard here

* **Reorganisations and failures.** Rows come back to an earlier state under a
  process whose memory does not (`EntityCache`, `SafeLogs`, `TrackedIndex`,
  `SpawnStream`, `PoolReserves`).
* **Log order.** A transaction logs a fact before the fact it depends on
  (a Safe's execution before its registration, a mech's request before the
  marketplace's), and the handler has to wait for, park or repair it
  (`SafeLogs`, `Marketplace`, `PearlFunds`, `AgentFunds`).
* **The same fact in several logs.** A delivery is in the marketplace's log and
  in the mech's, a signed one in one log per request and one per batch, a
  funding in the logs of both Safes (`Marketplace`, `PearlFunds`).
* **Changed minds.** An answer is given, changed and arbitrated after days were
  settled with it (`OmenMarkets`); positions are transferred, burned and
  deployed again (`AgentPositions`).
* **Duplicated state.** Counter columns beside link rows, totals beside parts
  (`ServiceActivity`, `Tokenomics`, `Marketplace`, `MechFees`,
  `StakingRewards`, `PredictMarket`).
* **Two implementations.** A squid and a subgraph that must agree, though one
  parks in memory what the other writes (`MarketplaceGraph`,
  `ServiceRegistryGraph`, `LegacyMechs`, `StakingRewards`).

`PROJECT.json` lists each hazard at its line, with the properties about it.

## 2. Modules

| module | models | built on |
|---|---|---|
| `Rows` | rows, relations and the six shapes handlers have | - |
| `Indexer` | abstract: what a squid promises, over any events and any `Apply` | - |
| `EntityCache` | cache, flush, batch loop, forks, crashes; refines `Indexer` | `Rows`, `Indexer` |
| `Tokenomics` | the tokenomics squid beside the token | - |
| `MechFees` | the mech-fees squid and its five tables | `Sums` |
| `StakingRewards` | the staking squid and the subgraph it replaces, beside the contracts | `Sums` |
| `SafeLogs` | `BlockSafeLogs`, known set, transactions of several calls; refines `Indexer` | `Indexer` |
| `ServiceActivity` | handlers of the service-registry squid that count | `Sums` |
| `ServiceRegistryGraph` | the subgraph, and the squid's other handlers | `ServiceActivity` |
| `AutonolasRegistry` | the registries of Ethereum and Base | - |
| `Sums` | `Total`, the sum of a function over a set | - |
| `Marketplace` | the marketplace squid beside the contracts | `Sums` |
| `MarketplaceGraph` | the marketplace subgraph on the same logs | `Marketplace` |
| `LegacyMechs` | the legacy mechs in the two subgraphs that index them | - |
| `FeeConversion` | what a fee is worth: the marketplace subgraph's networks, its squid, mech-fees | - |
| `PearlFunds` | the handlers of pearl-transactions | - |
| `TrackedIndex` | its index of tracked addresses; refines `Indexer` | `Indexer` |
| `SafeReads` | its reads of owners and threshold | - |
| `PredictMarket`, `OmenMarkets` | traders' statistics on Polymarket and on Omen | - |
| `SpawnStream` | the stream of the babydegen squid, beside graph-node | - |
| `PoolReserves` | the liquidity squid over the shared reads | - |
| `AgentFunds` | babydegen-mode: registry, funding, balances | - |
| `AgentPositions` | swaps and positions on four venues | `AgentFunds` |
| `AgentSnapshots` | daily snapshots and metrics of the population | `AgentPositions` |
| `AgentPrices` | prices from pools and from the cache | - |
| `MCEntityCache`, `MCTokenomics`, `MCServiceRegistry`, `MCMarketplace`, `MCPearlFunds`, `MCPrediction`, `MCAgents`, `MCStreams` | instances for TLC | the modules of their subject |
| `EntityCacheProofs`, `IndexerProofs`, `TrackedIndexProofs`, `SumsProofs`, `MarketplaceProofs` | theorems | the module they are named for |
| `SafeLogsProofs` | theorems | `SafeLogs`, `ServiceActivity`, `ServiceRegistryGraph` |
| `TokenomicsProofs` | theorems | `Tokenomics`, `StakingRewards` |
| `StreamsProofs` | theorems | `SpawnStream`, `MechFees` |

An MC module puts several instances side by side. A behaviour is of *one* of
them, chosen in the initial state and never changed; the variables of the others
stay where they start, and a property is of the form "in a behaviour of this
instance, ...". So a run is the sum of its instances, not their product.

(`MCEntityCache` also has an unused instance of `Rows`: TLC evaluates a
constant-level definition of an extended module once, for the constants of the
module it is given, unless the module that defines it is itself instantiated.)

### How the modules fit together

`Indexer` is the abstraction: a chain grows, becomes final and forks; a batch is
fetched; the committed tables jump to the result of running the handlers over
the fetched chain, or stay. `EntityCache` implements it with `Apply` = a handler
reading and writing tables directly, `SafeLogs` with `Apply` = graph-node running
a block with a template, `TrackedIndex` with `Apply` = a handler that asks the
table. These three refinements justify how the handler modules are written:
`Tokenomics` runs its handler directly on the tables and keeps the forks only,
and the others, whose handlers keep nothing between batches, run on a chain
without forks (`Marketplace` checks that its two maps are empty after each
transaction). `SpawnStream` and `PoolReserves` keep memory across batches and
have their own chain with forks, restarts and failing endpoints.

### State and actions, module by module

**EntityCache.** `chain, final, forks` are the chain; `applied, history` the
committed tables and what hot blocks they can be rolled back to; `work`,
`cache`, `dirty` the open transaction and the cache of the call. `Handle`
dispatches one event to one of the six row shapes (`Touch` = `getGlobal`,
`Create` = `handleMarketplaceDelivery` on its row, `Link` = `handleMechDeliver`,
`Peek` and `Follow` = `updateFeesOnDelivery`, `Amend` = mech-fees' models), each
a composition of `Get` and `Set`. The flush writes one class after the other;
`Commit` and a failure end the batch. A row is the sequence of the events that
wrote it, so that any lost, repeated or reordered write shows. Each call commits
by itself here; transactions of several calls are in `SafeLogs` and
`TrackedIndex`.

**SafeLogs.** A block is a sequence of logs: a registration (`create`), one for
a service that has no row (`orphan`), or an execution. `work` is what handlers
see, `known` the process-wide set (`NotLoaded` before its first use), `fresh`
and `parked` the block's. `BeginTransaction`, `Handle`, `EndLogs`, `HandleParked`,
`EndBlock`, `Flush`, `EndTransaction`, `Retry` and `Restart` are the steps of
the SDK and of `main.ts`. `Retry` keeps `known` and replays the same blocks;
`Restart` loses it.

**TrackedIndex.** The index is a copy of the `TrackedAddress` table that lives as
long as the process, beside tables that are rolled back. A block has one log that
matters: it tracks an address, asks for a role, or neither.

**Tokenomics, MechFees, StakingRewards.** The contract (external) is run beside
the tables. `HandleTransfer` is composed of the handler's branches in their
order, the receiver being loaded after the sender is saved. A fee's price is a
number or absent. In `StakingRewards` a log and its handlers are one action, `Handle*` for
some parameters of the log (`ServiceStaked(s, p, amount, d)`, ...); both
the squid's tables and the subgraph's are kept.

**Marketplace, MarketplaceGraph, LegacyMechs.** `Emit*` (external) are the
contract calls: each puts the logs it emits, in the contracts' order, into
`logs`, and says whether the transaction's recipient is the marketplace. A Safe
can batch several calls in a transaction whose recipient is the Safe, which the
squid takes for calls to a mech. `Handle` dispatches the next log; there is one
action per handler, and it is the whole handler. An IPFS payload is a flag, a
USD price is nondeterministic for each conversion and 0 when it is unavailable.
`MarketplaceGraph` handles each log at the same price; its tables are the squid's
after a `g`. In `LegacyMechs` a handler is an operator from tables to tables,
written once where both subgraphs have it alike. `FeeConversion` is where the
prices come from: a feed and a pool that a block may change, read at the block by
graph-node and, by the squid, through an endpoint that may only have the latest.

**ServiceActivity, ServiceRegistryGraph, AutonolasRegistry.** One action per
handler, on a clock whose days are `Day` long; `executed` is a history variable.
The subgraph's tables are the fields of `graph`. In `AutonolasRegistry` a handler
reads the contract, not the log, so a block is made transaction by transaction
and indexed as a whole.

**PearlFunds.** One action per log of services, Safes, staking and transfers,
with the plans of a user (who owns what, who operates it) as constants. Roles are
given once and links come in any order.

**SafeReads.** A call of `getSafeConfig` is two actions, `FirstProbe` and
`Recheck`, so that a fork can come between them; each is every outcome of the
requests its probes make. An endpoint has the state of some blocks; a request
may fail, and `MaxLapses` of a call's requests reach a backend of the endpoint
that is the other way about.

**PredictMarket, OmenMarkets.** Fills and bets, resolutions and answers, claims;
participants, agents, days and totals. Reality.eth's timeouts and arbitrations
are external.

**SpawnStream.** `GraphNode` is an operator: what graph-node handles of a chain.
The stream carries the logs of the Safes known when it starts and ends with the
block that adds one; forks and restarts start a new one.

**PoolReserves.** The chain of a pool grows and forks while two endpoints answer,
fail or know only the latest state; a failed read drops what the batch had, while
the memos stay.

**AgentFunds, AgentPositions, AgentSnapshots, AgentPrices.** The chain runs ahead
of the tables by one block; `Index` handles the block's logs, those of new data
sources last, and calls see the block's end. Positions and snapshots take the price
of the block; `AgentPrices` has what is behind it, in fractions: pools, fallbacks and
the cache. In `AgentPositions` tokens also move where no handler sees them (`Unseen`);
`untold` is a history variable that says whose. The window in which a position takes
its swaps is four buckets long, as in the code.

## 3. Runs

Each finishes within five minutes on two cores. Four of the twelve expect a
violation: they are the findings below.

| run | instances and bounds | shows |
|---|---|---|
| `entity_cache` | a parent and a child: 3 events with 1 fork, 2 events with 1 fork and 1 failure; two parents and two children, one saved again without its relation: 3 events | the cache, the flush and the loop implement `Indexer`, and the tables catch up |
| `tokenomics` | 2 holders, amounts 0-2, supply 2, 3 logs, 1 fork; 2 services, contracts of three kinds, 2 epochs, 2 stakes, 3 days | token tables are the contract's; stakes and rewards are conserved, epochs have no gap, squid and subgraph agree |
| `service_registry` | Safe logs: 1 Safe, 2 blocks of up to 2 logs, 1 fork, 1 failure; 2 Safes, one an orphan, 2 blocks of 2 logs; 1 block of 3. Handlers: 2 services, agents and Safes, 2 days, 6 logs; identities and configurations, 5 logs. Registries: 2 units and a service, 4 transactions; a service on Base, 11 transactions in 3 blocks | `SafeLogs` implements the template; daily tables agree; the squid has the subgraph's rows; registries are mirrored |
| `marketplace` | 2 services, 2 mechs and a stranger, 2 senders, 2 requests, 3 calls; 2 mechs of one service, 4 calls; registry changes, 3 calls; 4 mechs in squid and subgraph, any 3 calls; 2 legacy mechs, 3 setups, 3 calls in 2 transactions; 2 fees over 2 blocks, on every network and factory | each request, delivery, fee and transaction counts once; advertised rates; attribution; squid = subgraph; merged = legacy; one price for a block, the subgraph's |
| `pearl_funds` | 2 services, 2 Safes, 2 owners, 2 stakings, 2 days, plans up to a Safe that owns a service, payments between Agent Safes among them; index: 1 address, 2 roles, 3 blocks, 1 fork, 1 failure; reads: 1 address, 2 blocks, any two endpoints, 1 fork, 1 lapse a call | roles, links, bonds and ledgers follow the chain; the index is the table; a Safe is read as its first block has it |
| `prediction` | 1 trader, a market of each kind, 2 days; 2 agents, 2 Omen markets, times 0-3 | totals are sums, settled once, on the right day |
| `agents` | each part of babydegen-mode by itself: 1-3 services, 1 to 3 logs a block, times up to 7; the snapshots of each venue at a price of 1 or 2; prices of 4 tokens in WETH and 5 in dollars, from pools | funding, balances, positions, swaps, snapshots and prices are what the Safes did and hold |
| `streams` | 1 service with a Safe and two operators, chains of 3 blocks with 1 fork and 1 restart, of 4 with 1 fork; a pool over 3 blocks, 1 fork, five pairs of endpoints, prices that last 2 blocks; 2 mechs on 4 deployments, 4 fee events of amount 0 or 3, 2 days | the stream is graph-node's; reserves and fees are the pool's; both keep up; the fee tables agree |
| `marketplace_eoa_service` (violation) | as `marketplace` | a requester that is no multisig gets a service |
| `staking_timeline_stops` (violation) | as `tokenomics` | the timeline of the first contract goes on |
| `pool_reserves_forks` (violation) | as `streams` | the memo answers for an abandoned block |
| `omen_resubmitted` (violation) | as `prediction` | a settlement is reversed on another day |

Why the bounds are enough. In the cache, rows interact through one link at
most, and an error needs a row, its link and one event to read it back: three
events and two rows of each kind reach every pair of row shapes in one batch, in
two, and across a fork. The decisions of `SafeLogs` depend on whether a log comes
before or after one registration, in the same block or a later one; those of
`TrackedIndex` on whether an address was tracked before or after the point a
fork or failure goes back to. Two blocks, or three, have all these orders, and
the theorems of section 5 are about any number. A request goes through at most
three calls that concern it (asked, delivered, delivered again or signed), and
two requests are needed only to be delivered together; two mechs of one service
are what a `Mech` row can confuse. In `ServiceActivity` the longest story is two
registrations, two deployments and two executions, on two days. An epoch is
lost or repeated between two contracts, so there are two services, three
contracts and two epochs. A market settles once and is claimed, an answer is
given, changed and given again: three moments. A position is opened, moved,
closed and opened again, on each venue by itself since no code is shared but the
swaps' and the metrics', which the parts of balancer and sturdy add; the snapshots
of each venue are a part of their own, where the price changes, pool tokens and shares
move by a plain transfer and a service is deployed again. A service on Base needs
eleven transactions to be deployed again without the agent that is counted. Each property
of these runs is violated by at least one small change of the code that
`PROJECT.json` lists under `mutants`.

One lapse a call is what the two checks of a "not a Safe" are for: with two, each
check can be answered wrongly, and TLC finds the Safe that is missed.

Deadlock is not checked: the chain's bounds stop every instance, and nothing
else does - `CatchesUp` and `KeepUp` say that the processes go on.

### Findings

* `squids/marketplace/tests/handlers.test.ts:400` says that a non-multisig
  requester gets no service. When a Safe routes the call, `handleMechRequest`
  has stored the mech's service before (`handlers.ts:1091`), and
  `handleMarketplaceRequest` does not clear it.
* `squids/staking/src/handlers.ts:275-277` says that the timeline of a contract
  stops "once the service stakes in a different contract". A service that staked
  in a second contract and left it has no latest contract, and goes on having
  epochs of the first.
* `squids/_shared/src/rpc.ts:191` says that "blocks only move forward so old
  keys are dead". After a fork the memo answers with the reserves of the
  abandoned block of that number.
* `subgraphs/predict-omen/src/realitio.ts:149-151` says that the subtraction
  "always reverses the exact amount added on the previous settlement". An answer
  given again moves the day the next change reverses on, without settling.

`RequestsByService` and `AnswersAttributed` are stated so that they hold in spite
of the first and the last. `MasterSafeAsSubgraph` tolerates one more: the memo of
`getSafeConfig` has no block, so that after a fork, or when a batch is run again in
the same process, an earlier sighting gets the owners of a later block, which
reading "at the first-sighting block" (`pearl-transactions/src/rpc.ts:291-295`) is
there to prevent.

Other properties except, each in its own words, what the code leaves out:

* An Agent Safe that another Agent Safe pays is not credited: the transfer is one
  `AGENT_TO_APP` of the payer (`pearl-transactions/src/logic.ts:309-316`), so that
  `TokenBalance`, "running balance per (safe, token)" (`schema.graphql:274`), lacks what
  the payee got. `LedgersAddUp` takes it off (`exchanged`).
* After a fork the stream of a babydegen run starts again from the services known when
  the run began (`sources.ts:116-125`). A registration that the run saw since, in a
  block that stands, no longer cuts the stream at the deployment that follows, and the
  Safe's logs of later blocks are not asked for until the next run. `NoForeignLogs`
  allows logs to be missing after a fork; services and Safes are complete.
* A plain transfer of Balancer pool tokens or of Sturdy shares has no handler in
  babydegen-mode. `BalancerFollowsBalance` and `SturdyFollowsShares` hold until there
  is one, and again after the next change of the pool, or once the vault has given
  everything back; `SnapshotIsWorth` counts pool tokens as they are, and a Sturdy row
  as what was put in less what was taken out.
* A deployment with the same multisig empties the service's list of positions
  (`serviceRegistry.ts:117`): the positions it had stay active but are in no
  later snapshot. What `ListedOnce` and `AllCounted` say of all positions is of before.
* Each Balancer row has the whole balance of pool tokens (`balancerShared.ts`), so that two
  active rows count it twice; `SnapshotIsWorth` says so, it does not correct it.
* The reserves of a liquidity pool that were refetched of another block, because the
  endpoints had lost the log's, are wrong until the next refetch (`PoolExact`).

## 4. Fairness

`CatchesUp` (`EntityCache`) assumes `WF_vars(Process)`: the steps of the batch
loop - fetch, handle, flush, commit - are taken when they can be. `KeepUp`
(`SpawnStream`, `PoolReserves`) assumes weak fairness of `Run`, the processor's
loop over its streams, and of `Index`, its handling of the next operation. These
are sequential loops that the scheduler always resumes, in a process that is
restarted when it stops. Nothing is assumed of the chain, of forks, of failures
or of endpoints that are down: that there are finitely many of these is a bound
of the model, and what justifies "eventually" is that they pause.

## 5. Proofs

The theorems are `THEOREM Spec => ...` for every value of the constants that
satisfies the named assumptions of the modules: any number of rows, Safes,
holders, requests, blocks, forks, failures and restarts. An assumption says only
what the code's types say (a fee is a natural number, a row is not the value that
stands for no row, a mech is none of the states of a request) or what is external
(services, addresses and requests are finitely many). The runs evaluate every assumption, on constants that satisfy it.

**The cache is invisible** (`EntityCacheProofs`): `TypeCorrect`, `Coherence`,
`FlushOrderIsFkSafe`, `Transparency`, `Faithfulness`, and `Refinement`, that
`EntityCache` implements `Indexer`. The inductive invariant is the type
invariant, `CacheCoherent` (what the cache would answer, dirty rows first,
agrees with the tables the handlers would see wherever a row has been read), and
`Reachable`: the committed tables, each history they can be rolled back to and
the work under way are the fold of `Apply` over a prefix of a chain that was
canonical. Coherence is needed because a handler may read through either of the
two maps. For the refinement, a commit is a step of `Indexer` because what is
flushed is what the handlers left (`Faithfulness`), and what they left is `Apply`
(`Transparency`). `IndexerProofs` has the facts about folds over chains that this
proof and the next two need; the fold is a recursive *function*, and its facts
are proved by taking the smallest counterexample, since induction over an
operator is out of the prover's reach.

**Known Safes and parked logs** (`SafeLogsProofs`): `SafeLogsTyped`,
`ExecutionsHandledOnce`, `KnownSetCovers`, and `TemplatesImplemented`, that the
squid handles the same Safe logs in the same order as graph-node's template. The
invariant follows a block log by log: what is handled and what is parked are,
together, the executions so far of the Safes with a row, in order; a fresh Safe
has no row before the block; and the known set covers the rows of the committed
tables, of the open transaction and of every history they can be rolled back to.
The last part is what makes a rollback under a living process harmless, and it
needs that a retry replays the same blocks. For the order, what is parked is in
the order of its logs, and draining it for the fresh Safes is what the template's
second pass over the block does.

**The index of tracked addresses** (`TrackedIndexProofs`): `IndexExact`, that
whenever the cached index would be kept it is the table, and `IndexRefinement`,
that the squid implements one that asks the table. The invariant says what the
index was built from, that what it was built from is flushed, and that it is
never behind the committed tables without being dropped.

**The token's tables** (`TokenomicsProofs`): `TokenomicsTyped`, `BalancesExact`,
`HoldersCounted`, `TransferNeverThrows`. The invariant says that the tables after
*n* logs equal the ledger after *n* logs for each *n* up to the last one, because
a fork goes back to any of them; holder counts are cardinalities of sets that
change by one element.

**The marketplace's totals** (`MarketplaceProofs`): `TotalsAlwaysAddUp`, that the
global fees are the sum of what senders paid *and* the sum of what requests
finally cost, that requests are the senders' sum, and the on-chain ones the
requests marked; and `SettledRequestsStay`, that a settled request keeps its fee,
its sender and its priority mech. The inductive invariant is
`IInv == Typed /\ LogsFresh /\ RowsConsistent /\ TotalsAddUp`. `LogsFresh` looks
ahead into the transaction's logs: the marketplace's log of a request is its
last, and what it asks for is not yet marked - without it, the number of marked
requests could not be known to grow by the batch's. `RowsConsistent` says that
only marked requests have a fee and that a request's sender has a row - without
it `updateFeesOnDelivery` would find no sender to charge. There is a lemma for
each handler. `SumsProofs` has what the handlers do to a sum (change one
summand, add one), proved over finite sets by a smallest counterexample. TLC
checked `IInv` on the `main` instance before it was proved.

**The logs of a transaction compose** (`MarketplaceProofs`): `LogsAlwaysCompose`,
that once the logs of a transaction are handled every IPFS payload is in its
request's marker, every signed delivery has its row, off chain and with a rate,
and every `Mech` whose rate was ever logged advertises what its contract does; and
`TablesAlwaysTyped`, the type invariant with the two maps of the batch empty between
transactions. What makes these hard is that one log has what another log's row
lacks, so the inductive invariant `ComposeInv` says, for each kind of data, where it
is *on its way*: in the row, in a map of the batch, or in a log still to come.
`PayloadsComing`: a payload is in the marker, or parked while the marketplace's log
of that request is to come, or in a mech's log to come; nothing is parked without
that log. `SignedComing`: the row has its rate, or one of the delivery's logs is to
come. `RatesComing`: a mech has its contract's rate, or a rate log is to come, or
the factory parked it and the log that creates the mech is next. It rests on
`LogsBacked`, what the contracts' logs say of the contracts (the rate in a log is
the advertised one, a creation is the transaction's last log, what is delivered on
chain was not signed), on `Linked`, that a known mech and a multisig have their
rows, and on the types of all tables. There is a lemma for each handler on each of
payloads, rates and rows, and one for each contract call. TLC checked `ComposeInv`
on the `main`, `rates`, `registry` and `subgraph` instances before it was proved.

**Requests are attributed** (`MarketplaceProofs`): `RequestsAlwaysAttributed`, that
while services get multisigs, agents and configurations between the requests, a
service is counted for the requests on chain of all the multisigs it had from the start
and for none that its multisigs of now did not make; an agent for each request of a
multisig at most once; and a mech has its service's configuration. A service's
count is a number its row keeps, not a sum, so it can only be bounded by the
senders' rows: `ServicesBetween` of the invariant `AttributedInv` says that it stays
between the two sums. A request that a multisig makes adds to both the count and the
upper sum (and to the lower one if the multisig is one of the first), a multisig that comes
later adds to the upper sum all that it asked for before it was one, and no multisig leaves a sum
because `createMultisig` keeps the first service of each (`KnownFromStart`). A delivery with
signatures adds to what a sender asked for and to what it asked for off chain, so not
to the sums. The rest of the invariant: what was asked for off chain is part of
what was asked for (`OffChainAmongAll`), a service lists an agent once
(`AgentsOnce`: otherwise one request could count twice for it), a mech has a
service (`Configured`), and a service is logged before it has a row (`NewServicesOnly`: its
creation resets the count). TLC checked `AttributedInv` on the `main` and
`registry` instances before it was proved.

**Deliveries are counted once** (`MarketplaceProofs`): `RequestsAlwaysCounted`, that
the deliveries of the totals are the contract's once the logs are handled, that
those of all services are the delivered requests, that what the only mech of a
service received is what it or others delivered or what still waits for a delivery,
and that an agent transaction counts once, or twice when a service multisig asks.
Two logs may report one delivery, to handlers that share only the request's row, and
a Safe's call makes the mech's log look like a direct one. The inductive invariant
`CountedInv` says what the logs still to come may do. `DeliveriesComing`: at most
one log adds to the deliveries, by what the totals lack. `DeliveryBacked`: the
marketplace's log of a delivery is its transaction's first and what it won is not
delivered before, so that whichever of the two logs of a delivery looks direct, the
request is done when the second is handled. `AskBacked`: what a log
asks for is not delivered, since one call never both asks and delivers.
`BacklogsBalanced` holds between any two logs, because a request enters the balance
by its marker and leaves it by its row; `MechsMinted` is where a second mech resets
the counters of a service, which is why the balance is stated of the first. There
is a lemma for each handler on the rows it delivers (`HandleDeliversOnce`), on the
two sets of the balance (`SetsMove`, `SetsCount`) and on the agent transactions
(`HandleKeepsAta`), and one for each contract call. TLC checked `CountedInv` on the
`main` instance before it was proved.

**The tables of fees** (`StreamsProofs`): `FeesAlwaysAgree`, that for each mech
the sums over its models and over its days are its totals, that the globals are
the sums over the mechs and over the days, that what was burned is the OLAS part of
what was drained, and that what a mech earned and did not collect is what its
tracker owes it, but for the events that were skipped. `FeesAgree` is inductive
once it is known that the tables are finite. The argument is in two lemmas on
tables: adding amounts to a row adds them to each column's sum (`SumAdds`), of the
whole table or of the rows of one mech. `RecordKeeps` is where a day's row that is
*not* written for an event worth nothing has to be harmless, and `Withdrawal` where
credits and tokens must not mix: with a remainder of credits that no whole token
pays, raw is less than what is owed, and never more.

**A stream that stands in for templates** (`StreamsProofs`):
`LogsAlwaysAsGraphNode`, that whatever the blocks hold and however they are cut
into batches, streams and restarts, the squid's tables are graph-node's as long as
the chain is not reorganised; that after a reorganisation it has graph-node's
services and Safes and no log that graph-node does not handle; and that no log is
handled twice. The proof has four layers. *Recursions*: `DispatchAll`,
`ProcessBlock`, `GraphNode` and `ProcessBlocks` are functions on intervals, and
`...Exists` lemmas give each its steps. *One log*: `Follow` relates where
`processBlock` is after *i* logs to graph-node's first pass after the same *i*,
whatever the stream carries (same rows, nothing handled that graph-node does not
handle, what is deferred is among what graph-node leaves for its second pass);
`Agree` says that they are equal if the stream carries what the tables know, and a
log is skipped, deferred or dispatched (a lemma for each). *One block*:
`BlockProcessed`, with the second pass over the deferred logs; and `QuietBlock`,
that a block which `firstSpawnIndex` lets through adds no service and no Safe, so
that the stream still carries what the tables know - the one place where the scan
of a batch and the handling of its blocks have to agree. *The run*: the inductive
invariant `StreamInv` adds to the property that the ids handled after *n* blocks
are of those blocks and that, without a reorganisation, what is written is of the
chain and a connected run knows the last tables (`Knows`). It is lost when a stream
is cut, which is why the run has to end there. TLC checked `StreamInv` on the
`streams` instances before it was proved.

**The staking squid's sums** (`TokenomicsProofs`): `StakingAlwaysAddsUp`, that for
any services, contracts (for OLAS or not, with events that are indexed or not),
deposits, rewards and days, and any order of the logs: what is staked now, in total and by
service, is what the stakes that were not undone were taken for; what a service earned
is the sum over its epochs that ended in a contract for OLAS, and was paid, is due or
was lost by a forced unstake; totals are sums of the services'; the rows of a
service in a contract have no gap until it stakes elsewhere; and the last snapshot
has the totals and the counts of the last checkpoint. `StakingAlwaysAgrees`: where every
contract is for OLAS and indexed, and no service locked more than the deposit, the squid
has what the subgraph has. None of it is inductive by itself. The invariant
`StakingInv` adds:

* `StakesHaveRows`: what a row remembers as its stake is what was taken for it. An
  unstake subtracts the row's number, not the contract's, so this is why totals
  return to where they were; a service staked in a contract the squid skips took
  nothing.
* `EpochsHaveRows`: who is active or has an epoch has a row, and only
  epochs that ended are marked so. An unstake writes
  the reward of the current epoch's row before the checkpoint of that epoch does; because the
  row is not yet marked, it is in no sum, and the checkpoint overwrites it.
* `TimelineGoesOn`: a service whose timeline goes on is in the tracker of the
  contract's epoch and its `latest` is that contract or none. Without it the
  checkpoint could pass over a service that unstaked.
* `SnapshotsLast`: no snapshot is of a later day than the last log, the last one has
  the totals, and the one a new day is filled from has the counts of the last checkpoint.

`AgreeInv` says that both tables have the same rows, that the squid's stakes are at least
the subgraph's and, when the totals are equal, equal one by one: the amounts are
natural numbers, so a service that locked more is never made up for. There is a group
of lemmas for each log (effect, contracts, tables, sums, timeline, snapshots,
subgraph), over shared ones on rows (`ParticipatedIs`, `RowsGrow`), on sums by epoch
(`EndedSame`, `EndedMore`) and on snapshots (`SnapshotsGrow`, `ClaimedIs`). The median
is never expanded: both sides take that of the same sequence. TLC checked both
invariants on the `tokenomics` instance before they were proved. `TimelineStops` is not
a theorem: the run `staking_timeline_stops` refutes it.

**The service-registry squid and its subgraph** (`SafeLogsProofs`):
`DailyTablesAlwaysAgree`, that for any services, agents, multisigs and days, and any
order of the logs, a counter column is the number of its link rows, an agent was
active on the days one of its multisigs was and a multisig on the days it executed,
an execution counts for one agent at most, and that agent is the one registered
last; and `RowsAlwaysAsSubgraph`, that after every log the squid's tables are the
subgraph's, but for the identities that have metadata only. The first needs to
know how many agents a row of `Multisig` may list. `ActivityInv` says: one at
most (`OneAgent`). That is so because whoever a service lists has a registration
not later than now (`ListedRegistered`), although registrations outlive the
termination of the service: so that `mostRecentAgentId` finds somebody whenever the
list is not empty, and the fallback to the whole list is the empty list.
`BestIsLatest` is the invariant of that function's loop. With `OneAgent` an
execution is one change of one cell of each table (`ExecutionIs`,
`ExecutionCells`), of which counts, days and sums are then lemmas of their own.

For the second, `GraphInv` adds the types of the columns only one of the modules
has, that a multisig has a deployer when it has a row, and `IdentitiesLinked`: an
identity that a service was given has a row in the subgraph. This is what
`RowsAsSubgraph` needs to be inductive: a link is when both get the row, and an
identity the squid alone has a row of belongs to no service. There is a lemma for each handler, over lemmas on single tables.
The two write the same data by different routes: the squid's `mostRecentAgentId`
keeps the best so far and the subgraph's compares with a timestamp it may not have
(`MostRecentSame`), and the subgraph's two loops over the agents of an execution
read what they just wrote (`LoopsDo`). TLC checked both
invariants on the `activity` and `identity` instances before they were proved.

`THEOREM`s are proved to the last leaf; the backends are SMT (Z3), Zenon and, for
the temporal steps, LS4.

**Only model-checked.** Liveness (`CatchesUp`, `KeepUp`), which the prover does
not reach; `BatchesImplementIndexer` and `BlocksImplementTemplates`, which are the
proved refinements in other instances; and the properties of
`AutonolasRegistry`, `MarketplaceGraph`, `LegacyMechs`, `FeeConversion`, `PearlFunds`, `SafeReads`, `PredictMarket`, `OmenMarkets`,
`PoolReserves`, `AgentFunds`, `AgentPositions`, `AgentSnapshots`
and `AgentPrices`. No module declares a `RECURSIVE` operator, so that all of them can be
proved about.

## 6. Not modelled

* Columns that no property depends on: hashes of transactions, names, texts, the
  rows that only record an event and the counters of such rows.
* Decimal arithmetic (`babydegen/src/decimal.ts`): amounts are small integers,
  prices integers or fractions. The digits are out of both tools' reach.
* The digits of a price: the conversions of `FeeConversion` are exact fractions.
  In `Marketplace` and `MechFees` a price, or its absence, is the environment's.
* In pearl-transactions, the decoding of multi-sends and the two passes of the
  flush; in predict-polymarket, the V1 adapter's handlers
  and the derivation of token ids; in the babydegen squid, funding and withdrawal
  balances; in liquidity, transfers that only move fees of providers; in the
  staking subgraph, claims, daily rows and factory events.
* In predict-omen, the answers that are commitments, which the handler skips
  (`realitio.ts:31`), and so are never counted when they are revealed; arbitrations
  that are cancelled, which have no handler.
* In pearl-transactions, payments to the Token Utility that are no bond.
* What the off-chain handlers of subgraphs parse of a file.
* `subgraphs/service-registry/src/mapping-eth.ts`, which no manifest uses.
* Processors, ABIs, generated models, manifests, scripts and workflows.
* That an unknown mech factory stops the marketplace squid for good is by design:
  the action is disabled, and the run goes on with other behaviours.

## 7. Plan

1. Proofs: the properties of `AgentFunds`, which relate the tables to one transfer
   each; then that the subgraph of `MarketplaceGraph` keeps the squid's rows.
2. Models: the babydegen squid's funding, the V1 adapter of predict-polymarket.
