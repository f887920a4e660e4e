# A TLA+ development of solroute

solroute aggregates the liquidity pools of nine Solana venues, answers swap
quotes over HTTP from memory, keeps that memory current with a Yellowstone gRPC
stream and RPC polling, and can execute the routes it finds. This directory
holds TLA+ models of it, TLC runs on small instances, and proofs checked by
TLAPS. Paths are relative to the repository root.

## 1. The system

| Component (source) | State | Operations | Interacts with |
|---|---|---|---|
| account store (`crates/engine/src/account_store.rs`) | sharded map key -> data, owner, lamports, slot; atomics `account_count`, `last_slot` | `upsert`, `get`, `read_token_balance`, `len`, `last_slot` | written by stream, cold start, refresh loop; read by registry and quotes |
| pool registry (`pool_registry.rs`) | pools with a `swappable` flag, `swappable_count`, the cached swappable set, vault -> pools | `from_pool_index`, `validate_from_cache`, `validate_all`, `on_vault_update`, `validate_pool`, `add_pool` | one `tokio::sync::RwLock` around it, shared by every task |
| live feed (`streaming.rs`) | resume flag, `from_slot`, backoff, channel of touched vaults | connect, subscribe with replay, deliver, reconnect; the drainer re-validates batches | store, registry, server |
| cold start and refresh (`cold_start.rs`) | key lists, batches in flight | vault fetch, auxiliary fetches, `validate_all`, hot-vault polling | store, registry, RPC nodes |
| engine tasks, HTTP (`bin/engine.rs`, `api.rs`) | the tasks above, SOL price | `/quote`, `/health`, `/stats` | registry read guard |
| pool index (`crates/aggregator/src/pool_index.rs`) | pools, edges of each mint, canonical pools, hub ranking | `add_pool`, `warm_canonical`, `warm_hubs`, `neighbors`, `direct_pools` | filled at startup, then shared read-only |
| router (`router.rs`) | one request: paths, picked pools, amounts, candidates | `find_routes` (1 to 4 hops), `simulate_hop`, `canonical_leg`, `best_pool` | index, markets, store, the swappable set cloned at the start |
| cache, startup (`cache.rs`, `main.rs`, `bin/engine.rs`) | the file `pools.cache` with a timestamp and a sentinel | save, load, age check, re-save | loader, pool index; shared by two programs |
| loader (`loader.rs`) | a fetch per DEX, in flight together | `load_all`, two fallbacks, per-venue builders | RPC, pool index |
| route execution (`execute.rs`, `crates/executor/src/{alt,ata,submit}.rs`) | instructions, floors, lookup table | build, create and extend the table, send | builders, RPC, chain |
| instruction builders (`crates/executor/src`) | none | ten `build_swap` | called hop by hop by route execution |
| quotes (`crates/{raydium-clmm,meteora-dlmm,orca-whirlpool,...}/src`) | pool accounts, tick and bin arrays in the store | `calculate_output_live_ex` | store, router |
| prices, statistics, probe binaries | - | floating-point output | - |

What is hard in it:

- the store is written by three tasks at once; `upsert` is three separate
  effects (`account_store.rs:25-54`), so counters and slot race;
- a write may come late: an RPC answer read earlier is stored after a newer
  streamed update, a reconnect replays or skips updates, a node lags;
- the registry lock protects the flags but not the balances they are computed
  from; the lock is fair and is held across RPCs by the cold start;
- count, cached set and flags are kept in step by hand, in two operations
  that do it differently, and a wake-up may be lost;
- a quote searches without any lock: between the choice of a pool and its
  simulation the store moves, and the set it routes over grows old;
- the search is cut by budgets, prunes and a filter, each of which may cut
  something it should keep;
- a save is cut off by a crash, a cache is old, an RPC answers in part;
- a phase of the cold start reads what an earlier one was to store;
- ten builders agree on accounts, token programs and wrapped SOL by
  convention only, and a lookup table is used as soon as it is made;
- a walk crosses array boundaries, empty arrays and missing ones, and every
  rounding must go the pool's way;
- quote, swap instruction and cold start derive tick arrays three times.

What makes each component correct:

- store: a key never goes back to an older slot; the size is the number of
  keys; `last_slot` does not run ahead of the data; each `upsert` is atomic to
  whoever looks;
- registry: whoever holds a read guard sees a count and a set that are those of
  the flags;
- feed: data stored under a slot is as fresh as that slot; what was streamed is
  never undone; the stream comes up again; the store catches up;
- engine: no wrong flag is left without somebody on the way to correct it, and
  flags settle; every quote is answered;
- router: no prune loses a path inside the budgets, and the budgets bound the
  search; routes are simple paths whose amounts fit together, whatever moves
  meanwhile; the filter stops a chain of mispriced legs and never loses the best
  short route;
- cache and startup: what is loaded was saved to the end; what an exact quote
  reads is fetched, or its batch failed;
- execution: a landed route loses at most the slippage of its hops; the
  builders agree on the user's token accounts, wrapped SOL and directions, so
  that a failure has a cause from a list, which names the builders' gaps;
- quotes: none is better than the price it starts from, no sequence of them
  makes something from nothing, and where the code guards a reserve, none takes
  out more of it than is there.

## 2. Modules

| Module | Models | Uses |
|---|---|---|
| `LatestStore` | what the store promises: an atomic map, its size, a slot mark | - |
| `AccountStore` | `upsert`, effect by effect, for any number of threads | refines `LatestStore` |
| `FairRwLock` | tokio's RwLock as used here (external code) | - |
| `PoolRegistry` | the registry operations as sweeps, one read of the store per step | - |
| `Engine` | stream, drainer, cold start, refresh loop, quotes | `PoolRegistry`, `FairRwLock` |
| `LiveFeed` | the stream's resume logic against polling and scanning RPC writers | - |
| `PoolIndex` | the token graph: edges, canonical pools, hub ranking | - |
| `RoutePlan` | the arms of the search, as the set of paths it walks | `PoolIndex` |
| `Router` | one quote, hop by hop, against a moving store and registry | `RoutePlan` |
| `ConstantProduct` | the x * y = k swap and the Raydium AMM V4 quote | - |
| `Rounding` | division rounded up | - |
| `TickWalk` | the exact Raydium CLMM quote; the arrays of quote, instruction and cold start | `Rounding` |
| `BinWalk` | the exact Meteora DLMM quote | `Rounding` |
| `Curves` | bonding curves, DBC ladder, DAMM V1 vaults, single-price quotes, traded in sequence | `ConstantProduct`, `Rounding` |
| `Quotes` | whichever of the three markets is asked | `TickWalk`, `BinWalk`, `Curves` |
| `Loader` | `load_all` with every DEX in flight | - |
| `PoolCache` | the cache file and the steps of a save | `Loader` |
| `ColdStart` | what each phase asks for and what the refresh loop polls | `Loader` |
| `Startup` | starts, crashes and restarts of the two programs | `PoolCache`, `ColdStart` |
| `SwapBuilders` | the ten instruction builders and `ata.rs` | - |
| `Execution` | `execute_route`, the lookup table, the transaction on chain | `SwapBuilders` |
| `Sums` | sums, sizes of finite sets, induction over sets: lemmas that the proofs share | - |
| `*_proofs` (seven) | theorems about `AccountStore`, `LiveFeed`, `Engine`, `Router`, `Startup`, `Execution`, `Quotes` | the module named |
| `MC*` (seven) | small instances for TLC | the module named |

### AccountStore

`call[w]` is the upsert thread `w` is in. `WriteEntry` and `DropStale` are what
happens under the shard lock (lines 29-46), `AddCount` the `fetch_add` (47-49),
`LoadLastSlot` and `StoreLastSlot` the load-compare-store of the slot (50-53),
which is neither a compare-and-swap nor a `fetch_max`: of two upserts that have
loaded the same old value the older slot may store last, so `last_slot` may end
below the newest slot, although `api_test.rs:44-48` expects the newest in the
sequential case. The refinement mapping makes an upsert take effect at
`WriteEntry`: `size` is the counter plus the insertions not counted yet.
`LatestStore` leaves its mark loose, because the code gives no more.

### PoolRegistry, FairRwLock, Engine

An operation of the registry is a sweep over the pools: `BeginValidateAll` or
`BeginVaultUpdate`, then `CheckFirst` and `CheckSecond` for each pool, one read
of a vault balance per step, then `EndValidateAll` or `EndVaultUpdate`. The
sweep is under the write guard, so nobody sees the flags half-way; the store
may change between any two steps, as it does in the code.

`Engine` composes it with the tasks. A balance is a sequence of versions, funded
in the odd ones, and the store keeps the newest version given to it. That
stands for the slot guard, and it is sound because every writer stamps data
with a slot at which it was on the chain: this is what `LiveFeed` shows and
`StampsAreLowerBounds` proves. `Deliver` is the stream consumer's write and its
send into the channel; it is excluded while the drainer drains, since both run
on one single-threaded runtime and the drainer does not yield in its loop.
`Receive`, `DrainOne`, `Drained` are the drainer. `ColdFetch` holds a read guard
across the RPC and until the answers are stored, `ColdAux` to `ColdDone` hold
the write guard. `RefreshKeys` reads the keys under a guard and drops it, then
polls for ever and reports nothing to the registry. The variable `missed` names
the vaults with a change nobody will report: a subscription began after it, or
the cold start's batch failed.

Abstracted: one RPC batch per fetch; the auxiliary accounts are the step
`ColdAux` here (they change no flag) and the subject of `ColdStart`; quotes read
and release.

### LiveFeed

The chain is a sequence of slots, each a set of written accounts; an account's
data is the slot of its last write, so data and stamp can be compared.
`Connect` chooses `from_slot` as `streaming.rs:220-224` does, `EndOk` and `EndErr`
are the two arms of the match with what they do to `resume`, `Subscribe` is
refused when the server cannot replay from that slot. `PollAnswer` and `PollStore`
are `fetch_batch_into_store`, whose answers carry the slot they were read at;
`ScanSlot`, `ScanAnswer` and `ScanStore` are the two `getProgramAccounts` fetches,
which ask for the slot first. `Upsert` lets `last_slot` be set back, which
`AccountStore` shows can happen. `delivered` and `skipped` are history.

Abstracted: backoff and idle timers are delays. One node serves both requests
of a scan, so its account list is not older than the slot it gave before.
An account that is closed is never removed from the store and is not modelled.

### PoolIndex and RoutePlan

The per-mint edge lists are one sequence `edges`; a mint's list is the part that
starts at it, so the order that the budgets depend on is kept. `AddPool` may see
a bonding curve twice (`bin/engine.rs:62-83` seeds curves the cache may hold).
`CanonicalSets` and `HubRankings` are the sets of maps that `build_canonical` and
`build_hub_ranking` may return: ties go to whatever the hash map yields first.

Every bound of `find_routes` counts edges, none looks at a balance. So which
paths are walked is a function of the index, `Plan`: one operator per arm
(`Direct`, `ViaHub`, `Forward2`, `Reverse2`, `ViaHubs`, `Forward3`, `Reverse3`,
`MeetAtHub`). A planned path names its arm and its edges: two arms may give the
same mints, as they do in the code. `SimplePaths` and `InScope` are the
reference: the simple paths by definition, and those the search sets out to
find. The four-hop arm takes the first neighbours that are no hubs and prunes
them afterwards (`Near`, then `ReachingHubs`), where the comments at
`router.rs:479` and `:488` say it collects those that connect to a hub; so
`InScope` counts the neighbours as the code does.

### Router

`Begin` is `handle_quote` up to the search: it clones the published set. A path
is walked twice. First a pool is picked for each leg: `TakeCanonical`, or a scan
(`ScanLeg`, `ScanPool`, `ScanDone`, `NoPool`) when the leg is the last or its
canonical pool does not serve. Then `Replay` simulates the picked pools from the
input amount again, and `Found` keeps the route. `Simulates` is `simulate_hop`:
the flag in the cloned set, the direction, the market's output, the rate limit
and the depth gate with its exception for an unknown reserve. Between any two
hops `StoreWrite` changes an account and `Publish` a flag. The store changes one
account at a time, which is why the three reads of a hop can be one step.
`Finish` is filter, sort and truncation; the candidates are a set, since a
planned path is walked once and names its arm. The order of the arms within a
number of hops is left open, so more orders are checked than the code has.

The markets are a constant operator `Output`; the theorems hold for every one,
the run uses `ConstantProduct`. The offline use of the router (the CLI, without
swappable set or live data) and the price impact, always 0, are not modelled.

### TickWalk

A pool is what the on-chain program keeps true (`WellFormed`): initialised
ticks, the liquidity active between them, a bitmap of the arrays that hold one.
`Start`, `StepWithin`, `StepIntoFirst`, `StepAcross` and `StepOff` are the cases
of one iteration of `quote_exact_in`: the next tick is in the current array, the
first array lies beyond the current tick, the walk goes on to the next array of
the bitmap, or it breaks off with what it has because none is left, too many were
walked, or the next is not in the store. `Advance` is the rest of the iteration
in every case: `SwapStep`, then the crossing. `liquidity_net` is the difference
of the active liquidity, so `LiquidityIsActive` compares what the walk has added
up, tick by tick, with what the program has at that price.

`RemainingArrays` (instruction), `PrefetchedArrays` (cold start) and the
`Whirlpool*` operators are the other derivations of tick arrays. The walk over
Whirlpool arrays itself is done by a library and is not modelled.

### BinWalk

A row of bins, each with two balances and limit orders behind them (`Layers`).
`EnterArray` is the outer loop of `quote_exact_in` with its snap to the near
edge, `WalkBin` one bin of the inner loop with `QuoteAtBin`, `BinStop` the end.
`StaleActiveArray` is the gate that refuses an active array much older than the
pool.

### Curves and Quotes

One operator per venue gives the output and the market after the trade. The
output is the code's; what the program books is external, as far as the quote
reads it back. `Buy`, `Sell` and `SellHolding` (a round trip) trade at the quoted
outputs, so the properties are about sequences of trades. `Quotes` asks one of
the three kinds of market; they share no state.

The loops are recursive functions: `Climb` and `Descend` over the segments of a
DBC ladder (`Stretch` pairs a target with its liquidity), `PowQ` over the binary
digits of the exponent, `Converge` over the rounds of Newton's method, where a
step whose divisor is not positive has no result and the quote none. `VaultQuote`
is the DAMM V1 quote from one vault to the other, so that both directions are one
text. What a market is before the first trade is stated per venue
(`SoundMarket`): a market as its program keeps it, with some coins outside.
`Holding` names, venue by venue, the reserves that quotes may not overdraw. Two
are not in it, because no line keeps a quote within them: the base tokens of a
LaunchLab pool and both sides of a PumpSwap pool (see section 5).

Abstracted: prices are small integers and their table or power function a
parameter; 64- and 128-bit widths and the errors of their overflow are left out;
an error, no quote and an output of 0 are the same, as for the router.

### Loader, PoolCache, ColdStart, Startup

A pool's data is the moment it was read. `FetchFiltered`, `TwoPhaseFetch`,
`FetchPaginatedV2` and `BuildEntries` are one DEX of `load_all`; every error ends
inside it. `TruncateFile`, `WriteHeader`, `WriteRecord` and `WriteSentinel` are
`save_cache`; `FailSave` is a write error, `Crash` the end of the process at any
step. `Begin` is the start: the aggregator takes the file if it is young enough
and loads, the engine if it loads, whatever its age; the aggregator always saves
afterwards, the engine when it has loaded from the RPC and its cold start is
over.

`Phases` is the cold start in the order of `bin/engine.rs:145-155`; `Asked`
gives the pools whose accounts a phase asks for, which depends on `stored` for
the richest CLMM pools (vault balances), the bin arrays (bitmap extensions) and
the LP mints (vault states). `TakeKeys` is possible only while the write lock is
not held and takes any pools up to the limit (`TopPolled`, 20 000 in the code,
which ranks them by quote balance); `ResolveMints` comes at any time later. The
cold start and the loop do race (`cold_start.rs:459` wants the LP mints polled,
but the loop takes its keys when the states are usually not stored yet); nothing
is promised about it, so it is in the model and in no property.

Abstracted: one process at a time; time passes only between programs; keys
fetched together are one batch, one account of each kind per pool; of balances
only the ranking of CLMM pools.

### SwapBuilders and Execution

A builder is a record of what tells it from the others; `BuildSwap` is the order
they share: prepare the input, create the output account, swap, close. `BuildHop`
is an iteration of `build_route_instructions` with the RPC requests it makes,
`Encode` the choice of a table, `CreateTable` to `GiveUpPolling` the set-up of one
on the fly. From `Send` on the chain is external: `ChainCreate`, `ChainFund`,
`ChainSwap` and `ChainClose` ask of the wallet what the programs ask of it, and a
failing instruction undoes the transaction. `Fills` is what a swap may give.

Of the accounts that are the pool's own, those whose list depends on the pool's
state are there by kind: `MayAsk` is what a swap program may ask for (the arrays
near the cached price and far from it, the stake accounts of a depegged pool,
those of a cashback or mayhem coin), `Listed` what the builder lists of it. A hop
carries what it `asks`, any part of `MayAsk`: the code does not know it before
the swap runs. `BuildFails` may refuse any hop: its pool is not in the index, or
does not decode, or an RPC or the derivation of its arrays fails.

Abstracted: rent and transaction fees; constants of the programs and other PDAs,
whose place and value are taken as right, as are instruction data and compute
limits; the size of a transaction is its number of accounts.

## 3. Runs

| Run | Shows |
|---|---|
| `store` (`AccountStore_safety.cfg`) | count and slot invariants and the refinement; three threads, two keys, slots 0..2 |
| `engine` (`Engine_tasks.cfg`) | what readers see, no wrong flag without a correction on its way, flags settle, quotes are answered |
| `feed` (`LiveFeed_feed.cfg`) | stamps are lower bounds, streamed updates stay, the stream comes up and the store catches up |
| `plan` (`RoutePlan_complete.cfg`) | every index of up to six additions of seven pools, in every order: the prunes lose no path in scope, the search is bounded by its constants |
| `search` (`Router_search.cfg`) | a quote of two or three hops over eight pools, with accounts and flags of two of them changing: walkable routes, bounded gain, no viable leg lost and the best last pool in a still market |
| `execution` (`Execution_route.cfg`) | routes of one and two hops over all ten venues, three wallets, every RPC outcome: bounded loss, no failure but from a named cause, SOL unwrapped, complete tables |
| `quotes` (`Quotes_fair.cfg`) | tick walks, bin walks and up to three trades on every curve: the right liquidity, no bin twice, no quote better than the price, nothing from nothing, no reserve that is guarded overdrawn |
| `startup` (`Startup_cache.cfg`) | both programs start, crash and restart at every step of load, save and cold start |
| `quote_wait` (`Engine_quote_wait.cfg`) | **violated**: a quote may wait for the whole vault fetch |
| `feed_resume` (`LiveFeed_resume.cfg`) | **violated**: a resumed stream may skip updates of the outage |
| `listed_arrays` (`Quotes_listed_arrays.cfg`) | **violated**: the instruction does not list the arrays the quote crosses |
| `stale_cache` (`Startup_stale_cache.cfg`) | **violated**: pools older than the maximal age are not reloaded |

The last four state what a comment or README line says, and TLC finds a
behaviour of the code that breaks it:

- `quote_wait`: the cold start holds the read guard across its RPCs; a streamed
  update makes the drainer ask for the write guard; a quote that arrives next
  queues behind it until the vault fetch is over.
- `feed_resume`: the stream is down, the refresh loop polls another account and
  moves `last_slot` over slots the stream has not delivered; the subscription
  resumes after them. A streamed account that nobody polls stays stale until it
  changes again. A stream that breaks inside a slot loses the rest of it.
- `listed_arrays`: `execute.rs:149` decodes the pool from the entry of the index
  and builds the swap from it (`:278`); the route was quoted on the live account.
  When the price has moved to other arrays, the instruction lists those around
  the cached tick, and the swap fails on chain, or stops early.
- `stale_cache`: the aggregator saves at every start, also what it has just
  loaded, with the time of the save (`main.rs:71`). Started often enough it never
  reloads. The engine does not look at the age.

What the passing properties leave out, because the code does otherwise, and each
names in its own text: PumpSwap's closing of the quote account when the base is
WSOL (`pumpswap.rs:255`), bonding curves next to other venues inside a route,
which leave SOL on the wrong side, Token-2022 mints on the three builders that
know legacy accounts only, or after a failed lookup of the token program
(`FailureIsExplained`, `WsolIsUnwrapped`); programs that ask for accounts their
builder does not list (`FailureIsExplained`, through `LacksAccounts`):
Whirlpool, CLMM and DLMM arrays past those around the cached price
(`README.md:58`, `meteora_dlmm.rs:8`), the remaining accounts of a depegged DAMM
V1 pool (`README.md:59`), those of a cashback or mayhem coin (`execute.rs:188`,
`pumpfun_bc.rs:16`); LaunchLab's base tokens and PumpSwap's reserves
(`OutputIsHeld`); PumpSwap's unit per trade and the raised stable approximation
of DAMM V1 (`NoFreeLunch`); DAMM V2 pools whose tokens differ in decimals
(`QuotesAreFair`); CLMM pools that are not among the richest, and DLMM pools
with a bitmap extension, whose arrays the cold start does not fetch
(`ColdStartCovers`).

Bounds. Three threads are the least that let a stale load be overtaken by two
others. In `Engine`, a pool is funded, then emptied, while validations read it
half-way; the stream can be late, cut and re-established any number of times.
`LiveFeed` has a streamed, a polled and a scanned account, a server with or
without replay (`Retention` slots), and answers up to `MaxLag` slots behind.
More slots or accounts repeat these cases. `plan` scales the budgets down with
the graph (`MaxNeighbors = 4` gives 4, 2 and 1 instead of 50, 25 and 12), so
that every budget is both met and exceeded, and one mint is a seed hub while
another may become one by degree. In `search` both legs of the hub path have two
pools, so that the canonical pool may be unknown, unflagged, thin or mispriced
while the other serves; `MaxRoutes = 2` makes truncation bite, and two changes
of the store can break a path between pick and replay twice; flag changes are
not bounded. In `quotes`, four arrays of two ticks, a bitmap radius of two
arrays and at most three arrays walked make every way to end a walk happen: an
empty array with its bit set, an array that is not stored, a gap without
liquidity, a price on the boundary that a downward crossing leaves, the price
limit. Five positions profiles at thirteen ticks, in both directions, from an
amount that is spent at once to one that is never spent. Six bin arrays of three
bins with holes of a whole array do the same for bins. Three trades are the
least for a position that is built, changed and closed. In `execution`, a pool
or two of every venue over SOL, a legacy token and a Token-2022 coin give every
orientation, wrapped input and token program a builder can meet, and routes of
two hops every way two venues meet, some after a haircut; at every venue that
may, a swap asks for accounts that are not listed. Each cause in
`FailureIsExplained` occurs: without any one of them TLC finds the property
violated. A table takes several extensions, and the slot may or may not advance
before the polls are used up. In `startup`, two CLMM pools of which one is the
richest, a DAMM V1 pool and a bonding curve are the pools whose fetches depend
on earlier ones or that come from elsewhere; one batch may fail (`MaxLost`);
`MaxNow` is the age at which a file expires, and one more moment in
`stale_cache`. The theorems below do not depend on the bounds.

Fairness. The tasks are loops without an exit, so their steps are weakly fair;
the lock is granted in order; an RPC answers or fails. `start_streaming` retries
without end, so a subscription that the server can accept over and over is
accepted at some time, and an update that is due over and over is delivered:
strong fairness of `Subscribe` and `Deliver`. `FeedCatchesUp` assumes that an RPC
node answers from the tip again and again. Nothing is assumed of the chain, the
quotes' arrival, or disconnections. In `Engine`, `Disconnect` has no fairness
and may be taken at any time. The other runs check safety only, and where they
end in an answer, a landed transaction or the bound on trades they do not check
deadlock.

## 4. Theorems

For every value of the constants:

- `AccountStore_proofs`: `TypeCorrect`, `CountCorrect`, `LastSlotCorrect`,
  `NeverRegresses`, `Implements`. The inductive invariant `IInv` adds
  `WrittenSlotReached`: a thread that has written keeps its slot reached until
  it returns. Without it nothing says that the slot about to be stored is held by
  some entry. The counting argument needs that `Present` and `Uncounted` are
  finite and change by at most one element in a step.
- `LiveFeed_proofs`: `TypeCorrect`, `StampsAreLowerBounds`,
  `StreamedNeverUndone`. `IInv` adds that nothing is stamped past the tip
  (else a slot confirmed later could break the bound), that answers in
  flight are as fresh as their stamp, and that a delivered account is stored
  under a slot no older than the delivery.
- `Engine_proofs`: `TypeCorrect`, `ReadersSeeTheFlags`, `NoWakeUpIsLost`,
  `StoreForward`. `IInv` adds five facts. A sweep belongs to the task that holds
  the write guard (`SweepHasOwner`), which makes the half-way states of
  `SweepInStep` invisible to readers. Nothing is stored, streamed or fetched
  before it is on the chain (`BehindChain`). The drainer takes a batch only
  after the last (`BatchDone`), else reports would be overwritten. Once the
  cold start has read a streamed vault, the store is behind the chain only if
  the stream is too, or has skipped it (`ColdIsStored`, `StoredOrDue`). A quote
  vault read as funded still is, or has a report open (`HalfRead`): this
  is the case where the store moves between the two reads of one pool. The
  argument of `NoWakeUpIsLost`: a change of the chain opens its vault at
  once (`ChainChangeOpens`), an open vault stays open until its sweep begins
  (`OpenStays`), and a sweep reads vaults that are not open as they are on the
  chain (`StoredNow`).
- `Router_proofs`, the plan: `SearchIsBounded` and `SearchIsComplete`, theorems
  of the index (`IndexSpec`). The bound counts the paths arm by arm: hubs are
  at most the seeds and `HubCount` ranked ones, mids at most `MaxNeighbors`, and
  the pairs and triples of such sets are counted in `Sums`. Completeness needs
  that every edge has one the other way (`BothWays`): it is what lets the
  reverse arms stand for the forward ones.
- `Router_proofs`, the search: `Invariant`, `TypeCorrect`, `RoutesCorrect`,
  `GainCorrect`, `ShortestCorrect`, for every index, market, hub set, budget and
  store. `PlanIsSound` shows arm by arm that a planned path is simple: hubs
  exclude the ends of the request, mids exclude the hubs. `IInv` adds that each
  pick is a pool of its leg (`PicksOK`, `ScanOK`) and that the replay has
  threaded its amounts so far (`HopsOK`); no part of it mentions the store, which
  is why nothing that moves can break a route. For the filter, `KeptTo` is an
  invariant of its levels (`KeepLevel`): what is kept up to n hops is within its
  gain, it holds every shortest route, and it is empty only if there was none.
  The gain multiplies along the levels (`GainGrows`).
- `Router_proofs`, the still market: `LastHopCorrect` and `ViableLegTaken`, the
  second an action property. As long as nothing has moved since the search began,
  `best_pool` has found the best of what it has looked at (`Scanned`), and there
  are amounts, one per leg, that serve the leg they were picked for and that the
  replay follows (`Threaded`). The amounts are a witness, not a variable of the
  code: the picks are kept and the amounts are not. `ViableLegTaken` adds `Fresh`:
  a path is walked once, so that the leg that ends a path is not one of an
  earlier walk.
- `Quotes_proofs`, the walk over ticks: `LiquidityStaysActive`, `ArraysDoAgree`
  and `TickTypeCorrect`, for every pool that is `WellFormed`, price curve,
  spacing and set of stored arrays, as theorems of `TickSpec`. The inductive
  invariant `TickInv` says what the walk knows of the ticks it has left: all of
  those between the start and its place were crossed, the array it is in is the
  nearest marked one from where it looked, and no initialised tick lies between.
  The price is in its tick or where crossing a tick has left it (`Aligned`);
  without that the tick found for a price could lie behind the walk. For the
  arrays: those walked have no marked array skipped among them, so the first
  `NumRemaining` walked are the first `NumRemaining` marked.
- `Quotes_proofs`, fairness: `QuotesFair`, a theorem of `QuotesSpec`. A floor is
  the largest number that divides and a ceiling the smallest that covers
  (`FloorIs`, `CeilIs`); from these follows what `get_delta_amount_*` and
  `get_next_sqrt_price_from_input` do with a price, and that one step of
  `compute_swap_step` is paid at a price no better than the one it starts at
  (`SwapStepIsFair`), which is no better than the pool's since the walk only
  moves away from it. Steps add up (`FairStepsAdd`, `TickSums`). For bins the
  same is shown of one layer (`AmountsAre`, `FillStep`) and of the bin. For the
  single-price venues it follows from `CurveInv`, below.
- `Quotes_proofs`, bins: `BinsDrained`, a theorem of `BinSpec`. `BinInv` relates
  what was given to `SumTo`, the sum over the bins between the start and the bin
  the walk is at: equal while there is something left to spend, and at most the
  rest of the last bin above it otherwise. Entering an array adds the bins that
  lie between, which hold nothing since the bitmap has the array of every bin
  that does (`SumToFar`, from `SumOfRest` of `Sums`).
- `Quotes_proofs`, sequences of trades: `OutputHeld` and `NoLunchIsFree`,
  theorems of `CurveSpec` for any number of trades of any size, in both
  directions, round trips among them. `CurveInv` says that some market first
  traded and the one now are related by what their venue keeps (`Kept`), with the
  trader's net position as the difference:
  - two sides (Raydium AMM V4, both launchpads, DAMM V1 and its offline form):
    the product of the sides never shrinks and what the trader is up has left
    them (`Fair`). Of two positions that are not negative only zero does both.
    The sides are the virtual reserves of a launchpad, and what the pool's shares
    of the two vaults are worth in DAMM V1 (`Reserve`), where deposit and
    withdrawal round against the trader;
  - a bonding curve's lamports and LaunchLab's quote, paid from virtual
    reserves, are really there because the curve stays `Backed`: if all coins
    outside were sold back, the product says what for, and the real side holds
    that. `SellHolding` and `Sell` move coins that are outside;
  - PumpSwap quotes a curve that no trade moves: each trade is up less than one
    unit of either side on it (`UpOnCurve`);
  - a single price: the position is worth no more than nothing at it (`Worth`);
  - the DBC ladder: climbing from the start to a price has a cost (`CostTo`), and
    between a price and the top there is something for sale (`Between`). A stretch
    of the ladder is one term of either sum (`LadderMoves`, from `SumChanges`), a
    walk adds stretches up (`UpStep`, `DownStep`, from `IteratesPass`). Both
    reserves cover their sum (`OnLadder`), which is `OutputIsHeld`. For
    `NoFreeLunch` the sum must not round as the last trade did, so `Gained` holds
    for every choice of prices at which the segments are cut; a position that
    gains on both sides would make one of them increase and decrease
    (`LadderNoGain`).
- `Startup_proofs`, the cache: `LoadedPoolsWereSaved`, for every set of pools,
  DEXs and curves and a crash at any step. The invariant says that a file with a
  sentinel holds exactly `saved`, that a file without one is only being written
  by the process that saves, whose records are those of its index, and that the
  index of a process that loaded keeps the loaded pools.
- `Startup_proofs`, the cold start: `ColdStartCovered`. The invariant has one
  clause per phase: once it is over, the accounts it is there for were asked for
  (`VaultsTried` to `ConfigsTried`). Phases 3, 4 and 7 choose by what is in the
  store, which the hot-vault refresh may have written too. Two facts keep that from leaving
  anything out: the refresh polls no account of another kind (`PollsApart`), and
  an extension is in the store only of a pool that has one (`ExtensionsAre`).
- `Execution_proofs`, the table: `TablesAreComplete`, for every route, wallet,
  chunk and number of polls. The invariant carries the entries of the table
  through the set-up: after the last chunk it has all addresses, and the slot
  seen past the extension stays past.
- `Execution_proofs`, the instructions: `LossBounded`, `WsolUnwrapped`,
  `FailuresExplained` and `ExecutionTypeCorrect`. What the ten builders make of a
  hop is brought to one form (`BuiltIs`); from it follows the place of every
  instruction in a route of any length (`Layout`) and what the chain runs at each
  step (`RouteInv`, `RunDoes`). Over that there is one invariant per question.
  `MoneyInv`: the wallet is never behind the sum of what the swaps so far were
  granted, per mint. `ClosedInv`: after the close the WSOL account is gone.
  `ReadyInv`: unless the call gives a reason (`Clean`) or a fill fell short of
  its floor or of what the next hop puts in (`FellShort`), the account from which
  the next swap draws holds enough, and the user's accounts that it and the close
  name exist; `FailInv` adds `LacksAccounts` and concludes that every failure has
  one of the causes named. The theorem is about the user's token accounts,
  wrapping, closing and direction. That a builder lists the accounts of the pool
  that its program wants is not claimed: where it does not, the repository says
  so and the property names it.

Assumptions. Those on the constants are named `*Assumption` in the modules, and
TLC evaluates each in a run. Most are types. These say more:

- `RouteAssumption`: each hop takes the mint that the hop before gave, and no more
  of it than was quoted. `RoutesCorrect` proves both of the router's answer, with
  equality; `bin/multihop.rs:102-108`, the caller with two hops, puts in 95 %.
  `RouteHop`: the base of a launchpad pool is the
  coin launched, never WSOL.
- `WalletAssumption`: a token account of the wallet has the program of its mint;
  the associated-token-account program creates no other.
- `CurveAssumption`: the listed bonding curves are pools.
- `WellFormed` (`TickAssumption`): prices grow with ticks, the price of a pool
  lies in its tick or at its top and strictly between the limits, liquidity
  changes at initialised ticks only, and the bitmap has their arrays. The Raydium
  program keeps these; a pool created exactly at the lowest price of all is
  left out.
- `WellKept` (`PairAssumption`) and `BinAssumption`: prices grow with bins, the
  bitmap has the array of every bin that holds something, and the largest fee is
  below the whole amount.
- `SoundMarket` (`MarketAssumption`), what the program of each venue keeps of a
  market that is first traded. A single price is positive and a fee at most
  10 000 basis points; without the first a quote is an error. A bonding curve or
  launch could pay for all the coins outside, were they sold back. The reserves
  of a DBC pool cover its price, and its segments rise. A DAMM V1 pool has at most
  all the shares of its vaults. `CurveInv` shows that trades keep each of these.
- `UnitAssumption`: the scales are positive and the largest DBC fee is at most
  the whole amount.

Only model-checked:

- liveness, which needs fairness and ENABLED, out of the prover's reach:
  `FlagsSettle`, `QuotesAnswered`, `StreamComesUp`, `FeedCatchesUp`;
- `NoFreeLunch` for a DAMM V1 pool on the stable curve (`OnStableCurve`).
  `compute_d` and `compute_y` stop when two rounds differ by at most 1, or after
  `NewtonRounds`, and nothing in the code says how far from the curve that is: the
  property rests on the convergence of Newton's method for these amounts.
  `OutputIsHeld` is proved there too, since the liquid reserve caps the payment.

The library's induction theorems take an operator as a parameter, which the
prover cannot instantiate. There is a way round: `Sums` states induction for a
set that is closed under one more step (`NatSetInduction`, `SubsetInduction`,
from the well-foundedness of the order), and from it what a sum over a finite set
promises and how a recursive function goes on (`Iterated`, `IteratesStay`,
`IteratesPass`): a property of its values is the set of the arguments at which
they have it. The properties of `violation` runs are refuted, not proved.

## 5. Not modelled

Layouts of on-chain accounts and instructions, HTTP parsing and JSON, terminal
output, floating-point prices and price impact, the SOL price task, the offline
arm of the router, `simulate_route`, the Whirlpool library, and the probe
binaries: data without control, or code of others. Two processes that save the
same file at the same moment (`cache.rs:278`) are left out; the model has one
process at a time.

Observations made while reading that no property states, since the code
promises nothing about them, all but the last two with their place in a model:

- a failed cold batch is not retried, and its pools stay unflagged until a vault
  streams; flags of pools whose vaults are not in the stream are never
  re-evaluated after the cold start (the properties of `Engine` speak of
  `Followed` pools for this reason);
- the reverse arms do not skip mints seen before, so copies of one path may fill
  the five routes of an answer; canonical pools are ranked once, by the balances
  of the cache; the filter trusts the shortest route, so a direct pool that pays
  far too little rejects every better detour;
- `load_all` returns what it could read: with the RPC down the index is empty,
  is cached, and the engine loads it at every later start;
- the clock of a DBC pool is that of its load (`loader.rs:481`), so its fee
  schedule stands still; a PumpSwap quote ignores live data
  (`pumpfun-amm/src/lib.rs:159`);
- the haircut of `README.md:339` is in `bin/multihop.rs` only, at 95 %; the
  router's own routes put in all that is quoted (`RouteAssumption` has both);
- a LaunchLab buy divides the virtual reserve and is not capped at the tokens the
  pool still sells, `total_base_sell - real_base` (`bonk/src/lib.rs:111`, `:119`;
  the pool of the test at `:270-273` has more virtual than real tokens). A
  PumpSwap quote never reads the reserves the pool was decoded with
  (`pumpfun-amm/src/lib.rs:95`, `:144`). Both may quote more than is there; no
  line of the repository says that they do not;
- `validate_pool` does not rebuild the cached set, unlike its comment
  (`pool_registry.rs:178`), but nothing calls it;
- comments that the code does not follow: the CLMM quote "falls back to the
  single-price approximation" (`raydium-clmm/src/lib.rs:348`) but returns an
  error; the offsets of the LP mint (`cold_start.rs:475` says 83..115, the code
  reads 115..147); "paired with hub mints" (`loader.rs:5`) where no filter on
  mints is made.

## 6. Plan

1. Done: store, registry, engine tasks, live feed, with their proofs.
2. Done: `PoolIndex`, `RoutePlan`, `Router`, with proofs of the search.
3. Done: quotes (`TickWalk`, `BinWalk`, `Curves`), with proofs of both walks
   and of the fairness of their prices.
4. Done: `Loader`, `PoolCache`, `ColdStart`, `Startup`, with proofs of the cache
   and of the cold start.
5. Done: `SwapBuilders`, `Execution`, with proofs of every property.
6. Done: proofs of `OutputIsHeld` for the reserves in `Holding` and of
   `NoFreeLunch` for every venue and curve but the stable one, which is left: it
   needs a bound on the error at which `Converge` stops.
7. Left to model: two processes at one cache file, the offline router.
