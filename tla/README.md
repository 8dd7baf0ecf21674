# AlphaForge / QuantPass: verification project

TLA+ models of the parts of this repository that hold money, sign something, or
decide what a page or a backend may claim; TLC runs on small instances; and TLAPS
proofs for every value of the constants. Each definition is translated from the
source; `PROJECT.json` maps it to its lines, and lists the runs, mutants, hazards,
findings and theorems.

## 1. The system

A user holds PASS tokens of a strategy. PASS gives the right to put AF-USDC into a
personal *Strategy Vault*, which buys and sells tokenised stock against a reserve at
a price a keeper publishes. PASS is first sold in a *fair launch* and then traded in
a *PASS pool*, also for ETH through a reserve with signed quotes. Node backends index
the contracts into SQLite and serve readiness, projections and operation status; an
executor process may trade an earlier kind of Vault within a grant its owner signed;
pages in the browser put transactions before a wallet.

```
 owner / executor --execute, deposit, withdraw, close--> StrategyVault --trade--> StockReserve
                                                            |  \--lock/release--> PassLocker
 keeper --publish--> ReferenceFeed <------ price, freshness-/
 buyer --subscribe--> FairLaunch --last one--> PassFactory --create+initialize--> PassPool <-- trader, LP
 buyer --signed ETH quote--> NativeReserve / MarketRouter --> PassPool
 RPC endpoints --blocks, logs, receipts--> ChainSynchronizer --> ChainStore <-- M3 backend, trackers, reads
 RPC endpoints --> MarketIndexer --> index DB --> projector --> market store <-- MarketService (vouchers, operations)
 executor process --order journal, nonce files--> wallet key --> RPC   (permits: security model)
 pages: launch client, Vault page, owner's page, deployment page --> wallet, backend, localStorage
 operators: container supervisor and recovery, offline copies of the stores, deployment engine
```

### Inventory

| Component | State | Operations | Hard behaviour | Correct when |
|---|---|---|---|---|
| Reference feed (`contracts/src/launch-vault`) | price, session, timestamps | publish, read with a freshness limit | a price goes stale between signing and inclusion | trades run on a fresh price only |
| Strategy Vault, PassLocker, stock reserve | cash, principal, locked PASS, profit paid, position, version, grant | deposit, withdraw, close, rescue, grant, revoke, execute | calls signed in one block run in another; replay; rounding; transfers outside the books | books balance, custody, no replay, no stale order, budget kept |
| Fair launch, factory, pool (`contracts/src/market`) | sale, escrows, reserves, shares | open, subscribe, launch, mint, burn, swap | the last subscription must also launch; gifts to the predicted pool address; rounding | sale can finish, pool never locks, no dilution |
| Native reserve, router | ETH and AF-USDC, signer epoch, day budgets, used quotes | signed quotes for ETH trades and subscriptions | replayed or old-signer quotes, day limits, rounding in three places | a quote runs once, the reserve keeps its value |
| Trading Vault (`AlphaForgeTradingVault.sol`), reader and planner (`packages/testnet`) | idle and runtime cash, units, positions, bounds, liquidation window | deposit, allocate, swap, liquidate, withdraw, close; read, plan, prepare | bounds crossed while orders are in flight; off-chain sums that must agree with the contract | units backed, no dilution, a planned order is accepted |
| Chain indexer (`chain-sync.ts`, `chain-store.ts`) and M3 backend (`m3-chain-runtime.ts`) | canonical blocks, events, checkpoint, lease, projections, operations | claim, rewind, search, record, project, release, track, poll | reorganisations between awaits, two processes, crashes, endpoints with different views | one branch, reads match the store, evidence on the canonical chain, progress |
| Market indexer, projection, vouchers (`indexer.ts`, `packages/launch-market`) | cursor, blocks, logs; snapshot, vouchers, operations | scan, rewind, publish; reserve, submit, observe, roll back | two databases, a crash between them; reissue against a late claim | index and projection agree, a spent voucher is not issued again |
| Executor, order journal, nonces (`testnet-executor-service.ts`, `packages/testnet`) | durable orders, claims of nonces, locks | sign, broadcast, reconcile | crash between signing and broadcast, two processes with the same keys | one order per nonce for ever, the journal reopens and catches up |
| Execution permits (`src/security-model`) | replay store | issue | expiry, purging, malformed amounts, closed positions | no decision twice, inside the policy |
| Container (`deploy/container`) | lease, services, volume | start, stop, kill, snapshot, restore, quarantine | processes that outlive their parents | nothing writes under a copy; all stop together |
| Offline copies (`storage-snapshot.ts`, `chain-recovery.ts`) | folders, manifests | backup, restore | failures half way, servers that write meanwhile | a manifest is one moment; nothing is overwritten |
| Logins and sessions (`wallet-auth.ts`), owner's page (`TestnetPage.tsx`) | challenges, sessions, cookie, localStorage, card | login, logout, preview, confirm, recover | account changes, reloads and lost answers at every await | one login per signature, no session left, nothing asked twice |
| Testnet server (`testnet-startup.ts`, `server-backups.ts`) | databases, backups, pause | report, sync, backup, close | a backup over awaits while requests run | reports stand, a backup is one moment, writes resume |
| Paper account and service (`packages/automata`) | cash, positions, limits; queue, two journals | batch, fund, stop, back up | a stop past the queue, crash between two journals | ledger, neutral funding, limits, journals replay |
| Local simulator (`packages/domain`) | vault, bot | commands, frames | rounding, a bot that holds the active side | books of vault and bot agree |
| Launch page, Vault page (`apps/web`) | reads, reviews, saved transactions | refresh, quote, confirm, poll, submit | switches of account, relinks, reorganisations at every await | sent as reviewed, recorded, followed |
| Deployment page and engine (`deployment-wallet.ts`, `deployment-execution.mjs`) | journal of the plan | send next, observe, recover; reserve, sign, broadcast, reconcile | two tabs, crashes, foreign nonces, reorganisations | a step is taken once, on mined steps only |
| Market accounts and sessions (`packages/launch-market/src/store.ts`, `routes.ts`) | accounts, links, challenges, wallet sessions, vouchers | sign in, bind a wallet, open a session, act | an account adopted or relinked while requests that passed their checks still write | one claim per wallet and per email, a session speaks for its wallet |
| Reads of one block (`rpc-chain.ts`, `pinned-rpc.ts`) | shared snapshot of a block | snapshot, wallet, quote, simulate, capture | the chain is replaced between two reads; failed reads are shared | an answer is of the block it names |
| Price references (`stock-reference`, `eth-reference.ts`), captures (`packages/market-data`) | caches with one load, files of updates; journals of captures | view, load, publish; capture, batch, collect, restart | late loads, a clock set back, a registry that changes between two documents | no stale price is handed out or signed, no price under a wrong multiplier |
| Factory of Vaults, HTTP routing, governance tools | | | mostly I/O or text | not modelled, see section 6 |

The hazards, each at its line, are in `PROJECT.json`; the properties were chosen from them.

## 2. Modules

Each component module has its variables, one action per handler or per stretch of
code between two awaits, a `...Spec`, and its properties at the end. An `MC` module
gives constants and puts several components beside each other, one in each behaviour
(variable `part`, `tool` or `pageOpen`): the others rest. That keeps the number of
runs small and changes nothing about a component. A definition ending in `Mutant` is
a plausible bug of the definition below it, used only to show that a property sees it.

| Module | Models | Proved in |
|---|---|---|
| `ReferenceFeed`, `StrategyVault` | feed; Vault, locker, reserve, calls in flight | `StrategyVaultProofs` |
| `PassMarket` | fair launch, factory, pool | `ContractsProofs` |
| `NativeMarket` (extends `PassMarket`) | native reserve, router, ETH subscription, quoting service | `ContractsProofs` |
| `TradingVault` | Trading Vault, reader, planner, prepared orders | `ContractsProofs` |
| `ChainSync` | synchronizers, trackers, the store they share | `ChainSyncProofs` |
| `M3Server` | the M3 backend over two contracts, reports, readiness | `IndexProofs` |
| `MarketIndexer` | market indexer, projection, vouchers, operation polls | `IndexProofs` |
| `MarketAccounts` | accounts, links, wallet sessions, the requests that act for them | `ChainSyncProofs` |
| `PinnedReads` | reads that answer for one block, the shared snapshot | `ChainSyncProofs` |
| `StockReferences`, `ReferenceCaptures` | price caches and the keeper's updates; captures, batches, collectors | `ToolsProofs` |
| `OrderExecutor`, `NonceBook` | executor, journal, nonce files; what it promises | `OrderExecutorProofs` |
| `PermitIssuer` | risk engine and replay store | `PermitAndHostProofs` |
| `ContainerHost` | supervisor, launchers, services, volume, recovery | `PermitAndHostProofs` |
| `OfflineCopies` | market folder snapshots, chain database copies | `IndexProofs` |
| `OwnerPage` | login, reader, card and confirmations of the owner's page | `ServersProofs` |
| `WalletAuth`, `TestnetServer` | logins on the server; reports, synchronisation, backups | `ServersProofs` |
| `ReferencePaper`, `PaperService` | paper account; the service around it | `ServersProofs` (the service) |
| `LocalVault`, `LocalAutomata` | the simulator's vault; its bot | |
| `LaunchClient`, `M3Browser` | launch page; Vault page | |
| `DeployChain`, `DeploymentWallet`, `DeploymentEngine` | the chain the tools see; the page; the engine | `ToolsProofs` |

**State and actions.** *Contracts:* a transaction is one action with every internal call
in it; a `require` is a guard. What is not atomic is inclusion: calls, quotes and
orders are signed in one state (`SignOrder`, `SignQuote`, `Plan`) and run in a later
one, or again. Integer division rounds as in Solidity, with scales as constants.
*Backends:* a step is what one process does between two awaits; a store transaction is
one step. The RPC answers from the chain ending in `tip`, which may move anywhere at
any time (growth, reorganisation, another endpoint). A crash loses memory and keeps
rows, locks and files. *Pages:* a call is a record with its program counter and what it
read; account, link, storage and server move under it. *Files:* a database's content is
a number no other content has, a manifest is what it names.

* `StrategyVault`: digests and events appear only where a guard reads them. Subtraction
  below zero is a revert, hence a guard; that it is never needed is what typing proves.
* `ChainSync`: `Preemptible` says whether another process may act between two store
  calls of a tracker: one Node process cannot interleave there, two can.
* `MarketIndexer`: the rewind commits two databases with no await between; nothing else
  of the process runs there (`Held`), but it can be killed there (`KillInRewind`).
  The contract appears as the outcome of each account's claim in each block, and by the
  conditions under which the quote's simulation at the head accepts a claim (`SimulateClaim`):
  a quote that fails there, or on the way, hands out no voucher (`EndQuote`).
* `OrderExecutor`: a configuration owns a data folder, two may hold the same keys. Lock
  files survive a crash and may be removed by the operator while a process runs. Which
  order a cycle chooses is an input; `TradingVault` has the planner.
* `OwnerPage`: a confirmation goes on when its card is gone. `marks.overtaken` notes a
  login that passes a confirmation still before its record: the one exception in
  `RecordKept`, checked to be needed. A change of account and its event are one step, and so
  are the reads of a login after its verification.
* `TestnetServer`: backups are in the order of their creation, which is that of `createdAt`
  while the clock is not set back; a synchronisation always reaches the head, which the code
  does for up to 2000 blocks.
* `MarketAccounts`: a request is checked in one step and writes in a later one; the identity
  bridge appears by what it answers, the policy of the console may change under it.
* `PinnedReads`: a call is the list of its reads still to make; each is answered from the
  chain as it is then. `StockReferences` and `ReferenceCaptures` have a clock that may be
  set back; a capture is its three documents with the times they were read.
* `DeploymentWallet`, `DeploymentEngine`: deployer and administrator are one account;
  reorganisations are at most as deep as the confirmations the code waits for.

## 3. Runs

Every run finishes within a few minutes with two workers. Deadlock is checked in `vault`
and `sync`; the others may really stop (a sale nobody buys from, a page nobody clicks, a
closed server), and their configurations say so.

| Run | Parts | What it asks |
|---|---|---|
| `vault` | orders of an executor, books of an owner, a Vault among strangers | do the books balance under rounding; can a call run twice, under another grant, beyond its budget; do strangers' transfers uncover the books |
| `sync` | a fork deeper than the search; two synchronizers; one with a tracker; the market's accounts, its reads | is the store one branch; does an operation keep evidence on it; do reads wait for their targets; does an account claim once and a session speak for its wallet; is an answer of its block |
| `contracts` | PASS market; with the native reserve; Trading Vault | can the sale finish and the pool stay live; do quotes run once and keep the reserve's value; are units backed and is capital protected |
| `index` | market indexer with a claim, one synchronizer, M3 backend; offline copies | do pollers catch up; is the market's index one chain that its store follows; does a spent voucher stay spent; do true reports settle and false ones fail; is each manifest one moment and each copy honest |
| `executor` | two executors with the same keys; permit issuer; container | do they implement one `NonceBook`; does the journal reopen and catch up; are permits inside their policy; is the volume safe, do all stop together |
| `browser` | launch page; Vault page | is what was sent recorded, as reviewed, and followed; does what the page shows hold |
| `tools` | deployment page in two tabs; deployment engine; simulator; paper account; price references; captures | is each step taken once and on mined steps only; do the books agree; are the terms kept (funding neutral, profit before principal, limits); is no price stale or under a wrong multiplier |
| `servers` | testnet server; logins; owner's page; paper service | do sessions end, records stay, backups hold one moment, reports stand, and does nothing hang |
| `sync_events`, `market_torn`, `owner_shown`, `launch_lock` | | violated: see section 4 |

**Bounds** are named constants used in guards. They are chosen so that a whole cycle of
the interesting behaviour fits: a rounding partial sale followed by a full sale and a
withdrawal; a grant replaced between signing and inclusion; a fork with a search limit
that is sometimes enough and sometimes not; a launch, swaps, and a removal; one sale
within the day's ETH budget and not two; a claim completed, reorganised away and polled
late; one order final and a second one in flight on the same nonce; a snapshot, a
restore, and a write after it; two rows of sessions, so that an owner could have two, and
three wallets, so that the rows run out. Where two kinds of trouble multiply the states without
interacting, a *budget* (`PageBudgets`, `ServiceBudgets`, `M3Faults` ...) is a set of
mixes from which each behaviour takes one. Amounts are small and scales are chosen so that every
division has a remainder somewhere. The proofs of section 5 drop the bounds.

**Symmetry** is used in `sync` (the two synchronizers of a lease) and in `tools` (the two
tabs). Neither checks liveness.

**Fairness** is weak fairness of what a process does by itself: the next step of each
poller, synchronizer and page job, the page's timer and event stream, the executor's
cycle, the container's reactions to an exit, the server's jobs and closing, the paper
service's queue. Timers run for as long as their process lives, and an awaited
call answers or throws (requests have time limits), so an enabled step is taken in the end. None is
assumed of the chain, of crashes, of failures or of users. Liveness about the chain is
claimed only from the moment it rests and calls stop failing (`settled`, `resting`).

**Refinement.** `NonceBook` says what owners of one key promise: a nonce is claimed for
one order, signed once, and what is recorded as final stays. `OrderExecutor` implements
it (`ImplementsNonceBook`): the mapping takes the nonce files and the journals of all
configurations together.

**Mutants.** Each property of each passing run is violated by at least one mutant, a
change of one definition that could be a bug of its code.

## 4. Findings

* `sync_events` (`chain-sync.ts:288`): logs are asked for by number after the block. An
  empty answer carries no hash, so with an endpoint of another view a block is recorded
  without its event, and a replay would store something else
  (`docs/M3-CHAIN-ADAPTER.md:110`).
* `market_torn` (`indexer.ts:353`): `rewind` commits the index and then the projection,
  in two databases. Killed in between, the next start finds its cursor canonical, never
  rolls the projection back, and every publication throws (`README.md:58`, "reorg
  recovery"). Rolling the projection back first, or comparing the two at start, closes
  the window.
* `owner_shown` (`m3-browser-runtime.ts:982`): `reviewDepositApprovals` publishes for the
  session it captured before its reads. When the account changes meanwhile the page gets the
  ended session's owner and write mode back, and a refresh without a session keeps them
  (`product-ui.ts:701`, "Wallet events invalidate the displayed owner immediately"). What is
  then clicked is refused: a review needs a session, and the wallet's account is compared
  before a send. `ShownHolds` excepts what such a review published (`page.late`) and nothing
  else.
* `launch_lock` (`client.ts:611`): the failing last refresh of `bindWallet` releases the
  lock of another call that waits for the wallet, against the comment at `client.ts:400`.

Two disagreements that earlier had a run of their own: `claimSync` overwrites
`CHAIN_REORG_DEPTH_EXCEEDED`, which `docs/M3-CHAIN-ADAPTER.md:106` says needs manual recovery; and
`observeOwnerSubmission` writes a SUBMITTED it read earlier over MINED or CONFIRMED
(`trading-chain-runtime.ts:247`). And one window has none: the tracker reads its block
outside the transaction that saves the operation (`chain-sync.ts:370`). With
`Preemptible = TRUE` TLC refutes `OperationAnchored`; readiness checks the block again,
so it fails closed. That is why the theorem about it assumes `~Preemptible`.

## 5. Proofs

Checked by TLAPS for every value of the constants that satisfies the modules' named
assumptions. Those say only what kind of value a constant is (a price is positive, a
parent is one block lower, a budget is a number), that model values are no
ordinary ones, and, for the market, what the deployment fixes; TLC evaluates each
in some run. A component is proved about its own specification, without fairness.

Each theorem has the same shape: a property that TLC has checked on a run; an inductive
invariant that implies it; that the initial states have that; and one lemma per action that
keeps it.

| Module | Theorems | Inductive invariant, and why the property alone is not one |
|---|---|---|
| `StrategyVaultProofs` | `BooksCorrect`, `CustodyCorrect`, `ProfitCorrect`, `BudgetCorrect`, `OrdersCorrect` | `TypeInv`: a full sale decrements the open count, so typing needs `PositionShape`. `BooksInv`: capacity, custody and the ledger identity hold each other up, since a withdrawal is bounded by the ledger and the ledger by custody. `ControlInv`: a call that ran has a version below the current one, no two calls in flight are twins, what was spent is within the grant |
| `ContractsProofs` | `MarketLiveCorrect`, `ShareValueCorrect`; `NativeMarketLive`, `NativeShareValue`, `ConversionsKeepValue`, `EthQuotesCorrect`; `SnapshotsAndPlansSound`, `CapitalStaysProtected` | `MarketInv`: the last subscription is accepted only because the escrows are complete, a swap stays in the types because the reserves are positive and covered. Share value rests on lemmas about floor division. `NativeInv`: each quote still open or settled is what its signer computed from some price, and each trade of the router is the pool's own with the reserve on one side; `BudgetInv`: what the accounts spent on a day adds up to the day's. `TradingInv`: the Vault's books, what custody holds against them, and an order that fits the types: a position is counted exactly while it is open, so the last units leave only when nothing is |
| `ChainSyncProofs` | `StoreIsCoherent`, `TargetsAreHonoured`; `MarketStaysHonest` | `StoreInv`: what each synchronizer holds in memory at each program counter, relative to the store *if it still has the lease*, and nothing otherwise. A chain's ancestry is a recursive function; it is unfolded through least closed sets, and the search's lowest block through a well-founded minimum. `AccountsInv`: a row with a history stays open, so its email and wallet are never given away, and the log of claims agrees with the vouchers; `AskedInv`: a request that waits has its account and the wallet of its session. `ReadsInv`: an answer is only as good as the reads before it, so each call says of every part it has so far that it is of its block, or that the chain left that block since; who joined a read has one of its own block that is still in progress |
| `OrderExecutorProofs` | `JournalsReopen`, `ExecutorRefinesNonceBook` | `ExecutorInv`: per configuration, the journal opens, a fresh row is not yet logged, a nonce file names its owner, the order and the page in hand agree with the rows; on the wire, only what some journal signed, and hashes below the counter |
| `PermitAndHostProofs` | `PermitsCorrect`, `VolumeIsSafe` | `PermitInv`: the replay store forgets nonces after their time, so "not twice" needs that every permit's decision ends in time and that what has not ended is remembered. `HostInv`: whoever runs has a supervisor that holds the lease; a closed launcher has ended its services; a recovery holds the lease for its time |
| `IndexProofs` | `ManifestsHold`, `CopiesAreHonest`; `OperationsStaySound`; `MarketStaysCoherent` | `CopyInv`: contents are never used twice, the source of a running copy is held still by its lock, a destination has no manifest before its end. `ChainInv` is the same for the chain's database. `M3Inv`: a receipt is read at one step and its outcome saved at a later one, under a network that has moved on, so the proof follows the chains: each that is kept (an index, a poll's head) is one the network had, in which a hash and a transaction occur once; a canonical row is where its contract's index has its block; a confirmed one stays deep in the network's chain, in the head of the poll under way and in a healthy index; and the row a poll is about to save was read against the head it polls. `IndexInv`: the market's index and its store are two databases, so the proof says for each call of a tick what it may still rely on (a chain fetched goes on from the cursor, the search is below it, nothing is HEALTHY before it is published) and, between the two commits of a rewind, that all it will keep is on the index's chain. `VouchersUsed`: a voucher with a transaction is past being issued, whatever a rewind makes of its status; `OperationsTyped` is what polls of operations may hand it |
| `ServersProofs` | `RecordsKept`, `SessionsEndCorrect`, `ReportsHold`, `CopiesAreTrue` | `PageInv`: what each suspended call knows of card, session and record, unless a login overtook it; each open session is the page's, or one that a load of the page found, or a named step of a login or logout will end it, unless such a step has failed. `AuthInv`: while a challenge is open no verification of it exists, and one verified has opened nothing yet. `ServerInv`: a backup in the tail is the only one and writes are paused for it, so what it has copied so far is what the databases hold now. `ServiceInv`: batches are numbered by those before them, one backup is in the queue, and what was noted when its copies began stays true of a journal that only grows |
| `ToolsProofs` | `StepsTakenOnce`, `TakenOnMinedSteps`; `PricesStayHonest` | `EngineInv`: rows, signatures and transactions number each other, so a signature can be traced to the one row that asked for it. `PageInv`: the tab that holds the lock is the only one that is not idle, prompts and journal number each other, and a step called confirmed lies deeper in the chain than all the blocks still to be dropped. `ReferenceInv`: a source has one load at a time, and a failed load of ETH is older than everything kept or still loading, so a request that joins a load gets none from before the failure; the keeper's files were read in the session they state. `CaptureInv`: what a capture has read so far relative to the registry as it is now, without which equal first and last documents say nothing of the quote between them; `LoopInv`: the count of failures is that of the rejected rows at the end of the journal |

`MarketStaysCoherent` joins `IndexStaysCoherent` (the index and the store) and
`SpentVouchersStay`. Of the store it says something only with `~KillInRewind`: a kill between
the two commits of a rewind does tear them, and the run `market_torn` shows it.
`MarketStaysHonest` joins `AccountsStaySound` and `ReadsStayPinned`.

Where a run puts components beside each other, the theorem is about each of them under
its own specification (`AuthSpec /\ PageSpec => []SessionsEnd`), or, in `ToolsProofs`, about
the run's `ToolsSpec`, in which a behaviour is one of the tools (`ShownPricesFresh` and
`CapturesHonest` say the same of the references by themselves). `Shallow`, the
hypothesis of `TakenOnMinedSteps`, says that no more blocks are taken back than a
confirmation waits for: a count of confirmations promises nothing beyond that, and a deeper
reorganisation refutes it. `ExecutorRefinesNonceBook` is the safety part of the refinement:
initial states map to initial states and each step to a step or a stutter.

Sums over a set (the accounts' budgets, the worth of the positions) are folds, and a fact
about a fold needs an induction these provers cannot instantiate from the library. The
section "Sums over a finite set" of `ContractsProofs` gets it from the least number, and the
smallest part of a finite set, that would break the fact, and proves what the
components need: a sum of numbers is a number, and one entry that grows by an amount
raises the sum by that amount.

A proof that would not go through found an error in the model: a conjunct of
`LinkedChain` was indented under a quantifier of the one before it, so that TLC had been
checking less than the comment said. It is corrected, and holds.

**Only model-checked.**

* Liveness (`PollersCatchUp`, `JournalCatchesUp`, `StopsTogether`, `TransactionFollowed`,
  `NothingStuck`) and anything with `ENABLED`: outside the prover.
* What a long recursive computation over a basket or a batch yields (`AccountsBalance`,
  `TermsKept`: the paper account's and the simulator's trading).
* `ConfirmedWithEvidence`: with any number of trackers, two may confirm the same
  row again across a reorganisation that returns to the first branch; the statement is
  checked for one tracker.
* `SendsRecorded`, `ShownHolds`, `SentAsChosen`: the browser's records are filtered
  sequences and folds over them, and these provers know nothing of `SelectSeq`.

## 6. Not modelled, and why

* *Vault factory*: one deterministic deployment in one transaction; nothing interleaves.
* *HTTP routing, cookies, decoding of answers, the market's history and candles*: what they
  accept reaches the modelled state through guards; their parsing is data.
* *Unindexed snapshots of the market, the whitelist of captures*: the deployment indexes,
  and the whitelist is a text that is assessed.
* *Governance, metadata and dashboard tools, CI runners, rendering*: they read the
  repository or draw; no state outlives a run.
* *Migrations and integrity checks of the databases*: before the modelled behaviour.
* Approvals, deadlines and callers' own slippage bounds only make a call revert; they
  appear where a planner relies on them. `uint256` overflow reverts and is not reached.

The map names about 19,400 source lines, some 18 % of the repository's implementation when all
of its programs, contracts, tools and pages are counted. Most of the rest is in the groups above.

## 7. Observations

Behaviour met while modelling that contradicts no document, kept for maintainers.

* *Deployment.* An INTENT saved just before the plan expires, or a rejected prompt, leaves
  the plan stuck: `recover` needs a hash. The engine does not broadcast again what
  it signed before a crash.
* *Vault page.* `publish()` spreads the snapshot before its `observe` await, so a refresh may
  put back an older status; two concurrent confirmations both pass
  `assertWritable`; a hash is lost if the page reloads during the last `observe` of `submit`.
* *Owner's page.* A confirmation that awaits `latest` survives a logout and a login of the
  same owner; a late wallet answer clears `client.owner` under a newer login; a load restores no account
  and leaves the session's cookie until the next login or logout; two tabs do
  not see each other's intent; a wallet locked after `verify` leaves the session's cookie. These two are the exceptions
  of `SessionsEnd`: `marks.troubled` for a verified login or a logout that failed, `marks.kept`
  for the session a load found; whoever that session is of, it is gone after a login or logout.
* *Paper account.* With no units and a dust position a later price rise gives value to
  nobody, so new funding is revalued; dust worth no more than its fee cannot be
  liquidated until the price rises.
* *Simulator.* At the history limit even a bot's stop is refused; funding out all cash with
  no units is refused by a division by zero.
* *Testnet server.* Failed backup folders are never deleted and count against the
  capacity; the evidence journal drops duplicates by content, so after A, B, A its tip is B;
  a manual backup refuses reports awaited across it; a crash leaves the lock to the operator.
* *Container.* A ready token printed twice shuts the container down; a restore is not
  verified after copying; `quarantine-stopped-lease` trusts the operator that nobody runs.
* *Claims.* A claim mined and not yet indexed is counted neither as claimed nor as reserved once
  its voucher expired or an operation poll marked it INCLUDED (`store.ts:481`), so the stored
  reservations can exceed the cap by one. No voucher too many is handed out: the quote then
  simulates the claim at the head, where the contract refuses it.
* *Market folder copies.* A failed copy leaves an unlocked destination that a server takes
  for a new one and a later backup accepts as a source.
* *M3 backend.* `recordReplacement` and `recordDropped` have no caller in production; an
  operation 2000 blocks behind the checkpoint stops being product-ready; a failed read
  during reconciliation is shown as CONTRACT_STATE_MISMATCH until the next poll; false
  reports are tracked for ever, but the cursor keeps true ones moving.
* *RPC.* Reads by number do not see a chain that goes from A to B and back to A.
* *Permits.* Two decisions evaluated on one snapshot of the account both get permits; a clock
  that steps back admits a forgotten nonce again; a bad signing key uses the nonce up.

## 8. Plan

1. The browser's records as functions instead of filtered sequences, and then `SendsRecorded`
   and `ShownHolds` for any number of records.
2. `ConfirmedWithEvidence` restated for several trackers.
3. The deployment verification in the model.
