# Nexus perpetual exchange: TLA+ models and proofs

The contracts under `contracts/` implement a perpetual exchange. Traders and
liquidity providers do not trade directly: they put a *request* (an order, a
deposit, a withdrawal) with its tokens into a vault, and a keeper later
executes it in a transaction of its own, with prices it brings along. This
directory holds TLA+ models of that machinery and of the scripts around it, which
deploy the contracts, list the markets and pay incentives; TLC runs that check the
models on small instances; and TLAPS proofs for all instances.

## The system

| part | state | operations | interacts with |
|---|---|---|---|
| order handlers (`exchange/OrderHandler`, `order/*`) | the order of each key, the account's order list, the nonce | create, update, cancel, execute; handle an error: revert, cancel or freeze | vault, oracle, positions, callbacks, guard |
| liquidation, ADL (`exchange/LiquidationHandler`, `exchange/AdlHandler`) | ADL flag and block | force an order and execute it in the same transaction | order execution |
| vaults (`bank/StrictBank`) | balance and recorded balance of each token | `recordTransferIn`, `transferOut`, `syncTokenBalance` | every request handler |
| gas (`gas/GasUtils`) | none | check the execution fee, pay it to keeper and owner | vaults |
| callbacks (`callback/*`) | none | call the request's callback contract, swallowing its errors | foreign code, which may call anything |
| deposits, withdrawals (`exchange/*Handler`, `deposit/*`, `withdrawal/*`) | the request of each key | create, cancel, execute; handle an error: revert or cancel | vaults, market, oracle, swaps |
| market (`market/MarketUtils`) | pool amounts, impact pools, open interest, funding and borrowing factors, claimable amounts, market token supply | deltas to each, validation of balances, caps and reserves | positions, deposits, swaps, fees |
| positions (`position/*`) | size, collateral and factors of each position | increase, decrease, liquidate, pay costs in order | market, swaps, pricing |
| swaps (`swap/SwapUtils`) | a flag per market of the path | swap along a path | market, vaults |
| oracle (`oracle/*`) | the prices of the current transaction, the signer list | `setPrices`, `clearAllPrices` | every execution |
| feature switches (`feature/FeatureUtils`) | a flag per handler and type | set by config keepers, checked by handlers | all handlers |
| governance (`config/Timelock`, `config/Config`, `role/*`) | signalled actions, delay, roles, parameters | signal, execute after the delay, cancel; set parameters | data store |
| subaccounts (`router/SubaccountRouter`) | allowed subaccounts, action counts | create, update, cancel orders for a main account; auto top-up | order handlers |
| fees, claims, referrals (`fee/*`, `referral/*`) | claimable amounts | accrue, claim | market tokens |
| deployment (`deploy/*.ts`, `utils/deploy.ts`) | the last deployment of each contract, the ids of scripts that are done | run all scripts or those of one tag | every contract, roles, signers |
| listing and configuration (`config/*.ts`, `deploy/deployAndConfigureMarkets.ts`, `scripts/update*`) | the configuration files, the data store | create and configure markets, update what differs | market factory, data store, keepers, traders |
| incentives (`scripts/incentives/*`) | distribution files, `.migrations.json`, `.batchesInProgress.json`, the sender's funds and allowance | compute a distribution, correct it, send it in batches, return what is left | the subgraph, the chain, operators |

Every execution or cancellation runs under one global reentrancy guard, kept in
the data store, and every execution sets the oracle's prices first and clears
them last.

### What is hard

- **Callbacks.** The callback contract runs inside the transaction: after the
  order has been removed and its tokens have moved, before its fee is paid. It
  can send tokens anywhere and call every contract.
- **Nested failure.** `executeOrder` wraps the attempt in `try`. A failure,
  running out of gas after the callback included, undoes the attempt but not
  the transaction; what follows depends on the error: revert everything, cancel
  the order, or freeze it.
- **Crediting by difference.** Tokens reach a vault in one call and are credited
  in another, by comparing balance and record. Whoever asks first is credited
  with everything unrecorded.
- **Freshness.** Orders wait, are updated, and their position changes meanwhile;
  the blocks of the keeper's prices must fit the order's type and history.
- **Races.** An owner can cancel or update while a keeper executes; feature
  flags change while orders are pending.
- **Scripts that die.** A payment in batches is noted after its transaction; a run
  that dies in between sends the batch again. A deployment and a listing are many
  transactions, and the next run must take up what the last has left.
- **Scripts beside each other.** Each run reads a file once and writes it back as a
  whole; an update reads all values and sends its changes later, while keepers and
  traders go on.
- **Half-configured markets.** A market exists before its values are set. Traders
  can use it as soon as a limit admits them, so the order of the settings matters.
- **What a new run replaces.** A contract whose source changes gets a new address;
  what was linked with the old one, or granted to it, must follow, and a store must
  never be replaced.

### What makes each part correct

- Orders: an order is settled once, for its own tokens and fee; it is executed
  by the right keeper and only at prices its owner could not have known; it is
  always possible to leave, and market orders are served.
- Vaults: what is owed is covered by the record, and the record by the balance;
  exactly what is held for a request leaves the vault, once.
- Oracle: prices never outlive the transaction.
- Deposits, withdrawals, market: shares are minted and burnt at a price that
  dilutes nobody; the market token's balance covers what the market accounts for.
- Positions: open interest is the sum of the positions; costs are paid in order
  and at most once.
- Governance: roles, signers, price feeds and the fee receiver change only as
  announced, one delay ahead; somebody can always govern.
- Deployment: all contracts share their stores, are linked with the present
  libraries and have their roles; there are always enough signers.
- Listing: virtual inventories are the inventories of the markets, whenever a market
  joins them; no position is open without a minimum of collateral; both ways to set
  a value agree.
- Incentives: a file pays what the data entitle to, within the allocation; whoever
  is in it is paid once, whatever dies; what has begun is finished.

## Modules

| module | models |
|---|---|
| `Sums` | the sum of a function over `1..n`, defined by its prefix sums |
| `Escrow` | abstract: what any request vault promises: each step moves exactly what it says |
| `OrderBook` | orders, forced orders, order vault, fee, switches, price life cycle, guard, callbacks |
| `OrderBookProperties` | type invariant, invariants, action, refinement and liveness properties |
| `OrderBookInvariant` | the inductive invariants: of the state, and of what a transaction has done so far |
| `MCOrderBook` | definitions for the TLC instances |
| `LiquidityPool` | deposits, withdrawals and their vaults, the market's accounts, swaps, claims |
| `LiquidityPoolProperties` | type invariant, invariants, action and refinement properties |
| `MCLiquidityPool` | markets and conditions of the TLC instances |
| `Governance` | roles, timelock, signer list, configuration |
| `GovernanceProperties` | type invariant, action properties |
| `MCGovernance` | roles, actions and bounds of the TLC instance |
| `Rewards` | what the incentive scripts compute: rewards, rebates, overridden receivers, corrections |
| `Distribution` | the incentive files, runs that send them in batches, the funds |
| `DistributionProperties` | type invariant, invariants, the search for a block, liveness |
| `MCDistribution` | the answers of the subgraph for the TLC instance |
| `MarketConfigs` | the lists of markets, tokens and general settings of every network |
| `MarketSettings` | the values that each script writes for a list |
| `Listing` | deployment and updates of lists beside keepers and traders |
| `ListingProperties` | invariants and liveness of the listing |
| `ListingInvariant` | the facts of the tables that the safety of the listing rests on, and its inductive invariant |
| `MCListing` | what TLC evaluates over the full tables of all networks |
| `DeployScripts` | the 77 deployment scripts with dependencies, links, ids and grants |
| `Deployment` | runs of these scripts while sources and signers change |
| `DeploymentProperties` | type invariant, invariants and liveness of deployments |
| `MCDeployment` | the TLC instance; every tag reaches its script |
| `SumsProofs` | lemmas about `Total` (monotone, additive, a term removed, added or alone, the terms in another order), about products and about shares that are rounded down |
| `OrderBookProofs` | `Spec => []TypeOK`, `Spec => []InductiveInvariant` and what follows from it; the action properties, and that the order vault implements `Escrow` |
| `LiquidityPoolProofs` | the two vaults cover their requests, and each implements `Escrow`; the market covers its accounts; `Spec => []TypeOK` |
| `LiquidityPoolShares` | market tokens keep their value; nobody gains by a round trip |
| `GovernanceProofs` | `Spec => []TypeOK` and the three action properties |
| `DistributionProofs` | rewards and rebates stay within what is given out; files match their epoch, corrections top up; distributions are paid as filed, and what a run that dies costs; `Spec => []TypeOK`; the search for a block |
| `ListingProofs` | inventories, collateral and agreement of the scripts, for any networks and lists |
| `DeploymentProofs` | `Spec => []TypeOK`; deployments share their stores, are current and have their roles; there are enough signers |

### OrderBook and the code

One EVM transaction takes several steps of the model, because foreign code can
act in the middle. The variable `tx` says where it is:

- `idle`: no transaction is in progress. `CreateOrder` and `UpdateOrder` are
  whole transactions (they call no foreign code). `CancelOrder`,
  `BeginExecuteOrder`, `ExecuteLiquidation` and `ExecuteAdl` start one: they
  take the guard, save the state and, for keepers, set the prices.
- `run`: the order is about to be processed. `ExecuteOrder` is
  `OrderUtils.executeOrder` up to the callback: the checks of keeper, feature
  and prices, removal, transfer of the collateral, change of the position.
- `callback`: the callback contract runs. Any action open to anyone is possible
  here: `SendTokens`, and the creation and cancellation of orders as far as the
  guard lets them. The step ends with `PayExecutionFee`, which ends the transaction.
- `handle`: `FailExecution` has undone the attempt, and one of `RevertOnError`,
  `CancelOnError`, `FreezeOnError` (the three branches of `_handleOrderError`)
  follows. Cancelling and freezing have their own callback and fee.

The variables `orders` and `listed` are the order store with its two indexes,
`balance` and `recorded` the vault, `positions` the two block numbers of a
position that orders are checked against, `outcome` the last event of each key,
`guard` the reentrancy status, `prices` the oracle. `saved` is the state a revert
restores. `changedAt` and `tx.received` are history variables: when the owner last touched
the order, and what callbacks have sent to the vault since the transaction began.

Abstractions. One market and one position per account. Whether an attempt
succeeds, and with which of the errors that `_handleOrderError` tells apart it
fails, is left open where it depends on amounts or prices (`CanFailWith` keeps
the conditions the model knows). Tokens are counted in units of the minimum
execution fee. A price is its source and its range of blocks. The amount moved
out of the vault by an execution is all of the collateral; where it goes is left
out. The fee's split between keeper and owner is one payment out of the vault.
Not modelled: simulation (it always reverts), order sizes and the check that an
order is not empty, the trader's referral code, the ADL flag and the pnl
conditions of ADL (reasons to revert only), price age in seconds.

### Escrow

`Escrow` knows four things: the fate of each request, what is `held` for it, what is in the
`vault`, and what is `incoming` while a step is in progress. `Settle` takes exactly what
is held out of the vault, `Charge` exactly what is held less, `Force` nothing. A callback
may send tokens to the vault within a transaction; they wait in `incoming` (`Bring`) and
arrive with the step, or go back when it fails (`Undo`). So a refund that is forgotten is
as much a violation as one that is paid twice: the mutants of `ImplementsEscrow`,
`DepositsAreEscrowed` and `WithdrawalsAreEscrowed` are a cancellation without refund and one
that pays the fee only. The coverage invariants (`VaultCoversBook`, `VaultsCoverRequests`)
see only the other direction, that nothing owed is missing.

### LiquidityPool and the code

One market with its long and its short token. `market` is what the data store and
the token contracts keep of it: pool amounts, swap impact pool, claimable fees,
balances, supply. `requests`, `outcome` and `nonce` are the deposit and withdrawal
stores, `balance` and `recorded` the two vaults, `expired` the requests old enough
to be cancelled. An execution is one step: the guard keeps every handler out of
its callback, and `OrderBook` has shown what callbacks can do to a vault.

- `CreateDeposit`, `CreateWithdrawal` credit whatever the vault holds beyond its
  record. `CancelRequest` is the account's cancellation, `FailRequest` an execution
  that failed for whatever reason and was undone before the error handler cancels.
- `ExecuteDeposit` checks the first deposit and the pnl, moves the tokens into the
  market and books them with `Deposited`: both legs, the second one valued with what
  the first has left. `DepositOf` is `_executeDeposit`, in the order of its steps.
- `ExecuteWithdrawal` is `_getOutputAmounts` and `_executeWithdrawal`: `Withdrawn`
  computes the outputs, books the fees, and checks reserves and pnl afterwards.
- `Swap` is `SwapUtils._swap` for one market; the swap of an order, or of a part of
  a request that comes from another market.
- `ClaimFees`, `ClaimUiFees` pay out what has accrued.

All arithmetic is the code's, on small numbers: the rounding of every division and
its direction, the conversion from float to wei where a market has no supply yet, the caps (impact pool, pnl), `min` and `max` prices where the code
picks them. What an execution finds outside these accounts is one of `Conditions`:
prices, open interest, pending borrowing fees and the position impact pool. The range of blocks of
the prices and whether the market is enabled only decide whether an execution fails, which
`FailRequest` allows at any time. Left
out: `validateMarketTokenBalance`, which the code calls after every change;
`MarketCoversAccounts` shows that it never fires (for the accounts that are
modelled). Also left out: swap paths through other markets, markets with one token,
virtual inventories, several ui fee receivers, the gas limits of callbacks.

### Governance and the code

Contracts that change other contracts' state are accounts with roles, in the code
and in the model: `Timelock` is a role admin and a controller, and the stores check
the role of whoever calls. Every call is one step, with its caller.

- `pendingActions[k]` is the time from which action `k` may be taken, or zero; a
  key of the code is a hash of what a record of `Action` contains.
  `SignalPendingAction`, `TakeAfterSignal` and `CancelAction` stand for the seven
  pairs of functions and `cancelAction`; `Take` is what each pair does in the end.
  `signalledAt` is a history variable.
- `RevokeRoleAtOnce`, `SetInStrictPriceFeedMode` are the two calls that the multisig
  makes without a signal, `IncreaseTimelockDelay` the one of the timelock admin.
- `roleMembers` and `roleCache` are the two representations of membership.
- `SetConfig` is Config's setters: `KeyAllowed` is `_validateKey` (a config keeper
  who is a limited one too gets the larger set), `InRange` is `_validateRange`.
- `DirectStep`: once an account is a role admin or a controller, it calls the stores
  itself. The properties say what holds as long as there is no such account.

One token; a feed stands for its address, multiplier and stable price. Three base
keys represent the hundred that `Config` lists, one of each kind of check: a factor
with a range, a limit for limited keepers, and the heartbeat, which `Config` may set
at once although the timelock announces it with the feed. Left out: the setters of
`Config` with checks of their own, and the roles that only guard other handlers.

### Distribution and the code

`Rewards` has the pure part, one operator per script or helper: `LpRewards`,
`RebatesOf`, `GlpRebates`, `overrideReceivers` (`Redirected` is the object after each
turn of a loop that changes what it walks over), `TotalRebates` and `DiffDistribution`. An `...Succeeds` operator is the
conjunction of the checks at which a script throws. An answer of the subgraph is a
record; `NoStat` stands for a row that is missing, which is not the same as a row of zero:
the code tests the string, so a weighted supply of zero is used and rows of zero count. The
queries of the liquidity providers throw at a full page (`AllRowsFetched`; the balances come
in three pages); where the code does not notice a full page, neither does the model.

`Distribution` has the processes and their files.

- `files`, `totals`, `migrations`, `progress` are what is on disk: the distribution
  files, `old.json` and `new.json`, `.migrations.json`, `.batchesInProgress.json`.
- `search` is a run that looks for the block at which the epoch ends; `SearchStep` is
  one turn of `getBlockByTimestamp`, and its last turn computes and writes the file.
- `runner[r]` is the process in a terminal, with its place and what it has read.
  `StartRun`, `ReadBalance`, `ReadAllowance`, `Approve`, `ReadProgress`, `SendBatch`,
  `NoteBatch`, `SaveMigrations`, `DeleteProgress` are the stretches of `batchSend.ts` between
  two awaits or two writes. Two runs can both read an allowance that suffices for one; the
  second transfer then fails. `Crash` ends a process anywhere, `FailRun` where it throws.
- `balance`, `allowance` are the sender's funds; `SendResidualFundsBack` is the script
  of that name.
- `paid`, `sends`, `lost`, `readFirst`, `disturbed` are history variables. `disturbed`
  marks what the code leaves to the operators: a run beside another one, a repeated
  distribution, a file that was computed again half-way. Two runs beside each other
  write the progress of all ids from memory and undo each other's notes, whichever
  distributions they send; the properties promise nothing for either.

Left out: formatting, logging, the wording of queries, and the price of a token, which
only turns amounts into dollars for the log.

### Listing and the code

`MarketConfigs` translates `config/markets.ts`, `config/tokens.ts` and
`config/general.ts`: a base configuration and what each market changes of it, spread
after spread as the code merges them. Of a number only the sign is kept; `Undefined`
and a `BigNumber` of zero stay apart from the literal zero, because conditions of the
code tell them apart. `MarketSettings` has the writes of the deployment and of the three
update scripts, key by key and in their order. A key is the tuple that is hashed.

`Listing` runs them. `created` are the markets, `store` the entries of the data store,
`edition` how much of the list the configuration file holds already. `job` is the script
that runs: the deployer's scripts (`Deploy`, `CreateMarkets`, `SetValues`) take one
transaction per value, an update (`ReadForUpdate`, `SendUpdate`) reads everything and
sends one transaction later. `CloseByHand` and `setPositionImpactDistributionRate` are
keepers who change values of their own, `Deposit`, `Withdraw`, `Increase`, `Decrease`
traders, reduced to one unit and to the checks that the settings decide. `settled` (a
history variable) is the script that completed last if nobody has changed anything since.

Nothing in the code makes an update wait for the virtual ids, which only the deployment
sets, and `Config` lets keepers set ids and inventories at any time. An update sets limits,
which open a market; if its id comes afterwards, what is in the market by then is missing from
the inventory for ever. The scripts `fixVirtualInventory*` repair exactly such a case. Both
are in the model: an update may follow a deployment that has died between creating a market
and setting its ids (since every task of a deployment can be repeated, this is also what an
update in the middle of a deployment amounts to), and `SetIdByHand` and
`ResetInventoryByHand` are keepers' calls. The history variable
`untracked` collects the ids this has happened to: those that a market did not have yet when
an update or a script gave it a limit, and those given, taken or reset by hand.

### Deployment and the code

`DeployScripts` is one record per script of `deploy/`: contract, constructor arguments,
libraries, id, what it does afterwards. `Order` is hardhat-deploy's order (external): file
by file, dependencies first, the scripts that run at the end last. A dependency that
names no tag is ignored; so is the one on `MarketFactory`, since the tag of
`deployMarketFactory.ts` is `MFactory`, and `deployAndConfigureMarkets.ts` comes after it
only because it runs at the end.

`Deployment` runs them. `deployed[c]` is the last deployment of a contract with what it
was linked with, `recorded` the ids of scripts that returned `true`, `rights` the roles by
contract and version, `signers` and `minSigners` the oracle's. `StartRun` begins a run for
everything or one tag, `Proceed` does the next task that has something to do or throws,
`Crash` ends a run. `EditSource` and `EditSigners` change what the next run finds. A run
with `FOR_EXISTING_MAINNET_DEPLOYMENT` records ids although it skips the grants that go with
them; `marked` remembers these ids, and the properties leave them out.

`getExistingContractAddresses` (`config/overwrite.ts`) gives other constructors the address
of a `ReferralStorage` that these scripts have not deployed. hardhat-deploy has no record of
it. The script of `OrderHandler` calls `setHandler` by that record (`HasRecord`), on every
network but Arbitrum and Avalanche, and without a look at what is set; `StartRun` begins
with `sent` false for this reason. The tiers of the referral contract are the task `tiers`.

Left out: gas, verification, the addresses of tokens, mock price feeds and test tokens of
`hardhat`; a group of settings is one task.
The network's real list has one signer; the model has two of three, so that replacing one
takes several steps. A list that shrinks together with its minimum is not among the edits:
there the list is too short until the minimum follows, since the signers come first.

## Runs

`cd tla; tlc -config MCOrderBook_vault.cfg MCOrderBook.tla`, and so on.

| run | checks | instance and why it is enough |
|---|---|---|
| `vault` | type, solvency, indexes, fees of resting orders, containment, isolation of the handled order, refinement of `Escrow` | two traders and two orders (one handled, one bystander), two tokens (one is the fee token), a market order, a limit swap, a limit decrease and liquidations: every branch of the error handler; two tokens of each kind, so a fee and a collateral or a double payment fit. One block: blocks play no part here |
| `prices` | who may execute, at which prices, when an owner may cancel | three blocks so that an order can be created, updated and executed in different ones; two observations so that ranges can disagree; a plain and a frozen order keeper; liquidation and ADL |
| `kept` | every market order is served | two orders, a decrease whose position can vanish, an increase; both kinds of keepers |
| `abandoned` | owners can always leave | keepers owe nothing, execution can be switched off; frozen, live and market orders |
| `pool` | accounts are covered, shares keep their value, round trips do not pay | three initial markets: empty, a used one whose tokens are worth more than they were minted for, and one with an empty side whose tokens are worth less; four conditions: quiet, with a spread and losses, with long profits far above the maximum pnl, and with short profits above it by less than one unit of the factor, which `validateMaxPnl` does not see; negative, no and positive price impact. One request or swap: the properties are about one step from any market, and the initial markets replace the history |
| `requests` | vaults cover requests, both vaults implement `Escrow` | two requests of either kind, quiet market, a fee token of its own; senders may put two payments in a vault before anyone creates |
| `timelock` | announced grants and feeds, somebody governs, type | a timelock admin who can be granted the administration of roles and then take everything, a multisig that is a config keeper; an action of each kind; delays 1 and 2 and three instants, so that a signal can ripen, be too young, or be overtaken by a longer delay; two pending actions, so that one can be taken while another waits |
| `min_deposit` | violation: `minMarketTokens` is not enforced | an empty market, one deposit |
| `payout` | files match their data, everybody is paid once, what a death costs, corrections, exact blocks, completion | four accounts and two markets, one account in several markets and one with an overridden receiver; batches of two, so that a file has more than one and the last may be short; two terminals; two unusual events, so that a run can die, be repeated, and die again, or run beside another; three histories of the subgraph, one for each kind of reward, that change while files exist. 89 266 states |
| `listing` | inventories, collateral, agreement of the two kinds of scripts, completion | the first two markets of `rolluxtest`, which can be deployed, and of Fuji, where a limit is missing and every run throws half-way; one unit, which every limit, both sides and every inventory tell from none; one unusual event: a crash, a run that sets or creates nothing, or a keeper's change of a value, an id or an inventory. 491 745 states |
| `swap_only` | violation: a setting that swap-only markets need is left out | the last perpetual and the first swap-only market of Arbitrum, no traders |
| `deployment` | shared stores, present code and links, roles, signers, completion | all 77 scripts on `hardhat`; one edit: of a library with many dependants, of the role store, of the router that others are built with, or of the signers; runs of everything and of the tags `OrderHandler` and `SubaccountRouter`, for which `package.json` has commands (with a directory of scripts, `deploy_new`, that the repository does not contain); one crash and one run for an existing deployment, so that the two can meet. 320 131 states |

`CHECK_DEADLOCK FALSE`: the bounds on orders, blocks and balances stop every
behaviour in the end; the program itself has no such bound. In `payout` the epoch is old in
the end, and no distribution can be computed or sent without something unusual. `listing` and `deployment` are checked for deadlock: a
script can always be started. The traders are
interchangeable, so `vault` uses symmetry; runs with liveness do not.

Bounds (all constants): `MaxOrders` keys, `MaxBlock` blocks, `LastCreationBlock`
(orders are created early enough to expire within the bound), `MaxBalance` tokens
sent to the vault per kind, `MaxObservations` prices per transaction;
`MaxRequests` keys, `MaxCredit` unrecorded tokens per kind, `TransferAmounts`,
`SwapAmounts` and `Minimums` the amounts that are tried; `MaxTime`, `MaxPending`
pending actions, and the constraint `FewChanges` of `timelock`: at most two entries
of the data store differ from the deployment (one while an account is a controller),
since no property relates more than two; `MaxUnusual` counts what operators, keepers or
machines do out of the ordinary (`MaxEdits`, `MaxCrashes` and `MaxExisting` in `deployment`,
each on its own), and `OneThingAfterTheOther` of `payout` lets time pass and
totals be written between runs only, since no run reads either; `Tracked` of `listing` are
the base keys that are followed, one of each kind of check and all that trades depend on;
`MCListing` looks at all keys and all networks without running them. The initial markets of
`pool` are states trading can produce: traders' losses and profits move pool
amounts without a change of supply.

`SharesKeepTheirValue` measures with all pending pnl, not only the part below the
cap, so it shows that `validateMaxPnl` stops deposits and withdrawals while the
cap hides profits. It stops them but for a rounding: `getPnlToPoolFactor` rounds the
factor down, so profits of up to one unit of the factor above the cap pass, and who
leaves takes his part of these (`Unseen`) with him. In the code the unit is 1e-30 of the
pool; the factors of `pool` have a precision of 20, so that it is several dollars and TLC
would see any loss beyond it. `RoundTripsDoNotPay` quantifies over deposits in the state at
hand rather than waiting for one to be made. A positive price impact is excluded
there, since it is a bonus for improving the balance.

### Fairness

`ChainFairness`: blocks are produced, strongly fair because a tick waits while a
transaction is in progress; a transaction that has begun takes its next step (the
EVM does not wait); and whoever starts transactions for an order brings enough gas
for its last step again and again, else every attempt could run out of gas for
ever, which the code cannot prevent. `KeeperFairness`: keepers retry each order
with a frozen order keeper and a complete set of prices of the right blocks, which
is their job off chain (the repository contains only its on-chain side). It is used
by `MarketOrdersAreServed` alone. `OwnerFairness`: an owner who wants to leave tries
again and again, used by `OwnersCanLeave` alone, where keepers have no fairness.

The scripts are programs that somebody starts. In all three modules a run that has
begun goes on (weak fairness of its steps; that it dies is bounded by `MaxUnusual` or
`MaxCrashes`), and
whoever is responsible tries again (strong fairness of the start, since another run may
be in the way): operators start a distribution that is not done, the deployer deploys the
list or all scripts. `Distribution` adds that the treasury funds the sender and that an
operator gives up a search that does not end, which it may: `getBlockByTimestamp` accepts
only a block whose own guess is itself, and can go round in a circle.

## Proofs

`tlapm M.tla` for `SumsProofs`, `OrderBookProofs`, `LiquidityPoolProofs`,
`LiquidityPoolShares`, `GovernanceProofs`, `DistributionProofs`, `ListingProofs` and
`DeploymentProofs`.

### Orders

They hold for all values of the constants that satisfy `ConstantsAssumption`:
any number of traders, tokens, orders and blocks.

- `Typed`: the type invariant. The step that matters is that no payment exceeds
  the balance, since amounts stay natural numbers.
- `Solvency`, `Indexing`, `Servability`, `Containment`: the four safety
  invariants of run `vault`.

None of the four is inductive. A revert restores `saved`, so what holds of the
state must also hold of the saved state; solvency at the payment of the fee needs
`due` to have left the book; a freeze may only set the fee to zero because the fee
is then due. `InductiveInvariant` adds exactly this: `Indexed` and `Solvent` for
both states, `Transacting` (the order in memory is the stored one, all other
orders are as they were saved), `Servables` (resting orders are servable in the
state that will be at rest). `OrderBookProofs` proves that each action preserves
it, one lemma per action; the change of a sum when one order changes is
`TotalChange` of `SumsProofs`.

Its second half is about steps: `HandledAlone`, `Reserved`, `Fresh` and `Binding`
are the four action properties of runs `prices` and `vault`, and `EscrowOfOrders` is the
refinement of `Escrow`. Here a transaction has to be seen as a whole: `Seen` is the saved
state until the transaction ends, so the last step of a transaction must be *one* step of
`Escrow`, whatever callbacks, caught failures and second attempts came between, and a
rollback must not look like a cancellation. `InductiveInvariant` does not know what a
transaction has done so far. `HistoryInvariant` adds it. `Chronicled`: the events, the
book and `changedAt` tell one story, before and after the transaction; in particular the
block stored in an order is the block of its owner's last change, which is why comparing
prices with the stored block (all that the code can do) compares them with the change.
`Settling`: relative to `saved`, the transaction in its callback has done one of three
things (`Settled`, `Forced`, `Frozen`), no other order has a new event, and what has left
the vault, or will leave it with the fee, is exactly what was held for the order and is not
any more, once the tokens that the callback sent (`tx.received`) are counted apart. TLC has checked it on the constants of `vault` and `prices`. Each action then maps
to a step of `Escrow` (a creation to `Open`, more tokens for a fee to `TopUp`, received
tokens to `Receive` or, within a transaction, `Bring`, a rollback to `Undo`, the end of a
transaction to `Settle`, `Force` or `Charge`) or to a stutter.

### The liquidity pool

They rest on `ConstantsAssumption`, `ConditionsAssumption` (an execution finds
positive prices, minimums below maximums, and natural amounts) and
`InitialMarketsAssumption` (an initial market has natural accounts that its
balances cover). Prices, fee factors, supplies and the number of requests are
arbitrary, so the theorems quantify over every rounding the code performs.

- `VaultsSolvent`: the requests, the two vaults and their records form an
  invariant of their own, `VaultInvariant`: what each record covers is the sum of
  the open requests, and a request that opens or closes changes one term of it
  (`TotalChange`). Burning from the withdrawal vault and `syncTokenBalance` are
  where balance and record meet again.
- `Coverage`: for each token, what the market holds beyond its accounts (the
  surplus) is the same before and after each step, or grows. Deposits book in two
  legs what they have moved in; swaps and withdrawals take out of the accounts
  what leaves. It rests on two facts about the arithmetic: fees never exceed the
  amount they are taken from, and a positive impact is never more than the impact
  pool holds.
- `PoolTyped`: both invariants together. That no account goes below zero is
  inductive only together with the coverage: an account that is natural and
  covered makes the balance natural.
- `SharesKeep` is `SharesKeepTheirValue`. It needs no invariant beyond the types and the
  coverage; the argument is about one step. A deposit buys its market tokens at a pool
  value that is capped and therefore no less than the full value, each leg rounds them
  down, and what enters the pool is worth at least what they cost (`NewShares`); that
  holds leg by leg and is transitive (`KeepsValueTwice`). A swap gives at most what it
  takes. A withdrawal takes its part of the capped pool value; `CapHides` bounds what the
  cap may have hidden from the checks that follow it: the pool they see has shrunk, a pool
  that backs nothing has no profits (`NoProfits`, because of the reserves), and otherwise
  the profits passed the factor of the smaller pool, rounded down. The strict form, without
  `Unseen`, is false for some constants; TLC finds it violated on the markets of `pool`.
- `RoundTrips` is `RoundTripsDoNotPay`: the market tokens of both legs are worth at most
  both amounts at minimum prices (`TwoPayments`), and sold at once for no more than their
  part of the pool, which is valued at the prices that favour those who stay.
- `EscrowOfDeposits` and `EscrowOfWithdrawals`: each of the two vaults implements `Escrow`,
  although they share one counter of keys and one list of requests. `EscrowInvariant` adds
  to `VaultInvariant` that a request is pending exactly in the vault whose last event
  opened it. What leaves is exactly what the request holds: paid into the market or burnt,
  returned, or the fee. Every action is first shown to be an `EscrowStep` of *any* vault: it opens,
  closes or receives there, or leaves it alone; only then is each vault's `Escrow` taken as
  the instance it is.

### Governance

For any accounts, actions, delays and deployment that satisfy `ConstantsAssumption`.
`Announced`, `AnnouncedFeeds` and `Governed` are action properties; they follow from
an invariant in three parts. `RolesAgree`: the set of members and the cache say the
same, so that what `RevokeRole` checks (the set) protects what callers are judged by
(the cache). `DelayKept`: a pending action was signalled, and its time is its signal
plus the initial delay at least, which stays true when the delay grows. `TypeOK`: the
delay never falls. Each action property is proved action by action from it.

### Rewards

(In `DistributionProofs`.) They rest on `RewardsAssumption` and on answers of the subgraph
that are of their types, and hold for any number of accounts and markets.

- `LpRewardsWithinMarket`: what the accounts get from one market never exceeds what the
  market was given. `TotalOfShares` of `SumsProofs` is the reason: shares of a total that
  are rounded down never add up to more. So the script's own check of this cannot fail.
- `RebatesWithinAllocation`: the trading rebates never exceed the allocation. The
  percentage is reduced by a division that rounds down, and each rebate is rounded down
  again; the lemmas about products and quotients bound one by the other.
- `FilesMatch` is `FilesMatchTheirEpoch`, for any answers, accounts and overrides. Its
  invariant is `FilesComputed`: a file on disk was computed from the answers of some time
  until now. What is computed `Pays` the rewards (`AnswersPay`), in two steps. `InOrderLists`:
  a finite set with a strict order is listed once each, so the entries add up to the eligible
  rewards (`EntriesPay`). `ReceiversOverridden`: one turn of the loop (`RedirectTurns`) takes
  out one overridden entry and adds its amount to a receiver that is not overridden, so the
  sum stays, no key is listed twice, and when the loop is through nobody overridden is left.
  This needs that no receiver is itself overridden (`RewardsAssumption`, true of
  `receiverOverridesMap`): the loop walks over the entries as they were.
- `CorrectionsTopUpPaid` is `CorrectionsTopUp`: by `DInv` below both distributions were paid
  as filed; `DiffPays` says that the correction pays each key what it lacks, and
  `ReceivedByKeys` that an account gets what is due to the two spellings of its address.

Sorting and the loop are defined without the library's recursive operators for this:
`InOrder` ranks an element by how many are before it, `Redirected` is a recursive function,
unfolded by `RedirectedUnfold`.

### Payment

They rest on `RewardsAssumption`, `DistributionAssumption` and `AnswersAssumption`, which
only says that the answers of the subgraph are of their types. Everything about operators,
runs, batches and deaths is proved, for any number of each.

- `Paid` is `PaidAsFiled`: a distribution that is done and was sent by the rules has paid
  everybody at least, and if nothing was lost exactly, what its file said.
- `LossesCostOneBatch` is `EachLossCostsOneBatch`.

The invariant of the first is `DInv`: types, and for each id that nobody disturbed what
relates memory, disk and chain. `UpToDate`: what any run remembers of the id is what is on
disk, so writing the whole file back undoes nothing. `Alone`: a run of the id has no other
beside it and sends what the first one sent. `PaidThrough`: between runs everybody was paid
the batches up to the noted one, and one batch more while a run stands between sending and
noting. A death there loses the note, so the next run sends this batch a second time: the
equality is given up (`lost` counts it), the inequality is kept. The second theorem counts:
`CInv` adds `SentThrough`, that the first batches were all sent, later ones not, and the
number of transactions is that of the batches plus the losses.

- `DistributionTyped` is `TypeOK`: beyond `Typed`, `Ranges` says that no balance or allowance
  is overdrawn (the rewards that are sent were approved before), and that a run which stands
  before its note has a batch to note.
- `SearchIsExact` is `SearchFindsTheExactBlock`, for any timestamps of any number of blocks.
  The search stops at a block whose own guess is itself. The guess moves by the distance in
  seconds times 3.75 rounded *down*, so it stays for an exact hit, and moves otherwise only
  because there are at least as many blocks as seconds (`BlocksAssumption`): with slower
  blocks the search would accept a block up to one block time early.

### Listing

For any networks, any part of their lists, any trades, crashes, edits and changes of
keepers. The lists enter by the facts that `ListingInvariant` names and nothing else:
each setting has one value, whoever writes it (`OneValue`); no script writes what trades
count (`TradesCount`); a deployment sets a market's ids before its limits and its minimum of
collateral before the limits of the open interest (`DeploymentsAreOrdered`), an update has
both (`UpdatesAreComplete`); what one script sets the other sets too (`ScriptsCover`). They
are read off the tables and the order of the writes in the scripts, so TLC evaluates them,
for what each run follows and the most important ones for the whole lists (`WholeLists` of
`MCListing`; the test network `hardhat` has no value for one general setting, its update
never runs).

- `InventoriesAreTracked` is `InventoriesTrackTheMarkets`, for every id that keepers have not
  taken out of order (`untracked`), whatever updates do and whenever. Scripts only ever give a
  key the one value they have (`Writes`), so such an id changes at most once, from nothing.
  `ClosedUntilIds` says that a market in which anything is, or which has a limit above zero,
  has its ids or they are untracked: a deployment has set them before (`Done`), an update
  marks those it opens a market without. So a market that gets a tracked id is empty, and the
  sums stay what they are (`WritesTrack`); a trade moves one term of a sum and the inventory
  by the same amount (`PoolTracks`, `InterestTracks`). The contracts' lower bound of zero for
  a virtual inventory of swaps is never needed, and a market of a single token must not have
  an id for swaps, since both its sides are one pool amount (`IdsNeedTwoTokens`).
- `CollateralIsNeeded` is `PositionsNeedCollateral`: `LimitsNeedCollateral`, which speaks of
  the limits as well, since a position needs one to open. No hypothesis about updates is
  needed: they set both in one transaction.
- `ScriptsLeaveNothing` is `ScriptsAgree`: `SettledInPlace`, that a script which completed
  undisturbed has everything in place. `Kept` is what makes it inductive: while a script
  runs, a keeper may change what the script has set already, but then it is no longer clean.

TLC has checked the inductive invariant on the instance of `listing`.

### Deployment

For any network, edits, tags and number of crashes. What the 77 scripts need of each other
is an assumption with a name (`ScriptsAreDifferent`, `ScriptsAreWellFormed`,
`StoresAreRecorded`, `OrdersAreSound`), because the order is computed by a recursive
function that the prover cannot unfold; none of them has a parameter of the model in it, so
TLC's evaluation of the whole table, for every tag and both kinds of runs, settles them. Of
the networks `hardhat` is the one that TLC runs; the proofs cover all eight, those included
on which no run ever completes (`rolluxtest`, whose `OrderHandler` script throws).

- `RolesFollow` and `CodeIsCurrent` are `RolesFollowContracts` and `CurrentCode`. They speak
  of the moment when a run of all scripts has completed, so `Inv` must say what a run knows
  half-way: `RunsGoOn`, what is left to do is the rest of its order; `PassedAreReady`, each
  script that it has passed is recorded, or has granted its roles and built its contract
  from what is there now (`Ready`). A deployment could spoil what was passed; it does not,
  since nothing a passed script is linked with comes later in the order (`DeployStep`).
  `RecordedHaveRoles` carries over from run to run that a recorded script has granted its
  roles, in a `RoleStore` that is itself recorded: a new one would know no roles. A crash
  between deployment and grants is covered because the id is recorded last.
- `AlwaysEnoughSigners` is `EnoughSigners`, from `SignersStay`: the minimum is only set once
  two signers are there and the `OracleStore` that keeps them is recorded.
- `StoresStay` is `StoresAreShared`: whatever holds a store was built after the store was
  recorded (`HeldStoresStay`). The subaccount router is the exception, and the property says
  so. In a run for an existing deployment its script depends on nothing but a library; if the
  script of `Router` has died between deployment and record, `hardhat deploy --tags
  SubaccountRouter` (`package.json:34`) with `FOR_EXISTING_MAINNET_DEPLOYMENT` builds it with
  a `Router` that the next run replaces when its source has changed. So it counts from the run
  that records it together with the others. Without the exception TLC finds the violation in
  run `deployment`, whose bounds admit the edit, the crash and the run for an existing
  deployment at once; the crash happens in a run of `OrderHandler` (`package.json:32`).
- `TypeCorrect` is `TypeOK`: no right belongs to a deployment that was never made.

### Only model-checked

Liveness, which is out of the prover's reach: every safety invariant and action property of
the passing runs is a theorem, under the hypotheses named above. What the theorems about `Listing` and `Deployment` assume of
the tables of the repository, and of the order of the scripts, is evaluated, not proved.

## What disagrees with the code

Two runs show it.

- `min_deposit`: the documentation of a deposit and two tests promise that a deposit
  mints at least `minMarketTokens`; `executeDeposit` emits a debug event where the
  comparison belongs (`ExecuteDepositUtils.sol:230`). The minimum only matters to
  the first deposit, which must *ask* for enough.
- `swap_only`: `deployAndConfigureMarkets.ts:211` says that the settings it leaves out for
  a swap-only market are not used. The gas limit of the market token is: cancelling a
  withdrawal sends the token back, and a transfer without a limit reverts. `updateMarketConfig.ts`
  does set it, so the gap lasts until a keeper has run it.

Observations without a run of their own:

- The comment above `ExchangeRouter.cancelOrder` says that a market order cannot be
  cancelled; the handler cancels it once it has expired (`MarketOrdersBind` of `prices`
  says when).
- A comment in `_handleOrderError` (`OrderHandler.sol:271`) says that the oracle prices must
  be after the position was last increased. With price feeds only there are no oracle
  blocks, the check is vacuous, and a feed may be as old as its heartbeat.
- `getPnlToPoolFactor` (`MarketUtils.sol:1461`) rounds down, so `validateMaxPnl` lets
  profits pass that are above the maximum by less than one unit of the factor (1e-30 of the
  pool), while the pool's value counts them only up to the maximum: `Unseen` of
  `LiquidityPoolProperties`.
- The minimum of a withdrawal's output that is zero is never looked at, since
  `SwapUtils.swap` returns first.
- `arbitrumGoerli`, `avalancheFuji` and `localhost` have markets without limits of the
  open interest, and the deployment of their lists throws half-way (`UndefinedValues` of
  `MCListing`).
- On Fuji the second market has the index token of the third, but no virtual id for it
  (`config/markets.ts`): the third market sets the id that both share. Were the first
  market's limits complete, a deployment would let positions into the second market before
  the id is set, and their open interest would be missing from the inventory for ever.
- On `rolluxtest` every deployment throws: `deployReferralStorage.ts:34` skips the network,
  `config/overwrite.ts:22` only gives constructors an address, and `deployOrderHandler.ts:26`
  executes `setHandler` by a deployment record that nothing has made. A record that
  operators keep outside of the repository would mend it.
- The subaccount router can be left with a replaced `Router`; see `StoresStay`.
- `configureRoles.ts` throws on `localhost` and `zktest`, which have no list of roles to
  remove, after it has granted the roles.

## Not modelled

- Positions (increase, decrease, costs in order, the ADL flag), subaccounts, signers'
  medians, claims of funding and referral rewards, swap paths: see the plan.
- The governance token and governor, thin configurations of OpenZeppelin contracts;
  readers, which only view; the adapters of price feeds, which pass on; mocks.
- Scripts without state: printing, debugging and one-off creations (`print*`, `debug*`,
  `decode*`, `create*`, `simulate*`), and the recommendations of `validate*`, which are
  arithmetic on real numbers without any write. `updateRoles.ts` prepares calls of the
  timelock, which `Governance` has. `updateOracleConfig.ts` and `updatePriceFeeds.ts` set
  values like the updates of `Listing`, for tables that `Config` and `Governance` do not
  tell apart. `toggleMarkets.ts` does not compile (line 9 is cut off).
  `fixVirtualInventory*` repair two test networks.
- Helpers of the tests, the encoding of reports, and the rest of `config/oracle.ts`.

## Plan

1. `Positions`: open interest, collateral sums, borrowing and funding, liquidation
   payments in order, the ADL flag; an abstract market that `LiquidityPool` and
   `Positions` both implement, so that the conditions of the one are the state of
   the other.
2. `Oracle`: signers, medians, deviation from the reference price.
3. `Subaccounts`, claims and referral rewards, swap paths and their flags.
