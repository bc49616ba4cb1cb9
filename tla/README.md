# Verification of Flow-Acceleration

Flow-Acceleration watches the trades of pump.fun tokens on Solana over one gRPC
stream, scores the tokens it sees, opens small positions with a trading wallet
and sells them again by timers and price triggers. It is one Node.js process and
one SQLite database; a dashboard process and research exports read the same
database. The models here cover the parts in which an interleaving, a crash or a
lost answer can lose money, trades or what was learned from them: the life of a
live position, the recovery of the rent of empty token accounts, the trade
stream, the rows of the tokens and the buffer of trades, the labels of signals,
the learning from losses, and the start and stop of the process.

Everything runs in one event loop: code between two `await`s is atomic, and any
other handler may run at an `await`. That is the grain of every model: one
action is one such segment with all it assigns in memory and in SQLite (which is
called synchronously). Answers of the network, timers, calls of other parts, a
stop and a crash are the other actions.

## Inventory

| Component | State | Operations | Interacts with | Hard behaviour | Correct if |
|---|---|---|---|---|---|
| Live positions (`LiveTradingManager.js`) | `positions`, `timers`, `coreExitPending`, `entryQueue`, `mintExitQueues`, recovery promises; rows of `live_positions`, `live_orders`, `live_mint_entry_locks` | signal to `_enter`, `_recoverUnknownEntry`, `_requestExit`, `_exit`, core exits, `onGraduated`, settlement, `start`, `stop` | executor (await), store (sync), signal engine and stream (callbacks), account recovery (`canRun`) | transactions whose outcome is unknown, timers against queued sales, crash at any await, several positions in one wallet | no tokens are forgotten, an unknown entry is neither dropped nor sold blindly, one sale at a time, everything ends |
| Trade executor (`PumpTradeExecutor.js`) | signed bytes, chain state | `buy`, `sell`, `reconcileBuy`, close of a token account: prepare, send, reconcile | RPC nodes | a time-out is no failure; a signature is known or lost with an error | its verdicts are true of the chain |
| Account recovery (`LiveAccountRecovery.js`, `LiveAccountRecoveryStore.js`) | `locks`, `active`, `running`, `storeFailed`; outbox `live_account_recoveries` | `tick`, `_process`, `_reconcile`, receipts of buys and sells, `start`, `stop` | manager (mint locks both ways), executor, store | durable outbox: sign, save, send, with a crash, a failed read or an unknown answer between any two | no mint trades while its account may be closed; one transaction per row, ever |
| Flow stream (`PumpFlowStream.js`) | active endpoint, connection, failover and update timers; of a connection: client, stream, versions of the subscription | `start`, `stop`, `setAmmMints`, failover, watchdog | engine (trades), runtime (mints) | late answers of a stopped connection, end of a stream during a write, silence | one stream at a time, never dead without failover, the filter wanted is the filter served |
| Start and stop (`GracefulShutdown.js`, `main` and the stages in `index.js`, `DashboardProcessServer.js`) | `pending`, `next`, state; `stopRequested`, `stopping`; timers, the dashboard child | `main`, `runtime.start`, `runtime.stop`, signals, exits and restarts of the child | every component's `stop` | a failed stage, a second signal, a start still running, answers after the stop | writers stop before the drain, the database is closed last and drained, a stop is answered |
| Token rows and trade buffer (`ResearchStore.js`) | the map `tokens`, `pendingTokenWrites`, `rawBuffer`, `nextWriteRetryAt`; `flow_tokens` | `recordCreate`, `ensureToken`, `recordComplete`, `recordMigration`, `queueRawTrade`, `flush`, drain, close | stream handler, everything that reads `getToken()` | the lock of another process between two statements, deferred patches, reading back, kills | no completion is lost, map and table agree, what is deferred is written |
| Raw trade shards (`RawTradeShardManager.js`) | open shards, active day | rotation, late trades, merged view | store | day change, late trades | nothing accepted is lost |
| Signal engine and labels (`FlowAccelerationEngine.js`, `SignalLabeler.js`) | candidate, active and triggered variants; `pendingByMint`, `pendingSignalReturnUpdates`; `signal_returns` | trade, `handleComplete`, `cleanup`, `advanceTime`, `restore`, flush | stream handler, store, manager | deferred and late patches, trades that are not stored yet, restart within a label, graduation | a label is the first timely trade, a final label stays, every label is concluded |
| Loss feedback (`LiveLossRugFeedback.js`) | `pending`, evidence in memory, the cursor of the scan; `live_loss_rug_cases` | evidence of an entry and of a drop, settlement, flush, scan, `stop` | manager, store, risk tracker | a write that fails between analysis and learning, new evidence during a flush, a full queue, a kill | evidence is not lost, one analysis is learned, every proved loss is concluded |
| Smart wallets | scores, voting snapshots, outbox | maintenance worker, publication | store | a worker's result against newer trades | votes come from one snapshot |
| Shadow portfolios (about thirty `*Shadow*.js`) | paper positions | signal, quote, timer, exit | store | the same life cycle without a chain | each closes once |
| Settlement and funding, dashboard queries | budgets, query workers | see `PROJECT.json` | store | time-outs against late answers | see the plan |

`PROJECT.json` lists every component with what is and is not modelled, and under
`hazards` what is hard to test, each with its line and the properties aimed at it.

## Modules

| Module | Models | Proofs |
|---|---|---|
| `LivePositions` | `LiveTradingManager.js`, with the outcomes of `PumpTradeExecutor.js` and of the chain | `LivePositionsProofs`, `LivePositionsLotProofs` |
| `AccountRecovery` | `LiveAccountRecovery.js`, `LiveAccountRecoveryStore.js`, `reconcileTokenAccountClose`, and the trading of a mint as far as it excludes closing | `AccountRecoveryProofs` |
| `CloseProtocol` | abstract: what the account recovery promises the rest | |
| `FlowStream` | `PumpFlowStream.js` with its class `RegionConnection` | `FlowStreamProofs` |
| `Shutdown` | `GracefulShutdown.js`, `main()`, `start()` and `stop()` of `index.js`, `DashboardProcessServer.js`, and of the other parts what must be quiet when | `ShutdownProofs` |
| `TokenStore` | the token rows and the trade buffer of `ResearchStore.js` | `TokenStoreProofs` |
| `FlowSignals` | `FlowAccelerationEngine.js`, `SignalLabeler.js` and the rows `signal_returns` of `ResearchStore.js` | `FlowSignalsProofs` |
| `LossFeedback` | `LiveLossRugFeedback.js` with its cases in `ResearchStore.js` and `learnFromLossCase` of `PreEntryRugRiskTracker.js` | `LossFeedbackProofs` |
| `...MC` | only bounds, symmetry and, for `LivePositionsMC`, a constraint for TLC | |

Operators called "Mutant of ..." are plausible bugs of the operator below them.
The specifications do not use them: they serve to show that each property can
fail, by exchanging the operator for its mutant (`mutants` in `PROJECT.json`).

### LivePositions

A *lot* is one row of `live_positions`. `lot[l]` is the row and, while the lot is
in `positions`, the object in memory: both are assigned in the same segment.
`timers`, `corePending`, `entering` (the call at the head of `entryQueue`),
`recov`, `exitQ`, `seller` are memory and lost by `Crash` and `StopDone`;
`wallet`, `buyTx`, `sellTx`, `net` are the chain. Actions follow the code:

* `Enter`, `WalletHolds`, `EntryRejected`, `SendBuy`, then one of `BuyConfirmed`,
  `BuyErred`, `SendThrows`, `RefreshQuote`, `BuyTimesOut`, and `BuyReceived`,
  `BuyUnseen` or `ReadThrows` for the balance read after it (`_enter`, `buy`);
* `RecoveryConfirms`, `RecoveryFails`, `RecoveryUnsure`, `RecoveryRetries`
  (`_recoverUnknownEntry`, `reconcileBuy`);
* `HoldFires`, `DeferFires`, `RecoverFires`, `PriceExit`, `RequestCoreExit`,
  `Graduate` (timers and triggers). A timer that has been set cannot be taken
  back when the Map holds only the last one, so live timers are counted;
* `Sell` and its outcomes, `ExitAbandoned`, `CoreConfirmed`, `CoreFails`
  (`_exit`, `_takeCore`, `_takeGraduationCore`);
* `Stop`, `StopDone`, `Crash`, `Start`.

The faults of this model are those of the network, the node and the wallet, and the
end of the process. **Every write of the store is taken to succeed**, and what the code
does when one raises (`SQLITE_BUSY`) is outside of it:

* `_requestExit` makes the lot EXITING in memory, writes its row and queues the task.
  When the write raises in the handler of a trade, the lot stays EXITING without a task
  until a restart; in a timer nobody catches the error, and the process ends (`Crash`).
* The rejection of a queued `_exit` that could not write is only noted, with the same effect.
* In `_enter` a write that raises after the buy was confirmed ends in the branch for a
  buy that failed.

So `LotsAreServed`, `MirrorsStore`, `ExitsConclude` and the theorems about them say nothing of a
lot that has met such an error. `start()` also reopens rows that earlier versions closed as
empty (`ENTRY_CONFIRMED_EMPTY`); no code of this version writes them, and `Start` leaves them out.

### AccountRecovery

A row is a mint and a generation: the account that the n-th buy of the mint
created. `status` is the outbox; `tx` the one transaction signed for the row,
from nothing through SIGNED and FLYING to its fate; `locks`, `batch`, `failed`
are memory. `RunStarts` reads a batch *as it is then* and works on that copy,
as `_run` does: `due` is the set of rows whose `next_attempt_at` has passed and
`before` their order (by `next_attempt_at`, then id), from which the batch takes its
first of each status, `BatchSize` at most. `Prepares`, `Signs`, `Broadcasts`, `SendAnswers`, `SendFails`
are the segments of `_process` between its awaits; `Settles`, `StaysUnknown` end
`_reconcile`. Every database write may fail before or after the commit (`_save`
reads back), and every read may fail. `RecordBirth` and `RecordClose` are the
receipts of buys and sells, in any order (`_recordLiveAccountFunding`).
`Enter` ... `SoldOut` are the mint's trading reduced to when its account exists.
`Verdict` is taken from what happened on the chain. By which checks
`reconcileTokenAccountClose` gets there (the receipt is the row's own, a finalized height is
past the last valid one, the status is recent enough, there is still no receipt when asked again) is
not modelled: `ConclusionsAreTrue` relies on it, and does not show that they suffice.

### FlowStream

`conn[c]` is a `RegionConnection`; the client, the generation and `stream` of
the code are its `step`, `running` and `wire`. `Halted` keeps what `stop()`
cannot undo: a connect or subscribe that is still awaited and must be discarded
when it answers. `Up` is the end of `_connect`, which also takes a connection
for good whose stream ended during the first write. A set of mints is the number
of times the set was changed. `fresh` says that fewer than `staleTimeoutMs` have
passed since the last activity, `dated` that `_checkStale` has a date to compare
with. Back-off delays, health fields and the filter of duplicate signatures are
left out.

### Shutdown

`main` is where `main()` is, `request` where the stop of a signal is, `next` and
`begun` the stage of `GracefulShutdown` and whether it is being awaited. A stage
is two actions: `StageBegins` is its synchronous part (timers cleared, flags set,
promises collected), `StageEnds` its success, which needs what it waits for to be
`Settled`; `StageFails` leaves `next` where it is. `StartRuntime`, `DashboardUp`,
`StreamStarted` are the segments of `runtime.start()`, which answer whenever they
like, also when the stop is over. `tasks` are the promises of the trader, `works`
the lookups and workers of observers, `rows` what is in memory for the database.

One `STOP_OBSERVERS` stands for the stages of about thirty observers, which are of
one form. Left out are the best-effort flush of the parser's quarantine file, and
the `ResearchServer` that runs in the process itself. A restart of the dashboard
child that times out is taken as an exit of it.

`createRuntime` opens the store with its flush timer, restores the labels (whose patches
wait in memory when the database is locked), starts the trader, and goes on. `Restore`
may throw before the store is open or after it: `main` is then `"THREW"`, the store stays open with
what waits for it, and there is no runtime to stop (`HasRuntime`). After a failed start that nobody stops
the process ends when only timers that are `unref`'d are left (`RunsDry`).

### TokenStore

`mem` is the map `tokens`, `rows` the table, `deferred` one patch per mint, `raw`
the buffer. An event of the parser is one action (`Create`, `Complete`, `Migrate`,
`CurveTrade`, `AmmTrade`) with the record operations of the handler in their
order: each merges into the map, then writes and reads back, or defers (`Put`), or
raises (`Raise`). `Tick` is `flush()` of the timer, `TickCut` one that is cut short
between any two of its statements. A trade is the mint it is of.

### FlowSignals

One mint. A trade stands for its price: a label is the number of the trade it was
taken from, an excursion the set of trades it was taken over. `CurveTrade` is the
handler of a curve trade: `Engine` decides which variants and profiles match, `Recorded`
what of the new signals reaches the two tables, `OnTrade` gives the sample to every
signal that is followed, those just made included, and writes their patches. `UnseenTrade` is
the same handler when it ends after the trade was queued, because `trader.observeTrade` wrote and
raised: the trade will be stored, and neither engine nor labeler has seen it. `seen` of a trade
remembers which it was. `Update` is
`updateSignalReturn` for all of them; `Raises` the same when one write raises
for another reason than the lock. `AdvanceTime` finishes what no trade has,
`Flush` writes the patches and the trades, `Start` rebuilds the states from rows and
stored trades. `spoiled` remembers the signals for which a write has raised: what
is then in memory and in the row differs for good, and `LabelsAreTrue` exempts
these and no others.

Which sums make a signal, the cooldown (0 by default), the numbering of signals
and the reasons of a censored label are left open or out. `Graduate` may miss the engine too,
when the store raises before it. `Bounded` lets signals be made
only while the clock has time left to conclude them, and one write per trade raises.

### LossFeedback

A position has `pos`, `net` and `proved` (what the accounting says), a case, an item
of the queue and evidence in memory. `Scan` is the recovery scan, `FlushBegins`
copies the due items, then `Save`, `SettlesWithout` or `SettlesLoss`, `Learn`,
`Conclude` are the segments of `_process` for the first of `work`, and `Leaves`,
`Defers` or `Fails` what `flush` does with the item afterwards. `seen` is true until
a newer revision of the item comes. `Stop` to `StopEnds` are `stop()`, `Crash` and
`Start` the rest of the life. `accepted` remembers the evidence whose capture was
accepted, minus what a kill took with it.

The Map `pending` is kept as the set of its items, each with the `place` it was put
at: the queue, the due items of a flush and the drop of the oldest one are read
off the listing of a set in the order of the places.

Left out are which samples the risk tracker holds and when it lets them go, and a
second report of a settlement that is already complete. The calls
of the store and of the tracker are awaited in the code although both are
synchronous today: the model lets other handlers run there.

## What the runs check

| Run | Bounds | Shows |
|---|---|---|
| `single` | 2 lots of 1 mint, whole or in two parts, 2 attempts, 1 quote refresh, 2 stops; both at once while nothing has stopped | `OneSalePerLot`, `MirrorsStore`, `WalletIsExplained` |
| `liveness` | 1 lot, plain, sold by halves or listening to graduation, 1 stop, fair | `LotsAreServed` (in every mode an open lot is armed, an exiting one queued, and no lot that ended is kept); entries, open lots and exits end |
| `account` | 2 mints, 2 accounts each, 3 dealings, 1 stop | all safety of the recovery and its refinement of `CloseProtocol` |
| `account_liveness` | 1 unsigned and 2 signed rows, batch of 2, 1 stop or kill, fair | decided rows are concluded and their locks given back, the unsigned row gets its turn |
| `stream` | 3 endpoints, 3 connections, 2 changes of mints, fair | `NetworkAsBelieved`, `DeadHasFailover`, `MintsAreServed`, `SilenceEnds` |
| `token_store` | 2 mints, 4 events, buffer of 3 and batch of 2, a lock, an error, a kill, fair | `CompletionNotLost`, `SettledAgrees`, `DeferredIsWritten` |
| `shutdown` | 2 tasks, 1 lookup, 2 queues, 3 signals, 2 failing stages, 2 exits of the child, fair | `DrainIsUndisturbed`, `ClosedIsQuiet`, `ExitIsClean`, `StopIsAnswered` |
| `loss_feedback` | 2 positions with one fault or one stop, or 1 with 3 faults and 2 stops; queue, batch and page of one, fair | `NothingAcceptedIsLost`, `LearnedIsOnRecord`, `AnalysisIsFrozen`, `LossesConclude` |
| `flow_signals` | 1 signal and 3 trades with a lock or a restart, 1 or 2 signals and 2 trades with two of a lock, an error and a restart; horizons of 1 and 2 s within 5 s; fair | `LabelsAreTrue`, `FinalIsFinal`, `LabelsConclude` |

Every passing run but `liveness` and `account_liveness` checks its module's `TypeOK` as well.

Why the bounds are enough to be of use: two lots (or rows) are what it takes for
one to disturb another; two attempts give a first, a last and the step between
them; one stop can fall between any two steps, and two let a recovery be
interrupted itself; two generations make "old account, new account" possible and
three dealings a buy, its sale and another buy. Three connection objects let two
abandoned ones answer late while the third works. Four events are what it takes
to create, complete and migrate one mint while the other has a patch; a batch smaller than the
buffer leaves trades behind it. Three signals are a stop, its retry after a failed stage, and
one that joins. A queue for one case makes every second one overflow into the
recovery scan, and a page of one makes the cursor move. Two horizons give a
label that is set while another is open, and five seconds let a restart find a
signal too old to be restored. Deadlock is checked where the
code never rests for good (`account`, `account_liveness`); elsewhere a run may
stop because its bounds are used up, so `CHECK_DEADLOCK FALSE`.

`MaxDeferred` bounds the one-second deferrals of an exit that are in flight at a
time, `MaxDealings` the entries and closings by hand, `MaxStops` crashes and
stops, `MaxSets` the changes of the mints, `Conns` the connection objects. `MaxEvents`,
`MaxLocks`, `MaxErrors`, `MaxCrashes` bound `TokenStore`; `MaxRows`, `MaxStarts`,
`MaxSignals`, `MaxFails`, `MaxExits` bound `Shutdown`; `Budgets` in
`LossFeedback` and `FlowSignals` is a set of bounds taken together, so that a run is large
in one direction at a time; `MaxTime` bounds the clock.

`SharedWhileUp`, a constraint of `single`, keeps two lots out of one mint at the
same time once the process has stopped, and when one is sold in parts. It is there for a limit of the code, not of
the model: see the second remark below.

### Disagreements found

| Run | Violated | The code |
|---|---|---|
| `other_lots_tokens` | `OpenLotKeepsItsTokens` | the retry of an unverified sale sells the lot's whole amount again, out of another lot's tokens |
| `unknown_sold` | `UnknownNotSold` | graduation arms the hold timer of a lot whose entry is unknown, and the timer sells it without an amount |
| `confirmed_failed` | `ConfirmedNotFailed` | an RPC error after a confirmed buy loses the signature, and the entry counts as failed |

`UnknownNotSold` fails only for a lot whose strategy listens to graduation.

Remarks that are no findings, because no sentence of the repository is contradicted
or because no run is spent on them:

* Of a lot that listens to graduation `OneSalePerLot` and `MirrorsStore` promise less: the
  timer of `unknown_sold` can queue a second exit of the lot when its recovery then confirms
  it, and the recovery can write a row as open whose lot has left `positions`. That
  an exiting lot is queued, that a core sale is queued once, and that no lot that ended is
  kept in `positions`, holds of them too.
* An entry interrupted before its signature was stored may, once another lot of the
  mint has bought, take that lot's balance for its own (`allowExisting` is decided
  when the manager starts), and its own tokens, when the transaction lands later,
  belong to no row. Hence `SharedWhileUp`.
* With more than one position per mint, a lot in `EXIT_FAILED` counts against their
  number but does not keep the mint closed to another entry.
* A connect, subscribe or first write that is never answered is never declared stale:
  the connection has no date to compare with. `SilenceEnds` is about a network that
  answers, and fails without that assumption.
* The recovery of an unknown entry runs inside the entry queue. `OpeningEnds` says that it
  ends; the run has one lot, so it does not say that the entries behind it are taken.
* A trade in whose handling the trader raises is stored, but the engine and the labeler never
  see it (`index.js` 777 and 789). A label may then be a later trade, against "the first trade
  after a horizon" of README.md, or be missing, and an excursion incomplete; a restart that
  reads the stored trades may still find it. `ReturnsAreFirst` and `ExcursionsCover` are therefore
  about the trades the labeler has seen. Of all stored trades they do not hold: a signal, an
  `UnseenTrade` at its horizon, a flush, and `AdvanceTime` concludes the label without it.
* A `createRuntime` that throws after it opened the store leaves nothing that would stop the
  trader, drain the store or close it: a signal then exits with the database open and what
  was deferred lost. `ExitIsClean` is about a process that has a runtime; of one
  without it says only that both child processes are gone.
* `FlowSignals`: a label write that raises for another reason than the lock leaves
  memory ahead of the row, so that a row may end as COMPLETE without a return, and the signals after
  it miss the sample. `recordSignal` does not defer: under the lock a signal is lost, or stored
  without the row its labels go to. After a restart an excursion may
  include a trade of the very moment of the signal that came before it. A trade
  received in the very millisecond in which `advanceTime` gave a signal its verdict
  may come after it and be missed; `ReturnsAreFirst` exempts that moment. After
  graduation the labeler does not sample trades of the pool.
* `LossFeedback`: items that only wait for their confirmation may use up the forced
  flushes of `stop()`, so the first stop throws `LIVE_LOSS_FEEDBACK_PENDING` and the second
  succeeds. A forced flush finds a deadline that has passed meanwhile and analyses.
* `TokenStore`: an exact migration that is still deferred is forgotten by the map
  when a batch of trades reads the row back; the next trade of the pool then replaces its
  patch by an observed one. `SettledAgrees` speaks of mints without a patch, where
  map and row agree, and not of which of the two sources wins.

Each finding in `PROJECT.json` quotes the sentence of the repository it contradicts.

## Fairness

* `LivePositions`: weak fairness of the steps of an entry, a recovery and an exit
  (every awaited promise settles: RPC calls have time-outs), of the timers (the
  event loop runs) and of `StopDone` and `Start` (systemd restarts the service).
  Signals, prices, graduations and deals by hand are never forced.
* `AccountRecovery`: awaited calls return, the retry timers of rows run out, a
  stopped process is started again, and the outbox can be read when it is asked for long enough
  (weak). The turn of a row, the saving of an answer and the check of a receipt do not
  fail every time (strong; the last two of the rows together, not of each). A
  transaction need never get a fate.
* `FlowStream`: timers fire; the watchdog is not put off at every check, hence
  strong fairness of `Stale`. Whether trades arrive is left open. `stream` also
  assumes a network that answers and at some time stops failing. `MintsAreServed` is therefore about subscriptions, not
  about a network that refuses them for ever.
* `TokenStore`: the flush timer fires, the time of a retry is reached, and another
  writer gives the lock back (weak). Events are never forced.
* `Shutdown`: `main()` and a stop go on when what they await has settled; the start
  of the dashboard has a timeout, tasks and aborted lookups end, and a child that was
  asked to stop or killed exits (weak). `stream.start()` may never answer, and no
  signal is forced.
* `LossFeedback`: times are reached, the timer of the scan fires, the flush and the
  stop go on, and a process that is down is started again (weak). Entries,
  drops and settlements are never forced.
* `FlowSignals`: the clock, the flush and the maintenance timer go on, a lock is given back,
  the service is started again (weak). No trade is forced: the labels must be
  concluded without one.

## What is proved

All for every value of the constants, on the assumption that each module states about
its own: `LiveAssumption`, `RecoveryAssumption`, `StreamAssumption`, `BoundsAssumption`
(of `Shutdown` and of `TokenStore`), `FeedbackAssumption`, `SignalsAssumption`. They say that
numbers are numbers, that there is at least one lot, attempt or row of a batch and two
connection objects; of `TokenStore` that a flush fits into the buffer and into a batch; of
`FlowSignals` that the horizons have a longest one, which no excursion exceeds, and that
a restart looks back further than a label may take. Otherwise nothing bounds a constant
from above. Five theorems have a hypothesis besides. `PositionsAreTheStore` and
`UnknownEntriesAreNotSold` are about configurations without GRAD strategies (`"GRAD" \notin ExitModes`),
`ExclusiveLotsAreExplained` about those with one position per mint besides (`Exclusive`);
`TokensAreBalanced` and `EveryTokenIsExplained` are about behaviours in which mints are not
shared (`[]Alone`, below).

* `LivePositionsTyped`: `TypeOK` of `LivePositions`. The proof types every helper
  in a lemma of its own and then goes through the actions. `TypeOK` alone is not
  inductive: `IInv` adds that a recovery waiting for its delay has an attempt left
  (the next attempt stays within `ReconcileCount`) and that a buy that was sent
  names its lot (a crash then decides the fate of that lot's transaction).
* `LivePositionsLotProofs` is about the several lots of `LivePositions`. `LInv` joins to `IInv`:
  for each lot, `Fresh` (before its entry nothing knows it), `Watched` (an open lot of a
  running manager has a timer), `Fated` (what is aged has its fate on the chain), `RowInv` (it
  has an amount exactly when it was opened) and `MemInv` (recovery works on lots without an
  amount, the exit timers on lots with one; the Map `positions` is the active rows); for the
  queues, that a task is the only one of its lot and says what the lot waits for, and that
  a lot that waits has its task (`Queues`); `Called` and `Empty` follow the entry and a
  stopped process. From it: `OpenLotsAreArmed` and `ReleasedEntriesBoughtNothing` for all exit modes.
* A lot that listens to graduation keeps only part of `LInv`: its hold timer may be armed while its
  entry is unknown (the finding of `unknown_sold`). What holds of every lot is in `HInv`, which
  adds `Held` to `LInv`: a running manager keeps no lot that ended, a row that is marked unknown is
  never one under sale (so `start()`, which queues the rows under sale and recovers
  the unknown ones, finds no row that is both), an exiting lot has its task, and each lot in
  `coreExitPending` has exactly one core task. From it, without a
  hypothesis: `PositionsMirrorTheStore`, `OneSaleOfALot`, and with `OpenLotsAreArmed` the three
  together as `EveryLotIsServed`. `OtherEntriesAreNotSold` says what the finding leaves intact: a step that
  puts a lot of unknown amount under sale is about a GRAD lot.
* `EndedLotsStay` says of a step what `MirrorsStore` says of a state: a lot that was closed or given up is never opened, sold or
  failed again. By `LInv` a recovery works on active rows only, and a task is about a lot that is open or
  exiting; the rest is which row each action may touch (`OneRow`, `HeadRow`, `ProcessRow`). GRAD lots are
  excepted because a recovery and an exit can work on one of them at the same time.
* `TokensAreBalanced` (`WalletIsExplained` as far as it is about amounts) and `EveryTokenIsExplained` are
  about mints that lots do not share: `Alone` of a mint says that it has no two active rows and no GRAD lot.
  `Balanced` says that the wallet of the mint is what its one active row, a sale or a buy on its way
  account for (`Covered`), unless a buy landed whose signature was never stored (`Leaked`). It is an
  invariant mint by mint: `TokensAreBalanced` holds for any set of mints as long as these stay `Alone`,
  whatever other mints do. The default of the code is three positions per mint, and with a
  shared mint the statement fails after a restart (second remark above); `ExclusiveLotsAreExplained` names
  the configuration that keeps mints apart by itself (`OneEach`: an entry
  finds no position of its mint, and no lot that ended becomes active).
* `Invariant` of `AccountRecovery`: `IInv` joins the types with
  `SignedNotTraded` (the mint of a signed row has no position), `DurableWhileFlying`, `UnsignedNotAttempted` (a row that is not signed has no
  attempts), `VerdictIsTrue`, `LocksHold` (a run, or a process that can read its
  outbox, holds the lock of every signed row), `InHand` (the row being prepared is
  locked and no other row of its mint is signed) and `InBatch` (what the batch
  remembers as unsigned has not been signed meanwhile). `NoTradeWhileClosing` is
  not inductive without `InHand`: it carries what was checked before an await
  across it. From it follow `ClosingExcludesTrading`, `LocksAreRestored`, `SignedOnce`,
  `VerdictsAreTrue` and, with one lemma on how a status may move per action,
  `ConclusionsStay`. `SignedRowsCovered` and `StoreAgreesWithChain` join them into the
  two invariants the run checks.
* `RecoveryTyped`: `TypeOK` of `AccountRecovery`. What needs an argument is that a batch is never
  longer than `BatchSize`. The due rows stand in line (`InLine`, which every step keeps: who becomes due
  goes to the end, a new row behind a closed part of it), so each row has a number of rows ahead of it that
  no other row has, and at most n rows have fewer than n ahead (`FirstSize`); the place kept for an unsigned
  row comes off the signed ones (`CandidatesFit`).
* `DroppedAreGone` and `OnlyItsOwn` need a second invariant, `Ages`: rows
  are of generations that were born, what was sold, dropped or landed is gone (its
  account is not the present one), and a transaction that may still land belongs
  to the present account or finds none.
* `Implements`: every step of `AccountRecovery` is a step of `CloseProtocol` or
  none of its steps, crashes and restarts included. A row is `closing` while it
  is SIGNED or its transaction may land, and by `IInv` the two agree.
* `StreamInvariant` of `FlowStream`: `Sound` ties the fields of one connection to
  each other (a connection that is not running, or still awaits its connect, has
  no stream; what is applied or being written is not newer than the mints), `Owner`
  says that only the current connection runs, `Watched` that an end that was
  reported, or is visible although `_connect` overlooked it, has its failover
  timer. The lemmas are about one connection first, then `OneMoves`, `QuietMoves`
  and `NotifyMoves` lift them to the stream, so each action is a few lines. From
  it: `StreamTyped`, `SingleSubscription`, `DeadIsLeft`, `StoppedStaysQuiet`,
  `AppliedIsTrue`, and their conjunction `NetworkIsAsBelieved`, the form the run checks.
* `Shutdown`: a stage that was reached has silenced its part for good (`Silenced`). What could bring a
  part back is a `start()` still under way, so the invariant follows `main()` too
  (`Signalled`, `Connected`, `Starting`): once a stop is asked for, what answers late finds the flag
  of the stop. A `createRuntime` that threw leaves the store open and no other part begun. `ShutdownTyped`, `DrainUndisturbed`, `ClosedStaysQuiet`, `ExitsClean`.
* `TokenStore`: `MintInv` is about one mint, its map entry, row and patch: only a known mint waits
  (`Waits`), map and row agree when nothing waits (`Agrees`), a completion is in row or patch
  (`Remembers`), the last two unless an event of the mint raised. A lemma per record operation, then
  each event is their composition. `TokenStoreTyped`, `CompletionKept`, `SettledMintAgrees`.
* `FlowSignals`: `Unconcluded` says that a signal that is followed, or has a patch, has no verdict yet;
  from it `FlowSignalsTyped` and `FinalLabelsStay`. `LabelsTellTheTruth` needs `LabelInv`: of every signal
  that is not spoiled the row, the row with its waiting patch, and the state are true of the trades
  so far (`RowTrue`, `StateTrue`), and the state says what the two make (`Agree`). A state has sampled
  every trade of its window that the labeler has seen and that is stored *or may still be*, and lacks no
  return that a sample would give; so its first timely trade is the first of all that were seen
  (a state restored from stored trades may have sampled others as well). What is true of a history stays true
  of a longer one, because new trades are the newest (`LabelStays`, `VerdictStays`).
* `LossFeedback`: `DealInv`, `ItemInv` and `CaseInv` are about a position, its item and its case, `CopyInv` says that
  the copy a flush works on is backed by what is on record, and as new as its item once the item
  was seen, needs an analysis, or is final. An item is only
  deleted when its copy is, so what is concluded or analysed lacks nothing; and evidence is
  taken before a position ends, an analysis made after. `LossFeedbackTyped`,
  `NothingAcceptedGetsLost`, `OnlyRecordedIsLearned`, `AnalysisStaysFrozen`.

Only model-checked: all liveness, which is under fairness; `WalletIsExplained` where lots share a
mint (`single` has two of them in one) or listen to graduation; and the three properties the code violates.
Every other property of a passing run is the subject of a theorem.

## Not modelled, and why

Strategy detectors, risk scores, quotes, slippage and fees: arithmetic over market
data that moves no control state besides "enter" and "exit", which the models
take at any time. DRY_RUN and DISABLED. Lamports of refunds and the settlement
sweep. Decoding of transactions. Exports, scripts, backtests and
observers, which nothing in trading reads. HTTP and HTML of the dashboard.

## Plan

Written in the order of what can be lost:

1. done: `LivePositions`, `CloseProtocol`, `AccountRecovery`, `FlowStream`.
2. done: `Shutdown`, `TokenStore`, `LossFeedback`, `FlowSignals`.
3. done: proofs for the modules of 2, and the invariants of `LivePositions` that speak
   of several lots, the ones that listen to graduation included.
4. `RawTradeShards`: rotation at midnight, late trades, readers of the merged view.
   Abstract specification: a set of trades that only grows.
5. `ShadowPositions`: the common life cycle of the shadow portfolios.
6. `DashboardQueryRunner`: time-outs racing late answers; publication of the voting
   snapshots of the smart wallets.
7. Settlement sweep and funding of accounts: each receipt is counted once. The
   duplicate filter of `FlowStream`, and the DRY_RUN mode of `LivePositions`.

Theorems to come besides: the refinement of the growing set by the shards; what of
`WalletIsExplained` survives in a mint that lots share.
