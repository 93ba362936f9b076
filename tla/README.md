# TLA+ models of PolyCopy

PolyCopy is a single-user Telegram bot that copies the trades of Polymarket
traders ("leaders"), on paper or with real orders. It is one asyncio process with
one database. Nothing runs in parallel, but every `await` is a place where another
task may run, and the correctness of the money depends on which of them hold the
ledger lock, what they had read before they got it, and what survives a restart.
These modules model that: the lock, the transactions run under it, the queue that
feeds them and the process around it, the budget an entry may spend, and the
reconciliation with the exchange in live mode.

`PROJECT.json` lists components, runs, hazards, theorems and, under `map`, the
source lines every definition stands for.

## 1. The system

| part | state | operations | meets |
|---|---|---|---|
| `priority.py` PriorityLock | `_busy`, heap of `(priority, sequence, future)` | `acquire`, `_grant`, `release`, cancellation of a waiter | the ledger lock of the engine, the panel's reset |
| `engine.py` discovery | `_pending`, `_buy_batches`, `_token_tails`, `_sell_watermarks`, `_leader_floors`; `Leader.last_timestamp`, `SourceReceipt` | `on_rtds_trade`, `_poll_leader`, `_schedule_copy`, `_execute_batch`, `_execute_queued` | called by `rtds.py` and by the poll loop; feeds `process_event` |
| `engine.py` copying, `repository.py`, `accounting.py` | `Account`, `Position`, `CopyTrade`, `BuyIntent`, `ExitIntent`, `LeaderPosition`, `PaperOrder` | `process_event`, `_accept_exit`, `_fill_exit`, `_retry_exit`, `_retry_buy`, `_monitor_risk_token`, `_settle_position`, `apply_fill`, `replay` | every writer holds the ledger lock |
| `live_state.py`, `executor.py`, `live.py` | `Snapshot` with its projection, the order in flight, `DailyRisk` | `refresh`, `note_buy`, `note_sell`, `entry_block`, `sync_live_state_once`, `buy`, `sell`, `confirm` | the exchange; the ledger through `sync` and through fills |
| `engine.py` sizing, `sizing.py`, `paper.py`, `price_limits.py` | `SizingEntry` rows; arithmetic on Decimals | `_get_sizing_entry`, `_entry_decision`, `entry_budget`, `execute_buy_fak_by_budget`, the look-up of a retry | called under the lock with a book snapshot; closed by sells, risk sells and payouts |
| `polymarket.py`, `rtds.py` | shared requests, connection | HTTP, WebSocket, parsing | events and market data for the engine |
| `bot.py` | panel, notification queue | pause, leader switch, risk rule, reset, kill | writes the same rows as the engine |
| `__main__.py` | tasks of engine, panel and stream | start, signal, grace, cancellation, exit | starts and stops all of the above |
| `db.py`, `config.py`, reports | – | settings, migrations, audit | – |

What is hard here:

* a task may be cancelled between the moment the lock is granted to it and the
  moment it wakes;
* retries, risk sells and payouts read the database and the network first and
  take the lock afterwards;
* the same trade arrives over the stream and over the poll, again after a
  restart, and out of order; BUY fragments are joined into batches;
* a full queue, a pause, a shutdown or a crash may drop what only memory knows, and
  the activity lists the newest trades only;
* the reset of the database deletes what running workers have read;
* fragments and retries draw on one budget while sells, limits and modes change;
* in live mode the exchange matches first and tells later, two separate calls
  read its state while fills are being noted, and an answer may be lost.

What makes each part correct, with the property that says it, is in section 4.

## 2. Modules

| module | stands for | extends / uses |
|---|---|---|
| `AbstractLock` | what the lock promises: an owner and a set of waiters | – |
| `PriorityLock` | `priority.py` | `AbstractLock` by refinement |
| `SignalLifecycle` | what the order history promises of one copied trade | – |
| `CopyLedger` | the transactions under the ledger lock, one outcome token | `SignalLifecycle` by refinement |
| `CopyQueue` | from discovered trade to committed receipt, one leader, several tokens | – |
| `BotProcess` | the phases of the process, and what of the queue each allows | extends `CopyQueue`; every step is one of its steps |
| `EntrySizing` | `entry_budget` and the walk over the asks, operators without state | – |
| `SizingSeries` | the `SizingEntry` rows of one leader and outcome | extends `EntrySizing` |
| `LiveTrading` | snapshot, orders and reconciliation of live mode | – |
| `LiveExposure` | the same, with a history of what a reading shows beyond the wallet | extends `LiveTrading`; every step is one of its steps |
| `Sums` | the sum of a function over a finite set, as `CopyLedger` and `SizingSeries` use it | – |
| `*_proof` | theorems about the module of that name | TLAPS |
| `Attribution_proof` | the theorems about `CopyLedger` that speak of sums over leaders, and of its cash | extends `CopyLedger_proof` |
| `Sums_proof` | lemmas the proofs share: sums, products and quotients, ranks, recursion on naturals | – |
| `MC*` | instances and constants for TLC | – |

**PriorityLock.** `pc` of a task is the state of its future and of its
coroutine: `waiting`, `granted` (result set, not awake yet), `holding`,
`cancelled` (future cancelled, not awake yet) and `revoked` (cancelled after the
grant). `waiters` is the heap, cancelled entries included, because `_grant` pops
them. `Acquire`, `Cancel`, `Wake`, `WakeCancelled`, `WakeRevoked`, `Release` are
the stretches of code between two awaits.

**CopyLedger.** A transaction holds the lock from its first read to its commit and
is one action (`Process`, `RunExit`, `CloseExit`, `RunBuy`, `RunRisk`,
`RunSettle`). What a worker reads before it waits for the lock is an action
before that (`StartExit`, `ReadExitPosition`, `StartBuy`, `StartRisk`,
`StartSettle`), and `exitJob`, `buyJob`, `riskJob`, `settleJob` hold what it
read. `own` is the holding of each leader as `accounting.replay` computes it
from the order rows; `position` is the row the account values. The two are
written by different code, and `Attributed` compares them. Prices, filters,
sizing and order books are the choice to refuse, to wait or to fill. `Reset` wipes every
row; queue, workers and what they had read go on. A worker of an entry finds its row
gone, one of an exit is known by leader and token only. `ResetBelow` bounds how often
positions are opened before a reset.

**CopyQueue.** `chain` is the unfinished workers of one token, each awaiting the one
before it; `pending` is `_pending`. The poll is four steps (`PollFetch`, then
`PollInitialize` or `PollRead`, then `PollSchedule`, then `PollCommit`), the stream two
(`Hear`, `ScheduleHeard`), because each awaits the database or the network in
between. `PollSchedule` hands the outstanding events to the queue and computes the
checkpoint, which waits in `poll.mark`; between it and `PollCommit` workers run, and the
poll may fail (`PollFail`), be cancelled (`Abandon`) or die (`Restart`). `secured` is a
history: what was offered by polls that did commit a checkpoint. `CloseBatch` takes a key
out of `_buy_batches` whoever it belongs to by then, as `_execute_batch` does. `Index` is the trade reaching the REST activity, at any time. An answer lists
the `Window` newest trades (`Answers`); among trades of one second it may list any.
`LoseHeard` is a look-up of the stream that failed, `Reset` the wiped receipts together
with `reset_runtime_state`, `Abandon` what `run` cancels when its loops have ended,
`Restart` the end of the process: only receipts and checkpoint are left.

**BotProcess.** `phase` follows `run_bot`: `up`, `stopping` (the engine's stop event is
set, its loops finish their pass), `drained` (the loops ended or their grace was over;
polls and workers of that moment are cancelled, the stream still delivers), `closed` (the
stream has ended, late workers may still run) and `down`. `tracked` is the set of
addresses the stream filters by, filled by `poll_once`. The fairness and the liveness of
the queue are stated here, because only here is it known when the poll stops. A shutdown
is requested where `Environment` has `"stop"`: among polls alone in run `order`, with the
stream, which may schedule a worker after the loops have ended, in run `delivery`.

**EntrySizing, SizingSeries.** The operators follow `entry_budget` line by line of its
decisions; a unit of money is a cent, quotients are rounded down and minimums up.
`SizeBuy` is the sizing part of `process_event`: which window, whether it may be joined,
the frozen row, the added size, then the order, the wait or the end. `RetrySeries` looks
the row up as `_retry_buy` does. `Sell` and `CloseOut` close rows as the three places in
the code do, and free the position at cost: what the account has left is the subject,
not what a sale earns. What stands before the sizing is the choice of `RefuseBuy` and
`DelayBuy`. A retry that ends for a leader switched off or a market closed is in
`CopyLedger`, not here.

**LiveTrading.** `exchange` is what has been matched for the wallet and `reported`
what its balance calls answer; with `Lag` they differ until `Report`. `refresh` has
one step for each of its two calls. `sync` remembers that a snapshot was picked
up before the lock; once a refresh has replaced that object its cash no longer
moves. `job` is the order of whoever holds the ledger lock; when its sender stops
waiting, by `Unanswered` or `Restart`, an order that has not matched yet may be lost or
stay on the exchange as one of `strays`, and match at any later time (`MatchStray`).

**LiveExposure.** `exposure` is a history variable, no part of the code. For the snapshot,
and for the reading of the refresh in progress, it adds up what was reported late when the
cash was read (`late`), what matched afterwards and was never noted (`lost`), and what was
sold before the reading and noted after it (`twice`).

A definition called a *slip* is a plausible mistake in the definition that follows
it. No action uses it. `mutants` in `PROJECT.json` names, for every property of a
passing run, the slip that breaks it; so every property is known to depend on the
code it is about.

## 3. Abstractions

* Money and shares are whole numbers of a small unit. Where the code divides
  Decimals, `CopyLedger` divides only where the quotient is exact (`Exact`), so
  rounding is not a subject of the model; `PartOf` rounds down.
* In `CopyLedger` a price, a book, a fee, a filter and the sizing are bounded choices;
  `SizingSeries` has prices, books and fees, and leaves out leaders' statistics.
* `_reset_database` commits, releases the lock and then calls `reset_runtime_state`;
  the models take the two as one step.
* `SizingSeries` has one leader and one outcome: what other outcomes tie up would only
  lower cash. Live mode's order ceiling is a value of `/setmax` there.
* `CopyLedger` has one outcome token: positions of different tokens share only
  the cash.
* `CopyQueue` has one leader: leaders share only the queue limit. The removal of a
  leader (`forget_leader`) is not an action.
* Leaders and trades are finite sets, and live mode knows at least one outcome token. The
  database's `sum` and `count` need the first, an order needs the second.
* `ToPower` raises to a whole power, where the code takes any power of a Decimal.
* In `LiveTrading` an exit is one per token (the leaders' parts are
  `CopyLedger`'s subject), fees are part of the price, and the reserve is left out:
  an entry may ask for any budget up to the ledger's cash and the cap.

## 4. Runs

Passing runs. The bounds are chosen so that the hazards occur; each property has a
slip that violates it under the very same bounds, which shows they are large enough
to see it go wrong.

| run | instance | distinct states | shows |
|---|---|---|---|
| `lock` | 3 tasks, 2 priorities, 3 queued futures | 26 182 | held once (`MutualExclusion`), never lost by a cancellation (`NeverLost`), never idle with a waiter (`NoIdleWaiter`), granted by priority then arrival (`InOrder`), the most urgent waiter is served (`UrgentServed`), implements `AbstractLock` |
| `book` | 2 leaders with a BUY and a SELL each, risk sells, payout | 648 722 | shares and cost are attributed (`Attributed`), money adds up (`LedgerIdentity`), open exits are covered by what their leader owns (`ExitCovered`), a pending SELL has shares left (`PendingExitOwnsShares`) |
| `signals` | 1 leader, BUY, SELL, BUY and an invalid row; pause, switch, redelivery, restart, reset while fewer than 2 positions were opened | 292 016 | never overdrawn (`Solvent`), filled once (`FilledOnce`), no BUY after a recorded SELL (`NoBuyAfterRecordedSell`), pause holds (`PauseHolds`), waiting copies are armed (`WaitingIsArmed`), implements `SignalLifecycle` |
| `order` | BUY, SELL, BUY of one token, batching, reset, pause, switch, failed polls, shutdown, crash; queue of 3, answers of 2 | 1 172 640 | one worker for each pending event (`PendingHasWorker`), a new SELL is not overtaken (`BarrierKept`), the checkpoint covers what was offered by polls that committed theirs and is still listed, while newer trades crowd out older ones (`CheckpointCovers`) |
| `delivery` | a BUY and a later SELL of 2 tokens, stream, queue of 1 and one place for SELLs, answers of 2, pause, shutdown, crash | 65 388 | one worker for each pending event, the stream's included, the checkpoint covers what was offered, SELLs find room (`SellsGetRoom`), what a poll offered that committed its checkpoint is committed (`OfferedIsCommitted`), and a late trade at or above the floor of the session (`LateIsCommitted`); a shutdown ends although a worker or a poll never does (`ShutdownEnds`) |
| `series` | 3 BUYs of two windows and a SELL between them, 3 modes (a fixed size, the simplest, is left out), 2 limits, windows of 4 and 2, one change of a setting, 2 books with a fee | 763 931 | a series spends what its frozen budget allows (`SeriesBudgetKept`), counts each BUY once (`CountedOnce`), overlaps no other (`OneBudgetPerMoment`), keeps reserve and exposure (`LimitsHold`), and ends with a SELL (`SoldSeriesSpendsNothing`) |
| `reconcile` | cash 1, 2 orders, both sides, every fault, lag, a loss, midnights | 244 336 | the ledger's cash comes to be the exchange's (`CashReconciled`), entries are never blocked for good (`EntriesResume`) |
| `exposure` | cash 1, 2 orders, both sides, every fault, lag, a payout, midnights | 683 232 | the snapshot shows no more beyond the wallet than was reported late, never noted, or sold and counted twice (`SnapshotWithin`), and no entry exceeds that by more than the tolerance (`EntriesWithin`) |

Two trades are enough for `delivery`: the older one may be indexed late, refused by the
full queue, or be at work while a poll that has committed the newer one dies. The
three trades of `order` arrive by polls alone, since stream and resets together are too many
states; `BarrierKeptHolds` is about both, and `delivery` has the stream. The amounts of
`exposure` are the smallest; what matters there is the order of reads, matches
and notes, and the theorem has all amounts.

Violations. Each checks one sentence of the documentation or of a comment against
what the code does; TLC finds a behaviour that breaks it.

| run | property | the text | the code |
|---|---|---|---|
| `entry_during_exit` | `NoEntryDuringExit` | README.md:486-487, no new BUY of a leader while its exit is open | `_retry_buy` does not look for the exit |
| `late_trade` | `DroppedIsPolledAgain` | engine.py:570, never checkpoint past an uncommitted event | a poll schedules a late trade, then dies or is cancelled before it commits the lower checkpoint; the higher one of an earlier poll is left |
| `series_retry` | `RetryFindsItsSeries` | engine.py:80-81, a signal that waits for the exchange's state stays eligible | it waits before it was sized; its first retry finds no series and ends it |
| `live_sell` | `BudgetCovered` | live_state.py:7-8, every number is reported or our own spend since | a sale noted during a refresh that already saw it counts twice |

`CHECK_DEADLOCK FALSE` stands in the configurations of `CopyLedger`, `BotProcess` and
`SizingSeries`: the leaders' trades are a finite set, and when all are handled nothing
remains to be done. The lock and live trading never stop and are checked for
deadlock.

### Fairness

* `PriorityLock`: the event loop runs every ready callback, so a settled future
  wakes its task; whoever holds the lock releases it, because every await inside is
  a database call or has a timeout. No task is made to ask, none is cancelled by
  fairness.
* `BotProcess`: while the process is up `_repeat` runs the poll for ever and a request
  ends by its timeout; requests, queries and commits of a poll may fail, but each succeeds
  if it is tried again and again (strong fairness); workers end. A shutdown waits for a timeout and for tasks it has
  cancelled, so its steps are fair; nothing is assumed of workers and polls once it has
  begun. `OfferedIsCommitted` and `LateIsCommitted` also assume that in the end the process stays up, copying
  is neither paused nor switched off, and the trade is not crowded out of the answers.
  The stream, the index, crashes and whoever starts the process get no fairness.
* `LiveTrading`: the loops of refresh and sync never stop (weak fairness of their
  first steps); the balance calls succeed again and again, and the lock is obtained
  again and again (strong fairness, because a failed call or another holder of the
  lock may disable them in between); the exchange answers orders, matches or
  drops those nobody waits for, and reports what it matched. Entries, exits, faults and payouts get none.

### Other observations

Seen while modelling; the text and the code differ here too, but no run
checks them at present.

* README.md:408-409 says a BUY is not executed before an exit that is already known; a
  retry looks at committed rows only, not at `_sell_watermarks` (engine.py:2281).
* README.md:411-412 says the leader's activity is checked again after waiting;
  `_retry_buy` checks the pause only (engine.py:2273).
* README.md:302-308 keeps a reserve for every new purchase; with adaptive sizing off a
  retry is sized from the whole balance, and the minimum of the market may raise it above
  MAX_OUTCOME_EXPOSURE (engine.py:2369-2384).
* README.md:257 says a SELL closes the series. After a SELL inside a window later BUYs go
  to the next key; a second SELL in the same window does not close that one
  (engine.py:1484), and a retry of such a BUY looks under the first key (engine.py:2335).
* A late SELL, older than a waiting BUY, may close the series the BUY belongs to; its
  retry ends with `sizing_entry_closed` although no SELL came after it.
* engine.py:1264-1265 forbids a fresh budget for an entry already bought; the look-up of
  old fills covers the window of the key, not the one a SELL has moved it from.
* README.md:403-404 keeps the order of a leader's BUY and SELL of a token; after a late
  SELL, one older than the watermark, a BUY may still join the batch ahead of it.
* engine.py:570 says the checkpoint never passes an uncommitted event; one that only
  the stream has delivered, older than what the poll returned, is not considered, nor one
  that a full queue refused and newer trades have crowded out of the 500 rows.
* bot.py:1397-1401 announces a reset of the history; the newest trades at the checkpoint
  have lost their receipts and are copied again.
* An exit's worker is known by leader, token and generation; after a reset the generation
  begins at one again, and an old attempt may pass for a new one.
* README.md:385-389 says a stop takes no new signals and gives work five seconds; the
  stream schedules until `rtds.stop`, and waiting workers are cancelled as soon as the
  loops have ended: the grace is the loops' (engine.py:368-376).
* bot.py:1376 describes a stop of trading; the orders are cancelled before the pause is
  set, and an entry in between is still sent.
* live_state.py:111-113 protects spend noted while a read is in flight; a fill noted
  just before the read and reported late by the exchange is not protected.
* live_state.py:172-173 says exits are never blocked; a partial SELL that is counted
  twice by a refresh can make the rest look gone, and the exit ends with shares left.
* executor.py:209-210 leaves an unknown result to the reconciliation; it books cash,
  never shares. engine.py:1156 announces that new buys are suspended until the difference is
  gone, also when only shares differ; `entry_block` compares cash, which the sync has just
  overwritten, so a difference of shares suspends nothing (README.md:32-33 promises it too).
* engine.py:1104 announces after the daily stop that new buys are stopped until the next
  UTC day; the present loss is compared first (engine.py:1088), so a profitable sale reopens
  entries on the same day. `StartBuy` is written that way: it does not look at `stopped`.
* models.py:206 calls the day's row the realized PNL at the start of the UTC day; it is
  written at the first entry check of that day.

## 5. Proofs

Every invariant, action property and refinement of the passing runs is a theorem of the
specification, for every value of the constants that the modules' `ASSUME`s allow: types of
the constants, finite sets of leaders and trades, positive sizes, prices in order
along a book. No theorem states another hypothesis. Liveness is the exception.

### The lock

`LockInvariant` proves `IInv`, the three facts about the lock together with two that make
them inductive: every waiting task is on the heap under its own ticket (`Queued`), and no
two entries share an arrival number (`DistinctArrivals`). Without the first a release could
find the heap empty of live entries while a task waits; without the second the first of
two equal entries would not be unique. `Grantable` says what a heap needs before `_grant`
runs, and `GrantIInv` is the one lemma acquire, release and both wake-ups after a
cancellation rest on.

`LockInOrder` needs of a release only that the granted entry is the least live one; that it
is strictly first among equals is `DistinctArrivals` again. `LockImplementsAbstract`
maps a state to the task that owns the lock and to the priority each waiting task asked
with. `Queued` makes that priority well defined: `AskedKnown` says the entry `CHOOSE` picks
is the task's own, `AskedStays` that it keeps it while the heap changes around it. A
cancelled future that is not awake yet, and the wake-up of a granted one, are stutters of
the abstract lock; a grant that was revoked before its task woke is passed on, which is a
release there.

### The ledger

`CopyLedger_proof`:

* `LedgerIdentityHolds`. The invariant `BookInv` adds the types of the book and of
  the exits to the identity: a sell takes out of the position what it adds to
  cash and realized, but only if the cost of the last share is all the cost there is,
  and for that the sold quantity must be known to be at most the position.
* `WaitingIsArmedHolds` and `LifecycleImplemented`. `SignalInv` adds that a
  `retry_pending` row is a BUY and an `exit_pending` row a SELL, that an exit names
  SELLs of its own leader which, while it is open, wait or are executed, and that an
  open exit has a generation; without it a filled exit could end a row of the
  wrong kind, and a payout could overlook an exit. Every step is then a step
  of `SignalLifecycle` or a stutter of it.
* `PauseHoldsAlways`, `NoBuyAfterSellAlways` and `FilledOnceAlways`, action properties
  from the same invariants. `WhoFills` names the only two steps that fill a BUY and what
  their guards say; a filled BUY is a finished row, and no step but the reset leaves a
  finished row. For the part of `FilledOnce` that speaks of holdings, `GrowsByFill` shows
  that a leader's holding grows only by such a step.
* `LedgerTypesHold`. The hard type is what the leader itself holds: when a trade arrives
  late the code replays all its rows in time order, and the replay has a value at the last
  rank only if it meets a row at every rank. `RowsInv` supplies that: a trade has a row
  number exactly when it is recorded, and the numbers of a leader's trades differ, so the
  order by time and number is strict and `EveryRank` finds a row at each place.

`Attribution_proof`:

* `AttributedHolds` and `ExitCoveredHolds` are proved together (`AttributionInv`), because
  an exit that is filled may take from its leader only what the leader has. The lemma
  `Moves` reduces the actions to what they do to the holdings: one purchase, an exit that is
  accepted, filled or ended, a risk sale that scales every holding, a payout that ends them
  all, a reset, or nothing. The risk sale is the long case: each holding shrinks by its exact share,
  and the sum of the shares is the share of the sum.
* `PendingExitOwnsSharesHolds` adds that a fill that leaves the leader nothing finishes
  every SELL the exit names.
* `SolventHolds`: what a purchase may spend is computed under the lock from the balance
  found there.

### The queue and the process

`CopyQueue_proof`, for every finite set of trades, every window, limit and environment:

* `CheckpointCoversHolds`. It speaks of `secured`, what polls offered that went on to commit
  a checkpoint; what a poll offered that failed, was cancelled or died before that is not
  covered, and run `late_trade` shows that it may be lost. The checkpoint alone is not
  inductive, because it is computed from an answer, from receipts and from a floor that are
  each older than the commit, and committed later than it is computed. `QueueInv` says of
  all of them that nothing secured, uncommitted and still listed escapes: it is in the
  answer, unknown to the poll, not below the floor, and once the poll has scheduled, not
  below the mark that waits to be committed. `CrowdedGrows`
  (what has been crowded out stays out) carries the answer's part over the trades indexed
  meanwhile. That `Before` is a least element follows from the well-foundedness of strict
  inclusion on finite sets, applied to the intervals up to each time.
* `PendingHasWorkerHolds`, `BarrierKeptHolds`, `SellsGetRoomHolds` and `TypesHold`. They
  rest on one invariant about the queue (`QueueSound`): an event waits once and works in
  one job, of its own token (`OnePlace`, `Placed`, `JobSound`); two open batches differ in
  their key (`OneOpen`), or an event would join both; and `Barrier`. Barrier is what makes
  `BarrierKept` inductive: what stands ahead of a SELL that raised the watermark arrived
  no later, and the batches still open there carry an older watermark in their key, so no
  event that arrives from now on finds them. BUYs never outgrow the limit without the
  reserve (`BuysBounded`), from which `SellsGetRoom` follows by counting. The steps of the
  queue are made of four moves, one lemma each: an event joins an open batch
  (`JoinsKeeps`) or gets a job of its own (`AddsKeeps`), batches are closed (`ClosesKeeps`),
  a finished job leaves with its events (`DoneKeeps`); what is abandoned leaves nothing.

`BotProcess_proof`: `BotImplementsQueue`, every step of the process is a step of
`CopyQueue` or a stutter, and with it the four properties and the types again, through
shutdowns and crashes.

### The sizing series

`SizingSeries_proof`, for all events, books, limits and window lengths:

* `OneBudgetPerMomentHolds` and `SoldSeriesSpendsNothingHolds`. `SeriesInv` adds to the
  disjoint windows that a row's window is as long as its row says, and that every row that
  starts at or before a recorded SELL is closed; the start a buy is given (`WindowStart`) is
  shown to lie at its window or one window later, and a joined row never to be one a SELL
  has reached.
* `CountedOnceHolds`, `SeriesBudgetKeptHolds` and `SeriesTypesHold`, from `BudgetInv`. It
  adds `Settled`: an event counted into a series is recorded, one that was paid from a
  series is executed; so neither is counted or paid again. The budget handed to an order is
  divided by the fee of the cheapest ask and then walked over the book. `TakeLevelStays`
  keeps along the walk that the fee is at most that rate of what was spent, and
  `CostBound` turns that into the statement that the walk's cost, fee included, is at most
  the budget it was derived from, both roundings included.
* `LimitsHoldAlways`: the same bound, applied to the room and to the deployable cash of
  the step.

### Live trading

`LiveTrading_proof`, for every cash, price, tolerance and number of orders:

* `LiveTypesHold`, in every environment: lag, lost answers, sales and crashes. That the
  ledger stays natural is not local to a step: an order is bounded by the ledger when it is
  sent, and `OrderCovered` says it still is when it is booked, because its sender holds the
  lock.
* `SnapshotWithinAlways` and `EntriesWithinAlways`, in the same environments, of
  `ExposureSpec`. That entries stay within the wallet (`BudgetCovered`) is false in general:
  run `live_sell` shows it for sales, and with buys alone TLC refutes
  it when either lag, lost answers or late orders are added. What holds is a bound, and its
  terms are those four reasons. `SnapshotWithin` is not inductive, since the refresh in
  progress may hold an older reading. The invariant is a sum (`Within`): cash minus what was
  spent since, as the snapshot says it, is at most the wallet, plus what the reading hides,
  plus what matched after the reading and is not noted yet (`Owed`); the same holds of the
  reading of the refresh in progress, minus what was noted since it began. Every action keeps
  it: a match moves money between the wallet and `Owed`, a note between `Owed` and the
  projection, an order that nobody notes moves it into `lost`, and a finished refresh turns
  the second sum into the first. A note from before the cash was read is the case that costs
  `twice`; for a buy it only makes the snapshot too small.

### Induction without a rule

The provers cannot use a rule of induction that has a formula for its parameter.
`Sums_proof` argues in the other direction: among the sets (or numbers) for which a claim
fails there is a smallest (`SmallestSet`, `LeastNumber`), and from it a smaller one is
made. `StepsExist` shows the same way that a definition by recursion over an interval has a
solution, so that its `CHOOSE` is one, and `StepsStay` that what each step keeps holds of
all values. With these the sums of `Attributed` and `CountedOnce`, the replay, the walk over
the book and the drop of finished events from the queue (`Without`) are proved about,
although each is a fold or a recursive function.

### Only model-checked

Liveness, because fairness and `ENABLED` are outside the prover's logic here:
`UrgentServed`, `OfferedIsCommitted`, `LateIsCommitted`, `ShutdownEnds`, `CashReconciled`
and `EntriesResume`.
What the replay and the walk compute beyond their types and bounds is not stated as a
theorem either; TLC evaluates them on the instances. 

## 6. Not modelled

The statistics of a leader (`sample_entries`, `_refresh_sizing_profile`) are a constant
of `SizingSeries`; a sale's walk over the bids is a bounded choice of `CopyLedger`. The
HTTP client's retries, caches and shared requests, and the stream's reconnects, heartbeats
and parsing deliver events and data at any time or never. Deposits, the removal of a
leader and the poll's backoff are not actions.
Ownership of the database and migrations run once before trading.
The panel's text, notifications, reports, settings and the unused `orderbook.py`
keep no state that trading reads. Signing, the SDK, dry-run and the kill switch belong
to live mode and are not in `LiveTrading`.

## 7. Plan

1. Extend `LiveTrading` by exits of two leaders, risk sells, fees in answers and the
   kill switch; a run for a SELL of unknown outcome that is retried.
2. Extend `CopyQueue` by `forget_leader`, a second leader and the poll's backoff;
   `CopyLedger` by deposits and the source events of a batch.
3. A small module for the shared requests of `polymarket.py` (a cancelled caller must not
   cancel the request of others).
4. Proofs: the same bound for the shares of the snapshot; the exits of two leaders in live
   mode against `CopyLedger`'s attribution.
