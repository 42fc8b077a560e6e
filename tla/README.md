# A TLA+ model of Sidra Algo Trading

This directory holds TLA+ modules, TLC configurations and TLAPS proofs about the
repository in `src/`. The system is a single-user intraday trading platform for
the Indian equity market: a FastAPI process with an APScheduler inside it, a
separate scanner worker, PostgreSQL, Redis, a Next.js interface and two brokers
(Upstox, Firstock). Its hard part is not arithmetic. It is that several
coroutines in two processes act on one broker account, and on one database,
through requests that may fail, be delayed, or succeed without an answer, and
that a process may die between any two of them.

Paths below are relative to `src/apps/api/app/` unless they say otherwise.

## 1. The system

### Components, their state and their operations

| Component | State it keeps | Operations | Correct when |
|---|---|---|---|
| Scanner worker and feed (`worker.py`, `services/upstox_market_data.py`, `upstox_backfill.py`) | a feed task and its aggregator; a control state in Redis | start, stop, restart and backfill the feed | the feed follows the switch, whatever fails |
| Candles (`services/candle_aggregation.py`) | open candles in memory; `market_candles`, `market_indicator_snapshots` | a tick, a flush or a backfill completes a candle | each candle is stored and processed once, when its time is over |
| Scanner and strategies (`services/scanner_orchestration.py`, `paper_strategy.py`) | a word in Redis per instrument and version; evaluations; signals | judge a candle, move the setup, signal, offer | a signal ends a setup that is alive, and is offered once |
| Paper execution (`services/paper_execution.py`, `risk_engine.py`, `daily_limits.py`) | paper orders, positions, reservations, the day's halt | fill, mark, close by the clock, halt, settle, reserve | the position is what its orders filled; reservations keep to the budget |
| Backtesting (`services/backtesting.py`) | none | the same candles, the same rules, no queue | a strategy is measured as it is traded |
| Entry bridge (`services/live_entry_bridge.py`) | journal entries and submissions of the day | from a paper signal to one live entry | a signal is acted on at most once |
| Operator approval (`services/live_approval.py`, `api/routes/telegram.py`) | rows of `live_order_approvals`; update ids in `telegram_inbound_events` | ask, approve, reject, expire, report | one approval is one submission; an answer is kept |
| Risk and limits (`services/live_risk.py`, `daily_limits.py`) | a daily latch; what is read from rows and positions | allow or refuse an entry | a limit is overrun by what was under way, and by no more |
| Live submission (`services/live_execution.py`, `live_orders.py`) | rows of `live_order_submissions` | gates, PREPARED row, one transmission, outcome | nothing leaves without a durable row; one attempt leaves once; a refusal is recorded only when it is one |
| Recovery (`services/live_order_recovery.py`, the job in `scheduler.py`, the route in `api/routes/live_shadow.py`) | `status`, `resolution_attempts` of those rows | look a row up in the order book, settle it or escalate it | an order that exists is never disowned; every open row is settled or shown to a person |
| Protective stops (`services/live_protection.py`) | none of its own: the position and the order book at the broker | poll for the fill, withdraw the rest, place a stop, close at market | what is left resting never sells more than is held |
| Live exits (`services/live_exit_manager.py`, `exit_rules.py`) | none between two sweeps | each minute: hold, protect, trail or close | the book is clear before an order is sent; a naked position is covered; a trade whose time is over is closed |
| Live session (`services/live_activation.py`, `live_readiness.py`, `live_session_open.py`, `safety.py`) | activations, the emergency stop and the control state in Redis | arm, revoke, open the session, start and stop | disarming and stopping last |
| Reconciliation and fills (`services/live_reconciliation.py`, `live_fills.py`) | the latest verdict; fills in the submission rows | compare our rows with the broker's; record what filled | our own orders never stop the day, a stranger's do; after the close the rows say what the broker filled |
| Broker figures (`services/broker_day_figures.py`, `trade_history.py`) | appended snapshots of a day | fetch in the evening, next morning, from the screen, from the script | a day whose figures were there is not forgotten |
| Scheduler (`services/scheduler.py`) | jobs | run the jobs above | a job that fails runs again |
| Login, settings, users, reports, web | see `PROJECT.json` | | not modelled: section 7 |

### How they interact

- Shared state is the PostgreSQL tables and a few Redis keys. There is no
  database lock or version column on `live_order_submissions`; a reader in one
  process sees the other's commits and nothing else. The paper tables are locked
  row by row (`FOR UPDATE`), and unique keys decide between coroutines that
  meet: of a candle, a snapshot, a signal, a day's halt, an update of Telegram.
- In the worker every message of the Upstox feed is a coroutine of its own. A
  candle is completed by a tick, by the flush of expired candles, or by a
  backfill; whoever stores it moves the paper positions with it and asks the
  strategies, and a signal goes on to the paper ledger and to the live path.
- The worker sends entries; the API process sends approved entries, runs
  the recovery job (every two minutes), the exit sweep (every minute), the
  opening and refresh jobs, and the operator's routes. `max_instances=1` keeps one
  job from overlapping itself, not from overlapping a route or the other process.
- An approved entry is sent by the request that carries the tap, inside the
  webhook, while Telegram waits and may deliver the same update again.
- Exits use the same write-ahead and outcome code as entries, and pass no gate:
  a position already open stays closeable whatever is stopped or disarmed.
- The broker is asked by polling. Positions and the order book are two requests,
  read one after the other; a cancellation that is accepted has not yet happened;
  a request that timed out may still arrive.

### What is hard

A row whose answer is lost; a process that dies between the commit and the
answer; gates and limits read long before the order leaves; two sweepers of one
row; a position that moves between the reading of the positions and the exit
sized to it; a stop placed twice, or not at all; a question answered twice,
differently, or late; verdicts whose order is decided by when a transaction
started; a disarming beside an arming; two candles of one instrument in flight
together; a flush that finds another candle than the one it listed; a latch that
a quota writes over; books read one after the other while orders fill; figures
published after they were asked for. `PROJECT.json` lists each of these at its
line, with the property that catches it.

## 2. The modules

| Module | What it is |
|---|---|
| `OrderLedger` | abstract: an intent before a dispatch, one dispatch, one verdict of the exchange, and a record that may forget but never lies |
| `LiveSubmission` | submission, broker, recovery and crashes, one action per step between two awaits that matter |
| `MCLiveSubmission` | its small instances: which process each coroutine runs in, and the symmetry of order ids |
| `LiveSubmissionProofs` | its invariants, its action properties and the refinement, proved |
| `LivePosition` | one trade at the broker, and `protect_position` |
| `LiveProtection` | `protect_after_fill` over `LivePosition`, and the invariants of exits |
| `LiveProtectionProofs` | those invariants proved, for any quantity |
| `LiveExitManager` | the minute sweep composed with `LiveProtection` |
| `LiveApproval`, `LiveApprovalProofs` | a signal, the bridge, the question put to the operator, the webhook that acts on the answer; one signal is one order, proved |
| `LiveSession`, `LiveSessionProofs` | arming and disarming, the reconciliations that let it, the scanner's switch and the emergency stop; its four properties, proved |
| `Allowance` | abstract: what a limit promises that is read before what it bounds is spent |
| `LiveLimits`, `LiveLimitsProofs` | the day's risk, the open positions and the day's halt, as entries read and spend them; the bounds and two refinements of `Allowance`, proved |
| `MCEntries` | the instance of `LiveLimits`, and beside it one of `LiveProtection` |
| `CandleFeed`, `CandleFeedProofs` | the worker's loop, the feed, and a candle from its tick to its one processing; its invariants, proved |
| `Scanner` | from a completed candle to a signal and its offer |
| `PaperTrade` | the orders and the position of one paper trade, and what a candle fills of them: operators of the two that follow |
| `PaperExecution` | the paper engine's transactions over several instruments, with the locks and keys they rely on |
| `TradeExit` | the same trade with its prices, trail and clock, left by the paper engine and by the backtest over the same candles |
| `LiveFills` | how fills are recorded in the rows and priced: operators of the next |
| `LiveReconciliation` | readings of the broker's books against our rows, beside trading, and the fills sweep after the close |
| `BrokerDays` | the broker's figures of a day and the four that fetch them |
| `MCExits`, `MCLedgers` | instances that run two, or three, components which share nothing, one of them in each behaviour |
| `ExitsProofs` | the properties of `Scanner` and of `TradeExit`, proved |
| `LedgersProofs` | the budget, the slots and the balance of the paper ledger, that a published day is not forgotten, and what the live account promises, proved |

### LiveSubmission

`row` is the table: `status`, `resolution_attempts`, whether
`broker_order_numbers` is filled, and whether the row is older than
`IN_FLIGHT_SECONDS`. `fate` is where the order is, which no code can read.
`sender` and `resolver` are the locals of the coroutines that are inside
`submit_live_order`, `_place_exit`, the recovery job or the resolve route. `stop`
and `armed` are what a gate finds when it reads the emergency stop and the
activation; other components own them.

| Code | Actions |
|---|---|
| `submit_live_order`, `authorize_live_submission` | `BeginEntry`, `StopGate`, `UnresolvedGate`, `ActivationGate`, `RiskGate` |
| `prepare_submission` and its commit | `WriteAhead` |
| `send_prepared_order`, `adapter.submit` | `Transmit`, `RefuseLocally`, `Hear` (with `Classify`) |
| `apply_outcome` and its commit | `RecordOutcome` (with `ApplyOutcome`: unconditional) |
| an exit (`_place_exit`, `_market_exit`) | `BeginExit`, then the same steps |
| the recovery job | `LoadPending`, `LookUp`, `LookUpFails`, `SkipRow`, `CommitPass` |
| the resolve route | `LoadOne`, then the same steps |
| a request that arrives late, a process that dies, time | `Settle`, `Crash`, `Age` |

What an `UPDATE` writes is modelled column by column (`Write`): SQLAlchemy writes
the attributes that changed since the row was loaded and leaves the others, and
that decides what survives when two coroutines hold one row. A reading of the
order book shows any subset of the orders that exist, since the book may lag, be
cut or not echo the tag. The risk, approval and margin gates are one free choice:
what they decide belongs to other components, and here only when they decide matters.

### LivePosition, LiveProtection, LiveExitManager

Quantities count in the direction of the trade, so a short is the mirror image of
a long, and a negative `held` is a reversed position. `entry` is what rests of
the entry at the broker, with its row; `numbered` says that the coroutine which
sent it was given order numbers. `exit` is the exit orders by number. `task` holds
the locals of the two coroutines, `sweep` what the sweep in hand has read, `phase`
the clock of the trade (under way; within `STOP_IS_POINTLESS_MINUTES` of the
square-off; over). `faults` counts the failures a behaviour has had.

| Code | Actions |
|---|---|
| `_protect` | `Poll`, `CancelRest`, `Reread`, `Withdraw` |
| `protect_position` (both callers) | `SendStop`, `HearStop`, `SendClose`, `HearClose` |
| `_sweep` | `ReadPositions`, `ReadBook` |
| `_consider`, `_hold_or_protect`, `_trail_stop` | `Consider` (`Close`, `HoldOrProtect`, `Trail`) |
| `_cancel_orders`, `_already_finished` | `CancelOne`, `Cleared` |
| the broker | `FillEntry`, `Arrive`, `Fill`, `Drop`, `TakeCancel` |
| `resolve_submission` finding the entry | `RecoverEntry` |

Choices worth knowing:

- The write-ahead row of an exit is in `LiveSubmission`; here a placement is one
  step and the answer another, and between them anything may happen.
- Whether the target is reached and whether the trail moves the stop are free
  choices of `Consider`, since prices are.
- `UNRESOLVED` (the instrument cannot be named) behaves like a refusal.
- A stop fills whole. The cancellation of one order and the look at the book after
  a refusal are one step.
- A number that nothing refers to any more may be given out again (`Reuse`), which
  keeps the state finite over any number of sweeps. All that is lost is the vain
  cancellation of old stops by a sweep without an order book, which ends like a sweep that died.
- `protect_after_fill` runs after an entry that was accepted, and after one whose
  answer was lost; the second has no order numbers.
- Three switches say how a position can move where the code does not look:
  `SweepRaces` (an exit fills during a sweep), `Overlap` (a sweep runs while
  `protect_after_fill` does), `LazyCancel` (an accepted cancellation takes effect
  later); `LostAnswers` and `MarketRests` are failures of the broker. A run says
  which of them are on, so a passing run with one off says what the property needs.

### LiveApproval

One signal. `recorded` is its row in `paper_signals`; `scan` is where each
coroutine that reached it is, from the candle to the bridge. `approval` is the
status of the row of `live_order_approvals` that a coroutine made, `expired` the
rows whose `expires_at` is past, `shown` the questions that reached the operator.
`tap` is the updates Telegram has to deliver, `seen` is `telegram_inbound_events`,
`hook` the webhook requests under way, `orders` the submissions made.

| Code | Actions |
|---|---|
| `_record` | `Record` |
| `_offer` up to the fork; `AUTOMATIC` | `Offer`; `SubmitAtOnce` |
| `request_live_approval` | `Ask`, `SendQuestion`, `BlockUndelivered` |
| the operator, the clock | `Press`, `Expire` |
| `inbound_webhook` | `Deliver`, `Claim`, `Close`, `Finish` |
| `_handle_live_decision`, `decide_live_approval` | `Load`, `Unreachable`, `Decide`, `Submit`, `Report` |
| a process that dies, a request or statement that fails | `ScannerCrash`, `HookCrash`, and the failing disjuncts |

Choices worth knowing:

- The webhook inserts the event before it decides and commits nothing until
  `decide_live_approval` commits the decision, so decision and event become
  durable together, and a crash before that undoes both. `Claim` is that INSERT: it waits
  for another request's uncommitted row of the same update, and fails if that one commits.
- `SELECT ... FOR UPDATE` holds the row until that first commit and no longer.
  `Report` and `BlockUndelivered` write a status without looking at the one there;
  they wait for the lock like any `UPDATE`.
- A request to Telegram that fails may have been delivered, so a question the
  system calls BLOCKED may still be tapped, and may already have become an order.
- A submission is one step, made or refused; what becomes of it is `LiveSubmission`.
- Why `_offer` refuses (mode, gates, price, instrument) is a free choice.

### LiveSession

`clerk` is the locals of the two jobs and of the requests that take more than a
step; `order` the reconcilers whose row would be the latest, in the order their
transactions began, since `created_at` is the time a transaction started; `arms`
the activations by that time, with those not committed; `verdict` the latest row
and two ages, of the row and of the reading behind it.

| Code | Actions |
|---|---|
| `open_live_session`, the refresh job, the reconcile route | `OpenBegin`, `RefreshBegin`, `ReconcileBegin`, `Read`, `Store` |
| `activate_live_trading`, `inspect_live_readiness` | `ArmBegin`, `Inspect`, `Arm` |
| `revoke_live_activation` | `DisarmLook`, `Disarm` |
| `_start_scanner`, the scanner routes | `StartLook`, `Start`, `StopScanner` |
| `emergency_stop` and its end | `EmergencyStop` (two commands), `ClearStop` |
| an exception, the clock | `Fail`, `Tick` |

`disarmed`, `halted` and `kept` are history: what the properties need to know of
the past. Of readiness only the reconciliation gate is here; the others are one
free refusal. The clock of the refresh job stops when its lag is used up: that
the job is late by `MaxLag` at most is the assumption under which the code's own
comment ("ten minutes leaves five of margin") is checked.

### LiveLimits

`row` and `book` are an entry's status with us and at the broker; `sender` the
coroutine's trade, where it is, and whether every check so far has passed: all
of them run, also after one has failed.

| Code | Actions |
|---|---|
| `authorize_live_submission` | `Begin`, `UnresolvedGate`, `ReadHalt`, `JudgeDay`, `AllocationCheck`, `PositionCheck`, `Refuse` |
| the row, the send, the answer | `WriteAhead`, `Transmit`, `Hear`, `HearNothing` |
| `protect_after_fill` | `Protect`, `ProtectFails`, `Watch` |
| recovery, the account, a crash | `Age`, `Resolve`, `Trading`, `Move`, `Crash` |

A planned risk is a whole number of units, at most `MaxRisk`, so that a sum is
the number of units; the exposure ceiling, the price band and the margin are free
refusals. `Allowance` says what such a limit is worth: an item is let in on what
is used at that moment, and no more than `Width` are on their way at once.

### CandleFeed

Time is counted in candles; of a candle the number of its ticks is kept, which
tells a partial one from the whole. `job` is what each coroutine does with one
candle, `open` the open candles of each aggregator: a coroutine keeps the one it
was started with, also after the worker has made another.

| Code | Actions |
|---|---|
| `_on_message`, `consume` | `Tick`, `Consume` |
| `persist_completed` | `Check`, `Insert`, `Commit`, `Process`, `Fail` |
| the worker's loop | `ReadControl`, `Reap`, `Stop`, `StandBy`, `Start` |
| `flush_expired` | `Look`, `Flush`, `FlushEnd` |
| the backfill, before the feed and once after it has been up | `Fetch`, `Backfill`, `BackfillEnd` |
| the operator, the token, the network, a crash | `SetControl`, `Renew`, `Disconnect`, `Crash` |

The backoff before a restart is one iteration of the loop. A message has one
tick. The broker of the second backfill has every closed candle, that of the
first may lack the latest. There is no clock skew. The feed of Firstock handles
its messages one after another and is left out.

### Scanner

One strategy of any of the four types. `state` is the word kept in Redis, by
instrument and version, with the history of the setups that led to it; `task` is
the coroutine of each candle.

| Code | Actions |
|---|---|
| `_in_active_universe`, `on_completed_candle` | `Arrive`, `LookUp`, `Assign`, `Judge` |
| `_evaluate_strategy` | `Read` (with `Evaluate`), `Quota`, `Write` |
| evaluation, signal and its unique key, the offer | `RecordEvaluation`, `Record`, `Offer` |
| time, the ranking, the operator's save, failures | `Advance`, `Rank`, `Save`, `Raise`, `Crash` |

`Assign` and `Judge` are two steps although the lines follow each other
(`scanner_orchestration.py:136`, `:141`): the assignment is inside
`async with SessionLocal()`, and leaving the block awaits the close of the session
before the worker's answer is read again.

What a candle says of a setup is a free choice among what its type can say, made
when the setup is read: indicators, scores, plans and sizes are behind it. Opening
range bands do not overlap. What ORB and RS pullbacks can say is a subset of what
VWAP pullbacks can, so the runs take "vwap" for the two-stage types and "ema" for
the type without a setup. Ceilings are a free refusal.

### PaperExecution and PaperTrade

A pass over an instrument is one transaction: `base` is what it read, `draft`
what it means to write, and `Commit` writes what differs, over what others have
committed since. `work` are the order rows it holds locked (`Holds`). Before an exit fills,
its position is locked too, and so is a position that a pass has changed and flushed
(`HoldsPosition`). The position an entry fills is read without a lock: a pass that filled
its entry alone waits for the row only when it writes it (`Update`). A write puts down
the columns the pass has changed and leaves the others as they are on record by then
(`Column`, `Kept`, `WrittenPosition`), so a stale reading that is written back undoes what
another pass committed in the same column and no more. A write waits for a row another
holds (`Waits`), and `Deadlock` says who then waits for whom in a circle.

| Code | Actions |
|---|---|
| `process_completed_candle` | `Complete`, `Query`, `Lock`, `Fill` (with `Fills`, `QueueTime`), `Update`, `Commit` |
| the day's halt (`daily_limits.py`) | `Halt`, `HaltIsThere` |
| `settle_signal`, `reserve_signal`, `queue_signal` | `SettleSignal`, `ReserveRead`, `ReserveCommit`, `Queue` |
| the strategy | `Evaluate` |
| a unique key that is taken, a deadlock the database breaks, an exception | `Collide`, `Fail` |

Whether a bracket is hit, how much a candle lets fill, what a position is worth
and whether the clock asks for it are free choices here; `TradeExit` has them as
the code computes them. The OMS order follows its paper order and is left out.

### TradeExit

One trade, candle by candle. `PaperPass` is the paper engine's pass on one
coroutine, `TestPass` the backtest's step on the same candle, `trail_to` and
`time_exit_due` the rules both share (`exit_rules.py`). Prices are ticks, times
minutes, multiples whole numbers, slippage a number of ticks. A candle lets
an order fill by one unit or whole, so the entry and each exit may take several
candles; `entry` is the average after each part, as `_money` rounds it
(`RoundedMean`), and it is what break-even moves the stop to. `bought` and `moved` are
history: the candles on which the entry bought, and on which the trail moved the stop.
Of a candle the opening price is free only where a market order reads
it, the close only where a rule trails. The end of the data is left out.

### LiveReconciliation and LiveFills

One instrument, one day. A reading takes the order book, then the positions, then
the rows; the account moves in between.

| Code | Actions |
|---|---|
| `reconcile_live_execution` | `ReadOrders`, `ReadPositions`, `Conclude` (with `Verdict`), `Abandon` |
| `record_fills`, the evening's sweep of the fills | `RecordFill` in `Conclude`; `SweepRows`, `SweepBook`, `SweepFails` |
| our orders | `WriteAhead`, `Send`, `Accept`, `Refuse`, `Lose`, `Recover`, `GiveUp` |
| the exchange, the operator's own orders | `Fill`, `Withdraw`, `Close`; `PlaceByHand` |
| `_aggregate`, `_price_trade` | `Aggregate`, `GrossTimes` |

The average price is kept as what was paid in all. The rows are read, written and
committed in one step; quantities that cannot be read are a reading abandoned; a
reading ends before the sweep at 18:00; a row that stays PREPARED is the same
question as an UNKNOWN one. A day whose only order is NEEDS_REVIEW is not swept.

### BrokerDays

| Code | Actions |
|---|---|
| the evening job, the morning's catch-up | `Evening`, `CatchUp`, `Look` |
| the History screen, the backfill script | `FetchDay`, `Backfill` |
| `sync_days`, `fetch_rows`, `trade_charges`, the snapshots | `Open`, `FetchRows`, `FetchCharges`, `Commit`, `Refused` |
| orders of a day, the broker's report | `Trade`, `FoundPlaced`, `Publish` |

Of a figure the model keeps whether it is known. The newest snapshot counts, by
the time its transaction began. The days lie in one financial year and on one
page of the report; the account is traded by the system alone; a job does not span
midnight; a request may be refused any number of times.

## 3. The runs

| Run | Question | Answer |
|---|---|---|
| `sub_senders` | Two senders, a crash, slow sends, the route: is every order that left on record, sent once, and never recorded as refused or placed when it is not? | yes; it implements `OrderLedger` |
| `sub_scheduled` | Only the scheduled job resolves: does a settled outcome stand, is every open row settled, and does a stop, a revoked activation or a review that is permanent stop entries? | yes |
| `exit_quiet` | Sweep and protection in turn, no fill inside a sweep: do exits fit, is the book clear before an order, and is an uncovered position covered or closed? | yes |
| `exit_flat` | Races, a lost answer, a resting market order, a crash: is an overdue position flat in the end? | yes, reversals included |
| `exit_race` | A stop is triggered inside a sweep | `NeverReversed` is violated |
| `approval` | Two coroutines, two taps that may disagree, two requests, repeated deliveries, crashes: one order, never against the answer, every tap acknowledged? | yes |
| `session` | The jobs and two requests overlap, fail and wait for slow brokers: do disarming and stopping last, does no stale reading count, does the refresh job keep an armed account reconciled? | yes |
| `entries` | Two coroutines send four entries, with lost answers, failed withdrawals and crashes: by how much are the day's risk and the open positions overrun, and does a halt last? Beside it, `protect_after_fill` alone with every failure on | by what was under way; it implements `Allowance`; exits fit |
| `ledgers` | Paper: does the position agree with its orders, do reservations keep to the budget and come back? Live: do our own orders never block the day and a stranger's always, and does the sweep leave what the broker filled? Figures: is a published day forgotten? | as they should |
| `candles` | Ticks, the flush and backfills beside a disconnection, a renewed token, a switch, a failure or a crash: is a candle processed once, when it is over, and does the feed follow the switch? | yes, but for the flush's own partial candle |
| `exits` | Is a strategy measured as it is traded, does a stop keep what the trail won, does the clock get a trade out, when the entry and the exits take several candles? Beside it, the scanner: does a signal end a live setup, once, under the ranking? | yes, but for what the properties name: the backtest has no ATR, no clock and one entry price, and no trail on the entry's candle; an entry that buys on moves its break-even, and what it buys after the clock asked has no clock |
| `resignal` | A strategy with a cooldown | `OneSignal` is violated |

A run that holds two or three components in turn (`MCEntries`, `MCExits`,
`MCLedgers`) checks each on its own: the others' variables are `Unused`.

### What the violated runs say

They are `findings` in `PROJECT.json`, each with the line of the repository it
contradicts.

`exit_race`: the sweep sizes an exit to a position it read before it knew what
the order book held, and does not read it again. The comments of
`live_exit_manager.py` name the reversal as the outcome the module exists to
prevent, and order the cancellation before the exit; the reading that would make
the order sufficient (the position again, after the cancellation) is missing.
`exit_flat` says how far the damage goes: a reversed position is a position, and
a later sweep closes it.

`resignal`: SIGNALLED is a latch in Redis that should hold for the session, and
the quotas are asked of it as of a new signal: an active cooldown, or a ceiling
of the day, writes AWAITING over it. The instrument is armed again and may signal
the other side. `OfferedOnce` says what remains true: each version and side is
offered once, by the unique key of the signals.

More the models show has no run of its own, since a property that
excuses exactly it passes:

- The flush pops an instrument it listed before its last await, and may take the
  candle that a tick has opened there since: a partial candle, with a closing time in
  the future, after which the real one is dropped as a duplicate
  (`ClosedUnlessFlushing` allows this and nothing else).
- The paper engine lets the stop trail on the candle of the entry and the backtest
  does not, against `services/backtesting.py:138-141` (`MeasuredAsTraded` has
  `1 \notin moved`).
- An entry that fills in parts moves the average its break-even stop goes to. The
  backtest has the first price (`~Averaged`), and a stop that was moved before a dearer
  part is below what the trade paid (`StopKeepsGround` speaks of a stop that moved since
  the entry last bought).
- A time exit is queued once, for what is held then, and the entry goes on working:
  what it buys later leaves by its bracket or not at all (`LeavesInTime` asks that the
  entry had bought all it would). Quantity 2 is enough: one unit is held when the clock
  asks, one is bought after it, and the exit ends FILLED beside it.
- With `Overlap` on, the sweep and `protect_after_fill` each place a stop for the
  same fill; with `LazyCancel` on, the sweep sends its order beside a stop whose
  cancellation was accepted and has not happened; and a stop whose answer was lost
  is not counted by the sweep, which places a second. `exit_quiet` has all three off.
- A halt recorded by a reservation, or by a pass that saw less, flattens nothing.

### Bounds

- `sub_*`: two ids, as each property speaks of one attempt, or of one attempt
  blocking another; ids are symmetric in the safety run. Two senders are the pair
  that can meet, the worker and the API; the job never overlaps itself. The job and
  the route on one row together are left to the proofs. `MaxAttempts` is 2 rather
  than 3: one miss that is spent and one that escalates.
- `exit_*`: `Qty` of 2 or 3 allows a partial fill and its completion. `MaxExits`
  bounds the exit orders something still refers to, not the orders of a behaviour.
  `FillPolls` is 2 rather than 6: polls that find nothing differ only in number.
  `MaxFaults` is 2 for safety, more than any one path reacts to, and 1 or 2 for
  liveness, where it stands for "failures stop": the code retries every minute for
  ever, so nothing can be promised while a broker refuses for ever.
- `approval`: two of everything that can meet, and two failures, so that a crash can
  follow an uncertain delivery or a lost acknowledgement.
- `session`: what counts is how `Period` (2), the lag
  (1) and `MaxAge` (3) compare, taken at the edge of what the code assumes. Two requests
  meet each other and both jobs.
- `entries`: four trades of one and two units against a budget of 2 and one open
  position let a limit be overrun; the bounds for more are proved.
- `ledgers`: two instruments, two units, three candles (the entry, an exit, one in
  flight beside it), one lost coroutine and two that overlap; all three paper properties
  are proved for any number of coroutines, and for any quantity, candles and losses
  (`LedgersAssumption`); `MaxMishaps` of 2 lets two readings
  overlap, or one meet a lost answer; a sliced entry, its exit and one order by
  hand; two days and a lookback of one, so that a day is looked at twice.
- `candles`: two instruments, since the flush awaits between two; two messages
  beside the worker; three ticks over two buckets and one trouble.
- `exits`: four prices, two units and three candles, each of which fills one unit or
  all: an entry in two parts with a trail between, or a trail and an exit in two parts. Two coroutines and two versions of one instrument of the scanner; three
  minutes.
- `CHECK_DEADLOCK FALSE` everywhere: ids, faults, phases, candles and taps are used
  up, and a trade that is flat at the end of the day has nothing left to do.

### Fairness

`FairSpec` of `LiveSubmission` assumes that a coroutine which began goes on (every
request has a 15-second timeout), that time passes, that the scheduler runs its
job, and that the broker login does not fail for ever. It does not assume that an
order arrives, that a lookup succeeds, or that anyone calls the route.

`FairSpec` of `LiveExitManager` assumes that coroutines go on, that a sweep runs
every minute, that orders in transit arrive, that accepted cancellations take
effect, and that recovery finds an entry that exists: one whose recovery ends in
`NEEDS_REVIEW` is no trade the sweep knows, and nobody protects it. Nothing makes an entry fill,
a stop trigger or the clock advance. Sweeps are assumed to go on for as long as
the position needs them: the code stops them when the exchange closes. The clock
may never reach the last phase, as the time exit and the square-off can be switched
off; `FlatInTheEnd` promises nothing then.

`FairSpec` of `LiveApproval` assumes that coroutines and requests go on and that
Telegram delivers an update until it is answered. Nothing makes the operator tap.

`Spec` of `CandleFeed` assumes that the event loop gets round to every coroutine
and that time passes. Ticks, switches and failures happen or do not; `CatchesUp`
speaks of when they have ended, as their number is bounded.

## 4. What is proved

Proofs are for every value of the constants that satisfies the named assumptions
of its module: any number of attempts, senders, resolvers, processes and crashes;
any quantity, polls and number of exits; any number of coroutines, requests, taps,
instruments and failures; any budget, weights, windows and periods that fit.
`TypeCorrect` in each module is its type invariant.

| Theorem | Module | States |
|---|---|---|
| `WriteAhead_Holds` | `LiveSubmissionProofs` | an order that left is named by a row |
| `NeverDisowned_Holds` | `LiveSubmissionProofs` | no order that may exist is recorded as refused |
| `NoPhantom_Holds` | `LiveSubmissionProofs` | a row that counts as placed is a placed order, with its numbers |
| `SentOnce_Holds` | `LiveSubmissionProofs` | one transmission, one verdict |
| `Implements` | `LiveSubmissionProofs` | `LiveSubmission` implements `OrderLedger` |
| `SettledStands_Holds` | `LiveSubmissionProofs` | with one scheduled resolver, no route and no slow send, a settled outcome stands |
| `NeverReversed_Holds` | `LiveProtectionProofs` | `protect_after_fill` alone never reverses a position |
| `ExitsFit_Holds` | `LiveProtectionProofs` | the exits that may still trade never sell more than is held |
| `OneOrder_Holds` | `LiveApprovalProofs` | one signal is one submission at most |
| `AnswerIsKept_Holds` | `LiveApprovalProofs` | what was sent for a question was approved by a tap |
| `DisarmHolds_Holds` | `LiveSessionProofs` | a disarm lasts until somebody begins to arm |
| `StopHolds_Holds` | `LiveSessionProofs` | a scanner that was stopped stays so until somebody begins to start it |
| `ReadingIsFresh_Holds` | `LiveSessionProofs` | a verdict that counts rests on books read within the window |
| `KeptFresh_Holds` | `LiveSessionProofs` | the refresh job keeps the verdict within the window |
| `RiskBound_Holds` | `LiveLimitsProofs` | the day's risk is overrun by what was under way and what crashes left, and no more |
| `SlotBound_Holds` | `LiveLimitsProofs` | the same of open positions, with the faults |
| `HaltBound_Holds` | `LiveLimitsProofs` | a halted day stays halted |
| `ImplementsRisk_Holds`, `ImplementsSlots_Holds` | `LiveLimitsProofs` | risk and positions each implement `Allowance` |
| `ProcessedOnce_Holds` | `CandleFeedProofs` | a candle is processed once at most, as it is stored |
| `ClosedUnlessFlushing_Holds` | `CandleFeedProofs` | only the flush may complete a candle early |
| `StoredForGood` | `CandleFeedProofs` | no step changes a stored candle or takes its snapshot back |
| `OfferedOnce_Holds` | `ExitsProofs` | a signal is offered to the live path once |
| `SetupIsAlive_Holds` | `ExitsProofs` | a signal ends a setup that was alive |
| `RankingApplies_Holds` | `ExitsProofs` | an instrument the ranking left out is not scanned later, but beside an older answer |
| `MeasuredAsTraded_Holds` | `ExitsProofs` | the backtest leaves a trade as the paper engine does, but for an ATR trail, the clock, a stop that moved on the entry's candle, and break-even after an entry of several candles |
| `StopKeepsGround_Holds` | `ExitsProofs` | no stop gives up what the plan holds, or what break-even held since the entry last bought |
| `LeavesInTime_Holds` | `ExitsProofs` | once the clock asks, every candle takes something off, if the entry had bought all it would |
| `PaperBudget_Holds` | `LedgersProofs` | paper reservations keep to the day's allocation and the open positions |
| `SlotReturned_Holds` | `LedgersProofs` | a closed paper position gives its slot back, or is about to |
| `LedgerBalances_Holds` | `LedgersProofs` | however many coroutines overlap, a paper trade's orders add up to its position, but where the clock's exit is older than the entry |
| `LedgersTypes` | `LedgersProofs` | the types and bounds of the three books, an order's bound with the same exception |
| `CaughtUp_Holds` | `LedgersProofs` | a published day that a pass answered for keeps its charges |
| `OwnAccountIsSafe_Holds` | `LedgersProofs` | our own orders alone never block the day once no row is open |
| `HandBlocks_Holds` | `LedgersProofs` | a stranger's working order always does, and so does a holding by hand that ours could not hide |
| `SweptIsFinal_Holds` | `LedgersProofs` | after the sweep every row says what the broker filled of it, and at what cost |
| `BookedIsCash_Holds` | `LedgersProofs` | a trade that ended flat is booked at what it left in cash |

None of these invariants is inductive as it stands. What each needs:

**Submission.** What a row says depends on
what a coroutine that holds its id is about to write. `IInv` adds that to
`TypeOK`. Each id is in the hand of at most one sender; a hand before
`WriteAhead` holds an id with no row; a hand at `prepared` holds an order that is
unsent; an answer of ACCEPTED in hand means the order is placed, REJECTED that it
is not; a grip whose verdict is RESOLVED_PLACED holds a placed order; and a
resolver never holds a row that is absent. The proof takes the actions one by one, and groups
those that only move a program counter. The step properties and the refinement
follow from `IInv` with one case per action.
`SettledStands` fails in general (the route may resolve a row whose send is in
flight), so its theorem has the assumptions under which it holds as hypotheses:
one resolver, the job, and no send that outlasts the in-flight window. It rests on
one more invariant (`Apart`): the job holds only aged rows, and an aged row is in no
sender's hand.

**Protection.** What the orders at the broker may still sell depends on what the
coroutine knew when it sent them. At most one exit may still trade
(`OneExit`), and it fits what is held (`Fits`). While the coroutine has sent
nothing, nothing is out (`NothingOut`), and what it is about to sell is held
(`Sized`). While it awaits an answer, the order that may trade is the one it
awaits, and unless that order is over the position is as large as it was when the
order was sized (`Waiting`). A lost answer ends the coroutine, which is what keeps
`OneExit`. `ExitsFit` is a sum over a set of one order.

**Approval.** One coroutine at most got past the record of the
signal (`OneActive`). One request at a time decides a row (`OneHolder`), and the row
is PENDING for as long as it does (`Deciding`): the undelivered question waits for
the lock. A PENDING row has sent nothing and nobody is sending for it (`Unspent`);
a row that was spent was spent by one request (`OneSpender`), which a tap of
"approve" brought, and until that request submits nothing was sent (`Spent`).

**Session.** Who arms has a row that is not committed, and somebody disarming
beside it is marked as raced; a starter that read the stop is what `halted`
excludes. The ages are the longer argument. In `order` a reconciler that began
earlier is never younger than one behind it, its reading is no older than its
transaction, and the stored verdict is older than all of them; the refresh job,
between the time it began and the time it stored, has aged by its lag at most,
which is what keeps `verdict.age` within `Period + MaxLag`, whoever stores last.

**Limits.** The bounds count. Entries that have left and are in no reading yet are
each in the hand of a coroutine or were left by a crash or a fault; a coroutine has
one trade, so those in hand are an injection into `Sender`, and the last to be let in
is in its own coroutine's hand, hence the "- 1". The sets (`Slots`, `Strays`,
`Orphans`, `Adrift`, `Ahead`) and their cardinalities are conjuncts of `IInv`; the
sum of planned risks is the cardinality of a set of units, which makes additivity
over disjoint sets a fact of `FiniteSetTheorems` rather than an induction. The
refinements map what is on record to `used` and what is let in and not yet there to
`underway`, and take each action to `Admit`, `Charge`, `Drop`, `Release` or a stutter.
`ImplementsSlots` is proved and no run checks it.

**Candles.** A candle and its snapshot are committed together, so whoever commits
first is the only one to process (`Once`), and what it holds is what is stored
(`ProcessedAsStored`). A candle in hand is over unless it is the flush's (`InTime`),
an open one is not ahead of the clock, and an aggregator is replaced only after
trouble (`StartDue`), which bounds their number.

**Scanner.** A coroutine that is about to offer a signal put it on record, is alone
with it, and nobody has offered it (`Once`): the unique key is what the proof turns
on. A word of a setup, in Redis or on its way there, is of a setup that is alive
(`Alive`), which takes a lemma on what a candle may make of a setup (`Decisions`).
An answer from before the ranking, in the worker or in a coroutine's hand, is not
younger than the ranking, and a coroutine that arrived beside nobody with such an
answer meets none (`Applied`). The minute of the ranking is why the property speaks of
a later one. `ScanAssumption` says that a ranking which keeps nothing is none: the code
reads an empty set as "scan everything".

**Exits.** A candle fills one leg at most, the first in the order of the pass that
is able to (`Pass`), and `ExitedIs` says which. Every unit that the entry has bought is held or was
sold by one leg; while something is held its bracket works (`Kept`); and a time exit that was
queued after the entry's last fill asks for at least what is held (`Timely`): that is why it finds
something to fill. The stop is never behind the plan, and under break-even a stop that moved since
the entry last bought is at the average paid (`Grounded`). As long as neither has left, all that was
bought is held, and backtest and engine have the same stop, outside the exceptions the property names
(`Measured`, `Unmeasured`): an entry of one candle was paid what the backtest paid. Then they see
the same touches (`SameTouch`). Prices are any set of naturals, and no bound of the run enters the
argument.

**Paper ledger.** `PaperBudget` needs the advisory lock: one coroutine at most is
between a reservation's reading and its commit, and what it read still holds then
(`OneReserves`). `SlotReturned` needs more, because a pass that closes a position
must be the one that settles it: a draft that is closed says so, or was closed when it was
read (`DraftsFine`); a closed position is empty, so no exit fills on it again
(`ClosedIsEmpty`); and an entry is not queued a second time on a signal that has one
(`OneEnters`, `NothingHeld`), which is where the signal's unique key comes in. That the
orders of the signal add up to its position is not needed. Both theorems hold whatever
coroutines overlap, fail or are undone by the database.

**Paper ledger: its balance.** `LedgerBalances_Holds` has no hypothesis on the coroutines:
any number of passes over any instruments may overlap. `BalanceInv` has four parts.
`BooksBalance` is the property, with each order within its quantity and what was made when
(`Balanced`, `Dated`). `PassesFit` says it of what a pass carries: it works on orders that are
there and due (`Chose`); once locked they stay as it read them (`Keeps`); what it read adds up, so
does its draft, and the draft fills only what it works on (`Drafted`); and once it has filled
anything and has the position, the quantities on record are still those it read (`Fresh`). That is
what lets a commit write its columns over the record (`KeptLeft`, `WrittenBalances`,
`WrittenPositionBalances`). `PassesApart`: of two passes no order is locked by both, and one at
most has the position. The pass that fills the entry read the position without a lock
(`paper_execution.py:262`), so something else must keep another's exit from the position
meanwhile, and that is `Covers`: the entry was due before its exits, hence whoever has an
order to fill while the entry works has asked for the entry too, and waits. `HaltedOnce`: the
first of two passes that halt the day has the row of `session_halts`, and only its halt cancels
orders and makes halt orders. The lemmas `WriterKeeps` and `CommitLeavesPass` carry a
pass over another's writes, `EndKeeps` takes one out, and the four parts follow with one lemma
for each action.

"The entry was due before its exits" fails of one order: the clock's exit. A candle older than the
one that signalled may be the first to find the position, and if the strategy's square-off has passed
it queues a TIME order that is due before the entry (`Timely`, and `TooEarly` in the property).
Then a pass for another old candle has the TIME order without the entry, and the two may undo
each other; `TypeOK` and `LedgerBalances` leave out such a trade and nothing else
(section 5). The other parts of the types hold of it as well.

**Broker's figures.** What could undo a day is a pass that fetched it before the broker
had settled it and appends it later. The invariant says of each day that a pass answers for
that whoever `Doubts` it began before that pass (`Assured`), so the day's newest snapshot
stays the one with the charges (`Settled`); a day that was settled already, or that the
morning job finds with nothing outstanding, is in nobody else's hands (`Looked`,
`NobodyDoubts`). That is why the property leaves out the days another pass is on.

**Live account.** A reading is of an earlier account than the one its rows are from. The
invariant says what that leaves true: the broker still has what was seen (`Earlier`), and
what was held beyond the orders by hand is within what our own orders could leave now, in
either direction (`Reach`), because placing more only widens it (`ReachGrows`). With the
rows settled, `Reach` is what the code computes from the rows (`GrossIs`), since an order
the broker has was written down before it was sent and is not refused (`Recorded`). For
the sweep, `Recording`: nothing is recorded of a submission that is not there, and
between the two halves of the sweep a row holds what was loaded or what is final, as
every reading that is still on holds the closed book. `BookedIsCash` then is arithmetic: rows that
filled nothing fall out of both sums, the sums over rows are sums over orders
(`TotalBySubmission`), and a flat trade bought what it sold.

**Sums.** The specifications add up with `MapThenSumSet`, which folds over a set.
`Total(F, S)` says the same without recursion: the units `F` adds less the units it takes
away, as cardinalities of sets of pairs. Additivity, monotony and the sign are then facts of
`FiniteSetTheorems`. That a fold is its `Total` takes a descent through the subsets of
`S` (`LeastSubset`, `FoldIs`: a smallest subset for which they differ has none) and one
lemma for each summand (`SumOfFilled` and after it), since a theorem cannot be
instantiated with an operator.

## 5. Only model-checked

- Liveness under fairness (`EveryOpenRowSettles`, `HaltHolds`, `FlatInTheEnd`,
  `NakedEnds`, `TapAnswered`, `CatchesUp`): TLAPS cannot reason about ENABLED.
- `ExitsFit` with the sweep, `ClearBeforeExit`: sums over the exits that work, and a
  condition of the run (no fill inside a sweep) rather than of the code.
- `ExitsFit` as `MCEntries` states it. The theorem `ExitsFit_Holds` is about
  `LiveProtection`, on which that run builds; `MCEntries` reaches it through an INSTANCE,
  and its theorems are not visible through one.
- What `TooEarly` leaves out of `LedgerBalances` is neither proved nor checked: there the property can
  fail. It takes a signal whose strategy squares off before the candle that signalled, and
  two passes over still older candles of that instrument that overlap; the square-off of a
  strategy is meant to be later than its last entry, but nothing compares the two.
- Sums in the other modules (`ExitsFit` with the sweep). A sum can be reasoned about as
  in `LedgersProofs`; what a recursive definition computes in general cannot, for the
  library's induction theorems take an operator as a parameter.

## 6. The plan

1. Done: the live order path, its limits and its session; candles, scanner, paper
   ledger, exits, reconciliation, fills and the broker's figures; the safety of
   submission, protection, approval, session, limits, candles, scanner and exits proved,
   and that of the three ledgers.
2. Next: `ExitsFit` with the sweep over exits, for which the sums are there.

## 7. Not modelled

Login and broker clients are network input and output; what their answers
mean to an order is in `Classify` and in the cancellation outcomes. Indicators,
scores and plans are floating-point arithmetic over one series. The backtest's
parameter sweep and the replay run alone over stored candles. Reports, screens,
users, settings and the web interface read tables that other components own, or
edit one row of values that the models take as constants. They are more than half
of the repository's lines, which is why the share of lines the models stand for is
small: settings, history, execution quality, statistics and their routes are
queries and layout, with no step another actor could come between. Prices, ticks
and wording are left out wherever no property is about them.
