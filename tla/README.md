# NEURAVEX in TLA+

A verification project for the NEURAVEX trading system: a FastAPI backend with
Celery tasks and a Postgres database that decides trades, and an Android
foreground service that executes them with a locally held wallet key.  The
modules are translated from the source; `PROJECT.json` ("map") names the lines
each definition stands for.

## 1. The system

### Parts, state and operations

| Part | Source | State it keeps | Operations |
|---|---|---|---|
| Live order queue | `api/execution.py`, `db/sql_data_store.py`, `trading_engine/agent.py` | `pending_executions` (status, side, symbol, quantity, `expires_at`), `positions` | queue an order, list, claim, report, apply the fill, adopt holdings |
| Agent tick | `core/tasks.py` `run_agent_tick`, `trading_engine/agent.py` | none of its own; a portfolio snapshot for one transaction | analyse each coin, buy, close, flatten on a breach |
| Live exit sweep | `core/tasks.py` `check_live_exits`, `risk/exits.py` | the loaded positions | sell on stop, take-profit or hard stop |
| Emergency requests | `api/emergency.py` | – | kill switch, close-all |
| Settings | `api/settings.py` | `account_settings` | switch AI trading, mode, floor, coin list, simulation reset |
| Balance report | `api/dashboard.py` | `portfolio_snapshots` | record equity, adopt untracked holdings, reset the baseline |
| Phone loop | `TradingExecutionService.kt`, `ExecutionRepository.kt` | none that survives the process | poll settings, report the balance, fetch, claim, swap, report |
| Swap client | `PolygonDexExecutionClient.kt` | the chain | quote, approve, send, wait for a receipt |
| Simulation | `execution/paper_exchange.py`, `core/tasks.py` | `paper_balances`, `paper_positions` under a row lock | tick, exits, close-all, reset |
| Risk limits and drawdown halt | `risk/risk_engine.py`, `db/sql_data_store.py` | halt events, peak equity | account-wide limits, per-trade limits, halt with a cooldown |
| Strategy feedback | `api/execution.py`, `db/sql_data_store.py` | `strategy_performance`, closed trades | attribute a closed trade to its strategies |
| Equity alerts | `check_equity_movement`, `alerts.py`, `api/notifications.py` | reference equity, `pending_notifications` | compare, notify, acknowledge |
| Auth | `api/auth.py`, `core/auth.py`, `ApiClientFactory.kt` | stored token pair | login, refresh, retry |
| Rate limit | `core/rate_limit.py` | counters in Redis or in the process | count, refuse |
| Market portfolios | `api/portfolios.py` | one account per market | create the missing ones |
| Market data | `public_market_data.py`, `yahoo_market_data.py` | caches | candles and tickers with fallbacks |

How they interact: Celery beat fires `run_agent_tick` every minute,
`check_live_exits` every 30 s and `check_equity_movement` every 120 s.  A task
is one database transaction (per account for the tick); so is every HTTP
request.  Postgres runs at its default READ COMMITTED, SQLAlchemy with
`autoflush=False`.  The phone only polls; the backend never calls it.  For a
live account the backend holds no credential: it queues an order, the phone
claims it, swaps on Polygon and reports.

What is hard: the same order is looked at by a task that has not committed, a
kill switch between its read and its commit, and one or more phones; every
process may die between two steps; an order has a deadline; a swap may land
after the phone stopped waiting; several components each use their own query
for "is something in flight".  `PROJECT.json` ("hazards") lists each hazard at
its line.

### What makes each part correct

* Order queue: no duplicate buy, no second sell of the same position on offer, a
  lapsed row neither executes nor blocks.
* Claim protocol: an order is swapped at most once; a crash loses an order,
  it never repeats it.
* Books: what is recorded as executed happened; open positions are covered by
  the wallet; coins in the wallet come under a position.
* Safety switches: switching AI trading off stops buys and never stops
  protective sells.
* Simulation: no writer undoes another's trades; cash and cost basis are
  conserved.
* Halt: a drawdown halt ends when its cooldown does, only a new loss starts
  another, and of the two places that compute the peak the dashboard never shows
  less of a drawdown than the agent halts for.
* Entries: the limits on size, exposure, number and frequency hold across the
  coins of a tick, across ticks and across failed jobs; past a hard stop
  everything is sold.
* Strategy feedback: a closed trade counts once, for the decision that opened it.
* Alerts: real moves only, none missed, in order.
* Session: a phone that keeps polling never has to log in again.
* Rate limit: never more than the limit, and never shut out for good.

## 2. The modules

| Module | Models |
|---|---|
| `TradingConstants` | the sets both sides share |
| `ExecutionQueue` | the database side of one live account: tasks as transactions, the queries they decide on, the HTTP handlers |
| `PhoneExecutor` | one polling loop per device, the chain and the wallet |
| `LiveTrading` | both together, with the claim and the kill switch split at their races |
| `AtMostOnce` | the abstract claim protocol |
| `SimulationAccount` | one simulation account: tick, close-all, reset and switch around its row lock, its peak and its halt |
| `EntryLimits` | the same account over time: moving prices, every limit of the risk engine, exits, attribution of sales |
| `PositionLedger` | what fills and adoptions do to a live position, its profit and its strategies |
| `EquityAlerts` | the equity check, its notifications and the phone that shows them |
| `PhoneSession` | access and refresh tokens on the phone, the OkHttp authenticator |
| `RateLimit` | the Redis counter of one client |
| `DrawdownHalt` | the drawdown stop of a live account, as the agent and as the dashboard compute it |
| `MCExecutionQueue`, `MCLiveTrading`, `MCSimulationAccount`, `MCEntryLimits` | symmetry and the module TLC runs |
| `MCServices` | `EquityAlerts`, `PhoneSession`, `RateLimit`, `PositionLedger` and `DrawdownHalt` in one run |
| `ExecutionQueueProofs`, `LiveTradingProofs`, `OutcomeProofs`, `SimulationProofs`, `SessionProofs`, `EntryProofs`, `ServiceProofs` | theorems and proofs |
| `FoldLemmas` | lemmas on least and greatest elements and on sums over finite sets |

Operators and actions whose comment begins with "Variant:" are not part of the
specification: each is a plausible mistake in the code that the definition below
it stands for, kept so that one can see which property would notice it.

### ExecutionQueue

`status`, `plan` and `late` are the columns of a `pending_executions` row
(`absent`: no row yet; `staged`: inserted by a transaction that has not
committed; `late`: `expires_at` has passed).  `position` is the quantity of the
open `positions` row of a symbol.  `task[w]` is what worker `w` runs: its kind,
whether it is a dry run, the quantities it *believes* are held (loaded once,
then updated by its own reservations), the symbols it still has to look at, and
the rows it has staged.

`Start*` loads the settings and the portfolio; `TickBuy`, `TickClose`,
`FlattenClose` and `SweepClose` queue an order under exactly the guards of the
code, each with the query that code path uses (`HasPending` or
`SweepSeesSell`); `CommitTask` makes the staged rows visible; `AbortTask` is a
failed commit or a dead worker.  A symbol left in `todo` at the commit gave no
trade.  `Lapse` is the deadline passing.  `KillSwitch`, `Claim`, `Report`,
`AdoptHoldings` and `SetAi` are the handlers, each one transaction.

### PhoneExecutor and LiveTrading

`phone[d]` is the program counter of the loop (`idle`, `balance`, `fetch`,
`walk`, `claiming`, `granted`, `waiting`, `done`, `undone`), the AI switch as
last read, the fetched rows and the current one.  Nothing of it survives
`LoseLoop`.  `tx` is the swap a device sent for an order, `wallet` the chain.
`LiveTrading` keeps the calls of `claim_execution` that have passed their checks
(`claims`) and the kill switch between read and commit (`kill`): both handlers
read rows without locking them and write them at commit, so others' commits fall
in between.  A claim goes on after its phone died.

### AtMostOnce and the refinement

`AtMostOnce` says what each device may see of each order: it is offered, at most
one grant follows, at most one swap, then nothing.  `StageOf(d, o)` reads that
stage off the detailed state, and `ImplementsAtMostOnce` is the abstract
specification under it.

### SimulationAccount

`start`, `balances`, `basis` and `aiEnabled` are the columns of the settings row
(`basis`: the coins that have a cost basis), `lock` is who holds it `FOR
UPDATE`.  `work[w]` is a job and its `PaperExchange`: what it was seeded with
(`loaded`, `starting_balances` in the code), what it holds now, the coins whose
price loaded (`priced`), the coins it has still to look at, `dry_run`, and
whether it found the account in breach.  `Lock` waits for the row and loads
everything; the trades change only the job's copy; `Commit` writes it back and
records the equity.  `Abort` is a dead process or a failed commit, `TickFails`
the exception handler of `run_agent_tick`, which commits without the balances.
`snapshots` keeps what the peak is computed from: the highest equity recorded,
the highest since the last halt ended, and the latest.  A reset is two steps:
`BeginReset` reads the row without a lock and deletes the snapshots,
`CommitReset` is its UPDATE, which waits for the row, and writes only the
columns that differ from what was read (SQLAlchemy's unit of work).

### EntryLimits

`cash` and `cost` are the balances and the cost basis, `decided` the executed
`ai_decisions`, `credits` the `closed_trade_sim` events, `snap` what the risk
engine reads of `portfolio_snapshots`.  `job` is the one job that holds the row
lock, with its `PortfolioState`: the switch, the prices it loaded, the coins it
has still to look at, `trades_this_hour`, the entry and trade times, its copy of
the balances and what it has decided and done.  `BeginTick` loads it and asks
`check_account_wide_limits`: a hard stop leads to `Flatten`, the daily loss to a
pause, otherwise `Enter` and `CloseOnSignal` go from coin to coin under the
guards of `_process_symbol`, `check_trade_against_limits` and
`calculate_position_size`, each trade being kept in the state
(`_reserve_entry_in_state`).  `ApplyExits` is `_apply_simulated_exits`; `Commit`
writes back and records the equity; `Abort` loses everything, `TickFails` keeps
the decisions and not the balances.  `filled` is history: the trades that
reached the balances, which is what the limits are about, whereas the code
counts `decided`.  Time passes in beats between jobs, and midnight moves the
equity the daily loss is measured from.

### PositionLedger

`positions` are the rows of one coin, `record` the count and wins of each
strategy, `credits` the `closed_trade_live` events.  `ReportBuy` opens a row or
re-averages the open one, `ReportSell` accumulates the profit and closes,
`Adopt` opens a row without a decision.  `netCash` and `opener` are history: the
cash each position cost and brought, and whose buy opened it.

### EquityAlerts

`alerts` are the rows of kind `equity_move`, `staged` what the running check has
added.  `CheckMovement` compares the latest snapshot with the last row and
`CommitCheck` makes the new one visible; the equity may change in between.  The
phone fetches the undelivered rows (`fetched`), takes them oldest first
(`OldestOf`, the order of the query), shows and acknowledges them one by one; an
acknowledgement may be lost and the phone may die at any step.

### PhoneSession

A token is the number of beats it is still valid.  Every thread of the app sends
requests with the stored access token; on a 401 the authenticator refreshes with
the stored refresh token, saves the two halves of the answer in two edits, and
retries once.  The threads are not synchronised with each other, so refreshes
overlap and write over each other.

### RateLimit

`Count` is the INCR, whose answer decides both whether this request sets the
time to live and whether it is let through; `SetExpiry` is the EXPIRE, with
other requests in between; `LoseExpire` is the exception the middleware
swallows; `WindowEnds` is Redis dropping the key.

### DrawdownHalt

`latest`, `highest` and `since` are what the two peak queries return: the last
live snapshot, the maximum of all, and the maximum since the last stop's
cooldown ended.  `age` is the age of the latest `drawdown_halt_live` event.
`ReportWallet` is a balance report, `NoteHalt` a tick in breach, `HaltBeat` time.
The histories `over` and `reported` record that a stop has ended and what the wallet
has been reported at since the last one did; no action reads them, and `reported` is
what `StopOnlyForNewLoss` judges a new stop by, not `since`.
`HaltPeak` is the agent's peak, `DashboardPeak` the one `report_balance` uses.

### Abstractions of the live modules

* One account.  Its `symbols`, venue and mode do not change; paper trading is off.
* Settings and portfolio are loaded in one step of a task.
* Which signal fires, which stop is hit and how a buy is sized are choices; the
  time-based limits (cooldown, trades per hour, distance to earlier entries,
  one trade per candle) only ever remove a trade and are part of that choice; they
  are modelled in `EntryLimits`.
  The distance between two entries of the same tick is kept: at most one buy
  per tick.
* A fill is complete and has a price.  The USDC side of a swap is not tracked.
* The phone's clock and the server's agree on the deadline.
* Reading the wallet and posting it is one step (the loop does nothing else in
  between, but another phone might).
* The report handler is atomic; a report is not delayed past its phone's death.
  A report answered with an HTTP error, which the loop ignores, is `LoseLoop`.
* Two calls of claim for the same order by the same device count as one.
* The answer of a request follows its commit.  (Releases of FastAPI differ here
  and the version is not pinned; hazard `session.py:57`.)
* Approval, gas, quote, price guard and balance refusals are one `RefuseSwap`.
* A swap whose send call failed although the node accepted it is `Broadcast`
  followed by `ReceiptTimeout`.
* One kill-switch request at a time.

### Abstractions of SimulationAccount

* Every coin costs 1 and does not move; fees and slippage are 0.  So a drawdown
  can only come from something lost, stale or not priced.
* A coin is held or not: the agent never adds to a position, and every sell is
  of the whole quantity.
* Which coins a tick buys or sells and which stop is hit are choices; orders on
  different coins may come in any order.
* The user's balance floor and the daily loss limit are never reached.
* The account stays in simulation and its coin list does not change; no order
  row of an earlier live period blocks a close (hazard `sql_data_store.py:310`).
* A snapshot is stamped when it is committed.
* One reset request at a time; the switch and the kill switch are one step each.

### Abstractions of EntryLimits

* One simulation account, whose mode and coin list do not change; no order row of
  an earlier live period blocks a close.  Ticks take no time; jobs follow each
  other, which is what the row lock (`SimulationAccount`) is for.
* Trading costs nothing and every price loads; both are the concern of
  `SimulationAccount`.  Prices move for held coins only, from their cost.
* Signal, confidence, regime, supervisor and correlation gates only ever remove
  an entry and are the choice whether `Enter` is taken (no caller passes the
  correlation check its matrix).  How much risk and stop distance ask for is one
  of `Stakes`; the caps on it are computed.
* Where the ATR stop lies is a choice below the cost; the take-profit is computed.
* The clock ends before the seven days of `DRAWDOWN_HALT_COOLDOWN`, so the peak is
  the highest equity of all (the cooldown is in `SimulationAccount` and
  `DrawdownHalt`).
* Limits on the *latest* entry or trade are limits on all of them; the model keeps
  the sets.

### Abstractions of the smaller modules

* `PositionLedger`: handlers follow each other and each order is reported once
  (one phone); a sell is of no more than the row holds; a fill is added only where
  the average comes out even (`AverageIsWhole`), so that integers stand for the
  code's floats: at the prices of the run every average does, and the bound refuses
  nothing there.  The running expectancy is left out.
* `EquityAlerts`: one check at a time, no e-mail.  Equity 0 stands for "no snapshot
  yet" and for an empty wallet, which the check treats alike.
* `PhoneSession`: a call lasts at most a beat, which is much shorter than the life
  of an access token; the app polls, so an answer is never further than `MaxGap`
  beats away; a refusal by the rate limit or by a failing server is `LoseAnswer`.
  Login, logout and a changed signing key are left out.
* `RateLimit`: one address.  A request whose INCR fails is let through uncounted and
  changes nothing, so it is not an action.  The in-process fallback for a
  deployment without Redis is left out.
* `DrawdownHalt`: a live account; trading moves the equity, so any sequence of
  wallet values is possible.  The account stays live.

## 3. The runs

| Run | Deployment | Shows |
|---|---|---|
| `queue_solo` | 1 worker process, close-all, 3 rows | types; never two buys of a symbol on their way |
| `live_claims` | 2 phones, 1 row, 1 failure, kill switch | no second swap by a device; executed means mined; a missed order stays missed; refinement of `AtMostOnce` |
| `live_unattended` | 1 phone, 1 worker process, 3 rows, 1 failure, fairness | positions covered by the wallet until something fails; never two sells of a symbol on offer; sells are picked up; wallet coins come under a position |
| `sim_account` | 2 coins, 1 tick worker, 1 close-all thread, resets, 1 failure, fairness | no trade undone; nothing bought once AI is off; close-all gets its turn; a halt ends |
| `entries` | 2 coins, 5 beats, a floor, 1 failed job, fairness | limits across coins and ticks; no buy past a limit or right after a trade of the coin; sales put down to the right buy; a hard stop sells everything |
| `services` | five parts that share no state, one at a time | alerts real, complete, in order; the session survives; the rate window holds and ends; cash, profit and track record agree; a drawdown stop ends, only a loss from a value reported since starts another; the dashboard's peak is never below the agent's, and the same until a stop has ended |

`services` puts five small components in one run: a behaviour picks one `part` and
only that part moves.  They share no state, so interleaving them would multiply
the states and show nothing more.

Runs that end in a violation show where the code does not do what the
repository says of it ("findings" in `PROJECT.json` quotes both sides):

| Run | Scenario |
|---|---|
| `queue_prefork` | two worker processes, overlapping ticks: duplicate buy |
| `queue_claimed_sell` | the sweep sells again while the phone executes the first sell |
| `queue_ghost` | an unclaimed row stays pending for ever and blocks the sweep |
| `live_double` | two phones are granted the same order |
| `live_protective` | a protective sell is not fetched while AI trading is off |
| `sim_reset` | a reset during a tick keeps the old peak: a halt for a loss that never happened |

Three more disagreements have no run of their own: a reset during the very first
tick keeps that tick's balances (`CommitReset`; the comment at `settings.py:133`
says "not a top-up"); after a drawdown stop has ended the dashboard still measures
from the highest equity ever and the agent from a fresh peak (`PeaksAgree` asks
only that the dashboard's peak is not the lower one then; `dashboard.py:294` says
the two must match); and a failed EXPIRE leaves a counter without an end, so the
client is shut out for good (`LetInAgain` leaves it out; `rate_limit.py:59` says
"fail open").

`live_unattended` has no close-all because with one `OneSellOffered` fails for the
reason `queue_prefork` shows: a close-all and the worker do not see each other's
uncommitted rows.  What a close-all queues is what a breach flatten queues, and
that is in the run.  `OneBuyInFlight` holds beside any number of close-alls (they
stage no buy).

### Bounds

A row is never reused, so the number of `Orders` bounds how many orders a
behaviour queues: two are enough for any statement about two rows and three let
a finished row precede them.  One symbol is enough where the statement is about
the rows of one symbol (tasks treat symbols alike).
`MaxFailures` bounds crashes, lost answers and receipt timeouts together.
`BuySizes = {1}` and `Holdings = {0, 1}` suffice to tell nothing, a position and
too much apart.  `Expiring` names the rows whose deadline can pass first.
`aiEnabled` starts either way.  No run restricts the order of steps.

For `sim_account`, two starting amounts make a reset to less and to more; with
the smaller one a second buy is refused; one flaky and one steady coin tell an
unpriced holding from a priced one; one tick and one close-all are the two
writers the row lock is for.

For `entries`, two coins are what a limit across coins needs, and five beats hold
an hour, a cooldown, a candle and a midnight and leave a beat after each.  The
percentages are chosen so that two entries fill the exposure limit, the second
one being cut by it, one loss passes the daily limit only, and two pass floor and
drawdown as well; `Marks` has a loss that hits the stop and a gain that takes the
profit; one job may fail.

For `services`: four wallet values around the threshold give moves that are taken
back, an empty wallet and exact distances; four rows give a reference and three
alerts; two threads overlap refreshes and two calls end between them; three
requests race for a limit of three; five fills are a position bought twice, sold
in parts and opened again, or an adoption in between; the six wallet values hold
one loss, a second one after the stop and the floor.

Deadlock is checked in every run but `services`: a ledger that has reached its
bound on fills stops there.

### Fairness

`QueueFairSpec`: beat fires `check_live_exits` every 30 s (`StartSweep`, strong:
a worker is now and then busy with a tick) and every transaction ends.
`SimFairSpec`: beat brings the tick back every minute (`Request`), a waiting
transaction gets the row lock in the end although others come and go (`Lock`,
strong; Postgres queues waiters), a job goes on working, and seven days pass
(`CooldownEnds`).  A tick that fails for ever is excluded by `MaxFailures`.
`UnattendedSpec`: the foreground service is restarted by Android
(`START_STICKY`) and its loop catches every exception, so `LoopStep` is weakly
fair; a request is served (`AnswerClaim`); the chain settles a sent swap within
its deadline (`ChainStep`); tasks end.  Nothing is assumed of the user or of how
often failures occur, beyond `MaxFailures`.
`EntryFairSpec`: beat brings the tick and a job that has the lock goes on; neither
the switch nor the market has to do anything.  `AlertFairSpec`: beat brings the
check every two minutes (`CheckStep`, strong: the account may be in simulation at
one of them) and the phone's loop goes on.  `SessionFairSpec`: every thread goes
on calling.  `RateFairSpec`: a key with a time to live ends and a request that got
its INCR goes on to its EXPIRE.  `HaltFairSpec`: beat brings the tick, time passes.

## 4. The proofs

The theorems hold for every value of the constants under `HoldingsAssumption`,
`QueueAssumption`, `PhoneAssumption`, `SimulationAssumption`, `EntryAssumption`,
`SessionAssumption`, `RateAssumption`, `LedgerAssumption`, `HaltAssumption` and
`AlertAssumption`; TLC evaluates each of them in a run.  An account's `Coins` are a
finite set.  The only one that asks for more than that, types and signs is `SessionAssumption`: a refresh token outlives one
access token, the longest silence and one beat, once more for each failure.  The
code's 90 days against 12 hours leave room for well over a hundred of them, if the
app is not silent for longer than a few hours.

* `ExecutionQueueProofs!TypeCorrect`: `QueueTypeOK`.  It is inductive only with
  `StagedOwned`: a task's staged rows are exactly its own and still `staged`
  (otherwise an abort could remove the plan of a visible row).
* `ExecutionQueueProofs!SoloOneBuy`: with one Celery worker process
  (`Solo`), `OneBuyInFlight`.  The induction needs `BuysFromTicks`: only the
  transaction of a tick has staged buys and at most one, so with one worker any
  staged buy is the running tick's own; a close-all can run at the same time but
  never stages a buy.
* `ExecutionQueueProofs!AloneOneSell`: with one transaction at a time (`Alone`: one worker
  process, no close-all beside it), `OneSellOffered`.  Each of the two in-flight
  queries rules out a sell on offer; what it cannot see is a sell the same task
  has staged, and `StagedIsDone` says that the task is through with that symbol.
* `LiveTradingProofs!LiveTypeCorrect`, `OneSwapPerDevice` (`NoSecondSwap`),
  `RefinesAtMostOnce` (`ImplementsAtMostOnce`), all from one inductive invariant
  `LiveInv`.  `PhoneInv`: a working loop's order is a real row, taken once the
  claim was granted, not swapped by this device while it is `claiming` or
  `granted`, and no order that was ever swapped is still on offer.  `RaceInv`:
  claims in progress and the kill switch's victims concern real rows, and an
  answer that is still heard goes to the loop that asked.
* `OutcomeProofs!ExecutedIsMined` (`ExecutedMeansMined`): besides `LiveInv` it
  needs that a loop about to report success has seen its swap mined
  (`MinedInv`), and that a mined swap stays mined.  `MissedStaysMissed`
  (`MissedForGood`) is an action property and follows from `LiveInv` alone: a
  claim that can still be granted, or a loop that can still report, concerns an
  order that is not past its window and pending at once.
* `OutcomeProofs!BooksAreCovered` (`LedgerCovered`) assumes one phone
  (`OnePhone`); the switch may be used, and nothing is assumed of fairness.
  `CoverInv` carries it through a swap: between the block that moves the wallet
  and the report that moves the books, what is covered is the position as the
  report will leave it (`Filled`), and until something fails the loop that sent a
  swap is the one that waits for it.  Most steps are `Quiet`: they leave wallet,
  books, swaps and the plans of visible rows alone.
* `SimulationProofs!NothingLost` (`NoLostUpdate`) and `OffIsOff`
  (`OffMeansNoBuys`), from `SimInv`: exactly the job that has the lock is at work
  (`LockInv`); its `loaded` is the row, its dry-run flag is the switch, and a dry
  run holds no more of any coin than the row (`CopyInv`).  The step that needs
  care is a reset that finds nothing to write and so does not wait for the lock:
  `ResetInv` says that it then really changes nothing.
* `SimulationProofs!SimulationTypes` (`SimTypeOK`): cash and holdings of the row and
  of every job stay natural numbers.  The equity is a sum over the priced coins, and
  that the sum is a number at all takes `FoldLemmas`.
* `SessionProofs!SessionTypes` (`SessionTypeOK`) and `SessionNeverLoggedOut`
  (`NeverLoggedOut`), from `SessionInv`.  The hard case is a death between the two
  edits, which leaves a new access token beside an old refresh token that is then
  not replaced for another access token's life: `WholeInv` and `HalfInv` bound the
  age of the stored refresh token by one `Period` for each failure so far, and
  `InUseInv` says that a token in use is not much newer than the stored one, so an
  answer is proof that the store is fresh.
* `EntryProofs!EntriesAreSpaced` (`EntriesSpaced`), `HoursAreCapped` (`HourlyCap`),
  `NeverFlipFlops` (`NoFlipFlop`) and `NothingBoughtPastALimit`
  (`NoEntryPastALimit`), from `EntryInv`.  The limits are checked against what the
  job believes, the properties speak of what reached the balances: `BookInv` says
  that everything filled was decided and everything the job made is of now,
  `StateInv` and `CountInv` that the job's `PortfolioState` knows at least all of
  it, also after failed jobs; `SpacedInv` and `CooledInv` are the properties for
  trades still under way, `StopInv` that a job begun past a limit only sells.
* `EntryProofs!EntryTypes` (`EntryTypeOK`), `SalesAreCredited`
  (`CreditedToOpener`) and `EntriesKeepToLimits` (`WithinLimits`), from
  `PositionInv` on top of `EntryInv`.  The code finds the buy a sale is put down to
  by looking for the latest executed decision, among decisions whose balances may
  have been lost with a failed tick.  What makes that right is `OpenInv` (what is
  held has a filled buy that no decision of the coin is later than) together with
  `WorkInv`: a job buys only coins that were not held when it began and whose trades
  are all of an earlier beat, and it sells only coins that were, because what it has
  just bought is worth what it cost and no exit takes it.  `PutDownInv` counts: a buy
  has no more sales put down to it than failed jobs while its position is open, one
  more once it is closed.  `SizeInv` is `WithinLimits` for the job's own copy of the
  balances; an entry adds its size to the exposure and a sale never raises it
  (`SumUpdate` and `SumMonotone`).
* `ServiceProofs!WindowsAreCapped` (`WindowCapped`): nobody is admitted without
  having been counted.
* `ServiceProofs!StopsForNewLosses` (`StopOnlyForNewLoss`) and `SamePeak`
  (`PeaksAgree`), from `HaltInv`: the peak since the last stop is that of a report
  made after it (`reported`), is at most the highest ever, and before a first stop
  has ended is the highest ever.
* `ServiceProofs!OnePositionIsOpen` (`OneOpenPosition`), from `LedgerInv`;
  `ProfitsAreCash` (`ProfitIsCash`), from `BooksInv`: at every moment the cash of a
  row is its realized profit less what is still invested in it, `entry * quantity`,
  which a buy keeps because the average times the new quantity is what has been
  spent; a closed row has nothing invested.  `RecordsMatch` (`RecordMatchesHistory`),
  from `RecordInv`: the rows a strategy is judged by (`Mine`) change by the fill that
  closes a row and by nothing else, and no credit names a row that is still open, so
  the one written then is new.
* `ServiceProofs!AlertsAreMoves` (`OnlyRealMoves`), `AlertsShowOnce` (`ShownOnce`) and
  `AlertsShowInOrder` (`ShownInOrder`), from `AlertInv`: the row under way differs
  enough from the last one committed (`MoveInv`), what was fetched is still
  undelivered (`FetchInv`), each repeated show is paid for by a failure
  (`CountedInv`), and whatever is older than a fetched row and not fetched has been
  shown (`OrderInv`).

`FoldLemmas` has what these proofs need of `Max`, `Min` and `SumFunctionOnSet` of the
community modules: that the greatest element exists and is one, how a sum changes
with one element, that it is monotone and a natural number.  They are inductions
over finite sets, done without an induction rule: of all subsets that disagree take
a minimal one (`MinimalSet`, from the well-foundedness of strict inclusion) and
remove an element.  That the definition by `CHOOSE` behind the fold satisfies its own
equation (`SumByFirst`) is proved in the same way.

TLC checks the same invariants (`QueueInv`, `BuyInv`, `SellInv`, `LiveInv`,
`MinedInv`, `CoverInv`, `SimInv`, `SessionInv`, `EntryInv`, `PositionInv`, `HaltInv`,
`BooksInv`, `RecordInv`, `AlertInv`) on the small instances before they are proved.

Not proved, only model-checked: the liveness properties (the prover does not do
liveness under fairness).  Every safety property of a passing run is a theorem.
`OneSellOffered` and `OneBuyInFlight` are theorems of one worker process only:
`queue_prefork` and `queue_claimed_sell` show what more processes and claimed sells
do.

## 5. Plan

Done: the live order queue, the phone and the claim protocol; the simulation
account around its lock and over time; positions and strategy feedback; alerts,
session, rate limit and the drawdown stop.  Left, in order of importance:

1. The mode switch between live and simulation: rows left over in the queue, with
   `has_pending_order` and the phone's fetch that do not look at the mode.
2. Overlapping reports on one position and on one strategies row (two phones).
3. The venue with exchange credentials (`processPending`), fees and slippage of
   the paper exchange.
4. Proofs: `LedgerCovered` with `AdoptHoldings` racing a report of a second phone,
   once the model has one.

## 6. Not modelled

Price data, candles, indicators and strategy formulas: floating-point arithmetic
without state, whose results are choices of the model.  Market portfolios: one
check-then-insert request; the race it has is listed as a hazard and nothing in
the code excludes it.  Cryptography, key storage and biometrics; screens and
formatting; backtest and replay tools, which share no state with trading; start-up
and configuration parsing.
