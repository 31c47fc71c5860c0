------------------------------ MODULE EntryLimits ------------------------------
(***************************************************************************)
(* When the agent may open a position: one simulation account, its limits   *)
(* on size, exposure and frequency, and its account-wide stops, over time.  *)
(* A tick loads a PortfolioState once, looks at coin after coin, keeps what *)
(* it has just done in that state, applies the exits, and commits; the row  *)
(* lock (SimulationAccount) makes jobs of the account follow each other.    *)
(* Time is counted in beats of the tick, money in integers.                 *)
(***************************************************************************)
EXTENDS Integers, FiniteSetsExt

CONSTANTS
  Coins,             \* coins of the account
  Start,             \* paper_starting_balance
  Floors,            \* values of min_balance_floor; 0: not set
  Stakes,            \* what risk and stop distance ask for, in percent of equity
  Marks,             \* market value of a held coin, in percent of its cost
  MaxTradeRisk, MaxPositionSize, MaxExposure,   \* AgentConfig, in percent
  MaxDailyLoss, MaxDrawdown,                    \* AgentConfig, in percent
  MaxOpenPositions, MaxTradesPerHour,           \* AgentConfig
  Hour, Day, Candle, Cooldown, MinGap,          \* intervals, in beats
  TakeProfit,        \* max_balance_target: net profit that closes a position
  MaxTime,           \* bound on the clock
  MaxFailures        \* bound on failed jobs

ASSUME EntryAssumption ==
  /\ IsFiniteSet(Coins)
  /\ Start \in Nat \ {0} /\ Floors \subseteq Nat /\ Stakes \subseteq Nat /\ Marks \subseteq Nat
  /\ {MaxTradeRisk, MaxPositionSize, MaxExposure, MaxDailyLoss, MaxDrawdown} \subseteq 1..100
  /\ {MaxOpenPositions, MaxTradesPerHour, Hour, Day, Candle, Cooldown, MinGap} \subseteq Nat \ {0}
  /\ TakeProfit \in Nat \ {0} /\ MaxTime \in Nat /\ MaxFailures \in Nat

VARIABLES
  now,        \* the clock
  floor,      \* min_balance_floor
  aiEnabled,  \* ai_enabled
  cash, cost, \* paper_balances and paper_positions: USDC, and what was paid for each coin
  decided,    \* executed AIDecision rows
  credits,    \* closed_trade_sim events: which buy a sale was put down to
  filled,     \* history: the trades that reached the balances
  snap,       \* portfolio_snapshots: latest and highest equity, and where the day began
  job,        \* the job that holds the row lock
  failures

bookVars  == <<cash, cost, decided, credits, filled, snap>>
entryVars == <<now, floor, aiEnabled, bookVars, job, failures>>

Trade == [at : 0..MaxTime, coin : Coins, side : {"buy", "sell"}]

Credit == [coin : Coins, opened : Int, at : 0..MaxTime]

Snapshots == [equity : Int, peak : Int, dayStart : Int]

\* PortfolioState, and the job's own balances, decisions (made) and trades (done).
\* last_entry_time and last_signal_time_by_symbol are kept as the sets they are the
\* latest of: a limit on the latest is one on all of them, None is the empty set.
Jobs == [pc : {"none", "symbols", "pause", "flatten", "closeall", "persist", "answer"},
         dry : BOOLEAN, mark : [Coins -> Marks \cup {100}], todo : SUBSET Coins,
         trades : Nat, entries : SUBSET (0..MaxTime), signals : [Coins -> SUBSET (0..MaxTime)],
         cash : Int, cost : [Coins -> Nat], made : SUBSET Trade, done : SUBSET Trade,
         credits : SUBSET Credit]

NoMarks == [c \in Coins |-> 100]

NoJob == [pc |-> "none", dry |-> FALSE, mark |-> NoMarks, todo |-> {}, trades |-> 0,
          entries |-> {}, signals |-> [c \in Coins |-> {}],
          cash |-> 0, cost |-> [c \in Coins |-> 0], made |-> {}, done |-> {}, credits |-> {}]

EntryTypeOK ==
  /\ now \in 0..MaxTime /\ floor \in Floors /\ aiEnabled \in BOOLEAN
  /\ cash \in Nat /\ cost \in [Coins -> Nat]
  /\ decided \subseteq Trade /\ filled \subseteq Trade /\ credits \subseteq Credit
  /\ snap \in Snapshots /\ job \in Jobs /\ failures \in 0..MaxFailures

EntryInit ==
  /\ now = 0 /\ floor \in Floors /\ aiEnabled \in BOOLEAN
  /\ cash = Start /\ cost = [c \in Coins |-> 0]
  /\ decided = {} /\ filled = {} /\ credits = {}
  /\ snap = [equity |-> Start, peak |-> Start, dayStart |-> Start]
  /\ job = NoJob /\ failures = 0

-----------------------------------------------------------------------------
(* Account-wide limits: check_account_wide_limits, at the latest snapshot *)

FloorReached == floor > 0 /\ snap.equity <= floor

DrawdownReached ==
  snap.peak > 0 /\ 100 * (snap.peak - snap.equity) >= MaxDrawdown * snap.peak

DailyLossReached ==
  snap.dayStart > 0 /\ 100 * (snap.dayStart - snap.equity) >= MaxDailyLoss * snap.dayStart

\* Variant: the milder limit is looked at first and hides the hard stops.
DailyLossFirst == ~DailyLossReached /\ (FloorReached \/ DrawdownReached)

\* should_flatten
MustFlatten == FloorReached \/ DrawdownReached

\* Variant: daily_pnl keeps its default of 0.
PnlForgotten == 0 >= MaxDailyLoss * snap.dayStart

\* max_daily_loss only pauses.
MustPause == DailyLossReached

-----------------------------------------------------------------------------
(* get_portfolio_state *)

\* Variant: the history is never counted, the field keeps its default.
NeverCounted(E) == 0

\* trades_this_hour
TradesThisHour(E) == Cardinality({d \in E : d.at >= now - Hour})

Times(E) == {d.at : d \in E}

Buys(E) == {d \in E : d.side = "buy"}

Held(costs) == {c \in Coins : costs[c] > 0}

\* The job has the row lock: prices, balances and history are loaded.
Load(pc, mark, todo) ==
  job' = [pc |-> pc, dry |-> ~aiEnabled, mark |-> mark, todo |-> todo,
          trades |-> TradesThisHour(decided),
          entries |-> Times(Buys(decided)),
          signals |-> [c \in Coins |-> Times({d \in decided : d.coin = c})],
          cash |-> cash, cost |-> cost, made |-> {}, done |-> {}, credits |-> {}]

\* Prices move only for what is held; the others cost what they cost.
Prices == [Coins -> Marks \cup {100}]

PricesNow == {f \in Prices : \A c \in Coins : cost[c] = 0 => f[c] = 100}

\* run_agent_tick for the account.
BeginTick ==
  /\ job.pc = "none"
  /\ \E mark \in PricesNow :
       Load(IF MustFlatten THEN "flatten" ELSE IF MustPause THEN "pause" ELSE "symbols",
            mark, Coins)
  /\ UNCHANGED <<now, floor, aiEnabled, bookVars, failures>>

\* close_all_positions_for_account
BeginCloseAll ==
  /\ job.pc = "none" /\ Held(cost) # {}
  /\ \E mark \in PricesNow : Load("closeall", mark, {})
  /\ UNCHANGED <<now, floor, aiEnabled, bookVars, failures>>

-----------------------------------------------------------------------------
(* check_trade_against_limits, calculate_position_size *)

Exposure(costs) == SumFunctionOnSet(costs, Coins)

\* proposed_notional: ten times the risk budget.
Proposed == 10 * MaxTradeRisk

\* When the last candle that is closed at t closed.
CandleClose(t) == (t \div Candle) * Candle

\* one_trade_per_candle
NewCandle(c) == \A t \in job.signals[c] : t < CandleClose(now)

\* cooldown_seconds, max_trades_per_hour, min_time_between_entries_seconds
TimeAllows(c) ==
  /\ \A t \in job.signals[c] : now - t >= Cooldown
  /\ job.trades < MaxTradesPerHour
  /\ \A t \in job.entries : now - t >= MinGap

\* max_open_positions, max_position_size, max_portfolio_exposure
RoomFor(c) ==
  /\ job.cost[c] = 0
  /\ Cardinality(Held(job.cost)) < MaxOpenPositions
  /\ Proposed <= MaxPositionSize
  /\ 100 * Exposure(job.cost) + Proposed * snap.equity <= MaxExposure * snap.equity

\* Variant: the room left under the exposure limit is not looked at.
PositionCapOnly(stake) ==
  Min({stake * snap.equity, MaxPositionSize * snap.equity}) \div 100

\* The notional calculate_position_size allows: the stake, capped per position
\* and by the room left under the exposure limit.
SizeFor(stake) ==
  Min({stake * snap.equity, MaxPositionSize * snap.equity,
       Max({0, MaxExposure * snap.equity - 100 * Exposure(job.cost)})}) \div 100

-----------------------------------------------------------------------------
(* _process_symbol *)

\* Variant: a decision is stamped with the end of its cooldown.
TradedUntil(S, side) == {[at |-> now + Cooldown, coin |-> c, side |-> side] : c \in S}

Traded(S, side) == {[at |-> now, coin |-> c, side |-> side] : c \in S}

\* Variant: what this tick has bought is not kept in its PortfolioState.
Unreserved(c) == [trades |-> job.trades, entries |-> job.entries, signals |-> job.signals]

\* _reserve_entry_in_state
Reserved(c) == [trades |-> job.trades + 1, entries |-> job.entries \cup {now},
                signals |-> [job.signals EXCEPT ![c] = @ \cup {now}]]

\* A LONG that passes every limit; the paper exchange refuses what cash does not
\* cover.
Enter(c, stake) ==
  LET size == SizeFor(stake)
  IN  /\ job.pc = "symbols" /\ ~job.dry
      /\ c \in job.todo /\ NewCandle(c) /\ RoomFor(c) /\ TimeAllows(c)
      /\ size \in Nat \ {0} /\ size <= job.cash
      /\ job' = [job EXCEPT !.todo = @ \ {c},
                            !.trades = Reserved(c).trades,
                            !.entries = Reserved(c).entries,
                            !.signals = Reserved(c).signals,
                            !.cash = @ - size, !.cost = [@ EXCEPT ![c] = size],
                            !.made = @ \cup Traded({c}, "buy"),
                            !.done = @ \cup Traded({c}, "buy")]
      /\ UNCHANGED <<now, floor, aiEnabled, bookVars, failures>>

Worth(c) == (job.cost[c] * job.mark[c]) \div 100

Worths == [c \in Coins |-> Worth(c)]

BuyTimes(c) == Times({d \in Buys(decided \cup job.made) : d.coin = c})

\* Variant: the first executed BUY decision of the coin.
FirstBuy(c) == Min(BuyTimes(c))

\* record_realized_trade: the latest executed BUY decision of the coin.
Opener(c) == Max(BuyTimes(c))

\* The job with everything in S sold; the decisions are marked executed.
Sold(S) ==
  [job EXCEPT !.cash = @ + SumFunctionOnSet(Worths, S),
              !.cost = [c \in Coins |-> IF c \in S THEN 0 ELSE @[c]],
              !.todo = @ \ S,
              !.signals = [c \in Coins |-> IF c \in S THEN @[c] \cup {now} ELSE @[c]],
              !.made = @ \cup Traded(S, "sell"),
              !.done = @ \cup Traded(S, "sell"),
              !.credits = @ \cup {[coin |-> c, opened |-> Opener(c), at |-> now] : c \in S}]

\* A SHORT on a held coin: _close_position and _release_position_in_state.
CloseOnSignal(c) ==
  /\ job.pc = "symbols" /\ ~job.dry
  /\ c \in job.todo \cap Held(job.cost) /\ NewCandle(c)
  /\ job' = Sold({c})
  /\ UNCHANGED <<now, floor, aiEnabled, bookVars, failures>>

\* flatten_all_positions with ignore_dry_run; it leaves nothing for the exits.
Flatten ==
  /\ job.pc \in {"flatten", "closeall"}
  /\ job' = [Sold(Held(job.cost)) EXCEPT !.pc = IF @ = "flatten" THEN "persist" ELSE "answer"]
  /\ UNCHANGED <<now, floor, aiEnabled, bookVars, failures>>

\* evaluate_exit: at the take-profit a coin is sold, below its cost the stop may be hit.
TargetReached(c) == Worth(c) - job.cost[c] >= TakeProfit
StopReachable(c) == Worth(c) < job.cost[c]

\* Variant: an exit leaves no executed decision behind.
ExitUnlogged(S) == [Sold(S) EXCEPT !.made = job.made]

ExitSold(S) == Sold(S)

\* _apply_simulated_exits
ApplyExits ==
  /\ job.pc \in {"symbols", "pause"}
  /\ \E S \in SUBSET Held(job.cost) :
       /\ {c \in Held(job.cost) : TargetReached(c)} \subseteq S
       /\ \A c \in S : TargetReached(c) \/ StopReachable(c)
       /\ job' = [ExitSold(S) EXCEPT !.pc = "persist"]
  /\ UNCHANGED <<now, floor, aiEnabled, bookVars, failures>>

-----------------------------------------------------------------------------
(* The end of a job *)

Equity == job.cash + SumFunctionOnSet(Worths, Coins)

\* _persist_paper_state and the commit.
Commit ==
  /\ job.pc \in {"persist", "answer"}
  /\ cash' = job.cash /\ cost' = job.cost
  /\ decided' = decided \cup job.made
  /\ credits' = credits \cup job.credits
  /\ filled' = filled \cup job.done
  /\ snap' = [snap EXCEPT !.equity = Equity, !.peak = Max({@, Equity})]
  /\ job' = NoJob
  /\ UNCHANGED <<now, floor, aiEnabled, failures>>

Fail ==
  /\ job.pc # "none" /\ failures < MaxFailures
  /\ failures' = failures + 1
  /\ job' = NoJob
  /\ UNCHANGED <<now, floor, aiEnabled, cash, cost, filled, snap>>

\* The commit fails or the process dies.
Abort == Fail /\ UNCHANGED <<decided, credits>>

\* The exception handler of run_agent_tick: the decisions are committed, the
\* balances are not.
TickFails ==
  /\ job.pc \in {"symbols", "pause", "flatten", "persist"}
  /\ Fail
  /\ decided' = decided \cup job.made /\ credits' = credits \cup job.credits

\* The AI switch waits for the row lock.
SetAi(on) ==
  /\ job.pc = "none" /\ aiEnabled # on
  /\ aiEnabled' = on
  /\ UNCHANGED <<now, floor, bookVars, job, failures>>

\* At midnight the last snapshot becomes the one the day is measured from.
NewDay(t) ==
  IF t \div Day > now \div Day THEN [snap EXCEPT !.dayStart = snap.equity] ELSE snap

\* Time passes between jobs.
Pass ==
  /\ job.pc = "none" /\ now < MaxTime
  /\ now' = now + 1
  /\ snap' = NewDay(now + 1)
  /\ UNCHANGED <<floor, aiEnabled, cash, cost, decided, credits, filled, job, failures>>

JobStep ==
  \/ \E c \in Coins, stake \in Stakes : Enter(c, stake)
  \/ \E c \in Coins : CloseOnSignal(c)
  \/ Flatten \/ ApplyExits \/ Commit

EntryNext ==
  \/ BeginTick \/ BeginCloseAll \/ JobStep \/ Abort \/ TickFails
  \/ \E on \in BOOLEAN : SetAi(on)
  \/ Pass

EntrySpec == EntryInit /\ [][EntryNext]_entryVars

\* Beat brings the tick back and a job that has the lock goes on.
EntryFairSpec == EntrySpec /\ WF_entryVars(BeginTick) /\ WF_entryVars(JobStep)

-----------------------------------------------------------------------------
(* Properties *)

\* No hour sees more entries than max_trades_per_hour, whatever failed in
\* between: failed jobs may only make the agent count too many.
HourlyCap ==
  \A b \in Buys(filled) :
    Cardinality({d \in Buys(filled) : d.at \in (b.at - Hour)..b.at}) <= MaxTradesPerHour

\* Two entries, of whatever coins and ticks, are min_time_between_entries apart;
\* within one tick that rests on what the tick keeps in its PortfolioState.
EntriesSpaced ==
  \A a, b \in Buys(filled) : a # b => a.at - b.at >= MinGap \/ b.at - a.at >= MinGap

\* A coin is not bought again within the cooldown of its last trade nor on the
\* candle of it, whether a signal, a stop, a take-profit or a close-all made that
\* trade (the exits once left no decision and the coin was bought right back).
NoFlipFlop ==
  [][\A b \in Buys(filled') \ filled, d \in filled :
       d.coin = b.coin => b.at - d.at >= Cooldown /\ d.at < CandleClose(b.at)]_entryVars

\* A sale is put down to the buy that opened the position, although it is looked up
\* among the decisions and those of a failed tick are kept; and to no buy more than
\* once, unless a failed tick undid the sale and kept the record of it.
CreditedToOpener ==
  \A k \in credits :
    LET ofCoin == {b.at : b \in {x \in Buys(filled) : x.coin = k.coin}}
    IN  /\ k.opened \in ofCoin
        /\ \A t \in ofCoin : t <= k.opened \/ t > k.at
        /\ Cardinality({j \in credits : j.coin = k.coin /\ j.opened = k.opened}) <= 1 + failures

\* An entry leaves every position and the sum of all within their share of the
\* equity the agent knew, and no more positions than allowed.
WithinLimits ==
  [][\A c \in Coins : cost'[c] > cost[c] =>
       /\ 100 * cost'[c] <= MaxPositionSize * snap.equity
       /\ 100 * Exposure(cost') <= MaxExposure * snap.equity
       /\ Cardinality(Held(cost')) <= MaxOpenPositions]_entryVars

\* Past the floor, the drawdown or the daily loss nothing is bought.
NoEntryPastALimit ==
  [][FloorReached \/ DrawdownReached \/ DailyLossReached
       => \A c \in Coins : cost'[c] <= cost[c]]_entryVars

\* Past the floor or the drawdown everything held is sold in the end, with AI
\* trading on or off, also when the daily loss limit is passed as well and when a
\* job in between fails.
HardStopFlattens == FloorReached \/ DrawdownReached ~> Held(cost) = {}
=============================================================================
