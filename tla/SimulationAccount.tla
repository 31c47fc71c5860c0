--------------------------- MODULE SimulationAccount ---------------------------
(***************************************************************************)
(* One simulation account: its settings row (running balances, cost basis,  *)
(* AI switch), its equity snapshots and its drawdown halt.  The agent tick  *)
(* and a close-all hold a row lock from loading the balances to writing     *)
(* them back; a reset reads the row without it and only its UPDATE waits.   *)
(* Prices do not move and trading costs nothing, so equity is what was put  *)
(* in, unless something is lost, stale or not priced.                       *)
(***************************************************************************)
EXTENDS Integers, FiniteSetsExt

CONSTANTS
  Coins,           \* coins of the account
  TickWorkers,     \* Celery worker processes running run_agent_tick
  CloseThreads,    \* request threads serving a close-all
  Amounts,         \* starting balances the user may choose
  Sizes,           \* quantities position sizing can return
  Flaky,           \* coins whose price may fail to load
  MaxFailures,     \* bound on failed jobs
  NoBalances,      \* paper_balances = {}
  NoOne            \* the row is not locked

ASSUME SimulationAssumption ==
  /\ IsFiniteSet(Coins)
  /\ Amounts \subseteq Nat \ {0}
  /\ Sizes \subseteq Nat \ {0}
  /\ MaxFailures \in Nat
  /\ Flaky \subseteq Coins
  /\ TickWorkers \cap CloseThreads = {}
  /\ NoOne \notin TickWorkers \cup CloseThreads

Workers  == TickWorkers \cup CloseThreads
Balances == [cash : Nat, held : [Coins -> Nat]]
Equities == [all : Nat, since : Nat, latest : Nat]

VARIABLES
  start,        \* paper_starting_balance
  balances,     \* paper_balances
  basis,        \* coins with an entry in paper_positions
  aiEnabled,    \* ai_enabled
  lock,         \* who holds the settings row FOR UPDATE
  work,         \* what each worker does, and its PaperExchange
  snapshots,    \* highest equity recorded, highest since the last halt ended, latest
  halted,       \* a drawdown halt is in its cooldown
  reset,        \* the settings request that resets the simulation
  failures      \* how many jobs have failed

rowVars == <<start, balances, basis, aiEnabled>>
simVars == <<rowVars, lock, work, snapshots, halted, reset, failures>>

Work == [pc : {"idle", "waiting", "tick", "flatten", "exits"},
         loaded : Balances, cash : Nat, held : [Coins -> Nat], basis : SUBSET Coins,
         priced : SUBSET Coins, todo : SUBSET Coins, dry : BOOLEAN, breach : BOOLEAN]

Nothing == [cash |-> 0, held |-> [c \in Coins |-> 0]]

Idle == [pc |-> "idle", loaded |-> Nothing, cash |-> 0, held |-> Nothing.held, basis |-> {},
         priced |-> {}, todo |-> {}, dry |-> FALSE, breach |-> FALSE]

NoEquity == [all |-> 0, since |-> 0, latest |-> 0]

NoReset == [open |-> FALSE, start |-> 0, balances |-> FALSE, basis |-> FALSE,
            waits |-> FALSE, raced |-> FALSE, later |-> NoEquity]

SimTypeOK ==
  /\ start \in Nat /\ balances \in Balances \cup {NoBalances} /\ basis \in SUBSET Coins
  /\ aiEnabled \in BOOLEAN /\ halted \in BOOLEAN
  /\ lock \in Workers \cup {NoOne}
  /\ work \in [Workers -> Work]
  /\ snapshots \in Equities
  /\ failures \in Nat
  /\ reset \in [open : BOOLEAN, start : Nat, balances : BOOLEAN, basis : BOOLEAN,
                waits : BOOLEAN, raced : BOOLEAN, later : Equities]

\* A portfolio as the settings request or ensure_portfolios leaves it.
SimInit ==
  /\ start \in Amounts
  /\ balances = NoBalances /\ basis = {}
  /\ aiEnabled \in BOOLEAN
  /\ lock = NoOne
  /\ work = [w \in Workers |-> Idle]
  /\ snapshots = [all |-> start, since |-> start, latest |-> start]
  /\ halted = FALSE
  /\ reset = NoReset
  /\ failures = 0

-----------------------------------------------------------------------------
Higher(a, b) == IF a > b THEN a ELSE b

\* What a PaperExchange is seeded with.
Seed == IF balances = NoBalances THEN [cash |-> start, held |-> Nothing.held] ELSE balances

\* drawdown_peak_equity: during a halt every snapshot counts, also those from
\* before an earlier halt ended.
Peak == Higher(IF halted THEN snapshots.all ELSE snapshots.since, snapshots.latest)

\* check_account_wide_limits: 10 % below the peak, at the last recorded equity.
Breach == Peak > 0 /\ 10 * (Peak - snapshots.latest) >= Peak

\* What _save_paper_snapshot records: a coin without a price counts for nothing.
Equity(k) == k.cash + SumFunctionOnSet(k.held, k.priced)

Record(s, e) == [all |-> Higher(s.all, e), since |-> Higher(s.since, e), latest |-> e]

\* A worker takes up its job: it has read the row, but not yet locked it.
Request(w) ==
  /\ work[w].pc = "idle"
  /\ work' = [work EXCEPT ![w].pc = "waiting"]
  /\ UNCHANGED <<rowVars, lock, snapshots, halted, reset, failures>>

\* Load the row, the prices and the snapshots.
Load(w, priced) ==
  work' = [work EXCEPT ![w] =
    [pc |-> IF w \in CloseThreads \/ Breach THEN "flatten" ELSE "tick",
     loaded |-> Seed, cash |-> Seed.cash, held |-> Seed.held, basis |-> basis,
     priced |-> priced, todo |-> Coins, dry |-> ~aiEnabled,
     breach |-> w \in TickWorkers /\ Breach]]

\* Variant: the row is read without SELECT ... FOR UPDATE.
ReadUnlocked(w) ==
  /\ work[w].pc = "waiting"
  /\ \E F \in SUBSET Flaky : Load(w, Coins \ F)
  /\ UNCHANGED <<rowVars, lock, snapshots, halted, reset, failures>>

\* _lock_simulation_settings: wait for the lock, then read the row afresh; a
\* transaction that has the lock gets it again.
Lock(w) ==
  /\ work[w].pc = "waiting"
  /\ lock \in {NoOne, w}
  /\ lock' = w
  /\ \E F \in SUBSET Flaky : Load(w, Coins \ F)
  /\ UNCHANGED <<rowVars, snapshots, halted, reset, failures>>

\* Variant: any buy is filled.
AffordableAlways(k, q) == TRUE

\* create_order refuses a buy that the cash does not cover.
Affordable(k, q) == q <= k.cash

\* PaperExchange.create_order, buy, and what the tick may still do after it.
Bought(k, c, q) ==
  [k EXCEPT !.cash = k.cash - q, !.held = [k.held EXCEPT ![c] = k.held[c] + q],
            !.basis = k.basis \cup {c},
            !.todo = {x \in k.todo \ {c} : k.held[x] > 0}]

\* PaperExchange.create_order, sell: what is held of c; the basis goes with it.
SoldOut(k, c) ==
  [k EXCEPT !.cash = k.cash + k.held[c], !.held = [k.held EXCEPT ![c] = 0],
            !.basis = k.basis \ {c}, !.todo = k.todo \ {c}]

InHand(w) == work[w].pc \in {"tick", "flatten", "exits"}

Trade(w, k) ==
  /\ work' = [work EXCEPT ![w] = k]
  /\ UNCHANGED <<rowVars, lock, snapshots, halted, reset, failures>>

\* A LONG on a coin that is not held.  No other coin may enter after it in this
\* tick (min_time_between_entries).
TickBuy(w, c, q) ==
  LET k == work[w]
  IN  /\ k.pc = "tick" /\ ~k.dry
      /\ c \in k.todo \cap k.priced /\ k.held[c] = 0
      /\ Affordable(k, q)
      /\ Trade(w, Bought(k, c, q))

\* A SHORT on a held coin.
TickSell(w, c) ==
  LET k == work[w]
  IN  /\ k.pc = "tick" /\ ~k.dry
      /\ c \in k.todo \cap k.priced /\ k.held[c] > 0
      /\ Trade(w, SoldOut(k, c))

\* flatten_all_positions: a coin without a price cannot be sold.
FlattenSell(w, c) ==
  LET k == work[w]
  IN  /\ k.pc = "flatten"
      /\ c \in k.todo \cap k.priced /\ k.held[c] > 0
      /\ Trade(w, SoldOut(k, c))

\* _apply_simulated_exits, with AI on or off: a stop or the take-profit of a coin
\* with a price and a cost basis.
ExitSell(w, c) ==
  LET k == work[w]
  IN  /\ k.pc = "exits"
      /\ c \in k.todo \cap k.priced \cap k.basis /\ k.held[c] > 0
      /\ Trade(w, SoldOut(k, c))

Flattened(k) == \A c \in k.todo \cap k.priced : k.held[c] = 0

\* run_tick is over, the exits follow.
StartExits(w) ==
  LET k == work[w]
  IN  /\ w \in TickWorkers
      /\ k.pc = "tick" \/ (k.pc = "flatten" /\ Flattened(k))
      /\ Trade(w, [k EXCEPT !.pc = "exits", !.todo = Coins])

Finished(w) ==
  \/ work[w].pc = "exits"
  \/ w \in CloseThreads /\ work[w].pc = "flatten" /\ Flattened(work[w])

\* _persist_paper_state and the commit.
Persist(w) ==
  LET k == work[w]
      e == Equity(k)
  IN  /\ Finished(w)
      /\ balances' = [cash |-> k.cash, held |-> k.held]
      /\ basis' = k.basis
      /\ snapshots' = Record(snapshots, e)
      /\ reset' = IF reset.open THEN [reset EXCEPT !.raced = TRUE, !.later = Record(@, e)] ELSE reset
      /\ halted' = (halted \/ k.breach)
      /\ work' = [work EXCEPT ![w] = Idle]
      /\ UNCHANGED <<start, aiEnabled, failures>>

\* Variant: one commit for the whole beat run, the lock stays.
PersistHolding(w) == Persist(w) /\ UNCHANGED lock

Commit(w) == Persist(w) /\ lock' = (IF lock = w THEN NoOne ELSE lock)

\* The job ends without its balances.
GiveUp(w) ==
  /\ failures < MaxFailures
  /\ failures' = failures + 1
  /\ work' = [work EXCEPT ![w] = Idle]
  /\ lock' = IF lock = w THEN NoOne ELSE lock
  /\ UNCHANGED <<rowVars, snapshots, reset>>

\* The commit fails or the process dies.
Abort(w) ==
  /\ work[w].pc # "idle"
  /\ GiveUp(w)
  /\ UNCHANGED halted

\* An exception in the tick or the exits: what was recorded so far, the start of
\* a halt among it, is committed, the balances are not written back.
TickFails(w) ==
  /\ w \in TickWorkers /\ InHand(w)
  /\ GiveUp(w)
  /\ halted' = (halted \/ work[w].breach)

-----------------------------------------------------------------------------
(* The user's settings requests *)

\* Variant: the switch does not wait for the row.
SetAiAnytime(on) ==
  /\ aiEnabled' = on
  /\ UNCHANGED <<start, balances, basis, lock, work, snapshots, halted, reset, failures>>

\* The AI switch or the kill switch: its UPDATE waits for the row lock.
SetAi(on) ==
  /\ lock = NoOne
  /\ aiEnabled' = on
  /\ UNCHANGED <<start, balances, basis, lock, work, snapshots, halted, reset, failures>>

\* update_settings with a new starting balance: the row is read and the old
\* snapshots are deleted; only columns that differ from what was read will be
\* written, and without any there is no UPDATE to wait.
BeginReset(a) ==
  /\ ~reset.open
  /\ reset' = [open |-> TRUE, start |-> a, balances |-> balances # NoBalances,
               basis |-> basis # {}, raced |-> FALSE, later |-> NoEquity,
               waits |-> start # a \/ balances # NoBalances \/ basis # {}]
  /\ UNCHANGED <<rowVars, lock, work, snapshots, halted, failures>>

\* Its commit.  A snapshot committed after the delete is still there.
CommitReset ==
  /\ reset.open
  /\ reset.waits => lock = NoOne
  /\ start' = reset.start
  /\ balances' = IF reset.balances THEN NoBalances ELSE balances
  /\ basis' = IF reset.basis THEN {} ELSE basis
  /\ snapshots' = [Record(reset.later, reset.start) EXCEPT
                     !.latest = IF reset.raced THEN reset.later.latest ELSE @]
  /\ reset' = NoReset
  /\ UNCHANGED <<aiEnabled, lock, work, halted, failures>>

\* Variant: the peak stays when the cooldown ends.
CooldownForgotten ==
  /\ halted
  /\ halted' = FALSE
  /\ UNCHANGED <<rowVars, lock, work, snapshots, reset, failures>>

\* DRAWDOWN_HALT_COOLDOWN has passed: the peak is taken of later snapshots only.
CooldownEnds ==
  /\ halted
  /\ halted' = FALSE
  /\ snapshots' = [snapshots EXCEPT !.since = 0]
  /\ UNCHANGED <<rowVars, lock, work, reset, failures>>

-----------------------------------------------------------------------------
WorkStep(w) ==
  \/ \E c \in Coins : TickSell(w, c) \/ FlattenSell(w, c) \/ ExitSell(w, c)
  \/ \E c \in Coins, q \in Sizes : TickBuy(w, c, q)
  \/ StartExits(w) \/ Commit(w)

SimNext ==
  \/ \E w \in Workers : Request(w) \/ Lock(w) \/ WorkStep(w) \/ Abort(w) \/ TickFails(w)
  \/ \E on \in BOOLEAN : SetAi(on)
  \/ \E a \in Amounts : BeginReset(a)
  \/ CommitReset \/ CooldownEnds

SimSpec == SimInit /\ [][SimNext]_simVars

\* Beat fires the tick every minute, transactions end, the row lock is granted
\* to who keeps waiting, time passes.
SimFairSpec ==
  /\ SimSpec
  /\ \A w \in Workers : SF_simVars(Lock(w)) /\ WF_simVars(WorkStep(w))
  /\ \A w \in TickWorkers : WF_simVars(Request(w))
  /\ WF_simVars(CooldownEnds)

-----------------------------------------------------------------------------
(* Properties *)

\* While a job works on its copy of the balances the row still says what the job
\* loaded, so writing the copy back undoes nobody's trades
\* (_lock_simulation_settings' purpose).
NoLostUpdate == \A w \in Workers : InHand(w) => work[w].loaded = Seed

\* Once the switch or the kill switch is off no holding grows any more, not even
\* by a tick that was under way.
OffMeansNoBuys == [][~aiEnabled => \A c \in Coins : Seed'.held[c] <= Seed.held[c]]_simVars

\* A close-all that waits for the row gets its turn and ends, with a tick coming
\* every minute (run_agent_tick commits per account for that reason).
CloseAllServed == \A w \in CloseThreads : work[w].pc = "waiting" ~> work[w].pc = "idle"

\* A drawdown stop is over one day: without the cooldown one drawdown halted the
\* account forever (DRAWDOWN_HALT_COOLDOWN).
HaltEnds == Breach ~> ~Breach

\* Prices stand still, so no drawdown halt begins: a reset's new start is not
\* measured against the old simulation's peak (update_settings).
NoPhantomDrawdown == ~halted
=============================================================================
