---------------------------- MODULE ExecutionQueue ----------------------------
(***************************************************************************)
(* The live order queue of one account: the pending_executions and          *)
(* positions tables, the Celery tasks and the close-all request that queue  *)
(* orders, and the HTTP handlers that hand them to the phone.  The phone    *)
(* itself, its wallet and the handlers' own races are in LiveTrading.       *)
(*                                                                          *)
(* A Celery task (or the close-all request) is one database transaction:    *)
(* what it queues is staged, invisible to every query, until it commits.    *)
(* Postgres runs at READ COMMITTED, so a query inside it sees what others   *)
(* committed meanwhile, while the portfolio it loaded first stays stale.    *)
(***************************************************************************)
EXTENDS TradingConstants, FiniteSets

CONSTANTS
  CeleryWorkers,    \* worker processes: one with --pool=solo, more by default
  ApiThreads,       \* request threads that may run a close-all
  BuySizes,         \* quantities position sizing can return
  MaxOpen,          \* max_open_positions
  Expiring,         \* orders whose 300 s may run out before the phone polls
  NoPlan            \* an unused row

ASSUME QueueAssumption ==
  /\ BuySizes \subseteq Nat \ {0}
  /\ MaxOpen \in Nat
  /\ CeleryWorkers \cap ApiThreads = {}

Sides    == {"buy", "sell"}
Statuses == {"absent", "staged", "pending", "claimed", "executed", "failed", "cancelled", "expired"}
Outcomes == {"executed", "failed"}
Workers  == CeleryWorkers \cup ApiThreads
Plan     == [side : Sides, symbol : Symbols, qty : Nat]
Task     == [kind : {"idle", "tick", "flatten", "sweep"}, dry : BOOLEAN,
             held : [Symbols -> Nat], todo : SUBSET Symbols, staged : SUBSET Orders]

VARIABLES
  status,      \* PendingExecution.status; "absent" = no row, "staged" = not committed
  plan,        \* the order a row describes
  late,        \* rows whose expires_at has passed
  position,    \* quantity of the open Position of each symbol, 0 = none open
  aiEnabled,   \* AccountSettings.ai_enabled
  task         \* what each worker is running

queueVars == <<status, plan, late, position, aiEnabled, task>>

Idle == [kind |-> "idle", dry |-> FALSE, held |-> [s \in Symbols |-> 0],
         todo |-> {}, staged |-> {}]

QueueTypeOK ==
  /\ status \in [Orders -> Statuses]
  /\ plan \in [Orders -> Plan \cup {NoPlan}]
  /\ \A o \in Orders : status[o] # "absent" => plan[o] \in Plan
  /\ late \in SUBSET Orders
  /\ position \in [Symbols -> Nat]
  /\ aiEnabled \in BOOLEAN
  /\ task \in [Workers -> Task]

QueueInit ==
  /\ status = [o \in Orders |-> "absent"]
  /\ plan = [o \in Orders |-> NoPlan]
  /\ late = {}
  /\ position = [s \in Symbols |-> 0]
  /\ aiEnabled \in BOOLEAN
  /\ task = [w \in Workers |-> Idle]

-----------------------------------------------------------------------------
(* Queries *)

Rows(s, side) == {o \in Orders : status[o] # "absent" /\ plan[o].side = side /\ plan[o].symbol = s}

\* Variant: POST /claim does not look at the deadline.
ClaimableAnytime(o) == status[o] = "pending"

\* Variant: a failed order is offered again while its window lasts.
ClaimableOrFailed(o) == status[o] \in {"pending", "failed"} /\ o \notin late

\* What GET /pending offers and POST /claim accepts.
Claimable(o) == status[o] = "pending" /\ o \notin late

\* Variant: the window between claim and report does not count.
HasUnclaimed(s, side) == \E o \in Rows(s, side) : Claimable(o)

\* SqlDataStore.has_pending_order: claimed, or pending within its window.
HasPending(s, side) == \E o \in Rows(s, side) : status[o] = "claimed" \/ Claimable(o)

\* Variant: the guard looks at the wrong side.
SweepSeesBuy(s) == \E o \in Rows(s, "buy") : status[o] = "pending"

\* check_live_exits' already_pending: the status alone.
SweepSeesSell(s) == \E o \in Rows(s, "sell") : status[o] = "pending"

-----------------------------------------------------------------------------
(* Tasks *)

\* run_agent_tick or a flatten loads the settings and the open positions once.
Start(w, kind) ==
  /\ task[w].kind = "idle"
  /\ task' = [task EXCEPT ![w] = [kind |-> kind, dry |-> ~aiEnabled, held |-> position,
                                  todo |-> Symbols, staged |-> {}]]
  /\ UNCHANGED <<status, plan, late, position, aiEnabled>>

\* run_agent_tick with every account-wide limit respected.
StartTick(w) == w \in CeleryWorkers /\ Start(w, "tick")

\* run_agent_tick past the balance floor or the maximum drawdown.
StartBreachTick(w) == w \in CeleryWorkers /\ Start(w, "flatten")

\* POST /close-all.
StartCloseAll(w) == w \in ApiThreads /\ Start(w, "flatten")

\* check_live_exits.
StartSweep(w) == w \in CeleryWorkers /\ Start(w, "sweep")

\* A task that has queued o for s, and what it now believes is held of s.
Queued(t, s, o, heldAfter) ==
  [t EXCEPT !.held[s] = heldAfter, !.todo = @ \ {s}, !.staged = @ \cup {o}]

\* save_pending_execution inside w's transaction; the deadline runs from here,
\* not from the commit.
Stage(w, s, side, q, heldAfter) ==
  \E o \in Orders :
    /\ status[o] = "absent"
    /\ status' = [status EXCEPT ![o] = "staged"]
    /\ plan' = [plan EXCEPT ![o] = [side |-> side, symbol |-> s, qty |-> q]]
    /\ task' = [task EXCEPT ![w] = Queued(task[w], s, o, heldAfter)]
    /\ UNCHANGED <<late, position, aiEnabled>>

\* A LONG that passed the strategy filters: no position, no buy in flight, a
\* free slot, and no earlier entry in this tick (min_time_between_entries).
\* The time-based limits against earlier ticks only ever turn it into no trade.
TickBuy(w, s) ==
  LET t == task[w]
  IN  /\ t.kind = "tick" /\ s \in t.todo /\ ~t.dry
      /\ t.held[s] = 0
      /\ ~HasPending(s, "buy")
      /\ Cardinality({x \in Symbols : t.held[x] > 0}) < MaxOpen
      /\ \A o \in t.staged : plan[o].side # "buy"
      /\ \E q \in BuySizes : Stage(w, s, "buy", q, q)

\* A SHORT on a held symbol sells all of it.
TickClose(w, s) ==
  LET t == task[w]
  IN  /\ t.kind = "tick" /\ s \in t.todo /\ ~t.dry
      /\ t.held[s] > 0
      /\ ~HasPending(s, "sell")
      /\ Stage(w, s, "sell", t.held[s], 0)

\* flatten_all_positions with ignore_dry_run: protective, so AI may be off.
FlattenClose(w, s) ==
  LET t == task[w]
  IN  /\ t.kind = "flatten" /\ s \in t.todo
      /\ t.held[s] > 0
      /\ ~HasPending(s, "sell")
      /\ Stage(w, s, "sell", t.held[s], 0)

\* A stop or the take-profit of a held symbol is hit at the current bid.
SweepClose(w, s) ==
  LET t == task[w]
  IN  /\ t.kind = "sweep" /\ s \in t.todo
      /\ t.held[s] > 0
      /\ ~SweepSeesSell(s)
      /\ Stage(w, s, "sell", t.held[s], t.held[s])

\* The symbols left in todo gave no trade.
CommitTask(w) ==
  /\ task[w].kind # "idle"
  /\ status' = [o \in Orders |-> IF o \in task[w].staged THEN "pending" ELSE status[o]]
  /\ task' = [task EXCEPT ![w] = Idle]
  /\ UNCHANGED <<plan, late, position, aiEnabled>>

\* The commit failed, or the worker process died: nothing was queued.
AbortTask(w) ==
  /\ task[w].kind # "idle"
  /\ status' = [o \in Orders |-> IF o \in task[w].staged THEN "absent" ELSE status[o]]
  /\ plan' = [o \in Orders |-> IF o \in task[w].staged THEN NoPlan ELSE plan[o]]
  /\ late' = late \ task[w].staged
  /\ task' = [task EXCEPT ![w] = Idle]
  /\ UNCHANGED <<position, aiEnabled>>

\* 300 s have passed since the row was created.
Lapse(o) ==
  /\ o \in Expiring \ late
  /\ status[o] \in {"staged", "pending"}
  /\ late' = late \cup {o}
  /\ UNCHANGED <<status, plan, position, aiEnabled, task>>

-----------------------------------------------------------------------------
(* Requests, each served in one transaction *)

\* update_settings switching AI trading.
SetAi(on) ==
  /\ aiEnabled' = on
  /\ UNCHANGED <<status, plan, late, position, task>>

PendingBuys == {o \in Orders : status[o] = "pending" /\ plan[o].side = "buy"}

\* POST /kill-switch.
KillSwitch ==
  /\ aiEnabled' = FALSE
  /\ status' = [o \in Orders |-> IF o \in PendingBuys THEN "cancelled" ELSE status[o]]
  /\ UNCHANGED <<plan, late, position, task>>

\* POST /claim; the 409 and 410 answers change nothing (the "expired" that the
\* 410 path assigns is rolled back with its transaction).
Claim(o) ==
  /\ Claimable(o)
  /\ status' = [status EXCEPT ![o] = "claimed"]
  /\ UNCHANGED <<plan, late, position, aiEnabled, task>>

Monus(a, b) == IF a > b THEN a - b ELSE 0

\* Variant: an oversized sell fill is subtracted as it is.
FilledUnclamped(o) ==
  [position EXCEPT ![plan[o].symbol] =
     IF plan[o].side = "buy" THEN @ + plan[o].qty ELSE @ - plan[o].qty]

\* _apply_fill_to_position: a sell of more than is open closes the position.
Filled(o) ==
  [position EXCEPT ![plan[o].symbol] =
     IF plan[o].side = "buy" THEN @ + plan[o].qty ELSE Monus(@, plan[o].qty)]

\* POST /report writes the outcome whatever the row's status was.
Report(o, outcome) ==
  /\ status[o] \notin {"absent", "staged"}
  /\ status' = [status EXCEPT ![o] = outcome]
  /\ position' = IF outcome = "executed" THEN Filled(o) ELSE position
  /\ UNCHANGED <<plan, late, aiEnabled, task>>

\* POST /report-balance adopts holdings of symbols that have no open position.
AdoptHoldings(seen) ==
  /\ position' = [s \in Symbols |-> IF position[s] = 0 THEN seen[s] ELSE position[s]]
  /\ UNCHANGED <<status, plan, late, aiEnabled, task>>

-----------------------------------------------------------------------------
TaskStep(w) ==
  \/ StartTick(w) \/ StartBreachTick(w) \/ StartCloseAll(w) \/ StartSweep(w)
  \/ \E s \in Symbols : TickBuy(w, s) \/ TickClose(w, s) \/ FlattenClose(w, s) \/ SweepClose(w, s)
  \/ CommitTask(w) \/ AbortTask(w)

\* The only client, the phone, reports what it claimed.
ClientStep ==
  \/ \E o \in Orders : Claim(o)
  \/ \E o \in Orders, r \in Outcomes : status[o] = "claimed" /\ Report(o, r)
  \/ \E seen \in [Symbols -> Holdings] : AdoptHoldings(seen)
  \/ KillSwitch
  \/ \E on \in BOOLEAN : SetAi(on)

QueueNext ==
  \/ \E w \in Workers : TaskStep(w)
  \/ \E o \in Orders : Lapse(o)
  \/ ClientStep

QueueSpec == QueueInit /\ [][QueueNext]_queueVars

\* Beat fires check_live_exits every 30 s and every transaction ends.
QueueFairSpec ==
  /\ QueueSpec
  /\ \A w \in CeleryWorkers : SF_queueVars(StartSweep(w)) /\ WF_queueVars(CommitTask(w))

-----------------------------------------------------------------------------
(* Properties *)

\* On its way to a fill: about to be offered, on offer, or with the phone.
InFlight(o) == status[o] \in {"staged", "claimed"} \/ Claimable(o)

\* The same, before a phone takes it.
Offered(o) == status[o] = "staged" \/ Claimable(o)

\* Never two buys of one symbol on their way at once: has_pending_order's
\* purpose, the duplicate purchases of 2026-09-25.
OneBuyInFlight ==
  \A s \in Symbols : \A o1, o2 \in Rows(s, "buy") :
    InFlight(o1) /\ InFlight(o2) => o1 = o2

\* The phone is never offered two sells of the same position: the tick, the
\* breach flatten and the exit sweep look at each other's unclaimed rows.
OneSellOffered ==
  \A s \in Symbols : \A o1, o2 \in Rows(s, "sell") :
    Offered(o1) /\ Offered(o2) => o1 = o2

\* No second sell is queued while one may already be in flight, claimed rows
\* included (check_live_exits' comment on already_pending).
NoOverlappingSell ==
  \A s \in Symbols : \A o1, o2 \in Rows(s, "sell") :
    InFlight(o1) /\ InFlight(o2) => o1 = o2

\* A row the phone never claimed stops blocking its symbol after it lapses
\* (expire_stale_pending_executions' docstring).
StaleRowHeals == \A o \in Orders : (status[o] = "pending" /\ o \in late) ~> status[o] # "pending"
=============================================================================
