------------------------- MODULE ExecutionQueueProofs -------------------------
(***************************************************************************)
(* Theorems of ExecutionQueue, for any symbols, orders, sizes and workers.  *)
(* Types need to know whose the staged rows are; that buys do not overlap   *)
(* needs, besides, that ticks do not.                                       *)
(***************************************************************************)
EXTENDS ExecutionQueue, TLAPS

\* A row is staged exactly while one running transaction holds it; ticks are
\* Celery's.
StagedOwned ==
  /\ \A w \in Workers : \A o \in task[w].staged : status[o] = "staged"
  /\ \A w \in Workers : task[w].kind = "idle" => task[w].staged = {}
  /\ \A w \in Workers : task[w].kind = "tick" => w \in CeleryWorkers
  /\ \A w1, w2 \in Workers : task[w1].staged \cap task[w2].staged # {} => w1 = w2
  /\ \A o \in Orders : status[o] = "staged" => \E w \in Workers : o \in task[w].staged

QueueInv == QueueTypeOK /\ StagedOwned

\* Only ticks stage buys, one each.
BuysFromTicks ==
  \A w \in Workers : \A o \in task[w].staged : plan[o].side = "buy" =>
    /\ w \in CeleryWorkers
    /\ \A x \in task[w].staged : plan[x].side = "buy" => x = o

\* Ticks run one at a time: one worker process (--pool=solo).
Solo == \A w1, w2 \in CeleryWorkers : w1 = w2

-----------------------------------------------------------------------------
LEMMA InitInv == QueueInit => QueueInv
BY DEF QueueInit, QueueInv, QueueTypeOK, StagedOwned, Idle, Task, Statuses, Plan, Workers

LEMMA StartInv ==
  ASSUME QueueInv, NEW w \in Workers, NEW kind \in {"tick", "flatten", "sweep"}, Start(w, kind),
         kind = "tick" => w \in CeleryWorkers
  PROVE  QueueInv'
<1>1. QueueTypeOK'
  BY DEF QueueInv, QueueTypeOK, Start, Task
<1>2. StagedOwned'
  BY DEF QueueInv, QueueTypeOK, StagedOwned, Start, Task
<1> QED BY <1>1, <1>2 DEF QueueInv

LEMMA QueuedTask ==
  ASSUME NEW t \in Task, NEW s \in Symbols, NEW o \in Orders, NEW h \in Nat
  PROVE  /\ Queued(t, s, o, h) \in Task
         /\ Queued(t, s, o, h).staged = t.staged \cup {o}
         /\ Queued(t, s, o, h).kind = t.kind
<1>1. [t.held EXCEPT ![s] = h] \in [Symbols -> Nat]
  BY DEF Task
<1> QED BY <1>1 DEF Queued, Task

LEMMA StageInv ==
  ASSUME QueueInv, NEW w \in Workers, NEW s \in Symbols, NEW side \in Sides,
         NEW q \in Nat, NEW h \in Nat, task[w].kind # "idle", Stage(w, s, side, q, h)
  PROVE  QueueInv'
<1> PICK o \in Orders :
      /\ status[o] = "absent"
      /\ status' = [status EXCEPT ![o] = "staged"]
      /\ plan' = [plan EXCEPT ![o] = [side |-> side, symbol |-> s, qty |-> q]]
      /\ task' = [task EXCEPT ![w] = Queued(task[w], s, o, h)]
      /\ UNCHANGED <<late, position, aiEnabled>>
  BY DEF Stage
<1>1. /\ task'[w].staged = task[w].staged \cup {o}
      /\ task'[w].kind = task[w].kind
      /\ task' \in [Workers -> Task]
      /\ \A v \in Workers \ {w} : task'[v] = task[v]
  BY QueuedTask DEF QueueInv, QueueTypeOK
<1>2. QueueTypeOK'
  BY <1>1 DEF QueueInv, QueueTypeOK, Statuses, Plan
<1>3. StagedOwned'
  BY <1>1 DEF QueueInv, QueueTypeOK, StagedOwned
<1> QED BY <1>2, <1>3 DEF QueueInv

LEMMA EndInv ==
  ASSUME QueueInv, NEW w \in Workers, CommitTask(w) \/ AbortTask(w)
  PROVE  QueueInv'
<1>1. Idle \in Task /\ Idle.staged = {} /\ Idle.kind = "idle"
  BY DEF Idle, Task
<1>2. task' = [task EXCEPT ![w] = Idle]
  BY DEF CommitTask, AbortTask
<1>3. QueueTypeOK'
  BY <1>1, <1>2 DEF QueueInv, QueueTypeOK, StagedOwned, CommitTask, AbortTask, Statuses
<1>4. StagedOwned'
  <2>1. \A v \in Workers \ {w} : task'[v] = task[v]
    BY <1>2 DEF QueueInv, QueueTypeOK
  <2>2. task'[w] = Idle
    BY <1>2 DEF QueueInv, QueueTypeOK
  <2>3. \A o \in Orders : status'[o] = IF o \in task[w].staged THEN status'[o] ELSE status[o]
    BY DEF CommitTask, AbortTask
  <2>4. \A o \in task[w].staged : status'[o] # "staged"
    BY DEF CommitTask, AbortTask, QueueInv, QueueTypeOK, Task
  <2>5. \A v \in Workers : task[v].staged \subseteq Orders
    BY DEF QueueInv, QueueTypeOK, Task
  <2> QED BY <1>1, <2>1, <2>2, <2>3, <2>4, <2>5 DEF QueueInv, StagedOwned
<1> QED BY <1>3, <1>4 DEF QueueInv

\* Everything but the tasks leaves the staged rows alone.
LEMMA LapseInv ==
  ASSUME QueueInv, NEW o \in Orders, Lapse(o)
  PROVE  QueueInv'
BY DEF Lapse, QueueInv, QueueTypeOK, StagedOwned

\* A row that others can see gets another status.
LEMMA RewriteInv ==
  ASSUME QueueInv, NEW O \in SUBSET Orders, NEW v \in Statuses \ {"absent", "staged"},
         \A o \in O : status[o] \notin {"absent", "staged"},
         status' = [o \in Orders |-> IF o \in O THEN v ELSE status[o]],
         position' \in [Symbols -> Nat], aiEnabled' \in BOOLEAN, UNCHANGED <<plan, late, task>>
  PROVE  QueueInv'
<1>1. /\ status' \in [Orders -> Statuses]
      /\ \A o \in Orders : (status'[o] = "absent" <=> status[o] = "absent")
                        /\ (status'[o] = "staged" <=> status[o] = "staged")
  BY DEF QueueInv, QueueTypeOK, Statuses
<1>2. \A w \in Workers : task[w].staged \subseteq Orders
  BY DEF QueueInv, QueueTypeOK, Task
<1> QED BY <1>1, <1>2 DEF QueueInv, QueueTypeOK, StagedOwned

LEMMA ClaimInv ==
  ASSUME QueueInv, NEW o \in Orders, status[o] \notin {"absent", "staged"},
         status' = [status EXCEPT ![o] = "claimed"],
         UNCHANGED <<plan, late, position, aiEnabled, task>>
  PROVE  QueueInv'
<1>1. status' = [x \in Orders |-> IF x \in {o} THEN "claimed" ELSE status[x]]
  BY DEF QueueInv, QueueTypeOK
<1>2. /\ {o} \in SUBSET Orders /\ "claimed" \in Statuses \ {"absent", "staged"}
      /\ \A x \in {o} : status[x] \notin {"absent", "staged"}
      /\ position' \in [Symbols -> Nat] /\ aiEnabled' \in BOOLEAN
      /\ UNCHANGED <<plan, late, task>>
  BY DEF QueueInv, QueueTypeOK, Statuses
<1> QED BY <1>1, <1>2, RewriteInv

LEMMA ReportInv ==
  ASSUME QueueInv, NEW o \in Orders, NEW r \in Outcomes, Report(o, r)
  PROVE  QueueInv'
<1>1. plan[o] \in Plan
  BY DEF Report, QueueInv, QueueTypeOK
<1>2. Filled(o) \in [Symbols -> Nat]
  BY <1>1 DEF Filled, Monus, Plan, QueueInv, QueueTypeOK
<1>3. status' = [x \in Orders |-> IF x \in {o} THEN r ELSE status[x]]
  BY DEF Report, QueueInv, QueueTypeOK
<1>4. /\ {o} \in SUBSET Orders /\ r \in Statuses \ {"absent", "staged"}
      /\ \A x \in {o} : status[x] \notin {"absent", "staged"}
      /\ position' \in [Symbols -> Nat] /\ aiEnabled' \in BOOLEAN
      /\ UNCHANGED <<plan, late, task>>
  BY <1>2 DEF Report, QueueInv, QueueTypeOK, Outcomes, Statuses
<1> QED BY <1>3, <1>4, RewriteInv

LEMMA AdoptInv ==
  ASSUME QueueInv, NEW seen \in [Symbols -> Nat], AdoptHoldings(seen)
  PROVE  QueueInv'
BY DEF AdoptHoldings, QueueInv, QueueTypeOK, StagedOwned

LEMMA SetAiInv ==
  ASSUME QueueInv, NEW on \in BOOLEAN, SetAi(on)
  PROVE  QueueInv'
BY DEF SetAi, QueueInv, QueueTypeOK, StagedOwned

LEMMA OutsideInv ==
  ASSUME QueueInv, (\E o \in Orders : Lapse(o)) \/ ClientStep
  PROVE  QueueInv'
<1>1. CASE \E o \in Orders : Claim(o)
  BY <1>1, ClaimInv DEF Claim, Claimable
<1>2. CASE \E o \in Orders, r \in Outcomes : status[o] = "claimed" /\ Report(o, r)
  BY <1>2, ReportInv
<1>3. CASE \E seen \in [Symbols -> Holdings] : AdoptHoldings(seen)
  BY <1>3, AdoptInv, HoldingsAssumption DEF HoldingsAssumption
<1>4. CASE KillSwitch
  <2>1. /\ PendingBuys \in SUBSET Orders /\ "cancelled" \in Statuses \ {"absent", "staged"}
        /\ \A x \in PendingBuys : status[x] \notin {"absent", "staged"}
        /\ position' \in [Symbols -> Nat] /\ aiEnabled' \in BOOLEAN
        /\ UNCHANGED <<plan, late, task>>
    BY <1>4 DEF KillSwitch, PendingBuys, QueueInv, QueueTypeOK, Statuses
  <2>2. status' = [o \in Orders |-> IF o \in PendingBuys THEN "cancelled" ELSE status[o]]
    BY <1>4 DEF KillSwitch
  <2> QED BY <2>1, <2>2, RewriteInv
<1> QED BY <1>1, <1>2, <1>3, <1>4, LapseInv, SetAiInv DEF ClientStep

LEMMA TaskInv ==
  ASSUME QueueInv, NEW w \in Workers, TaskStep(w)
  PROVE  QueueInv'
<1>1. CASE StartTick(w) \/ StartBreachTick(w) \/ StartCloseAll(w) \/ StartSweep(w)
  BY <1>1, StartInv DEF StartTick, StartBreachTick, StartCloseAll, StartSweep
<1>2. CASE \E s \in Symbols : TickBuy(w, s) \/ TickClose(w, s) \/ FlattenClose(w, s) \/ SweepClose(w, s)
  <2> PICK s \in Symbols : TickBuy(w, s) \/ TickClose(w, s) \/ FlattenClose(w, s) \/ SweepClose(w, s)
    BY <1>2
  <2>1. task[w].held[s] \in Nat /\ "buy" \in Sides /\ "sell" \in Sides /\ 0 \in Nat
    BY DEF QueueInv, QueueTypeOK, Task, Sides
  <2>2. CASE TickBuy(w, s)
    <3>1. task[w].kind # "idle" /\ \E q \in BuySizes : Stage(w, s, "buy", q, q)
      BY <2>2 DEF TickBuy
    <3> QED BY <3>1, <2>1, StageInv, QueueAssumption DEF QueueAssumption
  <2>3. CASE TickClose(w, s)
    BY <2>1, <2>3, StageInv DEF TickClose
  <2>4. CASE FlattenClose(w, s)
    BY <2>1, <2>4, StageInv DEF FlattenClose
  <2>5. CASE SweepClose(w, s)
    BY <2>1, <2>5, StageInv DEF SweepClose
  <2> QED BY <2>2, <2>3, <2>4, <2>5
<1>3. CASE CommitTask(w) \/ AbortTask(w)
  BY <1>3, EndInv
<1> QED BY <1>1, <1>2, <1>3 DEF TaskStep

LEMMA StepInv == QueueInv /\ [QueueNext]_queueVars => QueueInv'
<1> SUFFICES ASSUME QueueInv, [QueueNext]_queueVars PROVE QueueInv'
  OBVIOUS
<1>1. CASE UNCHANGED queueVars
  BY <1>1 DEF queueVars, QueueInv, QueueTypeOK, StagedOwned
<1> QED BY <1>1, TaskInv, OutsideInv DEF QueueNext

\* Every row that exists describes an order, positions are never negative, and
\* each staged row belongs to one running transaction.
THEOREM TypeCorrect == QueueSpec => []QueueTypeOK
<1>1. QueueSpec => []QueueInv
  BY InitInv, StepInv, PTL DEF QueueSpec
<1>2. QueueInv => QueueTypeOK
  BY DEF QueueInv
<1> QED BY <1>1, <1>2, PTL

-----------------------------------------------------------------------------
(* One buy at a time *)

BuyInv == QueueInv /\ BuysFromTicks /\ OneBuyInFlight

\* A step that queues nothing brings no order on its way to a fill.
LEMMA NoneTakesOff ==
  ASSUME QueueInv, QueueInv', OneBuyInFlight, BuysFromTicks,
         \A o \in Orders : InFlight(o)' => InFlight(o) /\ plan'[o] = plan[o],
         \A w \in Workers : task'[w].staged = {} \/ task'[w].staged = task[w].staged
  PROVE  OneBuyInFlight' /\ BuysFromTicks'
<1>1. \A o \in Orders : InFlight(o) => status[o] # "absent"
  BY DEF InFlight, Claimable
<1>2. OneBuyInFlight'
  BY <1>1 DEF OneBuyInFlight, Rows
<1>3. \A w \in Workers : \A o \in task'[w].staged : o \in Orders /\ plan'[o] = plan[o]
  BY DEF QueueInv, QueueTypeOK, StagedOwned, InFlight, Task
<1>4. BuysFromTicks'
  BY <1>3 DEF BuysFromTicks
<1> QED BY <1>2, <1>4

LEMMA OutsideBuy ==
  ASSUME BuyInv, (\E o \in Orders : Lapse(o)) \/ ClientStep
  PROVE  BuyInv'
<1>1. QueueInv'
  BY OutsideInv DEF BuyInv
<1>2. task' = task /\ plan' = plan /\ late \subseteq late'
  BY DEF Lapse, ClientStep, Claim, Report, AdoptHoldings, KillSwitch, SetAi
<1>3. \A o \in Orders : InFlight(o)' => InFlight(o)
  <2>1. CASE \E o \in Orders : Lapse(o)
    BY <2>1 DEF Lapse, InFlight, Claimable
  <2>2. CASE \E o \in Orders : Claim(o)
    BY <2>2 DEF Claim, InFlight, Claimable, BuyInv, QueueInv, QueueTypeOK
  <2>3. CASE \E o \in Orders, r \in Outcomes : status[o] = "claimed" /\ Report(o, r)
    BY <2>3 DEF Report, InFlight, Claimable, Outcomes, BuyInv, QueueInv, QueueTypeOK
  <2>4. CASE \E seen \in [Symbols -> Holdings] : AdoptHoldings(seen)
    BY <2>4 DEF AdoptHoldings, InFlight, Claimable
  <2>5. CASE KillSwitch
    BY <2>5 DEF KillSwitch, InFlight, Claimable, BuyInv, QueueInv, QueueTypeOK
  <2>6. CASE \E on \in BOOLEAN : SetAi(on)
    BY <2>6 DEF SetAi, InFlight, Claimable
  <2> QED BY <2>1, <2>2, <2>3, <2>4, <2>5, <2>6 DEF ClientStep
<1> QED BY <1>1, <1>2, <1>3, NoneTakesOff DEF BuyInv

LEMMA EndBuy ==
  ASSUME BuyInv, NEW w \in Workers, CommitTask(w) \/ AbortTask(w)
  PROVE  BuyInv'
<1>1. QueueInv'
  BY EndInv DEF BuyInv
<1>2. \A v \in Workers : task'[v].staged = {} \/ task'[v].staged = task[v].staged
  BY DEF CommitTask, AbortTask, Idle, BuyInv, QueueInv, QueueTypeOK
<1>3. \A o \in Orders : InFlight(o)' => InFlight(o) /\ plan'[o] = plan[o]
  BY DEF CommitTask, AbortTask, InFlight, Claimable, BuyInv, QueueInv, QueueTypeOK, StagedOwned
<1> QED BY <1>1, <1>2, <1>3, NoneTakesOff DEF BuyInv

LEMMA StartBuy ==
  ASSUME BuyInv, NEW w \in Workers, NEW kind \in {"tick", "flatten", "sweep"}, Start(w, kind),
         kind = "tick" => w \in CeleryWorkers
  PROVE  BuyInv'
<1>1. QueueInv'
  BY StartInv DEF BuyInv
<1>2. \A v \in Workers : task'[v].staged = {} \/ task'[v].staged = task[v].staged
  BY DEF Start, BuyInv, QueueInv, QueueTypeOK
<1>3. \A o \in Orders : InFlight(o)' => InFlight(o) /\ plan'[o] = plan[o]
  BY DEF Start, InFlight, Claimable
<1> QED BY <1>1, <1>2, <1>3, NoneTakesOff DEF BuyInv

\* What Stage does, for the one row it creates.
LEMMA StageRow ==
  ASSUME QueueInv, NEW w \in Workers, NEW s \in Symbols, NEW side \in Sides,
         NEW q \in Nat, NEW h \in Nat, Stage(w, s, side, q, h)
  PROVE  \E o \in Orders :
           /\ status[o] = "absent"
           /\ plan'[o] = [side |-> side, symbol |-> s, qty |-> q]
           /\ \A x \in Orders \ {o} : plan'[x] = plan[x] /\ status'[x] = status[x]
           /\ late' = late
           /\ task'[w].staged = task[w].staged \cup {o}
           /\ \A v \in Workers \ {w} : task'[v] = task[v]
<1> PICK o \in Orders :
      /\ status[o] = "absent"
      /\ status' = [status EXCEPT ![o] = "staged"]
      /\ plan' = [plan EXCEPT ![o] = [side |-> side, symbol |-> s, qty |-> q]]
      /\ task' = [task EXCEPT ![w] = Queued(task[w], s, o, h)]
      /\ UNCHANGED <<late, position, aiEnabled>>
  BY DEF Stage
<1> WITNESS o \in Orders
<1>1. task'[w].staged = task[w].staged \cup {o}
  BY QueuedTask DEF QueueInv, QueueTypeOK
<1> QED BY <1>1 DEF QueueInv, QueueTypeOK

LEMMA StageSell ==
  ASSUME BuyInv, NEW w \in Workers, NEW s \in Symbols, NEW q \in Nat, NEW h \in Nat,
         task[w].kind # "idle", Stage(w, s, "sell", q, h)
  PROVE  BuyInv'
<1> "sell" \in Sides
  BY DEF Sides
<1>1. QueueInv'
  BY StageInv DEF BuyInv
<1> PICK o \in Orders :
      /\ status[o] = "absent"
      /\ plan'[o] = [side |-> "sell", symbol |-> s, qty |-> q]
      /\ \A x \in Orders \ {o} : plan'[x] = plan[x] /\ status'[x] = status[x]
      /\ late' = late
      /\ task'[w].staged = task[w].staged \cup {o}
      /\ \A v \in Workers \ {w} : task'[v] = task[v]
  BY StageRow DEF BuyInv
<1>2. plan'[o].side = "sell"
  OBVIOUS
<1>3. \A v \in Workers : \A x \in task[v].staged : x \in Orders /\ x # o
  BY DEF BuyInv, QueueInv, QueueTypeOK, StagedOwned, Task
<1>4. BuysFromTicks'
  BY <1>2, <1>3 DEF BuyInv, BuysFromTicks
<1>5. OneBuyInFlight'
  BY <1>2 DEF BuyInv, OneBuyInFlight, Rows, InFlight, Claimable
<1> QED BY <1>1, <1>4, <1>5 DEF BuyInv

LEMMA StageBuy ==
  ASSUME Solo, BuyInv, NEW w \in CeleryWorkers, NEW s \in Symbols, TickBuy(w, s)
  PROVE  BuyInv'
<1> PICK q \in Nat : Stage(w, s, "buy", q, q)
  BY QueueAssumption DEF QueueAssumption, TickBuy
<1> w \in Workers /\ "buy" \in Sides /\ task[w].kind # "idle"
  BY DEF Workers, Sides, TickBuy
<1>1. QueueInv'
  BY StageInv DEF BuyInv
<1> PICK o \in Orders :
      /\ status[o] = "absent"
      /\ plan'[o] = [side |-> "buy", symbol |-> s, qty |-> q]
      /\ \A x \in Orders \ {o} : plan'[x] = plan[x] /\ status'[x] = status[x]
      /\ late' = late
      /\ task'[w].staged = task[w].staged \cup {o}
      /\ \A v \in Workers \ {w} : task'[v] = task[v]
  BY StageRow DEF BuyInv
<1>2. \A v \in Workers : \A x \in task[v].staged : x \in Orders /\ x # o
  BY DEF BuyInv, QueueInv, QueueTypeOK, StagedOwned, Task
<1>3. \A x \in task[w].staged : plan[x].side # "buy"
  BY DEF TickBuy
<1>4. BuysFromTicks'
  BY <1>2, <1>3 DEF BuyInv, BuysFromTicks
<1>5. ASSUME NEW x \in Rows(s, "buy"), InFlight(x)
      PROVE  FALSE
  <2>1. x \in Orders /\ plan[x].side = "buy" /\ status[x] # "claimed" /\ ~Claimable(x)
    BY DEF TickBuy, HasPending, Rows
  <2>2. status[x] = "staged"
    BY <1>5, <2>1 DEF InFlight
  <2>3. PICK v \in Workers : x \in task[v].staged
    BY <2>1, <2>2 DEF BuyInv, QueueInv, StagedOwned
  <2>4. v = w
    BY <2>1, <2>3 DEF BuyInv, BuysFromTicks, Solo
  <2> QED BY <1>3, <2>1, <2>3, <2>4
<1>6. OneBuyInFlight'
  <2> SUFFICES ASSUME NEW r \in Symbols, NEW o1 \in Rows(r, "buy")', NEW o2 \in Rows(r, "buy")',
                      InFlight(o1)', InFlight(o2)', o1 # o2
               PROVE  FALSE
    BY DEF OneBuyInFlight
  <2>1. ASSUME NEW x \in Rows(r, "buy")', x # o, InFlight(x)'
        PROVE  x \in Rows(r, "buy") /\ InFlight(x)
    BY <2>1 DEF Rows, InFlight, Claimable
  <2>2. CASE o1 # o /\ o2 # o
    <3>1. o1 \in Rows(r, "buy") /\ o2 \in Rows(r, "buy") /\ InFlight(o1) /\ InFlight(o2)
      BY <2>1, <2>2
    <3> QED BY <3>1 DEF BuyInv, OneBuyInFlight
  <2>3. CASE o1 = o \/ o2 = o
    <3>1. r = s
      BY <2>3 DEF Rows
    <3>2. CASE o1 = o
      BY <1>5, <2>1, <3>1, <3>2
    <3>3. CASE o2 = o
      BY <1>5, <2>1, <3>1, <3>3
    <3> QED BY <2>3, <3>2, <3>3
  <2> QED BY <2>2, <2>3
<1> QED BY <1>1, <1>4, <1>6 DEF BuyInv

LEMMA StepBuy == Solo /\ BuyInv /\ [QueueNext]_queueVars => BuyInv'
<1> SUFFICES ASSUME Solo, BuyInv, [QueueNext]_queueVars PROVE BuyInv'
  OBVIOUS
<1>1. CASE UNCHANGED queueVars
  BY <1>1 DEF queueVars, BuyInv, QueueInv, QueueTypeOK, StagedOwned, BuysFromTicks,
              OneBuyInFlight, Rows, InFlight, Claimable
<1>2. CASE (\E o \in Orders : Lapse(o)) \/ ClientStep
  BY <1>2, OutsideBuy
<1>3. ASSUME NEW w \in Workers, TaskStep(w) PROVE BuyInv'
  <2>1. CASE StartTick(w) \/ StartBreachTick(w) \/ StartCloseAll(w) \/ StartSweep(w)
    BY <2>1, StartBuy DEF StartTick, StartBreachTick, StartCloseAll, StartSweep
  <2>2. CASE CommitTask(w) \/ AbortTask(w)
    BY <2>2, EndBuy
  <2>3. ASSUME NEW s \in Symbols, TickBuy(w, s) PROVE BuyInv'
    BY <2>3, StageBuy DEF TickBuy, BuyInv, QueueInv, StagedOwned
  <2>4. ASSUME NEW s \in Symbols, TickClose(w, s) \/ FlattenClose(w, s) \/ SweepClose(w, s)
        PROVE  BuyInv'
    <3>1. task[w].held[s] \in Nat /\ 0 \in Nat /\ task[w].kind # "idle"
      BY <2>4 DEF BuyInv, QueueInv, QueueTypeOK, Task, TickClose, FlattenClose, SweepClose
    <3> QED BY <2>4, <3>1, StageSell DEF TickClose, FlattenClose, SweepClose
  <2> QED BY <1>3, <2>1, <2>2, <2>3, <2>4 DEF TaskStep
<1> QED BY <1>1, <1>2, <1>3 DEF QueueNext

\* With one Celery process the account never has two buys of a symbol on their
\* way, however many symbols, rows and close-all requests there are.
THEOREM SoloOneBuy == ASSUME Solo PROVE QueueSpec => []OneBuyInFlight
<1>1. QueueInit => BuyInv
  BY InitInv DEF QueueInit, BuyInv, BuysFromTicks, OneBuyInFlight, Rows, Idle
<1>2. BuyInv /\ [QueueNext]_queueVars => BuyInv'
  BY StepBuy
<1>3. BuyInv => OneBuyInFlight
  BY DEF BuyInv
<1> QED BY <1>1, <1>2, <1>3, PTL DEF QueueSpec
-----------------------------------------------------------------------------
(* That sells do not overlap, for one worker process and no close-all beside *)
(* it: each of the three ways to queue a sell looks at the rows of the       *)
(* others, and none takes up a symbol twice.                                 *)

\* One transaction at a time, whoever runs it.
Alone == \A w1, w2 \in Workers : w1 = w2

\* A task is done with the symbols it has queued an order for.
StagedIsDone == \A w \in Workers : \A o \in task[w].staged : plan[o].symbol \notin task[w].todo

SellInv == QueueInv /\ StagedIsDone /\ OneSellOffered

\* A step that queues nothing offers no order that was not on offer.
LEMMA NoneOffered ==
  ASSUME SellInv, QueueInv',
         \A o \in Orders : Offered(o)' => Offered(o) /\ plan'[o] = plan[o],
         \A w \in Workers : task'[w].staged = {} \/ task'[w] = task[w]
  PROVE  SellInv'
<1>1. \A o \in Orders : Offered(o) => status[o] # "absent"
  BY DEF Offered, Claimable
<1>2. OneSellOffered'
  BY <1>1 DEF SellInv, OneSellOffered, Rows
<1>3. \A w \in Workers : \A o \in task'[w].staged : o \in Orders /\ plan'[o] = plan[o]
  BY DEF QueueInv, QueueTypeOK, StagedOwned, Offered, Task
<1>4. StagedIsDone'
  BY <1>3 DEF SellInv, StagedIsDone
<1> QED BY <1>2, <1>4 DEF SellInv

LEMMA OutsideSell ==
  ASSUME SellInv, (\E o \in Orders : Lapse(o)) \/ ClientStep
  PROVE  SellInv'
<1> USE DEF Offered, Claimable
<1>1. QueueInv'
  BY OutsideInv DEF SellInv
<1>2. task' = task /\ plan' = plan
  BY DEF Lapse, ClientStep, Claim, Report, AdoptHoldings, KillSwitch, SetAi
<1>3. \A o \in Orders : Offered(o)' => Offered(o)
  <2> USE DEF SellInv, QueueInv, QueueTypeOK
  <2>1. CASE \E o \in Orders : Lapse(o)
    BY <2>1 DEF Lapse
  <2>2. CASE \E o \in Orders : Claim(o)
    BY <2>2 DEF Claim
  <2>3. CASE \E o \in Orders, r \in Outcomes : status[o] = "claimed" /\ Report(o, r)
    BY <2>3 DEF Report, Outcomes
  <2>4. CASE \E seen \in [Symbols -> Holdings] : AdoptHoldings(seen)
    BY <2>4 DEF AdoptHoldings
  <2>5. CASE KillSwitch
    BY <2>5 DEF KillSwitch
  <2>6. CASE \E on \in BOOLEAN : SetAi(on)
    BY <2>6 DEF SetAi
  <2> QED BY <2>1, <2>2, <2>3, <2>4, <2>5, <2>6 DEF ClientStep
<1> QED BY <1>1, <1>2, <1>3, NoneOffered

LEMMA EndSell ==
  ASSUME SellInv, NEW w \in Workers, CommitTask(w) \/ AbortTask(w)
  PROVE  SellInv'
<1>1. QueueInv'
  BY EndInv DEF SellInv
<1>2. \A v \in Workers : task'[v].staged = {} \/ task'[v] = task[v]
  BY DEF CommitTask, AbortTask, Idle, SellInv, QueueInv, QueueTypeOK
<1>3. \A o \in Orders : Offered(o)' => Offered(o) /\ plan'[o] = plan[o]
  BY DEF CommitTask, AbortTask, Offered, Claimable, SellInv, QueueInv, QueueTypeOK, StagedOwned
<1> QED BY <1>1, <1>2, <1>3, NoneOffered

LEMMA StartSell ==
  ASSUME SellInv, NEW w \in Workers, NEW kind \in {"tick", "flatten", "sweep"}, Start(w, kind),
         kind = "tick" => w \in CeleryWorkers
  PROVE  SellInv'
<1>1. QueueInv'
  BY StartInv DEF SellInv
<1>2. \A v \in Workers : task'[v].staged = {} \/ task'[v] = task[v]
  BY DEF Start, SellInv, QueueInv, QueueTypeOK
<1>3. \A o \in Orders : Offered(o)' => Offered(o) /\ plan'[o] = plan[o]
  BY DEF Start, Offered, Claimable
<1> QED BY <1>1, <1>2, <1>3, NoneOffered

-----------------------------------------------------------------------------
(* Queueing an order *)

\* Staging takes the symbol off the task's list.
LEMMA StageDone ==
  ASSUME QueueInv, StagedIsDone, NEW w \in Workers, NEW s \in Symbols, NEW side \in Sides,
         NEW q \in Nat, NEW h \in Nat, Stage(w, s, side, q, h)
  PROVE  StagedIsDone'
<1> PICK o \in Orders :
      /\ status[o] = "absent"
      /\ status' = [status EXCEPT ![o] = "staged"]
      /\ plan' = [plan EXCEPT ![o] = [side |-> side, symbol |-> s, qty |-> q]]
      /\ task' = [task EXCEPT ![w] = Queued(task[w], s, o, h)]
      /\ UNCHANGED <<late, position, aiEnabled>>
  BY DEF Stage
<1>1. /\ task'[w].staged = task[w].staged \cup {o}
      /\ task'[w].todo = task[w].todo \ {s}
      /\ \A v \in Workers \ {w} : task'[v] = task[v]
  BY DEF Queued, QueueInv, QueueTypeOK, Task
<1>2. plan'[o].symbol = s /\ \A x \in Orders \ {o} : plan'[x] = plan[x]
  BY DEF QueueInv, QueueTypeOK
<1>3. \A v \in Workers : \A x \in task[v].staged : x \in Orders /\ x # o
  BY DEF QueueInv, QueueTypeOK, StagedOwned, Task
<1> QED BY <1>1, <1>2, <1>3 DEF StagedIsDone

LEMMA StageOther ==
  ASSUME SellInv, NEW w \in Workers, NEW s \in Symbols, NEW q \in Nat, NEW h \in Nat,
         task[w].kind # "idle", Stage(w, s, "buy", q, h)
  PROVE  SellInv'
<1> "buy" \in Sides
  BY DEF Sides
<1>1. QueueInv' /\ StagedIsDone'
  BY StageInv, StageDone DEF SellInv
<1> PICK o \in Orders :
      /\ plan'[o] = [side |-> "buy", symbol |-> s, qty |-> q]
      /\ \A x \in Orders \ {o} : plan'[x] = plan[x] /\ status'[x] = status[x]
      /\ late' = late
  BY StageRow DEF SellInv
<1>2. plan'[o].side = "buy"
  OBVIOUS
<1>3. OneSellOffered'
  BY <1>2 DEF SellInv, OneSellOffered, Rows, Offered, Claimable
<1> QED BY <1>1, <1>3 DEF SellInv

LEMMA StageOnly ==
  ASSUME Alone, SellInv, NEW w \in Workers, NEW s \in Symbols, NEW q \in Nat, NEW h \in Nat,
         task[w].kind # "idle", s \in task[w].todo,
         \A x \in Rows(s, "sell") : ~Claimable(x),
         Stage(w, s, "sell", q, h)
  PROVE  SellInv'
<1> "sell" \in Sides
  BY DEF Sides
<1>1. QueueInv' /\ StagedIsDone'
  BY StageInv, StageDone DEF SellInv
<1> PICK o \in Orders :
      /\ plan'[o] = [side |-> "sell", symbol |-> s, qty |-> q]
      /\ \A x \in Orders \ {o} : plan'[x] = plan[x] /\ status'[x] = status[x]
      /\ late' = late
  BY StageRow DEF SellInv
<1>2. ASSUME NEW x \in Rows(s, "sell"), Offered(x)
      PROVE  FALSE
  <2>1. x \in Orders /\ plan[x].symbol = s /\ status[x] = "staged"
    BY <1>2 DEF Rows, Offered
  <2>2. x \in task[w].staged
    BY <2>1 DEF SellInv, QueueInv, StagedOwned, Alone
  <2> QED BY <2>1, <2>2 DEF SellInv, StagedIsDone
<1>3. OneSellOffered'
  <2> SUFFICES ASSUME NEW r \in Symbols, NEW o1 \in Rows(r, "sell")', NEW o2 \in Rows(r, "sell")',
                      Offered(o1)', Offered(o2)', o1 # o2
               PROVE  FALSE
    BY DEF OneSellOffered
  <2>1. ASSUME NEW x \in Rows(r, "sell")', x # o, Offered(x)'
        PROVE  x \in Rows(r, "sell") /\ Offered(x)
    BY <2>1 DEF Rows, Offered, Claimable
  <2>2. CASE o1 # o /\ o2 # o
    <3>1. o1 \in Rows(r, "sell") /\ o2 \in Rows(r, "sell") /\ Offered(o1) /\ Offered(o2)
      BY <2>1, <2>2
    <3> QED BY <2>2, <3>1 DEF SellInv, OneSellOffered
  <2>3. CASE o1 = o \/ o2 = o
    <3>1. r = s
      BY <2>3 DEF Rows
    <3>2. CASE o1 = o
      BY <1>2, <2>1, <3>1, <3>2
    <3>3. CASE o2 = o
      BY <1>2, <2>1, <3>1, <3>3
    <3> QED BY <2>3, <3>2, <3>3
  <2> QED BY <2>2, <2>3
<1> QED BY <1>1, <1>3 DEF SellInv

LEMMA StepSell == Alone /\ SellInv /\ [QueueNext]_queueVars => SellInv'
<1> SUFFICES ASSUME Alone, SellInv, [QueueNext]_queueVars PROVE SellInv'
  OBVIOUS
<1>1. CASE UNCHANGED queueVars
  BY <1>1 DEF queueVars, SellInv, QueueInv, QueueTypeOK, StagedOwned, StagedIsDone,
              OneSellOffered, Rows, Offered, Claimable
<1>2. CASE (\E o \in Orders : Lapse(o)) \/ ClientStep
  BY <1>2, OutsideSell
<1>3. ASSUME NEW w \in Workers, TaskStep(w) PROVE SellInv'
  <2>1. CASE StartTick(w) \/ StartBreachTick(w) \/ StartCloseAll(w) \/ StartSweep(w)
    BY <2>1, StartSell DEF StartTick, StartBreachTick, StartCloseAll, StartSweep
  <2>2. CASE CommitTask(w) \/ AbortTask(w)
    BY <2>2, EndSell
  <2>3. ASSUME NEW s \in Symbols, TickBuy(w, s) PROVE SellInv'
    BY <2>3, StageOther, QueueAssumption DEF TickBuy, QueueAssumption
  <2>4. ASSUME NEW s \in Symbols, TickClose(w, s) \/ FlattenClose(w, s) \/ SweepClose(w, s)
        PROVE  SellInv'
    <3>1. task[w].held[s] \in Nat /\ 0 \in Nat /\ task[w].kind # "idle" /\ s \in task[w].todo
      BY <2>4 DEF SellInv, QueueInv, QueueTypeOK, Task, TickClose, FlattenClose, SweepClose
    <3>2. \A x \in Rows(s, "sell") : ~Claimable(x)
      BY <2>4 DEF TickClose, FlattenClose, SweepClose, HasPending, SweepSeesSell, Claimable
    <3> QED BY <2>4, <3>1, <3>2, StageOnly DEF TickClose, FlattenClose, SweepClose
  <2> QED BY <1>3, <2>1, <2>2, <2>3, <2>4 DEF TaskStep
<1> QED BY <1>1, <1>2, <1>3 DEF QueueNext

\* With one transaction at a time the phone is never offered two sells of one
\* position, however many symbols and rows there are.
THEOREM AloneOneSell == ASSUME Alone PROVE QueueSpec => []OneSellOffered
<1>1. QueueInit => SellInv
  BY InitInv DEF QueueInit, SellInv, StagedIsDone, OneSellOffered, Rows, Idle
<1>2. SellInv /\ [QueueNext]_queueVars => SellInv'
  BY StepSell
<1>3. SellInv => OneSellOffered
  BY DEF SellInv
<1> QED BY <1>1, <1>2, <1>3, PTL DEF QueueSpec
=============================================================================
