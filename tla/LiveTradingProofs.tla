--------------------------- MODULE LiveTradingProofs ---------------------------
(***************************************************************************)
(* Theorems of LiveTrading, for any devices, orders, symbols and workers,   *)
(* and any number of crashes.                                               *)
(***************************************************************************)
EXTENDS LiveTrading, ExecutionQueueProofs

\* A row others can see, and one that no phone will be offered any more.
Real(o)  == status[o] \notin {"absent", "staged"}
Taken(o) == status[o] \notin {"absent", "staged", "pending"}

\* A loop works on an order that is real, taken once its claim was granted, and
\* not yet swapped by this device until it broadcasts.
PhoneInv ==
  /\ \A d \in Devices : phone[d].pc \in Working => Real(phone[d].order)
  /\ \A d \in Devices : phone[d].pc \in Working \ {"claiming"} => Taken(phone[d].order)
  /\ \A d \in Devices : phone[d].pc \in {"claiming", "granted"} =>
       tx[<<d, phone[d].order>>] = "none"
  /\ \A d \in Devices, o \in Orders : tx[<<d, o>>] # "none" => Taken(o)

\* Requests in progress concern real rows; an answer goes to the loop that asked.
RaceInv ==
  /\ claims \in SUBSET Claims
  /\ kill \in [open : BOOLEAN, saw : BOOLEAN, victims : SUBSET Orders]
  /\ \A o \in kill.victims : Real(o)
  /\ \A c \in claims : Real(c.order)
  /\ \A c \in claims : c.heard => At(c.device, "claiming") /\ phone[c.device].order = c.order

LiveInv == QueueInv /\ PhoneTypeOK /\ PhoneInv /\ RaceInv

-----------------------------------------------------------------------------
(* How far a row has come is never undone *)

Onward == \A o \in Orders : (Real(o) => Real(o)') /\ (Taken(o) => Taken(o)')

LEMMA ServerOnward ==
  ASSUME QueueInv, ServerStep
  PROVE  Onward /\ QueueInv'
<1>1. QueueInv'
  BY TaskInv, LapseInv DEF ServerStep
<1>2. CASE \E o \in Orders : Lapse(o)
  BY <1>1, <1>2 DEF Lapse, Onward, Real, Taken
<1>3. ASSUME NEW w \in Workers, TaskStep(w) PROVE Onward
  <2>1. CASE StartTick(w) \/ StartBreachTick(w) \/ StartCloseAll(w) \/ StartSweep(w)
    BY <2>1 DEF StartTick, StartBreachTick, StartCloseAll, StartSweep, Start, Onward, Real, Taken
  <2>2. ASSUME NEW s \in Symbols, NEW side \in Sides, NEW q, NEW h, Stage(w, s, side, q, h)
        PROVE  Onward
    BY <2>2 DEF Stage, Onward, Real, Taken, QueueInv, QueueTypeOK
  <2>3. CASE \E s \in Symbols : TickBuy(w, s) \/ TickClose(w, s) \/ FlattenClose(w, s) \/ SweepClose(w, s)
    BY <2>2, <2>3 DEF TickBuy, TickClose, FlattenClose, SweepClose, Sides
  <2>4. CASE CommitTask(w) \/ AbortTask(w)
    BY <2>4 DEF CommitTask, AbortTask, Onward, Real, Taken, QueueInv, QueueTypeOK, StagedOwned
  <2> QED BY <1>3, <2>1, <2>3, <2>4 DEF TaskStep
<1> QED BY <1>1, <1>2, <1>3 DEF ServerStep

\* A step of the backend alone that only moves rows onward.
LEMMA BackendKeeps ==
  ASSUME LiveInv, QueueInv', Onward, UNCHANGED <<phoneVars, raceVars>>
  PROVE  LiveInv'
<1>1. PhoneTypeOK'
  BY DEF LiveInv, PhoneTypeOK, phoneVars
<1>2. PhoneInv'
  BY DEF LiveInv, PhoneTypeOK, PhoneInv, Onward, phoneVars, Loop, Working
<1>3. RaceInv'
  BY DEF LiveInv, RaceInv, Onward, phoneVars, raceVars, Claims, At
<1> QED BY <1>1, <1>2, <1>3 DEF LiveInv

LEMMA LiveInitInv == LiveInit => LiveInv
<1> SUFFICES ASSUME LiveInit PROVE LiveInv
  OBVIOUS
<1>1. QueueInv
  BY InitInv DEF LiveInit
<1>2. PhoneTypeOK
  BY HoldingsAssumption, PhoneAssumption
  DEF LiveInit, PhoneInit, PhoneTypeOK, Loop, Resting, Working, HoldingsAssumption, PhoneAssumption
<1>3. PhoneInv
  BY DEF LiveInit, PhoneInit, PhoneInv, Resting, Working
<1>4. RaceInv
  BY DEF LiveInit, NoKill, RaceInv
<1> QED BY <1>1, <1>2, <1>3, <1>4 DEF LiveInv

-----------------------------------------------------------------------------
(* The loop *)

\* The loop moves between polls, away from any order.
LEMMA PollKeeps ==
  ASSUME LiveInv, NEW d \in Devices,
         \/ PollSettings(d) \/ FetchPending(d) \/ EndPoll(d) \/ BalanceFails(d)
         \/ \E o \in Orders : ClaimRefused(d, o)
  PROVE  LiveInv'
<1>1. /\ UNCHANGED <<queueVars, raceVars, tx, wallet>>
      /\ failures' \in Nat
      /\ phone' = [phone EXCEPT ![d] = phone'[d]]
      /\ phone'[d] \in Loop /\ phone'[d].pc \notin Working /\ phone'[d].order \notin Orders
      /\ phone[d].pc \notin Working
  <2> USE DEF LiveInv, PhoneTypeOK, Loop, Working, At
  <2>1. CASE PollSettings(d)
    BY <2>1 DEF PollSettings, ReadSettings, QueueInv, QueueTypeOK
  <2>2. CASE FetchPending(d)
    BY <2>2 DEF FetchPending, ReceivePending
  <2>3. CASE EndPoll(d)
    BY <2>3, PhoneAssumption DEF EndPoll, FinishWalk, Resting, PhoneAssumption
  <2>4. CASE BalanceFails(d)
    BY <2>4 DEF BalanceFails, LeaveBalance, Failing
  <2>5. CASE \E o \in Orders : ClaimRefused(d, o)
    BY <2>5 DEF ClaimRefused, SkipRow
  <2> QED BY <2>1, <2>2, <2>3, <2>4, <2>5
<1>2. QueueInv'
  BY <1>1 DEF LiveInv, queueVars, QueueInv, QueueTypeOK, StagedOwned
<1>3. \A x \in Devices \ {d} : phone'[x] = phone[x]
  BY <1>1 DEF LiveInv, PhoneTypeOK
<1>4. PhoneTypeOK'
  BY <1>1, <1>3 DEF LiveInv, PhoneTypeOK
<1>5. PhoneInv'
  BY <1>1, <1>3 DEF LiveInv, PhoneInv, Real, Taken, queueVars, Working
<1>6. RaceInv'
  BY <1>1, <1>3 DEF LiveInv, RaceInv, Claims, Real, At, queueVars, raceVars, Working
<1> QED BY <1>2, <1>4, <1>5, <1>6 DEF LiveInv

LEMMA BalanceKeeps ==
  ASSUME LiveInv, NEW d \in Devices, ReportBalance(d)
  PROVE  LiveInv'
<1>1. QueueInv'
  BY AdoptInv DEF ReportBalance, LiveInv, PhoneTypeOK
<1>2. /\ UNCHANGED <<status, raceVars, tx, wallet, failures>>
      /\ phone' = [phone EXCEPT ![d] = phone'[d]]
      /\ phone'[d] \in Loop /\ phone'[d].pc \notin Working /\ phone'[d].order \notin Orders
      /\ phone[d].pc \notin Working
  BY DEF ReportBalance, AdoptHoldings, LeaveBalance, Goto, At, LiveInv, PhoneTypeOK, Loop, Working
<1>3. \A x \in Devices \ {d} : phone'[x] = phone[x]
  BY <1>2 DEF LiveInv, PhoneTypeOK
<1>4. PhoneTypeOK'
  BY <1>2, <1>3 DEF LiveInv, PhoneTypeOK
<1>5. PhoneInv'
  BY <1>2, <1>3 DEF LiveInv, PhoneInv, Real, Taken, Working
<1>6. RaceInv'
  BY <1>2, <1>3 DEF LiveInv, RaceInv, Claims, Real, At, raceVars, Working
<1> QED BY <1>1, <1>4, <1>5, <1>6 DEF LiveInv

LEMMA BeginClaimKeeps ==
  ASSUME LiveInv, NEW d \in Devices, NEW o \in Orders, BeginClaim(d, o)
  PROVE  LiveInv'
<1>1. /\ UNCHANGED <<queueVars, tx, wallet, failures, kill>>
      /\ phone' = [phone EXCEPT ![d] = phone'[d]]
      /\ phone'[d] \in Loop /\ phone'[d].pc = "claiming" /\ phone'[d].order = o
      /\ phone[d].pc = "walk"
  BY DEF BeginClaim, SendClaim, At, LiveInv, PhoneTypeOK, Loop
<1>2. QueueInv'
  BY <1>1 DEF LiveInv, queueVars, QueueInv, QueueTypeOK, StagedOwned
<1>3. \A x \in Devices \ {d} : phone'[x] = phone[x]
  BY <1>1 DEF LiveInv, PhoneTypeOK
<1>4. PhoneTypeOK'
  BY <1>1, <1>3 DEF LiveInv, PhoneTypeOK, Working
<1>5. status[o] = "pending" /\ status' = status
  BY <1>1 DEF BeginClaim, Claimable, queueVars
<1>6. PhoneInv'
  BY <1>1, <1>3, <1>5 DEF LiveInv, PhoneInv, Real, Taken, Working
<1>7. RaceInv'
  <2> DEFINE new == [device |-> d, order |-> o, heard |-> TRUE]
  <2>1. claims' = claims \cup {new} /\ new \in Claims
    BY DEF BeginClaim, Claims
  <2>2. ASSUME NEW c \in claims
        PROVE  Real(c.order)' /\ (c.heard => At(c.device, "claiming")' /\ phone'[c.device].order = c.order)
    BY <1>1, <1>3, <1>5 DEF LiveInv, RaceInv, Claims, Real, At
  <2>3. Real(new.order)' /\ At(new.device, "claiming")' /\ phone'[new.device].order = new.order
    BY <1>1, <1>5 DEF Real, At
  <2> HIDE DEF new
  <2> QED BY <1>1, <1>5, <2>1, <2>2, <2>3 DEF LiveInv, RaceInv, Real
<1> QED BY <1>2, <1>4, <1>6, <1>7 DEF LiveInv

LEMMA CommitClaimKeeps ==
  ASSUME LiveInv, NEW c \in claims, CommitClaim(c)
  PROVE  LiveInv'
<1>1. c \in Claims /\ c.order \in Orders /\ c.device \in Devices
  BY DEF LiveInv, RaceInv, Claims
<1>2. QueueInv'
  BY <1>1, ClaimInv DEF CommitClaim, LiveInv, RaceInv, Real
<1>3. \A o \in Orders : status'[o] = IF o = c.order THEN "claimed" ELSE status[o]
  BY <1>1 DEF CommitClaim, LiveInv, QueueInv, QueueTypeOK
<1>4. Onward /\ Taken(c.order)'
  BY <1>1, <1>3 DEF Onward, Real, Taken
<1>5. CASE ~c.heard
  <2>1. UNCHANGED <<phoneVars, kill>> /\ claims' \subseteq claims
    BY <1>5 DEF CommitClaim
  <2>2. PhoneTypeOK' /\ PhoneInv'
    BY <1>4, <2>1 DEF LiveInv, PhoneTypeOK, PhoneInv, Onward, phoneVars, Loop, Working
  <2>3. RaceInv'
    BY <1>4, <2>1 DEF LiveInv, RaceInv, Onward, phoneVars, Claims, At
  <2> QED BY <1>2, <2>2, <2>3 DEF LiveInv
<1>6. CASE c.heard
  <2>1. /\ UNCHANGED <<tx, wallet, failures, kill>>
        /\ phone' = [phone EXCEPT ![c.device].pc = "granted"]
        /\ phone[c.device].pc = "claiming" /\ phone[c.device].order = c.order
        /\ claims' = claims \ {c}
    BY <1>1, <1>6 DEF CommitClaim, ClaimGranted, Goto, At, LiveInv, RaceInv
  <2>2. /\ phone'[c.device].pc = "granted" /\ phone'[c.device].order = c.order
        /\ phone'[c.device] \in Loop
        /\ \A x \in Devices \ {c.device} : phone'[x] = phone[x]
    BY <1>1, <2>1 DEF LiveInv, PhoneTypeOK, Loop
  <2>3. PhoneTypeOK'
    BY <1>1, <2>1, <2>2 DEF LiveInv, PhoneTypeOK, Working
  <2>4. PhoneInv'
    BY <1>1, <1>4, <2>1, <2>2 DEF LiveInv, PhoneTypeOK, PhoneInv, Onward, Working, Loop
  <2>5. \A b \in claims \ {c} : b.heard => b.device # c.device
    BY <1>6, <2>1 DEF LiveInv, RaceInv, Claims
  <2>6. RaceInv'
    BY <1>4, <2>1, <2>2, <2>5 DEF LiveInv, RaceInv, Onward, Claims, At
  <2> QED BY <1>2, <2>3, <2>4, <2>6 DEF LiveInv
<1> QED BY <1>5, <1>6

\* The loop goes on with the order it holds.
LEMMA SwapKeeps ==
  ASSUME LiveInv, NEW d \in Devices, ExecuteSwap(d) \/ AwaitReceipt(d)
  PROVE  LiveInv'
<1> DEFINE o == phone[d].order
<1>1. /\ UNCHANGED <<queueVars, raceVars, wallet>> /\ failures' \in Nat
      /\ phone[d].pc \in {"granted", "waiting"}
      /\ phone'[d].pc \in {"waiting", "done", "undone"}
      /\ phone'[d].order = o /\ phone'[d] \in Loop
      /\ phone' \in [Devices -> Loop]
      /\ \A x \in Devices \ {d} : phone'[x] = phone[x]
      /\ tx' \in [Devices \X Orders -> {"none", "sent", "mined", "reverted"}]
      /\ \A p \in Devices \X Orders : p # <<d, o>> => tx'[p] = tx[p]
  <2> USE DEF LiveInv, PhoneTypeOK, At, Goto
  <2>1. ASSUME NEW pc \in {"waiting", "done", "undone"}, Goto(d, pc)
        PROVE  /\ phone'[d].pc \in {"waiting", "done", "undone"}
               /\ phone'[d].order = o /\ phone'[d] \in Loop
               /\ phone' \in [Devices -> Loop]
               /\ \A x \in Devices \ {d} : phone'[x] = phone[x]
    BY <2>1 DEF Loop
  <2>2. phone[d].pc \in Working => o \in Orders
    OBVIOUS
  <2>3. CASE At(d, "granted") /\ Broadcast(d, plan[o]) /\ UNCHANGED <<queueVars, raceVars>>
    BY <2>1, <2>2, <2>3 DEF Broadcast, Working
  <2>4. CASE RefuseSwap(d) /\ UNCHANGED <<queueVars, raceVars>>
    BY <2>1, <2>4 DEF RefuseSwap
  <2>5. CASE SeeReceipt(d) /\ UNCHANGED <<queueVars, raceVars>>
    BY <2>1, <2>5 DEF SeeReceipt
  <2>6. CASE ReceiptTimeout(d) /\ UNCHANGED <<queueVars, raceVars>>
    BY <2>1, <2>6 DEF ReceiptTimeout, Failing
  <2> QED BY <2>3, <2>4, <2>5, <2>6 DEF ExecuteSwap, AwaitReceipt
<1>2. QueueInv'
  BY <1>1 DEF LiveInv, queueVars, QueueInv, QueueTypeOK, StagedOwned
<1>3. o \in Orders /\ Taken(o)
  BY <1>1 DEF LiveInv, PhoneTypeOK, PhoneInv, Working
<1>4. PhoneTypeOK'
  BY <1>1, <1>3 DEF LiveInv, PhoneTypeOK, Working
<1>5. status' = status
  BY <1>1 DEF queueVars
<1>6. PhoneInv'
  <2>1. \A x \in Devices \ {d} : \A y \in Orders : tx'[<<x, y>>] = tx[<<x, y>>]
    BY <1>1
  <2>2. \A x \in Devices : phone[x].pc \in Working => phone[x].order \in Orders
    BY DEF LiveInv, PhoneTypeOK
  <2>3. \A y \in Orders : tx'[<<d, y>>] # "none" => Taken(y)
    BY <1>1, <1>3 DEF LiveInv, PhoneInv
  <2> QED BY <1>1, <1>3, <1>5, <2>1, <2>2, <2>3 DEF LiveInv, PhoneInv, Real, Taken, Working
<1>7. RaceInv'
  BY <1>1, <1>5 DEF LiveInv, RaceInv, Claims, Real, At, raceVars
<1> QED BY <1>2, <1>4, <1>6, <1>7 DEF LiveInv

LEMMA ReportKeeps ==
  ASSUME LiveInv, NEW d \in Devices, ReportResult(d)
  PROVE  LiveInv'
<1> DEFINE o == phone[d].order
<1> PICK r \in Outcomes : Report(o, r)
  BY DEF ReportResult, Outcomes
<1>1. o \in Orders
  BY DEF ReportResult, FinishRow, LiveInv, PhoneTypeOK, Working
<1>2. QueueInv'
  BY <1>1, ReportInv DEF LiveInv
<1>3. Onward
  BY <1>1 DEF Onward, Real, Taken, Report, Outcomes, LiveInv, QueueInv, QueueTypeOK
<1>4. /\ UNCHANGED <<tx, wallet, failures, raceVars>>
      /\ phone' \in [Devices -> Loop]
      /\ phone'[d].pc = "walk" /\ phone'[d].order \notin Orders
      /\ phone[d].pc \in {"done", "undone"}
      /\ \A x \in Devices \ {d} : phone'[x] = phone[x]
  <2> DEFINE f == [phone[d] EXCEPT !.pc = "walk", !.order = NoOrder, !.list = @ \ {o}]
  <2>1. /\ UNCHANGED <<tx, wallet, failures, raceVars>> /\ phone' = [phone EXCEPT ![d] = f]
        /\ phone[d].pc \in {"done", "undone"}
    BY DEF ReportResult, FinishRow
  <2>2. phone \in [Devices -> Loop]
    BY DEF LiveInv, PhoneTypeOK
  <2>3. f \in Loop /\ f.pc = "walk" /\ f.order \notin Orders
    BY <2>2, PhoneAssumption DEF Loop, PhoneAssumption
  <2> HIDE DEF f
  <2> QED BY <2>1, <2>2, <2>3
<1>5. PhoneTypeOK'
  BY <1>4 DEF LiveInv, PhoneTypeOK, Working
<1>6. PhoneInv'
  BY <1>3, <1>4 DEF LiveInv, PhoneTypeOK, PhoneInv, Onward, Working
<1>7. RaceInv'
  BY <1>3, <1>4 DEF LiveInv, RaceInv, Claims, Onward, At, raceVars
<1> QED BY <1>2, <1>5, <1>6, <1>7 DEF LiveInv

LEMMA DieKeeps ==
  ASSUME LiveInv, NEW d \in Devices, LoopDies(d)
  PROVE  LiveInv'
<1>1. /\ UNCHANGED <<queueVars, tx, wallet, kill>> /\ failures' \in Nat
      /\ phone' = [phone EXCEPT ![d] = Resting]
      /\ Resting \in Loop /\ Resting.pc = "idle" /\ Resting.order \notin Orders
      /\ claims' = {[c EXCEPT !.heard = @ /\ c.device # d] : c \in claims}
  BY PhoneAssumption
  DEF LoopDies, LoseLoop, Failing, Resting, Loop, PhoneAssumption, LiveInv, PhoneTypeOK
<1>2. phone'[d] = Resting /\ \A x \in Devices \ {d} : phone'[x] = phone[x]
  BY <1>1 DEF LiveInv, PhoneTypeOK
<1>3. QueueInv'
  BY <1>1 DEF LiveInv, queueVars, QueueInv, QueueTypeOK, StagedOwned
<1>4. PhoneTypeOK'
  BY <1>1, <1>2 DEF LiveInv, PhoneTypeOK, Working
<1>5. status' = status
  BY <1>1 DEF queueVars
<1>6. PhoneInv'
  BY <1>1, <1>2, <1>5 DEF LiveInv, PhoneInv, Real, Taken, Working
<1>7. ASSUME NEW b \in claims'
      PROVE  /\ b \in Claims /\ Real(b.order)
             /\ b.heard => b.device # d /\ At(b.device, "claiming") /\ phone[b.device].order = b.order
  <2> PICK c \in claims : b = [c EXCEPT !.heard = @ /\ c.device # d]
    BY <1>1, <1>7
  <2>1. c \in Claims
    BY DEF LiveInv, RaceInv
  <2>2. b \in Claims /\ b.order = c.order /\ b.device = c.device
    BY <2>1 DEF Claims
  <2>3. b.heard = (c.heard /\ c.device # d)
    BY <2>1 DEF Claims
  <2> QED BY <2>2, <2>3 DEF LiveInv, RaceInv
<1>8. RaceInv'
  BY <1>1, <1>2, <1>5, <1>7 DEF LiveInv, RaceInv, Claims, Real, At
<1> QED BY <1>3, <1>4, <1>6, <1>8 DEF LiveInv

-----------------------------------------------------------------------------
(* The chain and the user *)

LEMMA ChainKeeps ==
  ASSUME LiveInv, NEW d \in Devices, NEW o \in Orders, ChainStep(d, o)
  PROVE  LiveInv'
<1>1. /\ UNCHANGED <<queueVars, raceVars, phone, failures>>
      /\ tx[<<d, o>>] = "sent"
      /\ tx' \in [Devices \X Orders -> {"none", "sent", "mined", "reverted"}]
      /\ \A p \in Devices \X Orders : p # <<d, o>> => tx'[p] = tx[p]
  BY DEF ChainStep, Revert, Mine, LiveInv, PhoneTypeOK
<1>2. Taken(o) /\ plan[o] \in Plan
  BY <1>1 DEF LiveInv, PhoneInv, Taken, QueueInv, QueueTypeOK
<1>3. wallet' \in [Symbols -> Nat]
  <2>1. wallet \in [Symbols -> Nat]
    BY DEF LiveInv, PhoneTypeOK
  <2>2. /\ plan[o].symbol \in Symbols /\ plan[o].qty \in Nat
        /\ plan[o].side = "buy" \/ plan[o].side = "sell"
    BY <1>2 DEF Plan, Sides
  <2>3. CASE Mine(d, o, plan[o])
    BY <2>1, <2>2, <2>3 DEF Mine
  <2> QED BY <2>1, <2>3 DEF ChainStep, Revert
<1>4. QueueInv'
  BY <1>1 DEF LiveInv, queueVars, QueueInv, QueueTypeOK, StagedOwned
<1>5. PhoneTypeOK'
  BY <1>1, <1>3 DEF LiveInv, PhoneTypeOK
<1>6. status' = status
  BY <1>1 DEF queueVars
<1>7. PhoneInv'
  <2>1. \A x \in Devices : phone[x].pc \in Working => phone[x].order \in Orders
    BY DEF LiveInv, PhoneTypeOK
  <2>2. \A x \in Devices, y \in Orders : tx'[<<x, y>>] = "none" <=> tx[<<x, y>>] = "none"
    BY <1>1 DEF ChainStep, Revert, Mine, LiveInv, PhoneTypeOK
  <2> QED BY <1>1, <1>6, <2>1, <2>2 DEF LiveInv, PhoneInv, Real, Taken, Working
<1>8. RaceInv'
  BY <1>1, <1>6 DEF LiveInv, RaceInv, Real, At, raceVars
<1> QED BY <1>4, <1>5, <1>7, <1>8 DEF LiveInv

LEMMA UserKeeps ==
  ASSUME LiveInv, UserStep
  PROVE  LiveInv'
<1>1. CASE BeginKill
  <2>1. QueueInv' /\ PhoneTypeOK'
    BY <1>1 DEF BeginKill, LiveInv, queueVars, phoneVars, QueueInv, QueueTypeOK, StagedOwned, PhoneTypeOK
  <2>2. PhoneInv'
    BY <1>1 DEF BeginKill, LiveInv, queueVars, phoneVars, PhoneInv, Real, Taken
  <2>3. RaceInv'
    BY <1>1 DEF BeginKill, LiveInv, queueVars, phoneVars, RaceInv, Real, At, PendingBuys, QueueInv, QueueTypeOK
  <2> QED BY <2>1, <2>2, <2>3 DEF LiveInv
<1>2. CASE CommitKill
  <2>1. /\ kill.victims \in SUBSET Orders /\ "cancelled" \in Statuses \ {"absent", "staged"}
        /\ \A o \in kill.victims : status[o] \notin {"absent", "staged"}
        /\ position' \in [Symbols -> Nat] /\ aiEnabled' \in BOOLEAN
        /\ UNCHANGED <<plan, late, task>>
    BY <1>2 DEF CommitKill, LiveInv, RaceInv, Real, QueueInv, QueueTypeOK, Statuses
  <2>2. status' = [o \in Orders |-> IF o \in kill.victims THEN "cancelled" ELSE status[o]]
    BY <1>2 DEF CommitKill
  <2>3. QueueInv'
    BY <2>1, <2>2, RewriteInv DEF LiveInv
  <2>4. Onward
    BY <2>2 DEF Onward, Real, Taken
  <2>5. PhoneTypeOK' /\ PhoneInv'
    BY <1>2, <2>4 DEF CommitKill, LiveInv, phoneVars, PhoneTypeOK, PhoneInv, Onward, Working
  <2>6. RaceInv'
    BY <1>2, <2>4 DEF CommitKill, NoKill, LiveInv, phoneVars, RaceInv, Onward, Claims, At
  <2> QED BY <2>3, <2>5, <2>6 DEF LiveInv
<1>3. CASE \E on \in BOOLEAN : SetAi(on) /\ UNCHANGED <<phoneVars, raceVars>>
  <2>1. QueueInv'
    BY <1>3, SetAiInv DEF LiveInv
  <2>2. Onward
    BY <1>3 DEF SetAi, Onward, Real, Taken
  <2> QED BY <1>3, <2>1, <2>2, BackendKeeps
<1> QED BY <1>1, <1>2, <1>3 DEF UserStep

LEMMA LiveStepKeeps == LiveInv /\ [LiveNext]_liveVars => LiveInv'
<1> SUFFICES ASSUME LiveInv, [LiveNext]_liveVars PROVE LiveInv'
  OBVIOUS
<1>1. CASE UNCHANGED liveVars
  <2>1. QueueInv' /\ Onward
    BY <1>1 DEF liveVars, queueVars, LiveInv, QueueInv, QueueTypeOK, StagedOwned, Onward, Real, Taken
  <2> QED BY <1>1, <2>1, BackendKeeps DEF liveVars
<1>2. CASE ServerStep
  <2>1. QueueInv' /\ Onward
    BY <1>2, ServerOnward DEF LiveInv
  <2> QED BY <1>2, <2>1, BackendKeeps DEF ServerStep
<1>3. ASSUME NEW d \in Devices, LoopStep(d) PROVE LiveInv'
  BY <1>3, PollKeeps, BalanceKeeps, BeginClaimKeeps, SwapKeeps, ReportKeeps DEF LoopStep
<1> QED BY <1>1, <1>2, <1>3, PollKeeps, DieKeeps, CommitClaimKeeps, ChainKeeps, UserKeeps
        DEF LiveNext, SystemStep

THEOREM LiveInvariant == LiveSpec => []LiveInv
BY LiveInitInv, LiveStepKeeps, PTL DEF LiveSpec

\* Types, with a phone's order in Orders exactly while it works on one.
THEOREM LiveTypeCorrect == LiveSpec => []LiveTypeOK
<1>1. LiveInv => LiveTypeOK
  BY DEF LiveInv, QueueInv, RaceInv, LiveTypeOK
<1> QED BY <1>1, LiveInvariant, PTL

\* No device swaps one order twice, whatever crashes, answers lost, receipt
\* timeouts and kill switches come between.
THEOREM OneSwapPerDevice == LiveSpec => []NoSecondSwap
<1>1. LiveInv => NoSecondSwap
  BY DEF LiveInv, PhoneInv, NoSecondSwap, Granted, At
<1> QED BY <1>1, LiveInvariant, PTL

-----------------------------------------------------------------------------
(* Refinement: live trading implements the claim protocol *)

stages == [p \in Devices \X Orders |-> StageOf(p[1], p[2])]

\* An order stays where it was for this device, or it is over.
Declines(d, o) ==
  \/ StageOf(d, o)' = StageOf(d, o)
  \/ StageOf(d, o) \in {"open", "granted"} /\ StageOf(d, o)' = "closed"

LEMMA DeclineIsClose ==
  ASSUME \A d \in Devices, o \in Orders : Declines(d, o)
  PROVE  Protocol!Next
<1> DEFINE P == {p \in Devices \X Orders : StageOf(p[1], p[2])' # StageOf(p[1], p[2])}
<1>1. \A p \in P : StageOf(p[1], p[2]) \in {"open", "granted"} /\ StageOf(p[1], p[2])' = "closed"
  BY DEF Declines
<1>2. P \in SUBSET Protocol!Pairs
  BY DEF Protocol!Pairs
<1>3. \A p \in P : stages[p] \in {"open", "granted"}
  BY <1>1 DEF stages
<1>4. stages' = [p \in Devices \X Orders |-> IF p \in P THEN "closed" ELSE stages[p]]
  BY <1>1 DEF stages
<1>5. Protocol!Close
  BY <1>2, <1>3, <1>4 DEF stages, Protocol!Close, Protocol!Put, Protocol!Pairs
<1> QED BY <1>5 DEF Protocol!Next

LEMMA CommitOffers ==
  ASSUME LiveInv, NEW w \in Workers, CommitTask(w), UNCHANGED <<phoneVars, raceVars>>
  PROVE  Protocol!Next
<1> DEFINE O == task[w].staged
<1>1. O \in SUBSET Orders /\ \A o \in O : status[o] = "staged"
  BY DEF LiveInv, QueueInv, QueueTypeOK, StagedOwned, Task
<1>2. \A d \in Devices, o \in O : StageOf(d, o) = "unborn" /\ StageOf(d, o)' = "open"
  BY <1>1 DEF LiveInv, PhoneInv, Working, Real, Taken, StageOf, Granted, At, CommitTask, phoneVars
<1>3. \A d \in Devices, o \in Orders \ O : StageOf(d, o)' = StageOf(d, o)
  BY DEF StageOf, Granted, At, CommitTask, phoneVars
<1>4. stages' = [p \in Devices \X Orders |-> IF p \in Devices \X O THEN "open" ELSE stages[p]]
  BY <1>1, <1>2, <1>3 DEF stages
<1>5. \A p \in Devices \X O : stages[p] = "unborn"
  BY <1>1, <1>2 DEF stages
<1> QED BY <1>1, <1>4, <1>5 DEF stages, Protocol!Next, Protocol!Offer, Protocol!Put, Protocol!Pairs

LEMMA ClaimGrants ==
  ASSUME LiveInv, NEW c \in claims, CommitClaim(c), c.heard
  PROVE  Protocol!Next
<1> DEFINE d == c.device
           o == c.order
           L == {p \in Devices \X Orders : p[2] = o /\ p[1] # d /\ StageOf(p[1], p[2]) = "open"
                                         /\ StageOf(p[1], p[2])' # "open"}
<1>1. d \in Devices /\ o \in Orders /\ phone[d].pc = "claiming" /\ phone[d].order = o
  BY DEF LiveInv, RaceInv, Claims, At
<1>2. /\ status' = [status EXCEPT ![o] = "claimed"] /\ tx' = tx
      /\ phone' = [phone EXCEPT ![d].pc = "granted"]
  BY DEF CommitClaim, ClaimGranted, Goto
<1>3. /\ phone'[d].pc = "granted" /\ phone'[d].order = o
      /\ \A x \in Devices \ {d} : phone'[x] = phone[x]
      /\ \A y \in Orders \ {o} : status'[y] = status[y]
      /\ status'[o] = "claimed"
  BY <1>1, <1>2 DEF LiveInv, PhoneTypeOK, Loop, QueueInv, QueueTypeOK
<1>4. StageOf(d, o) = "open" /\ StageOf(d, o)' = "granted"
  BY <1>1, <1>3 DEF LiveInv, PhoneInv, StageOf, Granted, At
<1>5. \A y \in Orders \ {o} : StageOf(d, y)' = StageOf(d, y)
  BY <1>1, <1>2, <1>3 DEF StageOf, Granted, At
<1>6. ASSUME NEW x \in Devices \ {d}, NEW y \in Orders
      PROVE  /\ y # o => StageOf(x, y)' = StageOf(x, y)
             /\ StageOf(x, o)' # StageOf(x, o) => StageOf(x, o) = "open" /\ StageOf(x, o)' = "closed"
  <2>1. Real(o)
    BY DEF LiveInv, RaceInv
  <2> QED BY <1>2, <1>3, <2>1 DEF StageOf, Granted, At, Real
<1>7. stages' = [p \in Devices \X Orders |-> IF p = <<d, o>> THEN "granted"
                                            ELSE IF p \in L THEN "closed" ELSE stages[p]]
  <2>1. ASSUME NEW x \in Devices, NEW y \in Orders
        PROVE  StageOf(x, y)' = IF <<x, y>> = <<d, o>> THEN "granted"
                                ELSE IF <<x, y>> \in L THEN "closed" ELSE StageOf(x, y)
    BY <1>4, <1>5, <1>6
  <2> HIDE DEF L, d, o
  <2> QED BY <2>1 DEF stages
<1>8. L \in SUBSET {p \in Protocol!Pairs : p[2] = o /\ p[1] # d /\ stages[p] = "open"}
  BY DEF Protocol!Pairs, stages
<1>9. stages[<<d, o>>] = "open"
  BY <1>1, <1>4 DEF stages
<1>10. Protocol!Grant
  <2> SUFFICES \E e \in Devices, r \in Orders :
                 \E M \in SUBSET {p \in Protocol!Pairs : p[2] = r /\ p[1] # e /\ stages[p] = "open"} :
                   /\ stages[<<e, r>>] = "open"
                   /\ stages' = [p \in Devices \X Orders |-> IF p = <<e, r>> THEN "granted"
                                 ELSE IF p \in M THEN "closed" ELSE stages[p]]
    BY DEF stages, Protocol!Grant, Protocol!Pairs
  <2> HIDE DEF L, d, o
  <2> QED BY <1>1, <1>7, <1>8, <1>9
<1> QED BY <1>10 DEF Protocol!Next

Broadcasts(d) == ExecuteSwap(d) /\ At(d, "granted") /\ Broadcast(d, plan[phone[d].order])

LEMMA BroadcastSwaps ==
  ASSUME LiveInv, NEW d \in Devices, Broadcasts(d)
  PROVE  Protocol!Next
<1>1. PICK o \in Orders : o = phone[d].order
  BY DEF LiveInv, PhoneTypeOK, Working, At, Broadcasts
<1>2. /\ phone'[d].pc = "waiting" /\ phone'[d].order = o
      /\ \A x \in Devices \ {d} : phone'[x] = phone[x]
      /\ tx'[<<d, o>>] = "sent"
      /\ \A p \in Devices \X Orders : p # <<d, o>> => tx'[p] = tx[p]
      /\ status' = status
  BY <1>1 DEF Broadcasts, ExecuteSwap, Broadcast, Goto, LiveInv, PhoneTypeOK, Loop, queueVars
<1>3. StageOf(d, o) = "granted" /\ StageOf(d, o)' = "swapped"
  BY <1>1, <1>2 DEF Broadcasts, StageOf, Granted, At
<1>4. \A x \in Devices, y \in Orders : <<x, y>> # <<d, o>> => StageOf(x, y)' = StageOf(x, y)
  BY <1>1, <1>2 DEF Broadcasts, StageOf, Granted, At
<1>5. stages' = [p \in Devices \X Orders |-> IF p \in {<<d, o>>} THEN "swapped" ELSE stages[p]]
  <2>1. ASSUME NEW x \in Devices, NEW y \in Orders
        PROVE  StageOf(x, y)' = IF <<x, y>> = <<d, o>> THEN "swapped" ELSE StageOf(x, y)
    BY <1>3, <1>4
  <2> QED BY <2>1 DEF stages
<1>6. stages[<<d, o>>] = "granted" /\ <<d, o>> \in Devices \X Orders
  BY <1>1, <1>3 DEF stages
<1> QED BY <1>5, <1>6 DEF stages, Protocol!Next, Protocol!Swap, Protocol!Put, Protocol!Pairs

\* What a device's loop does away from claims and swaps.
LEMMA LoopDeclines ==
  ASSUME LiveInv, NEW d \in Devices,
         \/ LoopStep(d) /\ ~Broadcasts(d)
         \/ BalanceFails(d) \/ LoopDies(d),
         NEW x \in Devices, NEW y \in Orders
  PROVE  Declines(x, y)
<1> USE DEF LiveInv, PhoneTypeOK, At
<1>1. ASSUME phone[d].pc \notin {"claiming", "granted"}, phone'[d].pc \notin {"claiming", "granted"},
             \A z \in Devices \ {d} : phone'[z] = phone[z], tx' = tx, status' = status
      PROVE  Declines(x, y)
  BY <1>1 DEF Declines, StageOf, Granted
<1>2. CASE \/ PollSettings(d) \/ FetchPending(d) \/ EndPoll(d) \/ BalanceFails(d) \/ ReportBalance(d)
  <2> USE DEF Goto, Loop, queueVars
  <2>1. CASE PollSettings(d)
    BY <1>1, <2>1 DEF PollSettings, ReadSettings
  <2>2. CASE FetchPending(d)
    BY <1>1, <2>2 DEF FetchPending, ReceivePending
  <2>3. CASE EndPoll(d)
    BY <1>1, <2>3 DEF EndPoll, FinishWalk, Resting
  <2>4. CASE BalanceFails(d) \/ ReportBalance(d)
    BY <1>1, <2>4 DEF BalanceFails, ReportBalance, LeaveBalance, AdoptHoldings
  <2> QED BY <1>2, <2>1, <2>2, <2>3, <2>4
<1>3. CASE \E o \in Orders : BeginClaim(d, o) \/ ClaimRefused(d, o)
  BY <1>3 DEF BeginClaim, ClaimRefused, SendClaim, SkipRow, Claimable, Loop,
              Declines, StageOf, Granted, queueVars
<1>4. CASE RefuseSwap(d) /\ UNCHANGED <<queueVars, raceVars>>
  BY <1>4 DEF RefuseSwap, Goto, Loop, PhoneInv, Working, Taken, Declines, StageOf, Granted, queueVars
<1>5. CASE AwaitReceipt(d)
  BY <1>5 DEF AwaitReceipt, SeeReceipt, ReceiptTimeout, Goto, Loop, Declines, StageOf, Granted, queueVars
<1>6. CASE ReportResult(d)
  BY <1>6 DEF ReportResult, FinishRow, Report, PhoneInv, Working, Taken, Loop, QueueInv, QueueTypeOK,
              Declines, StageOf, Granted
<1>7. CASE LoopDies(d)
  BY <1>7 DEF LoopDies, LoseLoop, Resting, PhoneInv, Working, Real, Taken, Declines, StageOf, Granted,
              queueVars
<1> QED BY <1>2, <1>3, <1>4, <1>5, <1>6, <1>7 DEF LoopStep, ExecuteSwap, Broadcasts

LEMMA LateClaimDeclines ==
  ASSUME LiveInv, NEW c \in claims, CommitClaim(c), ~c.heard, NEW x \in Devices, NEW y \in Orders
  PROVE  Declines(x, y)
BY DEF CommitClaim, LiveInv, RaceInv, Claims, QueueInv, QueueTypeOK, Real, phoneVars,
       Declines, StageOf, Granted, At

LEMMA OthersDecline ==
  ASSUME LiveInv, NEW x \in Devices, NEW y \in Orders,
         \/ ServerStep /\ ~(\E w \in Workers : CommitTask(w))
         \/ \E d \in Devices, o \in Orders : ChainStep(d, o)
         \/ UserStep
  PROVE  Declines(x, y)
<1> USE DEF Declines, StageOf, Granted, At, queueVars, phoneVars
<1>1. ASSUME NEW d \in Devices, NEW o \in Orders, ChainStep(d, o) PROVE Declines(x, y)
  BY <1>1 DEF ChainStep, Revert, Mine, LiveInv, PhoneTypeOK
<1>2. CASE BeginKill
  BY <1>2 DEF BeginKill
<1>3. CASE CommitKill
  BY <1>3 DEF CommitKill, LiveInv, RaceInv, Real
<1>4. CASE \E on \in BOOLEAN : SetAi(on) /\ UNCHANGED <<phoneVars, raceVars>>
  BY <1>4 DEF SetAi
<1>5. CASE ServerStep /\ ~(\E w \in Workers : CommitTask(w))
  <2>1. CASE \E o \in Orders : Lapse(o)
    BY <1>5, <2>1 DEF ServerStep, Lapse
  <2>2. ASSUME NEW w \in Workers, TaskStep(w), ~CommitTask(w)
        PROVE  status'[y] = status[y] \/ (status[y] \in {"absent", "staged"} /\ status'[y] \in {"absent", "staged"})
    <3> USE DEF LiveInv, QueueInv, QueueTypeOK
    <3>1. ASSUME NEW s \in Symbols, NEW side \in Sides, NEW q, NEW h, Stage(w, s, side, q, h)
          PROVE  status'[y] = status[y] \/ (status[y] = "absent" /\ status'[y] = "staged")
      BY <3>1 DEF Stage
    <3>2. CASE AbortTask(w)
      BY <3>2 DEF AbortTask, StagedOwned
    <3>3. CASE StartTick(w) \/ StartBreachTick(w) \/ StartCloseAll(w) \/ StartSweep(w)
      BY <3>3 DEF StartTick, StartBreachTick, StartCloseAll, StartSweep, Start
    <3>4. CASE \E s \in Symbols : TickBuy(w, s) \/ TickClose(w, s) \/ FlattenClose(w, s) \/ SweepClose(w, s)
      BY <3>1, <3>4 DEF TickBuy, TickClose, FlattenClose, SweepClose, Sides
    <3> QED BY <2>2, <3>2, <3>3, <3>4 DEF TaskStep
  <2> QED BY <1>5, <2>1, <2>2 DEF ServerStep
<1> QED BY <1>1, <1>2, <1>3, <1>4, <1>5 DEF UserStep

LEMMA StepRefines ==
  LiveInv /\ [LiveNext]_liveVars => [Protocol!Next]_stages
<1> SUFFICES ASSUME LiveInv, [LiveNext]_liveVars PROVE [Protocol!Next]_stages
  OBVIOUS
<1>1. CASE UNCHANGED liveVars
  BY <1>1 DEF liveVars, queueVars, phoneVars, stages, StageOf, Granted, At
<1>2. CASE ServerStep /\ (\E w \in Workers : CommitTask(w))
  BY <1>2, CommitOffers DEF ServerStep
<1>3. ASSUME NEW d \in Devices, Broadcasts(d)
      PROVE  Protocol!Next
  BY <1>3, BroadcastSwaps
<1>4. ASSUME NEW d \in Devices,
             \/ LoopStep(d) /\ ~Broadcasts(d)
             \/ BalanceFails(d) \/ LoopDies(d)
      PROVE  Protocol!Next
  BY <1>4, LoopDeclines, DeclineIsClose
<1>5. ASSUME NEW c \in claims, CommitClaim(c) PROVE Protocol!Next
  BY <1>5, ClaimGrants, LateClaimDeclines, DeclineIsClose
<1>6. CASE \/ ServerStep /\ ~(\E w \in Workers : CommitTask(w))
           \/ \E d \in Devices, o \in Orders : ChainStep(d, o)
           \/ UserStep
  BY <1>6, OthersDecline, DeclineIsClose
<1> QED BY <1>1, <1>2, <1>3, <1>4, <1>5, <1>6 DEF LiveNext, SystemStep

\* Live trading implements the claim protocol: per device and order, an offer,
\* at most one grant, at most one swap, and nothing after it is over.
THEOREM RefinesAtMostOnce == LiveSpec => ImplementsAtMostOnce
<1>1. LiveInit => Protocol!Init
  BY DEF LiveInit, QueueInit, PhoneInit, Resting, StageOf, Granted, At, Protocol!Init, Protocol!Pairs
<1>2. LiveInv /\ [LiveNext]_liveVars => [Protocol!Next]_stages
  BY StepRefines
<1> QED BY <1>1, <1>2, LiveInvariant, PTL DEF LiveSpec, ImplementsAtMostOnce, Protocol!Spec, stages
=============================================================================
