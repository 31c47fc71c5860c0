---------------------------- MODULE OutcomeProofs ----------------------------
(***************************************************************************)
(* What becomes of an order in LiveTrading: an executed one was swapped, a  *)
(* missed one is never taken up again, and what is booked is in the wallet. *)
(* For any devices, orders and workers, and any number of failures.         *)
(***************************************************************************)
EXTENDS LiveTradingProofs

\* A loop that reports success has seen its swap mined.
MinedInv ==
  /\ \A d \in Devices : At(d, "done") => tx[<<d, phone[d].order>>] = "mined"
  /\ ExecutedMeansMined

\* What a step may do to swaps and rows.
Truthful ==
  /\ \A d \in Devices, o \in Orders : tx[<<d, o>>] = "mined" => tx'[<<d, o>>] = "mined"
  /\ \A o \in Orders : status'[o] = "executed" =>
       status[o] = "executed" \/ \E d \in Devices : At(d, "done") /\ phone[d].order = o
  /\ \A d \in Devices : At(d, "done")' =>
       \/ At(d, "done") /\ phone'[d].order = phone[d].order
       \/ tx'[<<d, phone'[d].order>>] = "mined"

LEMMA TruthfulKeeps ==
  ASSUME LiveInv, MinedInv, Truthful
  PROVE  MinedInv'
<1>1. \A d \in Devices : At(d, "done") => phone[d].order \in Orders
  BY DEF LiveInv, PhoneTypeOK, Working, At
<1> QED BY <1>1 DEF MinedInv, ExecutedMeansMined, Truthful

\* Only the phone's report makes a row executed.
LEMMA ServerTruthful ==
  ASSUME LiveInv, ServerStep
  PROVE  Truthful
<1>1. UNCHANGED phoneVars
  BY DEF ServerStep
<1>2. ASSUME NEW o \in Orders, status'[o] = "executed" PROVE status[o] = "executed"
  <2> USE DEF LiveInv, QueueInv, QueueTypeOK
  <2>1. CASE \E x \in Orders : Lapse(x)
    BY <1>2, <2>1 DEF Lapse
  <2>2. ASSUME NEW w \in Workers, TaskStep(w) PROVE status[o] = "executed"
    <3>1. ASSUME NEW s \in Symbols, NEW side \in Sides, NEW q, NEW h, Stage(w, s, side, q, h)
          PROVE  status[o] = "executed"
      BY <1>2, <3>1 DEF Stage
    <3>2. CASE CommitTask(w) \/ AbortTask(w)
      BY <1>2, <3>2 DEF CommitTask, AbortTask
    <3>3. CASE StartTick(w) \/ StartBreachTick(w) \/ StartCloseAll(w) \/ StartSweep(w)
      BY <1>2, <3>3 DEF StartTick, StartBreachTick, StartCloseAll, StartSweep, Start
    <3>4. CASE \E s \in Symbols : TickBuy(w, s) \/ TickClose(w, s) \/ FlattenClose(w, s) \/ SweepClose(w, s)
      BY <3>1, <3>4 DEF TickBuy, TickClose, FlattenClose, SweepClose, Sides
    <3> QED BY <2>2, <3>2, <3>3, <3>4 DEF TaskStep
  <2> QED BY <2>1, <2>2 DEF ServerStep
<1> QED BY <1>1, <1>2 DEF Truthful, phoneVars, At

LEMMA LoopTruthful ==
  ASSUME LiveInv, NEW d \in Devices, LoopStep(d) \/ BalanceFails(d) \/ LoopDies(d)
  PROVE  Truthful
<1> USE DEF LiveInv, PhoneTypeOK, At
<1>1. ASSUME \A x \in Devices \ {d} : phone'[x] = phone[x], tx' = tx, status' = status,
             phone'[d].pc # "done"
      PROVE  Truthful
  BY <1>1 DEF Truthful
<1>2. CASE PollSettings(d) \/ FetchPending(d) \/ EndPoll(d) \/ BalanceFails(d) \/ ReportBalance(d) \/ LoopDies(d)
  <2> USE DEF Goto, Loop, queueVars
  <2>1. CASE PollSettings(d)
    BY <1>1, <2>1 DEF PollSettings, ReadSettings
  <2>2. CASE FetchPending(d)
    BY <1>1, <2>2 DEF FetchPending, ReceivePending
  <2>3. CASE EndPoll(d)
    BY <1>1, <2>3 DEF EndPoll, FinishWalk, Resting
  <2>4. CASE BalanceFails(d) \/ ReportBalance(d)
    BY <1>1, <2>4 DEF BalanceFails, ReportBalance, LeaveBalance, AdoptHoldings
  <2>5. CASE LoopDies(d)
    BY <1>1, <2>5 DEF LoopDies, LoseLoop, Resting
  <2> QED BY <1>2, <2>1, <2>2, <2>3, <2>4, <2>5
<1>3. CASE \E o \in Orders : BeginClaim(d, o) \/ ClaimRefused(d, o)
  BY <1>1, <1>3 DEF BeginClaim, ClaimRefused, SendClaim, SkipRow, Loop, queueVars
<1>4. CASE ExecuteSwap(d)
  <2>1. CASE RefuseSwap(d) /\ UNCHANGED <<queueVars, raceVars>>
    BY <1>1, <2>1 DEF RefuseSwap, Goto, Loop, queueVars
  <2>2. CASE Broadcast(d, plan[phone[d].order]) /\ UNCHANGED <<queueVars, raceVars>>
    BY <2>2 DEF Broadcast, Goto, Loop, PhoneInv, Working, Truthful, queueVars
  <2> QED BY <1>4, <2>1, <2>2 DEF ExecuteSwap
<1>5. CASE AwaitReceipt(d)
  BY <1>5 DEF AwaitReceipt, SeeReceipt, ReceiptTimeout, Goto, Loop, Truthful, queueVars
<1>6. CASE ReportResult(d)
  BY <1>6 DEF ReportResult, FinishRow, Report, Loop, QueueInv, QueueTypeOK, Working, Truthful
<1> QED BY <1>2, <1>3, <1>4, <1>5, <1>6 DEF LoopStep

LEMMA OthersTruthful ==
  ASSUME LiveInv,
         \/ \E c \in claims : CommitClaim(c)
         \/ \E d \in Devices, o \in Orders : ChainStep(d, o)
         \/ UserStep \/ UNCHANGED liveVars
  PROVE  Truthful
<1> USE DEF LiveInv, PhoneTypeOK, QueueInv, QueueTypeOK, At, Truthful
<1>1. ASSUME NEW c \in claims, CommitClaim(c) PROVE Truthful
  <2>1. tx' = tx /\ status' = [status EXCEPT ![c.order] = "claimed"]
    BY <1>1 DEF CommitClaim, ClaimGranted, phoneVars
  <2>2. \A d \in Devices : phone'[d].pc = "done" => phone'[d] = phone[d]
    BY <1>1 DEF CommitClaim, ClaimGranted, Goto, Loop, phoneVars
  <2> QED BY <2>1, <2>2
<1>2. ASSUME NEW d \in Devices, NEW o \in Orders, ChainStep(d, o) PROVE Truthful
  BY <1>2 DEF ChainStep, Revert, Mine, queueVars
<1>3. CASE UserStep
  BY <1>3 DEF UserStep, BeginKill, CommitKill, SetAi, queueVars, phoneVars
<1>4. CASE UNCHANGED liveVars
  BY <1>4 DEF liveVars, queueVars, phoneVars
<1> QED BY <1>1, <1>2, <1>3, <1>4

\* An order recorded as executed was swapped on the chain by some phone.
THEOREM ExecutedIsMined == LiveSpec => []ExecutedMeansMined
<1>1. LiveInit => MinedInv
  BY DEF LiveInit, QueueInit, PhoneInit, Resting, MinedInv, ExecutedMeansMined, At
<1>2. LiveInv /\ MinedInv /\ [LiveNext]_liveVars => MinedInv'
  BY TruthfulKeeps, ServerTruthful, LoopTruthful, OthersTruthful DEF LiveNext, SystemStep
<1>3. MinedInv => ExecutedMeansMined
  BY DEF MinedInv
<1> QED BY <1>1, <1>2, <1>3, LiveInvariant, PTL DEF LiveSpec

-----------------------------------------------------------------------------
(* Missed orders *)

StaysMissed(o) == Missed(o) => Missed(o)' \/ status'[o] = "cancelled"

LEMMA ServerMisses ==
  ASSUME LiveInv, ServerStep, NEW o \in Orders
  PROVE  StaysMissed(o)
<1> SUFFICES ASSUME status[o] = "pending", o \in late PROVE status'[o] = "pending" /\ o \in late'
  BY DEF StaysMissed, Missed, ServerStep, raceVars
<1> USE DEF LiveInv, QueueInv, QueueTypeOK
<1>1. CASE \E x \in Orders : Lapse(x)
  BY <1>1 DEF Lapse
<1>2. ASSUME NEW w \in Workers, TaskStep(w) PROVE status'[o] = "pending" /\ o \in late'
  <2>1. ASSUME NEW s \in Symbols, NEW side \in Sides, NEW q, NEW h, Stage(w, s, side, q, h)
        PROVE  status'[o] = "pending" /\ o \in late'
    BY <2>1 DEF Stage
  <2>2. CASE CommitTask(w) \/ AbortTask(w)
    BY <2>2 DEF CommitTask, AbortTask, StagedOwned
  <2>3. CASE StartTick(w) \/ StartBreachTick(w) \/ StartCloseAll(w) \/ StartSweep(w)
    BY <2>3 DEF StartTick, StartBreachTick, StartCloseAll, StartSweep, Start
  <2>4. CASE \E s \in Symbols : TickBuy(w, s) \/ TickClose(w, s) \/ FlattenClose(w, s) \/ SweepClose(w, s)
    BY <2>1, <2>4 DEF TickBuy, TickClose, FlattenClose, SweepClose, Sides
  <2> QED BY <1>2, <2>2, <2>3, <2>4 DEF TaskStep
<1> QED BY <1>1, <1>2 DEF ServerStep

LEMMA LoopMisses ==
  ASSUME LiveInv, NEW d \in Devices, LoopStep(d) \/ BalanceFails(d) \/ LoopDies(d), NEW o \in Orders
  PROVE  StaysMissed(o)
<1> USE DEF StaysMissed, Missed, queueVars, raceVars
<1>1. CASE \/ PollSettings(d) \/ FetchPending(d) \/ EndPoll(d) \/ BalanceFails(d)
           \/ ExecuteSwap(d) \/ AwaitReceipt(d) \/ \E x \in Orders : ClaimRefused(d, x)
  BY <1>1 DEF PollSettings, FetchPending, EndPoll, BalanceFails, ExecuteSwap, AwaitReceipt, ClaimRefused
<1>2. CASE ReportBalance(d)
  BY <1>2 DEF ReportBalance, AdoptHoldings
<1>3. ASSUME NEW x \in Orders, BeginClaim(d, x) PROVE StaysMissed(o)
  BY <1>3 DEF BeginClaim, Claimable
<1>4. CASE ReportResult(d)
  BY <1>4 DEF ReportResult, FinishRow, Report, LiveInv, PhoneTypeOK, PhoneInv, Working, Taken,
              QueueInv, QueueTypeOK
<1>5. CASE LoopDies(d)
  <2>1. \A c \in claims' : \E b \in claims : c.order = b.order
    BY <1>5 DEF LoopDies, LiveInv, RaceInv, Claims
  <2> QED BY <1>5, <2>1 DEF LoopDies
<1> QED BY <1>1, <1>2, <1>3, <1>4, <1>5 DEF LoopStep

LEMMA OthersMiss ==
  ASSUME LiveInv, NEW o \in Orders,
         \/ \E c \in claims : CommitClaim(c)
         \/ \E d \in Devices, x \in Orders : ChainStep(d, x)
         \/ UserStep \/ UNCHANGED liveVars
  PROVE  StaysMissed(o)
<1> USE DEF StaysMissed, Missed, queueVars, raceVars
<1>1. ASSUME NEW c \in claims, CommitClaim(c) PROVE StaysMissed(o)
  BY <1>1 DEF CommitClaim, LiveInv, QueueInv, QueueTypeOK
<1>2. ASSUME NEW d \in Devices, NEW x \in Orders, ChainStep(d, x) PROVE StaysMissed(o)
  BY <1>2 DEF ChainStep
<1>3. CASE UserStep
  BY <1>3 DEF UserStep, BeginKill, CommitKill, SetAi, LiveInv, QueueInv, QueueTypeOK
<1>4. CASE UNCHANGED liveVars
  BY <1>4 DEF liveVars
<1> QED BY <1>1, <1>2, <1>3, <1>4

\* An order whose window ended unclaimed is never claimed, executed or offered
\* again; the kill switch may still cancel it.
THEOREM MissedStaysMissed == LiveSpec => MissedForGood
<1>1. LiveInv /\ [LiveNext]_liveVars =>
        [\A o \in Orders : Missed(o) => Missed(o)' \/ status'[o] = "cancelled"]_liveVars
  BY ServerMisses, LoopMisses, OthersMiss DEF LiveNext, SystemStep, StaysMissed
<1> QED BY <1>1, LiveInvariant, PTL DEF LiveSpec, MissedForGood

-----------------------------------------------------------------------------
(* The books and the wallet, with one phone and before anything fails *)

OnePhone == \A d1, d2 \in Devices : d1 = d2

\* The swap d works on is mined and not yet in the books.
Unbooked(d) == phone[d].pc \in {"waiting", "done"} /\ tx[<<d, phone[d].order>>] = "mined"

\* What the loop knows of its swap is true, and the books are covered: as they will
\* be once the mined swap is reported, as they are if there is none.
CoverInv ==
  failures = 0 =>
    /\ \A d \in Devices, o \in Orders :
         tx[<<d, o>>] = "sent" => At(d, "waiting") /\ phone[d].order = o
    /\ \A d \in Devices : At(d, "undone") => tx[<<d, phone[d].order>>] # "mined"
    /\ \A d \in Devices : Unbooked(d) =>
         \A s \in Symbols : Filled(phone[d].order)[s] <= wallet[s]
    /\ (\A d \in Devices : ~Unbooked(d)) => \A s \in Symbols : position[s] <= wallet[s]

\* A step that leaves swaps, wallet and books alone, and every loop that has sent a
\* swap and not reported it.
Quiet ==
  /\ UNCHANGED <<tx, wallet, position, failures>>
  /\ \A d \in Devices :
       \/ phone'[d] = phone[d]
       \/ /\ phone[d].pc \notin {"waiting", "done"}
          /\ phone'[d].pc \notin {"waiting", "done", "undone"}
  /\ \A o \in Orders : Real(o) => plan'[o] = plan[o]

LEMMA QuietKeeps ==
  ASSUME LiveInv, CoverInv, Quiet
  PROVE  CoverInv'
<1> SUFFICES ASSUME failures = 0 PROVE CoverInv'
  BY DEF Quiet, CoverInv
<1>1. \A d \in Devices : Unbooked(d)' <=> Unbooked(d)
  BY DEF Quiet, Unbooked
<1>2. \A d \in Devices : Unbooked(d) => phone'[d] = phone[d] /\ phone[d].order \in Orders /\ Real(phone[d].order)
  BY DEF Quiet, Unbooked, LiveInv, PhoneInv, PhoneTypeOK, Working
<1>3. ASSUME NEW d \in Devices, Unbooked(d) PROVE Filled(phone[d].order)' = Filled(phone[d].order)
  <2>1. phone'[d].order = phone[d].order /\ plan'[phone[d].order] = plan[phone[d].order] /\ position' = position
    BY <1>2, <1>3 DEF Quiet
  <2> QED BY <2>1 DEF Filled
<1>4. \A d \in Devices, o \in Orders :
        tx'[<<d, o>>] = "sent" => At(d, "waiting")' /\ phone'[d].order = o
  BY DEF Quiet, CoverInv, At
<1>5. \A d \in Devices : At(d, "undone")' => tx'[<<d, phone'[d].order>>] # "mined"
  BY DEF Quiet, CoverInv, At
<1>6. \A d \in Devices : Unbooked(d)' =>
        \A s \in Symbols : Filled(phone[d].order)'[s] <= wallet'[s]
  BY <1>1, <1>3 DEF Quiet, CoverInv
<1>7. (\A d \in Devices : ~Unbooked(d)') => \A s \in Symbols : position'[s] <= wallet'[s]
  BY <1>1 DEF Quiet, CoverInv
<1> QED BY <1>4, <1>5, <1>6, <1>7 DEF CoverInv

LEMMA ServerQuiet ==
  ASSUME LiveInv, ServerStep
  PROVE  Quiet
<1> USE DEF LiveInv, QueueInv, QueueTypeOK
<1>1. UNCHANGED <<position, phone, tx, wallet, failures>>
  <2>1. UNCHANGED phoneVars
    BY DEF ServerStep
  <2>2. CASE \E x \in Orders : Lapse(x)
    BY <2>1, <2>2 DEF Lapse, phoneVars
  <2>3. ASSUME NEW w \in Workers, TaskStep(w) PROVE position' = position
    <3>1. ASSUME NEW s \in Symbols, NEW side \in Sides, NEW q, NEW h, Stage(w, s, side, q, h)
          PROVE  position' = position
      BY <3>1 DEF Stage
    <3>2. CASE CommitTask(w) \/ AbortTask(w)
      BY <3>2 DEF CommitTask, AbortTask
    <3>3. CASE StartTick(w) \/ StartBreachTick(w) \/ StartCloseAll(w) \/ StartSweep(w)
      BY <3>3 DEF StartTick, StartBreachTick, StartCloseAll, StartSweep, Start
    <3>4. CASE \E s \in Symbols : TickBuy(w, s) \/ TickClose(w, s) \/ FlattenClose(w, s) \/ SweepClose(w, s)
      BY <3>1, <3>4 DEF TickBuy, TickClose, FlattenClose, SweepClose, Sides
    <3> QED BY <2>3, <3>2, <3>3, <3>4 DEF TaskStep
  <2> QED BY <2>1, <2>2, <2>3 DEF ServerStep, phoneVars
<1>2. ASSUME NEW o \in Orders, Real(o) PROVE plan'[o] = plan[o]
  <2>1. CASE \E x \in Orders : Lapse(x)
    BY <2>1 DEF Lapse
  <2>2. ASSUME NEW w \in Workers, TaskStep(w) PROVE plan'[o] = plan[o]
    <3>1. ASSUME NEW s \in Symbols, NEW side \in Sides, NEW q, NEW h, Stage(w, s, side, q, h)
          PROVE  plan'[o] = plan[o]
      BY <1>2, <3>1 DEF Stage, Real
    <3>2. CASE CommitTask(w) \/ AbortTask(w)
      BY <1>2, <3>2 DEF CommitTask, AbortTask, StagedOwned, Real
    <3>3. CASE StartTick(w) \/ StartBreachTick(w) \/ StartCloseAll(w) \/ StartSweep(w)
      BY <3>3 DEF StartTick, StartBreachTick, StartCloseAll, StartSweep, Start
    <3>4. CASE \E s \in Symbols : TickBuy(w, s) \/ TickClose(w, s) \/ FlattenClose(w, s) \/ SweepClose(w, s)
      BY <3>1, <3>4 DEF TickBuy, TickClose, FlattenClose, SweepClose, Sides
    <3> QED BY <2>2, <3>2, <3>3, <3>4 DEF TaskStep
  <2> QED BY <2>1, <2>2 DEF ServerStep
<1> QED BY <1>1, <1>2 DEF Quiet

\* Polling, claiming and the kill switch are quiet.
LEMMA LoopQuiet ==
  ASSUME LiveInv, NEW d \in Devices,
         \/ PollSettings(d) \/ FetchPending(d) \/ EndPoll(d)
         \/ \E o \in Orders : BeginClaim(d, o) \/ ClaimRefused(d, o)
  PROVE  Quiet
<1> USE DEF LiveInv, PhoneTypeOK, At, queueVars
<1>1. /\ UNCHANGED <<tx, wallet, position, failures, plan>>
      /\ phone[d].pc \in {"idle", "fetch", "walk"}
      /\ phone'[d].pc \in {"idle", "balance", "walk", "claiming"}
      /\ \A x \in Devices \ {d} : phone'[x] = phone[x]
  <2>1. CASE PollSettings(d)
    BY <2>1 DEF PollSettings, ReadSettings, Loop
  <2>2. CASE FetchPending(d)
    BY <2>2 DEF FetchPending, ReceivePending, Loop
  <2>3. CASE EndPoll(d)
    BY <2>3 DEF EndPoll, FinishWalk, Resting
  <2>4. ASSUME NEW o \in Orders, BeginClaim(d, o)
        PROVE  /\ UNCHANGED <<tx, wallet, position, failures, plan>>
               /\ phone[d].pc = "walk" /\ phone'[d].pc = "claiming"
               /\ \A x \in Devices \ {d} : phone'[x] = phone[x]
    BY <2>4 DEF BeginClaim, SendClaim, Loop
  <2>5. ASSUME NEW o \in Orders, ClaimRefused(d, o)
        PROVE  /\ UNCHANGED <<tx, wallet, position, failures, plan>>
               /\ phone[d].pc = "walk" /\ phone'[d].pc = "walk"
               /\ \A x \in Devices \ {d} : phone'[x] = phone[x]
    BY <2>5 DEF ClaimRefused, SkipRow, Loop
  <2> QED BY <2>1, <2>2, <2>3, <2>4, <2>5
<1> QED BY <1>1 DEF Quiet

LEMMA OthersQuiet ==
  ASSUME LiveInv, (\E c \in claims : CommitClaim(c)) \/ UserStep \/ UNCHANGED liveVars
  PROVE  Quiet
<1>1. ASSUME NEW c \in claims, CommitClaim(c) PROVE Quiet
  <2>1. UNCHANGED <<tx, wallet, position, failures, plan>>
    BY <1>1 DEF CommitClaim, ClaimGranted, phoneVars
  <2>2. CASE UNCHANGED phoneVars
    BY <2>1, <2>2 DEF Quiet, phoneVars
  <2>3. CASE c.heard /\ ClaimGranted(c.device)
    <3> DEFINE d == c.device
    <3>1. d \in Devices
      BY DEF LiveInv, RaceInv, Claims
    <3>2. /\ phone[d].pc = "claiming" /\ phone'[d].pc = "granted"
          /\ \A x \in Devices \ {d} : phone'[x] = phone[x]
      BY <2>3, <3>1 DEF ClaimGranted, Goto, At, LiveInv, PhoneTypeOK, Loop
    <3> QED BY <2>1, <3>2 DEF Quiet
  <2> QED BY <1>1, <2>2, <2>3 DEF CommitClaim
<1>2. CASE UserStep
  BY <1>2 DEF UserStep, BeginKill, CommitKill, SetAi, queueVars, phoneVars, Quiet
<1>3. CASE UNCHANGED liveVars
  BY <1>3 DEF liveVars, queueVars, phoneVars, Quiet
<1> QED BY <1>1, <1>2, <1>3

\* A crash, a lost answer or a receipt timeout is counted.
LEMMA FailureCovers ==
  ASSUME LiveInv, CoverInv, NEW d \in Devices, BalanceFails(d) \/ LoopDies(d) \/ ReceiptTimeout(d)
  PROVE  CoverInv'
<1>1. failures' = failures + 1 /\ failures \in Nat
  BY DEF BalanceFails, LoopDies, LoseLoop, ReceiptTimeout, Failing, LiveInv, PhoneTypeOK
<1> QED BY <1>1 DEF CoverInv

LEMMA BalanceCovers ==
  ASSUME LiveInv, CoverInv, OnePhone, NEW d \in Devices, ReportBalance(d)
  PROVE  CoverInv'
<1> SUFFICES ASSUME failures = 0 PROVE CoverInv'
  BY DEF CoverInv, ReportBalance
<1>1. \A x \in Devices : x = d
  BY DEF OnePhone
<1>2. At(d, "balance") /\ tx' = tx /\ wallet' = wallet
  BY DEF ReportBalance, LeaveBalance
<1>3. phone'[d].pc \in {"fetch", "idle"}
  BY DEF ReportBalance, LeaveBalance, LiveInv, PhoneTypeOK, Loop
<1>4. \A s \in Symbols : position'[s] <= wallet[s]
  <2>1. \A s \in Symbols : position[s] <= wallet[s] /\ position[s] \in Nat /\ wallet[s] \in Nat
    BY <1>1, <1>2 DEF CoverInv, Unbooked, At, LiveInv, QueueInv, QueueTypeOK, PhoneTypeOK
  <2>2. \A s \in Symbols : position'[s] = IF position[s] = 0 THEN wallet[s] ELSE position[s]
    BY DEF ReportBalance, AdoptHoldings
  <2> QED BY <2>1, <2>2
<1>5. \A x \in Devices, o \in Orders : tx'[<<x, o>>] # "sent"
  BY <1>1, <1>2 DEF CoverInv, At
<1>6. \A x \in Devices : ~Unbooked(x)' /\ ~At(x, "undone")'
  BY <1>1, <1>3 DEF Unbooked, At
<1> QED BY <1>2, <1>4, <1>5, <1>6 DEF CoverInv

LEMMA SwapCovers ==
  ASSUME LiveInv, CoverInv, OnePhone, NEW d \in Devices,
         ExecuteSwap(d) \/ (SeeReceipt(d) /\ UNCHANGED <<queueVars, raceVars>>)
  PROVE  CoverInv'
<1>1. UNCHANGED <<plan, position, wallet, failures>>
  BY DEF ExecuteSwap, Broadcast, RefuseSwap, SeeReceipt, queueVars
<1> SUFFICES ASSUME failures = 0 PROVE CoverInv'
  BY <1>1 DEF CoverInv
<1>2. \A x \in Devices : x = d
  BY DEF OnePhone
<1>3. phone[d] \in Loop /\ phone[d].order \in Orders
  BY DEF ExecuteSwap, Broadcast, RefuseSwap, SeeReceipt, LiveInv, PhoneTypeOK, Working, At
<1>4. \A o \in Orders : Filled(o)' = Filled(o)
  BY <1>1 DEF Filled
<1>5. CASE Broadcast(d, plan[phone[d].order])
  <2>1. phone'[d].pc = "waiting" /\ phone'[d].order = phone[d].order
    BY <1>3, <1>5 DEF Broadcast, Goto, LiveInv, PhoneTypeOK, Loop
  <2>2. \A o \in Orders : tx[<<d, o>>] # "sent"
    BY <1>5 DEF CoverInv, Broadcast, At
  <2>3. tx' = [tx EXCEPT ![<<d, phone[d].order>>] = "sent"]
    BY <1>5 DEF Broadcast
  <2>4. \A x \in Devices, o \in Orders : tx'[<<x, o>>] = "sent" => At(x, "waiting")' /\ phone'[x].order = o
    BY <1>2, <2>1, <2>2, <2>3 DEF At, LiveInv, PhoneTypeOK
  <2>5. \A x \in Devices : ~Unbooked(x)' /\ ~At(x, "undone")'
    BY <1>2, <1>3, <2>1, <2>3 DEF Unbooked, At, LiveInv, PhoneTypeOK
  <2>6. \A s \in Symbols : position[s] <= wallet[s]
    BY <1>2, <1>5 DEF CoverInv, Unbooked, Broadcast, At
  <2> QED BY <1>1, <2>4, <2>5, <2>6 DEF CoverInv
<1>6. CASE RefuseSwap(d)
  <2>1. phone'[d].pc = "undone" /\ phone'[d].order = phone[d].order /\ tx' = tx
    BY <1>3, <1>6 DEF RefuseSwap, Goto, LiveInv, PhoneTypeOK, Loop
  <2>2. tx[<<d, phone[d].order>>] = "none"
    BY <1>6 DEF LiveInv, PhoneInv, RefuseSwap, At
  <2>3. \A x \in Devices, o \in Orders : tx'[<<x, o>>] # "sent"
    BY <1>2, <1>6, <2>1 DEF CoverInv, RefuseSwap, At
  <2>4. \A x \in Devices : ~Unbooked(x)' /\ tx'[<<x, phone'[x].order>>] # "mined"
    BY <1>2, <2>1, <2>2 DEF Unbooked
  <2>5. \A s \in Symbols : position[s] <= wallet[s]
    BY <1>2, <1>6 DEF CoverInv, Unbooked, RefuseSwap, At
  <2> QED BY <1>1, <2>3, <2>4, <2>5 DEF CoverInv
<1>7. CASE SeeReceipt(d)
  <2>1. tx' = tx /\ phone'[d].order = phone[d].order /\ phone[d].pc = "waiting"
    BY <1>3, <1>7 DEF SeeReceipt, Goto, At, LiveInv, PhoneTypeOK, Loop
  <2>2. \/ tx[<<d, phone[d].order>>] = "mined" /\ phone'[d].pc = "done"
        \/ tx[<<d, phone[d].order>>] = "reverted" /\ phone'[d].pc = "undone"
    BY <1>3, <1>7 DEF SeeReceipt, Goto, LiveInv, PhoneTypeOK, Loop
  <2>3. \A x \in Devices, o \in Orders : tx'[<<x, o>>] # "sent"
    BY <1>2, <2>1, <2>2 DEF CoverInv
  <2>4. \A x \in Devices : Unbooked(x)' <=> Unbooked(x)
    BY <1>2, <2>1, <2>2 DEF Unbooked
  <2>5. \A x \in Devices : At(x, "undone")' => tx'[<<x, phone'[x].order>>] # "mined"
    BY <1>2, <2>1, <2>2 DEF At
  <2>6. \A x \in Devices : Unbooked(x)' => \A s \in Symbols : Filled(phone[x].order)'[s] <= wallet'[s]
    <3>1. Filled(phone[d].order)' = Filled(phone[d].order)
      BY <1>1, <2>1 DEF Filled
    <3> QED BY <1>1, <1>2, <2>4, <3>1 DEF CoverInv
  <2>7. (\A x \in Devices : ~Unbooked(x)') => \A s \in Symbols : position'[s] <= wallet'[s]
    BY <1>1, <2>4 DEF CoverInv
  <2> QED BY <2>3, <2>5, <2>6, <2>7 DEF CoverInv
<1> QED BY <1>5, <1>6, <1>7 DEF ExecuteSwap

\* The fill that is booked is the one the wallet already shows.
LEMMA ReportCovers ==
  ASSUME LiveInv, MinedInv, CoverInv, OnePhone, NEW d \in Devices, ReportResult(d)
  PROVE  CoverInv'
<1>1. UNCHANGED <<tx, wallet, failures>> /\ phone[d].pc \in {"done", "undone"} /\ phone'[d].pc = "walk"
  BY DEF ReportResult, FinishRow, LiveInv, PhoneTypeOK, Loop
<1> SUFFICES ASSUME failures = 0 PROVE CoverInv'
  BY <1>1 DEF CoverInv
<1>2. \A x \in Devices : x = d
  BY DEF OnePhone
<1>3. \A x \in Devices, o \in Orders : tx'[<<x, o>>] # "sent"
  BY <1>1, <1>2 DEF CoverInv, At
<1>4. \A x \in Devices : ~Unbooked(x)' /\ ~At(x, "undone")'
  BY <1>1, <1>2 DEF Unbooked, At
<1>5. \A s \in Symbols : position'[s] <= wallet[s]
  <2>1. CASE At(d, "done")
    <3>1. position' = Filled(phone[d].order)
      BY <2>1 DEF ReportResult, Report
    <3>2. Unbooked(d)
      BY <2>1 DEF Unbooked, MinedInv, At
    <3> QED BY <3>1, <3>2 DEF CoverInv
  <2>2. CASE ~At(d, "done")
    <3>1. position' = position
      BY <2>2 DEF ReportResult, Report
    <3>2. \A x \in Devices : ~Unbooked(x)
      BY <1>1, <1>2, <2>2 DEF Unbooked, At
    <3> QED BY <3>1, <3>2 DEF CoverInv
  <2> QED BY <2>1, <2>2
<1> QED BY <1>1, <1>3, <1>4, <1>5 DEF CoverInv

\* The chain moves the wallet by what the report will book.
LEMMA ChainCovers ==
  ASSUME LiveInv, CoverInv, OnePhone, NEW d \in Devices, NEW o \in Orders, ChainStep(d, o)
  PROVE  CoverInv'
<1>1. UNCHANGED <<plan, position, phone, failures>> /\ tx[<<d, o>>] = "sent"
  BY DEF ChainStep, Revert, Mine, queueVars
<1> SUFFICES ASSUME failures = 0 PROVE CoverInv'
  BY <1>1 DEF CoverInv
<1>2. \A x \in Devices : x = d
  BY DEF OnePhone
<1>3. phone[d].pc = "waiting" /\ phone[d].order = o
  BY <1>1 DEF CoverInv, At
<1>4. \A s \in Symbols : position[s] <= wallet[s] /\ position[s] \in Nat /\ wallet[s] \in Nat
  <2>1. \A x \in Devices : ~Unbooked(x)
    BY <1>1, <1>2, <1>3 DEF Unbooked
  <2> QED BY <2>1 DEF CoverInv, LiveInv, QueueInv, QueueTypeOK, PhoneTypeOK
<1>5. \A x \in Devices, y \in Orders : tx'[<<x, y>>] # "sent"
  <2>1. \A y \in Orders \ {o} : tx[<<d, y>>] # "sent"
    BY <1>3 DEF CoverInv
  <2>2. \/ tx' = [tx EXCEPT ![<<d, o>>] = "reverted"]
        \/ tx' = [tx EXCEPT ![<<d, o>>] = "mined"]
    BY DEF ChainStep, Revert, Mine
  <2> QED BY <1>2, <2>1, <2>2 DEF LiveInv, PhoneTypeOK
<1>6. \A x \in Devices : ~At(x, "undone")'
  BY <1>1, <1>2, <1>3 DEF At
<1>7. CASE Revert(d, o)
  <2>1. \A x \in Devices : ~Unbooked(x)'
    BY <1>1, <1>2, <1>3, <1>7 DEF Revert, Unbooked, LiveInv, PhoneTypeOK
  <2>2. wallet' = wallet
    BY <1>7 DEF Revert
  <2> QED BY <1>1, <1>4, <1>5, <1>6, <2>1, <2>2 DEF CoverInv
<1>8. CASE Mine(d, o, plan[o])
  <2>1. Unbooked(d)'
    BY <1>1, <1>3, <1>8 DEF Mine, Unbooked, LiveInv, PhoneTypeOK
  <2>2. plan[o] \in Plan
    BY <1>3 DEF LiveInv, PhoneInv, Working, Real, QueueInv, QueueTypeOK
  <2>3. \A s \in Symbols : Filled(o)[s] <= wallet'[s]
    <3> DEFINE q == plan[o].qty  c == plan[o].symbol
    <3>1. q \in Nat /\ c \in Symbols
      BY <2>2 DEF Plan
    <3>2. CASE plan[o].side = "buy"
      BY <1>4, <1>8, <3>1, <3>2 DEF Mine, Filled, LiveInv, QueueInv, QueueTypeOK, PhoneTypeOK
    <3>3. CASE plan[o].side = "sell"
      BY <1>4, <1>8, <3>1, <3>3 DEF Mine, Filled, Monus, LiveInv, QueueInv, QueueTypeOK, PhoneTypeOK
    <3> QED BY <2>2, <3>2, <3>3 DEF Plan, Sides
  <2>4. Filled(phone[d].order)' = Filled(o)
    BY <1>1, <1>3 DEF Filled
  <2> QED BY <1>2, <1>5, <1>6, <2>1, <2>3, <2>4 DEF CoverInv
<1> QED BY <1>7, <1>8 DEF ChainStep

LEMMA CoverStep ==
  ASSUME OnePhone, LiveInv, MinedInv, CoverInv, [LiveNext]_liveVars
  PROVE  CoverInv'
<1>1. CASE ServerStep
  BY <1>1, ServerQuiet, QuietKeeps
<1>2. ASSUME NEW d \in Devices, LoopStep(d) PROVE CoverInv'
  <2>1. CASE AwaitReceipt(d)
    BY <2>1, SwapCovers, FailureCovers DEF AwaitReceipt
  <2> QED BY <1>2, <2>1, LoopQuiet, QuietKeeps, BalanceCovers, SwapCovers, ReportCovers DEF LoopStep
<1>3. ASSUME NEW d \in Devices, BalanceFails(d) \/ LoopDies(d) PROVE CoverInv'
  BY <1>3, FailureCovers
<1>4. ASSUME NEW d \in Devices, NEW o \in Orders, ChainStep(d, o) PROVE CoverInv'
  BY <1>4, ChainCovers
<1>5. CASE (\E c \in claims : CommitClaim(c)) \/ UserStep \/ UNCHANGED liveVars
  BY <1>5, OthersQuiet, QuietKeeps
<1> QED BY <1>1, <1>2, <1>3, <1>4, <1>5 DEF LiveNext, SystemStep

\* With one phone, whatever the user does to the switch, the books never claim more
\* than the wallet holds before something fails.
THEOREM BooksAreCovered == ASSUME OnePhone PROVE LiveSpec => []LedgerCovered
<1>1. LiveInit => MinedInv /\ CoverInv
  <2> SUFFICES ASSUME LiveInit PROVE MinedInv /\ CoverInv
    OBVIOUS
  <2> USE DEF LiveInit, QueueInit, PhoneInit, Resting, At
  <2>1. MinedInv
    BY DEF MinedInv, ExecutedMeansMined
  <2>2. CoverInv
    <3>1. \A s \in Symbols : position[s] <= wallet[s]
      <4>1. position = [s \in Symbols |-> 0] /\ wallet \in [Symbols -> Holdings]
        OBVIOUS
      <4>2. \A s \in Symbols : position[s] = 0 /\ wallet[s] \in Nat
        BY <4>1, HoldingsAssumption DEF HoldingsAssumption
      <4>3. \A n \in Nat : 0 <= n
        OBVIOUS
      <4> QED BY <4>2, <4>3
    <3>2. \A d \in Devices : phone[d].pc = "idle"
      OBVIOUS
    <3>3. \A d \in Devices, o \in Orders : tx[<<d, o>>] = "none"
      OBVIOUS
    <3> QED BY <3>1, <3>2, <3>3 DEF CoverInv, Unbooked
  <2> QED BY <2>1, <2>2
<1>2. LiveInv /\ MinedInv /\ [LiveNext]_liveVars => MinedInv'
  BY TruthfulKeeps, ServerTruthful, LoopTruthful, OthersTruthful DEF LiveNext, SystemStep
<1>3. LiveInv /\ MinedInv /\ CoverInv /\ [LiveNext]_liveVars => CoverInv'
  BY CoverStep
<1>4. CoverInv => LedgerCovered
  BY DEF CoverInv, LedgerCovered, Unbooked
<1> QED BY <1>1, <1>2, <1>3, <1>4, LiveInvariant, PTL DEF LiveSpec
=============================================================================
