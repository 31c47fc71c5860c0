------------------------------ MODULE LiveTrading ------------------------------
(***************************************************************************)
(* Live trading end to end: ExecutionQueue's server and PhoneExecutor's     *)
(* phones.  The claim and the kill switch read rows in one statement and    *)
(* write them when their transaction commits, with no row lock in between,  *)
(* so here each is two steps; a claim goes on after its phone has died.     *)
(***************************************************************************)
EXTENDS ExecutionQueue, PhoneExecutor

VARIABLES
  claims,    \* claim_execution calls past their checks, not yet committed
  kill       \* the kill-switch request being served

Claims == [device : Devices, order : Orders, heard : BOOLEAN]

raceVars == <<claims, kill>>
liveVars == <<queueVars, phoneVars, raceVars>>

NoKill == [open |-> FALSE, saw |-> FALSE, victims |-> {}]

LiveTypeOK ==
  /\ QueueTypeOK
  /\ PhoneTypeOK
  /\ claims \in SUBSET Claims
  /\ kill \in [open : BOOLEAN, saw : BOOLEAN, victims : SUBSET Orders]

LiveInit ==
  /\ QueueInit
  /\ PhoneInit
  /\ claims = {}
  /\ kill = NoKill

-----------------------------------------------------------------------------
(* The phone's loop against the backend's handlers *)

PollSettings(d) ==
  /\ ReadSettings(d, aiEnabled)
  /\ UNCHANGED <<queueVars, raceVars>>

\* Variant: the balance is reported while the AI trades only.
ReportBalanceIfOn(d) ==
  /\ LeaveBalance(d)
  /\ IF phone[d].on THEN AdoptHoldings(wallet) ELSE UNCHANGED queueVars
  /\ UNCHANGED <<failures, raceVars>>

\* The wallet is read and posted to /report-balance, with AI on or off.
ReportBalance(d) ==
  /\ LeaveBalance(d)
  /\ AdoptHoldings(wallet)
  /\ UNCHANGED <<failures, raceVars>>

\* A failed quote or post is only shown; the loop goes on.
BalanceFails(d) ==
  /\ LeaveBalance(d)
  /\ Failing
  /\ UNCHANGED <<queueVars, raceVars>>

FetchPending(d) ==
  /\ ReceivePending(d, {o \in Orders : Claimable(o)})
  /\ UNCHANGED <<queueVars, raceVars>>

\* claim_execution up to its checks.
BeginClaim(d, o) ==
  /\ Claimable(o)
  /\ SendClaim(d, o)
  /\ claims' = claims \cup {[device |-> d, order |-> o, heard |-> TRUE]}
  /\ UNCHANGED <<queueVars, kill>>

ClaimRefused(d, o) ==
  /\ ~Claimable(o)
  /\ SkipRow(d, o)
  /\ UNCHANGED <<queueVars, raceVars>>

\* claim_execution's commit; a phone that was killed meanwhile does not hear it.
CommitClaim(c) ==
  /\ c \in claims
  /\ claims' = claims \ {c}
  /\ status' = [status EXCEPT ![c.order] = "claimed"]
  /\ IF c.heard THEN ClaimGranted(c.device) ELSE UNCHANGED phoneVars
  /\ UNCHANGED <<plan, late, position, aiEnabled, task, kill>>

AnswerClaim(d) == \E c \in claims : c.device = d /\ c.heard /\ CommitClaim(c)

ExecuteSwap(d) ==
  /\ \/ At(d, "granted") /\ Broadcast(d, plan[phone[d].order])
     \/ RefuseSwap(d)
  /\ UNCHANGED <<queueVars, raceVars>>

AwaitReceipt(d) ==
  /\ SeeReceipt(d) \/ ReceiptTimeout(d)
  /\ UNCHANGED <<queueVars, raceVars>>

\* Variant: a failed order is offered again.
ReportOrRetry(d) ==
  /\ FinishRow(d)
  /\ status' = [status EXCEPT ![phone[d].order] = IF At(d, "done") THEN "executed" ELSE "pending"]
  /\ position' = IF At(d, "done") THEN Filled(phone[d].order) ELSE position
  /\ UNCHANGED <<plan, late, aiEnabled, task, raceVars>>

\* Variant: the fill is booked whatever the outcome.
ReportAnyFill(d) ==
  /\ FinishRow(d)
  /\ status' = [status EXCEPT ![phone[d].order] = IF At(d, "done") THEN "executed" ELSE "failed"]
  /\ position' = Filled(phone[d].order)
  /\ UNCHANGED <<plan, late, aiEnabled, task, raceVars>>

ReportResult(d) ==
  /\ FinishRow(d)
  /\ Report(phone[d].order, IF At(d, "done") THEN "executed" ELSE "failed")
  /\ UNCHANGED raceVars

EndPoll(d) == FinishWalk(d) /\ UNCHANGED <<queueVars, raceVars>>

\* What a running loop does by itself.
LoopStep(d) ==
  \/ PollSettings(d) \/ ReportBalance(d) \/ FetchPending(d)
  \/ \E o \in Orders : BeginClaim(d, o) \/ ClaimRefused(d, o)
  \/ ExecuteSwap(d) \/ AwaitReceipt(d) \/ ReportResult(d) \/ EndPoll(d)

\* The backend still serves the claim of a loop that is gone.
LoopDies(d) ==
  /\ LoseLoop(d)
  /\ claims' = {[c EXCEPT !.heard = @ /\ c.device # d] : c \in claims}
  /\ UNCHANGED <<queueVars, kill>>

\* The chain settles a swap, whether or not a phone still waits for it.
ChainStep(d, o) ==
  /\ Revert(d, o) \/ (tx[<<d, o>>] = "sent" /\ Mine(d, o, plan[o]))
  /\ UNCHANGED <<queueVars, raceVars>>

-----------------------------------------------------------------------------
(* The user *)

BeginKill ==
  /\ ~kill.open
  /\ kill' = [open |-> TRUE, saw |-> aiEnabled, victims |-> PendingBuys]
  /\ UNCHANGED <<queueVars, phoneVars, claims>>

\* Rows read as pending are overwritten whatever they have become; ai_enabled
\* is written only if it was read as TRUE.
CommitKill ==
  /\ kill.open
  /\ kill' = NoKill
  /\ aiEnabled' = (aiEnabled /\ ~kill.saw)
  /\ status' = [o \in Orders |-> IF o \in kill.victims THEN "cancelled" ELSE status[o]]
  /\ UNCHANGED <<plan, late, position, task, phoneVars, claims>>

UserStep ==
  \/ BeginKill
  \/ CommitKill
  \/ \E on \in BOOLEAN : SetAi(on) /\ UNCHANGED <<phoneVars, raceVars>>

-----------------------------------------------------------------------------
ServerStep ==
  /\ (\E w \in Workers : TaskStep(w)) \/ (\E o \in Orders : Lapse(o))
  /\ UNCHANGED <<phoneVars, raceVars>>

SystemStep ==
  \/ ServerStep
  \/ \E d \in Devices : LoopStep(d) \/ BalanceFails(d) \/ LoopDies(d)
  \/ \E c \in claims : CommitClaim(c)
  \/ \E d \in Devices, o \in Orders : ChainStep(d, o)

LiveNext == SystemStep \/ UserStep

LiveSpec == LiveInit /\ [][LiveNext]_liveVars

\* Nobody touches the switch.  The loop keeps running, requests are served,
\* tasks end, and the chain settles every swap.
UnattendedSpec ==
  /\ LiveInit /\ [][SystemStep]_liveVars
  /\ \A d \in Devices : WF_liveVars(LoopStep(d)) /\ WF_liveVars(AnswerClaim(d))
  /\ \A d \in Devices, o \in Orders : WF_liveVars(ChainStep(d, o))
  /\ \A w \in Workers : WF_liveVars(CommitTask(w) /\ UNCHANGED <<phoneVars, raceVars>>)

-----------------------------------------------------------------------------
(* Properties *)

Granted(d, o) == At(d, "granted") /\ phone[d].order = o

\* A device that may swap an order has never sent a swap for it before: crashes,
\* lost answers, timeouts and the kill switch never make it swap twice.
NoSecondSwap == \A d \in Devices, o \in Orders : Granted(d, o) => tx[<<d, o>>] = "none"

\* An order recorded as executed was swapped on the chain.
ExecutedMeansMined ==
  \A o \in Orders : status[o] = "executed" => \E d \in Devices : tx[<<d, o>>] = "mined"

Missed(o) == status[o] = "pending" /\ o \in late /\ \A c \in claims : c.order # o

\* An order whose window ended unclaimed is "missed by design, not executed
\* late" (ExecutionRepository): no claim of it begins, it can only be cancelled.
MissedForGood ==
  [][\A o \in Orders : Missed(o) => Missed(o)' \/ status'[o] = "cancelled"]_liveVars

\* Until something fails, and while no swap awaits its report, the open positions
\* never claim more than the wallet holds: a stop sells something that is there.
LedgerCovered ==
  failures = 0 /\ (\A d \in Devices : phone[d].pc \notin {"waiting", "done"}) =>
    \A s \in Symbols : position[s] <= wallet[s]

\* claim() prevents double-execution if more than one device polls.
NoDoubleExecution ==
  \A o \in Orders : \A d1, d2 \in Devices :
    tx[<<d1, o>>] \in {"sent", "mined"} /\ tx[<<d2, o>>] \in {"sent", "mined"} => d1 = d2

\* A sell queued while the AI trades is picked up, through crashes and timeouts.
SellsPickedUp ==
  \A o \in Orders :
    (status[o] = "pending" /\ plan[o] # NoPlan /\ plan[o].side = "sell" /\ aiEnabled) ~> status[o] # "pending"

\* A protective sell is carried out even with AI trading off.
ProtectiveSellsPickedUp ==
  \A o \in Orders :
    (status[o] = "pending" /\ plan[o] # NoPlan /\ plan[o].side = "sell") ~> status[o] # "pending"

\* A coin in the wallet comes under an open position, whose stops are then
\* watched, even if the report of the swap that bought it was lost.
HoldingsAdopted == \A s \in Symbols : wallet[s] > 0 ~> (position[s] > 0 \/ wallet[s] = 0)

\* The claim protocol seen from each device.
StageOf(d, o) ==
  IF Granted(d, o) THEN "granted"
  ELSE IF tx[<<d, o>>] # "none" THEN "swapped"
  ELSE IF status[o] = "pending" \/ (At(d, "claiming") /\ phone[d].order = o) THEN "open"
  ELSE IF status[o] \in {"absent", "staged"} THEN "unborn"
  ELSE "closed"

Protocol == INSTANCE AtMostOnce WITH stage <- [p \in Devices \X Orders |-> StageOf(p[1], p[2])]

\* Every behaviour of live trading is one the claim protocol allows.
ImplementsAtMostOnce == Protocol!Spec
=============================================================================
