----------------------------- MODULE PhoneExecutor -----------------------------
(***************************************************************************)
(* The Android foreground service: one polling loop per device, and the     *)
(* wallet and chain it trades on.  What the backend answers is a parameter  *)
(* of each action; LiveTrading supplies it.                                 *)
(***************************************************************************)
EXTENDS TradingConstants

CONSTANTS
  Devices,       \* phones polling the account with the same wallet
  NoOrder,       \* the loop is not working on an order
  MaxFailures    \* bound on crashes, lost answers and receipt timeouts

ASSUME PhoneAssumption == NoOrder \notin Orders /\ MaxFailures \in Nat

VARIABLES
  phone,      \* where each device's loop is
  tx,         \* the swap a device sent for an order
  wallet,     \* quantity of each symbol on the chain
  failures    \* failures so far

phoneVars == <<phone, tx, wallet, failures>>

\* on: AI trading as last read; list: rows of the last poll still to process.
Loop == [pc : {"idle", "balance", "fetch", "walk", "claiming", "granted", "waiting", "done", "undone"},
         on : BOOLEAN, list : SUBSET Orders, order : Orders \cup {NoOrder}]

Resting == [pc |-> "idle", on |-> FALSE, list |-> {}, order |-> NoOrder]

\* Steps of processOne, from sending the claim to hearing the report answered.
Working == {"claiming", "granted", "waiting", "done", "undone"}

PhoneTypeOK ==
  /\ phone \in [Devices -> Loop]
  /\ \A d \in Devices : phone[d].order \in Orders <=> phone[d].pc \in Working
  /\ tx \in [Devices \X Orders -> {"none", "sent", "mined", "reverted"}]
  /\ wallet \in [Symbols -> Nat]
  /\ failures \in Nat

PhoneInit ==
  /\ phone = [d \in Devices |-> Resting]
  /\ tx = [p \in Devices \X Orders |-> "none"]
  /\ wallet \in [Symbols -> Holdings]
  /\ failures = 0

At(d, pc) == phone[d].pc = pc
Goto(d, pc) == phone' = [phone EXCEPT ![d].pc = pc]
Failing == failures < MaxFailures /\ failures' = failures + 1

\* Variant: the settings of the first poll are kept.
ReadSettingsOnce(d, on) ==
  /\ At(d, "idle")
  /\ Goto(d, "balance")
  /\ UNCHANGED <<tx, wallet, failures>>

\* Top of the loop: GET settings.
ReadSettings(d, on) ==
  /\ At(d, "idle")
  /\ phone' = [phone EXCEPT ![d].pc = "balance", ![d].on = on]
  /\ UNCHANGED <<tx, wallet, failures>>

\* After the balance report, posted or not: with AI off the loop goes round.
LeaveBalance(d) ==
  /\ At(d, "balance")
  /\ phone' = [phone EXCEPT ![d].pc = IF phone[d].on THEN "fetch" ELSE "idle"]
  /\ UNCHANGED <<tx, wallet>>

\* GET /pending.
ReceivePending(d, rows) ==
  /\ At(d, "fetch")
  /\ phone' = [phone EXCEPT ![d].pc = "walk", ![d].list = rows]
  /\ UNCHANGED <<tx, wallet, failures>>

\* POST /claim sent for the next row of the list.
SendClaim(d, o) ==
  /\ At(d, "walk") /\ o \in phone[d].list
  /\ phone' = [phone EXCEPT ![d].pc = "claiming", ![d].order = o]
  /\ UNCHANGED <<tx, wallet, failures>>

\* The row's window is over, or the claim was answered 409 or 410: next row.
SkipRow(d, o) ==
  /\ At(d, "walk") /\ o \in phone[d].list
  /\ phone' = [phone EXCEPT ![d].list = @ \ {o}]
  /\ UNCHANGED <<tx, wallet, failures>>

ClaimGranted(d) ==
  /\ At(d, "claiming")
  /\ Goto(d, "granted")
  /\ UNCHANGED <<tx, wallet, failures>>

\* swap: quote, balance and approval are fine, the transaction is sent.
Broadcast(d, p) ==
  /\ At(d, "granted")
  /\ p.side = "sell" => wallet[p.symbol] >= p.qty
  /\ tx' = [tx EXCEPT ![<<d, phone[d].order>>] = "sent"]
  /\ Goto(d, "waiting")
  /\ UNCHANGED <<wallet, failures>>

\* swap gives up before sending: no quote, price guard, gas, balance.
RefuseSwap(d) ==
  /\ At(d, "granted")
  /\ Goto(d, "undone")
  /\ UNCHANGED <<tx, wallet, failures>>

\* waitForReceipt found a receipt.
SeeReceipt(d) ==
  /\ At(d, "waiting")
  /\ \/ tx[<<d, phone[d].order>>] = "mined" /\ Goto(d, "done")
     \/ tx[<<d, phone[d].order>>] = "reverted" /\ Goto(d, "undone")
  /\ UNCHANGED <<tx, wallet, failures>>

\* Variant: a swap without a receipt counts as done.
TrustUnconfirmed(d) ==
  /\ At(d, "waiting")
  /\ Goto(d, "done")
  /\ Failing
  /\ UNCHANGED <<tx, wallet>>

\* 120 s without a receipt: the swap counts as failed and may still land.
ReceiptTimeout(d) ==
  /\ At(d, "waiting")
  /\ Goto(d, "undone")
  /\ Failing
  /\ UNCHANGED <<tx, wallet>>

\* Variant: the loop keeps the row it has finished.
FinishRowKeeping(d) ==
  /\ phone[d].pc \in {"done", "undone"}
  /\ phone' = [phone EXCEPT ![d].pc = "walk", ![d].list = @ \ {phone[d].order}]
  /\ UNCHANGED <<tx, wallet, failures>>

\* POST /report was answered: next row.
FinishRow(d) ==
  /\ phone[d].pc \in {"done", "undone"}
  /\ phone' = [phone EXCEPT ![d].pc = "walk", ![d].order = NoOrder,
                            ![d].list = @ \ {phone[d].order}]
  /\ UNCHANGED <<tx, wallet, failures>>

\* The list is done: sleep until the next poll.
FinishWalk(d) ==
  /\ At(d, "walk") /\ phone[d].list = {}
  /\ phone' = [phone EXCEPT ![d] = Resting]
  /\ UNCHANGED <<tx, wallet, failures>>

\* The process is killed, or a call throws out of the loop body: whatever the
\* loop held is forgotten, nothing is retried.
LoseLoop(d) ==
  /\ ~At(d, "idle")
  /\ phone' = [phone EXCEPT ![d] = Resting]
  /\ Failing
  /\ UNCHANGED <<tx, wallet>>

\* The chain includes a sent swap ...
Mine(d, o, p) ==
  /\ tx[<<d, o>>] = "sent"
  /\ p.side = "sell" => wallet[p.symbol] >= p.qty
  /\ tx' = [tx EXCEPT ![<<d, o>>] = "mined"]
  /\ wallet' = [wallet EXCEPT ![p.symbol] = IF p.side = "buy" THEN @ + p.qty ELSE @ - p.qty]
  /\ UNCHANGED <<phone, failures>>

\* ... or reverts it (price moved past the slippage limit, deadline, balance).
Revert(d, o) ==
  /\ tx[<<d, o>>] = "sent"
  /\ tx' = [tx EXCEPT ![<<d, o>>] = "reverted"]
  /\ UNCHANGED <<phone, wallet, failures>>
=============================================================================
