----------------------------- MODULE EquityAlerts -----------------------------
(***************************************************************************)
(* Alerts about a moving portfolio: check_equity_movement compares the      *)
(* latest live snapshot with the equity of the last notification and writes *)
(* the next one; the phone polls for what is not delivered, shows it and    *)
(* acknowledges it.  The task runs in one worker and is one transaction.    *)
(***************************************************************************)
EXTENDS Integers, Sequences, FiniteSetsExt

CONSTANTS
  Equities,      \* wallet values a balance report may carry
  Threshold,     \* _EQUITY_ALERT_THRESHOLD_USDC
  MaxAlerts,     \* bound on notification rows
  MaxFailures    \* bound on failed commits, lost acknowledgements and dead phones

ASSUME AlertAssumption ==
  /\ Equities \subseteq Nat /\ Threshold \in Nat \ {0}
  /\ MaxAlerts \in Nat \ {0} /\ MaxFailures \in Nat

VARIABLES
  equity,        \* equity of the latest live snapshot; 0: none yet, or an empty wallet
  live,          \* ~paper_trading_enabled
  alerts,        \* pending_notifications of kind equity_move, oldest first:
                 \* meta["equity"], and whether delivered_at is set
  staged,        \* what check_equity_movement has added and not committed
  phase,         \* the phone: idle, show or ack
  fetched,       \* the rows it fetched and has still to show, taken in order
  shown,         \* history: how often the phone showed each row
  alertFailures

alertVars == <<equity, live, alerts, staged, phase, fetched, shown, alertFailures>>

Rows == 1..MaxAlerts

AlertInit ==
  /\ equity = 0 /\ live = TRUE /\ alerts = <<>> /\ staged = <<>>
  /\ phase = "idle" /\ fetched = {}
  /\ shown = [i \in Rows |-> 0] /\ alertFailures = 0

-----------------------------------------------------------------------------
(* The backend *)

\* The phone reports the wallet, unless the account is in simulation.
ReportEquity(e) ==
  /\ live /\ equity # e
  /\ equity' = e
  /\ UNCHANGED <<live, alerts, staged, phase, fetched, shown, alertFailures>>

SwitchMode ==
  /\ live' = ~live
  /\ UNCHANGED <<equity, alerts, staged, phase, fetched, shown, alertFailures>>

LastAlert == alerts[Len(alerts)]

FarFrom(a, b) == a - b >= Threshold \/ b - a >= Threshold

\* Variant: moves are measured from the very first row.
SinceTheFirst == alerts # <<>> /\ FarFrom(equity, Head(alerts).equity)

\* The equity is a threshold away from the last notification's.
Moved == alerts # <<>> /\ FarFrom(equity, LastAlert.equity)

\* Variant: the first row is left for the phone to show.
FirstRowLoud == [equity |-> equity, delivered |-> FALSE]

\* The first row only sets the reference: it is delivered from the start.
NewAlert == [equity |-> equity, delivered |-> alerts = <<>>]

\* check_equity_movement up to its commit.
CheckMovement ==
  /\ live /\ equity > 0
  /\ staged = <<>> /\ Len(alerts) < MaxAlerts
  /\ alerts = <<>> \/ Moved
  /\ staged' = <<NewAlert>>
  /\ UNCHANGED <<equity, live, alerts, phase, fetched, shown, alertFailures>>

CommitCheck ==
  /\ staged # <<>>
  /\ alerts' = alerts \o staged /\ staged' = <<>>
  /\ UNCHANGED <<equity, live, phase, fetched, shown, alertFailures>>

AbortCheck ==
  /\ staged # <<>> /\ alertFailures < MaxFailures
  /\ staged' = <<>> /\ alertFailures' = alertFailures + 1
  /\ UNCHANGED <<equity, live, alerts, phase, fetched, shown>>

-----------------------------------------------------------------------------
(* The phone: checkPendingNotifications *)

Undelivered == {i \in DOMAIN alerts : ~alerts[i].delivered}

\* get_pending_notifications
FetchAlerts ==
  /\ phase = "idle" /\ Undelivered # {}
  /\ fetched' = Undelivered /\ phase' = "show"
  /\ UNCHANGED <<equity, live, alerts, staged, shown, alertFailures>>

\* Variant: the newest comes first.
NewestOf(rows) == Max(rows)

\* The answer is in the order of the rows, and the loop goes through it from its head.
OldestOf(rows) == Min(rows)

ShowAlert ==
  /\ phase = "show"
  /\ shown' = [shown EXCEPT ![OldestOf(fetched)] = @ + 1]
  /\ phase' = "ack"
  /\ UNCHANGED <<equity, live, alerts, staged, fetched, alertFailures>>

\* Variant: the acknowledgement forgets to set delivered_at.
AckIgnored(i) == alerts

\* ack_notification
Acked(i) == [alerts EXCEPT ![i].delivered = TRUE]

NextAlert ==
  /\ fetched' = fetched \ {OldestOf(fetched)}
  /\ phase' = IF fetched' = {} THEN "idle" ELSE "show"

AckAlert ==
  /\ phase = "ack"
  /\ alerts' = Acked(OldestOf(fetched)) /\ NextAlert
  /\ UNCHANGED <<equity, live, staged, shown, alertFailures>>

\* The call fails before it is served; the loop goes on with the next one.
LoseAck ==
  /\ phase = "ack" /\ alertFailures < MaxFailures
  /\ NextAlert /\ alertFailures' = alertFailures + 1
  /\ UNCHANGED <<equity, live, alerts, staged, shown>>

\* Variant: a phone that dies takes what it had fetched for shown.
DieAcking ==
  /\ phase # "idle" /\ alertFailures < MaxFailures
  /\ alerts' = [i \in DOMAIN alerts |-> [alerts[i] EXCEPT !.delivered = TRUE]]
  /\ phase' = "idle" /\ fetched' = {} /\ alertFailures' = alertFailures + 1
  /\ UNCHANGED <<equity, live, staged, shown>>

\* The process dies between any two steps.
PhoneDies ==
  /\ phase # "idle" /\ alertFailures < MaxFailures
  /\ phase' = "idle" /\ fetched' = {} /\ alertFailures' = alertFailures + 1
  /\ UNCHANGED <<equity, live, alerts, staged, shown>>

CheckStep == CheckMovement \/ CommitCheck
ShowStep  == FetchAlerts \/ ShowAlert \/ AckAlert

AlertNext ==
  \/ \E e \in Equities : ReportEquity(e)
  \/ SwitchMode \/ CheckStep \/ AbortCheck \/ ShowStep \/ LoseAck \/ PhoneDies

AlertSpec == AlertInit /\ [][AlertNext]_alertVars

\* Beat brings the check back every two minutes, also if the account happens to be
\* in simulation now and then; the phone's loop goes on.
AlertFairSpec == AlertSpec /\ SF_alertVars(CheckStep) /\ WF_alertVars(ShowStep)

-----------------------------------------------------------------------------
(* Properties *)

\* What the phone shows is a move of at least the threshold since the row before,
\* never the silent reference of the first run, whatever the equity does between
\* the check and its commit.
OnlyRealMoves ==
  \A i \in DOMAIN alerts :
    shown[i] > 0 => i > 1 /\ FarFrom(alerts[i].equity, alerts[i - 1].equity)

\* An alert is shown again only after a lost acknowledgement or a dead phone.
ShownOnce == \A i \in Rows : shown[i] <= 1 + alertFailures

\* A later move is never shown before an earlier one has been.
ShownInOrder == \A i, j \in 2..MaxAlerts : i < j /\ shown[j] > 0 => shown[i] > 0

\* The equity is a threshold away from what the last row says.
Unnoted == alerts # <<>> /\ FarFrom(equity, LastAlert.equity)

\* A move is written down in the end, unless it is taken back or the account
\* leaves live trading; a failed commit of the check only delays it.
MovesNoted ==
  Unnoted /\ live /\ Len(alerts) < MaxAlerts ~> ~Unnoted \/ ~live \/ equity = 0

\* Every alert that is written down is shown in the end, through dead phones and
\* lost acknowledgements.
AlertsShown ==
  \A i \in Rows : i \in DOMAIN alerts /\ i \in Undelivered ~> shown[i] > 0 /\ alerts[i].delivered
=============================================================================
