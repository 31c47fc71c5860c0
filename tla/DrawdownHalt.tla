----------------------------- MODULE DrawdownHalt -----------------------------
(***************************************************************************)
(* The drawdown stop of a live account while its equity moves: the peak the *)
(* agent measures from, the stop it starts, the cooldown after which the    *)
(* peak begins afresh, and the dashboard that computes a peak of its own.   *)
(* The phone reports wallet values, beat brings the tick.                   *)
(***************************************************************************)
EXTENDS Integers

CONSTANTS
  Wallets,        \* wallet values a balance report may carry
  StartBalance,   \* account.starting_balance, used until the first report
  HaltFloor,      \* min_balance_floor; 0: not set
  HaltPercent,    \* max_drawdown
  HaltBeats       \* DRAWDOWN_HALT_COOLDOWN, in beats

ASSUME HaltAssumption ==
  /\ Wallets \subseteq Nat /\ StartBalance \in Nat /\ HaltFloor \in Nat
  /\ HaltPercent \in 1..100 /\ HaltBeats \in Nat \ {0}

VARIABLES
  latest,    \* equity of the latest live snapshot
  highest,   \* highest equity of all live snapshots; 0: none
  since,     \* highest since the last stop ended
  age,       \* beats since the latest drawdown_halt_live event; HaltBeats: it is over
  over,      \* history: some stop has run its cooldown
  reported   \* history: the wallet values reported since the last stop ended

haltVars == <<latest, highest, since, age, over, reported>>

HaltInit ==
  /\ latest = StartBalance /\ highest = 0 /\ since = 0
  /\ age = HaltBeats /\ over = FALSE /\ reported = {}

Above(a, b) == IF a > b THEN a ELSE b

Stopped == age < HaltBeats

\* drawdown_peak_equity and get_portfolio_state: while a stop runs every snapshot
\* counts, after it only those since its end.
HaltPeak == Above(IF Stopped THEN highest ELSE since, latest)

\* Variant: the drawdown is measured from the last snapshot.
LastSnapshot(e) == Above(latest, e)

\* What report_balance measures the drawdown of a report from.
DashboardPeak(e) == Above(highest, e)

InDrawdown ==
  HaltPeak > 0 /\ 100 * (HaltPeak - latest) >= HaltPercent * HaltPeak

AtFloor == HaltFloor > 0 /\ latest <= HaltFloor

\* report_balance
ReportWallet(e) ==
  /\ latest' = e /\ highest' = Above(highest, e) /\ since' = Above(since, e)
  /\ reported' = reported \cup {e}
  /\ UNCHANGED <<age, over>>

\* Variant: every tick in breach moves the start of the stop.
NoteAgain ==
  /\ ~AtFloor /\ InDrawdown
  /\ age' = 0
  /\ UNCHANGED <<latest, highest, since, over, reported>>

\* run_tick in breach of max_drawdown, the floor being looked at first:
\* note_drawdown_halt, once per stop.
NoteHalt ==
  /\ ~AtFloor /\ InDrawdown /\ ~Stopped
  /\ age' = 0
  /\ UNCHANGED <<latest, highest, since, over, reported>>

\* The histories when a beat passes: the end of a stop is the beat its age runs out.
HistoryOfBeat ==
  IF Stopped /\ age' = HaltBeats
  THEN over' = TRUE /\ reported' = {}
  ELSE UNCHANGED <<over, reported>>

\* Variant: the snapshots of before a stop count again after it.
BeatKeepsPeak ==
  /\ Stopped
  /\ age' = age + 1
  /\ HistoryOfBeat
  /\ UNCHANGED <<latest, highest, since>>

\* A beat of a running stop; with its last one drawdown_peak_equity has no snapshot.
HaltBeat ==
  /\ Stopped
  /\ age' = age + 1
  /\ since' = IF age + 1 = HaltBeats THEN 0 ELSE since
  /\ HistoryOfBeat
  /\ UNCHANGED <<latest, highest>>

HaltNext == (\E e \in Wallets : ReportWallet(e)) \/ NoteHalt \/ HaltBeat

HaltSpec == HaltInit /\ [][HaltNext]_haltVars

\* Beat brings the tick every minute; time passes.
HaltFairSpec == HaltSpec /\ WF_haltVars(NoteHalt) /\ WF_haltVars(HaltBeat)

-----------------------------------------------------------------------------
(* Properties *)

\* A drawdown does not halt the account for ever, however its equity moves and
\* however many ticks meet it: the stop ends, unless the user's own floor holds.
StopEnds == InDrawdown ~> ~InDrawdown \/ AtFloor

\* A stop begins only when the account is down by max_drawdown from a value the
\* wallet was reported at after the last stop had ended: a loss that stop was for, or
\* made while it ran, does not count again, whatever has been reported in between.
StopOnlyForNewLoss ==
  [][~Stopped /\ Stopped'
       => \E w \in reported : w > 0 /\ 100 * (w - latest) >= HaltPercent * w]_haltVars

\* A report's drawdown is measured from the peak that halts trading, although the
\* two are computed in different places: until a first stop has ended and again
\* while another one runs.  In between the agent starts afresh and the dashboard
\* does not, but it never shows less of a drawdown than the agent halts for.
PeaksAgree ==
  [][\A e \in Wallets : ReportWallet(e)
       => /\ DashboardPeak(e) >= HaltPeak'
          /\ ~over \/ Stopped => DashboardPeak(e) = HaltPeak']_haltVars
=============================================================================
