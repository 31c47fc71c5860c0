---------------------------- MODULE PositionLedger ----------------------------
(***************************************************************************)
(* What the fills of one coin do to the books of a live account: the        *)
(* positions row with its average entry price and realized profit, and the  *)
(* track record of the strategies that opened it.  Handlers follow each     *)
(* other: one phone reports, and it reports one thing at a time.            *)
(***************************************************************************)
EXTENDS Integers, Sequences, FiniteSets

CONSTANTS
  Decisions,      \* executed BUY decisions
  Strategies,
  Prices,         \* fill prices, with a common factor that keeps averages whole
  Sizes,          \* quantities of a fill or of an adopted holding
  MaxQuantity,    \* bound on an open position
  MaxFills,       \* bound on reported fills and adoptions
  None            \* NULL

ASSUME LedgerAssumption ==
  /\ Prices \subseteq Nat \ {0} /\ Sizes \subseteq Nat \ {0}
  /\ MaxQuantity \in Nat /\ MaxFills \in Nat /\ None \notin Decisions

VARIABLES
  contributors,   \* ai_decisions.contributing_strategies
  positions,      \* positions rows of the coin, oldest first
  record,         \* strategies: closed_trades_count, and wins = win rate * count
  credits,        \* closed_trade_live events: position, decision and profit
  netCash,        \* history: received minus paid, per position
  opener,         \* history: the decision whose buy created each row, or None
  fills

ledgerVars == <<contributors, positions, record, credits, netCash, opener, fills>>

LedgerInit ==
  /\ contributors \in [Decisions -> SUBSET Strategies]
  /\ positions = <<>> /\ netCash = <<>> /\ opener = <<>>
  /\ record = [s \in Strategies |-> [trades |-> 0, wins |-> 0]]
  /\ credits = {} /\ fills = 0

-----------------------------------------------------------------------------
Open == {i \in DOMAIN positions : positions[i].open}

\* The row the handlers read with first().
Current == CHOOSE i \in Open : TRUE

OpenRow(decision, size, price) ==
  /\ positions' = Append(positions, [open |-> TRUE, quantity |-> size, entry |-> price,
                                     opening |-> decision, realized |-> 0])
  /\ netCash' = Append(netCash, -(price * size))
  /\ opener' = Append(opener, decision)

\* Variant: an add-on takes the position over.
TakenOver(p, decision, size, price) ==
  [p EXCEPT !.quantity = @ + size,
            !.entry = (p.entry * p.quantity + price * size) \div (p.quantity + size),
            !.opening = decision]

\* An add-on re-averages the entry price and leaves opening_decision_id alone.
AddedTo(p, decision, size, price) ==
  [p EXCEPT !.quantity = @ + size,
            !.entry = (p.entry * p.quantity + price * size) \div (p.quantity + size)]

\* Bound on the fills of an open position: integers stand for the code's floats where
\* the average comes out even.
AverageIsWhole(p, size, price) ==
  (p.entry * p.quantity + price * size) % (p.quantity + size) = 0

\* _apply_fill_to_position for a BUY.
ReportBuy(decision, size, price) ==
  /\ fills < MaxFills /\ fills' = fills + 1
  /\ IF Open = {}
     THEN OpenRow(decision, size, price)
     ELSE /\ positions[Current].quantity + size <= MaxQuantity
          /\ AverageIsWhole(positions[Current], size, price)
          /\ positions' = [positions EXCEPT ![Current] = AddedTo(@, decision, size, price)]
          /\ netCash' = [netCash EXCEPT ![Current] = @ - price * size]
          /\ UNCHANGED opener
  /\ UNCHANGED <<contributors, record, credits>>

\* Variant: only the last fill's profit is kept.
LastProfit(p, size, price) == (price - p.entry) * size

\* realized_pnl accumulates over the fills it takes to close.
Profit(p, size, price) == p.realized + (price - p.entry) * size

Credited(decision) == IF decision = None THEN {} ELSE contributors[decision]

\* update_running_stats, for each contributing strategy.
Counted(s, profit) ==
  [trades |-> record[s].trades + 1, wins |-> record[s].wins + IF profit > 0 THEN 1 ELSE 0]

\* _update_strategy_performance: break-even, adopted and unattributed positions
\* are skipped.
Learn(i, decision, profit) ==
  LET names == IF profit = 0 THEN {} ELSE Credited(decision)
  IN  /\ record' = [s \in Strategies |-> IF s \in names THEN Counted(s, profit) ELSE record[s]]
      /\ credits' = IF names = {} THEN credits
                    ELSE credits \cup {[position |-> i, opening |-> decision, profit |-> profit]}

SoldOut(left) == left <= 0

\* _apply_fill_to_position for a SELL; without an open row it does nothing.
ReportSell(size, price) ==
  /\ fills < MaxFills /\ fills' = fills + 1
  /\ Open # {} /\ size <= positions[Current].quantity
  /\ LET p      == positions[Current]
         profit == Profit(p, size, price)
         left   == p.quantity - size
     IN  /\ positions' = [positions EXCEPT ![Current] =
                            [p EXCEPT !.quantity = left, !.realized = profit,
                                      !.open = ~SoldOut(left)]]
         /\ netCash' = [netCash EXCEPT ![Current] = @ + price * size]
         /\ IF SoldOut(left) THEN Learn(Current, p.opening, profit)
                             ELSE UNCHANGED <<record, credits>>
  /\ UNCHANGED <<contributors, opener>>

\* Variant: a holding is adopted beside a position the bot tracks.
AlwaysAdopted(i) == FALSE

\* A row that keeps a holding from being adopted.
Tracked(i) == positions[i].open

\* _reconcile_untracked_positions: no row is open; today's price is the entry.
Adopt(size, price) ==
  /\ fills < MaxFills /\ fills' = fills + 1
  /\ ~ \E i \in DOMAIN positions : Tracked(i)
  /\ OpenRow(None, size, price)
  /\ UNCHANGED <<contributors, record, credits>>

LedgerNext ==
  \E size \in Sizes, price \in Prices :
    \/ \E decision \in Decisions : ReportBuy(decision, size, price)
    \/ ReportSell(size, price)
    \/ Adopt(size, price)

LedgerSpec == LedgerInit /\ [][LedgerNext]_ledgerVars

-----------------------------------------------------------------------------
(* Properties *)

\* A coin has one position: an adoption never opens a second row beside one that a
\* report opened, and a row is open exactly as long as something is left of it.
OneOpenPosition ==
  /\ Cardinality(Open) <= 1
  /\ \A i \in DOMAIN positions : positions[i].open <=> positions[i].quantity > 0

\* The profit a closed position is judged by is the cash it brought, over all the
\* buys that were averaged into it and all the partial sells.
ProfitIsCash ==
  \A i \in DOMAIN positions : ~positions[i].open => positions[i].realized = netCash[i]

\* Position i is closed at a profit or a loss and strategy s called for its first buy.
ClosedBy(s, i) ==
  /\ ~positions[i].open /\ netCash[i] # 0
  /\ opener[i] # None /\ s \in contributors[opener[i]]

\* Each strategy's record counts exactly the closed positions, each once, whose first
\* buy it called for; adopted ones and later buys into a position count for nobody,
\* and the supervisor's history has one line for each.
RecordMatchesHistory ==
  /\ \A s \in Strategies :
       LET mine == {i \in DOMAIN positions : ClosedBy(s, i)}
       IN  /\ record[s].trades = Cardinality(mine)
           /\ record[s].wins = Cardinality({i \in mine : netCash[i] > 0})
  /\ {k.position : k \in credits} = {i \in DOMAIN positions : \E s \in Strategies : ClosedBy(s, i)}
  /\ Cardinality(credits) = Cardinality({k.position : k \in credits})
=============================================================================
