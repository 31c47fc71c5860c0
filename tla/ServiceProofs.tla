----------------------------- MODULE ServiceProofs -----------------------------
(***************************************************************************)
(* WindowCapped of RateLimit, for any number of requests served at a time;  *)
(* OneOpenPosition, ProfitIsCash and RecordMatchesHistory of                *)
(* PositionLedger, for any fills; StopOnlyForNewLoss and PeaksAgree of      *)
(* DrawdownHalt, for any wallet values; OnlyRealMoves, ShownOnce and        *)
(* ShownInOrder of EquityAlerts, for any equities and failures.             *)
(***************************************************************************)
EXTENDS EquityAlerts, RateLimit, PositionLedger, DrawdownHalt, FoldLemmas, SequenceTheorems

\* Nobody is admitted without having been counted.
RateInv ==
  /\ counter \in Nat /\ admitted \in Nat
  /\ admitted <= counter /\ admitted <= MaxRequests

LEMMA RateStart ==
  ASSUME RateInit
  PROVE  RateInv
BY RateAssumption DEF RateInit, RateInv

LEMMA RateStep ==
  ASSUME RateInv, [RateNext]_rateVars
  PROVE  RateInv'
<1>1. CASE UNCHANGED rateVars
  BY <1>1 DEF rateVars, RateInv
<1>2. ASSUME NEW s \in Servers, Count(s) PROVE RateInv'
  <2>1. /\ counter' = Capped(counter + 1)
        /\ admitted' = IF Over(Capped(counter + 1)) THEN admitted ELSE admitted + 1
    BY <1>2 DEF Count
  <2>2. CASE counter + 1 > MaxRequests
    BY <2>1, <2>2, RateAssumption DEF RateInv, Capped, Over
  <2>3. CASE ~(counter + 1 > MaxRequests)
    BY <2>1, <2>3, RateAssumption DEF RateInv, Capped, Over
  <2> QED BY <2>2, <2>3
<1>3. ASSUME NEW s \in Servers, SetExpiry(s) \/ Answer(s) \/ LoseExpire(s) PROVE RateInv'
  BY <1>3 DEF SetExpiry, Answer, LoseExpire, RateInv
<1>4. CASE WindowEnds
  BY <1>4, RateAssumption DEF WindowEnds, RateInv
<1> QED BY <1>1, <1>2, <1>3, <1>4 DEF RateNext, ServeStep

\* No window admits more requests than the limit: the answer to INCR decides alone,
\* so neither racing requests nor a lost EXPIRE lets one more through.
THEOREM WindowsAreCapped == RateSpec => []WindowCapped
<1>1. RateInv => WindowCapped
  BY DEF RateInv, WindowCapped
<1> QED BY <1>1, RateStart, RateStep, PTL DEF RateSpec

-----------------------------------------------------------------------------
Row == [open : BOOLEAN, quantity : Nat, entry : Int, opening : Decisions \cup {None},
        realized : Int]

LedgerInv ==
  /\ positions \in Seq(Row)
  /\ \A i, j \in Open : i = j
  /\ \A i \in DOMAIN positions : positions[i].open <=> positions[i].quantity > 0

LEMMA CurrentIsOpen ==
  ASSUME Open # {}
  PROVE  Current \in Open /\ Current \in DOMAIN positions /\ positions[Current].open
BY DEF Current, Open

\* A row opened where none was open is the only one.
LEMMA OpenRowKeeps ==
  ASSUME LedgerInv, Open = {}, NEW d \in Decisions \cup {None}, NEW size \in Sizes,
         NEW price \in Prices, OpenRow(d, size, price)
  PROVE  LedgerInv'
<1> DEFINE row == [open |-> TRUE, quantity |-> size, entry |-> price, opening |-> d,
                   realized |-> 0]
<1>1. row \in Row /\ row.open /\ row.quantity > 0
  BY LedgerAssumption DEF Row
<1>2. positions' = Append(positions, row) /\ positions \in Seq(Row)
  BY DEF OpenRow, LedgerInv
<1> HIDE DEF row
<1>3. /\ positions' \in Seq(Row) /\ DOMAIN positions = 1..Len(positions)
      /\ DOMAIN positions' = 1..(Len(positions) + 1) /\ Len(positions) \in Nat
      /\ positions'[Len(positions) + 1] = row
      /\ \A i \in 1..Len(positions) : positions'[i] = positions[i]
  BY <1>1, <1>2
<1>4. \A i \in Open' : i = Len(positions) + 1
  BY <1>3 DEF Open
<1> QED BY <1>1, <1>3, <1>4 DEF LedgerInv

\* A fill of the open row leaves it open exactly if something is left.
LEMMA CurrentKeeps ==
  ASSUME LedgerInv, Open # {}, NEW row \in Row, row.open <=> row.quantity > 0,
         positions' = [positions EXCEPT ![Current] = row]
  PROVE  LedgerInv'
<1>1. positions' \in Seq(Row) /\ DOMAIN positions' = DOMAIN positions
  BY CurrentIsOpen DEF LedgerInv
<1>2. \A i \in DOMAIN positions : positions'[i] = IF i = Current THEN row ELSE positions[i]
  BY DEF LedgerInv
<1>3. Open' \subseteq Open
  BY <1>1, <1>2, CurrentIsOpen DEF Open
<1> QED BY <1>1, <1>2, <1>3 DEF LedgerInv

LEMMA ReportBuyStep ==
  ASSUME LedgerInv, NEW d \in Decisions, NEW size \in Sizes, NEW price \in Prices,
         ReportBuy(d, size, price)
  PROVE  LedgerInv'
<1>1. CASE Open = {}
  BY <1>1, OpenRowKeeps DEF ReportBuy
<1>2. CASE Open # {}
  <2> DEFINE p == positions[Current]
             row == AddedTo(p, d, size, price)
  <2>1. p \in Row /\ p.open /\ p.quantity > 0
    BY <1>2, CurrentIsOpen DEF LedgerInv
  <2>2. size \in Nat \ {0} /\ price \in Nat
    BY LedgerAssumption
  <2>3. /\ p.quantity + size \in Nat \ {0}
        /\ (p.entry * p.quantity + price * size) \div (p.quantity + size) \in Int
    BY <2>1, <2>2 DEF Row
  <2> DEFINE total   == p.quantity + size
             average == (p.entry * p.quantity + price * size) \div (p.quantity + size)
  <2>4. row \in Row /\ row.open /\ row.quantity > 0
    <3>1. row = [p EXCEPT !.quantity = total, !.entry = average]
      BY DEF AddedTo
    <3>2. average \in Int /\ total \in Nat \ {0}
      BY <2>3
    <3> HIDE DEF row, average, total, p
    <3>3. row \in Row /\ row.open = p.open /\ row.quantity = total
      BY <2>1, <3>1, <3>2 DEF Row
    <3> QED BY <2>1, <3>2, <3>3
  <2>5. positions' = [positions EXCEPT ![Current] = row]
    BY <1>2 DEF ReportBuy, LedgerInv
  <2> HIDE DEF row
  <2> QED BY <1>2, <2>4, <2>5, CurrentKeeps
<1> QED BY <1>1, <1>2

LEMMA ReportSellStep ==
  ASSUME LedgerInv, NEW size \in Sizes, NEW price \in Prices, ReportSell(size, price)
  PROVE  LedgerInv'
<1> DEFINE p == positions[Current]
           left == p.quantity - size
           row == [p EXCEPT !.quantity = left, !.realized = Profit(p, size, price),
                            !.open = ~SoldOut(left)]
<1>1. /\ Open # {} /\ size <= p.quantity
      /\ positions' = [positions EXCEPT ![Current] = row]
  BY DEF ReportSell
<1>2. p \in Row
  BY <1>1, CurrentIsOpen DEF LedgerInv
<1>3. size \in Nat /\ price \in Nat
  BY LedgerAssumption
<1>4. left \in Nat /\ Profit(p, size, price) \in Int
  BY <1>1, <1>2, <1>3 DEF Row, Profit
<1> DEFINE profit == Profit(p, size, price)
           open == left > 0
<1>5. row \in Row /\ (row.open <=> row.quantity > 0)
  <2>1. open \in BOOLEAN /\ (~SoldOut(left) <=> open)
    BY <1>4 DEF SoldOut
  <2>2. row = [p EXCEPT !.quantity = left, !.realized = profit, !.open = open]
    BY <2>1 DEF SoldOut
  <2>3. profit \in Int /\ left \in Nat
    BY <1>4
  <2> HIDE DEF row, left, profit, p
  <2>4. row \in Row /\ row.open = open /\ row.quantity = left
    BY <1>2, <2>1, <2>2, <2>3 DEF Row
  <2> QED BY <2>4
<1> HIDE DEF row
<1> QED BY <1>1, <1>5, CurrentKeeps

LEMMA LedgerStart ==
  ASSUME LedgerInit
  PROVE  LedgerInv
<1>1. positions = <<>>
  BY DEF LedgerInit
<1> QED BY <1>1 DEF LedgerInv, Open

LEMMA LedgerStep ==
  ASSUME LedgerInv, [LedgerNext]_ledgerVars
  PROVE  LedgerInv'
<1>1. CASE UNCHANGED ledgerVars
  BY <1>1 DEF ledgerVars, LedgerInv, Open
<1>2. ASSUME NEW size \in Sizes, NEW price \in Prices, Adopt(size, price) PROVE LedgerInv'
  <2>1. Open = {} /\ OpenRow(None, size, price)
    BY <1>2 DEF Adopt, Tracked, Open
  <2> QED BY <2>1, OpenRowKeeps
<1> QED BY <1>1, <1>2, ReportBuyStep, ReportSellStep DEF LedgerNext

\* A coin never has two open positions, and none is open with nothing left in it,
\* through any sequence of fills and adoptions.
THEOREM OnePositionIsOpen == LedgerSpec => []OneOpenPosition
<1>1. ASSUME LedgerInv PROVE Cardinality(Open) <= 1
  <2>1. CASE Open = {}
    BY <2>1, FS_EmptySet
  <2>2. CASE Open # {}
    <3>1. PICK i \in Open : Open = {i}
      BY <1>1, <2>2 DEF LedgerInv
    <3>2. Cardinality({i}) = 1
      BY FS_Singleton
    <3> QED BY <3>1, <3>2
  <2> QED BY <2>1, <2>2
<1>2. LedgerInv => OneOpenPosition
  BY <1>1 DEF LedgerInv, OneOpenPosition
<1> QED BY <1>2, LedgerStart, LedgerStep, PTL DEF LedgerSpec

-----------------------------------------------------------------------------
(* Realized profit and track record *)

\* A row's profit and what is still invested in it account for the cash.
BooksInv ==
  /\ contributors \in [Decisions -> SUBSET Strategies]
  /\ netCash \in Seq(Int) /\ Len(netCash) = Len(positions)
  /\ opener \in Seq(Decisions \cup {None}) /\ Len(opener) = Len(positions)
  /\ \A i \in DOMAIN positions :
       /\ netCash[i] = positions[i].realized - positions[i].entry * positions[i].quantity
       /\ opener[i] = positions[i].opening

\* The closed positions strategy s is judged by, and those that made a profit.
Mine(s) == {i \in DOMAIN positions : ClosedBy(s, i)}

Won(s) == {i \in Mine(s) : netCash[i] > 0}

RecordInv ==
  /\ record \in [Strategies -> [trades : Nat, wins : Nat]]
  /\ \A s \in Strategies :
       record[s].trades = Cardinality(Mine(s)) /\ record[s].wins = Cardinality(Won(s))
  /\ IsFiniteSet(credits)
  /\ \A k \in credits : \E s \in Strategies : k.position \in Mine(s)
  /\ \A s \in Strategies : \A i \in Mine(s) : \E k \in credits : k.position = i
  /\ \A k, l \in credits : k.position = l.position => k = l

LEMMA DividesBack ==
  ASSUME NEW x \in Int, NEW n \in Nat \ {0}, x % n = 0
  PROVE  (x \div n) * n = x
BY Z3

LEMMA RowNumbers ==
  ASSUME LedgerInv, BooksInv
  PROVE  /\ Len(positions) \in Nat /\ DOMAIN positions = 1..Len(positions)
         /\ DOMAIN netCash = DOMAIN positions /\ DOMAIN opener = DOMAIN positions
         /\ IsFiniteSet(DOMAIN positions)
         /\ \A i \in DOMAIN positions : /\ positions[i] \in Row /\ netCash[i] \in Int
                                        /\ opener[i] \in Decisions \cup {None}
<1>1. /\ positions \in Seq(Row) /\ netCash \in Seq(Int) /\ opener \in Seq(Decisions \cup {None})
      /\ Len(netCash) = Len(positions) /\ Len(opener) = Len(positions)
  BY DEF LedgerInv, BooksInv
<1>2. /\ Len(positions) \in Nat /\ DOMAIN positions = 1..Len(positions)
      /\ DOMAIN netCash = 1..Len(positions) /\ DOMAIN opener = 1..Len(positions)
  BY <1>1
<1>3. IsFiniteSet(DOMAIN positions)
  BY <1>2, FS_Interval
<1> QED BY <1>1, <1>2, <1>3

LEMMA OpenRowBooks ==
  ASSUME LedgerInv, BooksInv, NEW d \in Decisions \cup {None}, NEW size \in Sizes,
         NEW price \in Prices, OpenRow(d, size, price), UNCHANGED contributors
  PROVE  /\ BooksInv'
         /\ DOMAIN positions' = 1..(Len(positions) + 1) /\ positions'[Len(positions) + 1].open
         /\ \A i \in DOMAIN positions : /\ positions'[i] = positions[i]
                                        /\ netCash'[i] = netCash[i] /\ opener'[i] = opener[i]
<1> DEFINE row == [open |-> TRUE, quantity |-> size, entry |-> price, opening |-> d,
                   realized |-> 0]
           paid == price * size
           n == Len(positions)
<1>1. size \in Nat /\ price \in Nat
  BY LedgerAssumption
<1>2. row \in Row /\ row.open /\ row.realized = 0 /\ row.entry * row.quantity = paid
      /\ row.opening = d /\ paid \in Int
  BY <1>1 DEF Row
<1>3. /\ positions' = Append(positions, row) /\ netCash' = Append(netCash, -paid)
      /\ opener' = Append(opener, d)
  BY DEF OpenRow
<1> HIDE DEF row, paid
<1>4. /\ positions \in Seq(Row) /\ netCash \in Seq(Int) /\ opener \in Seq(Decisions \cup {None})
      /\ Len(netCash) = n /\ Len(opener) = n /\ n \in Nat /\ DOMAIN positions = 1..n
  BY RowNumbers DEF LedgerInv, BooksInv
<1>5. -paid \in Int
  BY <1>2
<1>6. /\ positions' \in Seq(Row) /\ Len(positions') = n + 1 /\ DOMAIN positions' = 1..(n + 1)
      /\ positions'[n + 1] = row /\ \A i \in 1..n : positions'[i] = positions[i]
  BY <1>2, <1>3, <1>4
<1>7. /\ netCash' \in Seq(Int) /\ Len(netCash') = n + 1
      /\ netCash'[n + 1] = -paid /\ \A i \in 1..n : netCash'[i] = netCash[i]
  BY <1>3, <1>4, <1>5
<1>8. /\ opener' \in Seq(Decisions \cup {None}) /\ Len(opener') = n + 1
      /\ opener'[n + 1] = d /\ \A i \in 1..n : opener'[i] = opener[i]
  BY <1>3, <1>4
<1>9. ASSUME NEW i \in DOMAIN positions'
      PROVE  /\ netCash'[i] = positions'[i].realized - positions'[i].entry * positions'[i].quantity
             /\ opener'[i] = positions'[i].opening
  <2>1. CASE i = n + 1
    BY <1>2, <1>6, <1>7, <1>8, <2>1
  <2>2. CASE i \in 1..n
    BY <1>4, <1>6, <1>7, <1>8, <2>2 DEF BooksInv
  <2> QED BY <1>4, <1>6, <1>9, <2>1, <2>2
<1>10. BooksInv'
  BY <1>6, <1>7, <1>8, <1>9 DEF BooksInv
<1> QED BY <1>2, <1>4, <1>6, <1>7, <1>8, <1>10

\* A fill of the open row, that keeps its cash accounted for.
LEMMA CurrentBooks ==
  ASSUME LedgerInv, BooksInv, Open # {}, NEW row \in Row, NEW cash \in Int,
         cash = row.realized - row.entry * row.quantity,
         row.opening = positions[Current].opening,
         positions' = [positions EXCEPT ![Current] = row],
         netCash' = [netCash EXCEPT ![Current] = cash],
         UNCHANGED <<contributors, opener>>
  PROVE  /\ BooksInv' /\ DOMAIN positions' = DOMAIN positions
         /\ positions'[Current] = row /\ netCash'[Current] = cash
         /\ \A i \in DOMAIN positions : opener'[i] = opener[i]
         /\ \A i \in DOMAIN positions \ {Current} :
              positions'[i] = positions[i] /\ netCash'[i] = netCash[i]
<1> DEFINE c == Current
<1>1. c \in DOMAIN positions /\ DOMAIN netCash = DOMAIN positions
  BY CurrentIsOpen, RowNumbers
<1> HIDE DEF c
<1>2. positions' = [positions EXCEPT ![c] = row] /\ netCash' = [netCash EXCEPT ![c] = cash]
  BY DEF c
<1>3. positions \in Seq(Row) /\ netCash \in Seq(Int)
  BY DEF LedgerInv, BooksInv
<1>4. /\ positions' \in Seq(Row) /\ Len(positions') = Len(positions)
      /\ DOMAIN positions' = DOMAIN positions
      /\ netCash' \in Seq(Int) /\ Len(netCash') = Len(netCash)
  <2>1. c \in 1..Len(positions) /\ c \in 1..Len(netCash)
    BY <1>1, <1>3
  <2> DEFINE rows == [positions EXCEPT ![c] = row]
             sums == [netCash EXCEPT ![c] = cash]
  <2>2. rows \in Seq(Row) /\ Len(rows) = Len(positions)
    BY ONLY <1>3, <2>1, row \in Row, ExceptSeq
  <2>3. sums \in Seq(Int) /\ Len(sums) = Len(netCash)
    BY ONLY <1>3, <2>1, cash \in Int, ExceptSeq
  <2>4. DOMAIN rows = DOMAIN positions
    OBVIOUS
  <2>5. positions' = rows /\ netCash' = sums
    BY <1>2
  <2> HIDE DEF rows, sums
  <2> QED BY <2>2, <2>3, <2>4, <2>5
<1>5. /\ positions'[c] = row /\ netCash'[c] = cash
      /\ \A i \in DOMAIN positions \ {c} : positions'[i] = positions[i] /\ netCash'[i] = netCash[i]
  BY <1>1, <1>2, <1>3
<1>6. ASSUME NEW i \in DOMAIN positions
      PROVE  /\ netCash'[i] = positions'[i].realized - positions'[i].entry * positions'[i].quantity
             /\ opener'[i] = positions'[i].opening
  <2>1. CASE i = c
    <3>1. opener[c] = positions[c].opening
      BY <1>1 DEF BooksInv
    <3>2. row.opening = positions[c].opening
      BY DEF c
    <3> QED BY <1>5, <2>1, <3>1, <3>2
  <2>2. CASE i # c
    BY <1>5, <2>2 DEF BooksInv
  <2> QED BY <2>1, <2>2
<1>7. BooksInv'
  BY <1>4, <1>6 DEF BooksInv
<1> QED BY <1>4, <1>5, <1>7 DEF c

\* An average that comes out even keeps what is invested.
LEMMA AddBooks ==
  ASSUME LedgerInv, BooksInv, Open # {}, NEW d \in Decisions, NEW size \in Sizes,
         NEW price \in Prices, ReportBuy(d, size, price)
  PROVE  /\ BooksInv' /\ DOMAIN positions' = DOMAIN positions /\ positions'[Current].open
         /\ \A i \in DOMAIN positions : opener'[i] = opener[i]
         /\ \A i \in DOMAIN positions \ {Current} :
              positions'[i] = positions[i] /\ netCash'[i] = netCash[i]
<1> DEFINE p == positions[Current]
           spent == p.entry * p.quantity
           paid == price * size
           total == p.quantity + size
           average == (spent + paid) \div total
           row == [p EXCEPT !.quantity = total, !.entry = average]
           cash == netCash[Current] - paid
<1>1. p \in Row /\ p.open /\ p.quantity > 0 /\ Current \in DOMAIN positions
  BY CurrentIsOpen DEF LedgerInv
<1>2. size \in Nat \ {0} /\ price \in Nat
  BY LedgerAssumption
<1>3. /\ total \in Nat \ {0} /\ spent \in Int /\ paid \in Int /\ netCash[Current] \in Int
      /\ netCash[Current] = p.realized - spent /\ p.realized \in Int
  BY <1>1, <1>2, RowNumbers DEF Row, BooksInv
<1>4. (spent + paid) % total = 0
  BY DEF ReportBuy, AverageIsWhole
<1>5. /\ positions' = [positions EXCEPT ![Current] = row]
      /\ netCash' = [netCash EXCEPT ![Current] = cash]
      /\ UNCHANGED <<contributors, opener>>
  <2>1. /\ positions' = [positions EXCEPT ![Current] = AddedTo(@, d, size, price)]
        /\ netCash' = [netCash EXCEPT ![Current] = @ - price * size]
        /\ UNCHANGED <<contributors, opener>>
    BY DEF ReportBuy
  <2>2. AddedTo(p, d, size, price) = row
    BY DEF AddedTo
  <2> HIDE DEF row
  <2> QED BY <1>1, <2>1, <2>2, RowNumbers
<1>6. average * total = spent + paid /\ average \in Int
  <2> HIDE DEF spent, paid, total
  <2>1. spent + paid \in Int
    BY <1>3
  <2> QED BY <1>3, <1>4, <2>1, DividesBack
<1> HIDE DEF spent, paid, total, average, p
<1>7. /\ row \in Row /\ row.open /\ row.opening = p.opening
      /\ row.realized = p.realized /\ row.entry = average /\ row.quantity = total
  BY <1>1, <1>3, <1>6 DEF Row
<1> HIDE DEF row
<1>8. cash \in Int /\ cash = row.realized - row.entry * row.quantity
  BY <1>3, <1>6, <1>7
<1> HIDE DEF cash
<1>9. row.opening = positions[Current].opening
  BY <1>7 DEF p
<1> QED BY <1>5, <1>7, <1>8, <1>9, CurrentBooks

LEMMA SellBooks ==
  ASSUME LedgerInv, BooksInv, NEW size \in Sizes, NEW price \in Prices, ReportSell(size, price)
  PROVE  LET left   == positions[Current].quantity - size
             profit == Profit(positions[Current], size, price)
         IN  /\ BooksInv' /\ DOMAIN positions' = DOMAIN positions
             /\ left \in Nat /\ profit \in Int
             /\ positions'[Current].open = ~SoldOut(left)
             /\ SoldOut(left) => netCash'[Current] = profit
             /\ \A i \in DOMAIN positions : opener'[i] = opener[i]
             /\ \A i \in DOMAIN positions \ {Current} :
                  positions'[i] = positions[i] /\ netCash'[i] = netCash[i]
<1> DEFINE p == positions[Current]
           left == p.quantity - size
           profit == Profit(p, size, price)
           kept == p.entry * left
           open == left > 0
           row == [p EXCEPT !.quantity = left, !.realized = profit, !.open = open]
           cash == netCash[Current] + price * size
<1>1. /\ p \in Row /\ p.open /\ Current \in DOMAIN positions /\ Open # {}
      /\ size <= p.quantity
  BY CurrentIsOpen DEF LedgerInv, ReportSell
<1>2. size \in Nat \ {0} /\ price \in Nat
  BY LedgerAssumption
<1>3. /\ p.quantity \in Nat /\ p.entry \in Int /\ p.realized \in Int /\ netCash[Current] \in Int
      /\ netCash[Current] = p.realized - p.entry * p.quantity
  BY <1>1, RowNumbers DEF Row, BooksInv
<1>4. left \in Nat /\ profit \in Int /\ (~SoldOut(left) <=> open) /\ open \in BOOLEAN
  BY <1>1, <1>2, <1>3 DEF Profit, SoldOut
<1>5. /\ positions' = [positions EXCEPT ![Current] = row]
      /\ netCash' = [netCash EXCEPT ![Current] = cash]
      /\ UNCHANGED <<contributors, opener>>
  <2>1. /\ positions' = [positions EXCEPT ![Current] =
                           [p EXCEPT !.quantity = left, !.realized = profit,
                                     !.open = ~SoldOut(left)]]
        /\ netCash' = [netCash EXCEPT ![Current] = @ + price * size]
        /\ UNCHANGED <<contributors, opener>>
    BY DEF ReportSell
  <2>2. row = [p EXCEPT !.quantity = left, !.realized = profit, !.open = ~SoldOut(left)]
    BY <1>4 DEF SoldOut
  <2> HIDE DEF row, left, profit, p
  <2> QED BY <1>1, <2>1, <2>2, RowNumbers
<1>6. kept = p.entry * p.quantity - p.entry * size /\ kept \in Int
  <2> DEFINE e == p.entry
             q == p.quantity
  <2>1. e \in Int /\ q \in Nat /\ size \in Nat
    BY <1>2, <1>3
  <2> HIDE DEF e, q
  <2>2. e * (q - size) = e * q - e * size /\ e * (q - size) \in Int
    BY <2>1
  <2> QED BY <2>2 DEF e, q
<1>7. profit = p.realized + price * size - p.entry * size
  <2> DEFINE e == p.entry
             r == p.realized
  <2>1. e \in Int /\ r \in Int /\ size \in Nat /\ price \in Nat
    BY <1>2, <1>3
  <2>2. profit = r + (price - e) * size
    BY DEF Profit
  <2> HIDE DEF e, r, profit
  <2>3. r + (price - e) * size = r + price * size - e * size
    BY <2>1
  <2> QED BY <2>2, <2>3 DEF e, r
<1>8. cash \in Int /\ cash = profit - kept
  <2> DEFINE x == p.entry * p.quantity
             y == p.entry * size
             z == price * size
  <2>1. x \in Int /\ y \in Int /\ z \in Int
    BY <1>2, <1>3
  <2>2. netCash[Current] = p.realized - x /\ kept = x - y /\ profit = p.realized + z - y
    BY <1>3, <1>6, <1>7
  <2>3. p.realized \in Int
    BY <1>3
  <2> HIDE DEF x, y, z, kept, profit, p
  <2> QED BY <2>1, <2>2, <2>3 DEF z
<1>9. ~open => kept = 0
  <2>1. ~open => left = 0
    BY <1>4
  <2>2. p.entry * 0 = 0
    BY <1>3
  <2> HIDE DEF left, p, open
  <2> QED BY <2>1, <2>2
<1>10. /\ row \in Row /\ row.open = open /\ row.opening = p.opening
       /\ row.realized = profit /\ row.entry * row.quantity = kept
  <2> HIDE DEF p, left, profit, open
  <2> QED BY <1>1, <1>4 DEF Row
<1>11. SoldOut(left) <=> ~open
  BY <1>4
<1>12. SoldOut(left) => cash = profit
  <2> HIDE DEF cash, profit, kept, open, left
  <2> QED BY <1>4, <1>8, <1>9, <1>11
<1>13. positions[Current].opening = row.opening
  BY <1>10
<1> HIDE DEF row, cash, profit, kept
<1>14. cash = row.realized - row.entry * row.quantity
  BY <1>8, <1>10
<1>15. /\ BooksInv' /\ DOMAIN positions' = DOMAIN positions
       /\ positions'[Current] = row /\ netCash'[Current] = cash
       /\ \A i \in DOMAIN positions : opener'[i] = opener[i]
       /\ \A i \in DOMAIN positions \ {Current} :
            positions'[i] = positions[i] /\ netCash'[i] = netCash[i]
  <2> HIDE DEF p
  <2> QED BY <1>1, <1>5, <1>8, <1>10, <1>13, <1>14, CurrentBooks
<1>16. positions'[Current].open = ~SoldOut(left)
  <2>1. (~SoldOut(left)) = (left > 0)
    BY <1>4 DEF SoldOut
  <2> HIDE DEF left, p
  <2> QED BY <1>10, <1>15, <2>1
<1> QED BY <1>4, <1>12, <1>15, <1>16 DEF profit

\* Rows that are open before and after, or new and open, are judged by nobody.
LEMMA SameJudged ==
  ASSUME UNCHANGED contributors, DOMAIN positions \subseteq DOMAIN positions', NEW touched,
         \A i \in DOMAIN positions' \ touched :
           /\ i \in DOMAIN positions /\ positions'[i] = positions[i]
           /\ netCash'[i] = netCash[i] /\ opener'[i] = opener[i],
         \A i \in touched : i \in DOMAIN positions' /\ positions'[i].open,
         \A i \in touched : i \in DOMAIN positions => positions[i].open
  PROVE  \A s \in Strategies : Mine(s)' = Mine(s) /\ Won(s)' = Won(s)
<1>1. ASSUME NEW s \in Strategies, NEW i
      PROVE  i \in Mine(s)' <=> i \in Mine(s)
  <2>1. CASE i \in touched
    BY <2>1 DEF Mine, ClosedBy
  <2>2. CASE i \notin touched
    BY <2>2 DEF Mine, ClosedBy
  <2> QED BY <2>1, <2>2
<1>2. \A s \in Strategies : \A i \in Mine(s) : netCash'[i] = netCash[i]
  BY DEF Mine, ClosedBy
<1>3. \A s \in Strategies : Mine(s)' = Mine(s)
  BY <1>1
<1> QED BY <1>2, <1>3 DEF Won

LEMMA RecordKept ==
  ASSUME RecordInv, UNCHANGED <<record, credits>>,
         \A s \in Strategies : Mine(s)' = Mine(s) /\ Won(s)' = Won(s)
  PROVE  RecordInv'
BY DEF RecordInv

LEMMA JudgedFinite ==
  ASSUME LedgerInv, BooksInv, NEW s
  PROVE  IsFiniteSet(Mine(s)) /\ IsFiniteSet(Won(s))
<1>1. Mine(s) \in SUBSET DOMAIN positions /\ Won(s) \in SUBSET DOMAIN positions
  BY DEF Mine, Won
<1> QED BY <1>1, RowNumbers, FS_Subset

LEMMA OpenRowRecord ==
  ASSUME LedgerInv, BooksInv, RecordInv, NEW d \in Decisions \cup {None}, NEW size \in Sizes,
         NEW price \in Prices, OpenRow(d, size, price), UNCHANGED <<contributors, record, credits>>
  PROVE  BooksInv' /\ RecordInv'
<1> DEFINE n == Len(positions)
<1>1. /\ BooksInv'
      /\ DOMAIN positions' = 1..(n + 1) /\ positions'[n + 1].open
      /\ \A i \in DOMAIN positions : /\ positions'[i] = positions[i]
                                     /\ netCash'[i] = netCash[i] /\ opener'[i] = opener[i]
  BY OpenRowBooks
<1>2. DOMAIN positions = 1..n /\ n \in Nat
  BY RowNumbers
<1> HIDE DEF n
<1>3. /\ DOMAIN positions \subseteq DOMAIN positions'
      /\ \A i \in DOMAIN positions' \ {n + 1} : i \in DOMAIN positions
      /\ n + 1 \in DOMAIN positions' /\ n + 1 \notin DOMAIN positions
  BY <1>1, <1>2
<1>4. \A s \in Strategies : Mine(s)' = Mine(s) /\ Won(s)' = Won(s)
  <2>1. \A i \in {n + 1} : i \in DOMAIN positions' /\ positions'[i].open
    BY <1>1, <1>3
  <2>2. \A i \in {n + 1} : i \in DOMAIN positions => positions[i].open
    BY <1>3
  <2>3. \A i \in DOMAIN positions' \ {n + 1} :
          /\ i \in DOMAIN positions /\ positions'[i] = positions[i]
          /\ netCash'[i] = netCash[i] /\ opener'[i] = opener[i]
    BY <1>1, <1>3
  <2> QED BY <1>3, <2>1, <2>2, <2>3, SameJudged
<1> QED BY <1>1, <1>4, RecordKept

\* A fill that leaves the row open.
LEMMA StillOpenRecord ==
  ASSUME LedgerInv, RecordInv, Open # {}, UNCHANGED <<contributors, record, credits>>,
         DOMAIN positions' = DOMAIN positions, positions'[Current].open,
         \A i \in DOMAIN positions : opener'[i] = opener[i],
         \A i \in DOMAIN positions \ {Current} :
           positions'[i] = positions[i] /\ netCash'[i] = netCash[i]
  PROVE  RecordInv'
<1>1. Current \in DOMAIN positions /\ positions[Current].open
  BY CurrentIsOpen
<1>2. \A s \in Strategies : Mine(s)' = Mine(s) /\ Won(s)' = Won(s)
  <2> DEFINE c == Current
  <2>1. \A i \in {c} : i \in DOMAIN positions' /\ positions'[i].open
    BY <1>1
  <2>2. \A i \in {c} : i \in DOMAIN positions => positions[i].open
    BY <1>1
  <2>3. \A i \in DOMAIN positions' \ {c} :
          /\ i \in DOMAIN positions /\ positions'[i] = positions[i]
          /\ netCash'[i] = netCash[i] /\ opener'[i] = opener[i]
    OBVIOUS
  <2>4. UNCHANGED contributors /\ DOMAIN positions \subseteq DOMAIN positions'
    OBVIOUS
  <2> HIDE DEF c
  <2> DEFINE touched == {c}
  <2>5. /\ \A i \in touched : i \in DOMAIN positions' /\ positions'[i].open
        /\ \A i \in touched : i \in DOMAIN positions => positions[i].open
        /\ \A i \in DOMAIN positions' \ touched :
             /\ i \in DOMAIN positions /\ positions'[i] = positions[i]
             /\ netCash'[i] = netCash[i] /\ opener'[i] = opener[i]
    BY <2>1, <2>2, <2>3
  <2> HIDE DEF touched
  <2> QED BY <2>4, <2>5, SameJudged
<1> QED BY <1>2, RecordKept

\* The strategies that are judged by a position once it is closed.
Judged(i, profit) == IF profit = 0 THEN {} ELSE Credited(opener[i])

\* The fill that closes the row counts it once, for whoever called for its first buy.
LEMMA SoldOutRecord ==
  ASSUME LedgerInv, BooksInv, RecordInv, Open # {}, NEW profit \in Int,
         Learn(Current, positions[Current].opening, profit),
         UNCHANGED contributors, DOMAIN positions' = DOMAIN positions,
         ~positions'[Current].open, netCash'[Current] = profit,
         \A i \in DOMAIN positions : opener'[i] = opener[i],
         \A i \in DOMAIN positions \ {Current} :
           positions'[i] = positions[i] /\ netCash'[i] = netCash[i]
  PROVE  RecordInv'
<1> DEFINE c == Current
           names == Judged(c, profit)
           row == [position |-> c, opening |-> positions[c].opening, profit |-> profit]
<1>1. c \in DOMAIN positions /\ positions[c].open
  BY CurrentIsOpen
<1>2. /\ record' = [s \in Strategies |-> IF s \in names THEN Counted(s, profit) ELSE record[s]]
      /\ credits' = IF names = {} THEN credits ELSE credits \cup {row}
  <2>1. positions[c].opening = opener[c]
    BY <1>1 DEF BooksInv
  <2> QED BY <2>1 DEF Learn, Judged
<1>3. \A s \in Strategies : s \in names <=>
        profit # 0 /\ opener[c] # None /\ s \in contributors[opener[c]]
  BY DEF Judged, Credited
<1>4. names \subseteq Strategies
  <2>1. opener[c] \in Decisions \cup {None}
    BY <1>1, RowNumbers
  <2> QED BY <2>1 DEF Judged, Credited, BooksInv
<1>5. \A s \in Strategies : c \notin Mine(s) /\ c \notin Won(s)
  BY <1>1 DEF Mine, Won, ClosedBy
<1> HIDE DEF c, names, row
<1>6. /\ ~positions'[c].open /\ netCash'[c] = profit /\ opener'[c] = opener[c]
      /\ \A i \in DOMAIN positions \ {c} : /\ positions'[i] = positions[i]
                                           /\ netCash'[i] = netCash[i] /\ opener'[i] = opener[i]
  BY <1>1 DEF c
<1>7. ASSUME NEW s \in Strategies
      PROVE  Mine(s)' = IF s \in names THEN Mine(s) \cup {c} ELSE Mine(s)
  <2>1. ASSUME NEW i PROVE i \in Mine(s)' <=> i \in Mine(s) \/ (i = c /\ s \in names)
    <3>1. CASE i = c
      BY <1>1, <1>3, <1>5, <1>6, <3>1 DEF Mine, ClosedBy
    <3>2. CASE i # c
      BY <1>6, <3>2 DEF Mine, ClosedBy
    <3> QED BY <3>1, <3>2
  <2> QED BY <2>1
<1>8. ASSUME NEW s \in Strategies
      PROVE  Won(s)' = IF s \in names /\ profit > 0 THEN Won(s) \cup {c} ELSE Won(s)
  <2>1. \A i \in Mine(s) : i # c /\ netCash'[i] = netCash[i]
    BY <1>5, <1>6 DEF Mine
  <2>2. ASSUME NEW i PROVE i \in Won(s)' <=> i \in Won(s) \/ (i = c /\ s \in names /\ profit > 0)
    <3>1. i \in Won(s)' <=> i \in Mine(s)' /\ netCash'[i] > 0
      BY DEF Won
    <3>2. i \in Won(s) <=> i \in Mine(s) /\ netCash[i] > 0
      BY DEF Won
    <3>3. CASE i = c
      BY <1>5, <1>6, <1>7, <3>1, <3>3
    <3>4. CASE i # c
      BY <1>7, <2>1, <3>1, <3>2, <3>4
    <3> QED BY <3>3, <3>4
  <2> QED BY <2>2
<1>9. /\ record' \in [Strategies -> [trades : Nat, wins : Nat]]
      /\ \A s \in Strategies :
           record'[s].trades = Cardinality(Mine(s)') /\ record'[s].wins = Cardinality(Won(s)')
  <2>1. ASSUME NEW s \in Strategies
        PROVE  /\ record'[s] \in [trades : Nat, wins : Nat]
               /\ record'[s].trades = Cardinality(Mine(s)')
               /\ record'[s].wins = Cardinality(Won(s)')
    <3>1. /\ record[s].trades \in Nat /\ record[s].wins \in Nat
          /\ record[s] \in [trades : Nat, wins : Nat]
          /\ record[s].trades = Cardinality(Mine(s)) /\ record[s].wins = Cardinality(Won(s))
      BY DEF RecordInv
    <3>2. /\ Cardinality(Mine(s) \cup {c}) = record[s].trades + 1
          /\ Cardinality(Won(s) \cup {c}) = record[s].wins + 1
      <4>1. IsFiniteSet(Mine(s)) /\ IsFiniteSet(Won(s))
        BY JudgedFinite
      <4>2. Cardinality(Mine(s) \cup {c}) = Cardinality(Mine(s)) + 1
        BY ONLY <1>5, <4>1, s \in Strategies, FS_AddElement
      <4>3. Cardinality(Won(s) \cup {c}) = Cardinality(Won(s)) + 1
        BY ONLY <1>5, <4>1, s \in Strategies, FS_AddElement
      <4> QED BY <3>1, <4>2, <4>3
    <3>3. CASE s \in names
      <4> DEFINE more == IF profit > 0 THEN 1 ELSE 0
      <4>1. record'[s] = [trades |-> record[s].trades + 1, wins |-> record[s].wins + more]
        BY <1>2, <3>3 DEF Counted
      <4>2. Cardinality(Mine(s)') = record[s].trades + 1
        BY <1>7, <3>2, <3>3
      <4>3. Cardinality(Won(s)') = record[s].wins + more
        <5>1. CASE profit > 0
          BY <1>8, <3>2, <3>3, <5>1
        <5>2. CASE ~(profit > 0)
          <6>1. Won(s)' = Won(s)
            BY <1>8, <5>2
          <6>2. more = 0
            BY <5>2
          <6> HIDE DEF more
          <6> QED BY <3>1, <6>1, <6>2
        <5> QED BY <5>1, <5>2
      <4>4. more \in Nat
        OBVIOUS
      <4> HIDE DEF more
      <4> QED BY <3>1, <4>1, <4>2, <4>3, <4>4
    <3>4. CASE s \notin names
      BY <1>2, <1>7, <1>8, <3>1, <3>4
    <3> QED BY <3>3, <3>4
  <2> QED BY <1>2, <2>1
<1>10. /\ IsFiniteSet(credits)
       /\ \A k \in credits : \E s \in Strategies : k.position \in Mine(s)
       /\ \A s \in Strategies : \A i \in Mine(s) : \E k \in credits : k.position = i
       /\ \A k, l \in credits : k.position = l.position => k = l
  BY DEF RecordInv
<1>11. row.position = c /\ \A k \in credits : k.position # c
  BY <1>5, <1>10 DEF row
<1>12. IsFiniteSet(credits')
  BY <1>2, <1>10, FS_AddElement
<1>13. \A k \in credits' : \E s \in Strategies : k.position \in Mine(s)'
  <2>1. \A k \in credits : \E s \in Strategies : k.position \in Mine(s)'
    BY <1>7, <1>10
  <2>2. names # {} => \E s \in Strategies : row.position \in Mine(s)'
    BY <1>4, <1>7, <1>11
  <2> QED BY <1>2, <2>1, <2>2
<1>14. \A s \in Strategies : \A i \in Mine(s)' : \E k \in credits' : k.position = i
  <2>1. ASSUME NEW s \in Strategies, NEW i \in Mine(s)' PROVE \E k \in credits' : k.position = i
    <3>1. CASE i \in Mine(s)
      BY <1>2, <1>10, <3>1
    <3>2. CASE i \notin Mine(s)
      <4>1. i = c /\ s \in names
        BY <1>7, <2>1, <3>2
      <4>2. row \in credits'
        BY <1>2, <4>1
      <4> QED BY <1>11, <4>1, <4>2
    <3> QED BY <3>1, <3>2
  <2> QED BY <2>1
<1>15. \A k, l \in credits' : k.position = l.position => k = l
  BY <1>2, <1>10, <1>11
<1> QED BY <1>9, <1>12, <1>13, <1>14, <1>15 DEF RecordInv

LEMMA BooksStart ==
  ASSUME LedgerInit
  PROVE  BooksInv /\ RecordInv
<1>1. /\ contributors \in [Decisions -> SUBSET Strategies]
      /\ positions = <<>> /\ netCash = <<>> /\ opener = <<>> /\ credits = {}
      /\ record = [s \in Strategies |-> [trades |-> 0, wins |-> 0]]
  BY DEF LedgerInit
<1>2. BooksInv
  BY <1>1 DEF BooksInv
<1>3. \A s : Mine(s) = {} /\ Won(s) = {}
  BY <1>1 DEF Mine, Won
<1>4. RecordInv
  BY <1>1, <1>3, FS_EmptySet DEF RecordInv
<1> QED BY <1>2, <1>4

LEMMA BooksStep ==
  ASSUME LedgerInv, BooksInv, RecordInv, [LedgerNext]_ledgerVars
  PROVE  BooksInv' /\ RecordInv'
<1>1. CASE UNCHANGED ledgerVars
  <2>1. /\ UNCHANGED <<contributors, positions, netCash, opener>>
        /\ UNCHANGED <<record, credits>>
    BY <1>1 DEF ledgerVars
  <2>2. \A s \in Strategies : Mine(s)' = Mine(s) /\ Won(s)' = Won(s)
    BY <2>1 DEF Mine, Won, ClosedBy
  <2>3. BooksInv'
    BY <2>1 DEF BooksInv
  <2> QED BY <2>1, <2>2, <2>3, RecordKept
<1>2. ASSUME NEW size \in Sizes, NEW price \in Prices, Adopt(size, price)
      PROVE  BooksInv' /\ RecordInv'
  BY <1>2, OpenRowRecord DEF Adopt
<1>3. ASSUME NEW d \in Decisions, NEW size \in Sizes, NEW price \in Prices,
             ReportBuy(d, size, price)
      PROVE  BooksInv' /\ RecordInv'
  <2>1. UNCHANGED <<contributors, record, credits>>
    BY <1>3 DEF ReportBuy
  <2>2. CASE Open = {}
    BY <1>3, <2>1, <2>2, OpenRowRecord DEF ReportBuy
  <2>3. CASE Open # {}
    <3>1. /\ BooksInv' /\ DOMAIN positions' = DOMAIN positions /\ positions'[Current].open
          /\ \A i \in DOMAIN positions : opener'[i] = opener[i]
          /\ \A i \in DOMAIN positions \ {Current} :
               positions'[i] = positions[i] /\ netCash'[i] = netCash[i]
      BY <1>3, <2>3, AddBooks
    <3> QED BY <2>1, <2>3, <3>1, StillOpenRecord
  <2> QED BY <2>2, <2>3
<1>4. ASSUME NEW size \in Sizes, NEW price \in Prices, ReportSell(size, price)
      PROVE  BooksInv' /\ RecordInv'
  <2> DEFINE left   == positions[Current].quantity - size
             profit == Profit(positions[Current], size, price)
  <2>1. /\ BooksInv' /\ DOMAIN positions' = DOMAIN positions
        /\ profit \in Int
        /\ positions'[Current].open = ~SoldOut(left)
        /\ SoldOut(left) => netCash'[Current] = profit
        /\ \A i \in DOMAIN positions : opener'[i] = opener[i]
        /\ \A i \in DOMAIN positions \ {Current} :
             positions'[i] = positions[i] /\ netCash'[i] = netCash[i]
    BY <1>4, SellBooks
  <2>2. /\ Open # {} /\ UNCHANGED contributors
        /\ IF SoldOut(left) THEN Learn(Current, positions[Current].opening, profit)
                            ELSE UNCHANGED <<record, credits>>
    BY <1>4 DEF ReportSell
  <2> HIDE DEF left, profit
  <2>3. CASE SoldOut(left)
    BY <2>1, <2>2, <2>3, SoldOutRecord
  <2>4. CASE ~SoldOut(left)
    BY <2>1, <2>2, <2>4, StillOpenRecord
  <2> QED BY <2>1, <2>3, <2>4
<1> QED BY <1>1, <1>2, <1>3, <1>4 DEF LedgerNext

LEMMA BooksInvariant == LedgerSpec => [](LedgerInv /\ BooksInv /\ RecordInv)
<1>1. LedgerInit => LedgerInv /\ BooksInv /\ RecordInv
  BY LedgerStart, BooksStart
<1>2. LedgerInv /\ BooksInv /\ RecordInv /\ [LedgerNext]_ledgerVars
        => LedgerInv' /\ BooksInv' /\ RecordInv'
  BY LedgerStep, BooksStep
<1> QED BY <1>1, <1>2, PTL DEF LedgerSpec

\* The realized profit of a closed position is the cash it brought, through any
\* averaged buys and partial sells.
THEOREM ProfitsAreCash == LedgerSpec => []ProfitIsCash
<1>1. ASSUME LedgerInv, BooksInv PROVE ProfitIsCash
  <2>1. ASSUME NEW i \in DOMAIN positions, ~positions[i].open
        PROVE  positions[i].realized = netCash[i]
    <3> DEFINE e == positions[i].entry
               q == positions[i].quantity
               r == positions[i].realized
    <3>1. /\ e \in Int /\ q \in Nat /\ r \in Int
          /\ positions[i].open <=> q > 0
          /\ netCash[i] = r - e * q
      BY <1>1, RowNumbers DEF Row, LedgerInv, BooksInv
    <3> HIDE DEF e, q, r
    <3>2. q = 0
      BY <2>1, <3>1
    <3>3. netCash[i] = r
      BY <3>1, <3>2
    <3> QED BY <3>3 DEF r
  <2> QED BY <2>1 DEF ProfitIsCash
<1> QED BY <1>1, BooksInvariant, PTL

\* Each strategy's record counts the closed positions it called for, each once.
THEOREM RecordsMatch == LedgerSpec => []RecordMatchesHistory
<1>1. ASSUME LedgerInv, BooksInv, RecordInv PROVE RecordMatchesHistory
  <2> DEFINE places == {k.position : k \in credits}
  <2>1. places = {i \in DOMAIN positions : \E s \in Strategies : ClosedBy(s, i)}
    BY <1>1 DEF RecordInv, Mine
  <2>2. Cardinality(credits) = Cardinality(places)
    <3> DEFINE f == [k \in credits |-> k.position]
    <3>1. f \in Surjection(credits, places)
      BY DEF Surjection
    <3>2. f \in Injection(credits, places)
      <4>1. \A k, l \in credits : f[k] = f[l] => k = l
        BY <1>1 DEF RecordInv
      <4>2. f \in [credits -> places] /\ DOMAIN f = credits
        OBVIOUS
      <4> HIDE DEF f, places
      <4> QED BY <4>1, <4>2 DEF Injection, IsInjective
    <3>3. IsFiniteSet(credits)
      BY <1>1 DEF RecordInv
    <3> HIDE DEF places, f
    <3> QED BY ONLY <3>1, <3>2, <3>3, FS_Surjection
  <2>3. ASSUME NEW s \in Strategies
        PROVE  LET mine == {i \in DOMAIN positions : ClosedBy(s, i)}
               IN  /\ record[s].trades = Cardinality(mine)
                   /\ record[s].wins = Cardinality({i \in mine : netCash[i] > 0})
    BY <1>1 DEF RecordInv, Mine, Won
  <2> QED BY <2>1, <2>2, <2>3 DEF RecordMatchesHistory
<1> QED BY <1>1, BooksInvariant, PTL

-----------------------------------------------------------------------------
\* The peak since the last stop is that of a report made after it, and it is the
\* dashboard's as long as no stop has ended.
HaltInv ==
  /\ latest \in Nat /\ highest \in Nat /\ since \in Nat
  /\ age \in 0..HaltBeats
  /\ since = 0 \/ since \in reported
  /\ since <= highest
  /\ ~over => since = highest

LEMMA HaltStart ==
  ASSUME HaltInit
  PROVE  HaltInv
BY HaltAssumption DEF HaltInit, HaltInv

LEMMA HaltStep ==
  ASSUME HaltInv, [HaltNext]_haltVars
  PROVE  HaltInv'
<1>1. CASE UNCHANGED haltVars
  BY <1>1 DEF haltVars, HaltInv
<1>2. ASSUME NEW e \in Wallets, ReportWallet(e) PROVE HaltInv'
  BY <1>2, HaltAssumption DEF ReportWallet, Above, HaltInv
<1>3. CASE NoteHalt
  BY <1>3, HaltAssumption DEF NoteHalt, HaltInv
<1>4. CASE HaltBeat
  <2>1. age' \in 0..HaltBeats
    BY <1>4, HaltAssumption DEF HaltBeat, Stopped, HaltInv
  <2>2. CASE age' = HaltBeats
    <3>1. since' = 0 /\ over' = TRUE /\ latest' = latest /\ highest' = highest
      BY <1>4, <2>2 DEF HaltBeat, HistoryOfBeat
    <3> QED BY <2>1, <3>1 DEF HaltInv
  <2>3. CASE age' # HaltBeats
    <3>1. UNCHANGED <<latest, highest, since, over, reported>>
      BY <1>4, <2>3 DEF HaltBeat, HistoryOfBeat
    <3> QED BY <2>1, <3>1 DEF HaltInv
  <2> QED BY <2>2, <2>3
<1> QED BY <1>1, <1>2, <1>3, <1>4 DEF HaltNext

LEMMA HaltInvariant == HaltSpec => []HaltInv
BY HaltStart, HaltStep, PTL DEF HaltSpec

\* A stop that begins answers to a loss from a value reported since the last one
\* ended: outside a stop the peak is that of a report made since then (HaltInv), and
\* an account at its peak is in no drawdown.
THEOREM StopsForNewLosses == HaltSpec => StopOnlyForNewLoss
<1>1. ASSUME HaltInv, [HaltNext]_haltVars, ~Stopped, Stopped'
      PROVE  \E w \in reported : w > 0 /\ 100 * (w - latest) >= HaltPercent * w
  <2>1. CASE NoteHalt
    <3>1. HaltPeak > 0 /\ 100 * (HaltPeak - latest) >= HaltPercent * HaltPeak
      BY <2>1 DEF NoteHalt, InDrawdown
    <3>2. HaltPeak = IF since > latest THEN since ELSE latest
      BY <1>1 DEF HaltPeak, Above
    <3>3. CASE since > latest
      <4>1. since \in reported
        BY <1>1, <3>3 DEF HaltInv
      <4> QED BY <3>1, <3>2, <3>3, <4>1
    <3>4. CASE ~(since > latest)
      <4>1. latest > 0 /\ 100 * (latest - latest) >= HaltPercent * latest
        BY <3>1, <3>2, <3>4
      <4>2. latest \in Nat /\ HaltPercent \in 1..100
        BY <1>1, HaltAssumption DEF HaltInv
      <4>3. HaltPercent * latest > 0
        BY <4>1, <4>2
      <4> QED BY <4>1, <4>2, <4>3
    <3> QED BY <3>3, <3>4
  <2>2. CASE ~NoteHalt
    BY <1>1, <2>2 DEF HaltNext, haltVars, ReportWallet, HaltBeat, Stopped
  <2> QED BY <2>1, <2>2
<1>2. HaltInv /\ [HaltNext]_haltVars
        => [~Stopped /\ Stopped'
              => \E w \in reported : w > 0 /\ 100 * (w - latest) >= HaltPercent * w]_haltVars
  BY <1>1
<1> QED BY <1>2, HaltInvariant, PTL DEF HaltSpec, StopOnlyForNewLoss

\* The dashboard never measures a report from a lower peak than the agent, and from
\* the same one as long as no stop has ended and while one runs.
THEOREM SamePeak == HaltSpec => PeaksAgree
<1>1. ASSUME HaltInv, NEW e \in Wallets, ReportWallet(e)
      PROVE  /\ DashboardPeak(e) >= HaltPeak'
             /\ ~over \/ Stopped => DashboardPeak(e) = HaltPeak'
  <2>1. /\ latest' = e /\ highest' = Above(highest, e) /\ since' = Above(since, e)
        /\ Stopped' = Stopped
    BY <1>1 DEF ReportWallet, Stopped
  <2>2. e \in Nat /\ highest \in Nat /\ since \in Nat /\ since <= highest
    BY <1>1, HaltAssumption DEF HaltInv
  <2>3. HaltPeak' = IF Stopped THEN Above(highest, e) ELSE Above(since, e)
    BY <2>1, <2>2 DEF HaltPeak, Above
  <2>4. DashboardPeak(e) >= HaltPeak'
    BY <2>2, <2>3 DEF DashboardPeak, Above
  <2>5. ASSUME ~over \/ Stopped PROVE DashboardPeak(e) = HaltPeak'
    BY <1>1, <2>3, <2>5 DEF DashboardPeak, HaltInv
  <2> QED BY <2>4, <2>5
<1>2. HaltInv /\ [HaltNext]_haltVars
        => [\A e \in Wallets : ReportWallet(e)
              => /\ DashboardPeak(e) >= HaltPeak'
                 /\ ~over \/ Stopped => DashboardPeak(e) = HaltPeak']_haltVars
  BY <1>1
<1> QED BY <1>2, HaltInvariant, PTL DEF HaltSpec, PeaksAgree

-----------------------------------------------------------------------------
\* What is written down about an equity move.
Alert == [equity : Nat, delivered : BOOLEAN]

AlertTypes ==
  /\ equity \in Nat /\ alerts \in Seq(Alert) /\ staged \in Seq(Alert)
  /\ Len(alerts) + Len(staged) <= MaxAlerts /\ Len(staged) <= 1
  /\ shown \in [Rows -> Nat] /\ alertFailures \in Nat

\* Every row but the first is a move, also the one that is not committed yet.
MoveInv ==
  /\ alerts # <<>> => alerts[1].delivered
  /\ \A i \in 2..Len(alerts) : FarFrom(alerts[i].equity, alerts[i - 1].equity)
  /\ staged # <<>> => IF alerts = <<>> THEN staged[1].delivered
                      ELSE ~staged[1].delivered /\ FarFrom(staged[1].equity, LastAlert.equity)
  /\ \A i \in Rows : shown[i] > 0 => i \in 2..Len(alerts)

FetchInv ==
  /\ phase \in {"idle", "show", "ack"} /\ (phase = "idle" <=> fetched = {})
  /\ fetched \subseteq Undelivered

\* Row i is done with: acknowledged, or shown and about to be.
Answered(i) ==
  /\ i \in DOMAIN alerts
  /\ alerts[i].delivered \/ (phase = "ack" /\ i = OldestOf(fetched))

\* A row is shown before it is acknowledged, and again only if that failed.
CountedInv ==
  /\ \A i \in Rows : shown[i] <= alertFailures + 1 /\ (~Answered(i) => shown[i] <= alertFailures)
  /\ \A i \in 2..Len(alerts) : Answered(i) => shown[i] > 0

\* What is older than a fetched row and was not fetched with it has been shown.
OrderInv ==
  /\ ShownInOrder
  /\ \A j \in fetched : \A i \in 2..MaxAlerts : i < j /\ i \notin fetched => shown[i] > 0

AlertInv == AlertTypes /\ MoveInv /\ FetchInv /\ CountedInv /\ OrderInv

LEMMA AlertStart ==
  ASSUME AlertInit
  PROVE  AlertInv
<1>1. alerts = <<>> /\ staged = <<>> /\ fetched = {} /\ shown = [i \in Rows |-> 0] /\ phase = "idle"
      /\ equity = 0 /\ alertFailures = 0
  BY DEF AlertInit
<1>2. AlertTypes
  BY <1>1, AlertAssumption DEF AlertTypes
<1>3. MoveInv
  BY <1>1 DEF MoveInv, Rows
<1>4. FetchInv
  BY <1>1 DEF FetchInv
<1>5. CountedInv
  BY <1>1 DEF CountedInv, Answered, Rows
<1>6. OrderInv
  BY <1>1 DEF OrderInv, ShownInOrder, Rows
<1> QED BY <1>2, <1>3, <1>4, <1>5, <1>6 DEF AlertInv

\* The row the phone takes up next is one of those it fetched, and not the reference.
LEMMA OldestIn ==
  ASSUME AlertInv, fetched # {}
  PROVE  /\ OldestOf(fetched) \in fetched /\ \A j \in fetched : OldestOf(fetched) <= j
         /\ fetched \subseteq 2..Len(alerts) /\ Len(alerts) <= MaxAlerts /\ Len(alerts) \in Nat
         /\ \A i \in fetched : ~alerts[i].delivered
<1>1. alerts \in Seq(Alert) /\ DOMAIN alerts = 1..Len(alerts) /\ Len(alerts) \in Nat
  BY DEF AlertInv, AlertTypes
<1>2. fetched \subseteq 1..Len(alerts) /\ \A i \in fetched : ~alerts[i].delivered
  BY <1>1 DEF AlertInv, FetchInv, Undelivered
<1>3. alerts[1].delivered
  <2>1. Len(alerts) # 0
    <3>1. PICK j \in fetched : TRUE
      OBVIOUS
    <3>2. j \in 1..Len(alerts)
      BY <1>2
    <3> QED BY <1>1, <3>2
  <2>2. alerts # <<>>
    BY <2>1, <1>1, EmptySeq
  <2> QED BY <2>2 DEF AlertInv, MoveInv
<1>4. IsFiniteSet(fetched) /\ fetched \in SUBSET Int
  <2>1. IsFiniteSet(1..Len(alerts))
    BY <1>1, FS_Interval
  <2>2. IsFiniteSet(fetched)
    BY <1>2, <2>1, FS_Subset
  <2>3. 1..Len(alerts) \subseteq Int
    BY <1>1
  <2> QED BY <1>2, <2>2, <2>3
<1>5. Len(alerts) <= MaxAlerts
  BY AlertAssumption DEF AlertInv, AlertTypes
<1> QED BY <1>1, <1>2, <1>3, <1>4, <1>5, MinIs DEF OldestOf

\* The backend's steps other than a commit leave what the phone works on alone.
LEMMA BackendKeepsAlerts ==
  ASSUME AlertInv, UNCHANGED <<alerts, phase, fetched, shown>>, equity' \in Nat,
         alertFailures' \in Nat, alertFailures' >= alertFailures,
         staged' \in Seq(Alert), Len(staged') <= 1, Len(alerts) + Len(staged') <= MaxAlerts,
         staged' # <<>> => IF alerts = <<>> THEN staged'[1].delivered
                           ELSE ~staged'[1].delivered /\ FarFrom(staged'[1].equity, LastAlert.equity)
  PROVE  AlertInv'
<1>1. AlertTypes'
  BY DEF AlertInv, AlertTypes
<1>2. MoveInv'
  BY DEF AlertInv, MoveInv, LastAlert
<1>3. FetchInv'
  BY DEF AlertInv, FetchInv, Undelivered
<1>4. CountedInv'
  <2>1. shown \in [Rows -> Nat] /\ alertFailures \in Nat
    BY DEF AlertInv, AlertTypes
  <2>2. \A i \in Rows : Answered(i)' <=> Answered(i)
    BY DEF Answered
  <2>3. \A i \in 2..Len(alerts) : Answered(i)' <=> Answered(i)
    BY DEF Answered
  <2> QED BY <2>1, <2>2, <2>3 DEF AlertInv, CountedInv
<1>5. OrderInv'
  BY DEF AlertInv, OrderInv, ShownInOrder
<1> QED BY <1>1, <1>2, <1>3, <1>4, <1>5 DEF AlertInv

LEMMA CheckMovementStep ==
  ASSUME AlertInv, CheckMovement
  PROVE  AlertInv'
<1>1. alerts \in Seq(Alert) /\ equity \in Nat /\ Len(alerts) \in Nat
  BY DEF AlertInv, AlertTypes
<1>2. NewAlert \in Alert /\ (alerts = <<>> <=> NewAlert.delivered) /\ NewAlert.equity = equity
  BY <1>1 DEF NewAlert, Alert
<1> DEFINE row == NewAlert
<1>3. staged' = <<row>> /\ Len(alerts) < MaxAlerts /\ (alerts = <<>> \/ Moved)
      /\ UNCHANGED <<equity, live, alerts, phase, fetched, shown, alertFailures>>
  BY DEF CheckMovement
<1> HIDE DEF row
<1>4. staged' \in Seq(Alert) /\ Len(staged') = 1 /\ staged'[1] = row
  <2>1. row \in Alert
    BY <1>2 DEF row
  <2> QED BY <2>1, <1>3
<1>5. alerts # <<>> => ~row.delivered /\ FarFrom(row.equity, LastAlert.equity)
  <2>1. (alerts = <<>> <=> row.delivered) /\ row.equity = equity
    BY <1>2 DEF row
  <2> QED BY <2>1, <1>3 DEF Moved
<1>6. alertFailures \in Nat /\ MaxAlerts \in Nat
  BY AlertAssumption DEF AlertInv, AlertTypes
<1>7. alerts = <<>> => row.delivered
  BY <1>2 DEF row
<1>8. Len(alerts) + 1 <= MaxAlerts
  BY <1>1, <1>3, <1>6
<1> QED BY <1>1, <1>3, <1>4, <1>5, <1>6, <1>7, <1>8, BackendKeepsAlerts

LEMMA CommitCheckStep ==
  ASSUME AlertInv, CommitCheck
  PROVE  AlertInv'
<1> DEFINE n == Len(alerts)
           row == staged[1]
<1>1. /\ alerts \in Seq(Alert) /\ staged \in Seq(Alert) /\ n \in Nat /\ n + 1 <= MaxAlerts
      /\ Len(staged) = 1 /\ row \in Alert /\ DOMAIN alerts = 1..n
  <2>1. alerts \in Seq(Alert) /\ staged \in Seq(Alert) /\ staged # <<>>
    BY DEF AlertInv, AlertTypes, CommitCheck
  <2>2. Len(staged) # 0 /\ Len(staged) \in Nat
    BY <2>1, EmptySeq
  <2>3. Len(staged) = 1
    <3>1. Len(staged) <= 1
      BY DEF AlertInv, AlertTypes
    <3> QED BY ONLY <2>2, <3>1
  <2>4. n + 1 <= MaxAlerts /\ n \in Nat
    BY <2>1, <2>3 DEF AlertInv, AlertTypes
  <2> QED BY <2>1, <2>3, <2>4
<1>2. /\ alerts' \in Seq(Alert) /\ Len(alerts') = n + 1 /\ DOMAIN alerts' = 1..(n + 1)
      /\ \A i \in 1..n : alerts'[i] = alerts[i]
      /\ alerts'[n + 1] = row
  <2>1. alerts' = alerts \o staged
    BY DEF CommitCheck
  <2>2. alerts' \in Seq(Alert) /\ Len(alerts') = n + 1
    <3>1. Len(alerts') = Len(alerts) + Len(staged)
      BY <1>1, <2>1, ConcatProperties
    <3>2. alerts' \in Seq(Alert)
      BY <1>1, <2>1, ConcatProperties
    <3> QED BY <1>1, <3>1, <3>2
  <2>3. \A i \in 1..(n + 1) : alerts'[i] = IF i <= n THEN alerts[i] ELSE staged[i - n]
    <3>1. alerts \in Seq(Alert) /\ staged \in Seq(Alert) /\ Len(alerts) = n /\ Len(staged) = 1
      BY <1>1
    <3>2. \A i \in 1..(Len(alerts) + Len(staged)) :
            (alerts \o staged)[i]
              = IF i <= Len(alerts) THEN alerts[i] ELSE staged[i - Len(alerts)]
      BY ONLY <3>1, ConcatProperties
    <3> HIDE DEF n
    <3> QED BY ONLY <2>1, <3>1, <3>2
  <2>4. alerts'[n + 1] = row
    BY <1>1, <2>3
  <2> QED BY <1>1, <2>2, <2>3, <2>4
<1>3. /\ staged' = <<>>
      /\ UNCHANGED <<equity, live, phase, fetched, shown, alertFailures>>
  BY DEF CommitCheck
<1>4. MaxAlerts \in Nat \ {0} /\ shown \in [Rows -> Nat] /\ alertFailures \in Nat
  BY AlertAssumption DEF AlertInv, AlertTypes
<1> HIDE DEF n, row
<1>5. AlertTypes'
  BY <1>1, <1>2, <1>3 DEF AlertInv, AlertTypes
<1>6. staged # <<>> /\ (alerts = <<>> <=> n = 0)
  <2>1. staged # <<>>
    BY DEF CommitCheck
  <2> QED BY <1>1, <2>1, EmptySeq DEF n
<1>7. MoveInv'
  <2>1. alerts'[1].delivered
    BY <1>1, <1>2, <1>6 DEF AlertInv, MoveInv, row
  <2>2. ASSUME NEW i \in 2..(n + 1) PROVE FarFrom(alerts'[i].equity, alerts'[i - 1].equity)
    <3>1. CASE i = n + 1
      BY <1>1, <1>2, <1>6, <3>1 DEF AlertInv, MoveInv, LastAlert, row, n
    <3>2. CASE i # n + 1
      <4>1. i \in 2..n /\ i \in 1..n /\ i - 1 \in 1..n
        BY <1>1, <3>2
      <4>2. FarFrom(alerts[i].equity, alerts[i - 1].equity)
        BY <4>1 DEF AlertInv, MoveInv, n
      <4> QED BY <1>2, <4>1, <4>2
    <3> QED BY <3>1, <3>2
  <2>3. \A i \in Rows : shown'[i] > 0 => i \in 2..(n + 1)
    BY <1>1, <1>3 DEF AlertInv, MoveInv, n
  <2> QED BY <1>2, <1>3, <2>1, <2>2, <2>3 DEF MoveInv
<1>8. FetchInv'
  BY <1>1, <1>2, <1>3 DEF AlertInv, FetchInv, Undelivered
<1>9. CountedInv'
  <2>1. \A i \in Rows : shown[i] \in Nat
    BY <1>4
  <2>2. \A i \in 1..n : Answered(i)' <=> Answered(i)
    BY <1>1, <1>2, <1>3 DEF Answered
  <2>3. ASSUME NEW i \in Rows, i \notin 1..n PROVE shown[i] = 0
    <3>1. i \notin 2..n
      BY <2>3 DEF Rows
    <3> QED BY <2>1, <3>1 DEF AlertInv, MoveInv, n
  <2>4. ASSUME NEW i \in Rows
        PROVE  shown[i] <= alertFailures + 1 /\ (~Answered(i)' => shown[i] <= alertFailures)
    <3>1. CASE i \in 1..n
      BY <2>2, <3>1 DEF AlertInv, CountedInv
    <3>2. CASE i \notin 1..n
      BY <2>3, <3>2, <1>4
    <3> QED BY <3>1, <3>2
  <2>5. ASSUME NEW i \in 2..(n + 1), Answered(i)' PROVE shown[i] > 0
    <3>1. CASE i = n + 1
      <4>1. n # 0
        BY <2>5, <3>1, <1>1
      <4>2. ~row.delivered
        BY <4>1, <1>6 DEF AlertInv, MoveInv, row
      <4>3. phase = "ack" /\ i = OldestOf(fetched)
        BY <2>5, <3>1, <4>2, <1>2, <1>3 DEF Answered
      <4>4. fetched # {}
        BY <4>3 DEF AlertInv, FetchInv
      <4>5. i \in 2..n
        BY <4>3, <4>4, OldestIn DEF n
      <4> QED BY <4>5, <3>1, <1>1
    <3>2. CASE i # n + 1
      <4>1. i \in 2..n /\ i \in 1..n
        BY <1>1, <3>2
      <4> QED BY <2>2, <2>5, <4>1 DEF AlertInv, CountedInv, n
    <3> QED BY <3>1, <3>2
  <2> QED BY <1>2, <1>3, <2>4, <2>5 DEF CountedInv
<1>10. OrderInv'
  BY <1>3 DEF AlertInv, OrderInv, ShownInOrder
<1> QED BY <1>5, <1>7, <1>8, <1>9, <1>10 DEF AlertInv
\* Fetching starts nothing that was shown already.
LEMMA FetchStep ==
  ASSUME AlertInv, FetchAlerts
  PROVE  AlertInv'
<1>1. /\ phase = "idle" /\ Undelivered # {} /\ fetched' = Undelivered /\ phase' = "show"
      /\ UNCHANGED <<equity, live, alerts, staged, shown, alertFailures>>
  BY DEF FetchAlerts
<1>2. alerts \in Seq(Alert) /\ DOMAIN alerts = 1..Len(alerts) /\ Len(alerts) \in Nat
  BY DEF AlertInv, AlertTypes
<1>3. AlertTypes' /\ MoveInv'
  BY <1>1 DEF AlertInv, AlertTypes, MoveInv, LastAlert
<1>4. FetchInv'
  BY <1>1 DEF AlertInv, FetchInv, Undelivered
<1>5. CountedInv'
  <2>1. \A i : Answered(i)' <=> Answered(i)
    BY <1>1 DEF Answered
  <2> QED BY <1>1, <2>1 DEF AlertInv, CountedInv
<1>6. OrderInv'
  <2>1. ASSUME NEW j \in Undelivered, NEW i \in 2..MaxAlerts, i < j, i \notin Undelivered
        PROVE  shown[i] > 0
    <3>1. i \in 2..Len(alerts) /\ i \in DOMAIN alerts
      BY <1>2, <2>1, AlertAssumption DEF Undelivered
    <3>2. Answered(i)
      BY <2>1, <3>1 DEF Answered, Undelivered
    <3> QED BY <3>1, <3>2 DEF AlertInv, CountedInv
  <2> QED BY <1>1, <2>1 DEF AlertInv, OrderInv, ShownInOrder
<1> QED BY <1>3, <1>4, <1>5, <1>6 DEF AlertInv

\* The oldest of the rows in hand: all before it have been shown.
LEMMA ShowStepKeeps ==
  ASSUME AlertInv, ShowAlert
  PROVE  AlertInv'
<1> DEFINE k == OldestOf(fetched)
<1>1. /\ phase = "show" /\ shown' = [shown EXCEPT ![k] = @ + 1] /\ phase' = "ack"
      /\ UNCHANGED <<equity, live, alerts, staged, fetched, alertFailures>>
  BY DEF ShowAlert
<1>2. fetched # {}
  BY <1>1 DEF AlertInv, FetchInv
<1>3. /\ k \in fetched /\ \A j \in fetched : k <= j
      /\ fetched \subseteq 2..Len(alerts) /\ Len(alerts) <= MaxAlerts /\ Len(alerts) \in Nat
      /\ ~alerts[k].delivered
  BY <1>2, OldestIn
<1>4. MaxAlerts \in Nat /\ shown \in [Rows -> Nat] /\ alertFailures \in Nat
      /\ DOMAIN alerts = 1..Len(alerts)
  BY AlertAssumption DEF AlertInv, AlertTypes
<1>5. k \in Rows /\ k \in 2..Len(alerts) /\ k \in 2..MaxAlerts /\ k \in DOMAIN alerts
  <2>1. k \in 2..Len(alerts)
    BY <1>3
  <2> HIDE DEF k
  <2> QED BY ONLY <1>3, <1>4, <2>1 DEF Rows
<1>6. /\ shown' \in [Rows -> Nat] /\ shown'[k] = shown[k] + 1 /\ shown[k] \in Nat
      /\ \A i \in Rows : i # k => shown'[i] = shown[i]
  BY <1>1, <1>4, <1>5
<1>7. k' = k
  BY <1>1
<1> HIDE DEF k
<1>8. AlertTypes'
  BY <1>1, <1>6 DEF AlertInv, AlertTypes
<1>9. MoveInv'
  <2>1. \A i \in Rows : shown'[i] > 0 => i \in 2..Len(alerts)
    BY <1>5, <1>6 DEF AlertInv, MoveInv
  <2> QED BY <1>1, <2>1 DEF AlertInv, MoveInv, LastAlert
<1>10. FetchInv'
  BY <1>1, <1>2 DEF AlertInv, FetchInv, Undelivered
<1>11. \A i : Answered(i)' <=> Answered(i) \/ i = k
  <2>1. \A i : Answered(i) <=> i \in DOMAIN alerts /\ alerts[i].delivered
    BY <1>1 DEF Answered
  <2>2. \A i : Answered(i)' <=> i \in DOMAIN alerts /\ (alerts[i].delivered \/ i = k)
    BY <1>1, <1>7 DEF Answered, k
  <2> QED BY <1>5, <2>1, <2>2
<1>12. CountedInv'
  <2>1. ~Answered(k)
    BY <1>1, <1>3 DEF Answered
  <2>2. shown[k] <= alertFailures
    BY <1>5, <2>1 DEF AlertInv, CountedInv
  <2>3. ASSUME NEW i \in Rows
        PROVE  shown'[i] <= alertFailures + 1 /\ (~Answered(i)' => shown'[i] <= alertFailures)
    <3>1. CASE i = k
      BY <1>4, <1>6, <1>11, <2>2, <3>1
    <3>2. CASE i # k
      BY <1>6, <1>11, <3>2 DEF AlertInv, CountedInv
    <3> QED BY <3>1, <3>2
  <2>4. ASSUME NEW i \in 2..Len(alerts), Answered(i)' PROVE shown'[i] > 0
    <3>1. CASE i = k
      BY <1>6, <3>1
    <3>2. CASE i # k
      <4>1. i \in Rows
        BY <1>3, <1>4 DEF Rows
      <4> QED BY <1>6, <1>11, <2>4, <3>2, <4>1 DEF AlertInv, CountedInv
    <3> QED BY <3>1, <3>2
  <2> QED BY <1>1, <2>3, <2>4 DEF CountedInv
<1>13. 2..MaxAlerts \subseteq Rows
  BY <1>4 DEF Rows
<1>14. \A i \in 2..MaxAlerts : shown[i] > 0 => shown'[i] > 0
  BY <1>6, <1>13
<1>15. \A i \in 2..MaxAlerts : i < k => shown[i] > 0
  BY <1>3, <1>5, <1>13 DEF AlertInv, OrderInv
<1>16. ShownInOrder'
  <2>1. ASSUME NEW i \in 2..MaxAlerts, NEW j \in 2..MaxAlerts, i < j, shown'[j] > 0
        PROVE  shown'[i] > 0
    <3>1. CASE j = k
      BY <1>14, <1>15, <2>1, <3>1
    <3>2. CASE j # k
      BY <1>6, <1>13, <1>14, <2>1, <3>2 DEF AlertInv, OrderInv, ShownInOrder
    <3> QED BY <3>1, <3>2
  <2> QED BY <2>1 DEF ShownInOrder
<1>17. OrderInv'
  BY <1>1, <1>14, <1>16 DEF AlertInv, OrderInv
<1> QED BY <1>8, <1>9, <1>10, <1>12, <1>17 DEF AlertInv

\* Going on to the next row, whether this one was acknowledged or that was lost.
LEMMA NextKeeps ==
  ASSUME AlertInv, phase = "ack", NextAlert, UNCHANGED <<equity, live, staged, shown>>,
         \/ alerts' = Acked(OldestOf(fetched)) /\ alertFailures' = alertFailures
         \/ alerts' = alerts /\ alertFailures' = alertFailures + 1
  PROVE  AlertInv'
<1> DEFINE k == OldestOf(fetched)
<1>1. fetched # {} /\ fetched' = fetched \ {k}
      /\ phase' = IF fetched' = {} THEN "idle" ELSE "show"
  BY DEF AlertInv, FetchInv, NextAlert
<1>2. /\ k \in fetched /\ \A j \in fetched : k <= j
      /\ fetched \subseteq 2..Len(alerts) /\ Len(alerts) <= MaxAlerts /\ Len(alerts) \in Nat
  BY <1>1, OldestIn
<1>3. MaxAlerts \in Nat /\ shown \in [Rows -> Nat] /\ alertFailures \in Nat
      /\ alerts \in Seq(Alert) /\ DOMAIN alerts = 1..Len(alerts)
  BY AlertAssumption DEF AlertInv, AlertTypes
<1>4. k \in 2..Len(alerts)
  BY <1>2
<1>5. k \in Rows /\ k \in 2..MaxAlerts /\ k \in DOMAIN alerts
  <2> HIDE DEF k
  <2> QED BY ONLY <1>2, <1>3, <1>4 DEF Rows
<1>6. /\ alerts' \in Seq(Alert) /\ Len(alerts') = Len(alerts)
      /\ \A i \in DOMAIN alerts : alerts'[i].equity = alerts[i].equity
      /\ \A i \in DOMAIN alerts : i # k => alerts'[i] = alerts[i]
      /\ \/ alerts'[k].delivered /\ alertFailures' = alertFailures
         \/ alertFailures' = alertFailures + 1
      /\ alerts[1].delivered => alerts'[1].delivered
      /\ DOMAIN alerts' = DOMAIN alerts
  <2>1. CASE alerts' = alerts /\ alertFailures' = alertFailures + 1
    BY <1>3, <2>1
  <2>2. CASE alerts' = Acked(k) /\ alertFailures' = alertFailures
    <3> DEFINE row == [alerts[k] EXCEPT !.delivered = TRUE]
    <3>1. alerts[k] \in Alert
      BY <1>3, <1>5
    <3>2. row \in Alert /\ row.equity = alerts[k].equity /\ row.delivered
      BY <3>1 DEF Alert
    <3>3. alerts' = [alerts EXCEPT ![k] = row]
      BY <2>2 DEF Acked
    <3> HIDE DEF row, k
    <3> QED BY <1>3, <1>5, <2>2, <3>2, <3>3
  <2> QED BY <2>1, <2>2
<1>7. alertFailures' \in Nat /\ alertFailures' >= alertFailures
  BY <1>3, <1>6
<1>8. Answered(k)
  BY <1>5 DEF Answered
<1> HIDE DEF k
<1>9. alerts' = <<>> <=> alerts = <<>>
  BY <1>3, <1>6, EmptySeq
<1>10. AlertTypes'
  BY <1>3, <1>6, <1>5 DEF AlertInv, AlertTypes
<1>11. MoveInv'
  <2>1. \A i \in 2..Len(alerts) : i \in DOMAIN alerts /\ i - 1 \in DOMAIN alerts
    BY <1>2, <1>3
  <2>2. \A i \in 2..Len(alerts) : FarFrom(alerts'[i].equity, alerts'[i - 1].equity)
    BY <1>6, <2>1 DEF AlertInv, MoveInv
  <2>3. alerts' # <<>> => alerts'[1].delivered
    BY <1>6, <1>9 DEF AlertInv, MoveInv
  <2>4. alerts # <<>> => LastAlert'.equity = LastAlert.equity
    <3>1. alerts # <<>> => Len(alerts) \in DOMAIN alerts
      BY <1>3, EmptySeq
    <3> QED BY <1>6, <3>1 DEF LastAlert
  <2> QED BY <1>6, <1>9, <2>2, <2>3, <2>4 DEF AlertInv, MoveInv
<1>12. FetchInv'
  <2>1. fetched' \subseteq Undelivered'
    BY <1>1, <1>6 DEF AlertInv, FetchInv, Undelivered
  <2>2. phase' \in {"idle", "show"} /\ (phase' = "idle" <=> fetched' = {})
    BY <1>1
  <2> QED BY <2>1, <2>2 DEF FetchInv
<1>13. \A i \in DOMAIN alerts : Answered(i)' => Answered(i)
  BY <1>1, <1>6, <1>8 DEF Answered
<1>14. \A i \in Rows : Answered(i) /\ i # k => Answered(i)'
  BY <1>6 DEF Answered, k
<1>15. CountedInv'
  <2>1. ASSUME NEW i \in Rows
        PROVE  shown[i] <= alertFailures' + 1 /\ (~Answered(i)' => shown[i] <= alertFailures')
    <3>1. shown[i] \in Nat /\ shown[i] <= alertFailures + 1
      BY <1>3 DEF AlertInv, CountedInv
    <3>2. CASE alertFailures' = alertFailures + 1
      BY <1>3, <3>1, <3>2
    <3>3. CASE alertFailures' # alertFailures + 1
      <4>1. k \in DOMAIN alerts' /\ alerts'[k].delivered /\ alertFailures' = alertFailures
        BY <1>5, <1>6, <3>3
      <4>2. ~Answered(i)' => ~Answered(i)
        BY <1>14, <4>1 DEF Answered
      <4> QED BY <3>1, <4>1, <4>2 DEF AlertInv, CountedInv
    <3> QED BY <3>2, <3>3
  <2>2. \A i \in 2..Len(alerts) : i \in DOMAIN alerts
    BY <1>2, <1>3
  <2> QED BY <1>6, <1>13, <2>1, <2>2 DEF AlertInv, CountedInv
<1>16. shown[k] > 0
  BY <1>5, <1>8 DEF AlertInv, CountedInv
<1>17. OrderInv'
  BY <1>1, <1>16 DEF AlertInv, OrderInv, ShownInOrder
<1> QED BY <1>10, <1>11, <1>12, <1>15, <1>17 DEF AlertInv

LEMMA PhoneDiesStep ==
  ASSUME AlertInv, PhoneDies
  PROVE  AlertInv'
<1>1. /\ phase' = "idle" /\ fetched' = {} /\ alertFailures' = alertFailures + 1
      /\ UNCHANGED <<equity, live, alerts, staged, shown>>
  BY DEF PhoneDies
<1>2. shown \in [Rows -> Nat] /\ alertFailures \in Nat
  BY DEF AlertInv, AlertTypes
<1>3. AlertTypes' /\ MoveInv' /\ FetchInv' /\ OrderInv'
  BY <1>1, <1>2
  DEF AlertInv, AlertTypes, MoveInv, LastAlert, FetchInv, OrderInv, ShownInOrder
<1>4. \A i : Answered(i)' => Answered(i)
  BY <1>1 DEF Answered
<1>5. CountedInv'
  <2>1. ASSUME NEW i \in Rows PROVE shown[i] <= alertFailures + 1 /\ shown[i] \in Nat
    BY <1>2 DEF AlertInv, CountedInv
  <2> QED BY <1>1, <1>2, <1>4, <2>1 DEF AlertInv, CountedInv
<1> QED BY <1>3, <1>5 DEF AlertInv

LEMMA AlertStep ==
  ASSUME AlertInv, [AlertNext]_alertVars
  PROVE  AlertInv'
<1>1. /\ equity \in Nat /\ alertFailures \in Nat /\ staged \in Seq(Alert)
      /\ alerts \in Seq(Alert) /\ Len(staged) <= 1 /\ Len(alerts) + Len(staged) <= MaxAlerts
  BY DEF AlertInv, AlertTypes
<1>2. staged # <<>> => IF alerts = <<>> THEN staged[1].delivered
                       ELSE ~staged[1].delivered /\ FarFrom(staged[1].equity, LastAlert.equity)
  BY DEF AlertInv, MoveInv
<1>3. CASE UNCHANGED alertVars
  BY <1>1, <1>2, <1>3, BackendKeepsAlerts DEF alertVars
<1>4. ASSUME NEW e \in Equities, ReportEquity(e) PROVE AlertInv'
  <2>1. equity' \in Nat /\ UNCHANGED <<alerts, staged, phase, fetched, shown, alertFailures>>
    BY <1>4, AlertAssumption DEF ReportEquity
  <2> QED BY <1>1, <1>2, <2>1, BackendKeepsAlerts
<1>5. CASE SwitchMode
  BY <1>1, <1>2, <1>5, BackendKeepsAlerts DEF SwitchMode
<1>6. CASE AbortCheck
  <2>1. staged' = <<>> /\ alertFailures' = alertFailures + 1
        /\ UNCHANGED <<equity, alerts, phase, fetched, shown>>
    BY <1>6 DEF AbortCheck
  <2>2. staged' \in Seq(Alert) /\ Len(staged') = 0 /\ Len(alerts) \in Nat /\ Len(staged) \in Nat
    BY <1>1, <2>1, EmptySeq
  <2>3. Len(alerts) <= MaxAlerts /\ MaxAlerts \in Nat
    BY <1>1, <2>2, AlertAssumption
  <2> QED BY <1>1, <2>1, <2>2, <2>3, BackendKeepsAlerts
<1>7. CASE AckAlert
  BY <1>7, NextKeeps DEF AckAlert
<1>8. CASE LoseAck
  BY <1>8, NextKeeps DEF LoseAck
<1> QED BY <1>3, <1>4, <1>5, <1>6, <1>7, <1>8, CheckMovementStep, CommitCheckStep, FetchStep,
           ShowStepKeeps, PhoneDiesStep DEF AlertNext, CheckStep, ShowStep

LEMMA AlertInvariant == AlertSpec => []AlertInv
BY AlertStart, AlertStep, PTL DEF AlertSpec

\* What the phone shows is a move of at least the threshold since the row before: the
\* next row is measured from the last one, and one check is under way at a time.
THEOREM AlertsAreMoves == AlertSpec => []OnlyRealMoves
<1>1. ASSUME AlertInv PROVE OnlyRealMoves
  <2>1. DOMAIN alerts = 1..Len(alerts) /\ Len(alerts) \in Nat /\ MaxAlerts \in Nat
        /\ Len(staged) \in Nat /\ Len(alerts) + Len(staged) <= MaxAlerts
    BY <1>1, AlertAssumption DEF AlertInv, AlertTypes
  <2>2. DOMAIN alerts \subseteq Rows
    BY <2>1 DEF Rows
  <2>3. \A i \in DOMAIN alerts : shown[i] > 0 => i \in 2..Len(alerts)
    BY <1>1, <2>2 DEF AlertInv, MoveInv
  <2>4. \A i \in 2..Len(alerts) : i > 1 /\ FarFrom(alerts[i].equity, alerts[i - 1].equity)
    BY <1>1, <2>1 DEF AlertInv, MoveInv
  <2> QED BY <2>3, <2>4 DEF OnlyRealMoves
<1> QED BY <1>1, AlertInvariant, PTL

\* An alert is shown again only after a lost acknowledgement or a dead phone.
THEOREM AlertsShowOnce == AlertSpec => []ShownOnce
<1>1. ASSUME AlertInv PROVE ShownOnce
  <2>1. alertFailures \in Nat
    BY <1>1 DEF AlertInv, AlertTypes
  <2> QED BY <1>1, <2>1 DEF AlertInv, CountedInv, ShownOnce
<1> QED BY <1>1, AlertInvariant, PTL

\* A later move is never shown before an earlier one, whatever the phone lost.
THEOREM AlertsShowInOrder == AlertSpec => []ShownInOrder
<1>1. AlertInv => ShownInOrder
  BY DEF AlertInv, OrderInv
<1> QED BY <1>1, AlertInvariant, PTL
=============================================================================
