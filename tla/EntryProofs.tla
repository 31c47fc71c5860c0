------------------------------ MODULE EntryProofs ------------------------------
(***************************************************************************)
(* The properties of EntryLimits, for any coins, limits, intervals, stakes  *)
(* and prices.  EntryInv says what a job's PortfolioState owes to the       *)
(* books: it knows every trade that was committed and every one the job has *)
(* made; EntriesSpaced, HourlyCap, NoFlipFlop and NoEntryPastALimit follow. *)
(* PositionInv, proved on top of it, says which buy opened what is held and *)
(* what a job has spent; EntryTypeOK, CreditedToOpener and WithinLimits     *)
(* follow.                                                                  *)
(***************************************************************************)
EXTENDS EntryLimits, FoldLemmas

JobShape ==
  job = [pc |-> job.pc, dry |-> job.dry, mark |-> job.mark, todo |-> job.todo,
         trades |-> job.trades, entries |-> job.entries, signals |-> job.signals,
         cash |-> job.cash, cost |-> job.cost, made |-> job.made, done |-> job.done,
         credits |-> job.credits]

Steps == {"symbols", "pause", "flatten", "closeall", "persist", "answer"}

BookTypes ==
  /\ JobShape
  /\ now \in 0..MaxTime /\ cost \in [Coins -> Nat]
  /\ decided \in SUBSET Trade /\ filled \in SUBSET Trade /\ IsFiniteSet(decided)
  /\ job.pc \in Steps \cup {"none"}
  /\ job.trades \in Nat /\ job.cost \in [Coins -> Nat]
  /\ job.signals \in [Coins -> SUBSET (0..MaxTime)]
  /\ job.made \in SUBSET Trade /\ IsFiniteSet(job.made)

\* What reached the balances was decided; a job trades what it decides, and now.
BookInv ==
  /\ filled \subseteq decided /\ job.done = job.made
  /\ \A d \in decided : d.at <= now
  /\ \A d \in job.made : d.at = now
  /\ job.pc = "none" => job.made = {}

\* The job's PortfolioState knows every entry, and every trade of a coin.
StateInv ==
  job.pc # "none" =>
    /\ \A d \in decided \cup job.made : d.side = "buy" => d.at \in job.entries
    /\ \A d \in decided \cup job.made : d.at \in job.signals[d.coin]

Apart(a, b) == a.at - b.at >= MinGap \/ b.at - a.at >= MinGap

SpacedInv ==
  \A a, b \in filled \cup job.made :
    a.side = "buy" /\ b.side = "buy" /\ a # b => Apart(a, b)

\* d leaves room for the buy b of the same coin.
Cooled(b, d) == b.at - d.at >= Cooldown /\ d.at < CandleClose(b.at)

CooledInv ==
  \A b \in job.made, d \in filled : b.side = "buy" /\ d.coin = b.coin => Cooled(b, d)

Limit == FloorReached \/ DrawdownReached \/ DailyLossReached

\* Past a limit a job sells or keeps.
StopInv ==
  Limit /\ job.pc # "none" =>
    /\ job.pc # "symbols"
    /\ \A c \in Coins : job.cost[c] \in {0, cost[c]}

Recent == {d \in decided : d.at >= now - Hour}

\* What the job counts, and that it stops entering at the limit.
CountInv ==
  job.pc # "none" =>
    /\ Cardinality(Recent) + Cardinality(Buys(job.made)) <= job.trades
    /\ Buys(job.made) # {} => job.trades <= MaxTradesPerHour

EntryInv ==
  /\ BookTypes /\ BookInv /\ StateInv /\ SpacedInv /\ CooledInv /\ StopInv /\ CountInv
  /\ HourlyCap

-----------------------------------------------------------------------------
(* Sets of trades *)

LEMMA Constants ==
  /\ IsFiniteSet(Coins) /\ MaxTime \in Nat
  /\ MaxTradesPerHour \in Nat /\ Hour \in Nat /\ Cooldown \in Nat /\ MinGap \in Nat
  /\ MinGap > 0
BY EntryAssumption

LEMMA TradedFacts ==
  ASSUME NEW S \in SUBSET Coins, NEW side \in {"buy", "sell"}, now \in 0..MaxTime
  PROVE  /\ Traded(S, side) \in SUBSET Trade /\ IsFiniteSet(Traded(S, side))
         /\ \A d \in Traded(S, side) : d.at = now /\ d.side = side /\ d.coin \in S
<1>1. Traded(S, side) \in SUBSET Trade
  BY DEF Traded, Trade
<1>2. \A d \in Traded(S, side) : d.at = now /\ d.side = side /\ d.coin \in S
  BY DEF Traded
<1>3. IsFiniteSet(S)
  BY Constants, FS_Subset
<1> DEFINE f == [c \in S |-> [at |-> now, coin |-> c, side |-> side]]
<1>4. f \in Surjection(S, Traded(S, side))
  BY DEF Surjection, Traded
<1>5. IsFiniteSet(Traded(S, side))
  BY <1>3, <1>4, FS_Surjection
<1> QED BY <1>1, <1>2, <1>5

LEMMA SubsetCount ==
  ASSUME NEW S, IsFiniteSet(S), NEW T \in SUBSET S
  PROVE  IsFiniteSet(T) /\ Cardinality(T) \in Nat /\ Cardinality(T) <= Cardinality(S)
BY FS_Subset, FS_CardinalityType

LEMMA UnionCount ==
  ASSUME NEW S, IsFiniteSet(S), NEW T, IsFiniteSet(T)
  PROVE  /\ IsFiniteSet(S \cup T)
         /\ Cardinality(S \cup T) \in Nat
         /\ Cardinality(S \cup T) <= Cardinality(S) + Cardinality(T)
<1>1. IsFiniteSet(S \cap T)
  BY FS_Subset
<1>2. /\ IsFiniteSet(S \cup T)
      /\ Cardinality(S \cup T) = Cardinality(S) + Cardinality(T) - Cardinality(S \cap T)
  BY FS_Union
<1>3. /\ Cardinality(S) \in Nat /\ Cardinality(T) \in Nat
      /\ Cardinality(S \cap T) \in Nat /\ Cardinality(S \cup T) \in Nat
  BY <1>1, <1>2, FS_CardinalityType
<1> QED BY <1>2, <1>3

LEMMA BookCounts ==
  ASSUME BookTypes
  PROVE  /\ IsFiniteSet(Recent) /\ Cardinality(Recent) \in Nat
         /\ IsFiniteSet(Buys(job.made)) /\ Cardinality(Buys(job.made)) \in Nat
BY SubsetCount DEF BookTypes, Recent, Buys

-----------------------------------------------------------------------------
(* The job at work *)

LEMMA SoldFields ==
  ASSUME JobShape, NEW S \in SUBSET Coins, NEW p,
         (job' = Sold(S) /\ p = job.pc) \/ job' = [Sold(S) EXCEPT !.pc = p]
  PROVE  /\ JobShape' /\ job'.pc = p
         /\ job'.trades = job.trades /\ job'.entries = job.entries
         /\ job'.signals = [c \in Coins |-> IF c \in S THEN job.signals[c] \cup {now}
                                                       ELSE job.signals[c]]
         /\ job'.cost = [c \in Coins |-> IF c \in S THEN 0 ELSE job.cost[c]]
         /\ job'.made = job.made \cup Traded(S, "sell")
         /\ job'.done = job.done \cup Traded(S, "sell")
<1>1. CASE job' = Sold(S) /\ p = job.pc
  BY <1>1 DEF JobShape, Sold
<1>2. CASE job' = [Sold(S) EXCEPT !.pc = p]
  BY <1>2 DEF JobShape, Sold
<1> QED BY <1>1, <1>2

\* Selling keeps the invariant, whatever is sold.
LEMMA SellKeeps ==
  ASSUME EntryInv, NEW S \in SUBSET Coins, NEW p \in Steps,
         job.pc # "none", p = "symbols" => job.pc = "symbols",
         (job' = Sold(S) /\ p = job.pc) \/ job' = [Sold(S) EXCEPT !.pc = p],
         UNCHANGED <<now, floor, cost, decided, filled, snap>>
  PROVE  EntryInv'
<1> DEFINE new == Traded(S, "sell")
<1>1. /\ JobShape' /\ job'.pc = p
      /\ job'.trades = job.trades /\ job'.entries = job.entries
      /\ job'.signals = [c \in Coins |-> IF c \in S THEN job.signals[c] \cup {now}
                                                    ELSE job.signals[c]]
      /\ job'.cost = [c \in Coins |-> IF c \in S THEN 0 ELSE job.cost[c]]
      /\ job'.made = job.made \cup new /\ job'.done = job.done \cup new
  BY SoldFields DEF EntryInv, BookTypes
<1>2. /\ new \in SUBSET Trade /\ IsFiniteSet(new)
      /\ \A d \in new : d.at = now /\ d.side = "sell" /\ d.coin \in S
  BY TradedFacts DEF EntryInv, BookTypes
<1> HIDE DEF new
<1>3. BookTypes'
  <2>0. IsFiniteSet(job.made)
    BY DEF EntryInv, BookTypes
  <2>1. IsFiniteSet(job'.made)
    <3>1. IsFiniteSet(job.made \cup new)
      BY <1>2, <2>0, UnionCount
    <3> QED BY <1>1, <3>1
  <2>2. job'.signals \in [Coins -> SUBSET (0..MaxTime)]
    BY <1>1 DEF EntryInv, BookTypes
  <2>3. job'.cost \in [Coins -> Nat]
    BY <1>1 DEF EntryInv, BookTypes
  <2> QED BY <1>1, <1>2, <2>1, <2>2, <2>3 DEF EntryInv, BookTypes
<1>4. BookInv'
  BY <1>1, <1>2 DEF EntryInv, BookInv, Steps
<1>5. \A d \in job'.made : d.side = "buy" => d \in job.made
  BY <1>1, <1>2
<1>6. StateInv'
  <2>1. \A d \in decided \cup job.made : d.coin \in Coins /\ d.at \in job.signals[d.coin]
    BY DEF EntryInv, BookTypes, StateInv, Trade
  <2>2. \A d \in decided \cup job.made : d.at \in job'.signals[d.coin]
    BY <1>1, <2>1
  <2>3. \A d \in new : d.at \in job'.signals[d.coin]
    BY <1>1, <1>2
  <2> QED BY <1>1, <1>5, <2>2, <2>3 DEF EntryInv, StateInv
<1>7. SpacedInv' /\ CooledInv'
  BY <1>5 DEF EntryInv, SpacedInv, CooledInv, Apart, Cooled, CandleClose
<1>8. StopInv'
  BY <1>1 DEF EntryInv, BookTypes, StopInv, Limit, FloorReached, DrawdownReached, DailyLossReached
<1>9. CountInv'
  <2>1. Buys(job.made)' = Buys(job.made)
    BY <1>1, <1>5 DEF Buys
  <2> QED BY <1>1, <2>1 DEF EntryInv, CountInv, Recent
<1>10. HourlyCap'
  BY DEF EntryInv, HourlyCap, Buys
<1> QED BY <1>3, <1>4, <1>6, <1>7, <1>8, <1>9, <1>10 DEF EntryInv

\* A buy joins trades that the PortfolioState knows and has found far enough away.
LEMMA EnterStep ==
  ASSUME EntryInv, NEW c \in Coins, NEW stake \in Stakes, Enter(c, stake)
  PROVE  EntryInv'
<1> DEFINE size == SizeFor(stake)
           new == Traded({c}, "buy")
<1>1. /\ job.pc = "symbols" /\ NewCandle(c) /\ TimeAllows(c) /\ size \in Nat
      /\ UNCHANGED <<now, floor, cost, decided, filled, snap>>
  BY DEF Enter, bookVars
<1>2. /\ JobShape' /\ job'.pc = job.pc
      /\ job'.trades = job.trades + 1 /\ job'.entries = job.entries \cup {now}
      /\ job'.signals = [job.signals EXCEPT ![c] = @ \cup {now}]
      /\ job'.cost = [job.cost EXCEPT ![c] = size]
      /\ job'.made = job.made \cup new /\ job'.done = job.done \cup new
  <2> HIDE DEF size, new
  <2>1. JobShape
    BY DEF EntryInv, BookTypes
  <2>2. job' = [job EXCEPT !.todo = @ \ {c}, !.trades = job.trades + 1,
                           !.entries = job.entries \cup {now},
                           !.signals = [job.signals EXCEPT ![c] = @ \cup {now}],
                           !.cash = @ - size, !.cost = [@ EXCEPT ![c] = size],
                           !.made = @ \cup new, !.done = @ \cup new]
    BY DEF Enter, Reserved, size, new
  <2> QED BY <2>1, <2>2 DEF JobShape
<1>3. /\ new \in SUBSET Trade /\ IsFiniteSet(new)
      /\ \A d \in new : d.at = now /\ d.side = "buy" /\ d.coin = c
      /\ new = {[at |-> now, coin |-> c, side |-> "buy"]}
  <2>1. now \in 0..MaxTime /\ {c} \in SUBSET Coins
    BY DEF EntryInv, BookTypes
  <2>2. /\ new \in SUBSET Trade /\ IsFiniteSet(new)
        /\ \A d \in new : d.at = now /\ d.side = "buy" /\ d.coin \in {c}
    BY <2>1, TradedFacts
  <2>3. new = {[at |-> now, coin |-> c, side |-> "buy"]}
    BY DEF Traded
  <2> QED BY <2>2, <2>3
<1> HIDE DEF size, new
<1>4. BookTypes'
  <2>0. IsFiniteSet(job.made)
    BY DEF EntryInv, BookTypes
  <2>1. IsFiniteSet(job'.made)
    <3>1. IsFiniteSet(job.made \cup new)
      BY <1>3, <2>0, UnionCount
    <3> QED BY <1>2, <3>1
  <2>2. job'.signals \in [Coins -> SUBSET (0..MaxTime)]
    BY <1>2 DEF EntryInv, BookTypes
  <2>3. job'.cost \in [Coins -> Nat]
    BY <1>1, <1>2 DEF EntryInv, BookTypes
  <2> QED BY <1>1, <1>2, <1>3, <2>1, <2>2, <2>3 DEF EntryInv, BookTypes
<1>5. BookInv'
  BY <1>1, <1>2, <1>3 DEF EntryInv, BookInv
<1>6. /\ \A d \in decided \cup job.made : d.side = "buy" => d.at \in job.entries
      /\ \A d \in decided \cup job.made :
           d \in Trade /\ d.coin \in Coins /\ d.at \in 0..MaxTime /\ d.at \in job.signals[d.coin]
  BY <1>1 DEF EntryInv, BookTypes, StateInv, Trade
<1>7. StateInv'
  <2>1. job'.signals[c] = job.signals[c] \cup {now}
    BY <1>2 DEF EntryInv, BookTypes
  <2>2. \A d \in decided \cup job.made : d.at \in job'.signals[d.coin]
    BY <1>2, <1>6, <2>1 DEF EntryInv, BookTypes
  <2> QED BY <1>1, <1>2, <1>3, <1>6, <2>1, <2>2 DEF StateInv
<1>8. \A d \in decided \cup job.made : d.side = "buy" => now - d.at >= MinGap
  BY <1>1, <1>6 DEF TimeAllows
<1>9. SpacedInv'
  BY <1>1, <1>2, <1>3, <1>8 DEF EntryInv, BookInv, SpacedInv, Apart
<1>10. \A d \in filled : d.coin = c => now - d.at >= Cooldown /\ d.at < CandleClose(now)
  BY <1>1, <1>6 DEF EntryInv, BookInv, TimeAllows, NewCandle
<1>11. CooledInv'
  BY <1>1, <1>2, <1>3, <1>10 DEF EntryInv, CooledInv, Cooled, CandleClose
<1>12. StopInv'
  BY <1>1 DEF EntryInv, StopInv, Limit, FloorReached, DrawdownReached, DailyLossReached
<1>13. CountInv'
  <2>1. Recent' = Recent
    BY <1>1 DEF Recent
  <2>2. Buys(job.made)' = Buys(job.made) \cup new
    BY <1>2, <1>3 DEF Buys
  <2>3. Cardinality(new) = 1
    BY <1>3, FS_Singleton
  <2>4. /\ Cardinality(Buys(job.made)') \in Nat
        /\ Cardinality(Buys(job.made)') <= Cardinality(Buys(job.made)) + 1
    <3>1. IsFiniteSet(Buys(job.made))
      BY BookCounts DEF EntryInv
    <3>2. /\ Cardinality(Buys(job.made) \cup new) \in Nat
          /\ Cardinality(Buys(job.made) \cup new) <= Cardinality(Buys(job.made)) + Cardinality(new)
      BY <1>3, <3>1, UnionCount
    <3> QED BY <2>2, <2>3, <3>2
  <2>5. /\ Cardinality(Recent) + Cardinality(Buys(job.made)) <= job.trades
        /\ job.trades < MaxTradesPerHour /\ job.trades \in Nat
    BY <1>1 DEF EntryInv, BookTypes, CountInv, TimeAllows
  <2>6. Cardinality(Recent) \in Nat /\ Cardinality(Buys(job.made)) \in Nat
    BY BookCounts DEF EntryInv
  <2>7. job'.trades = job.trades + 1 /\ MaxTradesPerHour \in Nat
    BY <1>2, Constants
  <2>8. /\ Cardinality(Recent) + Cardinality(Buys(job.made)') <= job'.trades
        /\ job'.trades <= MaxTradesPerHour
    BY <2>4, <2>5, <2>6, <2>7
  <2> QED BY <2>1, <2>8 DEF CountInv
<1>14. HourlyCap'
  BY <1>1 DEF EntryInv, HourlyCap, Buys
<1> QED BY <1>4, <1>5, <1>7, <1>9, <1>11, <1>12, <1>13, <1>14 DEF EntryInv

LEMMA CloseOnSignalStep ==
  ASSUME EntryInv, NEW c \in Coins, CloseOnSignal(c)
  PROVE  EntryInv'
<1>1. /\ job.pc = "symbols" /\ job' = Sold({c})
      /\ UNCHANGED <<now, floor, cost, decided, filled, snap>>
  BY DEF CloseOnSignal, bookVars
<1> QED BY <1>1, SellKeeps DEF Steps

LEMMA FlattenStep ==
  ASSUME EntryInv, Flatten
  PROVE  EntryInv'
<1> DEFINE p == IF job.pc = "flatten" THEN "persist" ELSE "answer"
<1>1. /\ job.pc \in {"flatten", "closeall"}
      /\ UNCHANGED <<now, floor, cost, decided, filled, snap>>
  BY DEF Flatten, bookVars
<1>2. job' = [Sold(Held(job.cost)) EXCEPT !.pc = p]
  <2>1. Sold(Held(job.cost)).pc = job.pc
    BY DEF Sold, EntryInv, BookTypes, JobShape
  <2> QED BY <2>1 DEF Flatten
<1>3. Held(job.cost) \in SUBSET Coins
  BY DEF Held
<1> QED BY <1>1, <1>2, <1>3, SellKeeps DEF Steps

LEMMA ApplyExitsStep ==
  ASSUME EntryInv, ApplyExits
  PROVE  EntryInv'
<1>1. /\ job.pc \in {"symbols", "pause"}
      /\ UNCHANGED <<now, floor, cost, decided, filled, snap>>
  BY DEF ApplyExits, bookVars
<1>2. PICK S \in SUBSET Held(job.cost) : job' = [Sold(S) EXCEPT !.pc = "persist"]
  BY DEF ApplyExits, ExitSold
<1>3. S \in SUBSET Coins
  BY DEF Held
<1> QED BY <1>1, <1>2, <1>3, SellKeeps DEF Steps

-----------------------------------------------------------------------------
(* The beginning of a job, and its end *)

\* The lock brings the whole history.
LEMMA LoadStep ==
  ASSUME EntryInv, job.pc = "none", NEW pc \in Steps, NEW mark, NEW todo,
         Load(pc, mark, todo), pc = "symbols" => ~Limit,
         UNCHANGED <<now, floor, cost, decided, filled, snap>>
  PROVE  EntryInv'
<1> DEFINE E == Times(Buys(decided))
           G == [c \in Coins |-> Times({d \in decided : d.coin = c})]
           T == TradesThisHour(decided)
<1>1. /\ JobShape' /\ job'.pc = pc /\ job'.trades = T /\ job'.entries = E
      /\ job'.signals = G /\ job'.cost = cost /\ job'.made = {} /\ job'.done = {}
  <2> HIDE DEF E, G, T
  <2>1. job' = [pc |-> pc, dry |-> ~aiEnabled, mark |-> mark, todo |-> todo,
                trades |-> T, entries |-> E, signals |-> G,
                cash |-> cash, cost |-> cost, made |-> {}, done |-> {}, credits |-> {}]
    BY DEF Load, E, G, T
  <2> QED BY <2>1 DEF JobShape
<1>2. /\ \A d \in decided : d.side = "buy" => d.at \in E
      /\ \A d \in decided : d \in Trade /\ d.coin \in Coins /\ d.at \in G[d.coin]
      /\ G \in [Coins -> SUBSET (0..MaxTime)]
  BY DEF EntryInv, BookTypes, Times, Buys, Trade
<1>3. T = Cardinality(Recent) /\ T \in Nat
  BY BookCounts DEF EntryInv, TradesThisHour, Recent
<1> HIDE DEF E, G, T
<1>4. BookTypes'
  <2>1. IsFiniteSet({})
    BY FS_EmptySet
  <2> QED BY <1>1, <1>2, <1>3, <2>1 DEF EntryInv, BookTypes
<1>5. BookInv' /\ StateInv'
  BY <1>1, <1>2 DEF EntryInv, BookInv, StateInv, Steps
<1>6. SpacedInv' /\ CooledInv'
  BY <1>1 DEF EntryInv, SpacedInv, CooledInv, Apart
<1>7. StopInv'
  BY <1>1 DEF EntryInv, BookTypes, StopInv, Limit, FloorReached, DrawdownReached, DailyLossReached
<1>8. CountInv'
  <2>1. Recent' = Recent /\ Buys(job.made)' = {} /\ Cardinality({}) = 0
    BY <1>1, FS_EmptySet DEF Recent, Buys
  <2> QED BY <1>1, <1>3, <2>1 DEF CountInv
<1>9. HourlyCap'
  BY DEF EntryInv, HourlyCap, Buys
<1> QED BY <1>4, <1>5, <1>6, <1>7, <1>8, <1>9 DEF EntryInv

LEMMA BeginTickStep ==
  ASSUME EntryInv, BeginTick
  PROVE  EntryInv'
<1> DEFINE pc == IF MustFlatten THEN "flatten" ELSE IF MustPause THEN "pause" ELSE "symbols"
<1>1. job.pc = "none" /\ UNCHANGED <<now, floor, cost, decided, filled, snap>>
  BY DEF BeginTick, bookVars
<1>2. PICK mark \in PricesNow : Load(pc, mark, Coins)
  BY DEF BeginTick
<1>3. pc \in Steps /\ (pc = "symbols" => ~Limit)
  BY DEF Steps, Limit, MustFlatten, MustPause
<1> QED BY <1>1, <1>2, <1>3, LoadStep

LEMMA BeginCloseAllStep ==
  ASSUME EntryInv, BeginCloseAll
  PROVE  EntryInv'
<1>1. job.pc = "none" /\ UNCHANGED <<now, floor, cost, decided, filled, snap>>
  BY DEF BeginCloseAll, bookVars
<1>2. PICK mark \in PricesNow : Load("closeall", mark, {})
  BY DEF BeginCloseAll
<1> QED BY <1>1, <1>2, LoadStep DEF Steps

LEMMA NoJobFacts ==
  /\ NoJob.pc = "none" /\ NoJob.made = {} /\ NoJob.done = {} /\ NoJob.trades = 0
  /\ NoJob.signals \in [Coins -> SUBSET (0..MaxTime)]
  /\ NoJob.cost \in [Coins -> Nat]
  /\ IsFiniteSet({})
  /\ NoJob = [pc |-> NoJob.pc, dry |-> NoJob.dry, mark |-> NoJob.mark, todo |-> NoJob.todo,
         trades |-> NoJob.trades, entries |-> NoJob.entries, signals |-> NoJob.signals,
         cash |-> NoJob.cash, cost |-> NoJob.cost, made |-> NoJob.made, done |-> NoJob.done,
         credits |-> NoJob.credits]
BY FS_EmptySet DEF NoJob

LEMMA NoJobShape ==
  ASSUME job' = NoJob
  PROVE  JobShape' /\ job'.pc = "none" /\ job'.made = {} /\ job'.done = {}
<1> HIDE DEF NoJob
<1> QED BY NoJobFacts DEF JobShape

\* A hour that reaches up to now holds what the job counted.
LEMMA WindowCounted ==
  ASSUME EntryInv, job.pc # "none", NEW b \in Buys(filled \cup job.made)
  PROVE  Cardinality({d \in Buys(filled \cup job.made) : d.at \in (b.at - Hour)..b.at})
           <= MaxTradesPerHour
<1> DEFINE W == {d \in Buys(filled \cup job.made) : d.at \in (b.at - Hour)..b.at}
           V == {d \in Buys(filled) : d.at \in (b.at - Hour)..b.at}
<1>1. /\ filled \in SUBSET Trade /\ decided \in SUBSET Trade /\ job.made \in SUBSET Trade
      /\ now \in 0..MaxTime /\ filled \subseteq decided
      /\ \A d \in decided : d.at <= now
      /\ \A d \in job.made : d.at = now
  BY DEF EntryInv, BookTypes, BookInv
<1>2. \A d \in Trade : d.at \in 0..MaxTime
  BY DEF Trade
<1>3. CASE b \in filled /\ (b.at # now \/ Buys(job.made) = {})
  <2>1. W = V
    <3>1. CASE Buys(job.made) = {}
      BY <3>1 DEF Buys
    <3>2. CASE b.at # now
      <4>1. b.at < now /\ b.at \in Nat
        BY <1>1, <1>2, <1>3, <3>2, Constants
      <4>2. \A d \in job.made : ~(d.at \in (b.at - Hour)..b.at)
        BY <1>1, <4>1, Constants
      <4> QED BY <4>2 DEF Buys
    <3> QED BY <1>3, <3>1, <3>2
  <2>2. Cardinality(V) <= MaxTradesPerHour
    BY <1>3 DEF EntryInv, HourlyCap, Buys
  <2> QED BY <2>1, <2>2
<1>4. CASE b.at = now /\ Buys(job.made) # {}
  <2>1. W \subseteq Recent \cup Buys(job.made)
    <3>1. ASSUME NEW d \in W PROVE d \in Recent \cup Buys(job.made)
      <4>1. d \in filled \cup job.made /\ d.side = "buy" /\ d.at \in (now - Hour)..now
        BY <1>4, <3>1 DEF Buys
      <4>2. CASE d \in job.made
        BY <4>1, <4>2 DEF Buys
      <4>3. CASE d \in filled
        BY <1>1, <4>1, <4>3, Constants DEF Recent
      <4> QED BY <4>1, <4>2, <4>3
    <3> QED BY <3>1
  <2>2. /\ IsFiniteSet(Recent) /\ Cardinality(Recent) \in Nat
        /\ IsFiniteSet(Buys(job.made)) /\ Cardinality(Buys(job.made)) \in Nat
    BY BookCounts DEF EntryInv
  <2>3. /\ IsFiniteSet(Recent \cup Buys(job.made))
        /\ Cardinality(Recent \cup Buys(job.made)) \in Nat
        /\ Cardinality(Recent \cup Buys(job.made))
             <= Cardinality(Recent) + Cardinality(Buys(job.made))
    BY <2>2, UnionCount
  <2> HIDE DEF W
  <2>4. Cardinality(W) \in Nat /\ Cardinality(W) <= Cardinality(Recent \cup Buys(job.made))
    BY <2>1, <2>3, SubsetCount
  <2>5. /\ Cardinality(Recent) + Cardinality(Buys(job.made)) <= job.trades
        /\ job.trades <= MaxTradesPerHour /\ job.trades \in Nat
    BY <1>4 DEF EntryInv, BookTypes, CountInv
  <2>6. Cardinality(W) <= MaxTradesPerHour
    BY <2>2, <2>3, <2>4, <2>5, Constants
  <2> QED BY <2>6 DEF W
<1>5. b \in filled \/ (b.at = now /\ Buys(job.made) # {})
  BY <1>1 DEF Buys
<1> QED BY <1>3, <1>4, <1>5

\* The job's trades reach the books.
LEMMA CommitStep ==
  ASSUME EntryInv, Commit
  PROVE  EntryInv'
<1>1. /\ job.pc # "none" /\ job' = NoJob
      /\ cost' = job.cost /\ decided' = decided \cup job.made
      /\ filled' = filled \cup job.made
      /\ UNCHANGED <<now, floor>>
  BY DEF Commit, EntryInv, BookInv
<1>2. JobShape' /\ job'.pc = "none" /\ job'.made = {} /\ job'.done = {}
  BY <1>1, NoJobShape
<1>3. BookTypes'
  <2>1. IsFiniteSet(decided) /\ IsFiniteSet(job.made)
    BY DEF EntryInv, BookTypes
  <2>2. IsFiniteSet(decided \cup job.made)
    BY <2>1, UnionCount
  <2>3. job'.trades \in Nat /\ job'.signals \in [Coins -> SUBSET (0..MaxTime)]
        /\ job'.cost \in [Coins -> Nat] /\ IsFiniteSet(job'.made)
    BY <1>1, NoJobFacts
  <2> QED BY <1>1, <1>2, <2>2, <2>3 DEF EntryInv, BookTypes
<1>4. BookInv'
  <2>1. \A d \in job.made : d.at <= now
    BY DEF EntryInv, BookTypes, BookInv
  <2> QED BY <1>1, <1>2, <2>1 DEF EntryInv, BookInv
<1>5. SpacedInv' /\ CooledInv' /\ StateInv' /\ StopInv' /\ CountInv'
  BY <1>1, <1>2 DEF EntryInv, SpacedInv, CooledInv, StateInv, StopInv, CountInv, Apart
<1>6. HourlyCap'
  BY <1>1, WindowCounted DEF HourlyCap, Buys
<1> QED BY <1>3, <1>4, <1>5, <1>6 DEF EntryInv

\* A failed job leaves its decisions or nothing.
LEMMA FailStep ==
  ASSUME EntryInv, Fail, decided' = decided \/ decided' = decided \cup job.made
  PROVE  EntryInv'
<1>1. job' = NoJob /\ UNCHANGED <<now, floor, cost, filled, snap>>
  BY DEF Fail
<1>2. JobShape' /\ job'.pc = "none" /\ job'.made = {} /\ job'.done = {}
  BY <1>1, NoJobShape
<1>3. decided \subseteq decided' /\ decided' \subseteq decided \cup job.made
  OBVIOUS
<1>4. BookTypes'
  <2>1. IsFiniteSet(decided) /\ IsFiniteSet(job.made)
    BY DEF EntryInv, BookTypes
  <2>2. IsFiniteSet(decided')
    BY <2>1, UnionCount
  <2>3. job'.trades \in Nat /\ job'.signals \in [Coins -> SUBSET (0..MaxTime)]
        /\ job'.cost \in [Coins -> Nat] /\ IsFiniteSet(job'.made)
    BY <1>1, NoJobFacts
  <2> QED BY <1>1, <1>2, <1>3, <2>2, <2>3 DEF EntryInv, BookTypes
<1>5. BookInv'
  <2>1. \A d \in job.made : d.at <= now
    BY DEF EntryInv, BookTypes, BookInv
  <2> QED BY <1>1, <1>2, <1>3, <2>1 DEF EntryInv, BookInv
<1>6. SpacedInv' /\ CooledInv' /\ StateInv' /\ StopInv' /\ CountInv'
  BY <1>1, <1>2 DEF EntryInv, SpacedInv, CooledInv, StateInv, StopInv, CountInv, Apart
<1>7. HourlyCap'
  BY <1>1 DEF EntryInv, HourlyCap, Buys
<1> QED BY <1>4, <1>5, <1>6, <1>7 DEF EntryInv

\* Between jobs nothing is pending.
LEMMA PassStep ==
  ASSUME EntryInv, Pass
  PROVE  EntryInv'
<1>1. /\ job.pc = "none" /\ now < MaxTime /\ now' = now + 1
      /\ UNCHANGED <<floor, cost, decided, filled, job>>
  BY DEF Pass
<1>2. job.made = {}
  BY <1>1 DEF EntryInv, BookInv
<1>3. BookTypes'
  BY <1>1, Constants DEF EntryInv, BookTypes, JobShape
<1>4. BookInv'
  <2>1. \A d \in decided : d.at \in 0..MaxTime /\ d.at <= now /\ now \in 0..MaxTime
    BY DEF EntryInv, BookTypes, BookInv, Trade
  <2>2. \A d \in decided : d.at <= now'
    BY <1>1, <2>1, Constants
  <2> QED BY <1>1, <1>2, <2>2 DEF EntryInv, BookInv
<1>5. SpacedInv' /\ CooledInv' /\ StateInv' /\ StopInv' /\ CountInv' /\ HourlyCap'
  BY <1>1, <1>2
  DEF EntryInv, SpacedInv, CooledInv, StateInv, StopInv, CountInv, Apart, HourlyCap, Buys
<1> QED BY <1>3, <1>4, <1>5 DEF EntryInv

\* What the invariant reads.
LEMMA Unread ==
  ASSUME EntryInv, UNCHANGED <<now, floor, cost, decided, filled, snap, job>>
  PROVE  EntryInv'
BY DEF EntryInv, BookTypes, JobShape, BookInv, StateInv, SpacedInv, Apart, CooledInv, Cooled,
       CandleClose, StopInv, Limit, FloorReached, DrawdownReached, DailyLossReached,
       CountInv, Recent, Buys, HourlyCap

-----------------------------------------------------------------------------
(* The theorems *)

LEMMA EntryStart ==
  ASSUME EntryInit
  PROVE  EntryInv
<1>1. /\ now = 0 /\ decided = {} /\ filled = {} /\ job = NoJob
      /\ cost = [c \in Coins |-> 0]
  BY DEF EntryInit
<1>2. JobShape /\ job.pc = "none" /\ job.made = {} /\ job.done = {}
  <2> HIDE DEF NoJob
  <2> QED BY <1>1, NoJobFacts DEF JobShape
<1>3. BookTypes
  <2>1. job.trades \in Nat /\ job.signals \in [Coins -> SUBSET (0..MaxTime)]
        /\ job.cost \in [Coins -> Nat] /\ IsFiniteSet({})
    BY <1>1, NoJobFacts
  <2> QED BY <1>1, <1>2, <2>1, Constants DEF BookTypes
<1>4. BookInv /\ StateInv /\ SpacedInv /\ CooledInv /\ StopInv /\ CountInv /\ HourlyCap
  BY <1>1, <1>2 DEF BookInv, StateInv, SpacedInv, CooledInv, StopInv, CountInv, HourlyCap, Buys
<1> QED BY <1>3, <1>4 DEF EntryInv

LEMMA EntryStep ==
  ASSUME EntryInv, [EntryNext]_entryVars
  PROVE  EntryInv'
<1>1. CASE UNCHANGED entryVars
  BY <1>1, Unread DEF entryVars, bookVars
<1>2. CASE JobStep
  BY <1>2, EnterStep, CloseOnSignalStep, FlattenStep, ApplyExitsStep, CommitStep DEF JobStep
<1>3. CASE Abort \/ TickFails
  BY <1>3, FailStep DEF Abort, TickFails
<1>4. CASE \E on \in BOOLEAN : SetAi(on)
  BY <1>4, Unread DEF SetAi, bookVars
<1> QED BY <1>1, <1>2, <1>3, <1>4, BeginTickStep, BeginCloseAllStep, PassStep DEF EntryNext

LEMMA EntryInvariant == EntrySpec => []EntryInv
BY EntryStart, EntryStep, PTL DEF EntrySpec

\* Entries that reach the balances are MinGap apart, within a tick as between ticks.
THEOREM EntriesAreSpaced == EntrySpec => []EntriesSpaced
<1>1. EntryInv => EntriesSpaced
  BY DEF EntryInv, SpacedInv, EntriesSpaced, Apart, Buys
<1> QED BY <1>1, EntryInvariant, PTL

\* No hour sees more entries than max_trades_per_hour.
THEOREM HoursAreCapped == EntrySpec => []HourlyCap
<1>1. EntryInv => HourlyCap
  BY DEF EntryInv
<1> QED BY <1>1, EntryInvariant, PTL

\* The filled trades change by a commit alone.
LEMMA FilledByCommit ==
  ASSUME [EntryNext]_entryVars
  PROVE  Commit \/ filled' = filled
BY DEF EntryNext, JobStep, BeginTick, BeginCloseAll, Enter, CloseOnSignal, Flatten, ApplyExits,
       Abort, TickFails, Fail, SetAi, Pass, entryVars, bookVars

LEMMA CostByCommit ==
  ASSUME [EntryNext]_entryVars
  PROVE  Commit \/ cost' = cost
BY DEF EntryNext, JobStep, BeginTick, BeginCloseAll, Enter, CloseOnSignal, Flatten, ApplyExits,
       Abort, TickFails, Fail, SetAi, Pass, entryVars, bookVars

\* A coin is not bought back within its cooldown or on the candle of its last trade.
THEOREM NeverFlipFlops == EntrySpec => NoFlipFlop
<1> DEFINE Kept == \A b \in Buys(filled') \ filled, d \in filled :
                     d.coin = b.coin => b.at - d.at >= Cooldown /\ d.at < CandleClose(b.at)
<1>1. ASSUME EntryInv, [EntryNext]_entryVars PROVE Kept
  <2>1. CASE filled' = filled
    BY <2>1 DEF Buys
  <2>2. CASE Commit
    <3>1. filled' = filled \cup job.made
      BY <1>1, <2>2 DEF Commit, EntryInv, BookInv
    <3> QED BY <1>1, <3>1 DEF EntryInv, CooledInv, Cooled, Buys
  <2> QED BY <1>1, <2>1, <2>2, FilledByCommit
<1>2. EntryInv /\ [EntryNext]_entryVars => [Kept]_entryVars
  BY <1>1
<1> QED BY <1>2, EntryInvariant, PTL DEF EntrySpec, NoFlipFlop

\* Past the floor, the drawdown or the daily loss nothing is bought.
THEOREM NothingBoughtPastALimit == EntrySpec => NoEntryPastALimit
<1> DEFINE Kept == FloorReached \/ DrawdownReached \/ DailyLossReached
                     => \A c \in Coins : cost'[c] <= cost[c]
<1>1. ASSUME EntryInv, [EntryNext]_entryVars, Limit
      PROVE  \A c \in Coins : cost'[c] <= cost[c]
  <2>1. cost \in [Coins -> Nat]
    BY <1>1 DEF EntryInv, BookTypes
  <2>2. CASE cost' = cost
    BY <2>1, <2>2
  <2>3. CASE Commit
    <3>1. cost' = job.cost /\ job.pc # "none"
      BY <2>3 DEF Commit
    <3>2. \A c \in Coins : job.cost[c] \in {0, cost[c]}
      BY <1>1, <3>1 DEF EntryInv, StopInv
    <3> QED BY <2>1, <3>1, <3>2
  <2> QED BY <1>1, <2>2, <2>3, CostByCommit
<1>2. EntryInv /\ [EntryNext]_entryVars => [Kept]_entryVars
  BY <1>1 DEF Limit
<1> QED BY <1>2, EntryInvariant, PTL DEF EntrySpec, NoEntryPastALimit

-----------------------------------------------------------------------------
(* What a position cost and which buy opened it *)

MoneyTypes ==
  /\ aiEnabled \in BOOLEAN /\ floor \in Floors /\ failures \in 0..MaxFailures
  /\ cash \in Nat /\ snap \in Snapshots
  /\ credits \in SUBSET Credit /\ IsFiniteSet(credits)

WorkTypes ==
  /\ job.dry \in BOOLEAN /\ job.mark \in Prices /\ job.todo \in SUBSET Coins
  /\ job.entries \in SUBSET (0..MaxTime) /\ job.cash \in Nat
  /\ job.credits \in SUBSET Credit /\ IsFiniteSet(job.credits)

\* What a job knows and does, coin by coin.
WorkInv ==
  job.pc # "none" =>
    /\ job.pc \in {"flatten", "closeall"} => job.made = {}
    /\ \A c \in job.todo : job.cost[c] = cost[c]
    /\ \A c \in Coins : cost[c] = 0 => job.mark[c] = 100
    /\ \A c \in Coins : cost[c] > 0 => job.cost[c] \in {0, cost[c]}
    /\ \A b \in Buys(job.made) :
         /\ cost[b.coin] = 0 /\ job.cost[b.coin] > 0
         /\ \A d \in decided : d.coin = b.coin => d.at < now
    /\ \A c \in Coins : job.cost[c] > 0 /\ cost[c] = 0 => \E b \in Buys(job.made) : b.coin = c

\* The buy at t is filled, and the latest decided for its coin.
Opens(c, t) ==
  /\ \E b \in Buys(filled) : b.coin = c /\ b.at = t
  /\ \A d \in Buys(decided) : d.coin = c => d.at <= t

\* What is held was opened by a buy that is still the latest.
OpenInv == \A c \in Coins : cost[c] > 0 => \E t \in 0..MaxTime : Opens(c, t)

\* A sale under way is put down to the buy that opened the position.
SaleInv ==
  /\ job.pc = "none" => job.credits = {}
  /\ \A k \in job.credits :
       /\ cost[k.coin] > 0 /\ job.cost[k.coin] = 0 /\ k.at = now /\ Opens(k.coin, k.opened)
       /\ \E d \in job.made : d.coin = k.coin

\* A sale on the books was; what is bought later is later than the sale.
CreditInv ==
  \A k \in credits :
    /\ \E b \in Buys(filled) : b.coin = k.coin /\ b.at = k.opened
    /\ \A b \in Buys(filled) : b.coin = k.coin => b.at <= k.opened \/ b.at > k.at
    /\ \E d \in decided : d.coin = k.coin /\ d.at = k.at

PutDown(c, t) == {k \in credits : k.coin = c /\ k.opened = t}

\* Only a failed tick puts a sale down to a buy whose position is still open.
PutDownInv ==
  \A c \in Coins, t \in 0..MaxTime :
    /\ Cardinality(PutDown(c, t)) <= 1 + failures
    /\ cost[c] > 0 /\ Opens(c, t) => Cardinality(PutDown(c, t)) <= failures

\* What a job has bought keeps within the limits.
SizeInv ==
  \A c \in Coins : job.pc # "none" /\ job.cost[c] > cost[c] =>
    /\ 100 * job.cost[c] <= MaxPositionSize * snap.equity
    /\ 100 * Exposure(job.cost) <= MaxExposure * snap.equity
    /\ Cardinality(Held(job.cost)) <= MaxOpenPositions

PositionInv ==
  /\ MoneyTypes /\ WorkTypes /\ WorkInv /\ OpenInv /\ SaleInv /\ CreditInv /\ PutDownInv
  /\ SizeInv

LEMMA MoneyConstants ==
  /\ Start \in Nat /\ Floors \in SUBSET Nat /\ Stakes \in SUBSET Nat
  /\ \A x \in Marks \cup {100} : x \in Nat
  /\ MaxPositionSize \in Nat /\ MaxExposure \in Nat /\ MaxOpenPositions \in Nat
  /\ TakeProfit \in Nat \ {0} /\ Cooldown \in Nat \ {0} /\ MaxFailures \in Nat
BY EntryAssumption

LEMMA WorthIsNat ==
  ASSUME BookTypes, WorkTypes, NEW c \in Coins
  PROVE  Worth(c) \in Nat /\ (job.mark[c] = 100 => Worth(c) = job.cost[c])
<1>1. job.cost[c] \in Nat /\ job.mark[c] \in Nat
  BY MoneyConstants DEF BookTypes, WorkTypes, Prices
<1> DEFINE x == job.cost[c]
           y == job.mark[c]
<1>2. x * y \in Nat
  BY <1>1
<1>3. (x * y) \div 100 \in Nat
  <2> HIDE DEF x, y
  <2> DEFINE z == x * y
  <2> HIDE DEF z
  <2>1. z \in Nat => z \div 100 \in Nat
    OBVIOUS
  <2> QED BY <1>2, <2>1 DEF z
<1>4. y = 100 => (x * y) \div 100 = x
  BY <1>1
<1> QED BY <1>3, <1>4 DEF Worth

LEMMA SumsOfWorths ==
  ASSUME BookTypes, WorkTypes, NEW S \in SUBSET Coins
  PROVE  SumFunctionOnSet(Worths, S) \in Nat
<1>1. IsFiniteSet(S)
  BY Constants, FS_Subset
<1>2. \A c \in S : Worths[c] \in Nat
  BY WorthIsNat DEF Worths
<1> QED BY <1>1, <1>2, SumNat

\* The buy that opened a position is the one its sale is put down to.
LEMMA OpenerOpens ==
  ASSUME EntryInv, PositionInv, job.pc # "none", NEW c \in Coins, cost[c] > 0
  PROVE  Opener(c) \in 0..MaxTime /\ Opens(c, Opener(c))
<1>1. PICK t \in 0..MaxTime : Opens(c, t)
  BY DEF PositionInv, OpenInv
<1>2. cost[c] # 0
  BY DEF EntryInv, BookTypes
<1>3. \A d \in Buys(job.made) : d.coin # c
  BY <1>2 DEF PositionInv, WorkInv
<1>4. t \in BuyTimes(c)
  BY <1>1 DEF Opens, BuyTimes, Times, Buys, EntryInv, BookInv
<1>5. BuyTimes(c) \in SUBSET (0..MaxTime)
  BY DEF BuyTimes, Times, Buys, EntryInv, BookTypes, Trade
<1>6. \A u \in BuyTimes(c) : u <= t
  BY <1>1, <1>3 DEF Opens, BuyTimes, Times, Buys
<1>7. Opener(c) \in BuyTimes(c) /\ \A u \in BuyTimes(c) : Opener(c) >= u
  <2>1. IsFiniteSet(0..MaxTime)
    BY Constants, FS_Interval
  <2>2. IsFiniteSet(BuyTimes(c))
    BY <1>5, <2>1, FS_Subset
  <2>4. BuyTimes(c) \in SUBSET Int
    BY <1>5
  <2>3. BuyTimes(c) # {}
    BY <1>4
  <2> QED BY <2>2, <2>3, <2>4, MaxIs DEF Opener
<1>8. Opener(c) = t
  <2> DEFINE o == Opener(c)
             B == BuyTimes(c)
  <2>1. o \in B /\ t \in B /\ o >= t /\ o <= t /\ o \in Int
    BY <1>4, <1>5, <1>6, <1>7
  <2> HIDE DEF o, B
  <2>2. o = t
    BY <2>1
  <2> QED BY <2>2 DEF o
<1> QED BY <1>1, <1>8

LEMMA SoldMoney ==
  ASSUME JobShape, NEW S \in SUBSET Coins, NEW p,
         (job' = Sold(S) /\ p = job.pc) \/ job' = [Sold(S) EXCEPT !.pc = p]
  PROVE  /\ job'.dry = job.dry /\ job'.mark = job.mark /\ job'.todo = job.todo \ S
         /\ job'.cash = job.cash + SumFunctionOnSet(Worths, S)
         /\ job'.credits = job.credits
              \cup {[coin |-> c, opened |-> Opener(c), at |-> now] : c \in S}
<1>1. CASE job' = Sold(S) /\ p = job.pc
  BY <1>1 DEF JobShape, Sold
<1>2. CASE job' = [Sold(S) EXCEPT !.pc = p]
  BY <1>2 DEF JobShape, Sold
<1> QED BY <1>1, <1>2

\* What a sale records.
LEMMA NewCredits ==
  ASSUME EntryInv, PositionInv, job.pc # "none", NEW S \in SUBSET Coins, \A c \in S : cost[c] > 0
  PROVE  LET new == {[coin |-> c, opened |-> Opener(c), at |-> now] : c \in S}
         IN  /\ new \in SUBSET Credit /\ IsFiniteSet(new)
             /\ \A k \in new : k.coin \in S /\ k.at = now /\ Opens(k.coin, k.opened)
<1> DEFINE row(c) == [coin |-> c, opened |-> Opener(c), at |-> now]
           new == {row(c) : c \in S}
<1>1. \A c \in S : Opener(c) \in 0..MaxTime /\ Opens(c, Opener(c))
  BY OpenerOpens
<1>2. now \in 0..MaxTime /\ \A x \in 0..MaxTime : x \in Int
  BY DEF EntryInv, BookTypes
<1>3. \A c \in S : /\ row(c) \in Credit /\ row(c).coin = c /\ row(c).at = now
                   /\ Opens(row(c).coin, row(c).opened)
  BY <1>1, <1>2 DEF Credit
<1>4. IsFiniteSet(S)
  BY Constants, FS_Subset
<1>5. [c \in S |-> row(c)] \in Surjection(S, new)
  <2> HIDE DEF row
  <2> QED BY DEF Surjection
<1>6. IsFiniteSet(new)
  <2> HIDE DEF new
  <2> QED BY <1>4, <1>5, FS_Surjection
<1>7. new \in SUBSET Credit /\ \A k \in new : k.coin \in S /\ k.at = now /\ Opens(k.coin, k.opened)
  <2> HIDE DEF row
  <2> QED BY <1>3
<1> QED BY <1>6, <1>7

\* A sale of what was held before the job keeps the invariant.
LEMMA SellKeepsPositions ==
  ASSUME EntryInv, EntryInv', PositionInv, NEW S \in SUBSET Held(job.cost),
         \A c \in S : cost[c] > 0,
         NEW p \in Steps \ {"flatten", "closeall"}, job.pc # "none",
         (job' = Sold(S) /\ p = job.pc) \/ job' = [Sold(S) EXCEPT !.pc = p],
         UNCHANGED <<now, floor, aiEnabled, bookVars, failures>>
  PROVE  PositionInv'
<1> DEFINE row(c) == [coin |-> c, opened |-> Opener(c), at |-> now]
           new == {row(c) : c \in S}
           sold == Traded(S, "sell")
<1>0. S \in SUBSET Coins
  BY DEF Held
<1>1. /\ job'.pc = p /\ job'.entries = job.entries
      /\ job'.cost = [c \in Coins |-> IF c \in S THEN 0 ELSE job.cost[c]]
      /\ job'.made = job.made \cup sold
      /\ job'.dry = job.dry /\ job'.mark = job.mark /\ job'.todo = job.todo \ S
      /\ job'.cash = job.cash + SumFunctionOnSet(Worths, S)
      /\ job'.credits = job.credits \cup new
  BY <1>0, SoldFields, SoldMoney DEF EntryInv, BookTypes
<1>2. UNCHANGED <<now, floor, aiEnabled, cash, cost, decided, credits, filled, snap, failures>>
  BY DEF bookVars
<1>3. /\ \A d \in sold : d.at = now /\ d.side = "sell" /\ d.coin \in S
      /\ \A c \in S : \E d \in sold : d.coin = c
  <2>1. \A d \in sold : d.at = now /\ d.side = "sell" /\ d.coin \in S
    BY <1>0, TradedFacts DEF EntryInv, BookTypes
  <2>2. ASSUME NEW c \in S PROVE \E d \in sold : d.coin = c
    <3>1. [at |-> now, coin |-> c, side |-> "sell"] \in sold
      BY DEF Traded
    <3> QED BY <3>1
  <2> QED BY <2>1, <2>2
<1>4. /\ new \in SUBSET Credit /\ IsFiniteSet(new)
      /\ \A k \in new : k.coin \in S /\ k.at = now /\ Opens(k.coin, k.opened)
  BY <1>0, NewCredits
<1> HIDE DEF row, new, sold
<1>5. job.cost \in [Coins -> Nat] /\ cost \in [Coins -> Nat] /\ job.made \in SUBSET Trade
  BY DEF EntryInv, BookTypes
<1>6. MoneyTypes'
  BY <1>2 DEF PositionInv, MoneyTypes
<1>7. WorkTypes'
  <2>1. job'.cash \in Nat
    <3>1. SumFunctionOnSet(Worths, S) \in Nat /\ job.cash \in Nat
      BY <1>0, SumsOfWorths DEF EntryInv, PositionInv, WorkTypes
    <3> QED BY <1>1, <3>1
  <2>2. job'.credits \in SUBSET Credit /\ IsFiniteSet(job'.credits)
    <3>1. job.credits \in SUBSET Credit /\ IsFiniteSet(job.credits)
      BY DEF PositionInv, WorkTypes
    <3> QED BY <1>1, <1>4, <3>1, UnionCount
  <2> QED BY <1>1, <2>1, <2>2 DEF PositionInv, WorkTypes
<1>8. Buys(job.made)' = Buys(job.made)
  BY <1>1, <1>3 DEF Buys
<1>9. \A c \in Coins : job'.cost[c] = IF c \in S THEN 0 ELSE job.cost[c]
  BY <1>1
<1>10. WorkInv'
  <2>1. \A c \in job.todo \ S : job'.cost[c] = cost[c]
    BY <1>9 DEF PositionInv, WorkTypes, WorkInv
  <2>2. \A c \in Coins : cost[c] > 0 => job'.cost[c] \in {0, cost[c]}
    BY <1>9 DEF PositionInv, WorkInv
  <2>3. \A b \in Buys(job.made) :
          /\ cost[b.coin] = 0 /\ job'.cost[b.coin] > 0
          /\ \A d \in decided : d.coin = b.coin => d.at < now
    <3>1. \A b \in Buys(job.made) :
            /\ b.coin \in Coins /\ cost[b.coin] = 0 /\ job.cost[b.coin] > 0
            /\ \A d \in decided : d.coin = b.coin => d.at < now
      BY <1>5 DEF PositionInv, WorkInv, Buys, Trade
    <3>2. \A b \in Buys(job.made) : b.coin \notin S
      BY <3>1
    <3> QED BY <1>9, <3>1, <3>2
  <2>4. \A c \in Coins : job'.cost[c] > 0 /\ cost[c] = 0 => \E b \in Buys(job.made) : b.coin = c
    BY <1>9 DEF PositionInv, WorkInv
  <2>5. \A c \in Coins : cost[c] = 0 => job.mark[c] = 100
    BY DEF PositionInv, WorkInv
  <2>6. \A b \in Buys(job.made)' :
          /\ cost'[b.coin] = 0 /\ job'.cost[b.coin] > 0
          /\ \A d \in decided' : d.coin = b.coin => d.at < now'
    BY <1>2, <1>8, <2>3
  <2>7. /\ job'.pc \notin {"flatten", "closeall"}
        /\ \A c \in job'.todo : job'.cost[c] = cost'[c]
        /\ \A c \in Coins : cost'[c] = 0 => job'.mark[c] = 100
        /\ \A c \in Coins : cost'[c] > 0 => job'.cost[c] \in {0, cost'[c]}
        /\ \A c \in Coins : job'.cost[c] > 0 /\ cost'[c] = 0
                              => \E b \in Buys(job.made)' : b.coin = c
    BY <1>1, <1>2, <1>8, <2>1, <2>2, <2>4, <2>5
  <2> QED BY <2>6, <2>7 DEF WorkInv
<1>11. OpenInv' /\ CreditInv' /\ PutDownInv'
  BY <1>2 DEF PositionInv, OpenInv, CreditInv, PutDownInv, Opens, PutDown, Buys
<1>12. SaleInv'
  <2>1. job'.pc # "none"
    BY <1>1 DEF Steps
  <2>2. ASSUME NEW k \in job.credits
        PROVE  /\ cost[k.coin] > 0 /\ job'.cost[k.coin] = 0 /\ k.at = now
               /\ Opens(k.coin, k.opened) /\ \E d \in job'.made : d.coin = k.coin
    <3>1. k.coin \in Coins
      BY <2>2 DEF PositionInv, WorkTypes, Credit
    <3> QED BY <1>1, <1>9, <2>2, <3>1 DEF PositionInv, SaleInv
  <2>3. ASSUME NEW k \in new
        PROVE  /\ cost[k.coin] > 0 /\ job'.cost[k.coin] = 0 /\ k.at = now
               /\ Opens(k.coin, k.opened) /\ \E d \in job'.made : d.coin = k.coin
    BY <1>0, <1>1, <1>3, <1>4, <1>9, <2>3
  <2>4. \A c, t : Opens(c, t)' <=> Opens(c, t)
    BY <1>2 DEF Opens, Buys
  <2> QED BY <1>1, <1>2, <2>1, <2>2, <2>3, <2>4 DEF SaleInv
<1>13. SizeInv'
  <2>1. /\ Exposure(job'.cost) <= Exposure(job.cost)
        /\ Exposure(job'.cost) \in Nat /\ Exposure(job.cost) \in Nat
    <3>1. \A c \in Coins : /\ job'.cost[c] \in Nat /\ job.cost[c] \in Nat
                           /\ job'.cost[c] <= job.cost[c]
      BY <1>5, <1>9
    <3> QED BY <3>1, Constants, SumMonotone, SumNat DEF Exposure
  <2>2. /\ Cardinality(Held(job'.cost)) <= Cardinality(Held(job.cost))
        /\ Cardinality(Held(job'.cost)) \in Nat /\ Cardinality(Held(job.cost)) \in Nat
    <3>1. Held(job'.cost) \in SUBSET Held(job.cost)
      BY <1>9 DEF Held
    <3>2. IsFiniteSet(Held(job.cost))
      BY Constants, FS_Subset DEF Held
    <3> QED BY <3>1, <3>2, SubsetCount, FS_CardinalityType
  <2>3. SUFFICES ASSUME NEW c \in Coins, job'.cost[c] > cost[c]
                 PROVE  /\ 100 * job'.cost[c] <= MaxPositionSize * snap.equity
                        /\ 100 * Exposure(job'.cost) <= MaxExposure * snap.equity
                        /\ Cardinality(Held(job'.cost)) <= MaxOpenPositions
    BY <1>2 DEF SizeInv
  <2>4. job'.cost[c] = job.cost[c]
    BY <1>5, <1>9, <2>3
  <2>5. /\ 100 * job.cost[c] <= MaxPositionSize * snap.equity
        /\ 100 * Exposure(job.cost) <= MaxExposure * snap.equity
        /\ Cardinality(Held(job.cost)) <= MaxOpenPositions
    BY <2>3, <2>4 DEF PositionInv, SizeInv
  <2> DEFINE room == MaxExposure * snap.equity
  <2>6. room \in Int
    BY MoneyConstants DEF PositionInv, MoneyTypes, Snapshots
  <2> HIDE DEF room
  <2>7. 100 * Exposure(job'.cost) <= room
    <3>1. 100 * Exposure(job.cost) <= room
      BY <2>5 DEF room
    <3> QED BY <2>1, <2>6, <3>1
  <2>8. Cardinality(Held(job'.cost)) <= MaxOpenPositions
    BY <2>2, <2>5, MoneyConstants
  <2> QED BY <2>4, <2>5, <2>7, <2>8 DEF room
<1> QED BY <1>6, <1>7, <1>10, <1>11, <1>12, <1>13 DEF PositionInv

-----------------------------------------------------------------------------
(* A buy *)

LEMMA FewAreFinite ==
  ASSUME NEW x, NEW y, NEW z
  PROVE  IsFiniteSet({x, y}) /\ IsFiniteSet({x, y, z})
<1>1. IsFiniteSet({x}) /\ IsFiniteSet({y}) /\ IsFiniteSet({z})
  BY FS_Singleton
<1>2. IsFiniteSet({x} \cup {y})
  BY <1>1, FS_Union
<1>3. IsFiniteSet({x, y})
  <2>1. {x, y} = {x} \cup {y}
    OBVIOUS
  <2> QED BY ONLY <1>2, <2>1
<1>4. IsFiniteSet({x, y} \cup {z})
  BY <1>1, <1>3, FS_Union
<1>5. {x, y, z} = {x, y} \cup {z}
  OBVIOUS
<1> QED BY ONLY <1>3, <1>4, <1>5

\* The size of an entry is within the cap per position and the room that is left.
LEMMA SizeWithin ==
  ASSUME BookTypes, MoneyTypes, NEW stake \in Stakes, SizeFor(stake) \in Nat \ {0}
  PROVE  /\ 100 * SizeFor(stake) <= MaxPositionSize * snap.equity
         /\ 100 * (Exposure(job.cost) + SizeFor(stake)) <= MaxExposure * snap.equity
<1> DEFINE asked == stake * snap.equity
           cap == MaxPositionSize * snap.equity
           limit == MaxExposure * snap.equity
           out == Exposure(job.cost)
           room == Max({0, limit - 100 * out})
           least == Min({asked, cap, room})
<1>1. snap.equity \in Int /\ stake \in Nat
  BY MoneyConstants DEF MoneyTypes, Snapshots
<1>2. asked \in Int /\ cap \in Int /\ limit \in Int
  BY <1>1, MoneyConstants
<1>3. out \in Nat
  BY Constants, SumNat DEF BookTypes, Exposure
<1>4. SizeFor(stake) = least \div 100
  BY DEF SizeFor
<1> HIDE DEF asked, cap, limit, out
<1>5. room \in {0, limit - 100 * out} /\ room \in Int
  <2> DEFINE S == {0, limit - 100 * out}
  <2>1. S \in SUBSET Int /\ S # {}
    BY <1>2, <1>3
  <2>2. IsFiniteSet(S)
    BY FewAreFinite
  <2> HIDE DEF S
  <2>3. Max(S) \in S
    BY <2>1, <2>2, MaxIs
  <2> QED BY <2>1, <2>3 DEF S
<1> HIDE DEF room
<1>6. least \in Int /\ least <= cap /\ least <= room
  <2> DEFINE S == {asked, cap, room}
  <2>1. S \in SUBSET Int /\ S # {}
    BY <1>2, <1>5
  <2>2. IsFiniteSet(S)
    BY FewAreFinite
  <2> HIDE DEF S
  <2>3. Min(S) \in S /\ \A y \in S : Min(S) <= y
    BY <2>1, <2>2, MinIs
  <2> QED BY <2>1, <2>3 DEF S
<1> HIDE DEF least
<1>7. least \div 100 \in Nat \ {0}
  BY <1>4
<1>8. 100 * (least \div 100) <= least
  BY <1>6
<1>9. 100 * (least \div 100) <= cap
  BY <1>2, <1>5, <1>6, <1>7, <1>8
<1>10. 100 * (out + (least \div 100)) <= limit
  BY <1>2, <1>3, <1>5, <1>6, <1>7, <1>8
<1> QED BY <1>4, <1>9, <1>10 DEF cap, limit, out

LEMMA EnterKeepsPositions ==
  ASSUME EntryInv, EntryInv', PositionInv, NEW c \in Coins, NEW stake \in Stakes, Enter(c, stake)
  PROVE  PositionInv'
<1> DEFINE size == SizeFor(stake)
           new == Traded({c}, "buy")
<1>1. /\ job.pc = "symbols" /\ c \in job.todo /\ RoomFor(c) /\ TimeAllows(c)
      /\ size \in Nat \ {0} /\ size <= job.cash
      /\ UNCHANGED <<now, floor, aiEnabled, cash, cost, decided, credits, filled, snap, failures>>
  BY DEF Enter, bookVars
<1>2. /\ job'.pc = job.pc /\ job'.entries = job.entries \cup {now}
      /\ job'.cost = [job.cost EXCEPT ![c] = size] /\ job'.cash = job.cash - size
      /\ job'.made = job.made \cup new /\ job'.todo = job.todo \ {c}
      /\ job'.dry = job.dry /\ job'.mark = job.mark /\ job'.credits = job.credits
  <2> HIDE DEF size, new
  <2>1. JobShape
    BY DEF EntryInv, BookTypes
  <2>2. job' = [job EXCEPT !.todo = @ \ {c}, !.trades = job.trades + 1,
                           !.entries = job.entries \cup {now},
                           !.signals = [job.signals EXCEPT ![c] = @ \cup {now}],
                           !.cash = @ - size, !.cost = [@ EXCEPT ![c] = size],
                           !.made = @ \cup new, !.done = @ \cup new]
    BY DEF Enter, Reserved, size, new
  <2> QED BY <2>1, <2>2 DEF JobShape
<1>3. new = {[at |-> now, coin |-> c, side |-> "buy"]}
  BY DEF Traded
<1>4. /\ 100 * size <= MaxPositionSize * snap.equity
      /\ 100 * (Exposure(job.cost) + size) <= MaxExposure * snap.equity
  BY <1>1, SizeWithin DEF EntryInv, PositionInv
<1> HIDE DEF size, new
<1>5. job.cost \in [Coins -> Nat] /\ cost \in [Coins -> Nat] /\ job.made \in SUBSET Trade
  BY DEF EntryInv, BookTypes
<1>6. \A d \in Coins : job'.cost[d] = IF d = c THEN size ELSE job.cost[d]
  BY <1>2, <1>5
<1>7. cost[c] = 0 /\ job.cost[c] = 0
  BY <1>1 DEF RoomFor, PositionInv, WorkInv
<1>8. MoneyTypes'
  BY <1>1 DEF PositionInv, MoneyTypes
<1>9. WorkTypes'
  <2>1. job.cash - size \in Nat
    BY <1>1 DEF PositionInv, WorkTypes
  <2>2. now \in 0..MaxTime
    BY DEF EntryInv, BookTypes
  <2> QED BY <1>2, <2>1, <2>2 DEF PositionInv, WorkTypes
<1>10. Buys(job.made)' = Buys(job.made) \cup new
  BY <1>2, <1>3 DEF Buys
<1>11. WorkInv'
  <2>1. \A d \in job'.todo : job'.cost[d] = cost'[d]
    BY <1>1, <1>2, <1>6 DEF PositionInv, WorkTypes, WorkInv
  <2>2. \A d \in Coins : cost'[d] > 0 => job'.cost[d] \in {0, cost'[d]}
    BY <1>1, <1>6, <1>7 DEF PositionInv, WorkInv
  <2>3. ASSUME NEW b \in Buys(job.made)
        PROVE  /\ cost'[b.coin] = 0 /\ job'.cost[b.coin] > 0
               /\ \A d \in decided' : d.coin = b.coin => d.at < now'
    <3>1. /\ b.coin \in Coins /\ cost[b.coin] = 0 /\ job.cost[b.coin] > 0
          /\ \A d \in decided : d.coin = b.coin => d.at < now
      BY <1>1, <1>5, <2>3 DEF PositionInv, WorkInv, Buys, Trade
    <3> QED BY <1>1, <1>6, <1>7, <3>1
  <2>4. ASSUME NEW d \in decided, d.coin = c
        PROVE  d.at < now
    <3>1. d.at \in job.signals[c] /\ d.at \in 0..MaxTime /\ now \in 0..MaxTime
      BY <1>1, <2>4 DEF EntryInv, BookTypes, StateInv, Trade
    <3>2. now - d.at >= Cooldown
      BY <1>1, <3>1 DEF TimeAllows
    <3> QED BY <3>1, <3>2, MoneyConstants
  <2>5. \A b \in Buys(job.made)' :
          /\ cost'[b.coin] = 0 /\ job'.cost[b.coin] > 0
          /\ \A d \in decided' : d.coin = b.coin => d.at < now'
    BY <1>1, <1>3, <1>6, <1>7, <1>10, <2>3, <2>4
  <2>6. ASSUME NEW d \in Coins, job'.cost[d] > 0, cost'[d] = 0
        PROVE  \E b \in Buys(job.made)' : b.coin = d
    <3>1. CASE d = c
      <4>1. PICK b \in new : b.coin = c
        BY <1>3
      <4> QED BY <1>10, <3>1, <4>1
    <3>2. CASE d # c
      <4>1. \E b \in Buys(job.made) : b.coin = d
        BY <1>1, <1>6, <2>6, <3>2 DEF PositionInv, WorkInv
      <4> QED BY <1>10, <4>1
    <3> QED BY <3>1, <3>2
  <2>7. \A d \in Coins : cost'[d] = 0 => job'.mark[d] = 100
    BY <1>1, <1>2 DEF PositionInv, WorkInv
  <2> QED BY <1>1, <1>2, <2>1, <2>2, <2>5, <2>6, <2>7 DEF WorkInv
<1>12. OpenInv' /\ CreditInv' /\ PutDownInv'
  BY <1>1 DEF PositionInv, OpenInv, CreditInv, PutDownInv, Opens, PutDown, Buys
<1>13. SaleInv'
  <2>1. ASSUME NEW k \in job.credits
        PROVE  /\ cost[k.coin] > 0 /\ job'.cost[k.coin] = 0 /\ k.at = now
               /\ Opens(k.coin, k.opened) /\ \E d \in job'.made : d.coin = k.coin
    <3>1. k.coin \in Coins
      BY <2>1 DEF PositionInv, WorkTypes, Credit
    <3> QED BY <1>2, <1>6, <1>7, <2>1, <3>1 DEF PositionInv, SaleInv
  <2>2. \A d, t : Opens(d, t)' <=> Opens(d, t)
    BY <1>1 DEF Opens, Buys
  <2> QED BY <1>1, <1>2, <2>1, <2>2 DEF SaleInv
<1>14. SizeInv'
  <2>1. Exposure(job'.cost) = Exposure(job.cost) + size /\ Exposure(job.cost) \in Nat
    <3>1. Exposure(job.cost) \in Nat
      BY <1>5, Constants, SumNat DEF Exposure
    <3>2. SumFunctionOnSet([job.cost EXCEPT ![c] = size], Coins)
            = SumFunctionOnSet(job.cost, Coins) - job.cost[c] + size
      <4>1. job.cost \in [Coins -> Int] /\ size \in Int
        BY <1>1, <1>5
      <4> QED BY <4>1, Constants, SumUpdate
    <3> QED BY <1>1, <1>2, <1>7, <3>1, <3>2 DEF Exposure
  <2>2. Cardinality(Held(job'.cost)) <= MaxOpenPositions
    <3>1. Held(job'.cost) \in SUBSET (Held(job.cost) \cup {c})
      BY <1>6 DEF Held
    <3>2. IsFiniteSet(Held(job.cost)) /\ IsFiniteSet({c}) /\ Cardinality({c}) = 1
      BY Constants, FS_Subset, FS_Singleton DEF Held
    <3>3. /\ Cardinality(Held(job'.cost)) <= Cardinality(Held(job.cost) \cup {c})
          /\ Cardinality(Held(job.cost) \cup {c}) <= Cardinality(Held(job.cost)) + 1
          /\ Cardinality(Held(job'.cost)) \in Nat /\ Cardinality(Held(job.cost) \cup {c}) \in Nat
      BY <3>1, <3>2, SubsetCount, UnionCount
    <3>4. Cardinality(Held(job.cost)) < MaxOpenPositions /\ Cardinality(Held(job.cost)) \in Nat
      BY <1>1, <3>2, FS_CardinalityType DEF RoomFor
    <3> QED BY <3>3, <3>4, MoneyConstants
  <2>3. \A d \in Coins : d # c /\ job.cost[d] > cost[d]
          => 100 * job.cost[d] <= MaxPositionSize * snap.equity
    BY <1>1 DEF PositionInv, SizeInv
  <2>4. \A d \in Coins : job'.cost[d] > cost[d]
          => 100 * job'.cost[d] <= MaxPositionSize * snap.equity
    BY <1>4, <1>6, <2>3
  <2>5. 100 * Exposure(job'.cost) <= MaxExposure * snap.equity
    BY <1>4, <2>1
  <2> QED BY <1>1, <2>2, <2>4, <2>5 DEF SizeInv
<1> QED BY <1>8, <1>9, <1>11, <1>12, <1>13, <1>14 DEF PositionInv

-----------------------------------------------------------------------------
(* Sales: each is of a coin that was held when the job began *)

LEMMA CloseOnSignalKeeps ==
  ASSUME EntryInv, EntryInv', PositionInv, NEW c \in Coins, CloseOnSignal(c)
  PROVE  PositionInv'
<1>1. /\ job.pc = "symbols" /\ c \in job.todo \cap Held(job.cost) /\ job' = Sold({c})
      /\ UNCHANGED <<now, floor, aiEnabled, bookVars, failures>>
  BY DEF CloseOnSignal
<1>2. cost[c] > 0
  BY <1>1 DEF PositionInv, WorkInv, Held
<1>3. {c} \in SUBSET Held(job.cost) /\ \A d \in {c} : cost[d] > 0
  BY <1>1, <1>2
<1> QED BY <1>1, <1>3, SellKeepsPositions DEF Steps

LEMMA FlattenKeeps ==
  ASSUME EntryInv, EntryInv', PositionInv, Flatten
  PROVE  PositionInv'
<1> DEFINE p == IF job.pc = "flatten" THEN "persist" ELSE "answer"
<1>1. /\ job.pc \in {"flatten", "closeall"}
      /\ UNCHANGED <<now, floor, aiEnabled, bookVars, failures>>
  BY DEF Flatten
<1>2. job' = [Sold(Held(job.cost)) EXCEPT !.pc = p]
  <2>1. Sold(Held(job.cost)).pc = job.pc
    BY DEF Sold, EntryInv, BookTypes, JobShape
  <2> QED BY <2>1 DEF Flatten
<1>3. job.made = {}
  BY <1>1 DEF PositionInv, WorkInv
<1>4. \A c \in Held(job.cost) : cost[c] > 0
  <2>1. ASSUME NEW c \in Held(job.cost) PROVE cost[c] # 0
    BY <1>1, <1>3, <2>1 DEF PositionInv, WorkInv, Held, Buys
  <2> QED BY <2>1 DEF EntryInv, BookTypes, Held
<1>5. p \in Steps \ {"flatten", "closeall"}
  BY DEF Steps
<1> QED BY <1>1, <1>2, <1>4, <1>5, SellKeepsPositions

\* What the job has just bought is worth what it cost: no exit takes it.
LEMMA ApplyExitsKeeps ==
  ASSUME EntryInv, EntryInv', PositionInv, ApplyExits
  PROVE  PositionInv'
<1>1. /\ job.pc \in {"symbols", "pause"}
      /\ UNCHANGED <<now, floor, aiEnabled, bookVars, failures>>
  BY DEF ApplyExits
<1>2. PICK S \in SUBSET Held(job.cost) :
        /\ \A c \in S : TargetReached(c) \/ StopReachable(c)
        /\ job' = [Sold(S) EXCEPT !.pc = "persist"]
  BY DEF ApplyExits, ExitSold
<1>3. ASSUME NEW c \in S PROVE cost[c] > 0
  <2>1. c \in Coins /\ cost[c] \in Nat /\ job.cost[c] \in Nat
    BY <1>2, <1>3 DEF Held, EntryInv, BookTypes
  <2>2. ASSUME cost[c] = 0 PROVE FALSE
    <3>1. job.mark[c] = 100
      BY <1>1, <2>1, <2>2 DEF PositionInv, WorkInv
    <3>2. Worth(c) = job.cost[c]
      BY <2>1, <3>1, WorthIsNat DEF EntryInv, PositionInv
    <3>3. TargetReached(c) \/ StopReachable(c)
      BY <1>2, <1>3
    <3> QED BY <2>1, <3>2, <3>3, MoneyConstants DEF TargetReached, StopReachable
  <2> QED BY <2>1, <2>2
<1> QED BY <1>1, <1>2, <1>3, SellKeepsPositions DEF Steps

-----------------------------------------------------------------------------
(* The beginning and the end of a job *)

LEMMA LoadKeeps ==
  ASSUME EntryInv, PositionInv, job.pc = "none", NEW pc \in Steps, NEW mark \in PricesNow,
         NEW todo \in SUBSET Coins, Load(pc, mark, todo),
         UNCHANGED <<now, floor, aiEnabled, bookVars, failures>>
  PROVE  PositionInv'
<1> DEFINE E == Times(Buys(decided))
           G == [c \in Coins |-> Times({d \in decided : d.coin = c})]
           T == TradesThisHour(decided)
<1>1. /\ job'.pc = pc /\ job'.dry \in BOOLEAN /\ job'.mark = mark /\ job'.todo = todo
      /\ job'.entries = E /\ job'.cash = cash /\ job'.cost = cost /\ job'.made = {}
      /\ job'.credits = {}
  <2> HIDE DEF E, G, T
  <2>1. job' = [pc |-> pc, dry |-> ~aiEnabled, mark |-> mark, todo |-> todo,
                trades |-> T, entries |-> E, signals |-> G,
                cash |-> cash, cost |-> cost, made |-> {}, done |-> {}, credits |-> {}]
    BY DEF Load, E, G, T
  <2> DEFINE dry == ~aiEnabled
  <2>2. dry \in BOOLEAN
    OBVIOUS
  <2> HIDE DEF dry
  <2>3. job'.dry = dry
    BY <2>1 DEF dry
  <2> QED BY <2>1, <2>2, <2>3
<1>2. UNCHANGED <<now, floor, aiEnabled, cash, cost, decided, credits, filled, snap, failures>>
  BY DEF bookVars
<1>3. E \in SUBSET (0..MaxTime)
  BY DEF EntryInv, BookTypes, Times, Buys, Trade
<1> HIDE DEF E, G, T
<1>4. MoneyTypes'
  BY <1>2 DEF PositionInv, MoneyTypes
<1>5. WorkTypes'
  BY <1>1, <1>3, FS_EmptySet DEF PositionInv, MoneyTypes, WorkTypes, PricesNow
<1>6. WorkInv' /\ SaleInv'
  BY <1>1, <1>2 DEF WorkInv, SaleInv, PricesNow, Buys, Steps
<1>7. SizeInv'
  BY <1>1, <1>2 DEF SizeInv, EntryInv, BookTypes
<1>8. OpenInv' /\ CreditInv' /\ PutDownInv'
  BY <1>2 DEF PositionInv, OpenInv, CreditInv, PutDownInv, Opens, PutDown, Buys
<1> QED BY <1>4, <1>5, <1>6, <1>7, <1>8 DEF PositionInv

LEMMA NoJobTypes ==
  /\ NoJob.dry \in BOOLEAN /\ NoJob.mark \in Prices /\ NoJob.todo \in SUBSET Coins
  /\ NoJob.entries \in SUBSET (0..MaxTime) /\ NoJob.cash \in Nat /\ NoJob.credits = {}
  /\ IsFiniteSet({})
BY FS_EmptySet DEF NoJob, NoMarks, Prices

\* Whatever ends a job leaves none of its work pending.
LEMMA JobOver ==
  ASSUME job' = NoJob
  PROVE  WorkTypes' /\ WorkInv' /\ SaleInv' /\ SizeInv'
<1>1. job'.pc = "none" /\ job'.credits = {}
  BY NoJobFacts, NoJobTypes
<1>2. WorkTypes'
  BY NoJobTypes DEF WorkTypes, Prices
<1> QED BY <1>1, <1>2 DEF WorkInv, SaleInv, SizeInv

\* What a job made, seen from a coin that was held when it began.
LEMMA HeldUntouched ==
  ASSUME EntryInv, PositionInv, job.pc # "none", NEW c \in Coins, cost[c] > 0
  PROVE  \A b \in Buys(job.made) : b.coin # c
<1>1. cost[c] # 0
  BY DEF EntryInv, BookTypes
<1> QED BY <1>1 DEF PositionInv, WorkInv

\* A job puts at most one sale of a coin down, and to the buy that opened it.
LEMMA OneCredit ==
  ASSUME EntryInv, PositionInv, NEW c \in Coins, NEW t \in 0..MaxTime
  PROVE  LET mine == {k \in job.credits : k.coin = c /\ k.opened = t}
         IN  /\ IsFiniteSet(mine) /\ Cardinality(mine) \in {0, 1}
             /\ mine # {} => cost[c] > 0 /\ job.cost[c] = 0 /\ Opens(c, t)
<1> DEFINE mine == {k \in job.credits : k.coin = c /\ k.opened = t}
           row == [coin |-> c, opened |-> t, at |-> now]
<1>1. \A k \in mine : /\ k \in Credit /\ k.coin = c /\ k.opened = t /\ k.at = now
                      /\ cost[c] > 0 /\ job.cost[c] = 0 /\ Opens(c, t)
  BY DEF PositionInv, WorkTypes, SaleInv
<1>2. \A k \in mine : k = row
  BY <1>1 DEF Credit
<1>3. mine = {} \/ mine = {row}
  BY <1>2
<1> HIDE DEF mine, row
<1>4. IsFiniteSet(mine) /\ Cardinality(mine) \in {0, 1}
  BY <1>3, FS_EmptySet, FS_Singleton
<1> QED BY <1>1, <1>4 DEF mine

LEMMA PutDownFinite ==
  ASSUME PositionInv, NEW c, NEW t
  PROVE  IsFiniteSet(PutDown(c, t)) /\ Cardinality(PutDown(c, t)) \in Nat
BY SubsetCount DEF PositionInv, MoneyTypes, PutDown

\* What is put down once the job's own credits are on the books.
LEMMA MorePutDown ==
  ASSUME EntryInv, PositionInv, credits' = credits \cup job.credits,
         NEW c \in Coins, NEW t \in 0..MaxTime
  PROVE  /\ Cardinality(PutDown(c, t)') <= 1 + failures
         /\ Cardinality(PutDown(c, t)') <= Cardinality(PutDown(c, t))
              \/ (cost[c] > 0 /\ job.cost[c] = 0)
         /\ Cardinality(PutDown(c, t)') \in Nat
<1> DEFINE mine == {k \in job.credits : k.coin = c /\ k.opened = t}
<1>1. /\ IsFiniteSet(mine) /\ Cardinality(mine) \in {0, 1}
      /\ mine # {} => cost[c] > 0 /\ job.cost[c] = 0 /\ Opens(c, t)
  BY OneCredit
<1>2. PutDown(c, t)' = PutDown(c, t) \cup mine
  BY DEF PutDown
<1>3. IsFiniteSet(PutDown(c, t)) /\ Cardinality(PutDown(c, t)) \in Nat
  BY PutDownFinite
<1>4. /\ Cardinality(PutDown(c, t)) <= 1 + failures
      /\ cost[c] > 0 /\ Opens(c, t) => Cardinality(PutDown(c, t)) <= failures
  BY DEF PositionInv, PutDownInv
<1>5. failures \in Nat
  BY MoneyConstants DEF PositionInv, MoneyTypes
<1> HIDE DEF mine
<1>6. CASE mine = {}
  <2>1. PutDown(c, t)' = PutDown(c, t)
    BY <1>2, <1>6
  <2> QED BY <1>3, <1>4, <2>1
<1>7. CASE mine # {}
  <2>1. Cardinality(PutDown(c, t)) <= failures
    BY <1>1, <1>4, <1>7
  <2>2. /\ Cardinality(PutDown(c, t)') <= Cardinality(PutDown(c, t)) + Cardinality(mine)
        /\ Cardinality(PutDown(c, t)') \in Nat
    BY <1>1, <1>2, <1>3, UnionCount
  <2> DEFINE n == Cardinality(PutDown(c, t)')
             m == Cardinality(PutDown(c, t))
             l == Cardinality(mine)
  <2>3. n <= m + l /\ m <= failures /\ l \in {0, 1} /\ n \in Nat /\ m \in Nat
    BY <1>1, <1>3, <2>1, <2>2
  <2> HIDE DEF n, m, l
  <2>4. n <= 1 + failures
    BY <1>5, <2>3
  <2> QED BY <1>1, <1>7, <2>2, <2>4 DEF n
<1> QED BY <1>6, <1>7

\* With the job's decisions and credits on the books every sale is still put down
\* to the right buy; filled may have grown by the job's trades or not.
LEMMA CreditsStand ==
  ASSUME EntryInv, PositionInv, job.pc # "none",
         decided \subseteq decided', decided' \subseteq decided \cup job.made,
         filled \subseteq filled', filled' \subseteq filled \cup job.made,
         \/ credits' = credits
         \/ credits' = credits \cup job.credits /\ decided' = decided \cup job.made
  PROVE  CreditInv'
<1>1. \A k \in credits : k.coin \in Coins
  BY DEF PositionInv, MoneyTypes, Credit
<1>2. \A k \in job.credits : k.coin \in Coins
  BY DEF PositionInv, WorkTypes, Credit
<1>3. \A b \in Buys(filled') : b \in Buys(filled) \/ b \in Buys(job.made)
  BY DEF Buys
<1>4. ASSUME NEW k \in credits
      PROVE  /\ \E b \in Buys(filled') : b.coin = k.coin /\ b.at = k.opened
             /\ \A b \in Buys(filled') : b.coin = k.coin => b.at <= k.opened \/ b.at > k.at
             /\ \E d \in decided' : d.coin = k.coin /\ d.at = k.at
  <2>1. /\ \E b \in Buys(filled) : b.coin = k.coin /\ b.at = k.opened
        /\ \A b \in Buys(filled) : b.coin = k.coin => b.at <= k.opened \/ b.at > k.at
    BY DEF PositionInv, CreditInv
  <2>2. PICK d \in decided : d.coin = k.coin /\ d.at = k.at
    BY DEF PositionInv, CreditInv
  <2>3. ASSUME NEW b \in Buys(job.made), b.coin = k.coin PROVE b.at > k.at
    <3>1. d.at < now /\ b.at = now
      BY <2>2, <2>3 DEF EntryInv, BookInv, PositionInv, WorkInv, Buys
    <3>2. d.at \in Int /\ now \in Int
      BY <2>2 DEF EntryInv, BookTypes, Trade
    <3> QED BY <2>2, <3>1, <3>2
  <2> QED BY <1>3, <2>1, <2>2, <2>3 DEF Buys
<1>5. ASSUME NEW k \in job.credits, decided' = decided \cup job.made
      PROVE  /\ \E b \in Buys(filled') : b.coin = k.coin /\ b.at = k.opened
             /\ \A b \in Buys(filled') : b.coin = k.coin => b.at <= k.opened \/ b.at > k.at
             /\ \E d \in decided' : d.coin = k.coin /\ d.at = k.at
  <2>1. /\ cost[k.coin] > 0 /\ k.at = now /\ Opens(k.coin, k.opened)
        /\ \E d \in job.made : d.coin = k.coin
    BY DEF PositionInv, SaleInv
  <2>2. \A b \in Buys(job.made) : b.coin # k.coin
    BY <1>2, <2>1, HeldUntouched
  <2>3. \A b \in Buys(filled) : b.coin = k.coin => b.at <= k.opened
    BY <2>1 DEF Opens, Buys, EntryInv, BookInv
  <2>4. \E b \in Buys(filled') : b.coin = k.coin /\ b.at = k.opened
    BY <2>1 DEF Opens, Buys
  <2>5. \E d \in decided' : d.coin = k.coin /\ d.at = k.at
    BY <1>5, <2>1 DEF EntryInv, BookInv
  <2> QED BY <1>3, <2>2, <2>3, <2>4, <2>5
<1>6. ASSUME NEW k \in credits'
      PROVE  /\ \E b \in Buys(filled') : b.coin = k.coin /\ b.at = k.opened
             /\ \A b \in Buys(filled') : b.coin = k.coin => b.at <= k.opened \/ b.at > k.at
             /\ \E d \in decided' : d.coin = k.coin /\ d.at = k.at
  BY <1>4, <1>5, <1>6
<1> QED BY <1>6 DEF CreditInv, Buys

LEMMA CommitKeeps ==
  ASSUME EntryInv, EntryInv', PositionInv, Commit
  PROVE  PositionInv'
<1>1. /\ job.pc # "none" /\ job' = NoJob
      /\ cash' = job.cash /\ cost' = job.cost /\ decided' = decided \cup job.made
      /\ credits' = credits \cup job.credits /\ filled' = filled \cup job.made
      /\ snap' = [snap EXCEPT !.equity = Equity, !.peak = Max({@, Equity})]
      /\ UNCHANGED <<now, floor, aiEnabled, failures>>
  BY DEF Commit, EntryInv, BookInv
<1>2. MoneyTypes'
  <2>1. Equity \in Nat
    <3>1. job.cash \in Nat /\ SumFunctionOnSet(Worths, Coins) \in Nat
      BY SumsOfWorths DEF EntryInv, PositionInv, WorkTypes
    <3> QED BY <3>1 DEF Equity
  <2>2. snap'.equity \in Int /\ snap' \in Snapshots
    <3> DEFINE e == Equity
               S == {snap.peak, e}
    <3>1. snap \in Snapshots
      BY DEF PositionInv, MoneyTypes
    <3>2. e \in Int
      BY <2>1
    <3> HIDE DEF e
    <3>3. S \in SUBSET Int /\ S # {}
      BY <3>1, <3>2 DEF Snapshots
    <3>4. IsFiniteSet(S)
      BY FewAreFinite
    <3>5. Max(S) \in Int
      <4> HIDE DEF S
      <4> QED BY <3>3, <3>4, MaxIs
    <3>6. snap' = [snap EXCEPT !.equity = e, !.peak = Max(S)]
      BY <1>1, <3>1 DEF e, Snapshots
    <3> HIDE DEF S
    <3> QED BY <3>1, <3>2, <3>5, <3>6 DEF Snapshots
  <2>3. credits' \in SUBSET Credit /\ IsFiniteSet(credits')
    BY <1>1, UnionCount DEF PositionInv, MoneyTypes, WorkTypes
  <2> QED BY <1>1, <2>2, <2>3 DEF PositionInv, MoneyTypes, WorkTypes
<1>3. WorkTypes' /\ WorkInv' /\ SaleInv' /\ SizeInv'
  BY <1>1, JobOver
<1>4. CreditInv'
  BY <1>1, CreditsStand
<1>5. cost \in [Coins -> Nat] /\ job.cost \in [Coins -> Nat] /\ now \in 0..MaxTime
  BY DEF EntryInv, BookTypes
<1>6. \A b \in Buys(filled') : b \in Buys(filled) \/ b \in Buys(job.made)
  BY <1>1 DEF Buys
<1>7. \A b \in Buys(decided') : b \in Buys(decided) \/ b \in Buys(job.made)
  BY <1>1 DEF Buys
<1>8. \A b \in Buys(job.made) : b.at = now /\ b \in Buys(filled') /\ b \in Buys(decided')
  BY <1>1 DEF EntryInv, BookInv, Buys
<1>9. \A d \in decided' : d.at <= now /\ d.at \in Int
  BY <1>1 DEF EntryInv, BookInv, BookTypes, Trade
<1>10. OpenInv'
  <2>1. ASSUME NEW c \in Coins, job.cost[c] > 0 PROVE \E t \in 0..MaxTime : Opens(c, t)'
    <3>1. CASE cost[c] > 0
      <4>1. PICK t \in 0..MaxTime : Opens(c, t)
        BY <3>1 DEF PositionInv, OpenInv
      <4>2. \A b \in Buys(job.made) : b.coin # c
        BY <1>1, <3>1, HeldUntouched
      <4>3. \E b \in Buys(filled') : b.coin = c /\ b.at = t
        BY <1>1, <4>1 DEF Opens, Buys
      <4>4. \A d \in Buys(decided') : d.coin = c => d.at <= t
        BY <1>7, <4>1, <4>2 DEF Opens
      <4> QED BY <4>3, <4>4 DEF Opens, Buys
    <3>2. CASE cost[c] = 0
      <4>1. PICK b \in Buys(job.made) : b.coin = c
        BY <1>1, <2>1, <3>2 DEF PositionInv, WorkInv
      <4>2. b \in Buys(filled') /\ b.at = now
        BY <1>8, <4>1
      <4>3. \A d \in Buys(decided') : d.at <= now
        BY <1>9 DEF Buys
      <4> QED BY <1>5, <4>1, <4>2, <4>3 DEF Opens, Buys
    <3> QED BY <1>5, <3>1, <3>2
  <2> QED BY <1>1, <2>1 DEF OpenInv
<1>11. PutDownInv'
  <2>1. ASSUME NEW c \in Coins, NEW t \in 0..MaxTime
        PROVE  /\ Cardinality(PutDown(c, t)') <= 1 + failures
               /\ job.cost[c] > 0 /\ Opens(c, t)' => Cardinality(PutDown(c, t)') <= failures
    <3>1. /\ Cardinality(PutDown(c, t)') <= 1 + failures
          /\ Cardinality(PutDown(c, t)') <= Cardinality(PutDown(c, t))
              \/ (cost[c] > 0 /\ job.cost[c] = 0)
          /\ Cardinality(PutDown(c, t)') \in Nat /\ Cardinality(PutDown(c, t)) \in Nat
      BY <1>1, MorePutDown, PutDownFinite
    <3>2. failures \in Nat
      BY MoneyConstants DEF PositionInv, MoneyTypes
    <3>3. ASSUME job.cost[c] > 0, Opens(c, t)' PROVE Cardinality(PutDown(c, t)) <= failures
      <4>1. PICK b \in Buys(filled') : b.coin = c /\ b.at = t
        BY <3>3 DEF Opens, Buys
      <4>2. \A d \in Buys(decided') : d.coin = c => d.at <= t
        BY <3>3 DEF Opens, Buys
      <4>3. CASE cost[c] > 0
        <5>1. b \in Buys(filled)
          BY <1>1, <1>6, <4>1, <4>3, HeldUntouched
        <5>2. Opens(c, t)
          BY <1>1, <4>1, <4>2, <5>1 DEF Opens, Buys
        <5> QED BY <4>3, <5>2 DEF PositionInv, PutDownInv
      <4>4. CASE cost[c] = 0
        <5>1. PICK a \in Buys(job.made) : a.coin = c /\ \A d \in decided : d.coin = c => d.at < now
          BY <1>1, <3>3, <4>4 DEF PositionInv, WorkInv
        <5>2. now <= t
          BY <1>8, <4>2, <5>1
        <5>3. t <= now
          BY <4>1, <1>9, <1>1 DEF Buys, EntryInv, BookInv
        <5>4. t = now
          BY <1>5, <5>2, <5>3
        <5>5. \A k \in credits : ~(k.coin = c /\ k.opened = t)
          <6>1. ASSUME NEW k \in credits, k.coin = c, k.opened = t PROVE FALSE
            <7>1. PICK d \in Buys(filled) : d.coin = c /\ d.at = t
              BY <6>1 DEF PositionInv, CreditInv
            <7>2. d \in decided
              BY <7>1 DEF Buys, EntryInv, BookInv
            <7>3. now < now
              BY <5>1, <5>4, <7>1, <7>2
            <7> QED BY <1>5, <7>3
          <6> QED BY <6>1
        <5>6. PutDown(c, t) = {}
          BY <5>5 DEF PutDown
        <5> QED BY <3>2, <5>6, FS_EmptySet
      <4> QED BY <1>5, <4>3, <4>4
    <3>4. CASE Cardinality(PutDown(c, t)') <= Cardinality(PutDown(c, t))
      <4> DEFINE n == Cardinality(PutDown(c, t)')
                 m == Cardinality(PutDown(c, t))
      <4>1. n \in Nat /\ m \in Nat /\ n <= m
        BY <3>1, <3>4
      <4>2. job.cost[c] > 0 /\ Opens(c, t)' => m <= failures
        BY <3>3
      <4> HIDE DEF n, m
      <4>3. job.cost[c] > 0 /\ Opens(c, t)' => n <= failures
        BY <3>2, <4>1, <4>2
      <4> QED BY <3>1, <4>3 DEF n
    <3>5. CASE job.cost[c] = 0
      BY <3>1, <3>5
    <3> QED BY <3>1, <3>4, <3>5
  <2>2. failures' = failures /\ cost' = job.cost
    BY <1>1
  <2>3. ASSUME NEW c \in Coins, NEW t \in 0..MaxTime
        PROVE  /\ Cardinality(PutDown(c, t)') <= 1 + failures'
               /\ cost'[c] > 0 /\ Opens(c, t)' => Cardinality(PutDown(c, t)') <= failures'
    BY <2>1, <2>2
  <2> QED BY <2>3 DEF PutDownInv
<1> QED BY <1>2, <1>3, <1>4, <1>10, <1>11 DEF PositionInv

\* A failed job may leave its decisions and credits; the balances stay.
LEMMA FailKeeps ==
  ASSUME EntryInv, EntryInv', PositionInv, Abort \/ TickFails
  PROVE  PositionInv'
<1>1. /\ job.pc # "none" /\ job' = NoJob /\ failures' = failures + 1 /\ failures < MaxFailures
      /\ UNCHANGED <<now, floor, aiEnabled, cash, cost, filled, snap>>
      /\ \/ decided' = decided /\ credits' = credits
         \/ decided' = decided \cup job.made /\ credits' = credits \cup job.credits
  BY DEF Abort, TickFails, Fail
<1>2. failures \in Nat /\ failures' \in 0..MaxFailures
  BY <1>1, MoneyConstants DEF PositionInv, MoneyTypes
<1>3. MoneyTypes'
  <2>1. credits' \in SUBSET Credit /\ IsFiniteSet(credits')
    BY <1>1, UnionCount DEF PositionInv, MoneyTypes, WorkTypes
  <2> QED BY <1>1, <1>2, <2>1 DEF PositionInv, MoneyTypes
<1>4. WorkTypes' /\ WorkInv' /\ SaleInv' /\ SizeInv'
  BY <1>1, JobOver
<1>5. CreditInv'
  BY <1>1, CreditsStand
<1>6. OpenInv'
  <2>1. ASSUME NEW c \in Coins, cost[c] > 0 PROVE \E t \in 0..MaxTime : Opens(c, t)'
    <3>1. PICK t \in 0..MaxTime : Opens(c, t)
      BY <2>1 DEF PositionInv, OpenInv
    <3>2. \A b \in Buys(job.made) : b.coin # c
      BY <1>1, <2>1, HeldUntouched
    <3>3. \A d \in Buys(decided') : d \in Buys(decided) \/ d \in Buys(job.made)
      BY <1>1 DEF Buys
    <3>4. \A d \in Buys(decided') : d.coin = c => d.at <= t
      BY <3>1, <3>2, <3>3 DEF Opens
    <3> QED BY <1>1, <3>1, <3>4 DEF Opens, Buys
  <2> QED BY <1>1, <2>1 DEF OpenInv
<1>7. PutDownInv'
  <2>1. ASSUME NEW c \in Coins, NEW t \in 0..MaxTime
        PROVE  Cardinality(PutDown(c, t)') <= 1 + failures /\ Cardinality(PutDown(c, t)') \in Nat
    <3>1. CASE credits' = credits
      <4>1. PutDown(c, t)' = PutDown(c, t)
        BY <3>1 DEF PutDown
      <4> QED BY <4>1, PutDownFinite DEF PositionInv, PutDownInv
    <3>2. CASE credits' = credits \cup job.credits
      BY <3>2, MorePutDown
    <3> QED BY <1>1, <3>1, <3>2
  <2>2. ASSUME NEW c \in Coins, NEW t \in 0..MaxTime
        PROVE  /\ Cardinality(PutDown(c, t)') <= failures'
               /\ Cardinality(PutDown(c, t)') <= 1 + failures'
    BY <1>1, <1>2, <2>1
  <2> QED BY <2>2 DEF PutDownInv
<1> QED BY <1>3, <1>4, <1>5, <1>6, <1>7 DEF PositionInv

LEMMA PassKeeps ==
  ASSUME PositionInv, Pass
  PROVE  PositionInv'
<1>1. /\ job.pc = "none" /\ snap' = NewDay(now + 1)
      /\ UNCHANGED <<floor, aiEnabled, cash, cost, decided, credits, filled, job, failures>>
  BY DEF Pass
<1>2. snap' \in Snapshots
  BY <1>1 DEF PositionInv, MoneyTypes, NewDay, Snapshots
<1>3. MoneyTypes' /\ WorkTypes'
  BY <1>1, <1>2 DEF PositionInv, MoneyTypes, WorkTypes, Prices
<1>4. WorkInv' /\ SaleInv' /\ SizeInv'
  BY <1>1 DEF PositionInv, WorkInv, SaleInv, SizeInv
<1>5. OpenInv' /\ CreditInv' /\ PutDownInv'
  BY <1>1 DEF PositionInv, OpenInv, CreditInv, PutDownInv, Opens, PutDown, Buys
<1> QED BY <1>3, <1>4, <1>5 DEF PositionInv

\* What the invariant reads: the switch is a Boolean of its own.
LEMMA PositionsUnread ==
  ASSUME PositionInv, UNCHANGED <<now, floor, bookVars, job, failures>>, aiEnabled' \in BOOLEAN
  PROVE  PositionInv'
<1>1. UNCHANGED <<now, floor, cash, cost, decided, credits, filled, snap, job, failures>>
  BY DEF bookVars
<1>2. MoneyTypes' /\ WorkTypes'
  BY <1>1 DEF PositionInv, MoneyTypes, WorkTypes, Prices
<1>3. WorkInv' /\ SaleInv' /\ SizeInv'
  BY <1>1 DEF PositionInv, WorkInv, SaleInv, SizeInv, Opens, Buys, Exposure, Held
<1>4. OpenInv' /\ CreditInv' /\ PutDownInv'
  BY <1>1 DEF PositionInv, OpenInv, CreditInv, PutDownInv, Opens, PutDown, Buys
<1> QED BY <1>2, <1>3, <1>4 DEF PositionInv

LEMMA PositionStart ==
  ASSUME EntryInit
  PROVE  PositionInv
<1>1. /\ now = 0 /\ floor \in Floors /\ aiEnabled \in BOOLEAN
      /\ cash = Start /\ cost = [c \in Coins |-> 0] /\ decided = {} /\ filled = {} /\ credits = {}
      /\ snap = [equity |-> Start, peak |-> Start, dayStart |-> Start]
      /\ job = NoJob /\ failures = 0
  BY DEF EntryInit
<1>2. MoneyTypes
  BY <1>1, MoneyConstants, FS_EmptySet DEF MoneyTypes, Snapshots
<1>3. job.pc = "none" /\ job.credits = {}
  BY <1>1, NoJobFacts, NoJobTypes
<1>4. WorkTypes
  BY <1>1, NoJobTypes DEF WorkTypes
<1>5. WorkInv /\ SaleInv /\ SizeInv
  BY <1>3 DEF WorkInv, SaleInv, SizeInv
<1>6. OpenInv /\ CreditInv
  BY <1>1 DEF OpenInv, CreditInv
<1>7. PutDownInv
  <2>1. \A c, t : PutDown(c, t) = {}
    BY <1>1 DEF PutDown
  <2> QED BY <1>1, <2>1, FS_EmptySet DEF PutDownInv
<1> QED BY <1>2, <1>4, <1>5, <1>6, <1>7 DEF PositionInv

LEMMA PositionStep ==
  ASSUME EntryInv, EntryInv', PositionInv, [EntryNext]_entryVars
  PROVE  PositionInv'
<1>1. CASE UNCHANGED entryVars
  BY <1>1, PositionsUnread DEF entryVars, PositionInv, MoneyTypes
<1>2. CASE JobStep
  BY <1>2, EnterKeepsPositions, CloseOnSignalKeeps, FlattenKeeps, ApplyExitsKeeps, CommitKeeps
  DEF JobStep
<1>3. CASE BeginTick
  <2> DEFINE pc == IF MustFlatten THEN "flatten" ELSE IF MustPause THEN "pause" ELSE "symbols"
  <2>1. PICK mark \in PricesNow : Load(pc, mark, Coins)
    BY <1>3 DEF BeginTick
  <2>2. pc \in Steps
    BY DEF Steps
  <2> QED BY <1>3, <2>1, <2>2, LoadKeeps DEF BeginTick
<1>4. CASE BeginCloseAll
  <2>1. PICK mark \in PricesNow : Load("closeall", mark, {})
    BY <1>4 DEF BeginCloseAll
  <2> QED BY <1>4, <2>1, LoadKeeps DEF BeginCloseAll, Steps
<1>5. CASE \E on \in BOOLEAN : SetAi(on)
  BY <1>5, PositionsUnread DEF SetAi
<1> QED BY <1>1, <1>2, <1>3, <1>4, <1>5, FailKeeps, PassKeeps DEF EntryNext

LEMMA PositionInvariant == EntrySpec => [](EntryInv /\ PositionInv)
<1>1. EntryInit => EntryInv /\ PositionInv
  BY EntryStart, PositionStart
<1>2. EntryInv /\ PositionInv /\ [EntryNext]_entryVars => EntryInv' /\ PositionInv'
  BY EntryStep, PositionStep
<1> QED BY <1>1, <1>2, PTL DEF EntrySpec

\* Books, balances, snapshots and the job's own state are always well typed; cash is
\* never negative.
THEOREM EntryTypes == EntrySpec => []EntryTypeOK
<1>1. ASSUME EntryInv, PositionInv PROVE EntryTypeOK
  <2>1. job \in Jobs
    <3>1. /\ JobShape
          /\ job.pc \in {"none", "symbols", "pause", "flatten", "closeall", "persist", "answer"}
      BY <1>1 DEF EntryInv, BookTypes, Steps
    <3>2. /\ job.trades \in Nat /\ job.cost \in [Coins -> Nat]
          /\ job.signals \in [Coins -> SUBSET (0..MaxTime)]
          /\ job.made \in SUBSET Trade /\ job.done \in SUBSET Trade
      BY <1>1 DEF EntryInv, BookTypes, BookInv
    <3>3. /\ job.dry \in BOOLEAN /\ job.mark \in [Coins -> Marks \cup {100}]
          /\ job.todo \in SUBSET Coins /\ job.entries \in SUBSET (0..MaxTime)
          /\ job.cash \in Int /\ job.credits \in SUBSET Credit
      BY <1>1 DEF PositionInv, WorkTypes, Prices
    <3> QED BY <3>1, <3>2, <3>3 DEF JobShape, Jobs
  <2> QED BY <1>1, <2>1 DEF EntryInv, BookTypes, PositionInv, MoneyTypes, EntryTypeOK
<1> QED BY <1>1, PositionInvariant, PTL

\* A sale is put down to the buy that opened the position, once but for failed ticks.
THEOREM SalesAreCredited == EntrySpec => []CreditedToOpener
<1>1. ASSUME EntryInv, PositionInv PROVE CreditedToOpener
  <2>1. ASSUME NEW k \in credits
        PROVE  LET ofCoin == {b.at : b \in {x \in Buys(filled) : x.coin = k.coin}}
               IN  /\ k.opened \in ofCoin
                   /\ \A t \in ofCoin : t <= k.opened \/ t > k.at
                   /\ Cardinality({j \in credits : j.coin = k.coin /\ j.opened = k.opened})
                        <= 1 + failures
    <3>1. /\ \E b \in Buys(filled) : b.coin = k.coin /\ b.at = k.opened
          /\ \A b \in Buys(filled) : b.coin = k.coin => b.at <= k.opened \/ b.at > k.at
      BY <1>1 DEF PositionInv, CreditInv
    <3>2. k.coin \in Coins /\ k.opened \in 0..MaxTime
      BY <1>1, <3>1 DEF PositionInv, MoneyTypes, Credit, EntryInv, BookTypes, Buys, Trade
    <3>3. Cardinality({j \in credits : j.coin = k.coin /\ j.opened = k.opened}) <= 1 + failures
      BY <1>1, <3>2 DEF PositionInv, PutDownInv, PutDown
    <3> QED BY <3>1, <3>3
  <2> QED BY <2>1 DEF CreditedToOpener
<1> QED BY <1>1, PositionInvariant, PTL

\* An entry keeps the position, the exposure and their number within the limits.
THEOREM EntriesKeepToLimits == EntrySpec => WithinLimits
<1> DEFINE Kept == \A c \in Coins : cost'[c] > cost[c] =>
                     /\ 100 * cost'[c] <= MaxPositionSize * snap.equity
                     /\ 100 * Exposure(cost') <= MaxExposure * snap.equity
                     /\ Cardinality(Held(cost')) <= MaxOpenPositions
<1>1. ASSUME EntryInv, PositionInv, [EntryNext]_entryVars PROVE Kept
  <2>1. CASE cost' = cost
    BY <1>1, <2>1 DEF EntryInv, BookTypes
  <2>2. CASE Commit
    <3>1. cost' = job.cost /\ job.pc # "none"
      BY <2>2 DEF Commit
    <3> QED BY <1>1, <3>1 DEF PositionInv, SizeInv
  <2> QED BY <1>1, <2>1, <2>2, CostByCommit
<1>2. EntryInv /\ PositionInv /\ [EntryNext]_entryVars => [Kept]_entryVars
  BY <1>1
<1> QED BY <1>2, PositionInvariant, PTL DEF EntrySpec, WithinLimits
=============================================================================
