--------------------------- MODULE SimulationProofs ---------------------------
(***************************************************************************)
(* SimTypeOK, NoLostUpdate and OffMeansNoBuys of SimulationAccount, for any *)
(* coins, workers and amounts.  Snapshots play no part in the last two:     *)
(* what a job trades depends on the row it holds.                           *)
(***************************************************************************)
EXTENDS SimulationAccount, FoldLemmas

ResetShape ==
  /\ reset = [open |-> reset.open, start |-> reset.start, balances |-> reset.balances,
              basis |-> reset.basis, waits |-> reset.waits, raced |-> reset.raced,
              later |-> reset.later]
  /\ reset.start \in Nat

RowTypeOK ==
  /\ start \in Nat
  /\ balances \in Balances \cup {NoBalances}
  /\ basis \in SUBSET Coins
  /\ aiEnabled \in BOOLEAN
  /\ work \in [Workers -> Work]

\* The row lock belongs to the one job at work.
LockInv == \A w \in Workers : InHand(w) <=> lock = w

\* What a job knows of the row it holds, and what it may have done to its copy.
CopyInv ==
  \A w \in Workers : InHand(w) =>
    /\ work[w].loaded = Seed
    /\ work[w].dry = ~aiEnabled
    /\ work[w].dry => \A c \in Coins : work[w].held[c] <= Seed.held[c]

\* A reset that has nothing to write changes nothing.
ResetInv == reset.open /\ ~reset.waits => reset.start = start /\ ~reset.balances

SimInv == ResetShape /\ RowTypeOK /\ LockInv /\ CopyInv /\ ResetInv

LEMMA SeedType ==
  ASSUME RowTypeOK
  PROVE  Seed \in Balances
BY DEF RowTypeOK, Seed, Balances, Nothing

LEMMA IdleType == Idle \in Work /\ ~(Idle.pc \in {"tick", "flatten", "exits"})
BY DEF Idle, Work, Nothing, Balances

-----------------------------------------------------------------------------
\* Work on a job's own copy keeps the invariant if the copy stays a copy of what
\* was loaded and, on a dry run, holds no more of any coin than the row.
LEMMA TradeKeeps ==
  ASSUME SimInv, NEW w \in Workers, NEW k \in Work, InHand(w), Trade(w, k),
         k.pc \in {"tick", "flatten", "exits"},
         k.loaded = work[w].loaded, k.dry = work[w].dry,
         k.dry => \A c \in Coins : k.held[c] <= Seed.held[c]
  PROVE  SimInv'
<1> USE DEF SimInv
<1>1. /\ work' = [work EXCEPT ![w] = k]
      /\ UNCHANGED <<start, balances, basis, aiEnabled, lock, reset>>
  BY DEF Trade, rowVars
<1>2. \A v \in Workers : work'[v] = IF v = w THEN k ELSE work[v]
  BY <1>1 DEF RowTypeOK
<1>3. RowTypeOK'
  BY <1>1 DEF RowTypeOK
<1>4. \A v \in Workers : InHand(v)' <=> InHand(v)
  BY <1>2 DEF InHand
<1>5. Seed' = Seed
  BY <1>1 DEF Seed
<1>6. CopyInv'
  BY <1>1, <1>2, <1>4, <1>5 DEF CopyInv
<1> QED
  BY <1>1, <1>3, <1>4, <1>6 DEF LockInv, ResetShape, ResetInv

\* The lock is released with the job that held it.
LEMMA Release ==
  ASSUME SimInv, NEW w \in Workers,
         work' = [work EXCEPT ![w] = Idle],
         lock' = IF lock = w THEN NoOne ELSE lock,
         InHand(w) \/ UNCHANGED <<start, balances, aiEnabled>>
  PROVE  /\ work' \in [Workers -> Work]
         /\ LockInv'
         /\ \A v \in Workers : InHand(v)' => v # w /\ InHand(v) /\ work'[v] = work[v]
         /\ InHand(w) => \A v \in Workers : ~InHand(v)'
<1> USE DEF SimInv
<1>1. \A v \in Workers : work'[v] = IF v = w THEN Idle ELSE work[v]
  BY DEF RowTypeOK
<1>2. work' \in [Workers -> Work]
  BY IdleType DEF RowTypeOK
<1>3. \A v \in Workers : InHand(v)' <=> v # w /\ InHand(v)
  BY <1>1, IdleType DEF InHand
<1>4. NoOne \notin Workers
  BY SimulationAssumption DEF Workers
<1>5. LockInv'
  BY <1>3, <1>4 DEF LockInv
<1> QED
  BY <1>1, <1>2, <1>3, <1>5 DEF LockInv

-----------------------------------------------------------------------------
LEMMA SimInitInv == SimInit => SimInv
<1> SUFFICES ASSUME SimInit PROVE SimInv
  OBVIOUS
<1>1. work = [w \in Workers |-> Idle] /\ \A w \in Workers : ~InHand(w)
  BY IdleType DEF SimInit, InHand
<1>2. ResetShape
  BY DEF SimInit, NoReset, ResetShape
<1>3. RowTypeOK
  BY <1>1, IdleType, SimulationAssumption DEF SimInit, RowTypeOK
<1>4. LockInv
  BY <1>1, SimulationAssumption DEF SimInit, LockInv, Workers
<1>5. CopyInv
  BY <1>1 DEF CopyInv
<1>6. ResetInv
  BY DEF SimInit, NoReset, ResetInv
<1> QED
  BY <1>2, <1>3, <1>4, <1>5, <1>6 DEF SimInv

LEMMA RequestKeeps ==
  ASSUME SimInv, NEW w \in Workers, Request(w)
  PROVE  SimInv'
<1> USE DEF SimInv
<1>1. /\ work' = [work EXCEPT ![w].pc = "waiting"]
      /\ UNCHANGED <<start, balances, basis, aiEnabled, lock, reset>>
  BY DEF Request, rowVars
<1>2. work' \in [Workers -> Work]
  BY <1>1 DEF RowTypeOK, Work
<1>3. \A v \in Workers : /\ InHand(v)' <=> InHand(v)
                         /\ InHand(v)' => work'[v] = work[v]
  BY <1>1 DEF Request, InHand, RowTypeOK, Work
<1>4. Seed' = Seed
  BY <1>1 DEF Seed
<1>5. CopyInv'
  BY <1>1, <1>3, <1>4 DEF CopyInv
<1> QED
  BY <1>1, <1>2, <1>3, <1>5 DEF LockInv, RowTypeOK, ResetShape, ResetInv

LEMMA LockKeeps ==
  ASSUME SimInv, NEW w \in Workers, Lock(w)
  PROVE  SimInv'
<1> USE DEF SimInv
<1>1. PICK F \in SUBSET Flaky : Load(w, Coins \ F)
  BY DEF Lock
<1> DEFINE k == [pc |-> IF w \in CloseThreads \/ Breach THEN "flatten" ELSE "tick",
                 loaded |-> Seed, cash |-> Seed.cash, held |-> Seed.held, basis |-> basis,
                 priced |-> Coins \ F, todo |-> Coins, dry |-> ~aiEnabled,
                 breach |-> w \in TickWorkers /\ Breach]
<1>2. work' = [work EXCEPT ![w] = k]
  BY <1>1 DEF Load
<1>3. /\ lock' = w /\ work[w].pc = "waiting" /\ lock \in {NoOne, w}
      /\ UNCHANGED <<start, balances, basis, aiEnabled, reset>>
  BY DEF Lock, rowVars
<1>4. Seed \in Balances /\ Seed' = Seed
  BY <1>3, SeedType DEF Seed
<1>5. k \in Work
  BY <1>4 DEF Work, Balances, RowTypeOK
<1>6. /\ k.pc \in {"tick", "flatten", "exits"} /\ k.loaded = Seed /\ k.dry = ~aiEnabled
      /\ k.held = Seed.held
  OBVIOUS
<1> HIDE DEF k
<1>7. \A v \in Workers : work'[v] = IF v = w THEN k ELSE work[v]
  BY <1>2 DEF RowTypeOK
<1>8. \A v \in Workers : InHand(v)' <=> v = w \/ InHand(v)
  BY <1>6, <1>7 DEF InHand
<1>9. \A v \in Workers : ~InHand(v)
  BY <1>3, SimulationAssumption DEF LockInv, InHand, Workers
<1>10. LockInv'
  BY <1>3, <1>8, <1>9 DEF LockInv
<1>11. CopyInv'
  <2>1. \A c \in Coins : Seed.held[c] <= Seed.held[c]
    BY <1>4 DEF Balances
  <2> QED
    BY <1>3, <1>4, <1>6, <1>7, <1>8, <1>9, <2>1 DEF CopyInv
<1>12. RowTypeOK'
  BY <1>2, <1>3, <1>5 DEF RowTypeOK
<1> QED
  BY <1>3, <1>10, <1>11, <1>12 DEF ResetShape, ResetInv

\* What is sold is gone from the copy; nothing else of it changes.
LEMMA SoldOutType ==
  ASSUME NEW k \in Work, NEW c \in Coins
  PROVE  /\ SoldOut(k, c) \in Work
         /\ SoldOut(k, c).pc = k.pc /\ SoldOut(k, c).loaded = k.loaded
         /\ SoldOut(k, c).dry = k.dry
         /\ \A x \in Coins : SoldOut(k, c).held[x] <= k.held[x]
<1> DEFINE h == [k.held EXCEPT ![c] = 0]
           r == [pc |-> k.pc, loaded |-> k.loaded, cash |-> k.cash + k.held[c], held |-> h,
                 basis |-> k.basis \ {c}, priced |-> k.priced, todo |-> k.todo \ {c},
                 dry |-> k.dry, breach |-> k.breach]
<1>1. k.cash + k.held[c] \in Nat /\ k.held \in [Coins -> Nat]
  BY DEF Work
<1>2. h \in [Coins -> Nat] /\ \A x \in Coins : h[x] <= k.held[x]
  BY <1>1
<1>3. SoldOut(k, c) = r
  <2>1. SoldOut(k, c) = [k EXCEPT !.cash = k.cash + k.held[c], !.held = h,
                                  !.basis = k.basis \ {c}, !.todo = k.todo \ {c}]
    BY DEF SoldOut
  <2> HIDE DEF h
  <2> QED
    BY <2>1 DEF Work
<1>4. r \in Work
  <2> HIDE DEF h
  <2> QED
    BY <1>1, <1>2 DEF Work
<1> HIDE DEF h
<1> QED
  BY <1>2, <1>3, <1>4

LEMMA SellKeeps ==
  ASSUME SimInv, NEW w \in Workers, NEW c \in Coins, InHand(w), Trade(w, SoldOut(work[w], c))
  PROVE  SimInv'
<1>1. work[w] \in Work
  BY DEF SimInv, RowTypeOK
<1> DEFINE k == SoldOut(work[w], c)
<1>2. /\ k \in Work /\ k.pc = work[w].pc /\ k.loaded = work[w].loaded /\ k.dry = work[w].dry
      /\ \A x \in Coins : k.held[x] <= work[w].held[x]
  BY <1>1, SoldOutType
<1>3. k.dry => \A x \in Coins : k.held[x] <= Seed.held[x]
  <2> SUFFICES ASSUME k.dry, NEW x \in Coins PROVE k.held[x] <= Seed.held[x]
    OBVIOUS
  <2>1. work[w].held[x] <= Seed.held[x]
    BY <1>2 DEF SimInv, CopyInv
  <2>2. k.held[x] \in Nat /\ work[w].held[x] \in Nat /\ Seed.held[x] \in Nat
    BY <1>1, <1>2, SeedType DEF SimInv, Work, Balances
  <2> HIDE DEF k
  <2> QED
    BY <1>2, <2>1, <2>2
<1>4. k.pc \in {"tick", "flatten", "exits"}
  BY <1>2 DEF InHand
<1> HIDE DEF k
<1> QED
  BY <1>2, <1>3, <1>4, TradeKeeps DEF k

LEMMA BuyKeeps ==
  ASSUME SimInv, NEW w \in Workers, NEW c \in Coins, NEW q \in Sizes, TickBuy(w, c, q)
  PROVE  SimInv'
<1> DEFINE k == work[w]
<1>1. /\ k \in Work /\ k.pc = "tick" /\ ~k.dry /\ q <= k.cash
      /\ Trade(w, Bought(k, c, q))
  BY DEF TickBuy, Affordable, SimInv, RowTypeOK
<1>2. /\ k.cash - q \in Nat /\ [k.held EXCEPT ![c] = k.held[c] + q] \in [Coins -> Nat]
  BY <1>1, SimulationAssumption DEF Work
<1> DEFINE n == k.cash - q
           h == [k.held EXCEPT ![c] = k.held[c] + q]
           t == {x \in k.todo \ {c} : k.held[x] > 0}
           b == [k EXCEPT !.cash = n, !.held = h, !.basis = k.basis \cup {c}, !.todo = t]
<1>3. Bought(k, c, q) = b
  BY DEF Bought
<1>4. t \in SUBSET Coins
  BY <1>1 DEF Work
<1>5. b \in Work /\ b.pc = "tick" /\ b.loaded = k.loaded /\ b.dry = k.dry
  <2> HIDE DEF n, h, t, k
  <2>1. n \in Nat /\ h \in [Coins -> Nat]
    BY <1>2 DEF n, h
  <2> QED
    BY <1>1, <1>4, <2>1 DEF Work
<1> HIDE DEF b
<1> QED
  BY <1>1, <1>3, <1>5, TradeKeeps DEF InHand

LEMMA StartExitsKeeps ==
  ASSUME SimInv, NEW w \in Workers, StartExits(w)
  PROVE  SimInv'
<1> DEFINE k == work[w]
           e == [k EXCEPT !.pc = "exits", !.todo = Coins]
<1>1. k \in Work /\ InHand(w) /\ Trade(w, e)
  BY DEF StartExits, InHand, SimInv, RowTypeOK
<1>2. /\ e \in Work /\ e.pc = "exits" /\ e.loaded = k.loaded /\ e.dry = k.dry
      /\ e.held = k.held
  <2> HIDE DEF k
  <2> QED
    BY <1>1 DEF Work
<1> HIDE DEF e
<1>3. e.dry => \A c \in Coins : e.held[c] <= Seed.held[c]
  BY <1>1, <1>2 DEF SimInv, CopyInv
<1> QED
  BY <1>1, <1>2, <1>3, TradeKeeps

LEMMA CommitKeeps ==
  ASSUME SimInv, NEW w \in Workers, Commit(w)
  PROVE  SimInv'
<1> USE DEF SimInv
<1>1. /\ InHand(w)
      /\ balances' = [cash |-> work[w].cash, held |-> work[w].held]
      /\ basis' = work[w].basis
      /\ work' = [work EXCEPT ![w] = Idle]
      /\ UNCHANGED <<start, aiEnabled>>
      /\ lock' = IF lock = w THEN NoOne ELSE lock
  BY DEF Commit, Persist, Finished, InHand
<1>2. /\ work' \in [Workers -> Work] /\ LockInv' /\ \A v \in Workers : ~InHand(v)'
  BY <1>1, Release
<1>3. balances' \in Balances /\ basis' \in SUBSET Coins
  BY <1>1 DEF RowTypeOK, Work, Balances
<1>4. RowTypeOK' /\ CopyInv'
  BY <1>1, <1>2, <1>3 DEF RowTypeOK, CopyInv
<1>5. ResetShape' /\ ResetInv'
  <2>1. reset' = IF reset.open
                 THEN [reset EXCEPT !.raced = TRUE, !.later = Record(reset.later, Equity(work[w]))]
                 ELSE reset
    BY DEF Commit, Persist
  <2> DEFINE l == Record(reset.later, Equity(work[w]))
  <2> HIDE DEF l
  <2>2. reset' = [open |-> reset.open, start |-> reset.start, balances |-> reset.balances,
                  basis |-> reset.basis, waits |-> reset.waits,
                  raced |-> IF reset.open THEN TRUE ELSE reset.raced,
                  later |-> IF reset.open THEN l ELSE reset.later]
    BY <2>1 DEF ResetShape, l
  <2> QED
    BY <1>1, <2>2 DEF ResetShape, ResetInv
<1> QED
  BY <1>2, <1>4, <1>5

LEMMA GiveUpKeeps ==
  ASSUME SimInv, NEW w \in Workers, GiveUp(w)
  PROVE  SimInv'
<1> USE DEF SimInv
<1>1. /\ work' = [work EXCEPT ![w] = Idle]
      /\ UNCHANGED <<start, balances, basis, aiEnabled, reset>>
      /\ lock' = IF lock = w THEN NoOne ELSE lock
  BY DEF GiveUp, rowVars
<1>2. /\ work' \in [Workers -> Work] /\ LockInv'
      /\ \A v \in Workers : InHand(v)' => InHand(v) /\ work'[v] = work[v]
  BY <1>1, Release
<1>3. Seed' = Seed
  BY <1>1 DEF Seed
<1>4. CopyInv'
  BY <1>1, <1>2, <1>3 DEF CopyInv
<1> QED
  BY <1>1, <1>2, <1>4 DEF RowTypeOK, ResetShape, ResetInv

\* The switch finds no job at work: its UPDATE has waited for the row.
LEMMA SetAiKeeps ==
  ASSUME SimInv, NEW on \in BOOLEAN, SetAi(on)
  PROVE  SimInv'
<1> USE DEF SimInv
<1>1. /\ lock = NoOne /\ aiEnabled' \in BOOLEAN
      /\ UNCHANGED <<start, balances, basis, lock, work, reset>>
  BY DEF SetAi
<1>2. \A w \in Workers : ~InHand(w) /\ ~InHand(w)'
  BY <1>1, SimulationAssumption DEF LockInv, InHand, Workers
<1> QED
  BY <1>1, <1>2 DEF RowTypeOK, LockInv, CopyInv, ResetShape, ResetInv

LEMMA BeginResetKeeps ==
  ASSUME SimInv, NEW a \in Amounts, BeginReset(a)
  PROVE  SimInv'
<1> USE DEF SimInv
<1>1. UNCHANGED <<start, balances, basis, aiEnabled, lock, work>>
  BY DEF BeginReset, rowVars
<1>2. ResetShape' /\ ResetInv'
  BY SimulationAssumption DEF BeginReset, ResetShape, ResetInv, rowVars
<1>3. Seed' = Seed /\ \A w \in Workers : InHand(w)' <=> InHand(w)
  BY <1>1 DEF Seed, InHand
<1> QED
  BY <1>1, <1>2, <1>3 DEF RowTypeOK, LockInv, CopyInv

\* With a job at work only a reset that changes nothing can commit.
LEMMA CommitResetKeeps ==
  ASSUME SimInv, CommitReset
  PROVE  SimInv'
<1> USE DEF SimInv
<1>1. /\ reset.open /\ (reset.waits => lock = NoOne)
      /\ start' = reset.start
      /\ balances' = IF reset.balances THEN NoBalances ELSE balances
      /\ basis' = IF reset.basis THEN {} ELSE basis
      /\ reset' = NoReset
      /\ UNCHANGED <<aiEnabled, lock, work>>
  BY DEF CommitReset
<1>2. ResetShape' /\ ResetInv'
  BY <1>1 DEF NoReset, ResetShape, ResetInv
<1>3. RowTypeOK'
  BY <1>1 DEF RowTypeOK, ResetShape
<1>4. \A w \in Workers : InHand(w)' <=> InHand(w)
  BY <1>1 DEF InHand
<1>5. ASSUME NEW w \in Workers, InHand(w)
      PROVE  Seed' = Seed
  <2>1. ~reset.waits
    BY <1>1, <1>5, SimulationAssumption DEF LockInv, Workers
  <2> QED
    BY <1>1, <2>1 DEF ResetInv, Seed
<1>6. CopyInv'
  BY <1>1, <1>4, <1>5 DEF CopyInv
<1> QED
  BY <1>1, <1>2, <1>3, <1>4, <1>6 DEF LockInv

LEMMA SimStepInv == SimInv /\ [SimNext]_simVars => SimInv'
<1> SUFFICES ASSUME SimInv, [SimNext]_simVars PROVE SimInv'
  OBVIOUS
<1>1. CASE \E w \in Workers : Request(w)
  BY <1>1, RequestKeeps
<1>2. CASE \E w \in Workers : Lock(w)
  BY <1>2, LockKeeps
<1>3. CASE \E w \in Workers : WorkStep(w)
  <2>1. PICK w \in Workers : WorkStep(w)
    BY <1>3
  <2>2. CASE \E c \in Coins : TickSell(w, c) \/ FlattenSell(w, c) \/ ExitSell(w, c)
    BY <2>2, SellKeeps DEF TickSell, FlattenSell, ExitSell, InHand
  <2>3. CASE \E c \in Coins, q \in Sizes : TickBuy(w, c, q)
    BY <2>3, BuyKeeps
  <2>4. CASE StartExits(w)
    BY <2>4, StartExitsKeeps
  <2>5. CASE Commit(w)
    BY <2>5, CommitKeeps
  <2> QED
    BY <2>1, <2>2, <2>3, <2>4, <2>5 DEF WorkStep
<1>4. CASE \E w \in Workers : Abort(w) \/ TickFails(w)
  BY <1>4, GiveUpKeeps DEF Abort, TickFails
<1>5. CASE \E on \in BOOLEAN : SetAi(on)
  BY <1>5, SetAiKeeps
<1>6. CASE \E a \in Amounts : BeginReset(a)
  BY <1>6, BeginResetKeeps
<1>7. CASE CommitReset
  BY <1>7, CommitResetKeeps
<1>8. CASE CooldownEnds \/ UNCHANGED simVars
  <2>1. UNCHANGED <<start, balances, basis, aiEnabled, lock, work, reset>>
    BY <1>8 DEF CooldownEnds, simVars, rowVars
  <2>2. Seed' = Seed /\ \A w \in Workers : InHand(w)' <=> InHand(w)
    BY <2>1 DEF Seed, InHand
  <2> QED
    BY <2>1, <2>2 DEF SimInv, RowTypeOK, LockInv, CopyInv, ResetShape, ResetInv
<1> QED
  BY <1>1, <1>2, <1>3, <1>4, <1>5, <1>6, <1>7, <1>8 DEF SimNext

LEMMA SimInvariant == SimSpec => []SimInv
<1> QED
  BY SimInitInv, SimStepInv, PTL DEF SimSpec

\* A tick and a close-all of one simulation account never undo each other's
\* trades: the row lock keeps what they loaded current until they write it back.
THEOREM NothingLost == SimSpec => []NoLostUpdate
<1>1. SimInv => NoLostUpdate
  BY DEF SimInv, CopyInv, NoLostUpdate
<1> QED
  BY <1>1, SimInvariant, PTL

-----------------------------------------------------------------------------
\* A step taken while AI trading is off raises no holding.
LEMMA OffStep ==
  ASSUME SimInv, [SimNext]_simVars, ~aiEnabled, NEW c \in Coins
  PROVE  Seed'.held[c] <= Seed.held[c]
<1>1. /\ Seed \in Balances /\ Seed.held[c] \in Nat /\ Seed.held[c] <= Seed.held[c]
      /\ Nothing.held[c] = 0
  BY SeedType DEF SimInv, Balances, Nothing
<1>2. CASE UNCHANGED <<start, balances>>
  BY <1>1, <1>2 DEF Seed
<1>3. CASE \E w \in Workers : Commit(w)
  <2>1. PICK w \in Workers : Commit(w)
    BY <1>3
  <2>2. InHand(w) /\ balances' = [cash |-> work[w].cash, held |-> work[w].held]
    BY <2>1 DEF Commit, Persist, Finished, InHand
  <2>3. work[w].held[c] <= Seed.held[c]
    BY <2>2 DEF SimInv, CopyInv
  <2>4. Seed'.held = Nothing.held \/ Seed'.held = work[w].held
    BY <2>2 DEF Seed, Nothing
  <2> QED
    BY <1>1, <2>3, <2>4
<1>4. CASE CommitReset
  <2>1. balances' = NoBalances \/ balances' = balances
    BY <1>4 DEF CommitReset
  <2>2. Seed'.held = Nothing.held \/ Seed'.held = Seed.held
    BY <2>1 DEF Seed, Nothing
  <2> QED
    BY <1>1, <2>2
<1>5. \/ UNCHANGED <<start, balances>>
      \/ \E w \in Workers : Commit(w)
      \/ CommitReset
  BY DEF SimNext, WorkStep, Request, Lock, TickSell, TickBuy, FlattenSell, ExitSell, StartExits,
         Trade, Abort, TickFails, GiveUp, SetAi, BeginReset, CooldownEnds, simVars, rowVars
<1> QED
  BY <1>2, <1>3, <1>4, <1>5

\* After the AI switch or the kill switch no simulated holding grows: a tick that
\* had read the switch as on has committed before it could be turned off.
THEOREM OffIsOff == SimSpec => OffMeansNoBuys
<1>1. SimInv /\ [SimNext]_simVars =>
        [~aiEnabled => \A c \in Coins : Seed'.held[c] <= Seed.held[c]]_simVars
  BY OffStep
<1> QED
  BY <1>1, SimInvariant, PTL DEF SimSpec, OffMeansNoBuys

-----------------------------------------------------------------------------
(* Types: what a job records is worth something, or nothing. *)

LEMMA EquityType ==
  ASSUME NEW k \in Work
  PROVE  Equity(k) \in Nat
<1>1. k.cash \in Nat /\ k.held \in [Coins -> Nat] /\ k.priced \in SUBSET Coins
  BY DEF Work
<1>2. IsFiniteSet(k.priced) /\ \A c \in k.priced : k.held[c] \in Nat
  BY <1>1, SimulationAssumption, FS_Subset
<1>3. SumFunctionOnSet(k.held, k.priced) \in Nat
  BY <1>2, SumNat
<1> QED BY <1>1, <1>3 DEF Equity

LEMMA RecordType ==
  ASSUME NEW s \in Equities, NEW e \in Nat
  PROVE  Record(s, e) \in Equities
BY DEF Record, Equities, Higher

\* The rest of the type invariant, beside the row and the jobs.
Resets == [open : BOOLEAN, start : Nat, balances : BOOLEAN, basis : BOOLEAN,
           waits : BOOLEAN, raced : BOOLEAN, later : Equities]

BesideTheRow ==
  /\ halted \in BOOLEAN /\ lock \in Workers \cup {NoOne}
  /\ snapshots \in Equities /\ failures \in Nat /\ reset \in Resets

LEMMA CommitTypes ==
  ASSUME SimInv, BesideTheRow, NEW w \in Workers, Commit(w)
  PROVE  BesideTheRow'
<1> DEFINE e == Equity(work[w])
           later == Record(reset.later, e)
<1>1. e \in Nat
  BY EquityType DEF SimInv, RowTypeOK
<1>2. /\ snapshots' = Record(snapshots, e) /\ failures' = failures
      /\ halted' = (halted \/ work[w].breach) /\ lock' = IF lock = w THEN NoOne ELSE lock
      /\ reset' = IF reset.open THEN [reset EXCEPT !.raced = TRUE, !.later = later] ELSE reset
  BY DEF Commit, Persist
<1>3. halted' \in BOOLEAN
  BY <1>2 DEF BesideTheRow
<1>4. later \in Equities
  BY <1>1, RecordType DEF BesideTheRow, Resets
<1> HIDE DEF later
<1>5. reset' \in Resets
  BY <1>2, <1>4 DEF BesideTheRow, Resets
<1>6. snapshots' \in Equities
  BY <1>1, <1>2, RecordType DEF BesideTheRow
<1> QED BY <1>2, <1>3, <1>5, <1>6 DEF BesideTheRow

LEMMA GiveUpTypes ==
  ASSUME SimInv, BesideTheRow, NEW w \in Workers, Abort(w) \/ TickFails(w)
  PROVE  BesideTheRow'
<1>1. halted' = halted \/ halted' = (halted \/ work[w].breach)
  BY DEF Abort, TickFails
<1>2. halted' \in BOOLEAN
  BY <1>1 DEF BesideTheRow
<1>3. UNCHANGED <<snapshots, reset>> /\ failures' = failures + 1
      /\ lock' = IF lock = w THEN NoOne ELSE lock
  BY DEF Abort, TickFails, GiveUp
<1> QED BY <1>2, <1>3 DEF BesideTheRow

LEMMA ResetTypes ==
  ASSUME SimInv, BesideTheRow, (\E a \in Amounts : BeginReset(a)) \/ CommitReset
  PROVE  BesideTheRow'
<1>1. NoEquity \in Equities
  BY DEF NoEquity, Equities
<1>2. CASE \E a \in Amounts : BeginReset(a)
  <2>1. PICK a \in Amounts : BeginReset(a)
    BY <1>2
  <2>2. a \in Nat
    BY SimulationAssumption
  <2> DEFINE written == start # a \/ balances # NoBalances \/ basis # {}
  <2>3. /\ reset' = [open |-> TRUE, start |-> a, balances |-> balances # NoBalances,
                     basis |-> basis # {}, raced |-> FALSE, later |-> NoEquity,
                     waits |-> written]
        /\ UNCHANGED <<lock, snapshots, halted, failures>>
    BY <2>1 DEF BeginReset
  <2>4. written \in BOOLEAN
    OBVIOUS
  <2> HIDE DEF written
  <2>5. reset' \in Resets
    BY <1>1, <2>2, <2>3, <2>4 DEF Resets
  <2> QED BY <2>3, <2>5 DEF BesideTheRow
<1>3. CASE CommitReset
  <2> DEFINE s == Record(reset.later, reset.start)
             l == IF reset.raced THEN reset.later.latest ELSE s.latest
  <2>1. /\ snapshots' = [s EXCEPT !.latest = l] /\ reset' = NoReset
        /\ UNCHANGED <<lock, halted, failures>>
    BY <1>3 DEF CommitReset
  <2>2. s \in Equities /\ reset.later \in Equities
    BY RecordType DEF BesideTheRow, Resets
  <2>3. l \in Nat
    BY <2>2 DEF Equities
  <2> HIDE DEF s, l
  <2>4. snapshots' \in Equities
    BY <2>1, <2>2, <2>3 DEF Equities
  <2>5. NoReset \in Resets
    BY <1>1 DEF NoReset, Resets
  <2> QED BY <2>1, <2>4, <2>5 DEF BesideTheRow
<1> QED BY <1>2, <1>3

LEMMA BesideStep ==
  ASSUME SimInv, BesideTheRow, [SimNext]_simVars
  PROVE  BesideTheRow'
<1>1. CASE \E w \in Workers : Lock(w)
  BY <1>1 DEF Lock, BesideTheRow
<1>2. CASE UNCHANGED <<lock, snapshots, halted, reset, failures>>
  BY <1>2 DEF BesideTheRow
<1>3. CASE CooldownEnds
  BY <1>3 DEF CooldownEnds, BesideTheRow, Equities
<1>4. \/ UNCHANGED <<lock, snapshots, halted, reset, failures>>
      \/ \E w \in Workers : Lock(w) \/ Commit(w) \/ Abort(w) \/ TickFails(w)
      \/ (\E a \in Amounts : BeginReset(a)) \/ CommitReset \/ CooldownEnds
  BY DEF SimNext, WorkStep, Request, TickSell, TickBuy, FlattenSell, ExitSell, StartExits,
         Trade, SetAi, simVars
<1> QED BY <1>1, <1>2, <1>3, <1>4, CommitTypes, GiveUpTypes, ResetTypes

\* Whatever jobs, resets and failures follow each other, no balance is negative and
\* every equity recorded is that of a real portfolio.
THEOREM SimulationTypes == SimSpec => []SimTypeOK
<1>1. ASSUME SimInit PROVE BesideTheRow
  <2>1. NoEquity \in Equities /\ NoReset \in Resets
    BY DEF NoEquity, Equities, NoReset, Resets
  <2>2. start \in Nat
    BY <1>1, SimulationAssumption DEF SimInit
  <2> QED BY <1>1, <2>1, <2>2 DEF SimInit, BesideTheRow, Equities
<1>2. SimInv /\ BesideTheRow /\ [SimNext]_simVars => BesideTheRow'
  BY BesideStep
<1>3. SimInv /\ BesideTheRow => SimTypeOK
  BY DEF SimInv, RowTypeOK, BesideTheRow, Resets, SimTypeOK
<1> QED BY <1>1, <1>2, <1>3, SimInvariant, PTL DEF SimSpec
=============================================================================
