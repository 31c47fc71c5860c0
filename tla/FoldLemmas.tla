------------------------------ MODULE FoldLemmas ------------------------------
(***************************************************************************)
(* What the minimum, the maximum and the sum over a finite set are.  Each   *)
(* fact about every finite set is proved by looking at a smallest set that  *)
(* would contradict it.                                                     *)
(***************************************************************************)
EXTENDS Integers, FiniteSetsExt, FiniteSetTheorems, TLAPS

\* A nonempty collection of subsets of a finite set has a smallest one.
LEMMA MinimalSet ==
  ASSUME NEW S, IsFiniteSet(S), NEW T \in SUBSET SUBSET S, T # {}
  PROVE  \E x \in T : \A y \in T : y \subseteq x => y = x
<1>1. IsWellFoundedOn(StrictSubsetOrdering(S), FiniteSubsetsOf(S))
  BY FS_StrictSubsetOrderingWellFounded
<1>2. FiniteSubsetsOf(S) = SUBSET S
  BY FS_FiniteSubsetsOfFinite
<1>3. \E x \in T : \A y \in T : ~(<<y, x>> \in StrictSubsetOrdering(S))
  BY <1>1, <1>2, WFMin
<1> QED BY <1>3 DEF StrictSubsetOrdering

-----------------------------------------------------------------------------
(* Minimum and maximum *)

LEMMA MaxExists ==
  ASSUME NEW S, S \subseteq Int, IsFiniteSet(S), S # {}
  PROVE  \E x \in S : \A y \in S : x >= y
<1> DEFINE T == {s \in SUBSET S : s # {} /\ ~\E x \in s : \A y \in s : x >= y}
<1>1. CASE T = {}
  BY <1>1
<1>2. CASE T # {}
  <2>1. PICK s \in T : \A t \in T : t \subseteq s => t = s
    <3>1. T \in SUBSET SUBSET S
      OBVIOUS
    <3> HIDE DEF T
    <3> QED BY ONLY <1>2, <3>1, IsFiniteSet(S), MinimalSet
  <2>2. PICK x \in s : TRUE
    BY <2>1
  <2>3. CASE s = {x}
    BY <2>1, <2>3
  <2>4. CASE s # {x}
    <3>1. s \ {x} \notin T /\ s \ {x} # {} /\ s \ {x} \in SUBSET S
      BY <2>1, <2>2, <2>4
    <3>2. PICK z \in s \ {x} : \A y \in s \ {x} : z >= y
      BY <3>1
    <3>3. x \in Int /\ z \in Int /\ s \subseteq Int
      BY <2>1, <2>2
    <3>4. CASE z >= x
      BY <2>1, <3>2, <3>4
    <3>5. CASE ~(z >= x)
      BY <2>1, <2>2, <3>2, <3>3, <3>5
    <3> QED BY <3>4, <3>5
  <2> QED BY <2>3, <2>4
<1> QED BY <1>1, <1>2

LEMMA MaxIs ==
  ASSUME NEW S \in SUBSET Int, IsFiniteSet(S), S # {}
  PROVE  Max(S) \in S /\ \A y \in S : Max(S) >= y
BY MaxExists DEF Max

LEMMA MinIs ==
  ASSUME NEW S \in SUBSET Int, IsFiniteSet(S), S # {}
  PROVE  Min(S) \in S /\ \A y \in S : Min(S) <= y
<1> DEFINE N == {0 - y : y \in S}
<1>1. N \in SUBSET Int /\ N # {} /\ IsFiniteSet(N)
  <2> DEFINE minus == [y \in S |-> 0 - y]
  <2>1. minus \in Surjection(S, N)
    BY DEF Surjection
  <2>2. IsFiniteSet(N)
    <3> HIDE DEF N, minus
    <3> QED BY <2>1, FS_Surjection
  <2>3. N \in SUBSET Int
    OBVIOUS
  <2>4. N # {}
    <3>1. PICK y \in S : TRUE
      OBVIOUS
    <3>2. 0 - y \in N
      BY <3>1
    <3> QED BY <3>2
  <2> QED BY <2>2, <2>3, <2>4
<1>2. PICK m \in N : \A n \in N : m >= n
  <2> HIDE DEF N
  <2> QED BY <1>1, MaxExists
<1>3. PICK x \in S : m = 0 - x
  BY <1>2
<1>4. \A y \in S : x <= y
  BY <1>2, <1>3
<1> QED BY <1>4 DEF Min

-----------------------------------------------------------------------------
(* Sums.  SumFunctionOnSet takes the elements in the order of CHOOSE. *)

First(s) == CHOOSE x \in s : TRUE

\* g is the function that SumFunctionOnSet defines on the subsets of S.
Body(f, S, g) ==
  [s \in SUBSET S |-> IF s = {} THEN 0 ELSE f[First(s)] + g[s \ {First(s)}]]

LEMMA SumIsChoice ==
  ASSUME NEW f, NEW S
  PROVE  SumFunctionOnSet(f, S) = (CHOOSE g : g = Body(f, S, g))[S]
BY DEF SumFunctionOnSet, FoldFunctionOnSet, MapThenFoldSet, Body, First

LEMMA FirstIn ==
  ASSUME NEW s, s # {}
  PROVE  First(s) \in s
BY DEF First

LEMMA BodyUnique ==
  ASSUME NEW S, IsFiniteSet(S), NEW f, NEW g, NEW h, g = Body(f, S, g), h = Body(f, S, h),
         NEW s \in SUBSET S
  PROVE  g[s] = h[s]
<1> DEFINE T == {t \in SUBSET S : g[t] # h[t]}
<1>1. CASE T = {}
  BY <1>1
<1>2. CASE T # {}
  <2>1. PICK t \in T : \A u \in T : u \subseteq t => u = t
    <3>1. T \in SUBSET SUBSET S
      OBVIOUS
    <3> HIDE DEF T
    <3> QED BY <1>2, <3>1, MinimalSet
  <2>2. /\ g[t] = IF t = {} THEN 0 ELSE f[First(t)] + g[t \ {First(t)}]
        /\ h[t] = IF t = {} THEN 0 ELSE f[First(t)] + h[t \ {First(t)}]
    BY <2>1 DEF Body
  <2>3. t # {} /\ First(t) \in t
    BY <2>1, <2>2, FirstIn
  <2>4. t \ {First(t)} \in SUBSET S /\ t \ {First(t)} \notin T
    BY <2>1, <2>3
  <2> QED BY <2>1, <2>2, <2>3, <2>4
<1> QED BY <1>1, <1>2

\* The equation of the recursive definition holds.
SumEquation(f, s) ==
  SumFunctionOnSet(f, s) =
    IF s = {} THEN 0 ELSE f[First(s)] + SumFunctionOnSet(f, s \ {First(s)})

LEMMA SumByFirst ==
  ASSUME NEW S, IsFiniteSet(S), NEW f
  PROVE  SumEquation(f, S)
<1> DEFINE T == {s \in SUBSET S : ~SumEquation(f, s)}
<1>1. CASE T = {}
  BY <1>1
<1>2. CASE T # {}
  <2>1. PICK s \in T : \A t \in T : t \subseteq s => t = s
    <3>1. T \in SUBSET SUBSET S
      OBVIOUS
    <3> HIDE DEF T
    <3> QED BY <1>2, <3>1, MinimalSet
  <2>2. \A t \in SUBSET s : t # s => SumEquation(f, t)
    BY <2>1
  <2> DEFINE below == [t \in SUBSET s |-> IF t = {} THEN 0
                         ELSE f[First(t)] + SumFunctionOnSet(f, t \ {First(t)})]
  <2>3. below = Body(f, s, below)
    <3>1. ASSUME NEW t \in SUBSET s, t # {}
          PROVE  below[t \ {First(t)}] = SumFunctionOnSet(f, t \ {First(t)})
      <4>1. t \ {First(t)} \in SUBSET s /\ t \ {First(t)} # s
        BY <3>1, FirstIn
      <4> QED BY <2>2, <4>1 DEF SumEquation
    <3> QED BY <3>1 DEF Body
  <2> DEFINE chosen == CHOOSE g : g = Body(f, s, g)
  <2>4. chosen = Body(f, s, chosen)
    BY <2>3
  <2>5. IsFiniteSet(s)
    BY <2>1, FS_Subset
  <2>6. chosen[s] = below[s]
    <3> HIDE DEF chosen, below
    <3> QED BY <2>3, <2>4, <2>5, BodyUnique
  <2>7. SumFunctionOnSet(f, s) = below[s]
    BY <2>6, SumIsChoice
  <2>8. SumEquation(f, s)
    BY <2>7 DEF SumEquation
  <2> QED BY <2>1, <2>8
<1> QED BY <1>1, <1>2

LEMMA SumEmpty ==
  ASSUME NEW f
  PROVE  SumFunctionOnSet(f, {}) = 0
BY SumByFirst, FS_EmptySet DEF SumEquation

\* A sum of integers is an integer, one of naturals a natural.
LEMMA SumInt ==
  ASSUME NEW S, IsFiniteSet(S), NEW f, \A x \in S : f[x] \in Int
  PROVE  SumFunctionOnSet(f, S) \in Int
<1> DEFINE T == {s \in SUBSET S : SumFunctionOnSet(f, s) \notin Int}
<1>1. CASE T = {}
  BY <1>1
<1>2. CASE T # {}
  <2>1. PICK s \in T : \A t \in T : t \subseteq s => t = s
    <3>1. T \in SUBSET SUBSET S
      OBVIOUS
    <3> HIDE DEF T
    <3> QED BY <1>2, <3>1, MinimalSet
  <2>2. IsFiniteSet(s) /\ SumEquation(f, s)
    BY <2>1, FS_Subset, SumByFirst
  <2>3. s # {} /\ First(s) \in s
    BY <2>1, <2>2, FirstIn DEF SumEquation
  <2>4. SumFunctionOnSet(f, s \ {First(s)}) \in Int /\ f[First(s)] \in Int
    BY <2>1, <2>3
  <2> QED BY <2>1, <2>2, <2>3, <2>4 DEF SumEquation
<1> QED BY <1>1, <1>2

\* Any element may be taken first.
LEMMA SumRemove ==
  ASSUME NEW S, IsFiniteSet(S), NEW f, \A x \in S : f[x] \in Int, NEW y \in S
  PROVE  SumFunctionOnSet(f, S) = f[y] + SumFunctionOnSet(f, S \ {y})
<1> DEFINE Sum(s) == SumFunctionOnSet(f, s)
           T == {s \in SUBSET S : \E x \in s : Sum(s) # f[x] + Sum(s \ {x})}
<1>1. CASE T = {}
  BY <1>1
<1>2. CASE T # {}
  <2>1. PICK s \in T : \A t \in T : t \subseteq s => t = s
    <3>1. T \in SUBSET SUBSET S
      OBVIOUS
    <3> HIDE DEF T
    <3> QED BY <1>2, <3>1, MinimalSet
  <2>2. PICK z \in s : Sum(s) # f[z] + Sum(s \ {z})
    BY <2>1
  <2> DEFINE x == First(s)
  <2>3. IsFiniteSet(s) /\ SumEquation(f, s) /\ x \in s
    BY <2>1, <2>2, FS_Subset, SumByFirst, FirstIn
  <2>4. Sum(s) = f[x] + Sum(s \ {x}) /\ x # z
    BY <2>2, <2>3 DEF SumEquation
  <2>5. s \ {x} \notin T /\ s \ {z} \notin T /\ s \ {x} \in SUBSET S /\ s \ {z} \in SUBSET S
    BY <2>1, <2>2, <2>3
  <2>6. Sum(s \ {x}) = f[z] + Sum((s \ {x}) \ {z}) /\ Sum(s \ {z}) = f[x] + Sum((s \ {z}) \ {x})
    <3>1. z \in s \ {x} /\ x \in s \ {z}
      BY <2>2, <2>3, <2>4
    <3> HIDE DEF x, Sum
    <3> QED BY <2>5, <3>1
  <2>7. (s \ {x}) \ {z} = (s \ {z}) \ {x}
    OBVIOUS
  <2>8. f[x] \in Int /\ f[z] \in Int /\ Sum((s \ {z}) \ {x}) \in Int
    <3>1. IsFiniteSet((s \ {z}) \ {x})
      BY <2>3, FS_Subset
    <3> QED BY <2>1, <2>2, <2>3, <3>1, SumInt
  <2>9. FALSE
    <3> DEFINE rest == Sum((s \ {z}) \ {x})
    <3>1. Sum((s \ {x}) \ {z}) = rest
      BY <2>7
    <3>2. Sum(s) = f[x] + (f[z] + rest) /\ Sum(s \ {z}) = f[x] + rest
      BY <2>4, <2>6, <3>1
    <3>3. rest \in Int
      BY <2>8
    <3> HIDE DEF x, Sum, rest
    <3> QED BY <2>2, <2>8, <3>2, <3>3
  <2> QED BY <2>9
<1> QED BY <1>1, <1>2

\* A sum grows with its terms.
LEMMA SumMonotone ==
  ASSUME NEW S, IsFiniteSet(S), NEW f, NEW g,
         \A x \in S : f[x] \in Int /\ g[x] \in Int /\ f[x] <= g[x]
  PROVE  SumFunctionOnSet(f, S) <= SumFunctionOnSet(g, S)
<1> DEFINE T == {s \in SUBSET S : ~(SumFunctionOnSet(f, s) <= SumFunctionOnSet(g, s))}
<1>1. CASE T = {}
  BY <1>1
<1>2. CASE T # {}
  <2>1. PICK s \in T : \A t \in T : t \subseteq s => t = s
    <3>1. T \in SUBSET SUBSET S
      OBVIOUS
    <3> HIDE DEF T
    <3> QED BY <1>2, <3>1, MinimalSet
  <2> DEFINE x == First(s)
             F == SumFunctionOnSet(f, s \ {x})
             G == SumFunctionOnSet(g, s \ {x})
  <2>2. IsFiniteSet(s) /\ SumEquation(f, s) /\ SumEquation(g, s)
    BY <2>1, FS_Subset, SumByFirst
  <2>3. s # {} /\ x \in s
    <3>1. s # {}
      BY <2>1, SumEmpty
    <3> QED BY <3>1, FirstIn
  <2>4. SumFunctionOnSet(f, s) = f[x] + F /\ SumFunctionOnSet(g, s) = g[x] + G
    BY <2>2, <2>3 DEF SumEquation
  <2>5. F <= G
    BY <2>1, <2>3
  <2>6. F \in Int /\ G \in Int
    <3>1. IsFiniteSet(s \ {x}) /\ s \ {x} \subseteq S
      BY <2>1, <2>2, FS_Subset
    <3> HIDE DEF x
    <3> QED BY <3>1, SumInt
  <2>7. f[x] \in Int /\ g[x] \in Int /\ f[x] <= g[x]
    BY <2>1, <2>3
  <2>8. SumFunctionOnSet(f, s) <= SumFunctionOnSet(g, s)
    <3> HIDE DEF x, F, G
    <3> QED BY <2>4, <2>5, <2>6, <2>7
  <2> QED BY <2>1, <2>8
<1> QED BY <1>1, <1>2

\* Functions that agree on a set have the same sum over it.
LEMMA SumAgree ==
  ASSUME NEW S, IsFiniteSet(S), NEW f, NEW g, \A x \in S : f[x] \in Int /\ f[x] = g[x]
  PROVE  SumFunctionOnSet(f, S) = SumFunctionOnSet(g, S)
<1>1. SumFunctionOnSet(f, S) <= SumFunctionOnSet(g, S)
  BY SumMonotone
<1>2. SumFunctionOnSet(g, S) <= SumFunctionOnSet(f, S)
  BY SumMonotone
<1>3. SumFunctionOnSet(f, S) \in Int /\ SumFunctionOnSet(g, S) \in Int
  BY SumInt
<1> QED BY <1>1, <1>2, <1>3

LEMMA SumNat ==
  ASSUME NEW S, IsFiniteSet(S), NEW f, \A x \in S : f[x] \in Nat
  PROVE  SumFunctionOnSet(f, S) \in Nat
<1> DEFINE T == {s \in SUBSET S : SumFunctionOnSet(f, s) \notin Nat}
<1>1. CASE T = {}
  BY <1>1
<1>2. CASE T # {}
  <2>1. PICK s \in T : \A t \in T : t \subseteq s => t = s
    <3>1. T \in SUBSET SUBSET S
      OBVIOUS
    <3> HIDE DEF T
    <3> QED BY <1>2, <3>1, MinimalSet
  <2>2. IsFiniteSet(s) /\ SumEquation(f, s)
    BY <2>1, FS_Subset, SumByFirst
  <2>3. s # {} /\ First(s) \in s
    BY <2>1, <2>2, FirstIn DEF SumEquation
  <2>4. SumFunctionOnSet(f, s \ {First(s)}) \in Nat /\ f[First(s)] \in Nat
    BY <2>1, <2>3
  <2> QED BY <2>1, <2>2, <2>3, <2>4 DEF SumEquation
<1> QED BY <1>1, <1>2

\* One term changes: so does the sum, by as much.
LEMMA SumUpdate ==
  ASSUME NEW S, IsFiniteSet(S), NEW f \in [S -> Int], NEW y \in S, NEW v \in Int
  PROVE  SumFunctionOnSet([f EXCEPT ![y] = v], S) = SumFunctionOnSet(f, S) - f[y] + v
<1> DEFINE g == [f EXCEPT ![y] = v]
           F == SumFunctionOnSet(f, S \ {y})
           G == SumFunctionOnSet(g, S \ {y})
<1>1. g \in [S -> Int] /\ g[y] = v /\ \A x \in S \ {y} : f[x] \in Int /\ f[x] = g[x]
  OBVIOUS
<1> HIDE DEF g
<1>2. IsFiniteSet(S \ {y})
  BY FS_Subset
<1>3. F = G /\ F \in Int
  BY <1>1, <1>2, SumAgree, SumInt
<1>4. SumFunctionOnSet(f, S) = f[y] + F /\ SumFunctionOnSet(g, S) = v + G
  BY <1>1, SumRemove
<1>5. f[y] \in Int
  OBVIOUS
<1>6. SumFunctionOnSet(g, S) = SumFunctionOnSet(f, S) - f[y] + v
  <2> HIDE DEF F, G
  <2> QED BY <1>3, <1>4, <1>5
<1> QED BY <1>6 DEF g
=============================================================================
