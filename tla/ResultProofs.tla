---------------------------- MODULE ResultProofs ----------------------------
(***************************************************************************)
(* Proof that the result of a backtest balances, over any history.         *)
(*                                                                         *)
(* Sums over sets of rows are defined by recursion; what is needed of them *)
(* comes first: that they exist, and what an element adds.  The induction  *)
(* is on finite sets, always in the same form: of all sets for which a     *)
(* claim fails one is minimal, and it fails for none.                      *)
(***************************************************************************)
EXTENDS BacktestProofs

-----------------------------------------------------------------------------
(* Sums *)

Pick(s) == CHOOSE x \in s : TRUE

\* g gives the sum of the values of f over every subset of S.
Sums(g, f, S) ==
    g = [s \in SUBSET S |-> IF s = {} THEN 0 ELSE f[Pick(s)] + g[s \ {Pick(s)}]]

Total(f, S) == (CHOOSE g : Sums(g, f, S))[S]

\* Of some subsets of a finite set, one is minimal.
LEMMA MinimalSubset ==
    ASSUME NEW S, IsFiniteSet(S), NEW sets \in SUBSET SUBSET S, sets # {}
    PROVE  \E T \in sets : \A U \in sets : U \subseteq T => U = T
<1>1. sets \subseteq FiniteSubsetsOf(S)
  BY FS_FiniteSubsetsOfFinite
<1>2. IsWellFoundedOn(StrictSubsetOrdering(S), FiniteSubsetsOf(S))
  BY FS_StrictSubsetOrderingWellFounded
<1>3. PICK T \in sets : \A U \in sets : ~(<<U, T>> \in StrictSubsetOrdering(S))
  BY <1>1, <1>2, WFMin
<1>4. QED
  BY <1>3 DEF StrictSubsetOrdering

LEMMA SumsAt ==
    ASSUME NEW g, NEW f, NEW S, Sums(g, f, S)
    PROVE  /\ g[{}] = 0
           /\ \A s \in SUBSET S : s # {} =>
                 /\ Pick(s) \in s /\ s \ {Pick(s)} \in SUBSET S
                 /\ s \ {Pick(s)} # s /\ s \ {Pick(s)} \subseteq s
                 /\ g[s] = f[Pick(s)] + g[s \ {Pick(s)}]
<1>1. g[{}] = 0
  BY DEF Sums
<1>2. ASSUME NEW s \in SUBSET S, s # {}
      PROVE  /\ Pick(s) \in s /\ s \ {Pick(s)} \in SUBSET S
             /\ s \ {Pick(s)} # s /\ s \ {Pick(s)} \subseteq s
             /\ g[s] = f[Pick(s)] + g[s \ {Pick(s)}]
  <2>1. Pick(s) \in s
    BY <1>2 DEF Pick
  <2>2. g[s] = f[Pick(s)] + g[s \ {Pick(s)}]
    BY <1>2 DEF Sums
  <2>3. QED
    BY <2>1, <2>2
<1>3. QED
  BY <1>1, <1>2

\* Sums agree where the values do.
LEMMA SumsAgree ==
    ASSUME NEW S, NEW T, NEW W, IsFiniteSet(W), W \subseteq S, W \subseteq T,
           NEW f, NEW h, \A x \in W : f[x] = h[x],
           NEW g, Sums(g, f, S), NEW k, Sums(k, h, T)
    PROVE  \A s \in SUBSET W : g[s] = k[s]
<1> DEFINE bad == {s \in SUBSET W : g[s] # k[s]}
<1>1. SUFFICES ASSUME bad # {} PROVE FALSE
  OBVIOUS
<1>2. PICK s \in bad : \A U \in bad : U \subseteq s => U = s
  <2>1. bad \in SUBSET SUBSET W
    OBVIOUS
  <2> HIDE DEF bad
  <2>2. QED
    BY <1>1, <2>1, MinimalSubset
<1>3. s \in SUBSET S /\ s \in SUBSET T /\ s \in SUBSET W /\ g[s] # k[s]
  OBVIOUS
<1>4. s # {}
  BY <1>3, SumsAt
<1> DEFINE x == Pick(s)
           rest == s \ {x}
<1>5. /\ x \in s /\ rest # s /\ rest \subseteq s
      /\ g[s] = f[x] + g[rest] /\ k[s] = h[x] + k[rest]
  BY <1>3, <1>4, SumsAt
<1> HIDE DEF x, rest
<1>6. g[rest] = k[rest]
  BY <1>2, <1>3, <1>5
<1>7. f[x] = h[x]
  BY <1>3, <1>5
<1>8. QED
  BY <1>3, <1>5, <1>6, <1>7

\* Sums exist: those of the smaller sets are put together.
LEMMA SumsExist ==
    ASSUME NEW S, IsFiniteSet(S), NEW f
    PROVE  \E g : Sums(g, f, S)
<1> DEFINE bad == {s \in SUBSET S : ~\E g : Sums(g, f, s)}
<1>1. SUFFICES ASSUME bad # {} PROVE FALSE
  OBVIOUS
<1>2. PICK T \in bad : \A U \in bad : U \subseteq T => U = T
  <2>1. bad \in SUBSET SUBSET S
    OBVIOUS
  <2> HIDE DEF bad
  <2>2. QED
    BY <1>1, <2>1, MinimalSubset
<1> DEFINE G(s) == CHOOSE g : Sums(g, f, s)
           V(s) == G(s)[s]
           g == [s \in SUBSET T |-> IF s = {} THEN 0 ELSE f[Pick(s)] + V(s \ {Pick(s)})]
<1>3. T \in SUBSET S /\ ~\E h : Sums(h, f, T)
  OBVIOUS
<1>4. ASSUME NEW s \in SUBSET T, s # T
      PROVE  Sums(G(s), f, s)
  BY <1>2, <1>3, <1>4
<1> HIDE DEF G, bad
<1>5. ASSUME NEW s \in SUBSET T, s # T
      PROVE  g[s] = V(s)
  <2>1. CASE s = {}
    BY <1>4, <1>5, <2>1, SumsAt
  <2>2. CASE s # {}
    <3> DEFINE rest == s \ {Pick(s)}
    <3>1. Sums(G(s), f, s) /\ s \in SUBSET s
      BY <1>4, <1>5
    <3>2. /\ Pick(s) \in s /\ rest \in SUBSET s /\ rest \in SUBSET T /\ rest # T
          /\ V(s) = f[Pick(s)] + G(s)[rest]
      BY <1>5, <2>2, <3>1, SumsAt
    <3>3. Sums(G(rest), f, rest)
      BY <1>4, <3>2
    <3>4. IsFiniteSet(rest)
      BY <1>3, <3>2, FS_Subset
    <3>5. G(s)[rest] = G(rest)[rest]
      BY <3>1, <3>2, <3>3, <3>4, SumsAgree
    <3>6. QED
      BY <1>5, <2>2, <3>2, <3>5
  <2>3. QED
    BY <2>1, <2>2
<1>6. ASSUME NEW s \in SUBSET T, s # {}
      PROVE  V(s \ {Pick(s)}) = g[s \ {Pick(s)}]
  <2>1. Pick(s) \in s
    BY <1>6 DEF Pick
  <2>2. s \ {Pick(s)} \in SUBSET T /\ s \ {Pick(s)} # T
    BY <2>1
  <2>3. QED
    BY <1>5, <2>2
<1>7. g = [s \in SUBSET T |-> IF s = {} THEN 0 ELSE f[Pick(s)] + g[s \ {Pick(s)}]]
  <2> DEFINE right == [s \in SUBSET T |-> IF s = {} THEN 0 ELSE f[Pick(s)] + g[s \ {Pick(s)}]]
  <2>1. \A s \in SUBSET T : g[s] = right[s]
    BY <1>6
  <2>2. QED
    BY <2>1
<1>8. Sums(g, f, T)
  BY <1>7 DEF Sums
<1>9. QED
  BY <1>3, <1>8

LEMMA TotalIsSum ==
    ASSUME NEW S, IsFiniteSet(S), NEW f
    PROVE  \E g : Sums(g, f, S) /\ Total(f, S) = g[S]
BY SumsExist DEF Total

\* The sum over a subset is that of the whole's sums.
LEMMA TotalOfSubset ==
    ASSUME NEW S, IsFiniteSet(S), NEW f, NEW g, Sums(g, f, S), NEW T \in SUBSET S
    PROVE  Total(f, T) = g[T]
<1>1. IsFiniteSet(T)
  BY FS_Subset
<1>2. PICK k : Sums(k, f, T) /\ Total(f, T) = k[T]
  BY <1>1, TotalIsSum
<1>3. T \subseteq S /\ T \subseteq T /\ \A x \in T : f[x] = f[x]
  OBVIOUS
<1>4. \A s \in SUBSET T : g[s] = k[s]
  BY <1>1, <1>2, <1>3, SumsAgree
<1>5. QED
  BY <1>2, <1>4


LEMMA TotalEmpty ==
    ASSUME NEW f
    PROVE  Total(f, {}) = 0
<1>1. PICK g : Sums(g, f, {}) /\ Total(f, {}) = g[{}]
  BY TotalIsSum, FS_EmptySet
<1>2. QED
  BY <1>1, SumsAt

\* A sum depends on the values over the set only.
LEMMA TotalSame ==
    ASSUME NEW S, IsFiniteSet(S), NEW f, NEW h, \A x \in S : f[x] = h[x]
    PROVE  Total(f, S) = Total(h, S)
<1>1. PICK g : Sums(g, f, S) /\ Total(f, S) = g[S]
  BY TotalIsSum
<1>2. PICK k : Sums(k, h, S) /\ Total(h, S) = k[S]
  BY TotalIsSum
<1>3. S \subseteq S
  OBVIOUS
<1>4. \A s \in SUBSET S : g[s] = k[s]
  BY <1>1, <1>2, <1>3, SumsAgree
<1>5. QED
  BY <1>1, <1>2, <1>4

\* Sums of whole numbers are whole, of natural numbers natural.
LEMMA TotalType ==
    ASSUME NEW S, IsFiniteSet(S), NEW f, NEW R \in {Nat, Int}, \A x \in S : f[x] \in R
    PROVE  Total(f, S) \in R
<1>1. PICK g : Sums(g, f, S) /\ Total(f, S) = g[S]
  BY TotalIsSum
<1> DEFINE bad == {s \in SUBSET S : g[s] \notin R}
<1>2. SUFFICES ASSUME bad # {} PROVE FALSE
  BY <1>1
<1>3. PICK s \in bad : \A U \in bad : U \subseteq s => U = s
  <2>1. bad \in SUBSET SUBSET S
    OBVIOUS
  <2> HIDE DEF bad
  <2>2. QED
    BY <1>2, <2>1, MinimalSubset
<1>4. s \in SUBSET S /\ g[s] \notin R
  OBVIOUS
<1>5. s # {}
  <2>1. g[{}] = 0 /\ 0 \in R
    BY <1>1, SumsAt
  <2>2. QED
    BY <1>4, <2>1
<1> DEFINE x == Pick(s)
           rest == s \ {x}
<1>6. x \in s /\ rest \in SUBSET S /\ rest # s /\ rest \subseteq s /\ g[s] = f[x] + g[rest]
  BY <1>1, <1>4, <1>5, SumsAt
<1> HIDE DEF x, rest
<1>7. g[rest] \in R /\ f[x] \in R
  BY <1>3, <1>4, <1>6
<1>8. \A m, n \in R : m + n \in R
  OBVIOUS
<1>9. QED
  BY <1>4, <1>6, <1>7, <1>8

\* An element more adds its value, whatever order the sum is taken in.
LEMMA TotalAdd ==
    ASSUME NEW S, IsFiniteSet(S), NEW y, y \notin S, NEW f, \A x \in S \cup {y} : f[x] \in Int
    PROVE  Total(f, S \cup {y}) = Total(f, S) + f[y]
<1> DEFINE all == S \cup {y}
<1>1. IsFiniteSet(all)
  BY FS_AddElement
<1> HIDE DEF all
<1>2. PICK g : Sums(g, f, all) /\ Total(f, all) = g[all]
  BY <1>1, TotalIsSum
<1>3. \A s \in SUBSET all : g[s] = Total(f, s) /\ g[s] \in Int
  <2>1. ASSUME NEW s \in SUBSET all
        PROVE  g[s] = Total(f, s) /\ g[s] \in Int
    <3>1. g[s] = Total(f, s)
      BY <1>1, <1>2, TotalOfSubset
    <3>2. IsFiniteSet(s) /\ \A x \in s : f[x] \in Int
      BY <1>1, FS_Subset DEF all
    <3>3. QED
      BY <3>1, <3>2, TotalType
  <2>2. QED
    BY <2>1
<1> DEFINE bad == {s \in SUBSET all : \E z \in all \ s : g[s \cup {z}] # g[s] + f[z]}
<1>4. SUFFICES ASSUME bad # {} PROVE FALSE
  <2>1. ASSUME bad = {}
        PROVE  Total(f, S \cup {y}) = Total(f, S) + f[y]
    <3>1. S \in SUBSET all /\ y \in all \ S /\ S \cup {y} = all
      BY DEF all
    <3>2. g[S \cup {y}] = g[S] + f[y]
      BY <2>1, <3>1
    <3>3. g[S] = Total(f, S) /\ g[all] = Total(f, all)
      BY <1>3, <3>1
    <3>4. QED
      BY <3>1, <3>2, <3>3
  <2>2. QED
    BY <2>1
<1>5. PICK s \in bad : \A U \in bad : U \subseteq s => U = s
  <2>1. bad \in SUBSET SUBSET all
    OBVIOUS
  <2> HIDE DEF bad
  <2>2. QED
    BY <1>1, <1>4, <2>1, MinimalSubset
<1>6. PICK z \in all \ s : g[s \cup {z}] # g[s] + f[z]
  OBVIOUS
<1>7. s \in SUBSET all
  OBVIOUS
<1>8. \A r \in SUBSET s : r # s => \A w \in all \ r : g[r \cup {w}] = g[r] + f[w]
  BY <1>5, <1>7
<1> HIDE DEF bad
<1> DEFINE t == s \cup {z}
           x == Pick(t)
<1>9. t \in SUBSET all /\ t # {} /\ g[t] # g[s] + f[z]
  BY <1>6, <1>7
<1> HIDE DEF t
<1>10. x \in t /\ g[t] = f[x] + g[t \ {x}]
  BY <1>2, <1>9, SumsAt
<1>11. \A w \in all : f[w] \in Int
  BY DEF all
<1> HIDE DEF x
<1>12. CASE x = z
  <2>1. t \ {x} = s
    BY <1>6, <1>12 DEF t
  <2>2. f[x] \in Int /\ g[s] \in Int
    BY <1>3, <1>6, <1>7, <1>11, <1>12
  <2>3. g[t] = f[z] + g[s]
    BY <1>10, <1>12, <2>1
  <2>4. f[z] + g[s] = g[s] + f[z]
    BY <1>12, <2>2
  <2>5. QED
    BY <1>9, <2>3, <2>4
<1>13. CASE x # z
  <2> DEFINE r == s \ {x}
  <2>1. x \in s /\ r \in SUBSET s /\ r # s /\ z \in all \ r /\ x \in all \ r
        /\ t \ {x} = r \cup {z} /\ s = r \cup {x} /\ r \in SUBSET all
    BY <1>6, <1>7, <1>10, <1>13 DEF t
  <2> HIDE DEF r
  <2>2. g[r \cup {z}] = g[r] + f[z] /\ g[r \cup {x}] = g[r] + f[x]
    BY <1>8, <2>1
  <2>3. g[t] = f[x] + (g[r] + f[z]) /\ g[s] = g[r] + f[x]
    BY <1>10, <2>1, <2>2
  <2>4. f[x] \in Int /\ f[z] \in Int /\ g[r] \in Int
    BY <1>3, <1>6, <1>11, <2>1
  <2>5. g[t] = g[s] + f[z]
    BY <2>3, <2>4
  <2>6. QED
    BY <1>9, <2>5
<1>14. QED
  BY <1>12, <1>13

\* One value changes.
LEMMA TotalChange ==
    ASSUME NEW S, IsFiniteSet(S), NEW y \in S, NEW f, NEW h,
           \A x \in S : f[x] \in Int /\ h[x] \in Int, \A x \in S \ {y} : f[x] = h[x]
    PROVE  Total(h, S) = Total(f, S) - f[y] + h[y]
<1> DEFINE rest == S \ {y}
<1>1. IsFiniteSet(rest) /\ y \notin rest /\ S = rest \cup {y}
  BY FS_Subset
<1>2. \A x \in rest : f[x] = h[x] /\ f[x] \in Int /\ h[x] \in Int
  OBVIOUS
<1>3. \A x \in rest \cup {y} : f[x] \in Int /\ h[x] \in Int
  OBVIOUS
<1> HIDE DEF rest
<1>4. Total(f, S) = Total(f, rest) + f[y]
  BY <1>1, <1>3, TotalAdd
<1>5. Total(h, S) = Total(h, rest) + h[y]
  BY <1>1, <1>3, TotalAdd
<1>6. Total(f, rest) = Total(h, rest)
  BY <1>1, <1>2, TotalSame
<1>7. Total(f, rest) \in Int
  BY <1>1, <1>2, TotalType
<1>8. f[y] \in Int /\ h[y] \in Int
  BY <1>3
<1>9. QED
  BY <1>4, <1>5, <1>6, <1>7, <1>8

-----------------------------------------------------------------------------
(* The sums of a test *)

SellRows == {id \in Rows(orders) : orders[id].direction = "SELL"}

worth  == [id \in OrderIds |-> Worth(id)]
profit == [id \in OrderIds |->
              orders[id].executed * (orders[id].price - orders[orders[id].ref].price)]
fee    == [id \in OrderIds |-> orders[id].executed * orders[id].price]

InInstruments == Total(worth, ExecutedUnsoldBuys(orders))
Profits       == Total(profit, SellRows)
Fees          == Total(fee, Rows(orders))

LEMMA RowSets ==
    /\ Rows(orders) \subseteq OrderIds /\ IsFiniteSet(Rows(orders))
    /\ SellRows \subseteq Rows(orders) /\ IsFiniteSet(SellRows)
    /\ ExecutedUnsoldBuys(orders) \subseteq Rows(orders)
    /\ IsFiniteSet(ExecutedUnsoldBuys(orders))
<1>1. IsFiniteSet(Rows(orders))
  BY RowsAreFinite
<1>2. /\ Rows(orders) \subseteq OrderIds /\ SellRows \subseteq Rows(orders)
      /\ ExecutedUnsoldBuys(orders) \subseteq Rows(orders)
  BY DEF Rows, SellRows, ExecutedUnsoldBuys, UnsoldBuys
<1>3. QED
  BY <1>1, <1>2, FS_Subset

\* Summing an operator is summing a function that has its values.
LEMMA PickedFrom ==
    ASSUME NEW S
    PROVE  \A s \in SUBSET S : s # {} => Pick(s) \in S
<1>1. \A s \in SUBSET S : s # {} => Pick(s) \in s
  BY DEF Pick
<1>2. QED
  BY <1>1

LEMMA InstrumentsSum == GetInInstrumentsSum = InInstruments
<1> DEFINE S == ExecutedUnsoldBuys(orders)
           step(h) == [s \in SUBSET S |-> IF s = {} THEN 0
                                          ELSE Worth(Pick(s)) + h[s \ {Pick(s)}]]
           sum(h)  == h = step(h)
<1>1. S \subseteq OrderIds /\ IsFiniteSet(S)
  BY RowSets
<1>2. GetInInstrumentsSum = (CHOOSE h : sum(h))[S]
  BY Zenon DEF GetInInstrumentsSum, MapThenSumSet, MapThenFoldSet, Pick
<1> HIDE DEF S
<1>3. ASSUME NEW h
      PROVE  sum(h) <=> Sums(h, worth, S)
  <2>1. \A s \in SUBSET S : s # {} => worth[Pick(s)] = Worth(Pick(s))
    BY <1>1, PickedFrom DEF worth
  <2>2. step(h) = [s \in SUBSET S |-> IF s = {} THEN 0 ELSE worth[Pick(s)] + h[s \ {Pick(s)}]]
    BY <2>1, Zenon
  <2>3. QED
    BY <2>2, Zenon DEF Sums
<1> HIDE DEF sum
<1>4. Sums(CHOOSE h : sum(h), worth, S)
  BY <1>1, <1>3, SumsExist
<1>5. QED
  BY <1>1, <1>2, <1>4, TotalOfSubset DEF InInstruments, S

LEMMA ProfitsSum ==
    LET Profit(id) == orders[id].executed * (orders[id].price - orders[orders[id].ref].price)
    IN  MapThenSumSet(Profit, SellRows) = Profits
<1> DEFINE S == SellRows
           Value(id) == orders[id].executed * (orders[id].price - orders[orders[id].ref].price)
           step(h) == [s \in SUBSET S |-> IF s = {} THEN 0
                                          ELSE Value(Pick(s)) + h[s \ {Pick(s)}]]
           sum(h)  == h = step(h)
<1>1. S \subseteq OrderIds /\ IsFiniteSet(S)
  BY RowSets
<1>2. MapThenSumSet(Value, S) = (CHOOSE h : sum(h))[S]
  BY Zenon DEF MapThenSumSet, MapThenFoldSet, Pick
<1> HIDE DEF S
<1>3. ASSUME NEW h
      PROVE  sum(h) <=> Sums(h, profit, S)
  <2>1. \A s \in SUBSET S : s # {} => profit[Pick(s)] = Value(Pick(s))
    BY <1>1, PickedFrom DEF profit
  <2>2. step(h) = [s \in SUBSET S |-> IF s = {} THEN 0 ELSE profit[Pick(s)] + h[s \ {Pick(s)}]]
    BY <2>1, Zenon
  <2>3. QED
    BY <2>2, Zenon DEF Sums
<1> HIDE DEF sum
<1>4. Sums(CHOOSE h : sum(h), profit, S)
  BY <1>1, <1>3, SumsExist
<1>5. (CHOOSE h : sum(h))[S] = Profits
  BY <1>1, <1>4, TotalOfSubset DEF Profits, S
<1>6. QED
  BY <1>2, <1>5, Zenon DEF S

LEMMA FeesSum ==
    LET Fee(id) == orders[id].executed * orders[id].price
    IN  MapThenSumSet(Fee, Rows(orders)) = Fees
<1> DEFINE S == Rows(orders)
           Value(id) == orders[id].executed * orders[id].price
           step(h) == [s \in SUBSET S |-> IF s = {} THEN 0
                                          ELSE Value(Pick(s)) + h[s \ {Pick(s)}]]
           sum(h)  == h = step(h)
<1>1. S \subseteq OrderIds /\ IsFiniteSet(S)
  BY RowSets
<1>2. MapThenSumSet(Value, S) = (CHOOSE h : sum(h))[S]
  BY Zenon DEF MapThenSumSet, MapThenFoldSet, Pick
<1> HIDE DEF S
<1>3. ASSUME NEW h
      PROVE  sum(h) <=> Sums(h, fee, S)
  <2>1. \A s \in SUBSET S : s # {} => fee[Pick(s)] = Value(Pick(s))
    BY <1>1, PickedFrom DEF fee
  <2>2. step(h) = [s \in SUBSET S |-> IF s = {} THEN 0 ELSE fee[Pick(s)] + h[s \ {Pick(s)}]]
    BY <2>1, Zenon
  <2>3. QED
    BY <2>2, Zenon DEF Sums
<1> HIDE DEF sum
<1>4. Sums(CHOOSE h : sum(h), fee, S)
  BY <1>1, <1>3, SumsExist
<1>5. (CHOOSE h : sum(h))[S] = Fees
  BY <1>1, <1>4, TotalOfSubset DEF Fees, S
<1>6. QED
  BY <1>2, <1>5, Zenon DEF S

\* What the test has taken and paid is what is printed.
Balanced(cash) ==
    cash + InInstruments =
        100 * StartDeposit + 100 * Lot * Profits - CommissionPercent * Lot * Fees

LEMMA BalanceIsResult ==
    ASSUME waiter = "done" /\ terminate = "closed" =>
               /\ Balanced(result.account) /\ result.inInstr = InInstruments
               /\ minAccount <= result.account /\ result.account <= maxAccount
    PROVE  ResultBalances
<1>1. QED
  BY ProfitsSum, FeesSum DEF ResultBalances, Balanced, SellRows

-----------------------------------------------------------------------------
(* What the steps do to the sums *)

LEMMA Products ==
    /\ \A m, n \in Nat : m * n \in Nat
    /\ \A m, n \in Int : m * n \in Int
OBVIOUS

LEMMA RowNumbers ==
    ASSUME StateOK, NEW id \in Rows(orders)
    PROVE  id \in OrderIds /\ orders[id].price \in Nat /\ orders[id].executed \in Nat
BY DEF StateOK, Rows, Tables, Row

SumsOK ==
    /\ \A id \in Rows(orders) : worth[id] \in Nat /\ fee[id] \in Nat
    /\ \A id \in SellRows : profit[id] \in Int
    /\ InInstruments \in Nat /\ Profits \in Int /\ Fees \in Nat

LEMMA SumTypes == IInv => SumsOK
<1> SUFFICES ASSUME IInv PROVE SumsOK
  OBVIOUS
<1>1. ASSUME NEW id \in Rows(orders)
      PROVE  worth[id] \in Nat /\ fee[id] \in Nat
  <2>1. id \in OrderIds /\ orders[id].price \in Nat /\ orders[id].executed \in Nat
    BY RowNumbers DEF IInv
  <2>2. 100 * Lot \in Nat
    BY BacktestAssumption
  <2>3. 100 * Lot * orders[id].price * orders[id].executed \in Nat
    BY <2>1, <2>2, Products
  <2>4. orders[id].executed * orders[id].price \in Nat
    BY <2>1, Products
  <2>5. QED
    BY <2>1, <2>3, <2>4 DEF worth, Worth, fee
<1>2. ASSUME NEW id \in SellRows
      PROVE  profit[id] \in Int
  <2>1. id \in Rows(orders) /\ orders[id].ref \in Rows(orders)
    BY DEF SellRows, IInv, BookOK, LinksOK
  <2>2. /\ id \in OrderIds /\ orders[id].price \in Nat /\ orders[id].executed \in Nat
        /\ orders[orders[id].ref].price \in Nat
    BY <2>1, RowNumbers DEF IInv
  <2>3. orders[id].price - orders[orders[id].ref].price \in Int /\ orders[id].executed \in Int
    BY <2>2
  <2>4. orders[id].executed * (orders[id].price - orders[orders[id].ref].price) \in Int
    BY <2>3, Products
  <2>5. QED
    BY <2>2, <2>4 DEF profit
<1>3. InInstruments \in Nat
  <2>1. \A id \in ExecutedUnsoldBuys(orders) : worth[id] \in Nat
    BY <1>1, RowSets
  <2>2. QED
    BY <2>1, RowSets, TotalType DEF InInstruments
<1>4. Profits \in Int
  BY <1>2, RowSets, TotalType DEF Profits
<1>5. Fees \in Nat
  BY <1>1, RowSets, TotalType DEF Fees
<1>6. QED
  BY <1>1, <1>2, <1>3, <1>4, <1>5 DEF SumsOK

LEMMA SameSums ==
    ASSUME UNCHANGED orders
    PROVE  UNCHANGED <<InInstruments, Profits, Fees>>
<1>1. UNCHANGED <<worth, profit, fee>>
  BY DEF worth, Worth, profit, fee
<1>2. /\ Rows(orders)' = Rows(orders) /\ SellRows' = SellRows
      /\ ExecutedUnsoldBuys(orders)' = ExecutedUnsoldBuys(orders)
  BY DEF SellRows
<1>3. QED
  BY <1>1, <1>2 DEF InInstruments, Profits, Fees


\* A recorded row is not executed: it adds nothing, but takes the bought order
\* a sell refers to from those that are left.
LEMMA RecordedSums ==
    ASSUME IInv, RecordOrder
    PROVE  /\ Fees' = Fees /\ Profits' = Profits
           /\ \A id \in Rows(orders) : worth'[id] = worth[id]
           /\ acts[cur].action = "BUY" => InInstruments' = InInstruments
           /\ acts[cur].action = "SELL" =>
                 /\ acts[cur].ref \in Rows(orders)
                 /\ InInstruments = InInstruments' + worth[acts[cur].ref]
<1> DEFINE act == acts[cur]
           new == FreshId
           row == NewRow(act)
<1>1. /\ orders' \in Tables /\ orders'[new] = row /\ row \in Row
      /\ Rows(orders') = Rows(orders) \cup {new}
      /\ \A id \in OrderIds \ {new, act.ref} : orders'[id] = orders[id]
      /\ \/ act.action = "BUY" /\ act.ref = NoRef
         \/ /\ act.action = "SELL"
            /\ act.ref \in ExecutedUnsoldBuys(orders) /\ act.ref # new
            /\ orders'[act.ref] = [orders[act.ref] EXCEPT !.ref = new]
  BY RecordedTable
<1>2. new \in OrderIds /\ new \notin Rows(orders)
  BY IdIsFresh DEF RecordOrder
<1>3. /\ row.executed = 0 /\ row.status = "NEW" /\ row.direction = act.action
      /\ row.price \in Nat
  BY <1>1 DEF NewRow, Row
<1>4. IInv' /\ SumsOK /\ SumsOK'
  <2>1. IInv'
    BY RecordOrderKeepsIInv
  <2>2. IInv' => SumsOK'
    BY SumTypes, PTL
  <2>3. QED
    BY <2>1, <2>2, SumTypes
<1> HIDE DEF row, new, act
<1>5. \A id \in Rows(orders) :
         /\ id \in OrderIds /\ id # new
         /\ orders[id] \in Row /\ (id # act.ref => orders'[id] = orders[id])
  BY <1>1, <1>2 DEF Rows, IInv, StateOK, Tables
<1>6. \A id \in Rows(orders) :
         /\ orders'[id].price = orders[id].price /\ orders'[id].executed = orders[id].executed
         /\ orders'[id].direction = orders[id].direction
         /\ orders'[id].status = orders[id].status
  <2>1. ASSUME act.ref \in Rows(orders)
        PROVE  /\ orders'[act.ref].price = orders[act.ref].price
               /\ orders'[act.ref].executed = orders[act.ref].executed
               /\ orders'[act.ref].direction = orders[act.ref].direction
               /\ orders'[act.ref].status = orders[act.ref].status
    <3>1. orders'[act.ref] = [orders[act.ref] EXCEPT !.ref = new]
      BY <1>1, <2>1 DEF Rows, OrderIds, NoRef
    <3>2. QED
      BY <1>5, <2>1, <3>1 DEF Row
  <2>2. QED
    BY <1>5, <2>1
<1>7. \A id \in Rows(orders) : worth'[id] = worth[id] /\ fee'[id] = fee[id]
  BY <1>5, <1>6 DEF worth, Worth, fee
<1>8. Fees' = Fees
  <2>1. /\ \A id \in Rows(orders) : fee'[id] \in Int
        /\ fee'[new] \in Int
    BY <1>1, <1>4 DEF SumsOK
  <2>2. Total(fee', Rows(orders) \cup {new}) = Total(fee', Rows(orders)) + fee'[new]
    BY <1>2, <2>1, RowSets, TotalAdd
  <2>3. fee'[new] = 0
    BY <1>1, <1>2, <1>3 DEF fee
  <2>4. Total(fee', Rows(orders)) = Total(fee, Rows(orders))
    BY <1>7, RowSets, TotalSame
  <2>5. Total(fee, Rows(orders)) \in Int
    BY <1>4 DEF SumsOK, Fees
  <2>6. QED
    BY <1>1, <2>2, <2>3, <2>4, <2>5 DEF Fees
<1>9. \A id \in SellRows : profit'[id] = profit[id]
  <2>1. ASSUME NEW id \in SellRows
        PROVE  profit'[id] = profit[id]
    <3>1. id \in Rows(orders) /\ id \in OrderIds /\ orders[id].ref \in Rows(orders)
      BY <1>5 DEF SellRows, IInv, BookOK, LinksOK
    <3>2. id # act.ref
      BY <1>1, <3>1 DEF SellRows, ExecutedUnsoldBuys, UnsoldBuys, Rows, OrderIds, NoRef
    <3>3. orders'[id] = orders[id]
      BY <1>5, <3>1, <3>2
    <3>4. orders'[orders[id].ref].price = orders[orders[id].ref].price
      BY <1>6, <3>1
    <3>5. QED
      BY <3>1, <3>3, <3>4 DEF profit
  <2>2. QED
    BY <2>1
<1>10. Total(profit', SellRows) = Profits
  BY <1>9, RowSets, TotalSame DEF Profits
<1>11. CASE act.action = "BUY"
  <2>1. SellRows' = SellRows
    BY <1>1, <1>2, <1>3, <1>6, <1>11 DEF SellRows
  <2>2. ExecutedUnsoldBuys(orders') = ExecutedUnsoldBuys(orders)
    <3>1. \A id \in Rows(orders) : orders'[id] = orders[id]
      BY <1>1, <1>5, <1>11 DEF Rows, OrderIds, NoRef
    <3>2. QED
      BY <1>1, <1>2, <1>3, <3>1 DEF ExecutedUnsoldBuys, UnsoldBuys
  <2>3. Total(worth', ExecutedUnsoldBuys(orders)) = Total(worth, ExecutedUnsoldBuys(orders))
    <3>1. \A id \in ExecutedUnsoldBuys(orders) : worth[id] = worth'[id]
      BY <1>7, RowSets
    <3>2. QED
      BY <3>1, RowSets, TotalSame
  <2>4. QED
    BY <1>7, <1>8, <1>10, <1>11, <2>1, <2>2, <2>3 DEF InInstruments, Profits, act
<1>12. CASE act.action = "SELL"
  <2>1. /\ act.ref \in ExecutedUnsoldBuys(orders) /\ act.ref \in Rows(orders)
        /\ act.ref \in OrderIds /\ act.ref # new
        /\ orders'[act.ref] = [orders[act.ref] EXCEPT !.ref = new]
    BY <1>1, <1>5, <1>12, RowSets
  <2>2. Profits' = Profits
    <3>1. SellRows' = SellRows \cup {new} /\ new \notin SellRows /\ new \in SellRows'
      BY <1>1, <1>2, <1>3, <1>6, <1>12 DEF SellRows
    <3>2. \A id \in SellRows' : profit'[id] \in Int
      BY <1>4 DEF SumsOK
    <3>3. Total(profit', SellRows \cup {new}) = Total(profit', SellRows) + profit'[new]
      BY <3>1, <3>2, RowSets, TotalAdd
    <3>4. profit'[new] = 0
      <4>1. profit'[new] = 0 * (orders'[new].price - orders'[orders'[new].ref].price)
        BY <1>1, <1>2, <1>3 DEF profit
      <4>2. orders'[new].price \in Int /\ orders'[orders'[new].ref].price \in Int
        <5>1. orders'[new].ref \in Rows(orders')
          BY <1>4, <3>1 DEF SellRows, IInv, BookOK, LinksOK
        <5>2. QED
          BY <1>1, <1>4, <5>1 DEF IInv, StateOK, Rows, Tables, Row
      <4>3. QED
        BY <4>1, <4>2
    <3>5. QED
      BY <1>4, <1>10, <3>1, <3>3, <3>4 DEF SumsOK, Profits
  <2> DEFINE left == ExecutedUnsoldBuys(orders')
  <2>3. /\ act.ref \notin left /\ left \cup {act.ref} = ExecutedUnsoldBuys(orders)
    <3>1. orders'[act.ref].ref = new /\ new # NoRef
      BY <1>2, <1>5, <2>1 DEF Row, OrderIds, NoRef
    <3>2. \A id \in Rows(orders) \ {act.ref} : orders'[id] = orders[id]
      BY <1>5
    <3>3. new \notin left
      BY <1>1, <1>3 DEF ExecutedUnsoldBuys
    <3>4. act.ref \notin left
      BY <3>1 DEF ExecutedUnsoldBuys, UnsoldBuys
    <3>5. ASSUME NEW id \in Rows(orders), id # act.ref
          PROVE  id \in left <=> id \in ExecutedUnsoldBuys(orders)
      BY <1>1, <3>2, <3>5 DEF ExecutedUnsoldBuys, UnsoldBuys
    <3>6. left \subseteq Rows(orders)
      BY <1>1, <3>3 DEF ExecutedUnsoldBuys, UnsoldBuys
    <3> HIDE DEF left
    <3>7. QED
      BY <2>1, <3>4, <3>5, <3>6, RowSets
  <2> HIDE DEF left
  <2>4. left \subseteq ExecutedUnsoldBuys(orders) /\ left \subseteq Rows(orders) /\ IsFiniteSet(left)
    BY <2>3, RowSets, FS_Subset
  <2>5. \A id \in left \cup {act.ref} : worth[id] \in Int
    BY <1>4, <2>1, <2>4 DEF SumsOK
  <2>6. Total(worth, ExecutedUnsoldBuys(orders)) = Total(worth, left) + worth[act.ref]
    BY <2>3, <2>4, <2>5, TotalAdd
  <2>7. Total(worth, left) = Total(worth', left)
    <3>1. \A id \in left : worth[id] = worth'[id]
      BY <1>7, <2>4
    <3>2. QED
      BY <2>4, <3>1, TotalSame
  <2>8. QED
    BY <1>7, <1>8, <1>12, <2>1, <2>2, <2>6, <2>7 DEF InInstruments, left, act
<1>13. QED
  BY <1>1, <1>11, <1>12


\* A sell refers to a bought order that is executed, over the same lots.
LEMMA SoldOrder ==
    ASSUME IInv, NEW id \in SellRows
    PROVE  /\ id \in Rows(orders) /\ orders[id].ref \in Rows(orders)
           /\ orders[orders[id].ref].status = "FILL"
           /\ orders[orders[id].ref].executed = orders[id].lots
<1> DEFINE sold == orders[id].ref
<1>1. id \in Rows(orders) /\ id \in OrderIds /\ orders[id].direction = "SELL"
  BY DEF SellRows, Rows
<1>2. /\ sold \in Rows(orders) /\ orders[sold].ref = id
      /\ orders[sold].lots = orders[id].lots /\ orders[sold].direction # "SELL"
  BY <1>1 DEF IInv, BookOK, LinksOK
<1> HIDE DEF sold
<1>3. orders[sold].direction = "BUY" /\ orders[sold].ref # NoRef
  BY <1>1, <1>2 DEF IInv, StateOK, Rows, Tables, Row, Directions, OrderIds, NoRef
<1>4. Executed(sold)
  BY <1>2, <1>3 DEF IInv, BookOK, LinksOK
<1>5. QED
  BY <1>1, <1>2, <1>4 DEF Executed, sold

\* An executed order adds its commission to what was paid, and its worth to
\* what is left, or its profit to what was made.
LEMMA ExecutedSums ==
    ASSUME IInv, PutOrderExecuted
    PROVE  LET act == acts[cur]
           IN  /\ Fees' = Fees + act.lots * lastPrice
               /\ act.action = "BUY" =>
                     /\ InInstruments' = InInstruments + 100 * Lot * lastPrice * act.lots
                     /\ Profits' = Profits
               /\ act.action = "SELL" =>
                     /\ act.ref \in Rows(orders) /\ orders[act.ref].executed = act.lots
                     /\ InInstruments' = InInstruments
                     /\ Profits' = Profits + act.lots * (lastPrice - orders[act.ref].price)
<1> DEFINE act == acts[cur]
           id  == act.id
<1>1. /\ id \in Rows(orders) /\ orders[id].status = "NEW" /\ orders[id].executed = 0
      /\ Rows(orders') = Rows(orders)
      /\ \A other \in OrderIds \ {id} : orders'[other] = orders[other]
      /\ \A other \in OrderIds :
            /\ orders'[other].direction = orders[other].direction
            /\ orders'[other].ref = orders[other].ref
            /\ orders'[other].lots = orders[other].lots
      /\ orders'[id].status = "FILL" /\ orders'[id].executed = act.lots
      /\ orders'[id].price = lastPrice
      /\ orders[id].direction = act.action /\ orders[id].ref = act.ref
  BY ExecutedTable
<1>2. IInv' /\ SumsOK /\ SumsOK'
  <2>1. IInv'
    BY ExecutionKeepsIInv
  <2>2. IInv' => SumsOK'
    BY SumTypes, PTL
  <2>3. QED
    BY <2>1, <2>2, SumTypes
<1>3. act \in Actions /\ act.action \in {"BUY", "SELL"} /\ act.lots \in Nat
  BY CurrentActType DEF PutOrderExecuted, Working, Actions, Directions
<1>4. lastPrice \in Nat
  BY DEF IInv, StateOK
<1> HIDE DEF act, id
<1>5. Rows(orders) \subseteq OrderIds /\ id \in OrderIds
  BY <1>1, RowSets
<1>6. orders[id].price \in Nat
  BY <1>1, RowNumbers DEF IInv
<1>7. Fees' = Fees + act.lots * lastPrice
  <2>1. \A x \in Rows(orders) : fee[x] \in Int /\ fee'[x] \in Int
    BY <1>1, <1>2 DEF SumsOK
  <2>2. \A x \in Rows(orders) \ {id} : fee[x] = fee'[x]
    BY <1>1, <1>5 DEF fee
  <2>3. Total(fee', Rows(orders)) = Total(fee, Rows(orders)) - fee[id] + fee'[id]
    BY <1>1, <2>1, <2>2, RowSets, TotalChange
  <2>4. fee[id] = 0 /\ fee'[id] = act.lots * lastPrice
    BY <1>1, <1>5, <1>6 DEF fee
  <2>5. Fees \in Int /\ fee'[id] \in Int
    BY <1>1, <1>2, <2>1 DEF SumsOK
  <2>6. QED
    BY <1>1, <2>3, <2>4, <2>5 DEF Fees
<1>8. \A x \in SellRows : /\ x \in Rows(orders) /\ x \in OrderIds
                          /\ orders[x].ref \in OrderIds /\ orders[x].ref # id
  BY <1>1, <1>5, SoldOrder
<1>9. SellRows' = SellRows
  BY <1>1, <1>5 DEF SellRows
<1>10. \A x \in SellRows \ {id} : profit[x] = profit'[x]
  <2>1. ASSUME NEW x \in SellRows \ {id}
        PROVE  profit[x] = profit'[x]
    <3>1. orders'[x] = orders[x] /\ orders'[orders[x].ref] = orders[orders[x].ref]
      BY <1>1, <1>8
    <3>2. QED
      BY <1>8, <3>1 DEF profit
  <2>2. QED
    BY <2>1
<1>11. CASE act.action = "BUY"
  <2>1. id \notin SellRows
    BY <1>1, <1>11 DEF SellRows
  <2>2. Profits' = Profits
    <3>1. \A x \in SellRows : profit[x] = profit'[x]
      BY <1>10, <2>1
    <3>2. QED
      BY <1>9, <3>1, RowSets, TotalSame DEF Profits
  <2> DEFINE left == ExecutedUnsoldBuys(orders)
  <2>3. id \notin left /\ ExecutedUnsoldBuys(orders') = left \cup {id}
    <3>1. orders'[id].direction = "BUY" /\ orders'[id].ref = NoRef
      <4>1. act.ref = NoRef
        BY <1>11 DEF act, IInv, BookOK, ActsOK, PutOrderExecuted, Working
      <4>2. QED
        BY <1>1, <1>5, <1>11, <4>1
    <3>2. id \notin left /\ id \in ExecutedUnsoldBuys(orders')
      BY <1>1, <3>1 DEF ExecutedUnsoldBuys, UnsoldBuys
    <3>3. ASSUME NEW x \in Rows(orders), x # id
          PROVE  x \in ExecutedUnsoldBuys(orders') <=> x \in left
      BY <1>1, <1>5, <3>3 DEF ExecutedUnsoldBuys, UnsoldBuys
    <3>4. ExecutedUnsoldBuys(orders') \subseteq Rows(orders)
      BY <1>1 DEF ExecutedUnsoldBuys, UnsoldBuys
    <3> HIDE DEF left
    <3>5. left \subseteq Rows(orders)
      BY RowSets DEF left
    <3>6. QED
      BY <1>1, <3>2, <3>3, <3>4, <3>5
  <2> HIDE DEF left
  <2>4. left \subseteq Rows(orders) /\ IsFiniteSet(left)
    BY RowSets DEF left
  <2>5. \A x \in left \cup {id} : worth'[x] \in Int
    BY <1>1, <1>2, <2>4 DEF SumsOK
  <2>6. Total(worth', left \cup {id}) = Total(worth', left) + worth'[id]
    BY <2>3, <2>4, <2>5, TotalAdd
  <2>7. Total(worth', left) = Total(worth, left)
    <3>1. \A x \in left : worth'[x] = worth[x]
      BY <1>1, <1>5, <2>3, <2>4 DEF worth, Worth
    <3>2. QED
      BY <2>4, <3>1, TotalSame
  <2>8. worth'[id] = 100 * Lot * lastPrice * act.lots
    BY <1>1, <1>5 DEF worth, Worth
  <2>9. QED
    BY <1>7, <1>11, <2>2, <2>3, <2>6, <2>7, <2>8 DEF InInstruments, left, act
<1>12. CASE act.action = "SELL"
  <2>1. id \in SellRows
    BY <1>1, <1>12 DEF SellRows
  <2>2. /\ act.ref \in Rows(orders) /\ act.ref \in OrderIds /\ act.ref # id
        /\ orders[act.ref].executed = act.lots /\ orders[act.ref].price \in Nat
    <3>1. act.ref \in Rows(orders) /\ orders[act.ref].executed = orders[id].lots
      BY <1>1, <2>1, SoldOrder
    <3>2. orders[id].lots = act.lots
      BY ExecutedTable, <1>1, <1>5 DEF act, id
    <3>3. QED
      BY <1>1, <1>8, <2>1, <3>1, <3>2, RowNumbers DEF IInv
  <2>3. InInstruments' = InInstruments
    <3>1. ExecutedUnsoldBuys(orders') = ExecutedUnsoldBuys(orders)
      BY <1>1, <1>5, <1>12 DEF ExecutedUnsoldBuys, UnsoldBuys
    <3>2. id \notin ExecutedUnsoldBuys(orders)
      BY <1>1, <1>12 DEF ExecutedUnsoldBuys
    <3>3. \A x \in ExecutedUnsoldBuys(orders) : worth[x] = worth'[x]
      BY <1>1, <1>5, <3>2, RowSets DEF worth, Worth
    <3>4. QED
      BY <3>1, <3>3, RowSets, TotalSame DEF InInstruments
  <2>4. \A x \in SellRows : profit[x] \in Int /\ profit'[x] \in Int
    BY <1>2, <1>9 DEF SumsOK
  <2>5. Total(profit', SellRows) = Total(profit, SellRows) - profit[id] + profit'[id]
    BY <1>10, <2>1, <2>4, RowSets, TotalChange
  <2>6. profit[id] = 0 * (orders[id].price - orders[act.ref].price)
    BY <1>1, <1>5 DEF profit
  <2>7. profit[id] = 0
    BY <1>6, <2>2, <2>6
  <2>8. profit'[id] = act.lots * (lastPrice - orders[act.ref].price)
    <3>1. orders'[id].ref = act.ref /\ orders'[act.ref] = orders[act.ref]
      BY <1>1, <1>5, <2>2
    <3>2. QED
      BY <1>1, <1>5, <3>1 DEF profit
  <2>9. Profits \in Int /\ profit'[id] \in Int
    BY <1>2, <2>1, <2>4 DEF SumsOK
  <2>10. Profits' = Profits + profit'[id]
    BY <1>9, <2>5, <2>7, <2>9 DEF Profits
  <2>11. QED
    BY <1>7, <1>12, <2>2, <2>3, <2>8, <2>10 DEF act
<1>13. QED
  BY <1>3, <1>11, <1>12 DEF act


-----------------------------------------------------------------------------
(* The type of the result *)

ResultType == result \in [inInstr : Nat, account : Int]

LEMMA InstrumentsType == IInv => GetInInstrumentsSum \in Nat
BY SumTypes, InstrumentsSum DEF SumsOK

\* Only the waiting goroutine writes the result, from the store and the account.
LEMMA ResultSteps ==
    ASSUME IInv, ResultType, [Next]_vars
    PROVE  ResultType'
<1>1. CASE ReadInstruments
  <2>1. GetInInstrumentsSum \in Nat
    BY InstrumentsType
  <2>2. result' = [result EXCEPT !.inInstr = GetInInstrumentsSum]
    BY <1>1 DEF ReadInstruments
  <2>3. QED
    BY <2>1, <2>2 DEF ResultType
<1>2. CASE ReadAccount
  <2>1. result' = [result EXCEPT !.account = account] /\ account \in Int
    BY <1>2 DEF ReadAccount, IInv, StateOK
  <2>2. QED
    BY <2>1 DEF ResultType
<1>3. CASE UNCHANGED result
  BY <1>3 DEF ResultType
<1>4. QED
  <2>1. ReadInstruments \/ ReadAccount \/ UNCHANGED result
    BY DEF Next, Trader, Waiter, CheckContext, NextCandle, HistoryEnds, ErrorDelay, Decide,
           RecordOrder, MakeBuyOrder, MakeSellOrder, PutOrderExecuted, StartWaiting, StopWaiting,
           Interrupt, ending, vars
  <2>2. QED
    BY <1>1, <1>2, <1>3, <2>1

\* TypeOK: types, the offset, which every failed read advances as well, and the
\* result.
THEOREM TestTypeCorrect == Spec => []TypeOK
<1>1. Init => ResultType
  BY DEF Init, ResultType
<1>2. IInv /\ ResultType /\ [Next]_vars => ResultType'
  BY ResultSteps
<1>3. IInv /\ ResultType => TypeOK
  <2>1. ASSUME IInv, ResultType
        PROVE  TypeOK
    <3>1. offset \in 0 .. MaxHistory + 2
      <4>1. /\ offset \in Nat /\ Len(history) \in Nat /\ Len(history) <= MaxHistory
            /\ MaxHistory \in Nat
        BY <2>1, BacktestAssumption DEF IInv, StateOK
      <4>2. offset = 0 \/ offset <= Len(history) + 2
        BY <2>1, <4>1 DEF IInv, OffsetOK
      <4>3. QED
        BY <4>1, <4>2
    <3>2. QED
      BY <2>1, <3>1 DEF IInv, StateOK, ResultType, TypeOK
  <2>2. QED
    BY <2>1
<1>4. QED
  BY <1>1, <1>2, <1>3, Invariance, PTL DEF Spec

-----------------------------------------------------------------------------
(* The balance *)

\* What a bought order cost that is being sold: it is no more among those left,
\* and its sell not yet among those that made a profit.
SoldWorth == IF OnItsWay(1) /\ acts[1].action = "SELL" THEN Worth(acts[1].ref) ELSE 0

\* What the account has paid or got for an order whose row does not yet say so.
Unsettled ==
    IF tpc # "put" THEN 0
    ELSE IF acts[cur].action = "BUY" THEN Cost(acts[cur]) + Commission(acts[cur])
    ELSE Commission(acts[cur]) - Cost(acts[cur])

BalanceOK  == Balanced(account + SoldWorth + Unsettled)
ExtremesOK == minAccount <= account /\ account <= maxAccount

\* After the end of the history nothing moves any more.
ReadOK ==
    terminate = "closed" =>
        /\ waiter \in {"account", "done"} => result.inInstr = InInstruments
        /\ waiter = "done" => result.account = account

MoneyOK == ResultType /\ BalanceOK /\ ExtremesOK /\ ReadOK

\* Where no order is at work, nothing is under way.
LEMMA NothingUnderWay ==
    ASSUME tpc \notin {"post", "put"}, tpc = "record" => cur = 1
    PROVE  SoldWorth = 0 /\ Unsettled = 0
BY DEF SoldWorth, Unsettled, OnItsWay

\* The commission is no more than what it is taken from.
LEMMA CommissionIsLess ==
    ASSUME StateOK, CommissionPercent <= 100, NEW act \in Actions
    PROVE  /\ Cost(act) \in Nat /\ Commission(act) \in Nat
           /\ Commission(act) <= Cost(act)
<1> DEFINE turnover == Lot * lastPrice * act.lots
<1>1. /\ Lot \in Nat /\ lastPrice \in Nat /\ act.lots \in Nat /\ CommissionPercent \in Nat
  BY BacktestAssumption DEF StateOK, Actions
<1>2. turnover \in Nat
  BY <1>1, Products
<1>3. Cost(act) = 100 * turnover /\ Commission(act) = CommissionPercent * turnover
  BY <1>1 DEF Cost, Commission
<1> HIDE DEF turnover
<1>4. \A m, n, w \in Nat : m <= n => m * w <= n * w
  OBVIOUS
<1>5. CommissionPercent * turnover <= 100 * turnover
  BY <1>1, <1>2, <1>4
<1>6. CommissionPercent * turnover \in Nat /\ 100 * turnover \in Nat
  BY <1>1, <1>2, Products
<1>7. QED
  BY <1>3, <1>5, <1>6

\* The order being sold is known.
SoldOK ==
    OnItsWay(1) /\ acts[1].action = "SELL" =>
        /\ acts[1].ref \in Rows(orders)
        /\ SoldWorth = worth[acts[1].ref] /\ SoldWorth \in Int

LEMMA BeingSold == IInv => SoldOK
<1> SUFFICES ASSUME IInv, OnItsWay(1), acts[1].action = "SELL"
             PROVE  /\ acts[1].ref \in Rows(orders)
                    /\ SoldWorth = worth[acts[1].ref] /\ SoldWorth \in Int
  BY DEF SoldOK
<1>1. acts[1].id \in SellRows /\ orders[acts[1].id].ref = acts[1].ref
  BY DEF SellRows, IInv, BookOK, ActsOK, RecordedOK, Working, OnItsWay
<1>2. acts[1].ref \in Rows(orders) /\ acts[1].ref \in OrderIds
  BY <1>1, SoldOrder, RowSets
<1>3. worth[acts[1].ref] \in Int
  BY <1>2, SumTypes DEF SumsOK
<1>4. SoldWorth = worth[acts[1].ref]
  BY <1>2 DEF SoldWorth, worth
<1>5. QED
  BY <1>2, <1>3, <1>4

LEMMA SoldWorthType == IInv => SoldWorth \in Int
BY BeingSold DEF SoldOK, SoldWorth

LEMMA SettlingKeepsMoney ==
    ASSUME CommissionPercent <= 100, IInv, MoneyOK, MakeBuyOrder \/ MakeSellOrder
    PROVE  BalanceOK' /\ ExtremesOK'
<1> DEFINE act == acts[cur]
<1>1. /\ tpc = "post" /\ tpc' = "put"
      /\ UNCHANGED <<history, orders, offset, lastPrice, acts, cur, terminate, cancelled, waiter>>
  BY DEF MakeBuyOrder, MakeSellOrder, ending
<1>2. act \in Actions
  BY <1>1, CurrentActType DEF Working
<1>3. /\ Cost(act) \in Nat /\ Commission(act) \in Nat /\ Commission(act) <= Cost(act)
  BY <1>2, CommissionIsLess DEF IInv
<1>4. UNCHANGED <<InInstruments, Profits, Fees>>
  BY <1>1, SameSums
<1>5. SoldWorth' = SoldWorth
  <2>1. OnItsWay(1)' <=> OnItsWay(1)
    BY <1>1 DEF OnItsWay
  <2>2. QED
    BY <1>1, <2>1 DEF SoldWorth, Worth
<1>6. Unsettled = 0
  BY <1>1 DEF Unsettled
<1>7. /\ account \in Int /\ minAccount \in Int /\ maxAccount \in Int
  BY DEF IInv, StateOK
<1>8. SoldWorth \in Int
  BY SoldWorthType
<1>9. CASE MakeBuyOrder
  <2>1. /\ act.action = "BUY" /\ account' = account - Cost(act) - Commission(act)
        /\ minAccount' = IF account' < minAccount THEN account' ELSE minAccount
        /\ maxAccount' = maxAccount
    BY <1>9 DEF MakeBuyOrder
  <2>2. Unsettled' = Cost(act) + Commission(act)
    BY <1>1, <2>1 DEF Unsettled, Cost, Commission
  <2>3. account' + SoldWorth' + Unsettled' = account + SoldWorth + Unsettled
    BY <1>3, <1>5, <1>6, <1>7, <1>8, <2>1, <2>2
  <2>4. BalanceOK'
    BY <1>4, <2>3 DEF MoneyOK, BalanceOK, Balanced
  <2>5. ExtremesOK'
    BY <1>3, <1>7, <2>1 DEF MoneyOK, ExtremesOK
  <2>6. QED
    BY <2>4, <2>5
<1>10. CASE MakeSellOrder
  <2>1. /\ act.action = "SELL" /\ account' = account + Cost(act) - Commission(act)
        /\ maxAccount' = IF account' > maxAccount THEN account' ELSE maxAccount
        /\ minAccount' = minAccount
    BY <1>10 DEF MakeSellOrder
  <2>2. Unsettled' = Commission(act) - Cost(act)
    BY <1>1, <2>1 DEF Unsettled, Cost, Commission
  <2>3. account' + SoldWorth' + Unsettled' = account + SoldWorth + Unsettled
    BY <1>3, <1>5, <1>6, <1>7, <1>8, <2>1, <2>2
  <2>4. BalanceOK'
    BY <1>4, <2>3 DEF MoneyOK, BalanceOK, Balanced
  <2>5. ExtremesOK'
    BY <1>3, <1>7, <2>1 DEF MoneyOK, ExtremesOK
  <2>6. QED
    BY <2>4, <2>5
<1>11. QED
  BY <1>9, <1>10


LEMMA RecordingKeepsMoney ==
    ASSUME IInv, MoneyOK, RecordOrder
    PROVE  BalanceOK'
<1>1. /\ tpc = "record" /\ account' = account /\ tpc' \in {"record", "post"}
      /\ cur' = IF tpc' = "record" THEN cur + 1 ELSE 1
  BY DEF RecordOrder, broker, money
<1>2. Unsettled = 0 /\ Unsettled' = 0
  BY <1>1 DEF Unsettled
<1>3. /\ cur \in 1 .. Len(acts) /\ Len(acts) \in Nat
      /\ \A k \in 1 .. Len(acts) :
            /\ acts'[k].action = acts[k].action /\ acts'[k].ref = acts[k].ref
            /\ OnItsWay(k)' <=> k <= cur
            /\ OnItsWay(k) <=> k < cur
  BY RecordedActs
<1>4. /\ 1 \in 1 .. Len(acts) /\ cur \in Nat \ {0} /\ OnItsWay(1)'
      /\ acts[1].action \in {"BUY", "SELL"}
  <2>1. 1 \in 1 .. Len(acts) /\ cur \in Nat \ {0}
    BY <1>3
  <2>2. acts[1] \in Actions
    BY <2>1, ElementOfSeq DEF IInv, StateOK
  <2>3. QED
    BY <1>3, <2>1, <2>2 DEF Actions, Directions
<1>5. /\ Fees' = Fees /\ Profits' = Profits
      /\ \A id \in Rows(orders) : worth'[id] = worth[id]
      /\ acts[cur].action = "BUY" => InInstruments' = InInstruments
      /\ acts[cur].action = "SELL" =>
            /\ acts[cur].ref \in Rows(orders)
            /\ InInstruments = InInstruments' + worth[acts[cur].ref]
  BY RecordedSums
<1>6. account \in Int /\ InInstruments \in Int /\ InInstruments' \in Int
  <2>1. IInv' => SumsOK'
    BY SumTypes, PTL
  <2>2. QED
    BY <2>1, RecordOrderKeepsIInv, SumTypes DEF SumsOK, IInv, StateOK
<1>7. acts[1].action = "SELL" => SoldWorth' = worth'[acts[1].ref]
  <2>1. IInv' => SoldOK'
    BY BeingSold, PTL
  <2>2. QED
    BY <1>3, <1>4, <2>1, RecordOrderKeepsIInv DEF SoldOK
<1>8. account' + SoldWorth' + InInstruments' = account + SoldWorth + InInstruments
  <2>1. CASE acts[1].action = "BUY"
    <3>1. SoldWorth = 0 /\ SoldWorth' = 0
      BY <1>3, <1>4, <2>1 DEF SoldWorth
    <3>2. acts[cur].action = "BUY"
      BY <1>3, <1>4, <2>1, CurrentActType DEF IInv, BookOK, ActsOK, Working, RecordOrder, Actions,
         Directions
    <3>3. QED
      BY <1>1, <1>5, <3>1, <3>2
  <2>2. CASE acts[1].action = "SELL" /\ cur = 1
    <3>1. SoldWorth = 0
      BY <1>3, <1>4, <2>2 DEF SoldWorth
    <3>2. SoldWorth' = worth[acts[1].ref] /\ InInstruments = InInstruments' + worth[acts[1].ref]
      BY <1>5, <1>7, <2>2
    <3>3. worth[acts[1].ref] \in Int
      BY <1>5, <2>2, SumTypes DEF SumsOK
    <3>4. QED
      BY <1>1, <1>6, <3>1, <3>2, <3>3
  <2>3. CASE acts[1].action = "SELL" /\ cur # 1
    <3>1. OnItsWay(1)
      BY <1>3, <1>4, <2>3
    <3>2. acts[1].ref \in Rows(orders) /\ SoldWorth = worth[acts[1].ref]
      BY <2>3, <3>1, BeingSold DEF SoldOK
    <3>3. SoldWorth' = SoldWorth
      BY <1>5, <1>7, <2>3, <3>2
    <3>4. acts[cur].action = "BUY"
      BY <1>3, <2>3, CurrentActType DEF IInv, BookOK, ActsOK, Working, RecordOrder, Actions,
         Directions
    <3>5. QED
      BY <1>1, <1>5, <3>3, <3>4
  <2>4. QED
    BY <1>4, <2>1, <2>2, <2>3
<1>9. SoldWorth \in Int /\ SoldWorth' \in Int
  <2>1. IInv' => (SoldWorth \in Int)'
    BY SoldWorthType, PTL
  <2>2. QED
    BY <2>1, RecordOrderKeepsIInv, SoldWorthType
<1>10. account' + SoldWorth' + Unsettled' + InInstruments'
           = account + SoldWorth + Unsettled + InInstruments
  <2>1. \A a, w, i \in Int : a + w + 0 + i = a + w + i
    OBVIOUS
  <2>2. account' \in Int
    BY <1>1, <1>6
  <2>3. /\ account' + SoldWorth' + 0 + InInstruments' = account' + SoldWorth' + InInstruments'
        /\ account + SoldWorth + 0 + InInstruments = account + SoldWorth + InInstruments
    BY <1>6, <1>9, <2>1, <2>2
  <2>4. QED
    BY <1>2, <1>8, <2>3
<1>11. QED
  BY <1>5, <1>10 DEF MoneyOK, BalanceOK, Balanced

LEMMA ExecutionKeepsMoney ==
    ASSUME IInv, MoneyOK, PutOrderExecuted
    PROVE  BalanceOK'
<1> DEFINE act == acts[cur]
           d == 100 * StartDeposit
<1>1. /\ tpc = "put" /\ account' = account /\ acts' = acts
      /\ \/ cur' = cur + 1 /\ tpc' = "post"
         \/ tpc' = "top"
  BY DEF PutOrderExecuted, broker, money
<1>2. /\ cur \in 1 .. Len(acts) /\ cur \in Nat \ {0} /\ act \in Actions
      /\ act.action \in {"BUY", "SELL"} /\ (act.action = "SELL" => cur = 1)
      /\ act.lots \in Int
  <2>1. cur \in 1 .. Len(acts) /\ act \in Actions /\ Len(acts) \in Nat
    BY <1>1, CurrentActType DEF Working
  <2>2. QED
    BY <1>1, <2>1 DEF Actions, Directions, IInv, BookOK, ActsOK, Working
<1>3. SoldWorth' = 0 /\ Unsettled' = 0
  <2>1. ~OnItsWay(1)'
    BY <1>1, <1>2 DEF OnItsWay
  <2>2. QED
    BY <1>1, <2>1 DEF SoldWorth, Unsettled
<1>4. /\ Fees' = Fees + act.lots * lastPrice
      /\ act.action = "BUY" =>
            /\ InInstruments' = InInstruments + 100 * Lot * lastPrice * act.lots
            /\ Profits' = Profits
      /\ act.action = "SELL" =>
            /\ act.ref \in Rows(orders) /\ orders[act.ref].executed = act.lots
            /\ InInstruments' = InInstruments
            /\ Profits' = Profits + act.lots * (lastPrice - orders[act.ref].price)
  BY ExecutedSums
<1>5. /\ account \in Int /\ InInstruments \in Int /\ Profits \in Int /\ Fees \in Int
      /\ d \in Int /\ Lot \in Int /\ CommissionPercent \in Int /\ lastPrice \in Int
  BY SumTypes, BacktestAssumption DEF SumsOK, IInv, StateOK
<1>6. account + SoldWorth + Unsettled + InInstruments
          = d + 100 * Lot * Profits - CommissionPercent * Lot * Fees
  BY DEF MoneyOK, BalanceOK, Balanced
<1>7. SUFFICES account + 0 + 0 + InInstruments'
                   = d + 100 * Lot * Profits' - CommissionPercent * Lot * Fees'
  BY <1>1, <1>3 DEF BalanceOK, Balanced
<1> HIDE DEF d, act
<1>8. CASE act.action = "BUY"
  <2>1. SoldWorth = 0
    <3>1. OnItsWay(1) => cur = 1
      BY <1>1, <1>2 DEF OnItsWay
    <3>2. QED
      BY <1>8, <3>1 DEF SoldWorth, act
  <2>2. Unsettled = 100 * Lot * lastPrice * act.lots + CommissionPercent * Lot * lastPrice * act.lots
    BY <1>1, <1>8 DEF Unsettled, Cost, Commission, act
  <2>3. account + 0 + (100 * Lot * lastPrice * act.lots
                           + CommissionPercent * Lot * lastPrice * act.lots) + InInstruments
            = d + 100 * Lot * Profits - CommissionPercent * Lot * Fees
    BY <1>6, <2>1, <2>2
  <2>4. account + 0 + 0 + (InInstruments + 100 * Lot * lastPrice * act.lots)
            = d + 100 * Lot * Profits - CommissionPercent * Lot * (Fees + act.lots * lastPrice)
    <3> DEFINE n == act.lots
    <3>1. n \in Int
      BY <1>2
    <3> HIDE DEF n
    <3>2. account + 0 + (100 * Lot * lastPrice * n + CommissionPercent * Lot * lastPrice * n)
              + InInstruments
              = d + 100 * Lot * Profits - CommissionPercent * Lot * Fees
      BY <2>3 DEF n
    <3>3. account + 0 + 0 + (InInstruments + 100 * Lot * lastPrice * n)
              = d + 100 * Lot * Profits - CommissionPercent * Lot * (Fees + n * lastPrice)
      BY <1>5, <3>1, <3>2
    <3>4. QED
      BY <3>3 DEF n
  <2>5. QED
    BY <1>4, <1>8, <2>4
<1>9. CASE act.action = "SELL"
  <2> DEFINE paid == orders[act.ref].price
  <2>1. act.ref \in OrderIds /\ paid \in Int /\ orders[act.ref].executed = act.lots
    BY <1>4, <1>9, RowNumbers DEF IInv
  <2>2. SoldWorth = 100 * Lot * paid * act.lots
    BY <1>1, <1>2, <1>9, <2>1 DEF SoldWorth, OnItsWay, Worth, act
  <2>3. Unsettled = CommissionPercent * Lot * lastPrice * act.lots - 100 * Lot * lastPrice * act.lots
    BY <1>1, <1>9 DEF Unsettled, Cost, Commission, act
  <2>4. /\ InInstruments' = InInstruments /\ Fees' = Fees + act.lots * lastPrice
        /\ Profits' = Profits + act.lots * (lastPrice - paid)
    BY <1>4, <1>9
  <2> HIDE DEF paid
  <2>5. account + 100 * Lot * paid * act.lots
            + (CommissionPercent * Lot * lastPrice * act.lots - 100 * Lot * lastPrice * act.lots)
            + InInstruments
            = d + 100 * Lot * Profits - CommissionPercent * Lot * Fees
    BY <1>6, <2>2, <2>3
  <2>6. account + 0 + 0 + InInstruments
            = d + 100 * Lot * (Profits + act.lots * (lastPrice - paid))
                - CommissionPercent * Lot * (Fees + act.lots * lastPrice)
    <3> DEFINE n == act.lots
    <3>1. n \in Int
      BY <1>2
    <3> HIDE DEF n
    <3>2. account + 100 * Lot * paid * n
              + (CommissionPercent * Lot * lastPrice * n - 100 * Lot * lastPrice * n)
              + InInstruments
              = d + 100 * Lot * Profits - CommissionPercent * Lot * Fees
      BY <2>5 DEF n
    <3>3. account + 0 + 0 + InInstruments
              = d + 100 * Lot * (Profits + n * (lastPrice - paid))
                  - CommissionPercent * Lot * (Fees + n * lastPrice)
      BY <1>5, <2>1, <3>1, <3>2
    <3>4. QED
      BY <3>3 DEF n
  <2>7. QED
    BY <2>4, <2>6
<1>10. QED
  BY <1>2, <1>8, <1>9


LEMMA OthersKeepMoney ==
    ASSUME IInv, MoneyOK,
           \/ CheckContext \/ NextCandle \/ HistoryEnds \/ ErrorDelay \/ Decide
           \/ Waiter \/ Interrupt \/ UNCHANGED vars
    PROVE  BalanceOK' /\ ExtremesOK'
<1>1. UNCHANGED <<orders, account, minAccount, maxAccount>>
  BY DEF CheckContext, NextCandle, HistoryEnds, ErrorDelay, Decide, Waiter, StartWaiting,
         StopWaiting, ReadInstruments, ReadAccount, Interrupt, broker, money, vars
<1>2. UNCHANGED <<InInstruments, Profits, Fees>>
  BY <1>1, SameSums
<1>3. UNCHANGED <<SoldWorth, Unsettled>>
  <2>1. CASE CheckContext \/ NextCandle \/ HistoryEnds \/ ErrorDelay \/ Decide
    <3>1. /\ tpc \notin {"record", "post", "put"} /\ tpc' \notin {"post", "put"}
          /\ tpc' = "record" => cur' = 1
      BY <2>1 DEF CheckContext, NextCandle, HistoryEnds, ErrorDelay, Decide
    <3>2. SoldWorth = 0 /\ Unsettled = 0
      BY <3>1, NothingUnderWay
    <3>3. SoldWorth' = 0 /\ Unsettled' = 0
      BY <3>1 DEF SoldWorth, Unsettled, OnItsWay
    <3>4. QED
      BY <3>2, <3>3
  <2>2. CASE Waiter \/ Interrupt \/ UNCHANGED vars
    <3>1. UNCHANGED <<orders, lastPrice, tpc, acts, cur>>
      BY <2>2 DEF Waiter, StartWaiting, StopWaiting, ReadInstruments, ReadAccount, Interrupt,
                  broker, vars
    <3>2. QED
      BY <3>1 DEF SoldWorth, Unsettled, OnItsWay, Worth, Cost, Commission
  <2>3. QED
    BY <2>1, <2>2
<1>4. QED
  BY <1>1, <1>2, <1>3 DEF MoneyOK, BalanceOK, Balanced, ExtremesOK

LEMMA ReadStaysRead ==
    ASSUME IInv, MoneyOK, [Next]_vars
    PROVE  ReadOK'
<1> SUFFICES ASSUME terminate' = "closed"
             PROVE  /\ waiter' \in {"account", "done"} => result'.inInstr = InInstruments'
                    /\ waiter' = "done" => result'.account = account'
  BY DEF ReadOK
<1>1. CASE terminate # "closed"
  <2>1. HistoryEnds
    BY <1>1 DEF Next, Trader, Waiter, CheckContext, NextCandle, HistoryEnds, ErrorDelay, Decide,
           RecordOrder, MakeBuyOrder, MakeSellOrder, PutOrderExecuted, StartWaiting, StopWaiting,
           ReadInstruments, ReadAccount, Interrupt, ending, vars
  <2>2. waiter' = "told"
    BY <1>1, <2>1 DEF HistoryEnds
  <2>3. QED
    BY <2>2
<1>2. CASE terminate = "closed"
  <2>1. tpc \in {"error", "gone", "top"}
    BY <1>2 DEF IInv, EndOK
  <2>2. CheckContext \/ ErrorDelay \/ Waiter \/ Interrupt \/ UNCHANGED vars
    BY <2>1 DEF Next, Trader, NextCandle, HistoryEnds, Decide, RecordOrder, MakeBuyOrder,
                MakeSellOrder, PutOrderExecuted
  <2>3. UNCHANGED <<orders, account>>
    BY <2>2 DEF CheckContext, ErrorDelay, Waiter, StartWaiting, StopWaiting, ReadInstruments,
                ReadAccount, Interrupt, broker, money, vars
  <2>4. UNCHANGED InInstruments
    BY <2>3, SameSums
  <2>5. /\ waiter \in {"account", "done"} => result.inInstr = InInstruments
        /\ waiter = "done" => result.account = account
    BY <1>2 DEF MoneyOK, ReadOK
  <2>6. CASE ReadInstruments
    <3>1. waiter' = "account" /\ result' = [result EXCEPT !.inInstr = InInstruments]
      BY <2>6, InstrumentsSum DEF ReadInstruments
    <3>2. QED
      BY <2>4, <3>1 DEF MoneyOK, ResultType
  <2>7. CASE ReadAccount
    <3>1. waiter = "account" /\ result' = [result EXCEPT !.account = account]
      BY <2>7 DEF ReadAccount
    <3>2. QED
      BY <2>3, <2>4, <2>5, <3>1 DEF MoneyOK, ResultType
  <2>8. CASE ~ReadInstruments /\ ~ReadAccount
    <3>1. result' = result /\ (waiter' = waiter \/ waiter' \in {"waiting", "told"})
      BY <2>2, <2>8 DEF CheckContext, ErrorDelay, Waiter, StartWaiting, StopWaiting, Interrupt,
                        ending, vars
    <3>2. QED
      BY <2>3, <2>4, <2>5, <3>1
  <2>9. QED
    BY <2>6, <2>7, <2>8
<1>3. QED
  BY <1>1, <1>2

LEMMA NextMoney ==
    ASSUME CommissionPercent <= 100, IInv, MoneyOK, [Next]_vars
    PROVE  MoneyOK'
<1>1. ResultType' /\ ReadOK'
  BY ResultSteps, ReadStaysRead DEF MoneyOK
<1>2. CASE MakeBuyOrder \/ MakeSellOrder
  BY <1>1, <1>2, SettlingKeepsMoney DEF MoneyOK
<1>3. CASE RecordOrder
  <2>1. UNCHANGED <<account, minAccount, maxAccount>>
    BY <1>3 DEF RecordOrder, broker, money
  <2>2. ExtremesOK'
    BY <2>1 DEF MoneyOK, ExtremesOK
  <2>3. QED
    BY <1>1, <1>3, <2>2, RecordingKeepsMoney DEF MoneyOK
<1>4. CASE PutOrderExecuted
  <2>1. UNCHANGED <<account, minAccount, maxAccount>>
    BY <1>4 DEF PutOrderExecuted, broker, money
  <2>2. ExtremesOK'
    BY <2>1 DEF MoneyOK, ExtremesOK
  <2>3. QED
    BY <1>1, <1>4, <2>2, ExecutionKeepsMoney DEF MoneyOK
<1>5. CASE \/ CheckContext \/ NextCandle \/ HistoryEnds \/ ErrorDelay \/ Decide
           \/ Waiter \/ Interrupt \/ UNCHANGED vars
  BY <1>1, <1>5, OthersKeepMoney DEF MoneyOK
<1>6. QED
  BY <1>2, <1>3, <1>4, <1>5 DEF Next, Trader

LEMMA InitMoney == Init => MoneyOK
<1> SUFFICES ASSUME Init PROVE MoneyOK
  OBVIOUS
<1>1. /\ orders = [id \in OrderIds |-> NoRow] /\ account = 100 * StartDeposit
      /\ minAccount = account /\ maxAccount = account /\ tpc = "top"
      /\ terminate = "open" /\ result = [inInstr |-> 0, account |-> 0]
  BY DEF Init
<1>2. Rows(orders) = {} /\ SellRows = {} /\ ExecutedUnsoldBuys(orders) = {}
  BY <1>1 DEF Rows, SellRows, ExecutedUnsoldBuys, UnsoldBuys
<1>3. InInstruments = 0 /\ Profits = 0 /\ Fees = 0
  BY <1>2, TotalEmpty DEF InInstruments, Profits, Fees
<1>4. SoldWorth = 0 /\ Unsettled = 0
  BY <1>1, NothingUnderWay
<1>5. StartDeposit \in Nat /\ CommissionPercent \in Nat /\ Lot \in Nat
  BY BacktestAssumption
<1>6. BalanceOK
  BY <1>1, <1>3, <1>4, <1>5 DEF BalanceOK, Balanced
<1>7. ResultType /\ ExtremesOK /\ ReadOK
  BY <1>1, <1>5 DEF ResultType, ExtremesOK, ReadOK
<1>8. QED
  BY <1>6, <1>7 DEF MoneyOK

\* ResultBalances: whatever the history, what a test prints at its end is the
\* deposit and the profit of every sale, less the commissions, and within the
\* extremes it prints; a commission is no more than what it is taken from.
THEOREM ResultAddsUp ==
    ASSUME CommissionPercent <= 100
    PROVE  Spec => []ResultBalances
<1>1. Init => MoneyOK
  BY InitMoney
<1>2. IInv /\ MoneyOK /\ [Next]_vars => MoneyOK'
  BY NextMoney
<1>3. IInv /\ MoneyOK => ResultBalances
  <2>1. ASSUME IInv, MoneyOK, waiter = "done", terminate = "closed"
        PROVE  /\ Balanced(result.account) /\ result.inInstr = InInstruments
               /\ minAccount <= result.account /\ result.account <= maxAccount
    <3>1. result.inInstr = InInstruments /\ result.account = account
      BY <2>1 DEF MoneyOK, ReadOK
    <3>2. SoldWorth = 0 /\ Unsettled = 0
      <4>1. tpc \in {"error", "gone", "top"}
        BY <2>1 DEF IInv, EndOK
      <4>2. QED
        BY <4>1, NothingUnderWay
    <3>3. account + SoldWorth + Unsettled = account
      BY <2>1, <3>2 DEF IInv, StateOK
    <3>4. QED
      BY <2>1, <3>1, <3>3 DEF MoneyOK, BalanceOK, ExtremesOK
  <2>2. QED
    BY <2>1, BalanceIsResult
<1>4. QED
  BY <1>1, <1>2, <1>3, Invariance, PTL DEF Spec
=============================================================================
