-------------------------- MODULE BacktestProofs --------------------------
(***************************************************************************)
(* Proofs about Backtest, for any history, any ladder, any deposit, and an *)
(* interrupt at any moment.                                                *)
(*                                                                         *)
(* The promises speak of the rows and of the end of the test only.  What   *)
(* keeps them is how the rows and the actions at work belong together      *)
(* (BookOK), that ids are handed out one by one and two per candle at most *)
(* (IdsOK), and who has heard of the end of the history when the trader    *)
(* asks for a candle again (EndOK, OffsetOK).                              *)
(***************************************************************************)
EXTENDS Backtest, FiniteSetTheorems, SequenceTheorems, TLAPS

Working == {"record", "post", "put"}

\* The types of TypeOK, but for the sum in the result.
StateOK ==
    /\ history \in Seq(Prices) /\ Len(history) <= MaxHistory
    /\ orders \in Tables
    /\ offset \in Nat /\ lastPrice \in Nat
    /\ account \in Int /\ minAccount \in Int /\ maxAccount \in Int
    /\ tpc \in {"top", "price", "error", "decide", "record", "post", "put", "gone", "panic"}
    /\ acts \in Seq(Actions) /\ cur \in Nat \ {0}
    /\ terminate \in {"open", "closed"} /\ cancelled \in BOOLEAN
    /\ waiter \in {"starting", "waiting", "told", "account", "done"}

\* One action to sell at most, before one to buy at most.
ActsOK ==
    /\ tpc \in Working => cur \in 1 .. Len(acts)
    /\ Len(acts) <= 2
    /\ \A k \in 1 .. Len(acts) :
          /\ acts[k].action = "SELL" => k = 1
          /\ acts[k].action = "BUY" => k = Len(acts) /\ acts[k].ref = NoRef

\* Recorded, not yet executed.
OnItsWay(k) == (tpc = "record" /\ k < cur) \/ (tpc \in {"post", "put"} /\ k >= cur)

RecordedOK ==
    /\ \A k \in 1 .. Len(acts) : OnItsWay(k) =>
          /\ acts[k].id \in Rows(orders)
          /\ orders[acts[k].id].direction = acts[k].action
          /\ orders[acts[k].id].status = "NEW" /\ orders[acts[k].id].executed = 0
          /\ orders[acts[k].id].lots = acts[k].lots
          /\ orders[acts[k].id].ref = acts[k].ref
    /\ \A k, l \in 1 .. Len(acts) :
          OnItsWay(k) /\ OnItsWay(l) /\ k # l => acts[k].id # acts[l].id

\* All others are executed, in full.
Executed(id) == orders[id].status = "FILL" /\ orders[id].executed = orders[id].lots

RowsOK ==
    \A id \in Rows(orders) :
        /\ orders[id].lots >= 1
        /\ Executed(id) \/ \E k \in 1 .. Len(acts) : OnItsWay(k) /\ acts[k].id = id

\* Bought and sold orders are linked in pairs, over the same lots, and what is
\* sold is executed.
LinksOK ==
    \A id \in Rows(orders) :
        /\ orders[id].direction = "SELL" => orders[id].ref # NoRef
        /\ orders[id].ref # NoRef =>
              /\ orders[id].ref \in Rows(orders)
              /\ orders[orders[id].ref].ref = id
              /\ orders[orders[id].ref].lots = orders[id].lots
              /\ orders[orders[id].ref].direction # orders[id].direction
        /\ orders[id].direction = "BUY" /\ orders[id].ref # NoRef => Executed(id)

\* The order to be sold is for sale until the sell is recorded.
SellPending ==
    tpc = "record" /\ cur = 1 /\ acts[1].action = "SELL" =>
        /\ acts[1].ref \in ExecutedUnsoldBuys(orders)
        /\ acts[1].lots = orders[acts[1].ref].lots

BookOK == ActsOK /\ RecordedOK /\ RowsOK /\ LinksOK /\ SellPending

\* Ids are handed out one by one, two per candle at most.
Due == IF tpc = "decide" THEN 2 ELSE IF tpc = "record" THEN Len(acts) - cur + 1 ELSE 0

IdsOK ==
    /\ Rows(orders) = 1 .. Cardinality(Rows(orders))
    /\ Cardinality(Rows(orders)) + Due <= 2 * offset
    /\ tpc \in {"decide", "record"} => offset < Len(history)

\* The channel is closed when the waiting goroutine has been told; the trader,
\* which waits for it then, finds the context cancelled.
EndOK ==
    /\ tpc # "panic"
    /\ waiter = "done" => cancelled
    /\ waiter \in {"told", "account", "done"} => cancelled \/ terminate = "closed"
    /\ terminate = "closed" =>
          /\ waiter \in {"told", "account", "done"}
          /\ tpc \in {"error", "gone"} \/ (tpc = "top" /\ cancelled)

\* The history ends twice at most: the second time somebody is waiting, or the
\* test is over.
OffsetOK ==
    \/ offset = 0 \/ offset < Len(history)
    \/ /\ offset <= Len(history) + 1
       /\ tpc = "error" \/ (tpc = "top" /\ cancelled) \/ tpc = "gone" \/ waiter # "starting"
    \/ /\ offset <= Len(history) + 2
       /\ \/ tpc = "error" /\ (cancelled \/ terminate = "closed")
          \/ (tpc = "top" /\ cancelled) \/ tpc = "gone"

IInv == StateOK /\ BookOK /\ IdsOK /\ EndOK /\ OffsetOK

\* Room is made before it is taken.
DepthOK ==
    /\ DepthIsKept
    /\ tpc = "record" /\ acts[cur].action = "BUY" => GetUnsoldOrdersAmount(orders) + 1 <= MaxDepth

-----------------------------------------------------------------------------
(* What an Upsert does to the table *)

\* A link, or an execution, changes nothing else of a row.
LEMMA Relinked ==
    ASSUME NEW row \in Row, NEW ref \in OrderIds \cup {NoRef}
    PROVE  LET linked == [row EXCEPT !.ref = ref]
           IN  /\ linked \in Row /\ linked # NoRow /\ linked.ref = ref
               /\ linked.direction = row.direction /\ linked.status = row.status
               /\ linked.executed = row.executed /\ linked.lots = row.lots
BY DEF Row, NoRow, Directions

LEMMA RowIsARow ==
    ASSUME NEW row \in Row
    PROVE  row # NoRow
BY DEF Row, NoRow, Directions

\* A row put for the first time is put as it is, and linked from the row it
\* refers to.
LEMMA UpsertNew ==
    ASSUME StateOK, NEW id \in OrderIds, id \notin Rows(orders), NEW row \in Row,
           row.ref = NoRef \/ row.ref \in Rows(orders)
    PROVE  /\ Upsert(orders, id, row) \in Tables
           /\ \A other \in OrderIds :
                 Upsert(orders, id, row)[other] =
                     IF other = id THEN row
                     ELSE IF other = row.ref THEN [orders[other] EXCEPT !.ref = id]
                     ELSE orders[other]
<1> DEFINE put == [orders EXCEPT ![id] = row]
<1>1. orders \in Tables
  BY DEF StateOK
<1>2. /\ put \in Tables /\ put[id] = row
      /\ \A other \in OrderIds \ {id} : put[other] = orders[other]
  BY <1>1 DEF Tables
<1>3. Upsert(orders, id, row) =
          IF row.ref \in Rows(put) THEN [put EXCEPT ![row.ref] = [put[row.ref] EXCEPT !.ref = id]]
          ELSE put
  BY DEF Upsert
<1> HIDE DEF put
<1>4. CASE row.ref = NoRef
  <2>1. \A other \in OrderIds : other # row.ref
    BY <1>4 DEF OrderIds, NoRef
  <2>2. row.ref \notin Rows(put)
    BY <2>1 DEF Rows
  <2>3. QED
    BY <1>2, <1>3, <2>1, <2>2
<1>5. CASE row.ref \in Rows(orders)
  <2>1. /\ row.ref \in OrderIds /\ row.ref # id /\ put[row.ref] = orders[row.ref]
        /\ orders[row.ref] \in Row /\ row.ref \in Rows(put)
    BY <1>1, <1>2, <1>5 DEF Rows, Tables
  <2> DEFINE linked == [put[row.ref] EXCEPT !.ref = id]
  <2>2. linked \in Row
    BY <2>1, Relinked
  <2>3. linked = [orders[row.ref] EXCEPT !.ref = id]
    BY <2>1
  <2>4. Upsert(orders, id, row) = [put EXCEPT ![row.ref] = linked]
    BY <1>3, <2>1
  <2> HIDE DEF linked
  <2>5. QED
    BY <1>2, <2>1, <2>2, <2>3, <2>4 DEF Tables
<1>6. QED
  BY <1>4, <1>5

\* A row put again without a reference keeps its link and its requested lots;
\* the others stay as they are.
LEMMA UpsertKnown ==
    ASSUME StateOK, NEW id \in Rows(orders), NEW row \in Row, row.ref = NoRef
    PROVE  LET table == Upsert(orders, id, row)
           IN  /\ table \in Tables
               /\ \A other \in OrderIds \ {id} : table[other] = orders[other]
               /\ table[id] \in Row /\ table[id].ref = orders[id].ref
               /\ table[id].lots = orders[id].lots /\ table[id].direction = row.direction
               /\ table[id].status = row.status /\ table[id].executed = row.executed
               /\ table[id].price = row.price
<1> DEFINE known == [row EXCEPT !.ref = orders[id].ref, !.lots = orders[id].lots]
           put   == [orders EXCEPT ![id] = known]
<1>1. orders \in Tables /\ id \in OrderIds /\ orders[id] \in Row
  BY DEF StateOK, Rows, Tables
<1>2. /\ known \in Row /\ known.ref = orders[id].ref /\ known.lots = orders[id].lots
      /\ known.direction = row.direction /\ known.status = row.status
      /\ known.executed = row.executed /\ known.price = row.price
  BY <1>1 DEF Row
<1>3. NoRef \notin Rows(put)
  BY DEF Rows, OrderIds, NoRef
<1>4. Upsert(orders, id, row) = put
  BY <1>3 DEF Upsert
<1> HIDE DEF known
<1>5. QED
  BY <1>1, <1>2, <1>4 DEF Tables

-----------------------------------------------------------------------------
(* Steps that leave the rows and the actions alone *)

\* Where nothing is on its way, nothing has to be.
LEMMA SameBook ==
    ASSUME BookOK, UNCHANGED <<orders, acts, cur>>,
           \/ tpc' \notin Working /\ tpc \notin Working
           \/ tpc' = tpc
           \/ tpc = "post" /\ tpc' = "put"
    PROVE  BookOK'
<1>1. \A k \in 1 .. Len(acts) : OnItsWay(k)' <=> OnItsWay(k)
  BY DEF OnItsWay, Working
<1>2. ActsOK'
  BY DEF BookOK, ActsOK, Working
<1>3. RecordedOK' /\ RowsOK' /\ LinksOK'
  BY <1>1 DEF BookOK, RecordedOK, RowsOK, LinksOK, Executed, Rows
<1>4. SellPending'
  BY DEF BookOK, SellPending, ExecutedUnsoldBuys, UnsoldBuys, Rows, Working
<1>5. QED
  BY <1>2, <1>3, <1>4 DEF BookOK

\* Money is counted in whole numbers.
LEMMA MoneyType ==
    ASSUME StateOK, NEW act \in Actions
    PROVE  Cost(act) \in Int /\ Commission(act) \in Int
<1>1. Lot \in Int /\ CommissionPercent \in Int /\ lastPrice \in Int /\ act.lots \in Int
  BY BacktestAssumption DEF StateOK, Actions
<1>2. 100 * Lot \in Int /\ CommissionPercent * Lot \in Int
  BY <1>1
<1>3. 100 * Lot * lastPrice \in Int /\ CommissionPercent * Lot * lastPrice \in Int
  BY <1>1, <1>2
<1>4. QED
  BY <1>1, <1>3 DEF Cost, Commission

\* The table is finite, and so is what a query answers.
LEMMA RowsAreFinite ==
    /\ IsFiniteSet(Rows(orders)) /\ Cardinality(Rows(orders)) \in Nat
    /\ IsFiniteSet(UnsoldBuys(orders)) /\ Cardinality(UnsoldBuys(orders)) \in Nat
<1>1. IsFiniteSet(OrderIds)
  BY MaxOrdersAssumption, FS_Interval DEF OrderIds
<1>2. Rows(orders) \subseteq OrderIds /\ UnsoldBuys(orders) \subseteq OrderIds
  BY DEF Rows, UnsoldBuys
<1>3. QED
  BY <1>1, <1>2, FS_Subset, FS_CardinalityType

\* The price of a candle is a price.
LEMMA CandlePrice ==
    ASSUME StateOK, NextCandle
    PROVE  lastPrice' \in Nat /\ offset' = offset + 1 /\ offset' < Len(history)
<1>1. /\ offset' = offset + 1 /\ offset + 1 < Len(history) /\ lastPrice' = history[offset' + 1]
  BY DEF NextCandle
<1>2. history \in Seq(Prices) /\ Len(history) \in Nat /\ offset \in Nat
  BY DEF StateOK
<1>3. offset' + 1 \in 1 .. Len(history)
  BY <1>1, <1>2
<1>4. history[offset' + 1] \in Prices
  BY <1>2, <1>3, ElementOfSeq
<1>5. QED
  BY <1>1, <1>4, BacktestAssumption

\* The cursor points at an action.
LEMMA CurrentActType ==
    ASSUME IInv, tpc \in Working
    PROVE  cur \in 1 .. Len(acts) /\ acts[cur] \in Actions /\ Len(acts) \in Nat
<1>1. cur \in 1 .. Len(acts) /\ acts \in Seq(Actions)
  BY DEF IInv, BookOK, ActsOK, StateOK
<1>2. QED
  BY <1>1, ElementOfSeq

\* The trader without its actions, the waiting goroutine, the user.
LEMMA LonelySteps ==
    ASSUME IInv,
           CheckContext \/ NextCandle \/ HistoryEnds \/ ErrorDelay \/ Waiter \/ Interrupt
    PROVE  IInv'
<1>1. /\ UNCHANGED <<history, orders, acts, cur>>
      /\ \/ tpc' \notin Working /\ tpc \notin Working
         \/ tpc' = tpc
      /\ tpc' # tpc => UNCHANGED <<account, minAccount, maxAccount>>
  BY DEF CheckContext, NextCandle, HistoryEnds, ErrorDelay, Waiter, StartWaiting, StopWaiting,
         ReadInstruments, ReadAccount, Interrupt, Working, money, broker, ending
<1>2. BookOK'
  BY <1>1, SameBook DEF IInv
<1>3. Len(history) \in Nat /\ offset \in Nat
  BY DEF IInv, StateOK
<1>4. CASE CheckContext
  <2>1. tpc = "top" /\ tpc' = (IF cancelled THEN "gone" ELSE "price")
        /\ UNCHANGED <<history, orders, offset, lastPrice, account, minAccount, maxAccount,
                       acts, cur, terminate, cancelled, waiter>>
    BY <1>4 DEF CheckContext, broker, money, ending
  <2>2. StateOK'
    BY <2>1 DEF IInv, StateOK
  <2>3. IdsOK'
    BY <2>1 DEF IInv, IdsOK, Due
  <2>4. EndOK' /\ OffsetOK'
    BY <2>1 DEF IInv, EndOK, OffsetOK
  <2>5. QED
    BY <1>2, <2>2, <2>3, <2>4 DEF IInv
<1>5. CASE NextCandle
  <2>1. /\ tpc = "price" /\ tpc' = "decide"
        /\ UNCHANGED <<history, orders, account, minAccount, maxAccount, acts, cur,
                       terminate, cancelled, waiter>>
    BY <1>5 DEF NextCandle, money, ending
  <2>2. lastPrice' \in Nat /\ offset' = offset + 1 /\ offset' < Len(history)
    BY <1>5, CandlePrice DEF IInv
  <2>3. StateOK'
    BY <2>1, <2>2 DEF IInv, StateOK
  <2>4. IdsOK'
    <3>1. Cardinality(Rows(orders)) \in Nat
      BY RowsAreFinite
    <3>2. QED
      BY <1>3, <2>1, <2>2, <3>1 DEF IInv, IdsOK, Due
  <2>5. EndOK' /\ OffsetOK'
    BY <2>1, <2>2 DEF IInv, EndOK, OffsetOK
  <2>6. QED
    BY <1>2, <2>3, <2>4, <2>5 DEF IInv
<1>6. CASE HistoryEnds
  <2>1. /\ tpc = "price" /\ offset + 1 >= Len(history) /\ offset' = offset + 1
        /\ UNCHANGED <<history, orders, lastPrice, account, minAccount, maxAccount, acts, cur,
                       cancelled>>
        /\ terminate # "closed"
        /\ tpc' = "error" /\ terminate' \in {"open", "closed"}
        /\ waiter = "waiting" => terminate' = "closed" /\ waiter' = "told"
        /\ waiter # "waiting" => UNCHANGED <<terminate, waiter>>
    BY <1>6 DEF HistoryEnds, money, IInv, EndOK
  <2>2. StateOK'
    BY <1>3, <2>1 DEF IInv, StateOK
  <2>3. IdsOK'
    <3>1. Cardinality(Rows(orders)) \in Nat
      BY RowsAreFinite
    <3>2. QED
      BY <1>3, <2>1, <3>1 DEF IInv, IdsOK, Due
  <2>4. EndOK'
    BY <2>1 DEF IInv, EndOK, StateOK
  <2>5. OffsetOK'
    BY <1>3, <2>1 DEF IInv, OffsetOK, EndOK, StateOK
  <2>6. QED
    BY <1>2, <2>2, <2>3, <2>4, <2>5 DEF IInv
<1>7. CASE ErrorDelay
  <2>1. /\ tpc = "error" /\ tpc' = "top"
        /\ cancelled \/ waiter \in {"waiting", "done"}
        /\ UNCHANGED <<history, orders, offset, lastPrice, account, minAccount, maxAccount,
                       acts, cur, terminate, cancelled, waiter>>
    BY <1>7 DEF ErrorDelay, broker, money, ending
  <2>2. StateOK' /\ IdsOK'
    BY <2>1 DEF IInv, StateOK, IdsOK, Due
  <2>3. EndOK' /\ OffsetOK'
    BY <2>1 DEF IInv, EndOK, OffsetOK
  <2>4. QED
    BY <1>2, <2>2, <2>3 DEF IInv
<1>8. CASE Waiter \/ Interrupt
  <2>1. /\ UNCHANGED <<history, orders, offset, lastPrice, account, minAccount, maxAccount,
                       tpc, acts, cur, terminate>>
        /\ waiter' \in {"starting", "waiting", "told", "account", "done"}
        /\ cancelled' \in BOOLEAN /\ (cancelled => cancelled')
        /\ waiter' = "starting" => waiter = "starting"
        /\ waiter' = "done" => cancelled'
        /\ waiter' \in {"told", "account", "done"} =>
              waiter \in {"told", "account", "done"} \/ cancelled'
        /\ waiter \in {"told", "account", "done"} => waiter' \in {"told", "account", "done"}
    BY <1>8 DEF Waiter, StartWaiting, StopWaiting, ReadInstruments, ReadAccount, Interrupt,
                broker, money, IInv, StateOK, EndOK
  <2>2. StateOK' /\ IdsOK'
    BY <2>1 DEF IInv, StateOK, IdsOK, Due
  <2>3. EndOK' /\ OffsetOK'
    BY <2>1 DEF IInv, EndOK, OffsetOK
  <2>4. QED
    BY <1>2, <2>2, <2>3 DEF IInv
<1>9. QED
  BY <1>4, <1>5, <1>6, <1>7, <1>8

-----------------------------------------------------------------------------
(* The decision *)

\* Every lot count that is asked for can be ordered.
LEMMA BuyActionType ==
    ASSUME NEW n \in Int
    PROVE  /\ BuyAction(n) \in Actions
           /\ BuyAction(n).action = "BUY" /\ BuyAction(n).ref = NoRef
<1> DEFINE lots == LotsToBuy * (MaxDepth - n)
<1>1. LotsToBuy \in Int /\ MaxDepth - n \in Int
  BY StrategyAssumption
<1>2. lots \in Int
  BY <1>1
<1> HIDE DEF lots
<1>3. AtLeastOne(lots) \in Nat \ {0}
  BY <1>2 DEF AtLeastOne
<1>4. BuyAction(n) = [action |-> "BUY", lots |-> AtLeastOne(lots), id |-> 0, ref |-> 0]
  BY DEF BuyAction, lots
<1>5. QED
  BY <1>3, <1>4 DEF Actions, Directions, NoRef

\* A bought order that is for sale is sold whole.
LEMMA SellActionType ==
    ASSUME IInv, tpc \notin Working, NEW id \in ExecutedUnsoldBuys(orders)
    PROVE  LET act == SellAction(Read(id))
           IN  /\ act \in Actions /\ act.action = "SELL" /\ act.ref = id
               /\ act.lots = orders[id].lots
<1>1. id \in Rows(orders) /\ id \in OrderIds /\ orders[id] \in Row
  BY DEF ExecutedUnsoldBuys, UnsoldBuys, Rows, IInv, StateOK, Tables
<1>2. orders[id].lots >= 1 /\ orders[id].executed = orders[id].lots
  BY <1>1 DEF IInv, BookOK, RowsOK, OnItsWay, Working, Executed
<1>3. orders[id].executed \in Nat /\ AtLeastOne(orders[id].executed) = orders[id].executed
  BY <1>1, <1>2 DEF Row, AtLeastOne
<1>4. SellAction(Read(id)) =
          [action |-> "SELL", lots |-> orders[id].executed, id |-> 0, ref |-> id]
  BY <1>3 DEF SellAction, Read
<1>5. QED
  BY <1>1, <1>2, <1>3, <1>4 DEF Actions, Directions, NoRef

\* To sell, to buy, or to sell first.
Sensible(actions) ==
    /\ actions \in Seq(Actions) /\ Len(actions) \in 1 .. 2
    /\ \A k \in 1 .. Len(actions) :
          /\ actions[k].action = "SELL" => k = 1
          /\ actions[k].action = "BUY" => k = Len(actions) /\ actions[k].ref = NoRef
    /\ actions[1].action = "SELL" =>
          /\ actions[1].ref \in ExecutedUnsoldBuys(orders)
          /\ actions[1].lots = orders[actions[1].ref].lots

LEMMA BuyIsSensible ==
    ASSUME NEW n \in Int
    PROVE  Sensible(<<BuyAction(n)>>)
<1> DEFINE buy == BuyAction(n)
<1>1. buy \in Actions /\ buy.action = "BUY" /\ buy.ref = NoRef
  BY BuyActionType
<1> HIDE DEF buy
<1>2. Sensible(<<buy>>)
  BY <1>1 DEF Sensible
<1>3. QED
  BY <1>2 DEF buy

LEMMA SellIsSensible ==
    ASSUME IInv, tpc \notin Working, NEW id \in ExecutedUnsoldBuys(orders), NEW n \in Int
    PROVE  /\ Sensible(<<SellAction(Read(id))>>)
           /\ Sensible(<<SellAction(Read(id)), BuyAction(n)>>)
<1> DEFINE sell == SellAction(Read(id))
           buy  == BuyAction(n)
<1>1. /\ sell \in Actions /\ sell.action = "SELL" /\ sell.ref = id /\ sell.lots = orders[id].lots
  BY SellActionType
<1>2. buy \in Actions /\ buy.action = "BUY" /\ buy.ref = NoRef
  BY BuyActionType
<1> HIDE DEF sell, buy
<1>3. Sensible(<<sell>>)
  BY <1>1 DEF Sensible
<1>4. Sensible(<<sell, buy>>)
  <2>1. /\ <<sell, buy>> \in Seq(Actions) /\ Len(<<sell, buy>>) = 2
        /\ <<sell, buy>>[1] = sell /\ <<sell, buy>>[2] = buy
    BY <1>1, <1>2
  <2>2. \A k \in 1 .. Len(<<sell, buy>>) :
            \/ k = 1 /\ <<sell, buy>>[k] = sell
            \/ k = 2 /\ <<sell, buy>>[k] = buy
    BY <2>1
  <2>3. QED
    BY <2>1, <2>2, <1>1, <1>2 DEF Sensible
<1>5. QED
  BY <1>3, <1>4 DEF sell, buy

\* When nothing is on its way, every bought order not sold is for sale.
LEMMA AllForSale ==
    ASSUME IInv, tpc \notin Working
    PROVE  ExecutedUnsoldBuys(orders) = UnsoldBuys(orders)
BY DEF IInv, BookOK, RowsOK, OnItsWay, Working, Executed, ExecutedUnsoldBuys, UnsoldBuys

\* A query answers with a bought order that is for sale, or with none when
\* there is none.
LEMMA LowestAnswer ==
    ASSUME NEW lowest \in Answers(LowestExecutedBuys(orders))
    PROVE  lowest = NoOrder \/ \E id \in ExecutedUnsoldBuys(orders) : lowest = Read(id)
BY DEF Answers, LowestExecutedBuys

LEMMA HighestAnswer ==
    ASSUME NEW highest \in Answers(HighestExecutedBuys(orders))
    PROVE  highest = NoOrder \/ \E id \in ExecutedUnsoldBuys(orders) : highest = Read(id)
BY DEF Answers, HighestExecutedBuys

\* Whatever the strategy is told, it decides to hold or for something sensible.
LEMMA DecidedIsSensible ==
    ASSUME IInv, tpc = "decide",
           NEW lowest \in Answers(LowestExecutedBuys(orders)),
           NEW highest \in Answers(HighestExecutedBuys(orders))
    PROVE  Decided(lowest, highest) = <<>> \/ Sensible(Decided(lowest, highest))
<1> DEFINE unsold == GetUnsoldOrdersAmount(orders)
           decision == Decision(lowest, lowest # NoOrder \/ ExecutedSells(orders) # {}, lastPrice)
<1>1. unsold \in Int /\ unsold - 1 \in Int /\ tpc \notin Working
  BY RowsAreFinite DEF GetUnsoldOrdersAmount, Working
<1>2. decision \in {"hold", "sell", "first", "buy"}
  BY DEF Decision
<1>3. decision = "sell" => lowest # NoOrder
  BY DEF Decision
<1> HIDE DEF unsold
<1>4. Sensible(<<BuyAction(unsold)>>) /\ Sensible(Rotation(highest, unsold))
  BY <1>1, HighestAnswer, BuyIsSensible, SellIsSensible DEF Rotation
<1>5. lowest # NoOrder => Sensible(<<SellAction(lowest)>>)
  BY <1>1, LowestAnswer, SellIsSensible
<1>6. Decided(lowest, highest) =
          CASE decision = "hold"  -> <<>>
            [] decision = "sell"  -> <<SellAction(lowest)>>
            [] decision = "first" -> <<BuyAction(unsold)>>
            [] decision = "buy"   -> IF DepthReached(unsold) THEN Rotation(highest, unsold)
                                     ELSE <<BuyAction(unsold)>>
  BY DEF Decided, unsold
<1> HIDE DEF decision
<1>7. QED
  BY <1>2, <1>3, <1>4, <1>5, <1>6

LEMMA DecideKeepsIInv ==
    ASSUME IInv, Decide
    PROVE  IInv'
<1>1. /\ tpc = "decide" /\ cur' = 1
      /\ tpc' = IF acts' = <<>> THEN "top" ELSE "record"
      /\ UNCHANGED <<history, orders, offset, lastPrice, account, minAccount, maxAccount,
                     terminate, cancelled, waiter>>
  BY DEF Decide, broker, money, ending
<1>2. acts' = <<>> \/ (acts' # <<>> /\ Sensible(acts'))
  <2>1. PICK lowest \in Answers(LowestExecutedBuys(orders)),
             highest \in Answers(HighestExecutedBuys(orders)) : acts' = Decided(lowest, highest)
    BY DEF Decide
  <2>2. acts' = <<>> \/ Sensible(acts')
    BY <1>1, <2>1, DecidedIsSensible
  <2>3. QED
    BY <2>2
<1>3. Len(acts') \in 0 .. 2 /\ acts' \in Seq(Actions)
  <2>1. CASE acts' = <<>>
    BY <2>1
  <2>2. CASE Sensible(acts')
    BY <2>2 DEF Sensible
  <2>3. QED
    BY <1>2, <2>1, <2>2
<1>4. StateOK'
  BY <1>1, <1>3 DEF IInv, StateOK
<1>5. ActsOK'
  BY <1>1, <1>2, <1>3 DEF ActsOK, Sensible, Working
<1>6. \A k \in 1 .. Len(acts') : ~OnItsWay(k)'
  BY <1>1 DEF OnItsWay
<1>7. /\ \A id \in Rows(orders) : orders[id].lots >= 1 /\ Executed(id)
      /\ LinksOK
  BY <1>1 DEF IInv, BookOK, RowsOK, OnItsWay
<1>8. RecordedOK' /\ RowsOK' /\ LinksOK'
  BY <1>1, <1>6, <1>7 DEF RecordedOK, RowsOK, LinksOK, Executed, Rows
<1>9. SellPending'
  BY <1>1, <1>2 DEF SellPending, Sensible, ExecutedUnsoldBuys, UnsoldBuys, Rows
<1>10. IdsOK'
  <2>1. Cardinality(Rows(orders)) \in Nat /\ offset \in Nat
    BY RowsAreFinite DEF IInv, StateOK
  <2>2. Due = 2 /\ Due' \in 0 .. 2
    BY <1>1, <1>3 DEF Due
  <2>3. QED
    BY <1>1, <2>1, <2>2 DEF IInv, IdsOK
<1>11. EndOK' /\ OffsetOK'
  BY <1>1 DEF IInv, EndOK, OffsetOK
<1>12. QED
  BY <1>4, <1>5, <1>8, <1>9, <1>10, <1>11 DEF IInv, BookOK

-----------------------------------------------------------------------------
(* The broker *)

\* The account is settled; the rows follow.
LEMMA SettlingKeepsIInv ==
    ASSUME IInv, MakeBuyOrder \/ MakeSellOrder
    PROVE  IInv'
<1>1. /\ tpc = "post" /\ tpc' = "put"
      /\ UNCHANGED <<history, orders, offset, lastPrice, acts, cur, terminate, cancelled, waiter>>
  BY DEF MakeBuyOrder, MakeSellOrder, ending
<1>2. Cost(acts[cur]) \in Int /\ Commission(acts[cur]) \in Int
  BY <1>1, CurrentActType, MoneyType DEF IInv, Working
<1>3. account' \in Int /\ minAccount' \in Int /\ maxAccount' \in Int
  BY <1>2 DEF MakeBuyOrder, MakeSellOrder, IInv, StateOK
<1>4. StateOK'
  BY <1>1, <1>3 DEF IInv, StateOK
<1>5. BookOK'
  BY <1>1, SameBook DEF IInv
<1>6. IdsOK' /\ EndOK' /\ OffsetOK'
  BY <1>1 DEF IInv, IdsOK, Due, EndOK, OffsetOK
<1>7. QED
  BY <1>4, <1>5, <1>6 DEF IInv

\* The id of a new row is the next one, and there is always one left.
LEMMA IdIsFresh ==
    ASSUME IInv, tpc = "record"
    PROVE  /\ FreshId \in OrderIds /\ FreshId \notin Rows(orders)
           /\ 1 .. FreshId = Rows(orders) \cup {FreshId}
           /\ FreshId <= 2 * offset - (Len(acts) - cur)
<1>1. /\ Cardinality(Rows(orders)) \in Nat /\ offset \in Nat
      /\ Len(history) \in Nat /\ Len(history) <= MaxHistory
      /\ MaxHistory \in Nat /\ MaxOrders \in Nat /\ MaxOrders >= 2 * MaxHistory
      /\ cur \in 1 .. Len(acts) /\ Len(acts) \in Nat
  BY RowsAreFinite, BacktestAssumption, MaxOrdersAssumption, CurrentActType
     DEF IInv, StateOK, Working
<1>2. /\ Rows(orders) = 1 .. Cardinality(Rows(orders)) /\ offset < Len(history)
      /\ Cardinality(Rows(orders)) + (Len(acts) - cur + 1) <= 2 * offset
  BY DEF IInv, IdsOK, Due
<1> DEFINE n == Cardinality(Rows(orders))
<1>3. FreshId = n + 1 /\ n \in Nat /\ Rows(orders) = 1 .. n
  BY <1>1, <1>2 DEF FreshId
<1> HIDE DEF n
<1>4. n + 1 <= 2 * offset - (Len(acts) - cur)
  BY <1>1, <1>2 DEF n
<1>5. 2 * offset <= 2 * MaxHistory
  BY <1>1, <1>2
<1>6. n + 1 <= MaxOrders
  BY <1>1, <1>3, <1>4, <1>5
<1>7. QED
  BY <1>1, <1>3, <1>4, <1>6 DEF OrderIds

\* What the recording of the current action makes of the table.
LEMMA RecordedTable ==
    ASSUME IInv, RecordOrder
    PROVE  LET act == acts[cur]
               row == NewRow(act)
           IN  /\ orders' \in Tables /\ orders'[FreshId] = row /\ row \in Row
               /\ Rows(orders') = Rows(orders) \cup {FreshId}
               /\ \A id \in OrderIds \ {FreshId, act.ref} : orders'[id] = orders[id]
               /\ \/ act.action = "BUY" /\ act.ref = NoRef
                  \/ /\ act.action = "SELL" /\ cur = 1
                     /\ act.ref \in ExecutedUnsoldBuys(orders) /\ act.ref # FreshId
                     /\ act.lots = orders[act.ref].lots
                     /\ orders'[act.ref] = [orders[act.ref] EXCEPT !.ref = FreshId]
<1> DEFINE act == acts[cur]
           row == NewRow(act)
<1>1. /\ tpc = "record" /\ orders' = Upsert(orders, FreshId, row)
  BY DEF RecordOrder
<1>2. act \in Actions /\ cur \in 1 .. Len(acts)
  BY <1>1, CurrentActType DEF Working
<1>3. \/ act.action = "BUY" /\ act.ref = NoRef
      \/ /\ act.action = "SELL" /\ cur = 1
         /\ act.ref \in ExecutedUnsoldBuys(orders) /\ act.lots = orders[act.ref].lots
  BY <1>1, <1>2 DEF IInv, BookOK, ActsOK, SellPending, Actions, Directions
<1>4. row \in Row /\ row.ref = act.ref
  BY <1>2 DEF NewRow, Row, Actions, Statuses, IInv, StateOK
<1>5. act.ref \in ExecutedUnsoldBuys(orders) => act.ref \in Rows(orders)
  BY DEF ExecutedUnsoldBuys, UnsoldBuys
<1>6. FreshId \in OrderIds /\ FreshId \notin Rows(orders)
  BY <1>1, IdIsFresh
<1> HIDE DEF act, row
<1>7. /\ orders' \in Tables
      /\ \A id \in OrderIds :
            orders'[id] = IF id = FreshId THEN row
                          ELSE IF id = act.ref THEN [orders[id] EXCEPT !.ref = FreshId]
                          ELSE orders[id]
  BY <1>1, <1>3, <1>4, <1>5, <1>6, UpsertNew DEF IInv
<1>8. ASSUME NEW id \in Rows(orders), id = act.ref
      PROVE  orders'[id] # NoRow
  <2>1. id \in OrderIds /\ orders[id] \in Row /\ id # FreshId
    BY <1>6 DEF Rows, IInv, StateOK, Tables
  <2>2. orders'[id] = [orders[id] EXCEPT !.ref = FreshId]
    BY <1>7, <1>8, <2>1
  <2>3. QED
    BY <1>6, <2>1, <2>2, Relinked
<1>9. Rows(orders') = Rows(orders) \cup {FreshId}
  <2>1. \A id \in Rows(orders) : id \in OrderIds /\ id # FreshId
    BY <1>6 DEF Rows
  <2>2. \A id \in Rows(orders) : orders'[id] # NoRow
    BY <1>7, <1>8, <2>1 DEF Rows
  <2>3. orders'[FreshId] # NoRow
    BY <1>4, <1>6, <1>7, RowIsARow
  <2>4. \A id \in OrderIds : id # FreshId /\ id # act.ref => orders'[id] = orders[id]
    BY <1>7
  <2>5. act.ref \in OrderIds => act.ref \in Rows(orders)
    BY <1>3, <1>5 DEF OrderIds, NoRef
  <2>6. QED
    BY <1>6, <2>1, <2>2, <2>3, <2>4, <2>5 DEF Rows
<1>10. act.ref \in ExecutedUnsoldBuys(orders) =>
           act.ref # FreshId /\ orders'[act.ref] = [orders[act.ref] EXCEPT !.ref = FreshId]
  BY <1>5, <1>6, <1>7 DEF Rows
<1>11. QED
  BY <1>3, <1>4, <1>6, <1>7, <1>9, <1>10 DEF act, row

\* The action gets its id, and is now on its way, with those before it.
LEMMA RecordedActs ==
    ASSUME IInv, RecordOrder
    PROVE  /\ acts' \in Seq(Actions) /\ Len(acts') = Len(acts) /\ Len(acts) \in Nat
           /\ cur \in 1 .. Len(acts)
           /\ \A k \in 1 .. Len(acts) :
                 /\ k # cur => acts'[k] = acts[k]
                 /\ acts'[k].action = acts[k].action /\ acts'[k].ref = acts[k].ref
                 /\ acts'[k].lots = acts[k].lots
                 /\ OnItsWay(k)' <=> k <= cur
                 /\ OnItsWay(k) <=> k < cur
           /\ acts'[cur].id = FreshId
           /\ \/ cur < Len(acts) /\ cur' = cur + 1 /\ tpc' = "record"
              \/ cur = Len(acts) /\ cur' = 1 /\ tpc' = "post"
<1> DEFINE act == [acts[cur] EXCEPT !.id = FreshId]
<1>1. /\ tpc = "record" /\ acts' = [acts EXCEPT ![cur] = act]
      /\ \/ cur < Len(acts) /\ cur' = cur + 1 /\ tpc' = "record"
         \/ ~(cur < Len(acts)) /\ cur' = 1 /\ tpc' = "post"
  BY DEF RecordOrder
<1>2. /\ cur \in 1 .. Len(acts) /\ acts[cur] \in Actions /\ Len(acts) \in Nat
      /\ acts \in Seq(Actions) /\ FreshId \in OrderIds
  BY <1>1, CurrentActType, IdIsFresh DEF Working, IInv, StateOK
<1>3. /\ act \in Actions /\ act.id = FreshId /\ act.action = acts[cur].action
      /\ act.ref = acts[cur].ref /\ act.lots = acts[cur].lots
  BY <1>2 DEF Actions
<1> HIDE DEF act
<1>4. acts' \in Seq(Actions) /\ Len(acts') = Len(acts)
  BY <1>1, <1>2, <1>3, ExceptSeq
<1>5. \A k \in 1 .. Len(acts) : acts'[k] = IF k = cur THEN act ELSE acts[k]
  BY <1>1, <1>2
<1>6. \A k \in 1 .. Len(acts) : (OnItsWay(k)' <=> k <= cur) /\ (OnItsWay(k) <=> k < cur)
  BY <1>1, <1>2 DEF OnItsWay
<1>7. \A k \in 1 .. Len(acts) :
          /\ k # cur => acts'[k] = acts[k]
          /\ acts'[k].action = acts[k].action /\ acts'[k].ref = acts[k].ref
          /\ acts'[k].lots = acts[k].lots
  BY <1>3, <1>5
<1>8. acts'[cur].id = FreshId
  BY <1>2, <1>3, <1>5
<1>9. \/ cur < Len(acts) /\ cur' = cur + 1 /\ tpc' = "record"
      \/ cur = Len(acts) /\ cur' = 1 /\ tpc' = "post"
  BY <1>1, <1>2
<1>10. QED
  BY <1>2, <1>4, <1>6, <1>7, <1>8, <1>9

LEMMA RecordOrderKeepsIInv ==
    ASSUME IInv, RecordOrder
    PROVE  IInv'
<1> DEFINE act == acts[cur]
           new == FreshId
<1>1. /\ tpc = "record"
      /\ UNCHANGED <<history, offset, lastPrice, account, minAccount, maxAccount,
                     terminate, cancelled, waiter>>
  BY DEF RecordOrder, broker, money, ending
<1>2. /\ acts' \in Seq(Actions) /\ Len(acts') = Len(acts) /\ Len(acts) \in Nat
      /\ cur \in 1 .. Len(acts)
      /\ \A k \in 1 .. Len(acts) :
            /\ k # cur => acts'[k] = acts[k]
            /\ acts'[k].action = acts[k].action /\ acts'[k].ref = acts[k].ref
            /\ acts'[k].lots = acts[k].lots
            /\ OnItsWay(k)' <=> k <= cur
            /\ OnItsWay(k) <=> k < cur
      /\ acts'[cur].id = new
      /\ \/ cur < Len(acts) /\ cur' = cur + 1 /\ tpc' = "record"
         \/ cur = Len(acts) /\ cur' = 1 /\ tpc' = "post"
  BY RecordedActs
<1>3. /\ new \in OrderIds /\ new \notin Rows(orders)
      /\ 1 .. new = Rows(orders) \cup {new} /\ new <= 2 * offset - (Len(acts) - cur)
  BY <1>1, IdIsFresh
<1>4. /\ orders' \in Tables /\ orders'[new] = NewRow(act) /\ NewRow(act) \in Row
      /\ Rows(orders') = Rows(orders) \cup {new}
      /\ \A id \in OrderIds \ {new, act.ref} : orders'[id] = orders[id]
      /\ \/ act.action = "BUY" /\ act.ref = NoRef
         \/ /\ act.action = "SELL" /\ cur = 1
            /\ act.ref \in ExecutedUnsoldBuys(orders) /\ act.ref # new
            /\ act.lots = orders[act.ref].lots
            /\ orders'[act.ref] = [orders[act.ref] EXCEPT !.ref = new]
  BY RecordedTable
<1>5. /\ orders'[new].direction = act.action /\ orders'[new].status = "NEW"
      /\ orders'[new].ref = act.ref /\ orders'[new].lots = act.lots
      /\ orders'[new].executed = 0
  BY <1>4 DEF NewRow
<1>6. act \in Actions /\ act.lots >= 1
  BY <1>1, CurrentActType DEF Working, Actions
<1> HIDE DEF act, new
<1>7. ASSUME act.action = "SELL"
      PROVE  /\ act.ref \in Rows(orders) /\ act.ref \in OrderIds
             /\ orders[act.ref].direction = "BUY" /\ orders[act.ref].ref = NoRef
             /\ Executed(act.ref)
             /\ orders'[act.ref].direction = "BUY" /\ orders'[act.ref].ref = new
             /\ orders'[act.ref].status = orders[act.ref].status
             /\ orders'[act.ref].executed = orders[act.ref].executed
             /\ orders'[act.ref].lots = orders[act.ref].lots
  <2>1. /\ act.ref \in Rows(orders) /\ act.ref \in OrderIds
        /\ orders[act.ref].direction = "BUY" /\ orders[act.ref].ref = NoRef
        /\ orders[act.ref] \in Row
    BY <1>4, <1>7 DEF ExecutedUnsoldBuys, UnsoldBuys, Rows, IInv, StateOK, Tables
  <2>2. Executed(act.ref)
    <3>1. \A k \in 1 .. Len(acts) : ~OnItsWay(k)
      BY <1>2, <1>4, <1>7
    <3>2. QED
      BY <2>1, <3>1 DEF IInv, BookOK, RowsOK
  <2>3. orders'[act.ref] = [orders[act.ref] EXCEPT !.ref = new]
    BY <1>4, <1>7
  <2>4. QED
    BY <1>3, <2>1, <2>2, <2>3, Relinked
<1>8. \A id \in Rows(orders) :
          /\ id \in OrderIds /\ id # new /\ id # NoRef
          /\ orders'[id].direction = orders[id].direction
          /\ orders'[id].status = orders[id].status
          /\ orders'[id].executed = orders[id].executed
          /\ orders'[id].lots = orders[id].lots
          /\ id # act.ref => orders'[id] = orders[id]
  <2>1. \A id \in Rows(orders) : id \in OrderIds /\ id # new /\ id # NoRef
    BY <1>3 DEF Rows, OrderIds, NoRef
  <2>2. QED
    BY <1>4, <1>7, <2>1
<1>9. StateOK'
  BY <1>1, <1>2, <1>4 DEF IInv, StateOK
<1>10. ActsOK'
  BY <1>1, <1>2 DEF IInv, BookOK, ActsOK, Working
<1>11. RecordedOK'
  <2>1. ASSUME NEW k \in 1 .. Len(acts), k <= cur
        PROVE  /\ acts'[k].id \in Rows(orders')
               /\ orders'[acts'[k].id].direction = acts'[k].action
               /\ orders'[acts'[k].id].status = "NEW" /\ orders'[acts'[k].id].executed = 0
               /\ orders'[acts'[k].id].lots = acts'[k].lots
               /\ orders'[acts'[k].id].ref = acts'[k].ref
               /\ k # cur => acts'[k].id \in Rows(orders)
    <3>1. CASE k = cur
      BY <1>2, <1>4, <1>5, <3>1 DEF act
    <3>2. CASE k # cur
      <4>1. OnItsWay(k) /\ acts'[k] = acts[k]
        BY <1>2, <2>1, <3>2
      <4>2. act.ref = NoRef
        BY <1>2, <1>4, <2>1, <3>2
      <4>3. acts[k].id \in Rows(orders) /\ orders'[acts[k].id] = orders[acts[k].id]
        BY <1>8, <4>1, <4>2 DEF IInv, BookOK, RecordedOK
      <4>4. QED
        BY <1>4, <4>1, <4>3 DEF IInv, BookOK, RecordedOK
    <3>3. QED
      BY <3>1, <3>2
  <2>2. ASSUME NEW k \in 1 .. Len(acts), NEW l \in 1 .. Len(acts), k <= cur, l <= cur, k # l
        PROVE  acts'[k].id # acts'[l].id
    <3>1. CASE k # cur /\ l # cur
      BY <1>2, <2>2, <3>1 DEF IInv, BookOK, RecordedOK
    <3>2. CASE k = cur \/ l = cur
      BY <1>2, <1>3, <2>1, <2>2, <3>2
    <3>3. QED
      BY <3>1, <3>2
  <2>3. QED
    BY <1>2, <2>1, <2>2 DEF RecordedOK
<1>12. RowsOK'
  <2>1. ASSUME NEW id \in Rows(orders)
        PROVE  /\ orders'[id].lots >= 1
               /\ \/ orders'[id].status = "FILL" /\ orders'[id].executed = orders'[id].lots
                  \/ \E k \in 1 .. Len(acts) : k <= cur /\ acts'[k].id = id
    <3>1. orders[id].lots >= 1
      BY DEF IInv, BookOK, RowsOK
    <3>2. CASE Executed(id)
      BY <1>8, <3>1, <3>2 DEF Executed
    <3>3. CASE \E k \in 1 .. Len(acts) : OnItsWay(k) /\ acts[k].id = id
      <4>1. PICK k \in 1 .. Len(acts) : OnItsWay(k) /\ acts[k].id = id
        BY <3>3
      <4>2. k <= cur /\ acts'[k].id = id
        BY <1>2, <4>1
      <4>3. QED
        BY <1>8, <3>1, <4>2
    <3>4. QED
      BY <3>2, <3>3 DEF IInv, BookOK, RowsOK
  <2>2. orders'[new].lots >= 1 /\ acts'[cur].id = new /\ cur <= cur
    BY <1>2, <1>5, <1>6
  <2>3. QED
    BY <1>2, <1>4, <2>1, <2>2 DEF RowsOK, Executed
<1>13. LinksOK'
  <2>1. ASSUME NEW id \in Rows(orders), id # act.ref
        PROVE  /\ orders'[id] = orders[id]
               /\ orders[id].ref # NoRef => orders'[orders[id].ref] = orders[orders[id].ref]
    <3>1. ASSUME orders[id].ref # NoRef
          PROVE  orders[id].ref \in Rows(orders) /\ orders[id].ref # act.ref
      <4>1. orders[id].ref \in Rows(orders) /\ orders[orders[id].ref].ref = id
        BY <3>1 DEF IInv, BookOK, LinksOK
      <4>2. orders[id].ref = act.ref => act.action = "SELL"
        BY <1>4, <3>1
      <4>3. QED
        BY <1>7, <1>8, <4>1, <4>2
    <3>2. QED
      BY <1>8, <2>1, <3>1
  <2>2. ASSUME NEW id \in Rows(orders), id # act.ref
        PROVE  /\ orders'[id].direction = "SELL" => orders'[id].ref # NoRef
               /\ orders'[id].ref # NoRef =>
                     /\ orders'[id].ref \in Rows(orders')
                     /\ orders'[orders'[id].ref].ref = id
                     /\ orders'[orders'[id].ref].lots = orders'[id].lots
                     /\ orders'[orders'[id].ref].direction # orders'[id].direction
               /\ orders'[id].direction = "BUY" /\ orders'[id].ref # NoRef =>
                     orders'[id].status = "FILL" /\ orders'[id].executed = orders'[id].lots
    BY <1>4, <2>1, <2>2 DEF IInv, BookOK, LinksOK, Executed
  <2>3. ASSUME NEW id \in Rows(orders), id = act.ref
        PROVE  /\ orders'[id].direction = "BUY" /\ orders'[id].ref = new /\ new \in Rows(orders')
               /\ orders'[new].ref = id /\ orders'[new].lots = orders'[id].lots
               /\ orders'[new].direction = "SELL"
               /\ orders'[id].status = "FILL" /\ orders'[id].executed = orders'[id].lots
    <3>1. act.action = "SELL"
      BY <1>4, <1>8, <2>3
    <3>2. QED
      BY <1>4, <1>5, <1>7, <2>3, <3>1 DEF Executed
  <2>4. /\ orders'[new].direction = "SELL" =>
              orders'[new].ref = act.ref /\ act.ref \in Rows(orders) /\ act.ref # NoRef
        /\ orders'[new].ref # NoRef => orders'[new].direction = "SELL"
    BY <1>4, <1>5, <1>7, <1>8
  <2>5. ASSUME NEW id \in Rows(orders')
        PROVE  /\ orders'[id].direction = "SELL" => orders'[id].ref # NoRef
               /\ orders'[id].ref # NoRef =>
                     /\ orders'[id].ref \in Rows(orders')
                     /\ orders'[orders'[id].ref].ref = id
                     /\ orders'[orders'[id].ref].lots = orders'[id].lots
                     /\ orders'[orders'[id].ref].direction # orders'[id].direction
               /\ orders'[id].direction = "BUY" /\ orders'[id].ref # NoRef =>
                     orders'[id].status = "FILL" /\ orders'[id].executed = orders'[id].lots
    <3>1. CASE id = new
      BY <1>4, <2>3, <2>4, <3>1
    <3>2. CASE id \in Rows(orders) /\ id = act.ref
      BY <2>3, <2>4, <3>2
    <3>3. CASE id \in Rows(orders) /\ id # act.ref
      BY <2>2, <3>3
    <3>4. QED
      BY <1>4, <3>1, <3>2, <3>3
  <2>6. QED
    BY <2>5 DEF LinksOK, Executed
<1>14. SellPending'
  BY <1>1, <1>2 DEF SellPending
<1>15. IdsOK'
  <2>1. new \in Nat /\ 1 <= new /\ offset \in Nat
    BY <1>3 DEF OrderIds, IInv, StateOK
  <2>2. Cardinality(1 .. new) = new
    BY <2>1, FS_Interval
  <2>3. Due' = Len(acts) - cur
    BY <1>2 DEF Due
  <2>4. offset < Len(history)
    BY <1>1 DEF IInv, IdsOK
  <2>5. Rows(orders') = 1 .. new /\ Cardinality(Rows(orders')) = new
    BY <1>3, <1>4, <2>2
  <2>6. new + (Len(acts) - cur) <= 2 * offset
    BY <1>2, <1>3, <2>1
  <2>7. QED
    BY <1>1, <2>3, <2>4, <2>5, <2>6 DEF IdsOK
<1>16. EndOK' /\ OffsetOK'
  BY <1>1, <1>2 DEF IInv, EndOK, OffsetOK
<1>17. QED
  BY <1>9, <1>10, <1>11, <1>12, <1>13, <1>14, <1>15, <1>16 DEF IInv, BookOK


\* What the execution of the current action makes of the table: its row is
\* executed in full, and nothing else changes.
LEMMA ExecutedTable ==
    ASSUME IInv, PutOrderExecuted
    PROVE  LET id == acts[cur].id
           IN  /\ cur \in 1 .. Len(acts) /\ Len(acts) \in Nat
               /\ id \in Rows(orders) /\ orders[id].status = "NEW" /\ orders[id].executed = 0
               /\ orders' \in Tables /\ Rows(orders') = Rows(orders)
               /\ \A other \in OrderIds \ {id} : orders'[other] = orders[other]
               /\ \A other \in OrderIds :
                     /\ orders'[other].direction = orders[other].direction
                     /\ orders'[other].ref = orders[other].ref
                     /\ orders'[other].lots = orders[other].lots
               /\ orders'[id].status = "FILL" /\ orders'[id].executed = orders'[id].lots
               /\ orders'[id] # NoRow
               /\ orders'[id].lots = acts[cur].lots /\ orders'[id].price = lastPrice
               /\ orders[id].direction = acts[cur].action /\ orders[id].ref = acts[cur].ref
<1> DEFINE act == acts[cur]
           id  == act.id
           row == [direction |-> act.action, status |-> "FILL", ref |-> NoRef,
                   price |-> lastPrice, lots |-> act.lots, executed |-> act.lots]
<1>1. tpc = "put" /\ orders' = Upsert(orders, id, row)
  BY DEF PutOrderExecuted
<1>2. cur \in 1 .. Len(acts) /\ act \in Actions /\ Len(acts) \in Nat
  BY <1>1, CurrentActType DEF Working
<1>3. OnItsWay(cur)
  BY <1>1, <1>2 DEF OnItsWay
<1>4. /\ id \in Rows(orders)
      /\ orders[id].direction = act.action /\ orders[id].status = "NEW"
      /\ orders[id].executed = 0 /\ orders[id].lots = act.lots /\ orders[id].ref = act.ref
  BY <1>2, <1>3 DEF IInv, BookOK, RecordedOK
<1>5. /\ row \in Row /\ row.ref = NoRef /\ row.direction = act.action
      /\ row.status = "FILL" /\ row.executed = act.lots /\ row.price = lastPrice
  BY <1>2 DEF Row, Actions, Statuses, Directions, IInv, StateOK
<1>6. id \in OrderIds
  BY <1>4 DEF Rows
<1> HIDE DEF act, id, row
<1>7. /\ orders' \in Tables
      /\ \A other \in OrderIds \ {id} : orders'[other] = orders[other]
      /\ orders'[id] \in Row /\ orders'[id].ref = orders[id].ref
      /\ orders'[id].lots = orders[id].lots /\ orders'[id].direction = act.action
      /\ orders'[id].status = "FILL" /\ orders'[id].executed = act.lots
      /\ orders'[id].price = lastPrice
  BY <1>1, <1>4, <1>5, UpsertKnown DEF IInv
<1>8. orders'[id] # NoRow
  BY <1>7, RowIsARow
<1>9. Rows(orders') = Rows(orders)
  BY <1>4, <1>7, <1>8 DEF Rows
<1>10. \A other \in OrderIds :
          /\ orders'[other].direction = orders[other].direction
          /\ orders'[other].ref = orders[other].ref
          /\ orders'[other].lots = orders[other].lots
  BY <1>4, <1>7
<1>11. QED
  BY <1>2, <1>4, <1>7, <1>8, <1>9, <1>10 DEF id, act

LEMMA ExecutionKeepsIInv ==
    ASSUME IInv, PutOrderExecuted
    PROVE  IInv'
<1> DEFINE id == acts[cur].id
<1>1. /\ tpc = "put"
      /\ \/ cur < Len(acts) /\ cur' = cur + 1 /\ tpc' = "post"
         \/ ~(cur < Len(acts)) /\ cur' = cur /\ tpc' = "top"
      /\ UNCHANGED <<history, offset, lastPrice, account, minAccount, maxAccount, acts,
                     terminate, cancelled, waiter>>
  BY DEF PutOrderExecuted, broker, money, ending
<1>2. /\ cur \in 1 .. Len(acts) /\ Len(acts) \in Nat
      /\ id \in Rows(orders) /\ orders' \in Tables /\ Rows(orders') = Rows(orders)
      /\ \A other \in OrderIds \ {id} : orders'[other] = orders[other]
      /\ \A other \in OrderIds :
            /\ orders'[other].direction = orders[other].direction
            /\ orders'[other].ref = orders[other].ref
            /\ orders'[other].lots = orders[other].lots
      /\ orders'[id].status = "FILL" /\ orders'[id].executed = orders'[id].lots
  BY ExecutedTable
<1>3. \A k \in 1 .. Len(acts) : (OnItsWay(k)' <=> k > cur) /\ (OnItsWay(k) <=> k >= cur)
  BY <1>1, <1>2 DEF OnItsWay
<1>4. \A k \in 1 .. Len(acts) : k > cur => acts[k].id # id
  <2>1. OnItsWay(cur)
    BY <1>2, <1>3
  <2>2. QED
    BY <1>2, <1>3, <2>1 DEF IInv, BookOK, RecordedOK
<1>5. Rows(orders) \subseteq OrderIds
  BY DEF Rows
<1> HIDE DEF id
<1>6. StateOK'
  BY <1>1, <1>2 DEF IInv, StateOK
<1>7. ActsOK'
  BY <1>1, <1>2 DEF IInv, BookOK, ActsOK, Working
<1>8. RecordedOK'
  <2>1. ASSUME NEW k \in 1 .. Len(acts), k > cur
        PROVE  acts[k].id \in Rows(orders) /\ orders'[acts[k].id] = orders[acts[k].id]
    BY <1>2, <1>3, <1>4, <1>5, <2>1 DEF IInv, BookOK, RecordedOK
  <2>2. QED
    BY <1>1, <1>2, <1>3, <2>1 DEF IInv, BookOK, RecordedOK
<1>9. RowsOK'
  <2>1. ASSUME NEW other \in Rows(orders)
        PROVE  /\ orders'[other].lots >= 1
               /\ \/ orders'[other].status = "FILL" /\ orders'[other].executed = orders'[other].lots
                  \/ \E k \in 1 .. Len(acts) : k > cur /\ acts[k].id = other
    <3>1. orders[other].lots >= 1
      BY DEF IInv, BookOK, RowsOK
    <3>2. CASE other = id
      BY <1>2, <1>5, <3>1, <3>2
    <3>3. CASE other # id /\ Executed(other)
      BY <1>2, <1>5, <3>1, <3>3 DEF Executed
    <3>4. CASE other # id /\ \E k \in 1 .. Len(acts) : OnItsWay(k) /\ acts[k].id = other
      <4>1. PICK k \in 1 .. Len(acts) : OnItsWay(k) /\ acts[k].id = other
        BY <3>4
      <4>2. k > cur
        BY <1>2, <1>3, <3>4, <4>1 DEF id
      <4>3. QED
        BY <1>2, <1>5, <3>1, <4>1, <4>2
    <3>5. QED
      BY <3>2, <3>3, <3>4 DEF IInv, BookOK, RowsOK
  <2>2. QED
    BY <1>1, <1>2, <1>3, <2>1 DEF RowsOK, Executed
<1>10. LinksOK'
  <2>1. ASSUME NEW other \in Rows(orders), orders[other].direction = "BUY",
               orders[other].ref # NoRef
        PROVE  orders'[other].status = "FILL" /\ orders'[other].executed = orders'[other].lots
    BY <1>2, <1>5, <2>1 DEF IInv, BookOK, LinksOK, Executed
  <2>2. QED
    BY <1>2, <1>5, <2>1 DEF IInv, BookOK, LinksOK, Executed
<1>11. SellPending'
  BY <1>1 DEF SellPending
<1>12. IdsOK'
  <2>1. Due = 0 /\ Due' = 0
    BY <1>1 DEF Due
  <2>2. QED
    BY <1>1, <1>2, <2>1 DEF IInv, IdsOK
<1>13. EndOK' /\ OffsetOK'
  BY <1>1 DEF IInv, EndOK, OffsetOK
<1>14. QED
  BY <1>6, <1>7, <1>8, <1>9, <1>10, <1>11, <1>12, <1>13 DEF IInv, BookOK

-----------------------------------------------------------------------------
(* The invariant *)

LEMMA InitIInv ==
    ASSUME Init
    PROVE  IInv
<1>1. /\ orders = [id \in OrderIds |-> NoRow]
      /\ offset = 0 /\ lastPrice = 0
      /\ account = 100 * StartDeposit /\ minAccount = account /\ maxAccount = account
      /\ tpc = "top" /\ acts = <<>> /\ cur = 1
      /\ terminate = "open" /\ cancelled = FALSE /\ waiter = "starting"
  BY DEF Init
<1>2. PICK n \in 0 .. MaxHistory : history \in [1 .. n -> Prices]
  BY DEF Init
<1>3. history \in Seq(Prices) /\ Len(history) = n /\ n <= MaxHistory
  BY <1>2, BacktestAssumption
<1>4. Rows(orders) = {} /\ orders \in Tables
  BY <1>1 DEF Rows, Tables
<1>5. StateOK
  <2>1. account \in Int /\ minAccount \in Int /\ maxAccount \in Int
    BY <1>1, BacktestAssumption
  <2>2. acts \in Seq(Actions)
    BY <1>1
  <2>3. /\ tpc = "top" /\ cur \in Nat \ {0} /\ terminate = "open"
        /\ waiter = "starting" /\ offset \in Nat /\ lastPrice \in Nat
    BY <1>1
  <2>4. cancelled \in BOOLEAN
    BY <1>1
  <2>5. QED
    BY <1>3, <1>4, <2>1, <2>2, <2>3, <2>4 DEF StateOK
<1>6. BookOK
  BY <1>1, <1>4 DEF BookOK, ActsOK, RecordedOK, RowsOK, LinksOK, SellPending, Working
<1>7. IdsOK
  BY <1>1, <1>4, FS_EmptySet DEF IdsOK, Due
<1>8. EndOK /\ OffsetOK
  BY <1>1 DEF EndOK, OffsetOK
<1>9. QED
  BY <1>5, <1>6, <1>7, <1>8 DEF IInv

LEMMA NextIInv ==
    ASSUME IInv, [Next]_vars
    PROVE  IInv'
<1>1. CASE CheckContext \/ NextCandle \/ HistoryEnds \/ ErrorDelay \/ Waiter \/ Interrupt
  BY <1>1, LonelySteps
<1>2. CASE Decide
  BY <1>2, DecideKeepsIInv
<1>3. CASE RecordOrder
  BY <1>3, RecordOrderKeepsIInv
<1>4. CASE MakeBuyOrder \/ MakeSellOrder
  BY <1>4, SettlingKeepsIInv
<1>5. CASE PutOrderExecuted
  BY <1>5, ExecutionKeepsIInv
<1>6. CASE UNCHANGED vars
  <2>1. UNCHANGED <<history, orders, offset, lastPrice, account, minAccount, maxAccount, tpc,
                    acts, cur, terminate, cancelled, waiter>>
    BY <1>6 DEF vars, broker, money, ending
  <2>2. BookOK'
    BY <2>1, SameBook DEF IInv
  <2>3. StateOK' /\ IdsOK' /\ EndOK' /\ OffsetOK'
    BY <2>1 DEF IInv, StateOK, IdsOK, Due, EndOK, OffsetOK
  <2>4. QED
    BY <2>2, <2>3 DEF IInv
<1>7. QED
  BY <1>1, <1>2, <1>3, <1>4, <1>5, <1>6 DEF Next, Trader

\* The inductive invariant holds in every reachable state.
THEOREM Invariance == Spec => []IInv
<1>1. Init => IInv
  BY InitIInv
<1>2. IInv /\ [Next]_vars => IInv'
  BY NextIInv
<1>3. QED
  BY <1>1, <1>2, PTL DEF Spec


\* NothingPending: every row is executed, and linked in pairs over the same
\* lots, whenever the trader turns to the next candle.
THEOREM NothingIsPending == Spec => []NothingPending
<1>1. IInv => NothingPending
  <2>1. ASSUME IInv, tpc \notin Working
        PROVE  \A id \in Rows(orders) : Executed(id)
    BY <2>1 DEF IInv, BookOK, RowsOK, OnItsWay, Working
  <2>2. QED
    BY <2>1 DEF NothingPending, IInv, BookOK, LinksOK, Executed, Working
<1>2. QED
  BY <1>1, Invariance, PTL

\* NoPanic: the trader never sends on the channel it has closed.
THEOREM TestNeverPanics == Spec => []NoPanic
<1>1. IInv => NoPanic
  BY DEF IInv, EndOK, NoPanic
<1>2. QED
  BY <1>1, Invariance, PTL

-----------------------------------------------------------------------------
(* The depth *)

\* A finite set that is not empty has an element of the least value: what is
\* below an element is a finite set, and one of those sets is minimal.
LEMMA LeastValue ==
    ASSUME NEW S, IsFiniteSet(S), S # {}, NEW f \in [S -> Int]
    PROVE  \E least \in S : \A x \in S : f[least] <= f[x]
<1> DEFINE Below(x) == {y \in S : f[y] < f[x]}
           family   == {Below(x) : x \in S}
<1>1. family \subseteq FiniteSubsetsOf(S) /\ family # {}
  <2>1. \A x \in S : IsFiniteSet(Below(x))
    BY FS_Subset
  <2>2. QED
    BY <2>1 DEF FiniteSubsetsOf
<1>2. IsWellFoundedOn(StrictSubsetOrdering(S), FiniteSubsetsOf(S))
  BY FS_StrictSubsetOrderingWellFounded
<1> HIDE DEF family
<1>3. PICK T \in family : \A U \in family : ~(<<U, T>> \in StrictSubsetOrdering(S))
  BY <1>1, <1>2, WFMin
<1> USE DEF family
<1>4. PICK least \in S : T = Below(least)
  BY <1>3
<1>5. ASSUME NEW x \in S, ~(f[least] <= f[x])
      PROVE  FALSE
  <2>1. f[x] \in Int /\ f[least] \in Int /\ f[x] < f[least]
    BY <1>5
  <2>2. Below(x) \in SUBSET S /\ Below(least) \in SUBSET S
    OBVIOUS
  <2>3. Below(x) \subseteq Below(least)
    BY <2>1
  <2>4. x \in Below(least) /\ x \notin Below(x)
    BY <2>1
  <2>5. <<Below(x), Below(least)>> \in StrictSubsetOrdering(S)
    BY <2>2, <2>3, <2>4 DEF StrictSubsetOrdering
  <2>6. Below(x) \in family
    OBVIOUS
  <2>7. QED
    BY <1>3, <1>4, <2>5, <2>6
<1>6. QED
  BY <1>5

\* So the queries answer whenever there is something to answer with.
LEMMA QueriesAnswer ==
    ASSUME StateOK, ExecutedUnsoldBuys(orders) # {}
    PROVE  LowestExecutedBuys(orders) # {} /\ HighestExecutedBuys(orders) # {}
<1> DEFINE S  == ExecutedUnsoldBuys(orders)
           up == [id \in S |-> orders[id].price]
           down == [id \in S |-> 0 - orders[id].price]
<1>1. S \subseteq UnsoldBuys(orders) /\ IsFiniteSet(S)
  BY RowsAreFinite, FS_Subset DEF ExecutedUnsoldBuys
<1>2. \A id \in S : orders[id].price \in Nat
  BY DEF ExecutedUnsoldBuys, UnsoldBuys, Rows, StateOK, Tables, Row
<1>3. up \in [S -> Int] /\ down \in [S -> Int]
  BY <1>2
<1> HIDE DEF S
<1>4. PICK low \in S : \A id \in S : up[low] <= up[id]
  BY <1>1, <1>3, LeastValue DEF S
<1>5. PICK high \in S : \A id \in S : down[high] <= down[id]
  BY <1>1, <1>3, LeastValue DEF S
<1>6. \A id \in S : orders[low].price <= orders[id].price /\ orders[high].price >= orders[id].price
  BY <1>2, <1>4, <1>5
<1>7. low \in LowestExecutedBuys(orders) /\ high \in HighestExecutedBuys(orders)
  BY <1>6 DEF S, LowestExecutedBuys, HighestExecutedBuys
<1>8. QED
  BY <1>7

\* No answer to a query, no order for sale.
LEMMA NoAnswer ==
    ASSUME StateOK,
           \/ NoOrder \in Answers(LowestExecutedBuys(orders))
           \/ NoOrder \in Answers(HighestExecutedBuys(orders))
    PROVE  ExecutedUnsoldBuys(orders) = {}
<1>1. \A id \in OrderIds : Read(id) # NoOrder
  BY DEF Read, NoOrder, OrderIds
<1>2. /\ LowestExecutedBuys(orders) \subseteq OrderIds
      /\ HighestExecutedBuys(orders) \subseteq OrderIds
  BY DEF LowestExecutedBuys, HighestExecutedBuys, ExecutedUnsoldBuys, UnsoldBuys, Rows
<1>3. LowestExecutedBuys(orders) = {} \/ HighestExecutedBuys(orders) = {}
  BY <1>1, <1>2 DEF Answers
<1>4. QED
  BY <1>3, QueriesAnswer


\* A decision to buy first leaves room for the order.
LEMMA DecidedLeavesRoom ==
    ASSUME MaxDepth >= 1, IInv, tpc = "decide",
           NEW lowest \in Answers(LowestExecutedBuys(orders)),
           NEW highest \in Answers(HighestExecutedBuys(orders)),
           Decided(lowest, highest) # <<>>, Decided(lowest, highest)[1].action = "BUY"
    PROVE  GetUnsoldOrdersAmount(orders) + 1 <= MaxDepth
<1> DEFINE unsold == GetUnsoldOrdersAmount(orders)
           decision == Decision(lowest, lowest # NoOrder \/ ExecutedSells(orders) # {}, lastPrice)
<1>1. unsold \in Nat /\ MaxDepth \in Int /\ tpc \notin Working
  BY RowsAreFinite, StrategyAssumption DEF GetUnsoldOrdersAmount, Working
<1>2. lowest = NoOrder \/ highest = NoOrder => unsold = 0
  <2>1. ASSUME lowest = NoOrder \/ highest = NoOrder
        PROVE  UnsoldBuys(orders) = {}
    BY <1>1, <2>1, NoAnswer, AllForSale DEF IInv
  <2>2. QED
    BY <2>1, FS_EmptySet DEF GetUnsoldOrdersAmount
<1>3. decision \in {"hold", "sell", "first", "buy"} /\ (decision = "first" => lowest = NoOrder)
  BY DEF Decision
<1>4. Decided(lowest, highest) =
          CASE decision = "hold"  -> <<>>
            [] decision = "sell"  -> <<SellAction(lowest)>>
            [] decision = "first" -> <<BuyAction(unsold)>>
            [] decision = "buy"   -> IF DepthReached(unsold) THEN Rotation(highest, unsold)
                                     ELSE <<BuyAction(unsold)>>
  BY DEF Decided
<1>5. SellAction(lowest).action = "SELL" /\ SellAction(highest).action = "SELL"
  BY DEF SellAction
<1> HIDE DEF unsold, decision
<1>6. CASE decision = "first"
  BY <1>1, <1>2, <1>3, <1>6 DEF unsold
<1>7. CASE decision = "buy" /\ ~DepthReached(unsold)
  BY <1>1, <1>7 DEF DepthReached, unsold
<1>8. CASE decision = "buy" /\ DepthReached(unsold)
  <2>1. Rotation(highest, unsold)[1].action = "BUY"
    BY <1>4, <1>8
  <2>2. highest = NoOrder
    BY <1>5, <2>1 DEF Rotation
  <2>3. QED
    BY <1>1, <1>2, <1>8, <2>2 DEF DepthReached
<1>9. CASE decision \in {"hold", "sell"}
  BY <1>4, <1>5, <1>9
<1>10. QED
  BY <1>3, <1>6, <1>7, <1>8, <1>9

\* A recorded buy is one more to be sold, a recorded sell one less.
LEMMA RecordedDepth ==
    ASSUME IInv, RecordOrder
    PROVE  /\ acts[cur].action \in {"BUY", "SELL"}
           /\ acts[cur].action = "BUY" =>
                 GetUnsoldOrdersAmount(orders') = GetUnsoldOrdersAmount(orders) + 1
           /\ acts[cur].action = "SELL" =>
                 GetUnsoldOrdersAmount(orders') = GetUnsoldOrdersAmount(orders) - 1
<1> DEFINE act == acts[cur]
<1>1. tpc = "record"
  BY DEF RecordOrder
<1>2. /\ orders' \in Tables /\ orders'[FreshId] = NewRow(act)
      /\ Rows(orders') = Rows(orders) \cup {FreshId}
      /\ \A id \in OrderIds \ {FreshId, act.ref} : orders'[id] = orders[id]
      /\ \/ act.action = "BUY" /\ act.ref = NoRef
         \/ /\ act.action = "SELL" /\ cur = 1
            /\ act.ref \in ExecutedUnsoldBuys(orders) /\ act.ref # FreshId
            /\ orders'[act.ref] = [orders[act.ref] EXCEPT !.ref = FreshId]
  BY RecordedTable
<1>3. FreshId \in OrderIds /\ FreshId \notin Rows(orders)
  BY <1>1, IdIsFresh
<1>4. /\ orders'[FreshId].direction = act.action /\ orders'[FreshId].ref = act.ref
  BY <1>2 DEF NewRow
<1>5. \A id \in Rows(orders) : id \in OrderIds /\ id # FreshId /\ id # NoRef
  BY <1>3 DEF Rows, OrderIds, NoRef
<1>6. /\ IsFiniteSet(UnsoldBuys(orders)) /\ UnsoldBuys(orders) \subseteq Rows(orders)
  BY RowsAreFinite DEF UnsoldBuys
<1>7. ASSUME NEW id \in ExecutedUnsoldBuys(orders)
      PROVE  [orders[id] EXCEPT !.ref = FreshId].ref = FreshId
  BY <1>3, Relinked DEF ExecutedUnsoldBuys, UnsoldBuys, Rows, IInv, StateOK, Tables
<1> DEFINE new == FreshId
<1>8. new # NoRef
  BY <1>3 DEF OrderIds, NoRef
<1> HIDE DEF act, new
<1>9. CASE act.action = "BUY" /\ act.ref = NoRef
  <2>1. UnsoldBuys(orders') = UnsoldBuys(orders) \cup {new}
    BY <1>2, <1>4, <1>5, <1>9 DEF UnsoldBuys, new
  <2>2. new \notin UnsoldBuys(orders)
    BY <1>3, <1>6 DEF new
  <2>3. QED
    BY <1>6, <1>9, <2>1, <2>2, FS_AddElement DEF GetUnsoldOrdersAmount, act
<1>10. CASE act.action = "SELL" /\ act.ref \in ExecutedUnsoldBuys(orders)
  <2>1. orders'[act.ref].ref = new /\ act.ref \in UnsoldBuys(orders)
    BY <1>2, <1>7, <1>10 DEF new, ExecutedUnsoldBuys
  <2>2. \A id \in Rows(orders) : id # act.ref => orders'[id] = orders[id]
    BY <1>2, <1>5
  <2>3. UnsoldBuys(orders') = UnsoldBuys(orders) \ {act.ref}
    BY <1>2, <1>4, <1>8, <1>10, <2>1, <2>2 DEF UnsoldBuys, new
  <2>4. QED
    BY <1>6, <1>10, <2>1, <2>3, FS_RemoveElement DEF GetUnsoldOrdersAmount, act
<1>11. QED
  BY <1>2, <1>9, <1>10 DEF act

\* The execution of an order leaves it as sold or unsold as it was.
LEMMA ExecutionKeepsDepth ==
    ASSUME IInv, PutOrderExecuted
    PROVE  UnsoldBuys(orders') = UnsoldBuys(orders)
<1>1. /\ Rows(orders') = Rows(orders)
      /\ \A other \in OrderIds : /\ orders'[other].direction = orders[other].direction
                                 /\ orders'[other].ref = orders[other].ref
  BY ExecutedTable
<1>2. Rows(orders) \subseteq OrderIds
  BY DEF Rows
<1>3. QED
  BY <1>1, <1>2 DEF UnsoldBuys

LEMMA NextDepth ==
    ASSUME MaxDepth >= 1, IInv, DepthOK, [Next]_vars
    PROVE  DepthOK'
<1> DEFINE unsold == GetUnsoldOrdersAmount(orders)
<1>1. unsold \in Nat /\ MaxDepth \in Int
  BY RowsAreFinite, StrategyAssumption DEF GetUnsoldOrdersAmount
<1>2. CASE Decide
  <2>1. /\ tpc = "decide" /\ cur' = 1 /\ tpc' = (IF acts' = <<>> THEN "top" ELSE "record")
        /\ UNCHANGED orders
    BY <1>2 DEF Decide
  <2>2. PICK lowest \in Answers(LowestExecutedBuys(orders)),
             highest \in Answers(HighestExecutedBuys(orders)) : acts' = Decided(lowest, highest)
    BY <1>2 DEF Decide
  <2>3. acts' # <<>> /\ acts'[1].action = "BUY" => unsold + 1 <= MaxDepth
    BY <2>1, <2>2, DecidedLeavesRoom
  <2>4. QED
    BY <2>1, <2>3 DEF DepthOK, DepthIsKept
<1>3. CASE RecordOrder
  <2> DEFINE act == acts[cur]
  <2>1. /\ cur \in 1 .. Len(acts) /\ tpc = "record" /\ Len(acts) \in Nat /\ Len(acts) <= 2
        /\ \A k \in 1 .. Len(acts) : acts[k].action = "BUY" => k = Len(acts)
        /\ \/ cur < Len(acts) /\ tpc' = "record"
           \/ cur = Len(acts) /\ tpc' = "post"
    BY <1>3, RecordedActs DEF RecordOrder, IInv, BookOK, ActsOK
  <2>2. /\ act.action \in {"BUY", "SELL"}
        /\ act.action = "BUY" => GetUnsoldOrdersAmount(orders') = unsold + 1
        /\ act.action = "SELL" => GetUnsoldOrdersAmount(orders') = unsold - 1
    BY <1>3, RecordedDepth
  <2>3. unsold <= MaxDepth /\ (act.action = "BUY" => unsold + 1 <= MaxDepth)
    BY <2>1 DEF DepthOK, DepthIsKept
  <2> HIDE DEF unsold
  <2>4. CASE act.action = "BUY"
    <3>1. GetUnsoldOrdersAmount(orders') <= MaxDepth /\ tpc' = "post"
      BY <2>1, <2>2, <2>3, <2>4
    <3>2. QED
      BY <3>1 DEF DepthOK, DepthIsKept
  <2>5. CASE act.action = "SELL"
    <3>1. /\ GetUnsoldOrdersAmount(orders') <= MaxDepth
          /\ GetUnsoldOrdersAmount(orders') + 1 <= MaxDepth
      BY <1>1, <2>2, <2>3, <2>5
    <3>2. QED
      BY <3>1 DEF DepthOK, DepthIsKept
  <2>6. QED
    BY <2>2, <2>4, <2>5
<1>4. CASE PutOrderExecuted
  <2>1. tpc' # "record"
    BY <1>4 DEF PutOrderExecuted
  <2>2. QED
    BY <1>4, <2>1, ExecutionKeepsDepth DEF DepthOK, DepthIsKept, GetUnsoldOrdersAmount
<1>5. CASE \/ CheckContext \/ NextCandle \/ HistoryEnds \/ ErrorDelay \/ Waiter \/ Interrupt
           \/ MakeBuyOrder \/ MakeSellOrder \/ UNCHANGED vars
  <2>1. /\ UNCHANGED <<orders, acts, cur>>
        /\ tpc' # "record" \/ tpc' = tpc
    BY <1>5 DEF CheckContext, NextCandle, HistoryEnds, ErrorDelay, Waiter, StartWaiting,
                StopWaiting, ReadInstruments, ReadAccount, Interrupt, MakeBuyOrder,
                MakeSellOrder, vars
  <2>2. QED
    BY <2>1 DEF DepthOK, DepthIsKept
<1>6. QED
  BY <1>2, <1>3, <1>4, <1>5 DEF Next, Trader

\* DepthIsKept: a ladder of one order or more is never exceeded, whatever the
\* history and however the queries choose among equal prices.
THEOREM LadderIsKept ==
    ASSUME MaxDepth >= 1
    PROVE  Spec => []DepthIsKept
<1>1. Init => DepthOK
  <2>1. ASSUME Init
        PROVE  UnsoldBuys(orders) = {} /\ tpc = "top"
    BY <2>1 DEF Init, UnsoldBuys, Rows
  <2>2. QED
    BY <2>1, FS_EmptySet, StrategyAssumption DEF DepthOK, DepthIsKept, GetUnsoldOrdersAmount
<1>2. IInv /\ DepthOK /\ [Next]_vars => DepthOK'
  BY NextDepth
<1>3. DepthOK => DepthIsKept
  BY DEF DepthOK
<1>4. QED
  BY <1>1, <1>2, <1>3, Invariance, PTL DEF Spec


-----------------------------------------------------------------------------
(* The test is a trader like any other *)

heldNow    == [id \in OrderIds |-> Held(id)]
offeredNow == [id \in OrderIds |-> Offered(id)]

\* What a position is made of.
SameDeal(id) ==
    /\ id \in Rows(orders') <=> id \in Rows(orders)
    /\ orders'[id].direction = orders[id].direction /\ orders'[id].status = orders[id].status
    /\ orders'[id].executed = orders[id].executed

\* A row that is no executed order, before and after a step.
NoDeal(id) == orders[id].status # "FILL" /\ orders'[id].status # "FILL"

\* Where the deals stay the same, and what is sold by them, nothing is opened
\* and nothing offered.
LEMMA SameDealsStutter ==
    ASSUME \A id \in OrderIds :
              \/ NoDeal(id)
              \/ SameDeal(id) /\ (orders[id].direction = "SELL" => orders'[id].ref = orders[id].ref)
    PROVE  UNCHANGED <<heldNow, offeredNow>>
<1>1. \A id \in OrderIds : Held(id)' = Held(id)
  BY DEF Held, SameDeal, NoDeal
<1>2. ASSUME NEW id \in OrderIds
      PROVE  Offered(id)' = Offered(id)
  <2>1. Sells(id)' = Sells(id)
    BY DEF Sells, SameDeal, NoDeal, Rows
  <2>2. \A sell \in Sells(id) : orders'[sell].executed = orders[sell].executed
    BY DEF Sells, SameDeal, NoDeal, Rows
  <2>3. QED
    BY <2>1, <2>2 DEF Offered
<1>3. QED
  BY <1>1, <1>2 DEF heldNow, offeredNow

\* A row is recorded before it is a position, and a link is none.
LEMMA RecordingStutters ==
    ASSUME IInv, RecordOrder
    PROVE  UNCHANGED <<heldNow, offeredNow>>
<1> DEFINE act == acts[cur]
           new == FreshId
<1>1. /\ tpc = "record" /\ new \in OrderIds /\ new \notin Rows(orders)
  BY IdIsFresh DEF RecordOrder
<1>2. /\ orders'[new] = NewRow(act)
      /\ Rows(orders') = Rows(orders) \cup {new}
      /\ \A id \in OrderIds \ {new, act.ref} : orders'[id] = orders[id]
      /\ \/ act.action = "BUY" /\ act.ref = NoRef
         \/ /\ act.action = "SELL" /\ act.ref \in ExecutedUnsoldBuys(orders)
            /\ orders'[act.ref] = [orders[act.ref] EXCEPT !.ref = new]
  BY RecordedTable
<1>3. NoDeal(new)
  <2>1. orders'[new].status = "NEW"
    BY <1>2 DEF NewRow
  <2>2. orders[new].status = "NONE"
    BY <1>1 DEF Rows, NoRow
  <2>3. QED
    BY <2>1, <2>2 DEF NoDeal
<1> HIDE DEF act, new
<1>4. ASSUME NEW id \in OrderIds, id = act.ref
      PROVE  SameDeal(id) /\ orders[id].direction = "BUY"
  <2>1. act.action = "SELL" /\ id \in ExecutedUnsoldBuys(orders)
    BY <1>2, <1>4 DEF OrderIds, NoRef
  <2>2. id \in Rows(orders) /\ orders[id] \in Row /\ orders[id].direction = "BUY"
    BY <2>1 DEF ExecutedUnsoldBuys, UnsoldBuys, Rows, IInv, StateOK, Tables
  <2>3. orders'[id] = [orders[id] EXCEPT !.ref = new]
    BY <1>2, <1>4, <2>1
  <2>4. QED
    BY <1>1, <1>2, <2>2, <2>3, Relinked DEF SameDeal
<1>5. ASSUME NEW id \in OrderIds, id # act.ref, id # new
      PROVE  SameDeal(id) /\ orders'[id].ref = orders[id].ref
  BY <1>2, <1>5 DEF SameDeal
<1>6. QED
  BY <1>3, <1>4, <1>5, SameDealsStutter

\* An executed buy opens its position, an executed sell offers the bought order
\* it is linked to: no other sell is, and that order is held, over as many lots.
LEMMA ExecutionOpensOrOffers ==
    ASSUME IInv, PutOrderExecuted
    PROVE  \E id \in OrderIds : Book!Open(id) \/ Book!Offer(id)
<1>1. PICK new \in OrderIds : new = acts[cur].id
  BY ExecutedTable DEF Rows
<1>2. /\ new \in Rows(orders) /\ orders[new].status = "NEW"
      /\ Rows(orders') = Rows(orders)
      /\ \A other \in OrderIds \ {new} : orders'[other] = orders[other]
      /\ \A other \in OrderIds :
            /\ orders'[other].direction = orders[other].direction
            /\ orders'[other].ref = orders[other].ref
            /\ orders'[other].lots = orders[other].lots
      /\ orders'[new].status = "FILL" /\ orders'[new].executed = orders'[new].lots
  BY <1>1, ExecutedTable
<1>3. /\ orders[new] \in Row /\ orders[new].lots \in Nat /\ orders[new].lots >= 1
      /\ orders[new].direction \in {"BUY", "SELL"}
  <2>1. orders[new] \in Row
    BY <1>2 DEF Rows, IInv, StateOK, Tables
  <2>2. QED
    BY <1>2, <2>1 DEF IInv, BookOK, RowsOK, Row, Directions
<1>4. \A other \in OrderIds \ {new} : SameDeal(other) /\ Held(other)' = Held(other)
  BY <1>2 DEF SameDeal, Held
<1>5. \A id \in OrderIds : new \notin Sells(id)
  BY <1>2 DEF Sells
<1>6. CASE orders[new].direction = "BUY"
  <2>1. Held(new) = 0 /\ Held(new)' = orders[new].lots /\ Held(new)' > 0
    BY <1>2, <1>3, <1>6 DEF Held
  <2>2. ASSUME NEW id \in OrderIds
        PROVE  Offered(id)' = Offered(id)
    <3>1. Sells(id)' = Sells(id)
      BY <1>2, <1>6 DEF Sells, Rows
    <3>2. \A sell \in Sells(id) : orders'[sell].executed = orders[sell].executed
      BY <1>2, <1>5 DEF Sells, Rows
    <3>3. QED
      BY <3>1, <3>2 DEF Offered
  <2>3. UNCHANGED offeredNow
    BY <2>2 DEF offeredNow
  <2>4. heldNow' = [heldNow EXCEPT ![new] = Held(new)']
    BY <1>4 DEF heldNow
  <2>5. heldNow[new] = 0 /\ heldNow'[new] = Held(new)'
    BY <2>1 DEF heldNow
  <2>6. Book!Open(new)
    BY <2>1, <2>3, <2>4, <2>5 DEF Book!Open, heldNow, offeredNow
  <2>7. QED
    BY <2>6
<1>7. CASE orders[new].direction = "SELL"
  <2>1. PICK ref \in OrderIds : ref = orders[new].ref
    BY <1>2, <1>7 DEF IInv, BookOK, LinksOK, Rows
  <2>2. /\ ref \in Rows(orders) /\ orders[ref].ref = new /\ orders[ref].lots = orders[new].lots
        /\ orders[ref].direction # "SELL" /\ new # NoRef /\ ref # NoRef
    BY <1>2, <1>7, <2>1 DEF IInv, BookOK, LinksOK, OrderIds, NoRef
  <2>3. orders[ref].direction = "BUY" /\ Executed(ref)
    <3>1. orders[ref].direction = "BUY"
      BY <2>2 DEF IInv, StateOK, Tables, Rows, Row, Directions
    <3>2. QED
      BY <2>2, <3>1 DEF IInv, BookOK, LinksOK
  <2>4. Held(ref) = orders[new].lots /\ Held(ref) > 0
    BY <1>3, <2>2, <2>3 DEF Held, Executed
  <2>5. Sells(ref) = {}
    <3>1. ASSUME NEW sell \in Sells(ref)
          PROVE  FALSE
      <4>1. sell \in Rows(orders) /\ orders[sell].ref = ref /\ orders[sell].status = "FILL"
        BY DEF Sells
      <4>2. orders[ref].ref = sell
        BY <2>2, <4>1 DEF IInv, BookOK, LinksOK
      <4>3. QED
        BY <1>2, <2>2, <4>1, <4>2
    <3>2. QED
      BY <3>1
  <2>6. Sells(ref)' = {new}
    BY <1>2, <1>7, <2>1, <2>5 DEF Sells, Rows
  <2>7. Offered(ref) = {} /\ Offered(ref)' = {[sale |-> new, lots |-> Held(ref)]}
    BY <1>2, <2>4, <2>5, <2>6 DEF Offered
  <2>8. ASSUME NEW id \in OrderIds, id # ref
        PROVE  Offered(id)' = Offered(id)
    <3>1. Sells(id)' = Sells(id)
      BY <1>2, <2>1, <2>8 DEF Sells, Rows
    <3>2. \A sell \in Sells(id) : orders'[sell].executed = orders[sell].executed
      BY <1>2, <1>5 DEF Sells, Rows
    <3>3. QED
      BY <3>1, <3>2 DEF Offered
  <2>9. offeredNow' = [offeredNow EXCEPT ![ref] = {[sale |-> new, lots |-> heldNow[ref]]}]
    BY <2>7, <2>8 DEF offeredNow, heldNow
  <2>10. UNCHANGED heldNow
    <3>1. Held(new)' = Held(new)
      BY <1>2, <1>7 DEF Held
    <3>2. QED
      BY <1>4, <3>1 DEF heldNow
  <2>11. heldNow[ref] > 0 /\ offeredNow[ref] = {}
    BY <2>4, <2>7 DEF heldNow, offeredNow
  <2>12. Book!Offer(ref)
    BY <2>9, <2>10, <2>11 DEF Book!Offer, heldNow, offeredNow
  <2>13. QED
    BY <2>12
<1>8. QED
  BY <1>3, <1>6, <1>7

\* Every step of the test is a step of Positions or a stutter.
LEMMA NextRefines ==
    ASSUME IInv, [Next]_vars
    PROVE  [Book!Next]_<<heldNow, offeredNow>>
<1>1. CASE RecordOrder
  BY <1>1, RecordingStutters
<1>2. CASE PutOrderExecuted
  BY <1>2, ExecutionOpensOrOffers DEF Book!Next
<1>3. CASE UNCHANGED orders
  BY <1>3 DEF heldNow, offeredNow, Held, Offered, Sells
<1>4. Next => RecordOrder \/ PutOrderExecuted \/ UNCHANGED orders
  BY DEF Next, Trader, CheckContext, NextCandle, HistoryEnds, ErrorDelay, Decide, Waiter,
         StartWaiting, StopWaiting, ReadInstruments, ReadAccount, Interrupt, MakeBuyOrder,
         MakeSellOrder
<1>5. UNCHANGED vars => UNCHANGED orders
  BY DEF vars
<1>6. QED
  BY <1>1, <1>2, <1>3, <1>4, <1>5

\* ImplementsPositions: a test is a trader like any other, that offers each
\* bought order at most once, whole, and only when it is executed.
THEOREM TestImplementsPositions == Spec => ImplementsPositions
<1>1. Init => Book!Init
  BY DEF Init, Book!Init, Held, Offered, Sells, Rows, NoRow
<1>2. IInv /\ [Next]_vars => [Book!Next]_<<heldNow, offeredNow>>
  BY NextRefines
<1>3. QED
  BY <1>1, <1>2, Invariance, PTL DEF Spec, ImplementsPositions, Book!Spec, heldNow, offeredNow
=============================================================================
