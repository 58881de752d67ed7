--------------------------- MODULE TradingProofs ---------------------------
(***************************************************************************)
(* Proofs about Trading, for any number of orders, any ladder, any prices. *)
(*                                                                         *)
(* The promises are not inductive: SoldOnce, say, holds because the row of *)
(* a posted sell is still there and linked to the bought order, because an *)
(* action is undone only when it was not posted, because request ids are   *)
(* fresh.  IInv gathers these facts, one named part per idea.              *)
(*                                                                         *)
(* The last section proves that Trading implements Positions: a step of    *)
(* the exchange opens a position, a posting offers one, every other step   *)
(* is a stutter.                                                           *)
(***************************************************************************)
EXTENDS Trading, FiniteSetTheorems, SequenceTheorems, TLAPS

Pending == {"record", "post", "undo"}

\* The actions of the current iteration: at most the first one sells, and a
\* cursor points into them exactly while they are being worked off.
ActsOK ==
    /\ tpc \in Pending => cur \in 1 .. Len(acts)
    /\ tpc \notin Pending => acts = <<>> /\ cur = 1
    /\ Len(acts) <= 2
    /\ \A k \in 1 .. Len(acts) :
          /\ acts[k].lots >= 1
          /\ acts[k].action = "SELL" => k = 1
          /\ acts[k].action = "BUY" => acts[k].ref = NoRef

\* Ids not yet handed out mean nothing to anybody.
FreshOK ==
    \A id \in OrderIds : id >= nextId => id \notin Rows(orders) /\ ~Posted(id)

\* An action has its row, and the row is the action's.
Recorded(k) ==
    /\ acts[k].id \in Rows(orders) /\ acts[k].id < nextId
    /\ orders[acts[k].id].direction = acts[k].action
    /\ orders[acts[k].id].ref = acts[k].ref

\* A sell decided but not yet recorded: the bought order is still for sale,
\* for only this goroutine links rows.
SellPending ==
    tpc = "record" /\ cur = 1 /\ acts[1].action = "SELL" =>
        /\ acts[1].ref \in UnsoldBuys(orders)
        /\ market[acts[1].ref].direction = "BUY"
        /\ market[acts[1].ref].state = "filled"
        /\ market[acts[1].ref].executed = acts[1].lots

\* Recorded and not yet posted; the ids of two actions differ.
ProgressOK ==
    /\ \A k \in 1 .. Len(acts) :
          /\ tpc = "record" /\ k < cur => Recorded(k) /\ ~Posted(acts[k].id)
          /\ tpc \in {"post", "undo"} /\ k >= cur => Recorded(k)
          /\ tpc = "post" /\ k >= cur => ~Posted(acts[k].id)
          /\ tpc = "undo" /\ k > cur => ~Posted(acts[k].id)
    /\ \A k, l \in 1 .. Len(acts) :
          tpc \in {"post", "undo"} /\ k # l => acts[k].id # acts[l].id

\* The lots of a recorded sell are those of its executed bought order.
SellRecorded ==
    \A k \in 1 .. Len(acts) :
        /\ acts[k].action = "SELL"
        /\ (tpc = "record" /\ k < cur) \/ (tpc = "post" /\ k >= cur)
        => /\ acts[k].ref \in OrderIds
           /\ market[acts[k].ref].direction = "BUY"
           /\ market[acts[k].ref].state = "filled"
           /\ market[acts[k].ref].executed = acts[k].lots

MarketOK ==
    \A id \in OrderIds :
        /\ market[id].executed <= market[id].lots
        /\ Posted(id) => market[id].lots >= 1
        /\ market[id].state = "filled" => market[id].executed = market[id].lots

\* A report on its way says what was true when it was sent.
ReportsOK ==
    \A k \in 1 .. Len(stream) :
        LET report == stream[k]
        IN  /\ Posted(report.id)
            /\ report.direction = market[report.id].direction
            /\ report.executed <= market[report.id].executed
            /\ report.status = "FILL" =>
                  market[report.id].state = "filled" /\ report.executed = market[report.id].executed

\* So does a row; the row of an order not posted is as it was inserted.
RowsOK ==
    \A id \in Rows(orders) :
        /\ Posted(id) => orders[id].direction = market[id].direction
        /\ ~Posted(id) => orders[id].status = "NEW"

IInv ==
    /\ TypeOK /\ ActsOK /\ FreshOK /\ SellPending /\ ProgressOK /\ SellRecorded
    /\ MarketOK /\ ReportsOK /\ RowsOK /\ LinksAreMutual
    /\ StoreNeverAhead /\ SellsAreCovered

\* What holds in addition while no answer of the exchange is lost.
SellsHaveRows ==
    \A id \in OrderIds :
        Posted(id) /\ market[id].direction = "SELL" =>
            id \in Rows(orders) /\ orders[id].ref = market[id].sells

UndoneNotPosted == tpc = "undo" => ~Posted(acts[cur].id)

Linked == SellsHaveRows /\ UndoneNotPosted

-----------------------------------------------------------------------------
(* The strategy *)

\* The clamp makes of any integer a lot count that can be ordered.
LEMMA LotsAreOrderable ==
    ASSUME NEW lots \in Int
    PROVE  AtLeastOne(lots) \in Nat /\ AtLeastOne(lots) >= 1
BY DEF AtLeastOne

\* Every lot count the strategy asks to buy can be ordered, whatever the ladder.
LEMMA BuyActionType ==
    ASSUME NEW n \in Int
    PROVE  /\ BuyAction(n) \in Actions
           /\ BuyAction(n).action = "BUY" /\ BuyAction(n).lots >= 1
           /\ BuyAction(n).ref = NoRef
<1> DEFINE lots == LotsToBuy * (MaxDepth - n)
<1>1. LotsToBuy \in Int /\ MaxDepth \in Int
  BY StrategyAssumption
<1>2. MaxDepth - n \in Int
  BY <1>1
<1>3. lots \in Int
  BY <1>1, <1>2
<1> HIDE DEF lots
<1>4. AtLeastOne(lots) \in Nat /\ AtLeastOne(lots) >= 1
  BY <1>3, LotsAreOrderable
<1>5. BuyAction(n) = [action |-> "BUY", lots |-> AtLeastOne(lots), id |-> 0, ref |-> 0]
  BY DEF BuyAction, lots
<1>6. QED
  BY <1>4, <1>5 DEF Actions, Directions, NoRef

\* The strategy asks to sell exactly the lots it has read.
LEMMA SellActionType ==
    ASSUME NEW id \in OrderIds, NEW p, NEW n \in Nat, n >= 1
    PROVE  LET act == SellAction([id |-> id, price |-> p, lots |-> n])
           IN  /\ act \in Actions
               /\ act.action = "SELL" /\ act.lots = n /\ act.ref = id
BY DEF SellAction, AtLeastOne, Actions, Directions, NoRef

\* COUNT( * ) is a number: the table is finite.
LEMMA CountIsNat ==
    GetUnsoldOrdersAmount(orders) \in Nat
<1>1. IsFiniteSet(OrderIds)
  BY MaxOrdersAssumption, FS_Interval DEF OrderIds
<1>2. UnsoldBuys(orders) \subseteq OrderIds
  BY DEF UnsoldBuys, Rows
<1>3. QED
  BY <1>1, <1>2, FS_Subset, FS_CardinalityType DEF GetUnsoldOrdersAmount

-----------------------------------------------------------------------------
(* Steps that change only what the trading goroutine knows *)

Shared == <<orders, market, stream, nextId>>

\* The parts of IInv that only speak of what is shared.
LEMMA SharedUnchanged ==
    ASSUME IInv, UNCHANGED Shared
    PROVE  /\ FreshOK' /\ MarketOK' /\ ReportsOK' /\ RowsOK'
           /\ LinksAreMutual' /\ StoreNeverAhead' /\ SellsAreCovered'
BY DEF IInv, Shared, FreshOK, MarketOK, ReportsOK, RowsOK, LinksAreMutual,
       StoreNeverAhead, SellsAreCovered, Posted, Rows

\* An iteration that ends leaves no obligation behind.
LEMMA IterationEnds ==
    ASSUME EndIteration
    PROVE  /\ ActsOK' /\ SellPending' /\ ProgressOK' /\ SellRecorded'
           /\ tpc' = "price" /\ price' \in Nat /\ unsold' \in Nat
           /\ acts' \in Seq(Actions) /\ cur' \in Nat \ {0}
BY DEF EndIteration, ActsOK, SellPending, ProgressOK, SellRecorded, Pending

\* So an iteration may end at any point without touching what is shared.
LEMMA SharedAndEnd ==
    ASSUME IInv, UNCHANGED Shared, EndIteration
    PROVE  IInv'
<1>1. TypeOK'
  BY IterationEnds DEF IInv, TypeOK, Shared
<1>2. QED
  BY <1>1, SharedUnchanged, IterationEnds DEF IInv

\* The trading goroutine goes on reading.
LEMMA StillReading ==
    ASSUME IInv, UNCHANGED Shared, tpc \notin Pending, tpc' \notin Pending,
           tpc' \in {"price", "count", "lowest", "sold", "highest"},
           UNCHANGED <<acts, cur>>, price' \in Nat, unsold' \in Nat
    PROVE  IInv'
<1>1. TypeOK'
  BY DEF IInv, TypeOK, Shared
<1>2. ActsOK' /\ SellPending' /\ ProgressOK' /\ SellRecorded'
  BY DEF IInv, ActsOK, SellPending, ProgressOK, SellRecorded, Pending
<1>3. QED
  BY <1>1, <1>2, SharedUnchanged DEF IInv

\* An executed row is one of an order executed in full, so it has lots to sell.
LEMMA ForSale ==
    ASSUME IInv, NEW id \in ExecutedUnsoldBuys(orders)
    PROVE  /\ id \in OrderIds /\ orders[id].executed \in Nat /\ orders[id].executed >= 1
           /\ Posted(id) /\ market[id].state = "filled" /\ market[id].direction = "BUY"
           /\ market[id].executed = orders[id].executed
<1>1. id \in Rows(orders) /\ orders[id].direction = "BUY" /\ orders[id].status = "FILL"
  BY DEF ExecutedUnsoldBuys, UnsoldBuys
<1>2. id \in OrderIds /\ orders[id] \in Row
  BY <1>1 DEF IInv, TypeOK, Tables, Rows
<1>3. market[id].state = "filled" /\ orders[id].executed = market[id].executed
  BY <1>1 DEF IInv, StoreNeverAhead
<1>4. Posted(id)
  BY <1>3 DEF Posted, NotPosted
<1>5. QED
  BY <1>1, <1>2, <1>3, <1>4 DEF IInv, TypeOK, MarketOK, RowsOK, Row, ExchangeOrder

\* It has decided: to buy, to sell a bought order that is for sale, or both.
Sensible(actions) ==
    /\ actions \in Seq(Actions) /\ Len(actions) \in 1 .. 2
    /\ \A k \in 1 .. Len(actions) :
          /\ actions[k].lots >= 1
          /\ actions[k].action = "SELL" => k = 1
          /\ actions[k].action = "BUY" => actions[k].ref = NoRef
    /\ actions[1].action = "SELL" =>
          /\ actions[1].ref \in ExecutedUnsoldBuys(orders)
          /\ actions[1].lots = orders[actions[1].ref].executed

\* A sensible decision establishes what the recording of its orders needs.
LEMMA Decided ==
    ASSUME IInv, UNCHANGED Shared, tpc \notin Pending,
           NEW actions, Sensible(actions), Record(actions)
    PROVE  IInv'
<1>1. TypeOK'
  BY DEF IInv, TypeOK, Shared, Record, Sensible
<1>2. cur' = 1 /\ tpc' = "record" /\ acts' = actions
  BY DEF IInv, ActsOK, Record
<1>3. ActsOK'
  BY <1>2 DEF ActsOK, Sensible, Pending
<1>4. ASSUME actions[1].action = "SELL"
      PROVE  /\ actions[1].ref \in UnsoldBuys(orders)
             /\ market[actions[1].ref].direction = "BUY"
             /\ market[actions[1].ref].state = "filled"
             /\ market[actions[1].ref].executed = actions[1].lots
  BY <1>4, ForSale DEF Sensible, ExecutedUnsoldBuys
<1>5. SellPending'
  BY <1>2, <1>4 DEF SellPending, Shared, UnsoldBuys, Rows
<1>6. ProgressOK' /\ SellRecorded'
  BY <1>2 DEF ProgressOK, SellRecorded
<1>7. QED
  BY <1>1, <1>3, <1>5, <1>6, SharedUnchanged DEF IInv

\* To buy is sensible, however many orders are unsold.
LEMMA BuyIsSensible ==
    ASSUME NEW n \in Int
    PROVE  Sensible(<<BuyAction(n)>>)
<1>1. Len(<<BuyAction(n)>>) = 1 /\ <<BuyAction(n)>>[1] = BuyAction(n)
  OBVIOUS
<1>2. <<BuyAction(n)>> \in Seq(Actions)
  BY BuyActionType
<1>3. QED
  BY <1>1, <1>2, BuyActionType DEF Sensible

\* The rows the queries answer with can be sold.
LEMMA SellIsSensible ==
    ASSUME IInv, NEW id \in ExecutedUnsoldBuys(orders), NEW n \in Int
    PROVE  /\ Sensible(<<SellAction(Read(id))>>)
           /\ Sensible(<<SellAction(Read(id)), BuyAction(n)>>)
<1> DEFINE sell == SellAction(Read(id))
           buy  == BuyAction(n)
<1>1. /\ sell \in Actions /\ sell.action = "SELL"
      /\ sell.lots = orders[id].executed /\ sell.lots >= 1 /\ sell.ref = id
  BY ForSale, SellActionType DEF Read
<1>2. buy \in Actions /\ buy.action = "BUY" /\ buy.lots >= 1 /\ buy.ref = NoRef
  BY BuyActionType
<1> HIDE DEF sell, buy
<1>3. Sensible(<<sell>>)
  BY <1>1 DEF Sensible
<1>4. Sensible(<<sell, buy>>)
  <2>1. /\ <<sell, buy>> \in Seq(Actions) /\ Len(<<sell, buy>>) = 2
        /\ <<sell, buy>>[1] = sell /\ <<sell, buy>>[2] = buy
    BY <1>1, <1>2
  <2>2. \A k \in 1 .. Len(<<sell, buy>>) :
            \/ k = 1 /\ <<sell, buy>>[k] = sell
            \/ k = 2 /\ <<sell, buy>>[k] = buy
    BY <2>1
  <2>3. QED
    BY <2>1, <2>2, <1>1, <1>2 DEF Sensible
<1>5. QED
  BY <1>3, <1>4 DEF sell, buy

\* Whatever the row read, and whatever the decision.
LEMMA DecideKeepsIInv ==
    ASSUME IInv, tpc \in {"lowest", "sold"}, UNCHANGED Shared,
           NEW lowest, NEW existSold,
           lowest = NoOrder \/ \E id \in ExecutedUnsoldBuys(orders) : lowest = Read(id),
           Decide(lowest, existSold)
    PROVE  IInv'
<1> DEFINE decision == Decision(lowest, existSold, price)
<1>1. tpc \notin Pending /\ unsold \in Int /\ unsold \in Nat /\ price \in Nat
  BY DEF Pending, IInv, TypeOK
<1>2. CASE decision = "hold" /\ EndIteration
  BY <1>2, SharedAndEnd
<1>3. CASE decision = "sell" /\ Record(<<SellAction(lowest)>>)
  <2>1. lowest # NoOrder
    BY <1>3 DEF Decision
  <2>2. PICK id \in ExecutedUnsoldBuys(orders) : lowest = Read(id)
    BY <2>1
  <2>3. Sensible(<<SellAction(Read(id))>>)
    BY SellIsSensible, 0 \in Int
  <2>4. QED
    BY <1>1, <1>3, <2>2, <2>3, Decided
<1>4. CASE Record(<<BuyAction(unsold)>>)
  BY <1>1, <1>4, BuyIsSensible, Decided
<1>5. CASE tpc' = "highest" /\ UNCHANGED locals
  BY <1>1, <1>5, StillReading DEF locals, Pending
<1>6. QED
  BY <1>2, <1>3, <1>4, <1>5 DEF Decide

\* From the price to the decision, failures included.
LEMMA ReadingKeepsIInv ==
    ASSUME IInv,
           \/ \E lastPrice \in Prices : ReceivePrice(lastPrice)
           \/ CountUnsold \/ ReadLowest \/ ReadLatestSell \/ ReadHighest \/ ReadFails
    PROVE  IInv'
<1>1. CASE \E lastPrice \in Prices : ReceivePrice(lastPrice)
  BY <1>1, TradingAssumption, StillReading DEF ReceivePrice, Shared, Pending, IInv, TypeOK
<1>2. CASE CountUnsold
  BY <1>2, CountIsNat, StillReading DEF CountUnsold, Shared, Pending, IInv, TypeOK
<1>3. CASE ReadLowest
  <2>1. PICK lowest \in Answers(LowestExecutedBuys(orders)) :
            \/ lowest = NoOrder /\ tpc' = "sold" /\ UNCHANGED locals
            \/ lowest # NoOrder /\ Decide(lowest, TRUE)
    BY <1>3 DEF ReadLowest
  <2>2. lowest = NoOrder \/ \E id \in ExecutedUnsoldBuys(orders) : lowest = Read(id)
    BY DEF Answers, LowestExecutedBuys
  <2>3. UNCHANGED Shared /\ tpc = "lowest"
    BY <1>3 DEF ReadLowest, Shared
  <2>4. CASE lowest = NoOrder
    BY <2>1, <2>3, <2>4, StillReading DEF locals, Pending, IInv, TypeOK
  <2>5. CASE lowest # NoOrder
    BY <2>1, <2>2, <2>3, <2>5, DecideKeepsIInv
  <2>6. QED
    BY <2>4, <2>5
<1>4. CASE ReadLatestSell
  BY <1>4, DecideKeepsIInv DEF ReadLatestSell, Shared
<1>5. CASE ReadHighest
  <2>1. PICK highest \in Answers(HighestExecutedBuys(orders)) : Record(Rotation(highest, unsold))
    BY <1>5 DEF ReadHighest
  <2>2. highest = NoOrder \/ \E id \in ExecutedUnsoldBuys(orders) : highest = Read(id)
    BY DEF Answers, HighestExecutedBuys
  <2>3. unsold \in Int /\ unsold - 1 \in Int
    BY DEF IInv, TypeOK
  <2>4. Sensible(Rotation(highest, unsold))
    BY <2>2, <2>3, BuyIsSensible, SellIsSensible DEF Rotation
  <2>5. UNCHANGED Shared /\ tpc \notin Pending
    BY <1>5 DEF ReadHighest, Shared, Pending
  <2>6. QED
    BY <2>1, <2>4, <2>5, Decided
<1>6. CASE ReadFails
  BY <1>6, SharedAndEnd DEF ReadFails, Shared
<1>7. QED
  BY <1>1, <1>2, <1>3, <1>4, <1>5, <1>6

-----------------------------------------------------------------------------
(* Steps of the exchange *)

\* Whatever the exchange does, what it executed stays executed.
Grows ==
    \A id \in OrderIds :
        /\ market[id].executed <= market'[id].executed
        /\ Posted(id) => /\ Posted(id)'
                         /\ market'[id].direction = market[id].direction
                         /\ market'[id].lots = market[id].lots
                         /\ market'[id].sells = market[id].sells
        /\ market[id].state = "filled" => market'[id] = market[id]

\* A report is well formed and says what the exchange holds.
LEMMA ReportType ==
    ASSUME NEW id \in OrderIds, NEW order \in ExchangeOrder
    PROVE  LET report == Report(id, order)
           IN  /\ report \in Reports /\ report.id = id
               /\ report.direction = order.direction
               /\ report.executed = order.executed
               /\ report.status = "FILL" => order.state = "filled"
<1>1. /\ ReportStatus(order) \in Statuses
      /\ ReportStatus(order) = "FILL" => order.state = "filled"
  BY DEF ReportStatus, Statuses
<1>2. QED
  BY <1>1 DEF Report, Reports, ExchangeOrder

\* Reports on their way stay true when another one follows them.
LEMMA EmitKeepsReports ==
    ASSUME IInv, NEW id \in OrderIds, Posted(id)', Grows, Emit(id),
           market' \in [OrderIds -> ExchangeOrder \cup {NotPosted}]
    PROVE  stream' \in Seq(Reports) /\ ReportsOK'
<1> DEFINE report == Report(id, market'[id])
<1>1. market'[id] \in ExchangeOrder
  BY DEF Posted
<1>2. /\ report \in Reports /\ report.id = id
      /\ report.direction = market'[id].direction
      /\ report.executed = market'[id].executed
      /\ report.status = "FILL" => market'[id].state = "filled"
  BY <1>1, ReportType
<1>3. stream \in Seq(Reports) /\ ReportsOK /\ market \in [OrderIds -> ExchangeOrder \cup {NotPosted}]
  BY DEF IInv, TypeOK
<1> HIDE DEF report
<1>4. \A k \in 1 .. Len(stream) :
          /\ market'[stream[k].id].state # "none"
          /\ stream[k].direction = market'[stream[k].id].direction
          /\ stream[k].executed <= market'[stream[k].id].executed
          /\ stream[k].status = "FILL" =>
                /\ market'[stream[k].id].state = "filled"
                /\ stream[k].executed = market'[stream[k].id].executed
  <2>1. TAKE k \in 1 .. Len(stream)
  <2>2. stream[k] \in Reports /\ stream[k].id \in OrderIds
    <3>1. stream[k] \in Reports
      BY <1>3, ElementOfSeq
    <3>2. QED
      BY <3>1 DEF Reports
  <2>3. /\ Posted(stream[k].id)
        /\ stream[k].direction = market[stream[k].id].direction
        /\ stream[k].executed <= market[stream[k].id].executed
        /\ stream[k].status = "FILL" =>
              /\ market[stream[k].id].state = "filled"
              /\ stream[k].executed = market[stream[k].id].executed
    BY <1>3 DEF ReportsOK, Posted
  <2>4. market[stream[k].id].executed \in Nat /\ stream[k].executed \in Nat
    BY <1>3, <2>2 DEF Reports, ExchangeOrder, NotPosted
  <2>5. market'[stream[k].id].executed \in Nat
    BY <2>2 DEF ExchangeOrder, NotPosted
  <2>6. /\ market[stream[k].id].executed <= market'[stream[k].id].executed
        /\ market'[stream[k].id].state # "none"
        /\ market'[stream[k].id].direction = market[stream[k].id].direction
        /\ market[stream[k].id].state = "filled" => market'[stream[k].id] = market[stream[k].id]
    BY <2>2, <2>3 DEF Grows, Posted, ExchangeOrder, NotPosted
  <2>7. QED
    BY <2>3, <2>4, <2>5, <2>6
<1>5. CASE stream' = Append(stream, report)
  <2>1. /\ stream' \in Seq(Reports) /\ Len(stream') = Len(stream) + 1
        /\ \A k \in 1 .. Len(stream) : stream'[k] = stream[k]
        /\ stream'[Len(stream) + 1] = report
    BY <1>2, <1>3, <1>5
  <2>2. \A k \in 1 .. Len(stream') : k \in 1 .. Len(stream) \/ k = Len(stream) + 1
    BY <2>1, <1>3
  <2>3. market'[id].executed \in Nat /\ Posted(id)'
    BY <1>1 DEF ExchangeOrder, Posted, NotPosted
  <2>4. QED
    BY <1>2, <1>4, <2>1, <2>2, <2>3 DEF ReportsOK, Posted, NotPosted
<1>6. CASE stream' = stream
  BY <1>3, <1>4, <1>6 DEF ReportsOK, Posted, NotPosted
<1>7. QED
  BY <1>5, <1>6 DEF Emit, report

MarketType == market \in [OrderIds -> ExchangeOrder \cup {NotPosted}]

\* The table was never ahead of the exchange, so it is not when the exchange
\* goes further.
LEMMA GrowthKeepsTable ==
    ASSUME IInv, Grows, MarketType', UNCHANGED orders
    PROVE  StoreNeverAhead' /\ LinksAreMutual'
<1>1. LinksAreMutual'
  BY DEF IInv, LinksAreMutual, Rows
<1>2. ASSUME NEW id \in Rows(orders)
      PROVE  /\ orders[id].executed <= market'[id].executed
             /\ orders[id].status = "FILL" => /\ market'[id].state = "filled"
                                              /\ orders[id].executed = market'[id].executed
  <2>1. id \in OrderIds /\ orders[id] \in Row
    BY DEF IInv, TypeOK, Tables, Rows
  <2>2. /\ orders[id].executed \in Nat /\ market[id].executed \in Nat
        /\ market'[id].executed \in Nat
    BY <2>1 DEF IInv, TypeOK, MarketType, Row, ExchangeOrder, NotPosted
  <2>3. QED
    BY <2>1, <2>2 DEF IInv, StoreNeverAhead, Grows
<1>3. StoreNeverAhead'
  BY <1>2 DEF StoreNeverAhead, Rows
<1>4. QED
  BY <1>1, <1>3

\* A working order is executed further, or what is left of it cancelled.
LEMMA WorkingOrderChanges ==
    ASSUME IInv, NEW id \in OrderIds, market[id].state = "working",
           NEW new \in ExchangeOrder, market' = [market EXCEPT ![id] = new],
           new.direction = market[id].direction, new.lots = market[id].lots,
           new.sells = market[id].sells,
           market[id].executed <= new.executed, new.executed <= new.lots,
           new.state = "filled" => new.executed = new.lots,
           Emit(id), UNCHANGED <<orders, tpc, locals, nextId>>
    PROVE  IInv'
<1>1. MarketType /\ MarketType' /\ Posted(id) /\ Posted(id)'
  BY DEF IInv, TypeOK, MarketType, Posted, NotPosted, ExchangeOrder
<1>2. \A other \in OrderIds :
          /\ other # id => market'[other] = market[other]
          /\ other = id => market'[other] = new
          /\ Posted(other)' <=> Posted(other)
          /\ market[other].state = "filled" => market'[other] = market[other]
          /\ market'[other].direction = market[other].direction
          /\ market'[other].lots = market[other].lots
          /\ market'[other].sells = market[other].sells
  BY <1>1 DEF MarketType, Posted
<1>3. Grows
  BY <1>1, <1>2 DEF Grows, MarketType, ExchangeOrder, NotPosted
<1>4. stream' \in Seq(Reports) /\ ReportsOK'
  BY <1>1, <1>3, EmitKeepsReports DEF MarketType
<1>5. TypeOK'
  BY <1>1, <1>4 DEF IInv, TypeOK, MarketType, locals
<1>6. StoreNeverAhead' /\ LinksAreMutual'
  BY <1>1, <1>3, GrowthKeepsTable
<1>7. MarketOK'
  BY <1>2 DEF IInv, MarketOK, MarketType
<1>8. FreshOK' /\ RowsOK'
  BY <1>2 DEF IInv, FreshOK, RowsOK, Rows
<1>9. SellsAreCovered'
  <2>1. ASSUME NEW sell \in OrderIds, Posted(sell), market[sell].direction = "SELL"
        PROVE  /\ market[sell].sells \in OrderIds
               /\ market'[market[sell].sells] = market[market[sell].sells]
    BY <2>1, <1>2 DEF IInv, SellsAreCovered
  <2>2. QED
    BY <1>2, <2>1 DEF IInv, SellsAreCovered
<1>10. ActsOK' /\ SellPending'
  BY <1>2 DEF IInv, ActsOK, SellPending, locals, UnsoldBuys, Rows
<1>11. ProgressOK'
  <2>1. \A other \in Rows(orders) : Posted(other)' <=> Posted(other)
    BY <1>2 DEF Rows
  <2>2. /\ acts' = acts /\ cur' = cur /\ tpc' = tpc /\ cur \in Nat /\ Len(acts) \in Nat
        /\ orders' = orders /\ nextId' = nextId
    BY DEF locals, IInv, TypeOK
  <2>3. ASSUME NEW k \in 1 .. Len(acts), Recorded(k)
        PROVE  Recorded(k)' /\ (Posted(acts[k].id)' <=> Posted(acts[k].id))
    BY <2>1, <2>2, <2>3 DEF Recorded, Rows, Posted
  <2>4. ASSUME NEW k \in 1 .. Len(acts)
        PROVE  /\ tpc = "record" /\ k < cur => Recorded(k) /\ ~Posted(acts[k].id)
               /\ tpc \in {"post", "undo"} /\ k >= cur => Recorded(k)
               /\ tpc = "post" /\ k >= cur => ~Posted(acts[k].id)
               /\ tpc = "undo" /\ k > cur => Recorded(k) /\ ~Posted(acts[k].id)
    BY <2>2 DEF IInv, ProgressOK
  <2>5. QED
    BY <2>2, <2>3, <2>4 DEF IInv, ProgressOK
<1>12. SellRecorded'
  BY <1>2 DEF IInv, SellRecorded, locals
<1>13. QED
  BY <1>4, <1>5, <1>6, <1>7, <1>8, <1>9, <1>10, <1>11, <1>12 DEF IInv

\* Executing and cancelling, as the exchange pleases.
LEMMA ExchangeKeepsIInv ==
    ASSUME IInv, Exchange
    PROVE  IInv'
<1>1. ASSUME NEW id \in OrderIds, Cancel(id)
      PROVE  IInv'
  <2> DEFINE new == [market[id] EXCEPT !.state = "cancelled"]
  <2>1. market[id] \in ExchangeOrder /\ market[id].executed <= market[id].lots
    BY <1>1 DEF Cancel, IInv, TypeOK, NotPosted, MarketOK
  <2>2. /\ new \in ExchangeOrder /\ new.state = "cancelled"
        /\ new.executed = market[id].executed /\ new.direction = market[id].direction
        /\ new.lots = market[id].lots /\ new.sells = market[id].sells
        /\ market[id].executed <= new.executed /\ new.executed <= new.lots
        /\ new.state # "filled"
    BY <2>1 DEF ExchangeOrder
  <2>3. market' = [market EXCEPT ![id] = new]
    BY <1>1 DEF Cancel, IInv, TypeOK
  <2> HIDE DEF new
  <2>4. QED
    BY <1>1, <2>1, <2>2, <2>3, WorkingOrderChanges DEF Cancel
<1>2. ASSUME NEW id \in OrderIds, NEW lots \in 1 .. market[id].lots, Execute(id, lots)
      PROVE  IInv'
  <2> DEFINE total == market[id].executed + lots
             new   == [market[id] EXCEPT !.executed = total,
                          !.state = IF total = market[id].lots THEN "filled" ELSE "working"]
  <2>1. /\ market[id] \in ExchangeOrder
        /\ market[id].executed \in Nat /\ market[id].lots \in Nat
    BY <1>2 DEF Execute, IInv, TypeOK, NotPosted, ExchangeOrder
  <2>2. total \in Nat /\ market[id].executed <= total /\ total <= market[id].lots
    BY <1>2, <2>1 DEF Execute
  <2>3. /\ new \in ExchangeOrder /\ new.executed = total
        /\ new.direction = market[id].direction
        /\ new.lots = market[id].lots /\ new.sells = market[id].sells
        /\ new.state = "filled" => total = market[id].lots
    BY <2>1, <2>2 DEF ExchangeOrder
  <2>4. market' = [market EXCEPT ![id] = new]
    BY <1>2, <2>1 DEF Execute, IInv, TypeOK
  <2> HIDE DEF new
  <2>5. QED
    BY <1>2, <2>1, <2>2, <2>3, <2>4, WorkingOrderChanges DEF Execute
<1>3. QED
  BY <1>1, <1>2 DEF Exchange

-----------------------------------------------------------------------------
(* Steps of the orders goroutine *)

\* A report changes neither the links nor what the two sides of an order are.
LEMMA ReportedRows ==
    ASSUME IInv, ApplyReport
    PROVE  LET report == Head(stream)
           IN  /\ report \in Reports /\ Posted(report.id)
               /\ report.executed <= market[report.id].executed
               /\ report.status = "FILL" =>
                     /\ market[report.id].state = "filled"
                     /\ report.executed = market[report.id].executed
               /\ orders' \in Tables /\ Rows(orders') = Rows(orders)
               /\ \A id \in Rows(orders) :
                     /\ orders'[id].ref = orders[id].ref
                     /\ orders'[id].direction = orders[id].direction
                     /\ id # report.id => orders'[id] = orders[id]
                     /\ id = report.id => /\ orders'[id].status = report.status
                                          /\ orders'[id].executed = report.executed
<1> DEFINE report == Head(stream)
<1>1. /\ stream \in Seq(Reports) /\ stream # <<>> /\ stream' = Tail(stream)
      /\ orders' = UpdateOrder(orders, report)
      /\ market' = market /\ UNCHANGED <<tpc, locals, nextId>>
  BY DEF ApplyReport, IInv, TypeOK
<1>2. /\ report \in Reports /\ report = stream[1]
      /\ stream' \in Seq(Reports) /\ Len(stream') = Len(stream) - 1
      /\ \A k \in 1 .. Len(stream') : k + 1 \in 1 .. Len(stream) /\ stream'[k] = stream[k + 1]
  BY <1>1
<1>3. /\ Posted(report.id) /\ report.direction = market[report.id].direction
      /\ report.executed <= market[report.id].executed
      /\ report.status = "FILL" =>
            market[report.id].state = "filled" /\ report.executed = market[report.id].executed
  BY <1>1, <1>2 DEF IInv, ReportsOK
<1> HIDE DEF report
<1>5. orders \in Tables /\ report.id \in OrderIds
  BY <1>2 DEF IInv, TypeOK, Reports
<1>6. \A id \in OrderIds :
          /\ id \in Rows(orders) =>
                orders'[id] \in Row /\ orders'[id].ref = orders[id].ref
                /\ orders'[id].direction = orders[id].direction
          /\ id \notin Rows(orders) => orders'[id] = NoRow
          /\ id # report.id => orders'[id] = orders[id]
          /\ id \in Rows(orders) /\ id = report.id =>
                orders'[id].status = report.status /\ orders'[id].executed = report.executed
  <2>1. report.direction \in Directions /\ report.status \in Statuses
        /\ report.price \in Nat /\ report.executed \in Nat
    BY <1>2 DEF Reports
  <2>2. report.id \in Rows(orders) => orders[report.id].direction = report.direction
    BY <1>3 DEF IInv, RowsOK
  <2>3. ASSUME NEW id \in OrderIds, id \in Rows(orders), id = report.id
        PROVE  /\ orders[id] \in Row
               /\ orders'[id] = [orders[id] EXCEPT !.direction = report.direction,
                                    !.status = report.status, !.price = report.price,
                                    !.executed = report.executed]
    BY <1>1, <1>5, <2>3 DEF UpdateOrder, Tables, Rows
  <2>4. ASSUME NEW id \in OrderIds, id \notin Rows(orders) \/ id # report.id
        PROVE  orders'[id] = orders[id] /\ (id \in Rows(orders) => orders[id] \in Row)
    BY <1>1, <1>5, <2>4 DEF UpdateOrder, Tables, Rows
  <2>5. ASSUME NEW id \in OrderIds, id \in Rows(orders), id = report.id
        PROVE  /\ orders'[id] \in Row /\ orders'[id].ref = orders[id].ref
               /\ orders'[id].direction = orders[id].direction
               /\ orders'[id].status = report.status /\ orders'[id].executed = report.executed
    BY <2>1, <2>2, <2>3, <2>5 DEF Row
  <2>6. ASSUME NEW id \in OrderIds, id \notin Rows(orders)
        PROVE  orders'[id] = NoRow
    BY <2>4, <2>6 DEF Rows
  <2>7. QED
    BY <2>4, <2>5, <2>6
<1>7. orders' \in Tables
  BY <1>1, <1>6 DEF UpdateOrder, Tables
<1>8. Rows(orders') = Rows(orders)
  BY <1>6 DEF Rows, Row, NoRow, Directions
<1>9. QED
  BY <1>2, <1>3, <1>6, <1>7, <1>8 DEF report, Rows

\* A report, however late, keeps the table behind the exchange.
LEMMA ApplyReportKeepsIInv ==
    ASSUME IInv, ApplyReport
    PROVE  IInv'
<1> DEFINE report == Head(stream)
<1>1. /\ stream \in Seq(Reports) /\ stream # <<>> /\ stream' = Tail(stream)
      /\ orders' = UpdateOrder(orders, report)
      /\ market' = market /\ UNCHANGED <<tpc, locals, nextId>>
  BY DEF ApplyReport, IInv, TypeOK
<1>2. /\ report \in Reports /\ report = stream[1]
      /\ stream' \in Seq(Reports) /\ Len(stream') = Len(stream) - 1
      /\ \A k \in 1 .. Len(stream') : k + 1 \in 1 .. Len(stream) /\ stream'[k] = stream[k + 1]
  BY <1>1
<1>3. /\ report \in Reports /\ Posted(report.id)
      /\ report.executed <= market[report.id].executed
      /\ report.status = "FILL" =>
            market[report.id].state = "filled" /\ report.executed = market[report.id].executed
      /\ orders' \in Tables /\ Rows(orders') = Rows(orders)
      /\ \A id \in Rows(orders) :
            /\ orders'[id].ref = orders[id].ref
            /\ orders'[id].direction = orders[id].direction
            /\ id # report.id => orders'[id] = orders[id]
            /\ id = report.id => /\ orders'[id].status = report.status
                                 /\ orders'[id].executed = report.executed
  BY ReportedRows
<1>4. ReportsOK'
  BY <1>1, <1>2 DEF IInv, ReportsOK, Posted
<1> HIDE DEF report
<1>9. TypeOK'
  BY <1>1, <1>2, <1>3 DEF IInv, TypeOK, locals
<1>10. LinksAreMutual'
  BY <1>3 DEF IInv, LinksAreMutual, Rows
<1>11. RowsOK'
  BY <1>1, <1>3 DEF IInv, RowsOK, Rows, Posted
<1>12. StoreNeverAhead'
  BY <1>1, <1>3 DEF IInv, StoreNeverAhead, Rows
<1>13. FreshOK' /\ MarketOK' /\ SellsAreCovered'
  BY <1>1, <1>3 DEF IInv, FreshOK, MarketOK, SellsAreCovered, Posted
<1>14. UnsoldBuys(orders') = UnsoldBuys(orders)
  BY <1>3 DEF UnsoldBuys, Rows
<1>15. ActsOK' /\ SellPending' /\ SellRecorded'
  BY <1>1, <1>14 DEF IInv, ActsOK, SellPending, SellRecorded, locals
<1>16. ProgressOK'
  <2>1. ASSUME NEW k \in 1 .. Len(acts), Recorded(k)
        PROVE  Recorded(k)'
    BY <1>1, <1>3, <2>1 DEF Recorded, locals, Rows
  <2>2. QED
    BY <1>1, <2>1 DEF IInv, ProgressOK, Posted, locals
<1>17. QED
  BY <1>4, <1>9, <1>10, <1>11, <1>12, <1>13, <1>15, <1>16 DEF IInv

\* A report skipped or not stored is lost, and that is all.
LEMMA DropReportKeepsIInv ==
    ASSUME IInv, DropReport
    PROVE  IInv'
<1>1. /\ stream \in Seq(Reports) /\ stream # <<>> /\ stream' = Tail(stream)
      /\ UNCHANGED <<orders, market, tpc, locals, nextId>>
  BY DEF DropReport, IInv, TypeOK
<1>2. /\ stream' \in Seq(Reports) /\ Len(stream') = Len(stream) - 1
      /\ \A k \in 1 .. Len(stream') : k + 1 \in 1 .. Len(stream) /\ stream'[k] = stream[k + 1]
  BY <1>1
<1>3. ReportsOK'
  BY <1>1, <1>2 DEF IInv, ReportsOK, Posted
<1>4. TypeOK'
  BY <1>1, <1>2 DEF IInv, TypeOK, locals
<1>5. /\ FreshOK' /\ MarketOK' /\ RowsOK' /\ LinksAreMutual'
      /\ StoreNeverAhead' /\ SellsAreCovered'
  BY <1>1 DEF IInv, FreshOK, MarketOK, RowsOK, LinksAreMutual, StoreNeverAhead,
              SellsAreCovered, Posted, Rows
<1>6. ActsOK' /\ SellPending' /\ ProgressOK' /\ SellRecorded'
  BY <1>1 DEF IInv, ActsOK, SellPending, ProgressOK, SellRecorded, Recorded, Posted,
              Rows, UnsoldBuys, locals
<1>7. QED
  BY <1>3, <1>4, <1>5, <1>6 DEF IInv

\* A restart forgets an iteration and the reports on their way.
LEMMA CrashKeepsIInv ==
    ASSUME IInv, Crash
    PROVE  IInv'
<1>1. EndIteration /\ stream' = <<>> /\ UNCHANGED <<orders, market, nextId>>
  BY DEF Crash
<1>2. ReportsOK'
  BY <1>1 DEF ReportsOK
<1>3. TypeOK'
  BY <1>1, IterationEnds DEF IInv, TypeOK
<1>4. /\ FreshOK' /\ MarketOK' /\ RowsOK' /\ LinksAreMutual'
      /\ StoreNeverAhead' /\ SellsAreCovered'
  BY <1>1 DEF IInv, FreshOK, MarketOK, RowsOK, LinksAreMutual, StoreNeverAhead,
              SellsAreCovered, Posted, Rows
<1>5. QED
  BY <1>1, <1>2, <1>3, <1>4, IterationEnds DEF IInv

-----------------------------------------------------------------------------
(* Steps of the trading goroutine that write *)

CurrentAct == acts[cur]

\* The cursor points at an action.
LEMMA CurrentActType ==
    ASSUME IInv, tpc \in Pending
    PROVE  /\ cur \in 1 .. Len(acts) /\ CurrentAct \in Actions /\ CurrentAct.lots >= 1
           /\ CurrentAct.action = "SELL" => cur = 1
           /\ CurrentAct.action = "BUY" => CurrentAct.ref = NoRef
<1>1. cur \in 1 .. Len(acts) /\ acts \in Seq(Actions)
  BY DEF IInv, ActsOK, TypeOK
<1>2. CurrentAct \in Actions
  BY <1>1, ElementOfSeq DEF CurrentAct
<1>3. QED
  BY <1>1, <1>2 DEF IInv, ActsOK, CurrentAct

\* A link changes nothing else of a row.
LEMMA Relinked ==
    ASSUME NEW row \in Row, NEW ref \in OrderIds \cup {NoRef}
    PROVE  LET linked == [row EXCEPT !.ref = ref]
           IN  /\ linked \in Row /\ linked # NoRow /\ linked.ref = ref
               /\ linked.direction = row.direction /\ linked.status = row.status
               /\ linked.executed = row.executed
BY DEF Row, NoRow, Directions

\* The row of an action joins the table; of the others at most the bought
\* order it refers to changes, in its link.
LEMMA PutOrderKeepsTable ==
    ASSUME IInv, tpc = "record", nextId \in OrderIds, nextId' = nextId + 1,
           orders' = PutOrder(orders, nextId, NewRow(CurrentAct)),
           UNCHANGED <<market, stream>>
    PROVE  /\ orders' \in Tables /\ nextId' \in 1 .. MaxOrders + 1
           /\ FreshOK' /\ MarketOK' /\ ReportsOK' /\ RowsOK'
           /\ LinksAreMutual' /\ StoreNeverAhead' /\ SellsAreCovered'
           /\ nextId \notin Rows(orders) /\ ~Posted(nextId)
           /\ orders'[nextId] = NewRow(CurrentAct) /\ nextId \in Rows(orders')
           /\ \A id \in OrderIds \ {nextId, CurrentAct.ref} : orders'[id] = orders[id]
<1> DEFINE act == CurrentAct
           row == NewRow(act)
<1>1. /\ act \in Actions /\ act.lots >= 1
      /\ act.action = "SELL" => cur = 1
      /\ act.action = "BUY" => act.ref = NoRef
  BY CurrentActType DEF Pending
<1>2. /\ row \in Row /\ row # NoRow /\ row.direction = act.action /\ row.ref = act.ref
      /\ row.status = "NEW" /\ row.executed = 0
  BY <1>1 DEF NewRow, Row, NoRow, Actions, Directions, Statuses, IInv, TypeOK
<1>3. nextId \notin Rows(orders) /\ ~Posted(nextId)
  BY DEF IInv, FreshOK, TypeOK, OrderIds
<1>4. orders \in Tables /\ nextId \in Nat /\ MaxOrders \in Nat
  BY MaxOrdersAssumption DEF IInv, TypeOK, OrderIds
<1>5. \/ act.action = "BUY" /\ act.ref = NoRef
      \/ /\ act.action = "SELL" /\ act.ref \in Rows(orders) /\ act.ref \in OrderIds
         /\ act.ref # nextId /\ orders[act.ref] \in Row
         /\ orders[act.ref].ref = NoRef /\ orders[act.ref].direction = "BUY"
  <2>1. CASE act.action = "SELL"
    <3>1. act.ref \in UnsoldBuys(orders)
      BY <1>1, <2>1 DEF IInv, SellPending, CurrentAct
    <3>2. QED
      BY <1>3, <1>4, <2>1, <3>1 DEF UnsoldBuys, Rows, Tables
  <2>2. QED
    BY <1>1, <2>1 DEF Actions, Directions
<1> HIDE DEF act, row
<1>6. \A id \in OrderIds :
          /\ id = nextId => orders'[id] = row
          /\ id # nextId /\ id # act.ref => orders'[id] = orders[id]
          /\ id = act.ref => orders'[id] = [orders[id] EXCEPT !.ref = nextId]
  BY <1>2, <1>4, <1>5 DEF PutOrder, act, row, NoRef, OrderIds
<1>7. orders' \in Tables /\ nextId' \in 1 .. MaxOrders + 1
  <2>1. orders' = [id \in OrderIds |-> orders'[id]]
    BY DEF PutOrder
  <2>2. ASSUME NEW id \in OrderIds
        PROVE  orders'[id] \in Row \cup {NoRow}
    <3>1. CASE id = act.ref
      <4>1. orders[id] \in Row /\ orders'[id] = [orders[id] EXCEPT !.ref = nextId]
        BY <1>5, <1>6, <3>1 DEF OrderIds, NoRef
      <4>2. QED
        BY <4>1, Relinked
    <3>2. QED
      BY <1>2, <1>4, <1>6, <3>1 DEF Tables
  <2>3. QED
    BY <1>4, <2>1, <2>2 DEF Tables, OrderIds
<1>8. \A id \in OrderIds :
          /\ id \in Rows(orders') <=> id \in Rows(orders) \/ id = nextId
          /\ id # nextId => /\ orders'[id].direction = orders[id].direction
                            /\ orders'[id].status = orders[id].status
                            /\ orders'[id].executed = orders[id].executed
  <2>1. ASSUME NEW id \in OrderIds, id = act.ref
        PROVE  /\ id \in Rows(orders') /\ id \in Rows(orders) /\ id # nextId
               /\ orders'[id].direction = orders[id].direction
               /\ orders'[id].status = orders[id].status
               /\ orders'[id].executed = orders[id].executed
    <3>1. id \in Rows(orders) /\ orders[id] \in Row /\ id # nextId
      BY <1>5, <2>1 DEF OrderIds, NoRef
    <3>2. orders'[id] = [orders[id] EXCEPT !.ref = nextId]
      BY <1>6, <2>1
    <3>3. QED
      BY <3>1, <3>2, Relinked DEF Rows
  <2>2. QED
    BY <1>2, <1>6, <2>1 DEF Rows
<1>9. FreshOK'
  <2>1. ASSUME NEW id \in OrderIds, id >= nextId + 1
        PROVE  id \notin Rows(orders) /\ id # nextId /\ ~Posted(id)
    BY <1>4, <2>1 DEF IInv, FreshOK, OrderIds
  <2>2. QED
    BY <1>8, <2>1 DEF FreshOK, Posted
<1>10. MarketOK' /\ ReportsOK' /\ SellsAreCovered'
  BY DEF IInv, MarketOK, ReportsOK, SellsAreCovered, Posted
<1>11. RowsOK'
  <2>1. ASSUME NEW id \in Rows(orders')
        PROVE  /\ Posted(id) => orders'[id].direction = market[id].direction
               /\ ~Posted(id) => orders'[id].status = "NEW"
    <3>1. id \in OrderIds
      BY DEF Rows
    <3>2. CASE id = nextId
      BY <1>2, <1>3, <1>6, <3>1, <3>2
    <3>3. CASE id # nextId
      BY <1>8, <3>1, <3>3 DEF IInv, RowsOK
    <3>4. QED
      BY <3>2, <3>3
  <2>2. QED
    BY <2>1 DEF RowsOK, Rows, Posted
<1>12. StoreNeverAhead'
  <2>1. market[nextId] = NotPosted
    BY <1>3 DEF Posted
  <2>2. ASSUME NEW id \in Rows(orders')
        PROVE  /\ orders'[id].executed <= market[id].executed
               /\ orders'[id].status = "FILL" => /\ market[id].state = "filled"
                                                 /\ orders'[id].executed = market[id].executed
    <3>1. id \in OrderIds
      BY DEF Rows
    <3>2. CASE id = nextId
      <4>1. NotPosted.executed = 0
        BY DEF NotPosted
      <4>2. market[id].executed = 0
        BY <2>1, <3>2, <4>1
      <4>3. orders'[id] = row
        BY <1>6, <3>1, <3>2
      <4>4. QED
        BY <1>2, <4>2, <4>3
    <3>3. CASE id # nextId
      BY <1>8, <3>1, <3>3 DEF IInv, StoreNeverAhead
    <3>4. QED
      BY <3>2, <3>3
  <2>3. QED
    BY <2>2 DEF StoreNeverAhead, Rows
<1>13. LinksAreMutual'
  <2>1. ASSUME NEW id \in Rows(orders')
        PROVE  /\ orders'[id].direction = "SELL" => orders'[id].ref # NoRef
               /\ orders'[id].ref # NoRef =>
                      /\ orders'[id].ref \in Rows(orders')
                      /\ orders'[orders'[id].ref].ref = id
                      /\ orders'[orders'[id].ref].direction # orders'[id].direction
    <3>1. id \in OrderIds
      BY DEF Rows
    <3>2. CASE id = nextId
      <4>1. orders'[id] = row
        BY <1>6, <3>1, <3>2
      <4>2. CASE act.action = "BUY"
        BY <1>2, <1>5, <4>1, <4>2 DEF act, row
      <4>3. CASE act.action = "SELL"
        <5>1. /\ act.ref \in OrderIds /\ act.ref \in Rows(orders')
              /\ orders'[act.ref] = [orders[act.ref] EXCEPT !.ref = nextId]
              /\ orders[act.ref] \in Row /\ orders[act.ref].direction = "BUY"
          BY <1>5, <1>6, <1>8, <4>3
        <5>2. orders'[act.ref].ref = nextId /\ orders'[act.ref].direction = "BUY"
          BY <5>1, Relinked
        <5>3. row.ref = act.ref /\ act.ref # NoRef /\ row.direction = "SELL"
          BY <1>2, <4>3, <5>1 DEF OrderIds, NoRef
        <5>4. QED
          BY <3>2, <4>1, <5>1, <5>2, <5>3
      <4>4. QED
        BY <1>5, <4>2, <4>3
    <3>3. CASE id = act.ref
      <4>1. /\ act.action = "SELL" /\ orders[id] \in Row /\ orders[id].direction = "BUY"
            /\ orders'[id] = [orders[id] EXCEPT !.ref = nextId]
        BY <1>5, <1>6, <3>1, <3>3 DEF OrderIds, NoRef
      <4>2. orders'[id].ref = nextId /\ orders'[id].direction = "BUY"
        BY <4>1, Relinked
      <4>3. orders'[nextId] = row /\ nextId \in Rows(orders')
        BY <1>6, <1>8
      <4>4. QED
        BY <1>2, <3>3, <4>1, <4>2, <4>3 DEF OrderIds, NoRef
    <3>4. CASE id # nextId /\ id # act.ref
      <4>1. orders'[id] = orders[id] /\ id \in Rows(orders)
        BY <1>6, <1>8, <3>1, <3>4
      <4>2. ASSUME orders[id].ref # NoRef
            PROVE  /\ orders[id].ref \in Rows(orders) /\ orders[id].ref \in OrderIds
                   /\ orders[orders[id].ref].ref = id
                   /\ orders[orders[id].ref].direction # orders[id].direction
                   /\ orders[id].ref # nextId /\ orders[id].ref # act.ref
        <5>1. /\ orders[id].ref \in Rows(orders)
              /\ orders[orders[id].ref].ref = id
              /\ orders[orders[id].ref].direction # orders[id].direction
          BY <4>1, <4>2 DEF IInv, LinksAreMutual
        <5>2. id # NoRef
          BY <3>1 DEF OrderIds, NoRef
        <5>3. QED
          BY <1>3, <1>5, <5>1, <5>2 DEF Rows, OrderIds, NoRef
      <4>3. orders[id].direction = "SELL" => orders[id].ref # NoRef
        BY <4>1 DEF IInv, LinksAreMutual
      <4>4. QED
        BY <1>6, <1>8, <4>1, <4>2, <4>3
    <3>5. QED
      BY <3>2, <3>3, <3>4
  <2>2. QED
    BY <2>1 DEF LinksAreMutual, Rows
<1>14. orders'[nextId] = NewRow(CurrentAct) /\ nextId \in Rows(orders')
  BY <1>6, <1>8 DEF act, row
<1>15. QED
  BY <1>3, <1>6, <1>7, <1>9, <1>10, <1>11, <1>12, <1>13, <1>14 DEF act

\* Recording one action: its row, its link, its id.
LEMMA RecordOrderKeepsIInv ==
    ASSUME IInv, RecordOrder
    PROVE  IInv'
<1>1. /\ tpc = "record" /\ nextId \in OrderIds /\ nextId' = nextId + 1
      /\ orders' = PutOrder(orders, nextId, NewRow(CurrentAct))
      /\ acts' = [acts EXCEPT ![cur] = [acts[cur] EXCEPT !.id = nextId]]
      /\ UNCHANGED <<market, stream, price, unsold>>
      /\ \/ cur < Len(acts) /\ cur' = cur + 1 /\ tpc' = "record"
         \/ ~(cur < Len(acts)) /\ cur' = 1 /\ tpc' = "post"
  BY DEF RecordOrder, CurrentAct
<1>2. /\ orders' \in Tables /\ nextId' \in 1 .. MaxOrders + 1
      /\ FreshOK' /\ MarketOK' /\ ReportsOK' /\ RowsOK'
      /\ LinksAreMutual' /\ StoreNeverAhead' /\ SellsAreCovered'
      /\ nextId \notin Rows(orders) /\ ~Posted(nextId)
      /\ orders'[nextId] = NewRow(CurrentAct) /\ nextId \in Rows(orders')
      /\ \A id \in OrderIds \ {nextId, CurrentAct.ref} : orders'[id] = orders[id]
  BY <1>1, PutOrderKeepsTable
<1>3. /\ cur \in 1 .. Len(acts) /\ CurrentAct \in Actions /\ CurrentAct.lots >= 1
      /\ CurrentAct.action = "SELL" => cur = 1
      /\ CurrentAct.action = "BUY" => CurrentAct.ref = NoRef
      /\ acts \in Seq(Actions) /\ Len(acts) <= 2 /\ Len(acts) \in Nat /\ nextId \in Nat
  BY <1>1, CurrentActType DEF Pending, IInv, ActsOK, TypeOK, OrderIds
<1>4. /\ acts' \in Seq(Actions) /\ Len(acts') = Len(acts)
      /\ \A k \in 1 .. Len(acts) : k # cur => acts'[k] = acts[k]
      /\ acts'[cur].id = nextId /\ acts'[cur].action = CurrentAct.action
      /\ acts'[cur].lots = CurrentAct.lots /\ acts'[cur].ref = CurrentAct.ref
  <2> DEFINE act == [acts[cur] EXCEPT !.id = nextId]
  <2>1. /\ act \in Actions /\ act.id = nextId /\ act.action = CurrentAct.action
        /\ act.lots = CurrentAct.lots /\ act.ref = CurrentAct.ref
    BY <1>1, <1>3 DEF Actions, CurrentAct
  <2> HIDE DEF act
  <2>2. acts' = [acts EXCEPT ![cur] = act]
    BY <1>1 DEF act
  <2>3. acts' \in Seq(Actions) /\ Len(acts') = Len(acts)
    BY <1>3, <2>1, <2>2, ExceptSeq
  <2>4. \A k \in 1 .. Len(acts) : acts'[k] = IF k = cur THEN act ELSE acts[k]
    BY <1>3, <2>2
  <2>5. QED
    BY <1>3, <2>1, <2>3, <2>4
<1>5. TypeOK'
  BY <1>1, <1>2, <1>3, <1>4 DEF IInv, TypeOK
<1>6. ActsOK'
  <2>1. ASSUME NEW k \in 1 .. Len(acts')
        PROVE  /\ acts'[k].lots >= 1
               /\ acts'[k].action = "SELL" => k = 1
               /\ acts'[k].action = "BUY" => acts'[k].ref = NoRef
    <3>1. CASE k = cur
      BY <1>3, <1>4, <3>1
    <3>2. CASE k # cur
      BY <1>4, <3>2 DEF IInv, ActsOK
    <3>3. QED
      BY <3>1, <3>2
  <2>2. QED
    BY <1>1, <1>3, <1>4, <2>1 DEF ActsOK, Pending
<1>7. SellPending'
  BY <1>1, <1>3 DEF SellPending
<1>8. ASSUME NEW k \in 1 .. Len(acts), k <= cur
      PROVE  /\ Recorded(k)'
             /\ acts'[k].id \in OrderIds /\ market'[acts'[k].id] = NotPosted
             /\ k < cur => acts'[k].id # nextId
  <2>1. CASE k = cur
    <3>1. /\ acts'[k].id = nextId /\ nextId \in Rows(orders') /\ nextId < nextId'
          /\ orders'[nextId].direction = CurrentAct.action
          /\ orders'[nextId].ref = CurrentAct.ref
      BY <1>1, <1>2, <1>3, <1>4, <2>1 DEF NewRow
    <3>2. Recorded(k)'
      BY <1>4, <2>1, <3>1 DEF Recorded
    <3>3. market'[nextId] = NotPosted
      BY <1>1, <1>2 DEF Posted
    <3>4. QED
      BY <1>1, <1>3, <2>1, <3>1, <3>2, <3>3
  <2>2. CASE k < cur
    <3>1. /\ Recorded(k) /\ ~Posted(acts[k].id) /\ acts'[k] = acts[k]
      BY <1>1, <1>3, <1>4, <2>2 DEF IInv, ProgressOK
    <3>2. CurrentAct.ref = NoRef
      BY <1>3, <2>2 DEF Actions, Directions
    <3>3. /\ acts[k].id \in OrderIds /\ acts[k].id # nextId /\ acts[k].id # NoRef
      BY <1>2, <3>1 DEF Recorded, Rows, OrderIds, NoRef
    <3>4. orders'[acts[k].id] = orders[acts[k].id]
      BY <1>2, <3>2, <3>3
    <3>5. acts[k].id \in Rows(orders') /\ acts[k].id < nextId'
      BY <1>1, <1>3, <3>1, <3>3, <3>4 DEF Recorded, Rows, OrderIds
    <3>6. Recorded(k)'
      BY <3>1, <3>4, <3>5 DEF Recorded
    <3>7. QED
      BY <1>1, <3>1, <3>3, <3>6 DEF Posted
  <2>3. QED
    BY <1>3, <1>8, <2>1, <2>2
<1>9. ProgressOK'
  <2>1. ASSUME NEW k \in 1 .. Len(acts'), tpc' = "record", k < cur'
        PROVE  Recorded(k)' /\ market'[acts'[k].id] = NotPosted
    BY <1>1, <1>3, <1>4, <1>8, <2>1
  <2>2. ASSUME NEW k \in 1 .. Len(acts'), tpc' = "post"
        PROVE  Recorded(k)' /\ market'[acts'[k].id] = NotPosted
    BY <1>1, <1>3, <1>4, <1>8, <2>2
  <2>3. ASSUME NEW k \in 1 .. Len(acts'), NEW l \in 1 .. Len(acts'), tpc' = "post", k # l
        PROVE  acts'[k].id # acts'[l].id
    <3>1. k \in 1 .. cur /\ l \in 1 .. cur /\ cur \in 1 .. 2
      BY <1>1, <1>3, <1>4, <2>3
    <3>2. (k < cur /\ l = cur) \/ (k = cur /\ l < cur)
      BY <2>3, <3>1
    <3>3. QED
      BY <1>4, <1>8, <3>1, <3>2
  <2>4. tpc' \in {"record", "post"}
    BY <1>1
  <2>5. QED
    BY <2>1, <2>2, <2>3, <2>4 DEF ProgressOK, Posted
<1>10. SellRecorded'
  <2>1. ASSUME NEW k \in 1 .. Len(acts'), acts'[k].action = "SELL", k <= cur
        PROVE  /\ acts'[k].ref \in OrderIds
               /\ market[acts'[k].ref].direction = "BUY"
               /\ market[acts'[k].ref].state = "filled"
               /\ market[acts'[k].ref].executed = acts'[k].lots
    <3>1. CASE k = cur
      BY <1>1, <1>3, <1>4, <2>1, <3>1
         DEF IInv, SellPending, CurrentAct, UnsoldBuys, Rows
    <3>2. CASE k < cur
      BY <1>1, <1>3, <1>4, <2>1, <3>2 DEF IInv, SellRecorded
    <3>3. QED
      BY <1>3, <1>4, <2>1, <3>1, <3>2
  <2>2. ASSUME NEW k \in 1 .. Len(acts'),
               (tpc' = "record" /\ k < cur') \/ (tpc' = "post" /\ k >= cur')
        PROVE  k <= cur
    BY <1>1, <1>3, <1>4, <2>2
  <2>3. QED
    BY <1>1, <2>1, <2>2 DEF SellRecorded
<1>11. QED
  BY <1>2, <1>5, <1>6, <1>7, <1>9, <1>10 DEF IInv

\* A recording that fails, before or after its commit.
LEMMA RecordFailsKeepsIInv ==
    ASSUME IInv, RecordFails
    PROVE  IInv'
<1>1. /\ tpc = "record" /\ nextId \in OrderIds /\ nextId' = nextId + 1
      /\ EndIteration /\ UNCHANGED <<market, stream>>
      /\ orders' = orders \/ orders' = PutOrder(orders, nextId, NewRow(CurrentAct))
  BY DEF RecordFails, CurrentAct
<1>2. /\ orders' \in Tables /\ nextId' \in 1 .. MaxOrders + 1
      /\ FreshOK' /\ MarketOK' /\ ReportsOK' /\ RowsOK'
      /\ LinksAreMutual' /\ StoreNeverAhead' /\ SellsAreCovered'
  <2>1. CASE orders' = orders
    <3>1. nextId \in Nat /\ nextId' \in 1 .. MaxOrders + 1 /\ nextId < nextId'
      BY <1>1, MaxOrdersAssumption DEF OrderIds
    <3>2. FreshOK'
      <4>1. \A id \in OrderIds : id \in Nat /\ (id >= nextId' => id >= nextId)
        BY <1>1, <3>1 DEF OrderIds
      <4>2. QED
        BY <1>1, <2>1, <4>1 DEF IInv, FreshOK, Posted, Rows
    <3>3. QED
      BY <1>1, <2>1, <3>1, <3>2
         DEF IInv, TypeOK, MarketOK, ReportsOK, RowsOK, LinksAreMutual,
             StoreNeverAhead, SellsAreCovered, Posted, Rows
  <2>2. CASE orders' = PutOrder(orders, nextId, NewRow(CurrentAct))
    BY <1>1, <2>2, PutOrderKeepsTable
  <2>3. QED
    BY <1>1, <2>1, <2>2
<1>3. TypeOK'
  BY <1>1, <1>2, IterationEnds DEF IInv, TypeOK
<1>4. QED
  BY <1>1, <1>2, <1>3, IterationEnds DEF IInv

\* The order of the current action joins the market; no other changes.
LEMMA AcceptKeepsMarket ==
    ASSUME IInv, tpc = "post", UNCHANGED <<orders, nextId>>,
           NEW executionPrice \in Prices, Accept(CurrentAct, executionPrice)
    PROVE  /\ MarketType' /\ stream' \in Seq(Reports)
           /\ FreshOK' /\ MarketOK' /\ ReportsOK' /\ RowsOK'
           /\ LinksAreMutual' /\ StoreNeverAhead' /\ SellsAreCovered'
           /\ CurrentAct.id \in OrderIds
           /\ market'[CurrentAct.id].direction = CurrentAct.action
           /\ market'[CurrentAct.id].sells = CurrentAct.ref
           /\ \A id \in OrderIds \ {CurrentAct.id} : market'[id] = market[id]
           /\ \A id \in OrderIds : market[id].state = "filled" => market'[id] = market[id]
<1> DEFINE act == CurrentAct
           new == [state |-> "working", direction |-> act.action, lots |-> act.lots,
                   executed |-> 0, price |-> executionPrice, sells |-> act.ref]
<1>1. /\ act \in Actions /\ act.lots >= 1 /\ cur \in 1 .. Len(acts) /\ cur <= cur
      /\ act.action = "BUY" => act.ref = NoRef
  BY CurrentActType DEF Pending, IInv, TypeOK
<1>2. /\ act.id \in Rows(orders) /\ act.id < nextId /\ ~Posted(act.id)
      /\ orders[act.id].direction = act.action /\ orders[act.id].ref = act.ref
  BY <1>1 DEF IInv, TypeOK, ProgressOK, Recorded, CurrentAct
<1>3. /\ new \in ExchangeOrder /\ new # NotPosted /\ new.state = "working"
      /\ new.executed = 0 /\ new.lots >= 1 /\ new.direction = act.action
      /\ new.lots = act.lots /\ new.sells = act.ref
  BY <1>1, TradingAssumption DEF Actions, ExchangeOrder, NotPosted
<1>4. act.id \in OrderIds
  BY <1>2 DEF Rows
<1>5. market' = [market EXCEPT ![act.id] = new] /\ Emit(act.id)
  BY DEF Accept
<1> HIDE DEF act, new
<1>6. MarketType
  BY DEF IInv, TypeOK, MarketType
<1>7. \A id \in OrderIds :
          /\ id = act.id => market'[id] = new
          /\ id # act.id => market'[id] = market[id]
  BY <1>5, <1>6 DEF MarketType
<1>8. MarketType'
  BY <1>3, <1>4, <1>5, <1>6 DEF MarketType
<1>9. market[act.id] = NotPosted /\ market[act.id].executed = 0
      /\ market[act.id].state = "none"
  <2>1. market[act.id] = NotPosted
    BY <1>2 DEF Posted
  <2>2. NotPosted.executed = 0 /\ NotPosted.state = "none"
    BY DEF NotPosted
  <2>3. QED
    BY <2>1, <2>2
<1>10. \A id \in OrderIds : /\ market[id].state = "filled" => market'[id] = market[id]
                            /\ Posted(id) => id # act.id
                            /\ market'[id] # NotPosted <=> id = act.id \/ Posted(id)
  BY <1>3, <1>4, <1>7, <1>9 DEF Posted
<1>11. Grows
  <2>1. ASSUME NEW id \in OrderIds
        PROVE  market[id].executed <= market'[id].executed
    <3>1. market[id].executed \in Nat
      BY <1>6 DEF MarketType, ExchangeOrder, NotPosted
    <3>2. QED
      BY <1>3, <1>7, <1>9, <3>1
  <2>2. QED
    BY <1>7, <1>10, <2>1 DEF Grows, Posted
<1>12. stream' \in Seq(Reports) /\ ReportsOK'
  BY <1>4, <1>5, <1>8, <1>10, <1>11, EmitKeepsReports DEF MarketType, Posted
<1>13. StoreNeverAhead' /\ LinksAreMutual'
  BY <1>8, <1>11, GrowthKeepsTable
<1>14. FreshOK'
  <2>1. nextId \in Nat /\ act.id \in Nat
    BY <1>4 DEF IInv, TypeOK, OrderIds
  <2>2. \A id \in OrderIds : id >= nextId => id # act.id
    BY <1>2, <1>4, <2>1 DEF OrderIds
  <2>3. QED
    BY <1>10, <2>2 DEF IInv, FreshOK, Posted, Rows
<1>15. MarketOK'
  <2>1. ASSUME NEW id \in OrderIds
        PROVE  /\ market'[id].executed <= market'[id].lots
               /\ market'[id] # NotPosted => market'[id].lots >= 1
               /\ market'[id].state = "filled" => market'[id].executed = market'[id].lots
    <3>1. CASE id = act.id
      <4>1. act.lots \in Nat
        BY <1>1 DEF Actions, act
      <4>2. QED
        BY <1>3, <1>7, <3>1, <4>1
    <3>2. CASE id # act.id
      BY <1>7, <3>2 DEF IInv, MarketOK, Posted
    <3>3. QED
      BY <3>1, <3>2
  <2>2. QED
    BY <2>1 DEF MarketOK, Posted
<1>16. RowsOK'
  <2>1. ASSUME NEW id \in Rows(orders)
        PROVE  /\ market'[id] # NotPosted => orders[id].direction = market'[id].direction
               /\ market'[id] = NotPosted => orders[id].status = "NEW"
    <3>1. id \in OrderIds
      BY DEF Rows
    <3>2. CASE id = act.id
      BY <1>2, <1>3, <1>7, <3>1, <3>2
    <3>3. CASE id # act.id
      BY <1>7, <3>1, <3>3 DEF IInv, RowsOK, Posted
    <3>4. QED
      BY <3>2, <3>3
  <2>2. QED
    BY <2>1 DEF RowsOK, Rows, Posted
<1>17. SellsAreCovered'
  <2>1. ASSUME NEW id \in OrderIds, market'[id] # NotPosted, market'[id].direction = "SELL"
        PROVE  /\ market'[id].sells \in OrderIds
               /\ market'[market'[id].sells].direction = "BUY"
               /\ market'[market'[id].sells].state = "filled"
               /\ market'[market'[id].sells].executed = market'[id].lots
    <3>1. CASE id = act.id
      <4>1. /\ act.action = "SELL" /\ market'[id].sells = act.ref /\ market'[id].lots = act.lots
        BY <1>3, <1>7, <2>1, <3>1
      <4>2. /\ act.ref \in OrderIds /\ market[act.ref].direction = "BUY"
            /\ market[act.ref].state = "filled" /\ market[act.ref].executed = act.lots
        BY <1>1, <4>1 DEF IInv, SellRecorded, act, CurrentAct, TypeOK
      <4>3. QED
        BY <1>10, <4>1, <4>2
    <3>2. CASE id # act.id
      <4>1. market'[id] = market[id] /\ Posted(id)
        BY <1>7, <2>1, <3>2 DEF Posted
      <4>2. /\ market[id].sells \in OrderIds
            /\ market[market[id].sells].direction = "BUY"
            /\ market[market[id].sells].state = "filled"
            /\ market[market[id].sells].executed = market[id].lots
        BY <2>1, <4>1 DEF IInv, SellsAreCovered
      <4>3. QED
        BY <1>10, <4>1, <4>2
    <3>3. QED
      BY <3>1, <3>2
  <2>2. QED
    BY <2>1 DEF SellsAreCovered, Posted
<1>18. QED
  BY <1>3, <1>4, <1>7, <1>8, <1>10, <1>12, <1>13, <1>14, <1>15, <1>16, <1>17 DEF act

\* What is left to post after the current action is still recorded and unposted.
LEMMA OthersStillUnposted ==
    ASSUME IInv, tpc = "post", UNCHANGED <<orders, nextId, acts>>,
           NEW executionPrice \in Prices, Accept(CurrentAct, executionPrice),
           NEW k \in 1 .. Len(acts), k > cur
    PROVE  Recorded(k)' /\ acts'[k].id \in OrderIds /\ market'[acts'[k].id] = NotPosted
<1>1. \A id \in OrderIds \ {CurrentAct.id} : market'[id] = market[id]
  BY AcceptKeepsMarket
<1>2. /\ cur \in 1 .. Len(acts) /\ k >= cur /\ k # cur
      /\ Recorded(k) /\ ~Posted(acts[k].id) /\ acts[k].id # acts[cur].id
  BY CurrentActType DEF Pending, IInv, ProgressOK, TypeOK
<1>3. acts[k].id \in OrderIds
  BY <1>2 DEF Recorded, Rows
<1>4. market'[acts[k].id] = NotPosted
  BY <1>1, <1>2, <1>3 DEF Posted, CurrentAct
<1>5. QED
  BY <1>2, <1>3, <1>4 DEF Recorded, Rows

\* Posting one action: the sell is covered by what was known of the row.
LEMMA PostOrderKeepsIInv ==
    ASSUME IInv, PostOrder
    PROVE  IInv'
<1>1. PICK executionPrice \in Prices : Accept(CurrentAct, executionPrice)
  BY DEF PostOrder, CurrentAct
<1>2. /\ tpc = "post" /\ UNCHANGED <<orders, nextId>>
      /\ \/ cur < Len(acts) /\ cur' = cur + 1 /\ UNCHANGED <<tpc, price, unsold, acts>>
         \/ EndIteration
  BY DEF PostOrder
<1>3. /\ MarketType' /\ stream' \in Seq(Reports)
      /\ FreshOK' /\ MarketOK' /\ ReportsOK' /\ RowsOK'
      /\ LinksAreMutual' /\ StoreNeverAhead' /\ SellsAreCovered'
      /\ \A id \in OrderIds : market[id].state = "filled" => market'[id] = market[id]
  BY <1>1, <1>2, AcceptKeepsMarket
<1>4. CASE EndIteration
  <2>1. TypeOK'
    BY <1>2, <1>3, <1>4, IterationEnds DEF IInv, TypeOK, MarketType
  <2>2. QED
    BY <1>3, <1>4, <2>1, IterationEnds DEF IInv
<1>5. CASE cur < Len(acts) /\ cur' = cur + 1 /\ UNCHANGED <<tpc, price, unsold, acts>>
  <2>1. cur \in 1 .. Len(acts) /\ Len(acts) \in Nat /\ cur \in Nat
    BY <1>2, CurrentActType DEF Pending, IInv, TypeOK
  <2>2. TypeOK'
    BY <1>2, <1>3, <1>5, <2>1 DEF IInv, TypeOK, MarketType
  <2>3. ActsOK' /\ SellPending'
    BY <1>2, <1>5, <2>1 DEF IInv, ActsOK, SellPending
  <2>4. ProgressOK'
    <3>1. ASSUME NEW k \in 1 .. Len(acts), k >= cur'
          PROVE  Recorded(k)' /\ market'[acts'[k].id] = NotPosted
      <4>1. k > cur
        BY <1>5, <2>1, <3>1
      <4>2. QED
        BY <1>1, <1>2, <1>5, <4>1, OthersStillUnposted
    <3>2. \A k, l \in 1 .. Len(acts) : k # l => acts[k].id # acts[l].id
      BY <1>2 DEF IInv, ProgressOK
    <3>3. QED
      BY <1>2, <1>5, <3>1, <3>2 DEF ProgressOK, Posted
  <2>5. SellRecorded'
    <3>1. ASSUME NEW k \in 1 .. Len(acts), acts[k].action = "SELL", k >= cur'
          PROVE  FALSE
      BY <1>5, <2>1, <3>1 DEF IInv, ActsOK
    <3>2. QED
      BY <1>2, <1>5, <3>1 DEF SellRecorded
  <2>6. QED
    BY <1>3, <2>2, <2>3, <2>4, <2>5 DEF IInv
<1>6. QED
  BY <1>2, <1>4, <1>5

\* The posting whose answer is lost is a posting to everybody but the trader.
LEMMA PostAnswerLostKeepsIInv ==
    ASSUME IInv, PostAnswerLost
    PROVE  IInv'
<1>1. PICK executionPrice \in Prices : Accept(CurrentAct, executionPrice)
  BY DEF PostAnswerLost, CurrentAct
<1>2. /\ tpc = "post" /\ tpc' = "undo" /\ UNCHANGED <<orders, nextId, price, unsold, acts, cur>>
  BY DEF PostAnswerLost, locals
<1>3. /\ MarketType' /\ stream' \in Seq(Reports)
      /\ FreshOK' /\ MarketOK' /\ ReportsOK' /\ RowsOK'
      /\ LinksAreMutual' /\ StoreNeverAhead' /\ SellsAreCovered'
  BY <1>1, <1>2, AcceptKeepsMarket
<1>4. TypeOK'
  BY <1>2, <1>3 DEF IInv, TypeOK, MarketType
<1>5. ActsOK' /\ SellPending' /\ SellRecorded'
  BY <1>2 DEF IInv, ActsOK, SellPending, SellRecorded, Pending
<1>6. ProgressOK'
  <2>1. ASSUME NEW k \in 1 .. Len(acts), k > cur
        PROVE  market'[acts'[k].id] = NotPosted
    BY <1>1, <1>2, <2>1, OthersStillUnposted
  <2>2. ASSUME NEW k \in 1 .. Len(acts), k >= cur
        PROVE  Recorded(k)'
    BY <1>2, <2>2 DEF IInv, ProgressOK, Recorded, Rows
  <2>3. \A k, l \in 1 .. Len(acts) : k # l => acts[k].id # acts[l].id
    BY <1>2 DEF IInv, ProgressOK
  <2>4. QED
    BY <1>2, <2>1, <2>2, <2>3 DEF ProgressOK, Posted
<1>7. QED
  BY <1>3, <1>4, <1>5, <1>6 DEF IInv

\* A posting refused leaves only the trader changed.
LEMMA PostRejectedKeepsIInv ==
    ASSUME IInv, PostRejected
    PROVE  IInv'
<1>1. /\ tpc = "post" /\ tpc' = "undo" /\ UNCHANGED Shared
      /\ UNCHANGED <<price, unsold, acts, cur>>
  BY DEF PostRejected, locals, Shared
<1>2. TypeOK'
  BY <1>1 DEF IInv, TypeOK, Shared
<1>3. ActsOK' /\ SellPending' /\ SellRecorded'
  BY <1>1 DEF IInv, ActsOK, SellPending, SellRecorded, Pending
<1>4. ProgressOK'
  <2>1. cur \in Nat /\ Len(acts) \in Nat
    BY DEF IInv, TypeOK
  <2>2. ASSUME NEW k \in 1 .. Len(acts), k >= cur
        PROVE  Recorded(k)' /\ market'[acts'[k].id] = NotPosted
    BY <1>1, <2>2 DEF IInv, ProgressOK, Recorded, Rows, Posted, Shared
  <2>3. \A k \in 1 .. Len(acts) : k > cur => k >= cur
    BY <2>1
  <2>4. \A k, l \in 1 .. Len(acts) : k # l => acts[k].id # acts[l].id
    BY <1>1 DEF IInv, ProgressOK
  <2>5. QED
    BY <1>1, <2>2, <2>3, <2>4 DEF ProgressOK, Posted
<1>5. QED
  BY <1>1, <1>2, <1>3, <1>4, SharedUnchanged DEF IInv

\* The row goes, and the only row linked to it is released.
LEMMA UndoOrderKeepsIInv ==
    ASSUME IInv, UndoOrder
    PROVE  IInv'
<1> DEFINE act == CurrentAct
<1>1. /\ tpc = "undo" /\ orders' = RemoveOrder(orders, act.id, act.ref)
      /\ EndIteration /\ UNCHANGED <<market, stream, nextId>>
  BY DEF UndoOrder, CurrentAct
<1>2. /\ act.id \in Rows(orders) /\ orders[act.id].ref = act.ref
      /\ act.id \in OrderIds /\ orders \in Tables
  <2>1. cur \in 1 .. Len(acts) /\ cur >= cur
    BY <1>1, CurrentActType DEF Pending, IInv, TypeOK
  <2>2. Recorded(cur)
    BY <1>1, <2>1 DEF IInv, ProgressOK
  <2>3. QED
    BY <2>2 DEF Recorded, Rows, IInv, TypeOK, CurrentAct
<1> HIDE DEF act
<1>3. \A id \in OrderIds :
          /\ id = act.id => orders'[id] = NoRow
          /\ id # act.id /\ id = act.ref /\ id \in Rows(orders) =>
                orders'[id] = [orders[id] EXCEPT !.ref = NoRef]
          /\ id # act.id /\ (id # act.ref \/ id \notin Rows(orders)) => orders'[id] = orders[id]
  BY <1>1 DEF RemoveOrder
<1>4. ASSUME NEW id \in OrderIds, id # act.id
      PROVE  /\ orders'[id] \in Row \cup {NoRow}
             /\ id \in Rows(orders') <=> id \in Rows(orders)
             /\ orders'[id].direction = orders[id].direction
             /\ orders'[id].status = orders[id].status
             /\ orders'[id].executed = orders[id].executed
  <2>1. CASE id = act.ref /\ id \in Rows(orders)
    <3>1. orders[id] \in Row /\ orders'[id] = [orders[id] EXCEPT !.ref = NoRef]
      BY <1>2, <1>3, <1>4, <2>1 DEF Tables, Rows
    <3>2. QED
      BY <2>1, <3>1, Relinked DEF Rows
  <2>2. CASE id # act.ref \/ id \notin Rows(orders)
    BY <1>2, <1>3, <1>4, <2>2 DEF Tables, Rows
  <2>3. QED
    BY <2>1, <2>2
<1>5. orders' \in Tables
  <2>1. orders' = [id \in OrderIds |-> orders'[id]]
    BY <1>1 DEF RemoveOrder
  <2>2. \A id \in OrderIds : orders'[id] \in Row \cup {NoRow}
    BY <1>3, <1>4
  <2>3. QED
    BY <2>1, <2>2 DEF Tables
<1>6. \A id \in Rows(orders') : id \in OrderIds /\ id # act.id /\ id \in Rows(orders)
  BY <1>3, <1>4 DEF Rows
<1>7. TypeOK'
  BY <1>1, <1>5, IterationEnds DEF IInv, TypeOK
<1>8. FreshOK' /\ MarketOK' /\ ReportsOK' /\ SellsAreCovered'
  BY <1>1, <1>6 DEF IInv, FreshOK, MarketOK, ReportsOK, SellsAreCovered, Posted
<1>9. RowsOK'
  BY <1>1, <1>4, <1>6 DEF IInv, RowsOK, Posted
<1>10. StoreNeverAhead'
  BY <1>1, <1>4, <1>6 DEF IInv, StoreNeverAhead
<1>11. ASSUME NEW id \in Rows(orders')
       PROVE  /\ orders'[id].direction = "SELL" => orders'[id].ref # NoRef
              /\ orders'[id].ref # NoRef =>
                     /\ orders'[id].ref \in Rows(orders')
                     /\ orders'[orders'[id].ref].ref = id
                     /\ orders'[orders'[id].ref].direction # orders'[id].direction
  <2>1. id \in OrderIds /\ id # act.id /\ id \in Rows(orders)
    BY <1>6
  <2>2. CASE id = act.ref
    <3>1. orders'[id].ref = NoRef
      <4>1. orders[id] \in Row /\ orders'[id] = [orders[id] EXCEPT !.ref = NoRef]
        BY <1>2, <1>3, <2>1, <2>2 DEF Tables, Rows
      <4>2. QED
        BY <4>1, Relinked
    <3>2. orders[act.id].direction # orders[id].direction /\ orders[id].ref = act.id
      BY <1>2, <2>1, <2>2 DEF IInv, LinksAreMutual, OrderIds, NoRef
    <3>3. orders'[id].direction # "SELL"
      <4>1. orders[act.id].direction = "SELL"
        <5>1. act.action # "BUY"
          BY <1>1, <2>1, <2>2, CurrentActType DEF act, Pending, OrderIds, NoRef
        <5>2. act \in Actions
          BY <1>1, CurrentActType DEF act, Pending
        <5>3. orders[act.id].direction = act.action
          BY <1>1, CurrentActType DEF act, CurrentAct, Pending, IInv, ProgressOK, Recorded, TypeOK
        <5>4. QED
          BY <5>1, <5>2, <5>3 DEF Actions, Directions
      <4>2. QED
        BY <1>4, <2>1, <3>2, <4>1
    <3>4. QED
      BY <3>1, <3>3
  <2>3. CASE id # act.ref
    <3>1. orders'[id] = orders[id]
      BY <1>3, <2>1, <2>3
    <3>2. ASSUME orders[id].ref # NoRef
          PROVE  /\ orders[id].ref \in Rows(orders) /\ orders[id].ref \in OrderIds
                 /\ orders[orders[id].ref].ref = id
                 /\ orders[orders[id].ref].direction # orders[id].direction
      BY <2>1, <3>2 DEF IInv, LinksAreMutual, Rows
    <3>3. ASSUME orders[id].ref # NoRef
          PROVE  orders[id].ref # act.id /\ orders[id].ref # act.ref
      <4>1. orders[id].ref # act.id
        BY <1>2, <2>3, <3>2, <3>3
      <4>2. ASSUME orders[id].ref = act.ref
            PROVE  FALSE
        <5>1. act.ref # NoRef /\ orders[act.ref].ref = id
          BY <3>2, <3>3, <4>2
        <5>2. orders[act.ref].ref = act.id
          BY <1>2, <5>1 DEF IInv, LinksAreMutual
        <5>3. QED
          BY <2>1, <5>1, <5>2
      <4>3. QED
        BY <4>1, <4>2
    <3>4. orders[id].ref # NoRef => orders'[orders[id].ref] = orders[orders[id].ref]
      BY <1>3, <3>2, <3>3
    <3>5. QED
      BY <1>4, <2>1, <3>1, <3>2, <3>3, <3>4 DEF IInv, LinksAreMutual
  <2>4. QED
    BY <2>2, <2>3
<1>12. LinksAreMutual'
  BY <1>11 DEF LinksAreMutual
<1>13. QED
  BY <1>1, <1>7, <1>8, <1>9, <1>10, <1>12, IterationEnds DEF IInv

-----------------------------------------------------------------------------
(* The theorems *)

\* An empty table and an empty account.
LEMMA InitIInv ==
    ASSUME Init
    PROVE  IInv
<1>1. \A id \in OrderIds : orders[id] = NoRow /\ market[id] = NotPosted
  BY DEF Init
<1>2. Rows(orders) = {}
  BY <1>1 DEF Rows
<1>3. TypeOK
  BY MaxOrdersAssumption DEF Init, TypeOK, Tables
<1>4. NotPosted.executed = 0 /\ NotPosted.lots = 0 /\ NotPosted.state = "none"
  BY DEF NotPosted
<1>5. MarketOK /\ FreshOK /\ SellsAreCovered
  BY <1>1, <1>2, <1>4 DEF MarketOK, FreshOK, SellsAreCovered, Posted
<1>6. ActsOK /\ SellPending /\ ProgressOK /\ SellRecorded /\ ReportsOK
  BY DEF Init, ActsOK, SellPending, ProgressOK, SellRecorded, ReportsOK, Pending
<1>7. RowsOK /\ LinksAreMutual /\ StoreNeverAhead
  BY <1>2 DEF RowsOK, LinksAreMutual, StoreNeverAhead
<1>8. QED
  BY <1>3, <1>5, <1>6, <1>7 DEF IInv

\* Every step of Next, and stuttering.
LEMMA NextIInv ==
    ASSUME IInv, [Next]_vars
    PROVE  IInv'
<1>1. CASE Trader
  <2>1. CASE \/ \E lastPrice \in Prices : ReceivePrice(lastPrice)
             \/ CountUnsold \/ ReadLowest \/ ReadLatestSell \/ ReadHighest \/ ReadFails
    BY <2>1, ReadingKeepsIInv
  <2>2. CASE RecordOrder
    BY <2>2, RecordOrderKeepsIInv
  <2>3. CASE RecordFails
    BY <2>3, RecordFailsKeepsIInv
  <2>4. CASE PostOrder
    BY <2>4, PostOrderKeepsIInv
  <2>5. CASE PostRejected
    BY <2>5, PostRejectedKeepsIInv
  <2>6. CASE PostAnswerLost
    BY <2>6, PostAnswerLostKeepsIInv
  <2>7. CASE UndoOrder
    BY <2>7, UndoOrderKeepsIInv
  <2>8. CASE UndoFails
    BY <2>8, SharedAndEnd DEF UndoFails, Shared
  <2>9. QED
    BY <1>1, <2>1, <2>2, <2>3, <2>4, <2>5, <2>6, <2>7, <2>8 DEF Trader
<1>2. CASE ApplyReport
  BY <1>2, ApplyReportKeepsIInv
<1>3. CASE DropReport
  BY <1>3, DropReportKeepsIInv
<1>4. CASE Exchange
  BY <1>4, ExchangeKeepsIInv
<1>5. CASE Crash
  BY <1>5, CrashKeepsIInv
<1>6. CASE UNCHANGED vars
  <2>1. UNCHANGED Shared /\ UNCHANGED <<tpc, price, unsold, acts, cur>>
    BY <1>6 DEF vars, locals, Shared
  <2>2. TypeOK'
    BY <2>1 DEF IInv, TypeOK, Shared
  <2>3. ActsOK' /\ SellPending' /\ ProgressOK' /\ SellRecorded'
    BY <2>1 DEF IInv, ActsOK, SellPending, ProgressOK, SellRecorded, Recorded, Posted,
                Rows, UnsoldBuys, Shared
  <2>4. QED
    BY <2>1, <2>2, <2>3, SharedUnchanged DEF IInv
<1>7. QED
  BY <1>1, <1>2, <1>3, <1>4, <1>5, <1>6 DEF Next, OrdersOperating

\* The strengthened invariant, from which the promises follow one by one.
THEOREM Invariance == Spec => []IInv
<1>1. Init => IInv
  BY InitIInv
<1>2. IInv /\ [Next]_vars => IInv'
  BY NextIInv
<1>3. QED
  BY <1>1, <1>2, PTL DEF Spec

\* Every lot count, price and reference stays a legal one, for any ladder and
\* whatever fails: the strategy's subtraction is always caught by its clamp.
THEOREM TypeCorrect == Spec => []TypeOK
<1>1. IInv => TypeOK
  BY DEF IInv
<1>2. QED
  BY <1>1, Invariance, PTL

\* Links stay mutual whatever fails, lost answers included.
THEOREM LinksStayMutual == Spec => []LinksAreMutual
<1>1. IInv => LinksAreMutual
  BY DEF IInv
<1>2. QED
  BY <1>1, Invariance, PTL

\* The table is never ahead of the exchange, whatever fails.
THEOREM StoreStaysBehind == Spec => []StoreNeverAhead
<1>1. IInv => StoreNeverAhead
  BY DEF IInv
<1>2. QED
  BY <1>1, Invariance, PTL

\* Every sell is covered by an executed bought order, whatever fails.
THEOREM SellsStayCovered == Spec => []SellsAreCovered
<1>1. IInv => SellsAreCovered
  BY DEF IInv
<1>2. QED
  BY <1>1, Invariance, PTL

-----------------------------------------------------------------------------
(* No bought order is sold twice, while no answer is lost *)

\* A posted sell and its bought order point at each other.
LEMMA PostedSellIsLinked ==
    ASSUME IInv, SellsHaveRows, NEW id \in OrderIds, Posted(id), market[id].direction = "SELL"
    PROVE  /\ id \in Rows(orders) /\ orders[id].ref = market[id].sells
           /\ orders[id].ref \in OrderIds /\ orders[id].ref # NoRef
           /\ orders[orders[id].ref].ref = id
           /\ Posted(orders[id].ref) /\ market[orders[id].ref].direction = "BUY"
<1>1. id \in Rows(orders) /\ orders[id].ref = market[id].sells
  BY DEF SellsHaveRows
<1>2. /\ market[id].sells \in OrderIds /\ market[market[id].sells].state = "filled"
      /\ market[market[id].sells].direction = "BUY"
  BY DEF IInv, SellsAreCovered
<1>3. market[id].sells # NoRef /\ market[market[id].sells] # NotPosted
  BY <1>2 DEF OrderIds, NoRef, NotPosted
<1>4. QED
  BY <1>1, <1>2, <1>3 DEF IInv, LinksAreMutual, Posted

\* A step that neither posts an order nor takes a row or a link of a posted
\* sell away keeps the rows of the posted sells.
LEMMA SellsKeepRows ==
    ASSUME IInv, SellsHaveRows,
           \A id \in OrderIds : /\ Posted(id)' <=> Posted(id)
                                /\ market'[id].direction = market[id].direction
                                /\ market'[id].sells = market[id].sells,
           \A id \in OrderIds : Posted(id) /\ market[id].direction = "SELL" =>
               orders'[id] # NoRow /\ orders'[id].ref = orders[id].ref
    PROVE  SellsHaveRows'
<1>1. ASSUME NEW id \in OrderIds, market'[id] # NotPosted, market'[id].direction = "SELL"
      PROVE  orders'[id] # NoRow /\ orders'[id].ref = market'[id].sells
  BY <1>1 DEF SellsHaveRows, Posted
<1>2. QED
  BY <1>1 DEF SellsHaveRows, Posted, Rows

\* A new row takes no link away: a bought order already linked is not unsold.
LEMMA RecordKeepsLinked ==
    ASSUME IInv, Linked, RecordOrder \/ RecordFails
    PROVE  Linked'
<1>1. /\ tpc = "record" /\ nextId \in OrderIds /\ nextId' = nextId + 1 /\ tpc' # "undo"
      /\ UNCHANGED <<market, stream>>
      /\ orders' = orders \/ orders' = PutOrder(orders, nextId, NewRow(CurrentAct))
  BY DEF RecordOrder, RecordFails, CurrentAct, EndIteration
<1>2. ASSUME NEW id \in OrderIds, Posted(id), market[id].direction = "SELL"
      PROVE  orders'[id] # NoRow /\ orders'[id].ref = orders[id].ref
  <2>1. id \in Rows(orders) /\ orders[id].ref # NoRef
    BY <1>2, PostedSellIsLinked DEF Linked
  <2>2. CASE orders' = PutOrder(orders, nextId, NewRow(CurrentAct))
    <3>1. /\ nextId \notin Rows(orders) /\ CurrentAct \in Actions
          /\ \A other \in OrderIds \ {nextId, CurrentAct.ref} : orders'[other] = orders[other]
      BY <1>1, <2>2, PutOrderKeepsTable, CurrentActType DEF Pending
    <3>2. id # CurrentAct.ref
      <4>1. CASE CurrentAct.action = "BUY"
        BY <1>1, <4>1, CurrentActType DEF Pending, OrderIds, NoRef
      <4>2. CASE CurrentAct.action = "SELL"
        <5>1. CurrentAct.ref \in UnsoldBuys(orders)
          BY <1>1, <4>2, CurrentActType DEF Pending, IInv, SellPending, CurrentAct
        <5>2. QED
          BY <2>1, <5>1 DEF UnsoldBuys
      <4>3. QED
        BY <3>1, <4>1, <4>2 DEF Actions, Directions
    <3>3. QED
      BY <2>1, <3>1, <3>2 DEF Rows
  <2>3. QED
    BY <1>1, <2>1, <2>2 DEF Rows
<1>3. SellsHaveRows'
  BY <1>1, <1>2, SellsKeepRows DEF Linked, Posted
<1>4. QED
  BY <1>1, <1>3 DEF Linked, UndoneNotPosted

\* The sell that is posted has its row.
LEMMA PostOrderKeepsLinked ==
    ASSUME IInv, Linked, PostOrder
    PROVE  Linked'
<1>1. PICK executionPrice \in Prices : Accept(CurrentAct, executionPrice)
  BY DEF PostOrder, CurrentAct
<1>2. /\ tpc = "post" /\ tpc' # "undo" /\ UNCHANGED <<orders, nextId>>
  BY DEF PostOrder, EndIteration
<1>3. /\ CurrentAct.id \in OrderIds
      /\ market'[CurrentAct.id].sells = CurrentAct.ref
      /\ \A id \in OrderIds \ {CurrentAct.id} : market'[id] = market[id]
  BY <1>1, <1>2, AcceptKeepsMarket
<1>4. CurrentAct.id \in Rows(orders) /\ orders[CurrentAct.id].ref = CurrentAct.ref
  BY <1>2, CurrentActType DEF Pending, IInv, TypeOK, ProgressOK, Recorded, CurrentAct
<1>5. SellsHaveRows'
  BY <1>2, <1>3, <1>4 DEF Linked, SellsHaveRows, Posted, Rows
<1>6. QED
  BY <1>2, <1>5 DEF Linked, UndoneNotPosted

\* What is undone was not posted, nor is it linked to a posted sell.
LEMMA UndoOrderKeepsLinked ==
    ASSUME IInv, Linked, UndoOrder
    PROVE  Linked'
<1> DEFINE act == CurrentAct
<1>1. /\ tpc = "undo" /\ tpc' # "undo" /\ orders' = RemoveOrder(orders, act.id, act.ref)
      /\ UNCHANGED market
  BY DEF UndoOrder, EndIteration, CurrentAct
<1>2. /\ act.id \in Rows(orders) /\ orders[act.id].ref = act.ref /\ ~Posted(act.id)
      /\ act.id \in OrderIds
  BY <1>1, CurrentActType
     DEF Pending, IInv, TypeOK, ProgressOK, Recorded, CurrentAct, Linked, UndoneNotPosted, Rows
<1> HIDE DEF act
<1>3. ASSUME NEW id \in OrderIds, Posted(id), market[id].direction = "SELL"
      PROVE  orders'[id] # NoRow /\ orders'[id].ref = orders[id].ref
  <2>1. /\ id \in Rows(orders) /\ orders[id].ref # NoRef /\ Posted(orders[id].ref)
        /\ orders[orders[id].ref].ref = id
    BY <1>3, PostedSellIsLinked DEF Linked
  <2>2. id # act.id /\ orders[id].ref # act.id
    BY <1>2, <1>3, <2>1
  <2>3. id # act.ref
    <3>1. act.ref = id => act.ref # NoRef
      BY DEF OrderIds, NoRef
    <3>2. act.ref # NoRef => orders[act.ref].ref = act.id
      BY <1>2 DEF IInv, LinksAreMutual
    <3>3. QED
      BY <2>2, <3>1, <3>2
  <2>4. orders'[id] = orders[id]
    BY <1>1, <2>2, <2>3 DEF RemoveOrder
  <2>5. QED
    BY <2>1, <2>4 DEF Rows
<1>4. SellsHaveRows'
  BY <1>1, <1>3, SellsKeepRows DEF Linked, Posted
<1>5. QED
  BY <1>1, <1>4 DEF Linked, UndoneNotPosted

\* Reports rewrite rows but never their links.
LEMMA ApplyReportKeepsLinked ==
    ASSUME IInv, Linked, ApplyReport
    PROVE  Linked'
<1>1. UNCHANGED <<market, tpc, acts, cur>>
  BY DEF ApplyReport, locals
<1>2. /\ Rows(orders') = Rows(orders)
      /\ \A id \in Rows(orders) : orders'[id].ref = orders[id].ref
  BY ReportedRows
<1>3. ASSUME NEW id \in OrderIds, Posted(id), market[id].direction = "SELL"
      PROVE  orders'[id] # NoRow /\ orders'[id].ref = orders[id].ref
  BY <1>2, <1>3 DEF Linked, SellsHaveRows, Rows
<1>4. SellsHaveRows'
  BY <1>1, <1>3, SellsKeepRows DEF Linked, Posted
<1>5. UndoneNotPosted'
  BY <1>1 DEF Linked, UndoneNotPosted, Posted
<1>6. QED
  BY <1>4, <1>5 DEF Linked

\* The exchange executes and cancels orders; it does not exchange them.
SameDeals ==
    \A id \in OrderIds : /\ Posted(id)' <=> Posted(id)
                         /\ market'[id].direction = market[id].direction
                         /\ market'[id].sells = market[id].sells

\* One working order changed in state or execution only.
LEMMA WorkingOrderIsSameDeal ==
    ASSUME IInv, NEW id \in OrderIds, NEW new, new.state # "none",
           new.direction = market[id].direction, new.sells = market[id].sells,
           market[id].state = "working", market' = [market EXCEPT ![id] = new]
    PROVE  SameDeals
<1>1. NotPosted.state = "none"
  BY DEF NotPosted
<1>2. market'[id] = new /\ \A other \in OrderIds \ {id} : market'[other] = market[other]
  BY DEF IInv, TypeOK
<1>3. QED
  BY <1>1, <1>2 DEF Posted, SameDeals

\* The exchange knows nothing of links.
LEMMA ExchangeKeepsLinked ==
    ASSUME IInv, Linked, Exchange
    PROVE  Linked'
<1>1. ASSUME NEW id \in OrderIds, Cancel(id)
      PROVE  SameDeals /\ UNCHANGED <<orders, tpc, acts, cur>>
  <2> DEFINE new == [market[id] EXCEPT !.state = "cancelled"]
  <2>1. market[id] \in ExchangeOrder
    BY <1>1 DEF Cancel, IInv, TypeOK, NotPosted
  <2>2. /\ new.state # "none" /\ new.direction = market[id].direction
        /\ new.sells = market[id].sells
    BY <2>1 DEF ExchangeOrder
  <2>3. market' = [market EXCEPT ![id] = new]
    BY <1>1 DEF Cancel, IInv, TypeOK
  <2> HIDE DEF new
  <2>4. QED
    BY <1>1, <2>2, <2>3, WorkingOrderIsSameDeal DEF Cancel, locals
<1>2. ASSUME NEW id \in OrderIds, NEW lots \in 1 .. market[id].lots, Execute(id, lots)
      PROVE  SameDeals /\ UNCHANGED <<orders, tpc, acts, cur>>
  <2> DEFINE total == market[id].executed + lots
             new   == [market[id] EXCEPT !.executed = total,
                          !.state = IF total = market[id].lots THEN "filled" ELSE "working"]
  <2>1. market[id] \in ExchangeOrder
    BY <1>2 DEF Execute, IInv, TypeOK, NotPosted
  <2>2. /\ new.state # "none" /\ new.direction = market[id].direction
        /\ new.sells = market[id].sells
    BY <2>1 DEF ExchangeOrder
  <2>3. market' = [market EXCEPT ![id] = new]
    BY <1>2, <2>1 DEF Execute, IInv, TypeOK
  <2> HIDE DEF new
  <2>4. QED
    BY <1>2, <2>2, <2>3, WorkingOrderIsSameDeal DEF Execute, locals
<1>3. SameDeals /\ UNCHANGED <<orders, tpc, acts, cur>>
  BY <1>1, <1>2 DEF Exchange
<1>4. SellsHaveRows'
  BY <1>3, SellsKeepRows DEF Linked, SameDeals, SellsHaveRows, Rows
<1>5. UndoneNotPosted'
  <2>1. tpc = "undo" => acts[cur].id \in OrderIds
    BY CurrentActType DEF Pending, IInv, TypeOK, ProgressOK, Recorded, CurrentAct, Rows
  <2>2. tpc = "undo" => ~Posted(acts[cur].id)
    BY DEF Linked, UndoneNotPosted
  <2>3. tpc = "undo" => ~Posted(acts[cur].id)'
    BY <1>3, <2>1, <2>2 DEF SameDeals, Posted
  <2>4. QED
    BY <1>3, <2>3 DEF UndoneNotPosted, Posted
<1>6. QED
  BY <1>4, <1>5 DEF Linked

\* An action that was refused was not posted.
LEMMA PostRejectedKeepsLinked ==
    ASSUME IInv, Linked, PostRejected
    PROVE  Linked'
<1>1. tpc = "post" /\ UNCHANGED <<orders, market, acts, cur>>
  BY DEF PostRejected, locals
<1>2. SellsHaveRows'
  BY <1>1 DEF Linked, SellsHaveRows, Posted, Rows
<1>3. ~Posted(acts[cur].id)
  <2>1. cur \in 1 .. Len(acts)
    BY <1>1 DEF IInv, ActsOK, Pending
  <2>2. QED
    BY <1>1, <2>1 DEF IInv, ProgressOK
<1>4. QED
  BY <1>1, <1>2, <1>3 DEF Linked, UndoneNotPosted, Posted

\* Steps that touch neither the table nor the exchange.
LEMMA OthersKeepLinked ==
    ASSUME Linked, UNCHANGED <<orders, market>>,
           tpc' # "undo" \/ UNCHANGED <<tpc, acts, cur>>
    PROVE  Linked'
BY DEF Linked, SellsHaveRows, UndoneNotPosted, Posted, Rows

\* They are the reading, the giving up and the restarting.
LEMMA ReadingLeavesOrders ==
    ASSUME IInv,
           \/ \E lastPrice \in Prices : ReceivePrice(lastPrice)
           \/ CountUnsold \/ ReadLowest \/ ReadLatestSell \/ ReadHighest
           \/ ReadFails \/ UndoFails \/ Crash
    PROVE  UNCHANGED <<orders, market>> /\ tpc' # "undo"
<1>1. \A lowest, existSold :
          tpc # "undo" /\ Decide(lowest, existSold) => tpc' # "undo"
  BY DEF Decide, Record, EndIteration
<1>2. QED
  BY <1>1 DEF ReceivePrice, CountUnsold, ReadLowest, ReadLatestSell, ReadHighest, ReadFails,
              UndoFails, Crash, EndIteration, Record

\* Every step of Next but the lost answer, and stuttering.
LEMMA NextLinked ==
    ASSUME "lost_answer" \notin Faults, IInv, Linked, [Next]_vars
    PROVE  Linked'
<1>1. CASE \/ \E lastPrice \in Prices : ReceivePrice(lastPrice)
           \/ CountUnsold \/ ReadLowest \/ ReadLatestSell \/ ReadHighest
           \/ ReadFails \/ UndoFails \/ Crash
  BY <1>1, ReadingLeavesOrders, OthersKeepLinked
<1>2. CASE RecordOrder \/ RecordFails
  BY <1>2, RecordKeepsLinked
<1>3. CASE PostOrder
  BY <1>3, PostOrderKeepsLinked
<1>4. CASE PostRejected
  BY <1>4, PostRejectedKeepsLinked
<1>5. CASE PostAnswerLost
  BY <1>5 DEF PostAnswerLost
<1>6. CASE UndoOrder
  BY <1>6, UndoOrderKeepsLinked
<1>7. CASE ApplyReport
  BY <1>7, ApplyReportKeepsLinked
<1>8. CASE DropReport \/ UNCHANGED vars
  BY <1>8, OthersKeepLinked DEF DropReport, vars, locals
<1>9. CASE Exchange
  BY <1>9, ExchangeKeepsLinked
<1>10. QED
  BY <1>1, <1>2, <1>3, <1>4, <1>5, <1>6, <1>7, <1>8, <1>9 DEF Next, Trader, OrdersOperating

\* Two sells of one bought order would both be the order it is linked to.
LEMMA LinkedSellsOnce ==
    ASSUME IInv, Linked
    PROVE  SoldOnce
<1>1. ASSUME NEW one \in OrderIds, NEW other \in OrderIds, Posted(one), Posted(other),
             market[one].direction = "SELL", market[other].direction = "SELL",
             market[one].sells = market[other].sells
      PROVE  one = other
  <2>1. orders[orders[one].ref].ref = one /\ orders[one].ref = market[one].sells
    BY <1>1, PostedSellIsLinked DEF Linked
  <2>2. orders[orders[other].ref].ref = other /\ orders[other].ref = market[other].sells
    BY <1>1, PostedSellIsLinked DEF Linked
  <2>3. QED
    BY <1>1, <2>1, <2>2
<1>2. QED
  BY <1>1 DEF SoldOnce

\* While no answer of the exchange is lost, no bought order is sold twice,
\* whatever else fails: transactions, postings, reports, the process.
THEOREM NeverSoldTwice ==
    ASSUME "lost_answer" \notin Faults
    PROVE  Spec => []SoldOnce
<1>1. Init => IInv /\ Linked
  <2>1. Init => Linked
    BY DEF Init, Linked, SellsHaveRows, UndoneNotPosted, Posted
  <2>2. QED
    BY <2>1, InitIInv
<1>2. (IInv /\ Linked) /\ [Next]_vars => (IInv /\ Linked)'
  BY NextIInv, NextLinked
<1>3. IInv /\ Linked => SoldOnce
  BY LinkedSellsOnce
<1>4. QED
  BY <1>1, <1>2, <1>3, PTL DEF Spec

-----------------------------------------------------------------------------
(* The refinement of Positions *)

heldNow    == [id \in OrderIds |-> Held(id)]
offeredNow == [id \in OrderIds |-> Offered(id)]

\* Every step that leaves the exchange alone is a stutter.
LEMMA MarketAloneStutters ==
    ASSUME UNCHANGED market
    PROVE  UNCHANGED <<heldNow, offeredNow>>
BY DEF heldNow, offeredNow, Held, Offered, Sells

\* Nothing but a posting offers: the exchange changes no deal of an order.
LEMMA SameDealsOfferNothing ==
    ASSUME SameDeals, \A id \in OrderIds : market'[id].lots = market[id].lots
    PROVE  UNCHANGED offeredNow
<1>1. ASSUME NEW id \in OrderIds
      PROVE  Offered(id)' = Offered(id)
  <2>1. Sells(id)' = Sells(id)
    BY DEF SameDeals, Sells
  <2>2. \A sell \in Sells(id) : market'[sell].lots = market[sell].lots
    BY DEF Sells
  <2>3. QED
    BY <2>1, <2>2 DEF Offered
<1>2. QED
  BY <1>1 DEF offeredNow

\* A working order that is executed further or cancelled opens at most the
\* position of its own.
LEMMA WorkingOrderOpens ==
    ASSUME IInv, NEW id \in OrderIds, market[id].state = "working",
           NEW new \in ExchangeOrder, market' = [market EXCEPT ![id] = new],
           new.direction = market[id].direction, new.lots = market[id].lots,
           new.sells = market[id].sells, new.state = "filled" => new.executed >= 1
    PROVE  Book!Open(id) \/ UNCHANGED <<heldNow, offeredNow>>
<1>1. market'[id] = new /\ \A other \in OrderIds \ {id} : market'[other] = market[other]
  BY DEF IInv, TypeOK
<1>2. new.state # "none"
  BY DEF ExchangeOrder
<1>3. SameDeals
  BY <1>2, WorkingOrderIsSameDeal
<1>4. UNCHANGED offeredNow
  BY <1>1, <1>3, SameDealsOfferNothing
<1>5. Held(id) = 0 /\ \A other \in OrderIds \ {id} : Held(other)' = Held(other)
  BY <1>1 DEF Held
<1>6. heldNow' = [heldNow EXCEPT ![id] = Held(id)']
  BY <1>5 DEF heldNow
<1>7. CASE new.state = "filled" /\ new.direction = "BUY"
  <2>1. Held(id)' >= 1 /\ Held(id)' > 0
    BY <1>1, <1>7 DEF Held, ExchangeOrder
  <2>2. heldNow[id] = 0 /\ heldNow'[id] = Held(id)'
    BY <1>5 DEF heldNow
  <2>3. QED
    BY <1>4, <1>6, <2>1, <2>2 DEF Book!Open, heldNow, offeredNow
<1>8. CASE ~(new.state = "filled" /\ new.direction = "BUY")
  <2>1. Held(id)' = 0
    BY <1>1, <1>8 DEF Held
  <2>2. UNCHANGED heldNow
    BY <1>5, <2>1 DEF heldNow
  <2>3. QED
    BY <1>4, <2>2
<1>9. QED
  BY <1>7, <1>8

\* Executions open positions, cancellations change none.
LEMMA ExchangeOpens ==
    ASSUME IInv, Exchange
    PROVE  (\E id \in OrderIds : Book!Open(id)) \/ UNCHANGED <<heldNow, offeredNow>>
<1>1. ASSUME NEW id \in OrderIds, Cancel(id)
      PROVE  Book!Open(id) \/ UNCHANGED <<heldNow, offeredNow>>
  <2> DEFINE new == [market[id] EXCEPT !.state = "cancelled"]
  <2>1. market[id] \in ExchangeOrder
    BY <1>1 DEF Cancel, IInv, TypeOK, NotPosted
  <2>2. /\ new \in ExchangeOrder /\ new.state = "cancelled"
        /\ new.direction = market[id].direction
        /\ new.lots = market[id].lots /\ new.sells = market[id].sells
    BY <2>1 DEF ExchangeOrder
  <2>3. market' = [market EXCEPT ![id] = new]
    BY <1>1 DEF Cancel, IInv, TypeOK
  <2> HIDE DEF new
  <2>4. QED
    BY <1>1, <2>2, <2>3, WorkingOrderOpens DEF Cancel
<1>2. ASSUME NEW id \in OrderIds, NEW lots \in 1 .. market[id].lots, Execute(id, lots)
      PROVE  Book!Open(id) \/ UNCHANGED <<heldNow, offeredNow>>
  <2> DEFINE total == market[id].executed + lots
             new   == [market[id] EXCEPT !.executed = total,
                          !.state = IF total = market[id].lots THEN "filled" ELSE "working"]
  <2>1. market[id] \in ExchangeOrder /\ market[id].executed \in Nat /\ market[id].lots \in Nat
    BY <1>2 DEF Execute, IInv, TypeOK, NotPosted, ExchangeOrder
  <2>2. total \in Nat /\ total >= 1
    BY <1>2, <2>1 DEF Execute
  <2>3. /\ new \in ExchangeOrder /\ new.executed = total
        /\ new.direction = market[id].direction
        /\ new.lots = market[id].lots /\ new.sells = market[id].sells
    BY <2>1, <2>2 DEF ExchangeOrder
  <2>4. market' = [market EXCEPT ![id] = new]
    BY <1>2, <2>1 DEF Execute, IInv, TypeOK
  <2> HIDE DEF new
  <2>5. QED
    BY <1>2, <2>2, <2>3, <2>4, WorkingOrderOpens DEF Execute
<1>3. QED
  BY <1>1, <1>2 DEF Exchange

\* The bought order of a sell about to be posted is linked to that very sell,
\* which is not posted: so no other sell of it is.
LEMMA SellNotYetOffered ==
    ASSUME IInv, Linked, tpc = "post", CurrentAct.action = "SELL"
    PROVE  /\ CurrentAct.ref \in OrderIds /\ CurrentAct.id \in OrderIds
           /\ Held(CurrentAct.ref) = CurrentAct.lots /\ CurrentAct.lots >= 1
           /\ Sells(CurrentAct.ref) = {}
<1>1. cur \in 1 .. Len(acts) /\ Recorded(cur) /\ ~Posted(CurrentAct.id)
  BY DEF IInv, ActsOK, ProgressOK, Pending, CurrentAct, TypeOK
<1>2. /\ CurrentAct.ref \in OrderIds
      /\ market[CurrentAct.ref].direction = "BUY" /\ market[CurrentAct.ref].state = "filled"
      /\ market[CurrentAct.ref].executed = CurrentAct.lots
  BY <1>1 DEF IInv, SellRecorded, CurrentAct, TypeOK
<1>3. CurrentAct.id \in Rows(orders) /\ orders[CurrentAct.id].ref = CurrentAct.ref
  BY <1>1 DEF Recorded, CurrentAct
<1>4. CurrentAct.ref # NoRef
  BY <1>2 DEF OrderIds, NoRef
<1>5. orders[CurrentAct.ref].ref = CurrentAct.id
  BY <1>3, <1>4 DEF IInv, LinksAreMutual
<1>6. ASSUME NEW sell \in OrderIds, market[sell].direction = "SELL",
             market[sell].sells = CurrentAct.ref
      PROVE  FALSE
  <2>1. Posted(sell)
    BY <1>6 DEF Posted, NotPosted
  <2>2. orders[sell].ref = CurrentAct.ref /\ orders[orders[sell].ref].ref = sell
    BY <1>6, <2>1, PostedSellIsLinked DEF Linked
  <2>3. QED
    BY <1>1, <1>5, <2>1, <2>2
<1>7. CurrentAct.lots >= 1
  BY <1>1 DEF IInv, ActsOK, CurrentAct
<1>8. QED
  BY <1>2, <1>3, <1>6, <1>7 DEF Sells, Held, Rows

\* The posting of a sell offers its bought order, that of a buy opens nothing
\* yet.
LEMMA PostOrderOffers ==
    ASSUME IInv, Linked, PostOrder
    PROVE  (\E id \in OrderIds : Book!Offer(id)) \/ UNCHANGED <<heldNow, offeredNow>>
<1> DEFINE act == CurrentAct
<1>1. PICK executionPrice \in Prices : Accept(act, executionPrice)
  BY DEF PostOrder, CurrentAct
<1>2. tpc = "post" /\ UNCHANGED <<orders, nextId>>
  BY DEF PostOrder
<1>3. /\ act.id \in OrderIds
      /\ market'[act.id].direction = act.action /\ market'[act.id].sells = act.ref
      /\ \A id \in OrderIds \ {act.id} : market'[id] = market[id]
  BY <1>1, <1>2, AcceptKeepsMarket
<1>4. market'[act.id].lots = act.lots /\ market'[act.id].state = "working"
  BY <1>1, <1>3 DEF Accept, IInv, TypeOK
<1>5. /\ act.action \in {"BUY", "SELL"} /\ market[act.id] = NotPosted
  <2>1. cur \in 1 .. Len(acts) /\ act \in Actions
    BY <1>2, CurrentActType DEF Pending
  <2>2. ~Posted(act.id)
    BY <1>2, <2>1 DEF IInv, TypeOK, ProgressOK, CurrentAct
  <2>3. QED
    BY <2>1, <2>2 DEF Actions, Directions, Posted
<1>6. \A id \in OrderIds : Held(id)' = Held(id)
  BY <1>3, <1>4, <1>5 DEF Held, NotPosted
<1>7. UNCHANGED heldNow
  BY <1>6 DEF heldNow
<1>8. CASE act.action = "BUY"
  <2>1. \A id \in OrderIds : Sells(id)' = Sells(id) /\ act.id \notin Sells(id)
    BY <1>3, <1>5, <1>8 DEF Sells, NotPosted
  <2>2. ASSUME NEW id \in OrderIds
        PROVE  Offered(id)' = Offered(id)
    <3>1. \A sell \in Sells(id) : market'[sell].lots = market[sell].lots
      BY <1>3, <2>1 DEF Sells
    <3>2. QED
      BY <2>1, <3>1 DEF Offered
  <2>3. UNCHANGED offeredNow
    BY <2>2 DEF offeredNow
  <2>4. QED
    BY <1>7, <2>3
<1>9. CASE act.action = "SELL"
  <2>1. PICK ref \in OrderIds, sale \in OrderIds, lots \in Nat :
            ref = act.ref /\ sale = act.id /\ lots = act.lots
    BY <1>2, <1>3, <1>9, CurrentActType, SellNotYetOffered DEF Pending, Actions
  <2>2. Held(ref) = lots /\ lots > 0 /\ Sells(ref) = {} /\ \A id \in OrderIds : sale \notin Sells(id)
    BY <1>2, <1>5, <1>9, <2>1, SellNotYetOffered DEF Sells, NotPosted
  <2>3. /\ market'[sale].direction = "SELL" /\ market'[sale].sells = ref
        /\ market'[sale].lots = lots
        /\ \A id \in OrderIds \ {sale} : market'[id] = market[id]
    BY <1>3, <1>4, <1>9, <2>1
  <2>4. Offered(ref) = {} /\ Offered(ref)' = {[sale |-> sale, lots |-> lots]}
    <3>1. Sells(ref)' = {sale}
      BY <2>2, <2>3 DEF Sells
    <3>2. QED
      BY <2>2, <2>3, <3>1 DEF Offered
  <2>5. ASSUME NEW id \in OrderIds, id # ref
        PROVE  Offered(id)' = Offered(id)
    <3>1. Sells(id)' = Sells(id)
      BY <2>2, <2>3, <2>5 DEF Sells
    <3>2. \A sell \in Sells(id) : market'[sell].lots = market[sell].lots
      BY <2>2, <2>3 DEF Sells
    <3>3. QED
      BY <3>1, <3>2 DEF Offered
  <2>6. offeredNow' = [offeredNow EXCEPT ![ref] = {[sale |-> sale, lots |-> lots]}]
    BY <2>4, <2>5 DEF offeredNow
  <2>7. heldNow[ref] = lots /\ offeredNow[ref] = {}
    BY <2>2, <2>4 DEF heldNow, offeredNow
  <2>8. Book!Offer(ref)
    BY <1>7, <2>2, <2>6, <2>7 DEF Book!Offer, heldNow, offeredNow
  <2>9. QED
    BY <2>8
<1>10. QED
  BY <1>5, <1>8, <1>9

\* The steps of the two goroutines that leave the exchange alone.
LEMMA OthersStutter ==
    ASSUME \/ \E lastPrice \in Prices : ReceivePrice(lastPrice)
           \/ CountUnsold \/ ReadLowest \/ ReadLatestSell \/ ReadHighest \/ ReadFails
           \/ RecordOrder \/ RecordFails \/ PostRejected \/ UndoOrder \/ UndoFails
           \/ ApplyReport \/ DropReport \/ Crash \/ UNCHANGED vars
    PROVE  UNCHANGED market
BY DEF ReceivePrice, CountUnsold, ReadLowest, ReadLatestSell, ReadHighest, ReadFails,
       RecordOrder, RecordFails, PostRejected, UndoOrder, UndoFails,
       ApplyReport, DropReport, Crash, vars

\* While no answer of the exchange is lost, every step of the trader is a step
\* of Positions or a stutter.
LEMMA NextRefines ==
    ASSUME "lost_answer" \notin Faults, IInv, Linked, [Next]_vars
    PROVE  [Book!Next]_<<heldNow, offeredNow>>
<1>1. CASE Exchange
  BY <1>1, ExchangeOpens DEF Book!Next
<1>2. CASE PostOrder
  BY <1>2, PostOrderOffers DEF Book!Next
<1>3. CASE PostAnswerLost
  BY <1>3 DEF PostAnswerLost
<1>4. CASE \/ \E lastPrice \in Prices : ReceivePrice(lastPrice)
           \/ CountUnsold \/ ReadLowest \/ ReadLatestSell \/ ReadHighest \/ ReadFails
           \/ RecordOrder \/ RecordFails \/ PostRejected \/ UndoOrder \/ UndoFails
           \/ ApplyReport \/ DropReport \/ Crash \/ UNCHANGED vars
  BY <1>4, OthersStutter, MarketAloneStutters
<1>5. QED
  BY <1>1, <1>2, <1>3, <1>4 DEF Next, Trader, OrdersOperating

\* The trader of Trading implements Positions while no answer of the exchange
\* is lost: whatever else fails, it offers each bought order at most once,
\* whole, and only when the exchange has executed it.
THEOREM TraderImplementsPositions ==
    ASSUME "lost_answer" \notin Faults
    PROVE  Spec => ImplementsPositions
<1>1. Init => IInv /\ Linked
  <2>1. Init => Linked
    BY DEF Init, Linked, SellsHaveRows, UndoneNotPosted, Posted
  <2>2. QED
    BY <2>1, InitIInv
<1>2. (IInv /\ Linked) /\ [Next]_vars => (IInv /\ Linked)'
  BY NextIInv, NextLinked
<1>3. Init => Book!Init
  BY DEF Init, Book!Init, Held, Offered, Sells, NotPosted
<1>4. (IInv /\ Linked) /\ [Next]_vars => [Book!Next]_<<heldNow, offeredNow>>
  BY NextRefines
<1>5. QED
  BY <1>1, <1>2, <1>3, <1>4, PTL DEF Spec, ImplementsPositions, Book!Spec, heldNow, offeredNow
=============================================================================
