------------------------------ MODULE Trading ------------------------------
(***************************************************************************)
(* One trader at work: the trading goroutine (RunTrading with the strategy *)
(* it asks), the orders goroutine (runOrdersOperating), the table of       *)
(* orders they share, and the exchange with its stream of order reports.   *)
(*                                                                         *)
(* The two goroutines share nothing but the table.  Each of its            *)
(* transactions is atomic and everything between two of them is local, so  *)
(* an action is one transaction, one call of the broker, or one step of    *)
(* the exchange.  What the trading goroutine has read is in its local      *)
(* variables and may be stale when it is used.                             *)
(***************************************************************************)
EXTENDS OrderStore, BTDSTF

CONSTANTS Prices,   \* last prices and execution prices
          Faults    \* what may go wrong in a behaviour

ASSUME TradingAssumption ==
    /\ Prices \subseteq Nat
    /\ Faults \subseteq {"db", "post", "lost_answer", "stream", "undated", "crash"}

VARIABLES
    orders,   \* the table of this trader's orders
    market,   \* what the exchange holds under each order id
    stream,   \* reports on their way from the exchange to the orders goroutine
    tpc,      \* where the trading goroutine is
    price,    \* lastPrice, of the current iteration
    unsold,   \* the local `orders` of GetActionDecision
    acts,     \* the actions decided in the current iteration
    cur,      \* the one of them being recorded, posted or undone
    nextId    \* the next request id: uuid.NewString never repeats one

locals == <<price, unsold, acts, cur>>
vars   == <<orders, market, stream, tpc, locals, nextId>>

-----------------------------------------------------------------------------
(* The exchange is code of somebody else: it accepts an order, executes it *)
(* in any number of parts or cancels what is left of it, and reports.      *)

ExchangeOrder == [state : {"working", "filled", "cancelled"}, direction : Directions,
                  lots : Nat, executed : Nat, price : Nat, sells : OrderIds \cup {NoRef}]

\* `sells` is a ghost: the bought order a sell was decided for.
NotPosted == [state |-> "none", direction |-> "NONE", lots |-> 0, executed |-> 0,
              price |-> 0, sells |-> NoRef]

Posted(id) == market[id] # NotPosted

\* A report carries the whole state of an order: every one overwrites the last.
ReportStatus(order) ==
    CASE order.state = "filled"    -> "FILL"
      [] order.state = "cancelled" -> "CANCELLED"
      [] OTHER -> IF order.executed > 0 THEN "PARTIALLYFILL" ELSE "NEW"

Report(id, order) ==
    [id |-> id, direction |-> order.direction, status |-> ReportStatus(order),
     price |-> order.price, executed |-> order.executed]

\* The stream is FIFO; a broken stream loses what is reported meanwhile.
Emit(id) ==
    \/ stream' = Append(stream, Report(id, market'[id]))
    \/ "stream" \in Faults /\ UNCHANGED stream

Accept(act, executionPrice) ==
    /\ market' = [market EXCEPT ![act.id] =
           [state |-> "working", direction |-> act.action, lots |-> act.lots,
            executed |-> 0, price |-> executionPrice, sells |-> act.ref]]
    /\ Emit(act.id)

Execute(id, lots) ==
    /\ market[id].state = "working"
    /\ lots \in 1 .. (market[id].lots - market[id].executed)
    /\ LET total == market[id].executed + lots
       IN  market' = [market EXCEPT ![id].executed = total,
                                    ![id].state =
                                        IF total = market[id].lots THEN "filled" ELSE "working"]
    /\ Emit(id)
    /\ UNCHANGED <<orders, tpc, locals, nextId>>

Cancel(id) ==
    /\ market[id].state = "working"
    /\ market' = [market EXCEPT ![id].state = "cancelled"]
    /\ Emit(id)
    /\ UNCHANGED <<orders, tpc, locals, nextId>>

-----------------------------------------------------------------------------
(* The trading goroutine: RunTrading and GetActionDecision *)

\* The iteration is over; what it knew is gone.
EndIteration == tpc' = "price" /\ acts' = <<>> /\ cur' = 1 /\ price' = 0 /\ unsold' = 0

\* RecieveLastPrice answers and the instrument is available; when it does not,
\* or is not, the loop starts over and nothing has changed.
ReceivePrice(lastPrice) ==
    /\ tpc = "price" /\ nextId \in OrderIds
    /\ price' = lastPrice /\ tpc' = "count"
    /\ UNCHANGED <<orders, market, stream, unsold, acts, cur, nextId>>

CountUnsold ==
    /\ tpc = "count"
    /\ unsold' = GetUnsoldOrdersAmount(orders) /\ tpc' = "lowest"
    /\ UNCHANGED <<orders, market, stream, price, acts, cur, nextId>>

\* What the strategy keeps of a row it has read.
Read(id) == [id |-> id, price |-> orders[id].price, lots |-> orders[id].executed]

\* A query answers one of the rows that qualify, or that there is none.
Answers(ids) == IF ids = {} THEN {NoOrder} ELSE {Read(id) : id \in ids}

Record(actions) == acts' = actions /\ tpc' = "record" /\ UNCHANGED <<price, unsold, cur>>

\* A mutated form of Decide, that forgets to hold.
DecideWithoutHold(lowest, existSold) ==
    LET decision == Decision(lowest, existSold, price)
    IN  \/ decision = "sell" /\ Record(<<SellAction(lowest)>>)
        \/ decision \in {"first", "buy"} /\ Record(<<BuyAction(unsold)>>)

Decide(lowest, existSold) ==
    LET decision == Decision(lowest, existSold, price)
    IN  \/ decision = "hold"  /\ EndIteration
        \/ decision = "sell"  /\ Record(<<SellAction(lowest)>>)
        \/ decision = "first" /\ Record(<<BuyAction(unsold)>>)
        \/ decision = "buy" /\ ~DepthReached(unsold) /\ Record(<<BuyAction(unsold)>>)
        \/ /\ decision = "buy" /\ DepthReached(unsold)
           /\ tpc' = "highest" /\ UNCHANGED locals

ReadLowest ==
    /\ tpc = "lowest"
    /\ \E lowest \in Answers(LowestExecutedBuys(orders)) :
          \/ lowest = NoOrder /\ tpc' = "sold" /\ UNCHANGED locals
          \/ lowest # NoOrder /\ Decide(lowest, TRUE)
    /\ UNCHANGED <<orders, market, stream, nextId>>

ReadLatestSell ==
    /\ tpc = "sold"
    /\ Decide(NoOrder, ExecutedSells(orders) # {})
    /\ UNCHANGED <<orders, market, stream, nextId>>

ReadHighest ==
    /\ tpc = "highest"
    /\ \E highest \in Answers(HighestExecutedBuys(orders)) : Record(Rotation(highest, unsold))
    /\ UNCHANGED <<orders, market, stream, nextId>>

\* A query fails, the decision with it.
ReadFails ==
    /\ "db" \in Faults /\ tpc \in {"count", "lowest", "sold", "highest"}
    /\ EndIteration
    /\ UNCHANGED <<orders, market, stream, nextId>>

\* A mutated form of NewRow: the order is taken for executed at once.
NewRowExecuted(act) ==
    [direction |-> act.action, status |-> "FILL", ref |-> act.ref,
     price |-> price, lots |-> act.lots, executed |-> act.lots]

\* MakeNewOrder of acts[cur] under a fresh request id.
NewRow(act) ==
    [direction |-> act.action, status |-> "NEW", ref |-> act.ref,
     price |-> price, lots |-> act.lots, executed |-> 0]

\* Every action gets its row before the first of them is posted.
RecordOrder ==
    /\ tpc = "record" /\ nextId \in OrderIds
    /\ orders' = PutOrder(orders, nextId, NewRow(acts[cur]))
    /\ acts' = [acts EXCEPT ![cur].id = nextId]
    /\ nextId' = nextId + 1
    /\ IF cur < Len(acts) THEN cur' = cur + 1 /\ UNCHANGED tpc
       ELSE cur' = 1 /\ tpc' = "post"
    /\ UNCHANGED <<market, stream, price, unsold>>

\* The transaction fails, or its commit is not confirmed: no action is left,
\* but the rows of the earlier ones stay.
RecordFails ==
    /\ "db" \in Faults /\ tpc = "record" /\ nextId \in OrderIds
    /\ \/ UNCHANGED orders
       \/ orders' = PutOrder(orders, nextId, NewRow(acts[cur]))
    /\ nextId' = nextId + 1
    /\ EndIteration
    /\ UNCHANGED <<market, stream>>

\* A mutated form of PostOrder, that stops after the first action.
PostFirstOrder ==
    /\ tpc = "post"
    /\ \E executionPrice \in Prices : Accept(acts[cur], executionPrice)
    /\ EndIteration
    /\ UNCHANGED <<orders, nextId>>

\* MakeAction: PostOrder with the request id of the row.
PostOrder ==
    /\ tpc = "post" /\ acts[cur].lots >= 1
    /\ \E executionPrice \in Prices : Accept(acts[cur], executionPrice)
    /\ IF cur < Len(acts) THEN cur' = cur + 1 /\ UNCHANGED <<tpc, price, unsold, acts>>
       ELSE EndIteration
    /\ UNCHANGED <<orders, nextId>>

PostRejected ==
    /\ tpc = "post" /\ ("post" \in Faults \/ acts[cur].lots < 1)
    /\ tpc' = "undo"
    /\ UNCHANGED <<orders, market, stream, locals, nextId>>

\* The exchange has the order, its answer is lost: an error to the trader.
PostAnswerLost ==
    /\ "lost_answer" \in Faults /\ tpc = "post" /\ acts[cur].lots >= 1
    /\ \E executionPrice \in Prices : Accept(acts[cur], executionPrice)
    /\ tpc' = "undo"
    /\ UNCHANGED <<orders, locals, nextId>>

\* OnErrorFunc of the action; the actions after it are forgotten, rows and all.
UndoOrder ==
    /\ tpc = "undo"
    /\ orders' = RemoveOrder(orders, acts[cur].id, acts[cur].ref)
    /\ EndIteration
    /\ UNCHANGED <<market, stream, nextId>>

\* A failure of OnErrorFunc is logged and nothing else.
UndoFails ==
    /\ "db" \in Faults /\ tpc = "undo"
    /\ EndIteration
    /\ UNCHANGED <<orders, market, stream, nextId>>

-----------------------------------------------------------------------------
(* The orders goroutine: runOrdersOperating *)

\* Mutated forms of ApplyReport: the newest report first; only between the
\* iterations of the trading goroutine, the others being taken off unread.
ApplyNewestReport ==
    /\ stream # <<>>
    /\ orders' = UpdateOrder(orders, stream[Len(stream)])
    /\ stream' = SubSeq(stream, 1, Len(stream) - 1)
    /\ UNCHANGED <<market, tpc, locals, nextId>>

ApplyReportWhenIdle ==
    /\ stream # <<>>
    /\ orders' = IF tpc = "price" THEN UpdateOrder(orders, Head(stream)) ELSE orders
    /\ stream' = Tail(stream)
    /\ UNCHANGED <<market, tpc, locals, nextId>>

ApplyReport ==
    /\ stream # <<>>
    /\ orders' = UpdateOrder(orders, Head(stream))
    /\ stream' = Tail(stream)
    /\ UNCHANGED <<market, tpc, locals, nextId>>

\* A report without created_at is skipped; one whose update fails is not retried.
DropReport ==
    /\ stream # <<>> /\ Faults \cap {"db", "undated"} # {}
    /\ stream' = Tail(stream)
    /\ UNCHANGED <<orders, market, tpc, locals, nextId>>

\* The process dies and starts again: the table is what it remembers, and what
\* was reported while nobody listened is not reported again.
Crash ==
    /\ "crash" \in Faults
    /\ EndIteration
    /\ stream' = <<>>
    /\ UNCHANGED <<orders, market, nextId>>

-----------------------------------------------------------------------------
Init ==
    /\ orders = [id \in OrderIds |-> NoRow]
    /\ market = [id \in OrderIds |-> NotPosted]
    /\ stream = <<>>
    /\ tpc = "price" /\ price = 0 /\ unsold = 0 /\ acts = <<>> /\ cur = 1
    /\ nextId = 1

Trader ==
    \/ \E lastPrice \in Prices : ReceivePrice(lastPrice)
    \/ CountUnsold \/ ReadLowest \/ ReadLatestSell \/ ReadHighest \/ ReadFails
    \/ RecordOrder \/ RecordFails
    \/ PostOrder \/ PostRejected \/ PostAnswerLost
    \/ UndoOrder \/ UndoFails

OrdersOperating == ApplyReport \/ DropReport

Exchange == \E id \in OrderIds : Cancel(id) \/ \E lots \in 1 .. market[id].lots : Execute(id, lots)

Next == Trader \/ OrdersOperating \/ Exchange \/ Crash

Spec == Init /\ [][Next]_vars

\* Go's scheduler runs both goroutines, and the calls they block in time out:
\* an iteration once begun goes on, a report once sent is taken.  Nothing is
\* assumed of the exchange, nor that prices keep coming.
FairSpec == Spec /\ WF_vars(tpc # "price" /\ Trader) /\ WF_vars(OrdersOperating)

-----------------------------------------------------------------------------
(* What the code promises *)

Actions == [action : Directions, lots : Nat, id : OrderIds \cup {NoRef},
            ref : OrderIds \cup {NoRef}]

Reports == [id : OrderIds, direction : Directions, status : Statuses,
            price : Nat, executed : Nat]

\* Types: no lot count is ever negative, however deep the ladder has become
\* (GetActionDecision computes them by a subtraction).
TypeOK ==
    /\ orders \in Tables
    /\ market \in [OrderIds -> ExchangeOrder \cup {NotPosted}]
    /\ stream \in Seq(Reports)
    /\ tpc \in {"price", "count", "lowest", "sold", "highest", "record", "post", "undo"}
    /\ price \in Nat /\ unsold \in Nat
    /\ acts \in Seq(Actions) /\ cur \in Nat \ {0}
    /\ nextId \in 1 .. MaxOrders + 1

\* The links between a bought order and the sell decided for it are always
\* mutual and unique, although they are written by PutOrder, taken back by
\* RemoveOrder, and the rows are rewritten meanwhile by the orders goroutine.
LinksAreMutual ==
    \A id \in Rows(orders) :
        /\ orders[id].direction = "SELL" => orders[id].ref # NoRef
        /\ orders[id].ref # NoRef =>
               /\ orders[id].ref \in Rows(orders)
               /\ orders[orders[id].ref].ref = id
               /\ orders[orders[id].ref].direction # orders[id].direction

\* No bought order is sold twice at the exchange, whatever fails between the
\* decision, its row, the posting and the undoing, except the answer to a
\* posting (trader.go:211 removes the row of an order that exists).
SoldOnce ==
    \A one, other \in OrderIds :
        /\ Posted(one) /\ Posted(other)
        /\ market[one].direction = "SELL" /\ market[other].direction = "SELL"
        /\ market[one].sells = market[other].sells
        => one = other

\* A sell is posted only for a bought order the exchange has executed in full,
\* and for exactly as many lots, although the strategy knows the bought order
\* from its row only, and the row from reports that may be late or lost.
SellsAreCovered ==
    \A id \in OrderIds :
        Posted(id) /\ market[id].direction = "SELL" =>
            LET bought == market[market[id].sells]
            IN  /\ market[id].sells \in OrderIds
                /\ bought.direction = "BUY" /\ bought.state = "filled"
                /\ bought.executed = market[id].lots

\* The trader implements Positions: what the exchange has executed of its bought
\* orders it offers at most once, whole, while no answer to a posting is lost.
Held(id) ==
    IF market[id].direction = "BUY" /\ market[id].state = "filled"
    THEN market[id].executed ELSE 0

Sells(id) ==
    {sell \in OrderIds : market[sell].direction = "SELL" /\ market[sell].sells = id}

Offered(id) == {[sale |-> sell, lots |-> market[sell].lots] : sell \in Sells(id)}

Book == INSTANCE Positions WITH
            Ids <- OrderIds,
            held <- [id \in OrderIds |-> Held(id)],
            offered <- [id \in OrderIds |-> Offered(id)]

ImplementsPositions == Book!Spec

\* The table runs behind the exchange but never ahead of it, and the two agree
\* on an order the table calls executed.
StoreNeverAhead ==
    \A id \in Rows(orders) :
        /\ orders[id].executed <= market[id].executed
        /\ orders[id].status = "FILL" => /\ market[id].state = "filled"
                                         /\ orders[id].executed = market[id].executed

\* Once a row is executed or cancelled its status is final: no late report
\* takes it back, and no undo, but the one of an order whose answer was lost
\* (trader.go:211 removes its row, whatever the exchange made of it meanwhile).
SettledStaysSettled ==
    [][\A id \in Rows(orders) :
          orders[id].status \in Settled =>
              \/ orders'[id].status = orders[id].status
              \/ "lost_answer" \in Faults /\ tpc = "undo" /\ acts[cur].id = id]_vars

\* When every report has been worked off, the table says of every order at the
\* exchange what the exchange says (no fault that loses a report or a row).
StoreCatchesUp ==
    stream = <<>> =>
        \A id \in OrderIds : Posted(id) =>
            /\ id \in Rows(orders)
            /\ orders[id].status = ReportStatus(market[id])
            /\ orders[id].executed = market[id].executed

\* Between two iterations, a row whose order never reached the exchange is a
\* bought order the strategy counts, never a sell holding a position back.
UnpostedRowsAreBuys ==
    tpc = "price" =>
        \A id \in Rows(orders) :
            ~Posted(id) => orders[id].direction = "BUY" /\ orders[id].ref = NoRef

\* An executed order is known as executed eventually, so that the strategy
\* will sell it.
ExecutionBecomesKnown ==
    \A id \in OrderIds :
        market[id].state = "filled" ~> id \in Rows(orders) /\ orders[id].status = "FILL"

\* The trading goroutine always comes back to the next price, unless the bound
\* on order ids stops it.
IterationsEnd == tpc # "price" ~> tpc = "price" \/ nextId \notin OrderIds

\* BDTSTF.md:25: "max_depth is a maximum amount of buy orders are unbalanced
\* by sell orders".
DepthIsBounded == GetUnsoldOrdersAmount(orders) <= MaxDepth
=============================================================================
