------------------------------ MODULE Backtest ------------------------------
(***************************************************************************)
(* One backtest: the trader of Trading over a history of candles, with the *)
(* broker and the storage of internal/backtest in place of the exchange    *)
(* and the database, and the goroutine of cmd/backtest_bot that waits for  *)
(* the end of the history and works out the result.                        *)
(*                                                                         *)
(* The trading goroutine is alone with the store and the account, except   *)
(* for that waiting goroutine, which reads both without a lock: so the     *)
(* steps here are the ones it can tell apart.  Money is counted in         *)
(* hundredths, to make the commission a whole number.                      *)
(***************************************************************************)
EXTENDS OrderStore, BTDSTF, FiniteSetsExt

CONSTANTS Prices, MaxHistory,     \* the candles: their prices, how many
          StartDeposit,           \* start_deposit
          CommissionPercent, Lot, \* commission_percent, lots of the instrument
          Interrupts              \* may the user interrupt the test?

ASSUME BacktestAssumption ==
    /\ Prices \subseteq Nat /\ MaxHistory \in Nat /\ StartDeposit \in Nat
    /\ CommissionPercent \in Nat /\ Lot \in Nat \ {0} /\ Interrupts \in BOOLEAN
    /\ MaxOrders >= 2 * MaxHistory   \* no bound on order ids is ever reached

VARIABLES
    history,   \* the candles loaded before the test: their close prices
    orders,    \* the rows of BacktestStorage
    offset,    \* candleHistoryOffset
    lastPrice, \* of the broker
    account, minAccount, maxAccount,
    tpc,       \* where the trading goroutine is
    acts, cur, \* the actions it carries out, and which of them
    terminate, \* testingTerminate: "open" or "closed"
    cancelled, \* the context of the test
    waiter,    \* where the waiting goroutine is
    result     \* what it prints

money  == <<account, minAccount, maxAccount>>
broker == <<offset, lastPrice, money>>
ending == <<terminate, cancelled, waiter, result>>
vars   == <<history, orders, broker, tpc, acts, cur, ending>>

-----------------------------------------------------------------------------
(* The storage *)

\* A mutated form of Upsert: the row is replaced by what the broker puts.
Replace(table, id, order) == [table EXCEPT ![id] = order]

\* PutOrder keeps the link and the requested lots of a row it knows.
Upsert(table, id, order) ==
    LET known == [order EXCEPT !.ref = table[id].ref, !.lots = table[id].lots]
        put   == [table EXCEPT ![id] = IF id \in Rows(table) THEN known ELSE order]
    IN  IF order.ref \in Rows(put) THEN [put EXCEPT ![order.ref].ref = id] ELSE put

Worth(id) == 100 * Lot * orders[id].price * orders[id].executed

GetInInstrumentsSum == MapThenSumSet(Worth, ExecutedUnsoldBuys(orders))

Read(id) == [id |-> id, price |-> orders[id].price, lots |-> orders[id].executed]

Answers(ids) == IF ids = {} THEN {NoOrder} ELSE {Read(id) : id \in ids}

-----------------------------------------------------------------------------
(* The trading goroutine: RunTrading with the broker of the test *)

CheckContext ==
    /\ tpc = "top"
    /\ tpc' = IF cancelled THEN "gone" ELSE "price"
    /\ UNCHANGED <<history, orders, broker, acts, cur, ending>>

\* RecieveLastPrice counts first and reads then: the candle at 0 is not traded.
NextCandle ==
    /\ tpc = "price" /\ offset + 1 < Len(history)
    /\ offset' = offset + 1
    /\ lastPrice' = history[offset' + 1]
    /\ tpc' = "decide"
    /\ UNCHANGED <<history, orders, money, acts, cur, ending>>

\* A mutated form of HistoryEnds: the trader tells it once, and leaves.
HistoryEndsOnce ==
    /\ tpc = "price" /\ offset + 1 >= Len(history)
    /\ offset' = offset + 1 /\ tpc' = "gone" /\ terminate' = "closed"
    /\ waiter' = IF waiter = "waiting" THEN "told" ELSE waiter
    /\ UNCHANGED <<history, orders, lastPrice, money, acts, cur, cancelled, result>>

\* Behind the last candle: the waiting goroutine is told, if it waits already,
\* and the channel closed.  A send on the closed channel panics.
HistoryEnds ==
    /\ tpc = "price" /\ offset + 1 >= Len(history)
    /\ offset' = offset + 1
    /\ \/ /\ terminate = "open" /\ waiter = "waiting"
          /\ terminate' = "closed" /\ waiter' = "told" /\ tpc' = "error"
       \/ /\ terminate = "open" /\ waiter # "waiting"
          /\ tpc' = "error" /\ UNCHANGED <<terminate, waiter>>
       \/ /\ terminate = "closed"
          /\ tpc' = "panic" /\ UNCHANGED <<terminate, waiter>>
    /\ UNCHANGED <<history, orders, lastPrice, money, acts, cur, cancelled, result>>

\* A mutated form of ErrorDelay, that does not wait.
NoErrorDelay ==
    /\ tpc = "error" /\ tpc' = "top"
    /\ UNCHANGED <<history, orders, broker, acts, cur, ending>>

\* OnTradingErrorDelay, one second or until the context is done.  A second is
\* long: a goroutine that can go on has gone on before it is over.
ErrorDelay ==
    /\ tpc = "error"
    /\ cancelled \/ waiter \in {"waiting", "done"}
    /\ tpc' = "top"
    /\ UNCHANGED <<history, orders, broker, acts, cur, ending>>

\* What GetActionDecision answers to a price, the whole store being at rest.
Decided(lowest, highest) ==
    LET unsold   == GetUnsoldOrdersAmount(orders)
        decision == Decision(lowest, lowest # NoOrder \/ ExecutedSells(orders) # {}, lastPrice)
    IN  CASE decision = "hold"  -> <<>>
          [] decision = "sell"  -> <<SellAction(lowest)>>
          [] decision = "first" -> <<BuyAction(unsold)>>
          [] decision = "buy"   -> IF DepthReached(unsold) THEN Rotation(highest, unsold)
                                   ELSE <<BuyAction(unsold)>>

NewRow(act) ==
    [direction |-> act.action, status |-> "NEW", ref |-> act.ref,
     price |-> lastPrice, lots |-> act.lots, executed |-> 0]

Decide ==
    /\ tpc = "decide"
    /\ \E lowest  \in Answers(LowestExecutedBuys(orders)),
          highest \in Answers(HighestExecutedBuys(orders)) : acts' = Decided(lowest, highest)
    /\ tpc' = IF acts' = <<>> THEN "top" ELSE "record"
    /\ cur' = 1
    /\ UNCHANGED <<history, orders, broker, ending>>

\* Every action gets its row, MakeNewOrder, under a fresh id, before the first
\* of them is carried out.
FreshId == Cardinality(Rows(orders)) + 1

RecordOrder ==
    /\ tpc = "record"
    /\ orders' = Upsert(orders, FreshId, NewRow(acts[cur]))
    /\ acts' = [acts EXCEPT ![cur].id = FreshId]
    /\ IF cur < Len(acts) THEN cur' = cur + 1 /\ UNCHANGED tpc
       ELSE cur' = 1 /\ tpc' = "post"
    /\ UNCHANGED <<history, broker, ending>>

Cost(act)       == 100 * Lot * lastPrice * act.lots
Commission(act) == CommissionPercent * Lot * lastPrice * act.lots

\* Mutated forms: a sell that is paid its commission; a buy that forgets the
\* lowest account.
MakeSellOrderWithBonus ==
    /\ tpc = "post" /\ acts[cur].action = "SELL"
    /\ account' = account + Cost(acts[cur]) + Commission(acts[cur])
    /\ maxAccount' = IF account' > maxAccount THEN account' ELSE maxAccount
    /\ tpc' = "put"
    /\ UNCHANGED <<history, orders, offset, lastPrice, minAccount, acts, cur, ending>>

\* The broker settles the account first, covered or not, and puts the executed
\* order then.
MakeBuyOrder ==
    /\ tpc = "post" /\ acts[cur].action = "BUY"
    /\ account' = account - Cost(acts[cur]) - Commission(acts[cur])
    /\ minAccount' = IF account' < minAccount THEN account' ELSE minAccount
    /\ tpc' = "put"
    /\ UNCHANGED <<history, orders, offset, lastPrice, maxAccount, acts, cur, ending>>

MakeSellOrder ==
    /\ tpc = "post" /\ acts[cur].action = "SELL"
    /\ account' = account + Cost(acts[cur]) - Commission(acts[cur])
    /\ maxAccount' = IF account' > maxAccount THEN account' ELSE maxAccount
    /\ tpc' = "put"
    /\ UNCHANGED <<history, orders, offset, lastPrice, minAccount, acts, cur, ending>>

PutOrderExecuted ==
    /\ tpc = "put"
    /\ orders' = Upsert(orders, acts[cur].id,
                        [direction |-> acts[cur].action, status |-> "FILL", ref |-> NoRef,
                         price |-> lastPrice, lots |-> acts[cur].lots,
                         executed |-> acts[cur].lots])
    /\ IF cur < Len(acts) THEN cur' = cur + 1 /\ tpc' = "post"
       ELSE UNCHANGED cur /\ tpc' = "top"
    /\ UNCHANGED <<history, broker, acts, ending>>

-----------------------------------------------------------------------------
(* The waiting goroutine, and the user *)

StartWaiting ==
    /\ waiter = "starting" /\ waiter' = "waiting"
    /\ UNCHANGED <<history, orders, broker, tpc, acts, cur, terminate, cancelled, result>>

Interrupt ==
    /\ Interrupts /\ ~cancelled /\ cancelled' = TRUE
    /\ UNCHANGED <<history, orders, broker, tpc, acts, cur, terminate, waiter, result>>

\* The interrupt ends the waiting, but not the trading in its midst.
StopWaiting ==
    /\ waiter = "waiting" /\ cancelled
    /\ waiter' = "told"
    /\ UNCHANGED <<history, orders, broker, tpc, acts, cur, terminate, cancelled, result>>

ReadInstruments ==
    /\ waiter = "told" /\ waiter' = "account"
    /\ result' = [result EXCEPT !.inInstr = GetInInstrumentsSum]
    /\ UNCHANGED <<history, orders, broker, tpc, acts, cur, terminate, cancelled>>

\* A mutated form of ReadAccount: the deferred cancel of the context is missing.
ReadAccountWithoutCancel ==
    /\ waiter = "account" /\ waiter' = "done"
    /\ result' = [result EXCEPT !.account = account]
    /\ UNCHANGED <<history, orders, broker, tpc, acts, cur, terminate, cancelled>>

\* The result is complete; the context is cancelled on the way out.
ReadAccount ==
    /\ waiter = "account" /\ waiter' = "done"
    /\ result' = [result EXCEPT !.account = account]
    /\ cancelled' = TRUE
    /\ UNCHANGED <<history, orders, broker, tpc, acts, cur, terminate>>

-----------------------------------------------------------------------------
Init ==
    /\ history \in UNION {[1 .. n -> Prices] : n \in 0 .. MaxHistory}
    /\ orders = [id \in OrderIds |-> NoRow]
    /\ offset = 0 /\ lastPrice = 0
    /\ account = 100 * StartDeposit
    /\ minAccount = account /\ maxAccount = account
    /\ tpc = "top" /\ acts = <<>> /\ cur = 1
    /\ terminate = "open" /\ cancelled = FALSE /\ waiter = "starting"
    /\ result = [inInstr |-> 0, account |-> 0]

Trader ==
    \/ CheckContext \/ NextCandle \/ HistoryEnds \/ ErrorDelay
    \/ Decide \/ RecordOrder \/ MakeBuyOrder \/ MakeSellOrder \/ PutOrderExecuted

Waiter == StartWaiting \/ StopWaiting \/ ReadInstruments \/ ReadAccount

Next == Trader \/ Waiter \/ Interrupt

Spec == Init /\ [][Next]_vars

\* Both goroutines run; nothing is assumed of the user.
FairSpec == Spec /\ WF_vars(Trader) /\ WF_vars(Waiter)

-----------------------------------------------------------------------------
(* What the code promises *)

Actions == [action : Directions, lots : Nat \ {0}, id : OrderIds \cup {NoRef},
            ref : OrderIds \cup {NoRef}]

\* Types: candleHistoryOffset, which every failed read advances as well, stays
\* within two of the history; no order asks for less than a lot.
TypeOK ==
    /\ history \in Seq(Prices) /\ orders \in Tables
    /\ offset \in 0 .. MaxHistory + 2 /\ lastPrice \in Nat
    /\ account \in Int /\ minAccount \in Int /\ maxAccount \in Int
    /\ tpc \in {"top", "price", "error", "decide", "record", "post", "put", "gone", "panic"}
    /\ acts \in Seq(Actions)
    /\ cur \in Nat \ {0}
    /\ terminate \in {"open", "closed"} /\ cancelled \in BOOLEAN
    /\ waiter \in {"starting", "waiting", "told", "account", "done"}
    /\ result \in [inInstr : Nat, account : Int]

\* BDTSTF.md:25, "max_depth is a maximum amount of buy orders are unbalanced
\* by sell orders": where every order is executed at once the strategy keeps
\* to it over any history, although it only makes room by selling.
DepthIsKept == GetUnsoldOrdersAmount(orders) <= MaxDepth

\* Once the history has ended, the account and the bought orders left add up
\* to the deposit, the profit of every bought order sold, and the commissions:
\* the account, the links and the lots of the rows never part ways; and the
\* account has never been beyond the extremes that are printed.
ResultBalances ==
    waiter = "done" /\ terminate = "closed" =>
        LET sells     == {id \in Rows(orders) : orders[id].direction = "SELL"}
            Profit(s) == orders[s].executed * (orders[s].price - orders[orders[s].ref].price)
            Fee(id)   == orders[id].executed * orders[id].price
        IN  /\ result.account + result.inInstr =
                   100 * StartDeposit + 100 * Lot * MapThenSumSet(Profit, sells)
                       - CommissionPercent * Lot * MapThenSumSet(Fee, Rows(orders))
            /\ minAccount <= result.account /\ result.account <= maxAccount

\* Whenever the trader turns to the next candle, every row is executed: nothing
\* is decided on an order still on its way, and no row is left behind.
NothingPending ==
    tpc \in {"top", "price", "decide", "error", "gone"} =>
        \A id \in Rows(orders) :
            /\ orders[id].status = "FILL" /\ orders[id].executed = orders[id].lots
            /\ orders[id].direction = "SELL" => orders[id].ref # NoRef
            /\ orders[id].ref # NoRef =>
                   /\ orders[orders[id].ref].ref = id
                   /\ orders[orders[id].ref].executed = orders[id].executed

\* The end of the history is announced once: the trader, which goes on asking
\* for candles, never sends on the channel it has closed itself.
NoPanic == tpc # "panic"

\* Every test ends with its result printed, however short the history, and
\* even if the history ends before the waiting goroutine has started to wait.
TestEnds == <>(waiter = "done" /\ tpc = "gone")

\* The test is a trader like any other: see Positions.
Held(id) == IF orders[id].direction = "BUY" /\ orders[id].status = "FILL"
            THEN orders[id].executed ELSE 0

Sells(id) ==
    {sell \in Rows(orders) : /\ orders[sell].direction = "SELL"
                             /\ orders[sell].status = "FILL" /\ orders[sell].ref = id}

Offered(id) == {[sale |-> sell, lots |-> orders[sell].executed] : sell \in Sells(id)}

Book == INSTANCE Positions WITH
            Ids <- OrderIds,
            held <- [id \in OrderIds |-> Held(id)],
            offered <- [id \in OrderIds |-> Offered(id)]

ImplementsPositions == Book!Spec
=============================================================================
