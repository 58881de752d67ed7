---------------------------- MODULE StoreProofs ----------------------------
(***************************************************************************)
(* Proofs about how the table follows the exchange: the reports of Trading *)
(* overwrite rows, each with the whole state of an order, and come late.   *)
(*                                                                         *)
(* What TradingProofs knows of a report, that it was true when it was      *)
(* sent, does not tell two reports of one order apart.  Here is what       *)
(* follows from their order: nothing is reported after the end of an order *)
(* (FinalOK), and the last report of an order on its way, or its row when  *)
(* there is none, is what the exchange holds (KnownOK).                    *)
(***************************************************************************)
EXTENDS TradingProofs

\* An order is reported as settled when it is, and then never otherwise: not in
\* a report behind that one, nor in one behind the row it was written to.
FinalOK ==
    /\ \A id \in Rows(orders) :
          orders[id].status = "CANCELLED" => market[id].state = "cancelled"
    /\ \A k \in 1 .. Len(stream) :
          /\ stream[k].status = "CANCELLED" => market[stream[k].id].state = "cancelled"
          /\ stream[k].id \in Rows(orders) /\ orders[stream[k].id].status \in Settled =>
                stream[k].status = orders[stream[k].id].status
    /\ \A k, l \in 1 .. Len(stream) :
          k < l /\ stream[k].id = stream[l].id /\ stream[k].status \in Settled =>
              stream[l].status = stream[k].status

\* What the exchange holds is what the last report on its way says, and where
\* no report is on its way, what the row says.
Last(k) == \A l \in 1 .. Len(stream) : l > k => stream[l].id # stream[k].id

KnownOK ==
    /\ \A id \in OrderIds : Posted(id) =>
          /\ id \in Rows(orders)
          /\ \/ \E k \in 1 .. Len(stream) : stream[k].id = id
             \/ /\ orders[id].status = ReportStatus(market[id])
                /\ orders[id].executed = market[id].executed
    /\ \A k \in 1 .. Len(stream) : Last(k) =>
          /\ stream[k].status = ReportStatus(market[stream[k].id])
          /\ stream[k].executed = market[stream[k].id].executed

\* A row whose order has not been posted is a plain bought order, or the sell
\* of the iteration under way.
Undecided(id) ==
    /\ acts # <<>> /\ acts[1].action = "SELL" /\ acts[1].id = id
    /\ (tpc = "record" /\ cur > 1) \/ (tpc \in {"post", "undo"} /\ cur = 1)

UnpostedOK ==
    \A id \in Rows(orders) : ~Posted(id) =>
        \/ orders[id].direction = "BUY" /\ orders[id].ref = NoRef
        \/ Undecided(id)

-----------------------------------------------------------------------------
(* What the steps do to the table and to the stream *)

\* Rows that stay keep everything but their links.
Kept(id) ==
    /\ orders'[id].direction = orders[id].direction
    /\ orders'[id].status = orders[id].status
    /\ orders'[id].executed = orders[id].executed

\* A step in which the exchange does something to an order, and reports it.
Told(id) ==
    /\ id \in OrderIds /\ market[id].state \notin {"filled", "cancelled"}
    /\ market'[id] \in ExchangeOrder
    /\ \A other \in OrderIds \ {id} : market'[other] = market[other]
    /\ Emit(id) /\ UNCHANGED orders

\* A step that neither writes the table nor reaches the exchange.
Quiet == UNCHANGED <<orders, market>>

\* Posting, executing and cancelling are told.
LEMMA TellingSteps ==
    ASSUME IInv, PostOrder \/ PostAnswerLost \/ Exchange
    PROVE  \E id \in OrderIds :
              /\ Told(id)
              /\ Exchange \/ (tpc = "post" /\ id = CurrentAct.id /\ id \in Rows(orders))
              /\ Posted(id) \/ id \in Rows(orders)
<1>1. CASE PostOrder \/ PostAnswerLost
  <2>1. PICK executionPrice \in Prices : Accept(CurrentAct, executionPrice)
    BY <1>1 DEF PostOrder, PostAnswerLost, CurrentAct
  <2>2. tpc = "post" /\ UNCHANGED <<orders, nextId>>
    BY <1>1 DEF PostOrder, PostAnswerLost
  <2>3. /\ MarketType' /\ CurrentAct.id \in OrderIds
        /\ \A id \in OrderIds \ {CurrentAct.id} : market'[id] = market[id]
    BY <2>1, <2>2, AcceptKeepsMarket
  <2>4. CurrentAct.id \in Rows(orders) /\ ~Posted(CurrentAct.id)
    BY <2>2, CurrentActType DEF Pending, IInv, TypeOK, ProgressOK, Recorded, CurrentAct
  <2>5. market[CurrentAct.id].state = "none"
    BY <2>4 DEF Posted, NotPosted
  <2>6. Emit(CurrentAct.id) /\ market'[CurrentAct.id].state = "working"
    BY <2>1, <2>3 DEF Accept, IInv, TypeOK
  <2>7. market'[CurrentAct.id] \in ExchangeOrder
    BY <2>3, <2>6 DEF MarketType, NotPosted
  <2>8. Told(CurrentAct.id)
    BY <2>2, <2>3, <2>5, <2>6, <2>7 DEF Told
  <2>9. QED
    BY <2>2, <2>3, <2>4, <2>8
<1>2. ASSUME NEW id \in OrderIds, Cancel(id)
      PROVE  Told(id) /\ Posted(id)
  <2>1. market[id] \in ExchangeOrder /\ market[id].state = "working"
    BY <1>2 DEF Cancel, IInv, TypeOK, NotPosted
  <2>2. [market[id] EXCEPT !.state = "cancelled"] \in ExchangeOrder
    BY <2>1 DEF ExchangeOrder
  <2>3. /\ market'[id] = [market[id] EXCEPT !.state = "cancelled"]
        /\ \A other \in OrderIds \ {id} : market'[other] = market[other]
    BY <1>2 DEF Cancel, IInv, TypeOK
  <2>4. QED
    BY <1>2, <2>1, <2>2, <2>3 DEF Told, Cancel, Posted, NotPosted
<1>3. ASSUME NEW id \in OrderIds, NEW lots \in 1 .. market[id].lots, Execute(id, lots)
      PROVE  Told(id) /\ Posted(id)
  <2> DEFINE total == market[id].executed + lots
             new   == [market[id] EXCEPT !.executed = total,
                          !.state = IF total = market[id].lots THEN "filled" ELSE "working"]
  <2>1. market[id] \in ExchangeOrder /\ market[id].state = "working" /\ lots \in Nat
    BY <1>3 DEF Execute, IInv, TypeOK, NotPosted, ExchangeOrder
  <2>2. total \in Nat
    BY <2>1 DEF ExchangeOrder
  <2>3. new \in ExchangeOrder
    BY <2>1, <2>2 DEF ExchangeOrder
  <2>4. market' = [market EXCEPT ![id] = new]
    BY <1>3, <2>1 DEF Execute, IInv, TypeOK
  <2> HIDE DEF new
  <2>5. market'[id] = new /\ \A other \in OrderIds \ {id} : market'[other] = market[other]
    BY <2>4 DEF IInv, TypeOK
  <2>6. Emit(id) /\ UNCHANGED orders
    BY <1>3 DEF Execute
  <2>7. QED
    BY <2>1, <2>3, <2>5, <2>6 DEF Told, Posted, NotPosted
<1>4. QED
  BY <1>1, <1>2, <1>3 DEF Exchange

\* A new row is NEW, and of an order nobody knows; the others are kept.
LEMMA RecordingRows ==
    ASSUME IInv, RecordOrder \/ RecordFails
    PROVE  /\ UNCHANGED <<market, stream>>
           /\ \A id \in Rows(orders) : id \in Rows(orders') /\ Kept(id)
           /\ \A id \in Rows(orders') \ Rows(orders) :
                 id = nextId /\ ~Posted(id) /\ orders'[id] = NewRow(CurrentAct)
           /\ \A id \in Rows(orders) :
                 orders'[id].ref # orders[id].ref => Posted(id)
<1>1. /\ tpc = "record" /\ nextId \in OrderIds /\ nextId' = nextId + 1
      /\ UNCHANGED <<market, stream>>
      /\ orders' = orders \/ orders' = PutOrder(orders, nextId, NewRow(CurrentAct))
  BY DEF RecordOrder, RecordFails, CurrentAct
<1>2. CASE orders' = orders
  BY <1>1, <1>2 DEF Kept
<1>3. CASE orders' = PutOrder(orders, nextId, NewRow(CurrentAct))
  <2>1. /\ orders' \in Tables /\ nextId \notin Rows(orders) /\ ~Posted(nextId)
        /\ orders'[nextId] = NewRow(CurrentAct)
        /\ \A id \in OrderIds \ {nextId, CurrentAct.ref} : orders'[id] = orders[id]
    BY <1>1, <1>3, PutOrderKeepsTable
  <2>2. ASSUME NEW id \in OrderIds, id = CurrentAct.ref
        PROVE  id \in Rows(orders) /\ id \in Rows(orders') /\ Kept(id) /\ Posted(id)
    <3>1. CurrentAct.action = "SELL" /\ cur = 1
      BY <1>1, <2>2, CurrentActType DEF Pending, Actions, Directions, OrderIds, NoRef
    <3>2. id \in UnsoldBuys(orders) /\ market[id].state = "filled"
      BY <1>1, <2>2, <3>1 DEF IInv, SellPending, CurrentAct
    <3>3. id \in Rows(orders) /\ orders[id] \in Row /\ id # nextId
      BY <2>1, <3>2 DEF UnsoldBuys, Rows, IInv, TypeOK, Tables
    <3>4. orders'[id] = [orders[id] EXCEPT !.ref = nextId]
      BY <1>3, <2>2, <3>3 DEF PutOrder, NewRow
    <3>5. QED
      BY <1>1, <3>2, <3>3, <3>4, Relinked DEF Kept, Rows, Posted, NotPosted
  <2>3. QED
    BY <1>1, <2>1, <2>2 DEF Rows, Kept
<1>4. QED
  BY <1>1, <1>2, <1>3

\* An undo takes the row of its action, and keeps the others.
LEMMA UndoneRows ==
    ASSUME IInv, UndoOrder
    PROVE  /\ UNCHANGED <<market, stream>> /\ tpc = "undo"
           /\ \A id \in Rows(orders') : id \in Rows(orders) /\ Kept(id)
           /\ \A id \in Rows(orders) \ {CurrentAct.id} : id \in Rows(orders') /\ Kept(id)
           /\ \A id \in Rows(orders') :
                 id # CurrentAct.id /\ (orders'[id].ref # orders[id].ref => orders'[id].ref = NoRef)
           /\ CurrentAct.id \in Rows(orders)
<1> DEFINE act == CurrentAct
<1>1. /\ tpc = "undo" /\ orders' = RemoveOrder(orders, act.id, act.ref)
      /\ UNCHANGED <<market, stream, nextId>>
  BY DEF UndoOrder, CurrentAct
<1>2. /\ act.id \in Rows(orders) /\ orders \in Tables
  BY <1>1, CurrentActType
     DEF Pending, IInv, TypeOK, ProgressOK, Recorded, CurrentAct
<1> HIDE DEF act
<1>3. ASSUME NEW id \in OrderIds, id # act.id, id \in Rows(orders)
      PROVE  /\ id \in Rows(orders') /\ Kept(id)
             /\ orders'[id].ref # orders[id].ref => orders'[id].ref = NoRef
  <2>1. orders[id] \in Row
    BY <1>2, <1>3 DEF Rows, Tables
  <2>2. CASE id = act.ref
    <3>1. orders'[id] = [orders[id] EXCEPT !.ref = NoRef]
      BY <1>1, <1>3, <2>2 DEF RemoveOrder
    <3>2. QED
      BY <2>1, <3>1, Relinked DEF Rows, Kept
  <2>3. CASE id # act.ref
    BY <1>1, <1>3, <2>3 DEF RemoveOrder, Rows, Kept
  <2>4. QED
    BY <2>2, <2>3
<1>4. \A id \in Rows(orders') : id \in OrderIds /\ id # act.id /\ id \in Rows(orders)
  BY <1>1 DEF RemoveOrder, Rows
<1>5. QED
  BY <1>1, <1>2, <1>3, <1>4 DEF act, Rows

\* The steps of Next by what they do to table, market and stream.
LEMMA StepKinds ==
    ASSUME IInv, [Next]_vars
    PROVE  \/ Quiet /\ UNCHANGED stream
           \/ Quiet /\ (DropReport \/ Crash)
           \/ ApplyReport
           \/ RecordOrder \/ RecordFails
           \/ UndoOrder
           \/ PostOrder \/ PostAnswerLost \/ Exchange
<1>1. CASE \/ \E lastPrice \in Prices : ReceivePrice(lastPrice)
           \/ CountUnsold \/ ReadLowest \/ ReadLatestSell \/ ReadHighest
           \/ ReadFails \/ UndoFails
  BY <1>1 DEF ReceivePrice, CountUnsold, ReadLowest, ReadLatestSell, ReadHighest, ReadFails,
              UndoFails, Quiet
<1>2. CASE PostRejected \/ UNCHANGED vars
  BY <1>2 DEF PostRejected, vars, Quiet
<1>3. CASE DropReport \/ Crash
  BY <1>3 DEF DropReport, Crash, Quiet
<1>4. QED
  BY <1>1, <1>2, <1>3 DEF Next, Trader, OrdersOperating

\* What is told of an order comes last, and says what the exchange holds.
LEMMA ToldStream ==
    ASSUME IInv, NEW id \in OrderIds, Told(id)
    PROVE  /\ stream \in Seq(Reports)
           /\ \/ stream' = stream /\ "stream" \in Faults
              \/ /\ Len(stream') = Len(stream) + 1
                 /\ \A k \in 1 .. Len(stream) : stream'[k] = stream[k]
                 /\ stream'[Len(stream) + 1].id = id
                 /\ stream'[Len(stream) + 1].status = ReportStatus(market'[id])
                 /\ stream'[Len(stream) + 1].executed = market'[id].executed
<1> DEFINE report == Report(id, market'[id])
<1>1. stream \in Seq(Reports)
  BY DEF IInv, TypeOK
<1>2. report \in Reports /\ report.id = id /\ report.executed = market'[id].executed
  BY ReportType DEF Told
<1>3. report.status = ReportStatus(market'[id])
  BY DEF Report
<1> HIDE DEF report
<1>4. CASE stream' = Append(stream, report)
  <2>1. /\ Len(stream') = Len(stream) + 1
        /\ \A k \in 1 .. Len(stream) : stream'[k] = stream[k]
        /\ stream'[Len(stream) + 1] = report
    BY <1>1, <1>2, <1>4
  <2>2. QED
    BY <1>1, <1>2, <1>3, <2>1
<1>5. CASE "stream" \in Faults /\ stream' = stream
  BY <1>1, <1>5
<1>6. QED
  BY <1>4, <1>5 DEF Told, Emit, report

\* Where the first report is taken, the others move up.
LEMMA TailStream ==
    ASSUME IInv, stream # <<>>, stream' = Tail(stream)
    PROVE  /\ Len(stream) \in Nat /\ Len(stream) >= 1 /\ Len(stream') = Len(stream) - 1
           /\ \A k \in 1 .. Len(stream') : k + 1 \in 1 .. Len(stream) /\ stream'[k] = stream[k + 1]
           /\ Head(stream) = stream[1]
<1>1. stream \in Seq(Reports)
  BY DEF IInv, TypeOK
<1>2. QED
  BY <1>1

\* Only what has been posted is reported.
LEMMA ReportedIsPosted ==
    ASSUME IInv, NEW k \in 1 .. Len(stream)
    PROVE  /\ stream[k].id \in OrderIds /\ Posted(stream[k].id)
           /\ stream[k].status = "FILL" => market[stream[k].id].state = "filled"
<1>1. stream[k] \in Reports
  BY ElementOfSeq DEF IInv, TypeOK
<1>2. QED
  BY <1>1 DEF IInv, ReportsOK, Reports

-----------------------------------------------------------------------------
(* A settled order stays settled *)

\* An order that is not over has no row and no report that says so.
LEMMA OpenOrders ==
    ASSUME IInv, FinalOK, NEW id \in OrderIds, market[id].state \notin {"filled", "cancelled"}
    PROVE  /\ id \in Rows(orders) => orders[id].status \notin Settled
           /\ \A k \in 1 .. Len(stream) : stream[k].id = id => stream[k].status \notin Settled
BY ReportedIsPosted DEF IInv, StoreNeverAhead, FinalOK, Settled

\* What is told of an order comes behind reports that leave it open.
LEMMA ToldKeepsFinal ==
    ASSUME IInv, FinalOK, NEW id \in OrderIds, Told(id)
    PROVE  FinalOK'
<1>1. /\ orders' = orders /\ market'[id] \in ExchangeOrder
      /\ market[id].state \notin {"filled", "cancelled"}
      /\ \A other \in OrderIds \ {id} : market'[other] = market[other]
  BY DEF Told
<1>2. /\ id \in Rows(orders) => orders[id].status \notin Settled
      /\ \A k \in 1 .. Len(stream) : stream[k].id = id => stream[k].status \notin Settled
  BY <1>1, OpenOrders
<1>3. ReportStatus(market'[id]) = "CANCELLED" => market'[id].state = "cancelled"
  BY DEF ReportStatus
<1>4. ASSUME NEW other \in OrderIds, market[other].state = "cancelled"
      PROVE  market'[other].state = "cancelled"
  BY <1>1, <1>4
<1>5. \A other \in Rows(orders) :
          orders[other].status = "CANCELLED" => market'[other].state = "cancelled"
  BY <1>4 DEF FinalOK, Rows
<1>6. \A k \in 1 .. Len(stream) :
          /\ stream[k].id \in OrderIds
          /\ stream[k].status = "CANCELLED" => market'[stream[k].id].state = "cancelled"
  BY <1>4, ReportedIsPosted DEF FinalOK
<1>7. CASE stream' = stream
  BY <1>1, <1>5, <1>6, <1>7 DEF FinalOK, Rows
<1>8. CASE /\ Len(stream') = Len(stream) + 1
           /\ \A k \in 1 .. Len(stream) : stream'[k] = stream[k]
           /\ stream'[Len(stream) + 1].id = id
           /\ stream'[Len(stream) + 1].status = ReportStatus(market'[id])
  <2>1. Len(stream) \in Nat
    BY DEF IInv, TypeOK
  <2>2. \A k \in 1 .. Len(stream') : k \in 1 .. Len(stream) \/ k = Len(stream) + 1
    BY <1>8, <2>1
  <2>3. ASSUME NEW k \in 1 .. Len(stream')
        PROVE  /\ stream'[k].status = "CANCELLED" => market'[stream'[k].id].state = "cancelled"
               /\ stream'[k].id \in Rows(orders) /\ orders[stream'[k].id].status \in Settled =>
                     stream'[k].status = orders[stream'[k].id].status
    <3>1. CASE k \in 1 .. Len(stream)
      BY <1>6, <1>8, <3>1 DEF FinalOK
    <3>2. CASE k = Len(stream) + 1
      BY <1>2, <1>3, <1>8, <3>2
    <3>3. QED
      BY <2>2, <3>1, <3>2
  <2>4. ASSUME NEW k \in 1 .. Len(stream'), NEW l \in 1 .. Len(stream'), k < l,
               stream'[k].id = stream'[l].id, stream'[k].status \in Settled
        PROVE  stream'[l].status = stream'[k].status
    <3>1. k \in 1 .. Len(stream)
      BY <2>1, <2>2, <2>4
    <3>2. CASE l \in 1 .. Len(stream)
      BY <1>8, <2>4, <3>1, <3>2 DEF FinalOK
    <3>3. CASE l = Len(stream) + 1
      BY <1>2, <1>8, <2>4, <3>1, <3>3
    <3>4. QED
      BY <2>2, <3>2, <3>3
  <2>5. QED
    BY <1>1, <1>5, <2>3, <2>4 DEF FinalOK, Rows
<1>9. QED
  BY <1>7, <1>8, ToldStream

\* A report applied is followed by none that takes it back.
LEMMA ApplyKeepsFinal ==
    ASSUME IInv, FinalOK, ApplyReport
    PROVE  FinalOK'
<1> DEFINE report == Head(stream)
<1>1. stream # <<>> /\ stream' = Tail(stream) /\ market' = market
  BY DEF ApplyReport
<1>2. /\ Len(stream) \in Nat /\ Len(stream) >= 1 /\ Len(stream') = Len(stream) - 1
      /\ \A k \in 1 .. Len(stream') : k + 1 \in 1 .. Len(stream) /\ stream'[k] = stream[k + 1]
      /\ report = stream[1]
  BY <1>1, TailStream
<1>3. /\ Rows(orders') = Rows(orders)
      /\ \A id \in Rows(orders) :
            /\ id # report.id => orders'[id] = orders[id]
            /\ id = report.id => orders'[id].status = report.status
  BY ReportedRows
<1>4. /\ report.status = "CANCELLED" => market[report.id].state = "cancelled"
      /\ \A k \in 1 .. Len(stream) :
            k > 1 /\ stream[k].id = report.id /\ report.status \in Settled =>
                stream[k].status = report.status
  BY <1>2 DEF FinalOK
<1> HIDE DEF report
<1>5. \A id \in Rows(orders') :
          orders'[id].status = "CANCELLED" => market'[id].state = "cancelled"
  BY <1>1, <1>3, <1>4 DEF FinalOK
<1>6. ASSUME NEW k \in 1 .. Len(stream')
      PROVE  /\ stream'[k].status = "CANCELLED" => market'[stream'[k].id].state = "cancelled"
             /\ stream'[k].id \in Rows(orders') /\ orders'[stream'[k].id].status \in Settled =>
                   stream'[k].status = orders'[stream'[k].id].status
  <2>1. k + 1 \in 1 .. Len(stream) /\ k + 1 > 1 /\ stream'[k] = stream[k + 1]
    BY <1>2
  <2>2. QED
    BY <1>1, <1>3, <1>4, <2>1 DEF FinalOK
<1>7. \A k, l \in 1 .. Len(stream') :
          k < l /\ stream'[k].id = stream'[l].id /\ stream'[k].status \in Settled =>
              stream'[l].status = stream'[k].status
  BY <1>2 DEF FinalOK
<1>8. QED
  BY <1>5, <1>6, <1>7 DEF FinalOK

\* So is a report dropped, and a stream forgotten.
LEMMA QuietKeepsFinal ==
    ASSUME IInv, FinalOK, Quiet, UNCHANGED stream \/ DropReport \/ Crash
    PROVE  FinalOK'
<1>1. CASE UNCHANGED stream
  BY <1>1 DEF FinalOK, Quiet, Rows
<1>2. CASE Crash
  BY <1>2 DEF FinalOK, Quiet, Rows, Crash
<1>3. CASE DropReport
  <2>1. /\ Len(stream) \in Nat /\ Len(stream') = Len(stream) - 1
        /\ \A k \in 1 .. Len(stream') : k + 1 \in 1 .. Len(stream) /\ stream'[k] = stream[k + 1]
    BY <1>3, TailStream DEF DropReport
  <2>2. QED
    BY <2>1 DEF FinalOK, Quiet, Rows
<1>4. QED
  BY <1>1, <1>2, <1>3

\* The trading goroutine writes and deletes rows, but no status.
LEMMA WritingKeepsFinal ==
    ASSUME IInv, FinalOK, RecordOrder \/ RecordFails \/ UndoOrder
    PROVE  FinalOK'
<1>1. CASE RecordOrder \/ RecordFails
  <2>1. /\ UNCHANGED <<market, stream>>
        /\ \A id \in Rows(orders) : id \in Rows(orders') /\ Kept(id)
        /\ \A id \in Rows(orders') \ Rows(orders) : orders'[id].status = "NEW"
    BY <1>1, RecordingRows DEF NewRow
  <2>2. \A id \in Rows(orders') :
            orders'[id].status \in Settled => id \in Rows(orders) /\ orders'[id].status = orders[id].status
    BY <2>1 DEF Kept, Settled
  <2>3. QED
    BY <2>1, <2>2 DEF FinalOK, Settled
<1>2. CASE UndoOrder
  <2>1. /\ UNCHANGED <<market, stream>>
        /\ \A id \in Rows(orders') : id \in Rows(orders) /\ Kept(id)
    BY <1>2, UndoneRows
  <2>2. QED
    BY <2>1 DEF FinalOK, Kept
<1>3. QED
  BY <1>1, <1>2

LEMMA NextFinal ==
    ASSUME IInv, FinalOK, [Next]_vars
    PROVE  FinalOK'
<1>1. CASE PostOrder \/ PostAnswerLost \/ Exchange
  BY <1>1, TellingSteps, ToldKeepsFinal
<1>2. QED
  BY <1>1, StepKinds, ApplyKeepsFinal, QuietKeepsFinal, WritingKeepsFinal

\* While no answer is lost, the row an undo takes is that of an open order.
Followed == IInv /\ FinalOK /\ ("lost_answer" \notin Faults => Linked)

\* No step takes back the status of a settled row.
LEMMA StatusIsFinal ==
    ASSUME Followed, [Next]_vars, NEW id \in Rows(orders), orders[id].status \in Settled
    PROVE  \/ orders'[id].status = orders[id].status
           \/ "lost_answer" \in Faults /\ tpc = "undo" /\ acts[cur].id = id
<1>1. CASE Quiet
  BY <1>1 DEF Quiet
<1>2. CASE PostOrder \/ PostAnswerLost \/ Exchange
  BY <1>2, TellingSteps DEF Followed, Told
<1>3. CASE RecordOrder \/ RecordFails
  BY <1>3, RecordingRows DEF Followed, Kept
<1>4. CASE ApplyReport
  <2>1. stream # <<>> /\ stream' = Tail(stream)
    BY <1>4 DEF ApplyReport
  <2>2. 1 \in 1 .. Len(stream) /\ Head(stream) = stream[1]
    BY <2>1, TailStream DEF Followed
  <2>3. /\ id # Head(stream).id => orders'[id] = orders[id]
        /\ id = Head(stream).id => orders'[id].status = Head(stream).status
    BY <1>4, ReportedRows DEF Followed
  <2>4. id = Head(stream).id => Head(stream).status = orders[id].status
    BY <2>2 DEF Followed, FinalOK
  <2>5. QED
    BY <2>3, <2>4
<1>5. CASE UndoOrder
  <2>1. /\ tpc = "undo"
        /\ \A other \in Rows(orders) \ {CurrentAct.id} : Kept(other)
        /\ CurrentAct.id \in Rows(orders)
    BY <1>5, UndoneRows DEF Followed
  <2>2. CASE id # CurrentAct.id
    BY <2>1, <2>2 DEF Kept
  <2>3. CASE id = CurrentAct.id
    <3>1. "lost_answer" \notin Faults => ~Posted(id)
      BY <2>1, <2>3 DEF Followed, Linked, UndoneNotPosted, CurrentAct
    <3>2. ~Posted(id) => orders[id].status = "NEW"
      BY DEF Followed, IInv, RowsOK
    <3>3. QED
      BY <2>1, <2>3, <3>1, <3>2 DEF CurrentAct, Settled
  <2>4. QED
    BY <2>2, <2>3
<1>6. QED
  BY <1>1, <1>2, <1>3, <1>4, <1>5, StepKinds DEF Followed

\* Once a row is executed or cancelled its status is final, whatever fails:
\* reports come late, are lost or found again after a restart, but none that
\* follows the last one of an order takes it back; and the undo of an action
\* does not, unless the answer of the exchange was lost.
THEOREM SettledIsFinal == Spec => SettledStaysSettled
<1>1. Init => Followed
  <2>1. Init => FinalOK
    BY DEF Init, FinalOK, Rows
  <2>2. Init => Linked
    BY DEF Init, Linked, SellsHaveRows, UndoneNotPosted, Posted
  <2>3. QED
    BY <2>1, <2>2, InitIInv DEF Followed
<1>2. Followed /\ [Next]_vars => Followed'
  BY NextIInv, NextFinal, NextLinked DEF Followed
<1>3. Followed /\ [Next]_vars =>
          [\A id \in Rows(orders) :
              orders[id].status \in Settled =>
                  \/ orders'[id].status = orders[id].status
                  \/ "lost_answer" \in Faults /\ tpc = "undo" /\ acts[cur].id = id]_vars
  BY StatusIsFinal
<1>4. QED
  BY <1>1, <1>2, <1>3, PTL DEF Spec, SettledStaysSettled

-----------------------------------------------------------------------------
(* The table catches up, while nothing but postings fails *)

OnlyRejections == Faults \subseteq {"post"}

Known == IInv /\ Linked /\ KnownOK

\* What is told of an order is known from its report; of the other orders the
\* last report is the same.
LEMMA ToldKeepsKnown ==
    ASSUME OnlyRejections, Known, NEW id \in OrderIds, Told(id), Posted(id) \/ id \in Rows(orders)
    PROVE  KnownOK'
<1>1. /\ orders' = orders /\ market'[id] \in ExchangeOrder
      /\ \A other \in OrderIds \ {id} : market'[other] = market[other]
  BY DEF Told
<1>2. /\ Len(stream') = Len(stream) + 1 /\ Len(stream) \in Nat
      /\ \A k \in 1 .. Len(stream) : stream'[k] = stream[k]
      /\ stream'[Len(stream) + 1].id = id
      /\ stream'[Len(stream) + 1].status = ReportStatus(market'[id])
      /\ stream'[Len(stream) + 1].executed = market'[id].executed
  BY ToldStream DEF OnlyRejections, Known
<1> DEFINE end == Len(stream) + 1
<1>3. end \in 1 .. Len(stream') /\ \A k \in 1 .. Len(stream) : k \in 1 .. Len(stream') /\ k < end
  BY <1>2
<1>4. ASSUME NEW other \in OrderIds, market'[other] # NotPosted
      PROVE  /\ other \in Rows(orders)
             /\ \/ \E k \in 1 .. Len(stream') : stream'[k].id = other
                \/ /\ orders[other].status = ReportStatus(market'[other])
                   /\ orders[other].executed = market'[other].executed
  <2>1. CASE other = id
    BY <1>2, <1>3, <2>1 DEF Known, KnownOK
  <2>2. CASE other # id
    <3>1. market'[other] = market[other] /\ Posted(other)
      BY <1>1, <1>4, <2>2 DEF Posted
    <3>2. /\ other \in Rows(orders)
          /\ \/ \E k \in 1 .. Len(stream) : stream[k].id = other
             \/ /\ orders[other].status = ReportStatus(market[other])
                /\ orders[other].executed = market[other].executed
      BY <3>1 DEF Known, KnownOK
    <3>3. QED
      BY <1>2, <1>3, <3>1, <3>2
  <2>3. QED
    BY <2>1, <2>2
<1>5. ASSUME NEW k \in 1 .. Len(stream'),
             \A l \in 1 .. Len(stream') : l > k => stream'[l].id # stream'[k].id
      PROVE  /\ stream'[k].status = ReportStatus(market'[stream'[k].id])
             /\ stream'[k].executed = market'[stream'[k].id].executed
  <2>1. CASE k = end
    BY <1>2, <2>1
  <2>2. CASE k \in 1 .. Len(stream)
    <3>1. stream'[k] = stream[k] /\ stream[k].id # id
      BY <1>2, <1>3, <1>5, <2>2
    <3>2. stream[k].id \in OrderIds
      BY <2>2, ReportedIsPosted DEF Known
    <3>3. \A l \in 1 .. Len(stream) : l > k => stream[l].id # stream[k].id
      BY <1>2, <1>3, <1>5, <3>1
    <3>4. /\ stream[k].status = ReportStatus(market[stream[k].id])
          /\ stream[k].executed = market[stream[k].id].executed
      BY <2>2, <3>3 DEF Known, KnownOK, Last
    <3>5. QED
      BY <1>1, <3>1, <3>2, <3>4
  <2>3. QED
    BY <1>2, <2>1, <2>2
<1>6. QED
  BY <1>1, <1>4, <1>5 DEF KnownOK, Last, Posted, Rows

\* A report applied was the last one on its way, or another one follows.
LEMMA ApplyKeepsKnown ==
    ASSUME Known, ApplyReport
    PROVE  KnownOK'
<1> DEFINE report == Head(stream)
<1>1. stream # <<>> /\ stream' = Tail(stream) /\ market' = market
  BY DEF ApplyReport
<1>2. /\ Len(stream) \in Nat /\ Len(stream) >= 1 /\ Len(stream') = Len(stream) - 1
      /\ \A k \in 1 .. Len(stream') : k + 1 \in 1 .. Len(stream) /\ stream'[k] = stream[k + 1]
      /\ report = stream[1]
  BY <1>1, TailStream DEF Known
<1>3. /\ Rows(orders') = Rows(orders)
      /\ \A id \in Rows(orders) :
            /\ id # report.id => orders'[id] = orders[id]
            /\ id = report.id => orders'[id].status = report.status /\ orders'[id].executed = report.executed
  BY ReportedRows DEF Known
<1> HIDE DEF report
<1>4. \A l \in 1 .. Len(stream) :
          l # 1 => l - 1 \in 1 .. Len(stream') /\ stream[l] = stream'[l - 1]
  BY <1>2
<1>5. ASSUME NEW id \in OrderIds, Posted(id)
      PROVE  /\ id \in Rows(orders')
             /\ \/ \E k \in 1 .. Len(stream') : stream'[k].id = id
                \/ /\ orders'[id].status = ReportStatus(market[id])
                   /\ orders'[id].executed = market[id].executed
  <2>1. id \in Rows(orders) /\ id \in Rows(orders')
    BY <1>3, <1>5 DEF Known, KnownOK
  <2>2. ASSUME \A k \in 1 .. Len(stream') : stream'[k].id # id
        PROVE  /\ orders'[id].status = ReportStatus(market[id])
               /\ orders'[id].executed = market[id].executed
    <3>1. \A l \in 1 .. Len(stream) : l # 1 => stream[l].id # id
      BY <1>4, <2>2
    <3>2. 1 \in 1 .. Len(stream) /\ \A l \in 1 .. Len(stream) : l > 1 => l # 1
      BY <1>2
    <3>3. CASE id = report.id
      <4>1. Last(1)
        BY <1>2, <3>1, <3>2, <3>3 DEF Last
      <4>2. report.status = ReportStatus(market[id]) /\ report.executed = market[id].executed
        BY <1>2, <3>2, <3>3, <4>1 DEF Known, KnownOK
      <4>3. QED
        BY <1>3, <2>1, <3>3, <4>2
    <3>4. CASE id # report.id
      <4>1. \A l \in 1 .. Len(stream) : stream[l].id # id
        BY <1>2, <3>1, <3>4
      <4>2. QED
        BY <1>3, <1>5, <2>1, <3>4, <4>1 DEF Known, KnownOK
    <3>5. QED
      BY <3>3, <3>4
  <2>3. QED
    BY <2>1, <2>2
<1>6. ASSUME NEW k \in 1 .. Len(stream'),
             \A l \in 1 .. Len(stream') : l > k => stream'[l].id # stream'[k].id
      PROVE  /\ stream'[k].status = ReportStatus(market[stream'[k].id])
             /\ stream'[k].executed = market[stream'[k].id].executed
  <2>1. k + 1 \in 1 .. Len(stream) /\ stream'[k] = stream[k + 1]
    BY <1>2
  <2>2. Last(k + 1)
    <3>1. ASSUME NEW l \in 1 .. Len(stream), l > k + 1
          PROVE  stream[l].id # stream[k + 1].id
      <4>1. l # 1 /\ l - 1 > k
        BY <3>1
      <4>2. QED
        BY <1>4, <1>6, <2>1, <4>1
    <3>2. QED
      BY <3>1 DEF Last
  <2>3. QED
    BY <2>1, <2>2 DEF Known, KnownOK
<1>7. QED
  BY <1>1, <1>5, <1>6 DEF KnownOK, Last, Posted

\* The trading goroutine writes rows of orders not posted, or links.
LEMMA WritingKeepsKnown ==
    ASSUME Known, RecordOrder \/ RecordFails \/ UndoOrder
    PROVE  KnownOK'
<1>1. UNCHANGED <<market, stream>>
  BY RecordingRows, UndoneRows DEF Known
<1>2. ASSUME NEW id \in OrderIds, Posted(id)
      PROVE  id \in Rows(orders') /\ Kept(id)
  <2>1. id \in Rows(orders)
    BY <1>2 DEF Known, KnownOK
  <2>2. CASE RecordOrder \/ RecordFails
    BY <2>1, <2>2, RecordingRows DEF Known
  <2>3. CASE UndoOrder
    <3>1. id # CurrentAct.id
      BY <1>2, <2>3 DEF UndoOrder, Known, Linked, UndoneNotPosted, CurrentAct
    <3>2. QED
      BY <2>1, <2>3, <3>1, UndoneRows DEF Known
  <2>4. QED
    BY <2>2, <2>3
<1>3. QED
  BY <1>1, <1>2 DEF Known, KnownOK, Kept, Posted, Last

LEMMA NextKnown ==
    ASSUME OnlyRejections, Known, [Next]_vars
    PROVE  Known'
<1>1. IInv' /\ Linked'
  BY NextIInv, NextLinked DEF Known, OnlyRejections
<1>2. KnownOK'
  <2>1. CASE PostOrder \/ PostAnswerLost \/ Exchange
    BY <2>1, TellingSteps, ToldKeepsKnown DEF Known
  <2>2. CASE Quiet /\ UNCHANGED stream
    BY <2>2 DEF Known, KnownOK, Quiet, Posted, Rows, Last
  <2>3. ~(DropReport \/ Crash)
    BY DEF DropReport, Crash, OnlyRejections
  <2>4. QED
    BY <2>1, <2>2, <2>3, StepKinds, ApplyKeepsKnown, WritingKeepsKnown DEF Known
<1>3. QED
  BY <1>1, <1>2 DEF Known

\* While nothing but postings fails, the table says of every order what the
\* exchange says once the reports have been worked off, however they and the
\* writes of the trading goroutine were interleaved.
THEOREM TableCatchesUp ==
    ASSUME OnlyRejections
    PROVE  Spec => []StoreCatchesUp
<1>1. Init => Known
  <2>1. Init => KnownOK
    BY DEF Init, KnownOK, Posted
  <2>2. Init => Linked
    BY DEF Init, Linked, SellsHaveRows, UndoneNotPosted, Posted
  <2>3. QED
    BY <2>1, <2>2, InitIInv DEF Known
<1>2. Known /\ [Next]_vars => Known'
  BY NextKnown
<1>3. Known => StoreCatchesUp
  BY DEF Known, KnownOK, StoreCatchesUp
<1>4. QED
  BY <1>1, <1>2, <1>3, PTL DEF Spec

-----------------------------------------------------------------------------
(* No sell is left behind, while neither the database nor the process fails *)

Undoable == "db" \notin Faults /\ "crash" \notin Faults

\* A row, if its order is not posted, stays a plain bought order.
LEMMA PlainStays ==
    ASSUME UnpostedOK, UNCHANGED market,
           \A id \in Rows(orders') :
              /\ id \in Rows(orders) /\ orders'[id].direction = orders[id].direction
              /\ orders'[id].ref \in {orders[id].ref, NoRef}
              /\ Undecided(id) => Undecided(id)'
    PROVE  UnpostedOK'
BY DEF UnpostedOK, Posted

\* Steps that write nothing leave the iteration where it is, or refuse its
\* action, or it has decided nothing yet.
LEMMA QuietKeepsUnposted ==
    ASSUME Undoable, IInv, UnpostedOK, Quiet, [Next]_vars
    PROVE  UnpostedOK'
<1>1. CASE tpc \notin Pending
  <2>1. \A id \in Rows(orders) : ~Undecided(id)
    BY <1>1 DEF Undecided, Pending
  <2>2. QED
    BY <2>1, PlainStays DEF Quiet
<1>2. CASE tpc \in Pending /\ ~PostRejected
  <2>1. CASE OrdersOperating \/ Exchange \/ UNCHANGED vars
    <3>1. UNCHANGED <<tpc, acts, cur>>
      BY <2>1 DEF OrdersOperating, ApplyReport, DropReport, Exchange, Cancel, Execute, locals, vars
    <3>2. QED
      BY <3>1, PlainStays DEF Quiet, Undecided
  <2>2. CASE Trader
    <3>1. RecordOrder \/ PostOrder \/ PostAnswerLost \/ UndoOrder
      BY <1>2, <2>2
         DEF Trader, Pending, Undoable, ReceivePrice, CountUnsold, ReadLowest, ReadLatestSell,
             ReadHighest, ReadFails, RecordFails, UndoFails
    <3>2. CASE RecordOrder
      <4>1. /\ nextId \notin Rows(orders) /\ nextId \in Rows(orders')
        BY <3>2, PutOrderKeepsTable DEF RecordOrder, CurrentAct
      <4>2. QED
        BY <4>1 DEF Quiet
    <3>3. CASE PostOrder \/ PostAnswerLost
      <4>1. PICK executionPrice \in Prices : Accept(CurrentAct, executionPrice)
        BY <3>3 DEF PostOrder, PostAnswerLost, CurrentAct
      <4>2. tpc = "post" /\ UNCHANGED <<orders, nextId>>
        BY <3>3 DEF PostOrder, PostAnswerLost
      <4>3. CurrentAct.id \in OrderIds /\ ~Posted(CurrentAct.id)
        BY <4>2, CurrentActType DEF Pending, IInv, TypeOK, ProgressOK, Recorded, CurrentAct, Rows
      <4>4. market'[CurrentAct.id].state = "working"
        BY <4>1, <4>3 DEF Accept, IInv, TypeOK
      <4>5. QED
        BY <4>3, <4>4 DEF Quiet, Posted, NotPosted
    <3>4. CASE UndoOrder
      <4>1. CurrentAct.id \in Rows(orders) /\ \A id \in Rows(orders') : id # CurrentAct.id
        BY <3>4, UndoneRows
      <4>2. QED
        BY <4>1 DEF Quiet
    <3>5. QED
      BY <3>1, <3>2, <3>3, <3>4
  <2>3. QED
    BY <2>1, <2>2 DEF Next, Crash, Undoable
<1>3. CASE PostRejected
  <2>1. tpc = "post" /\ tpc' = "undo" /\ UNCHANGED <<acts, cur>>
    BY <1>3 DEF PostRejected, locals
  <2>2. QED
    BY <2>1, PlainStays DEF Quiet, Undecided
<1>4. QED
  BY <1>1, <1>2, <1>3

\* The sell of the iteration gets its row; the actions behind it buy.
LEMMA RecordKeepsUnposted ==
    ASSUME IInv, UnpostedOK, RecordOrder
    PROVE  UnpostedOK'
<1>1. /\ tpc = "record" /\ market' = market
      /\ acts' = [acts EXCEPT ![cur] = [acts[cur] EXCEPT !.id = nextId]]
      /\ \/ cur' = cur + 1 /\ tpc' = "record"
         \/ cur' = 1 /\ tpc' = "post"
  BY DEF RecordOrder
<1>2. /\ cur \in 1 .. Len(acts) /\ CurrentAct \in Actions /\ acts \in Seq(Actions)
      /\ CurrentAct.action = "SELL" => cur = 1
      /\ CurrentAct.action = "BUY" => CurrentAct.ref = NoRef
  BY <1>1, CurrentActType DEF Pending, IInv, TypeOK
<1>3. /\ \A id \in Rows(orders) : id \in Rows(orders') /\ Kept(id)
      /\ \A id \in Rows(orders') \ Rows(orders) :
            id = nextId /\ ~Posted(id) /\ orders'[id] = NewRow(CurrentAct)
      /\ \A id \in Rows(orders) : orders'[id].ref # orders[id].ref => Posted(id)
  BY RecordingRows
<1>4. ASSUME NEW id \in Rows(orders), Undecided(id)
      PROVE  Undecided(id)'
  <2>1. cur > 1 /\ cur \in Nat /\ acts[1].action = "SELL" /\ acts[1].id = id
    BY <1>1, <1>2, <1>4 DEF Undecided
  <2>2. 1 \in 1 .. Len(acts) /\ acts'[1] = acts[1] /\ acts' # <<>>
    BY <1>1, <1>2, <2>1
  <2>3. QED
    BY <1>1, <2>1, <2>2 DEF Undecided
<1>5. ASSUME NEW id, id = nextId, CurrentAct.action = "SELL"
      PROVE  Undecided(id)'
  <2> DEFINE act == [acts[cur] EXCEPT !.id = nextId]
  <2>1. act.action = "SELL" /\ act.id = id
    BY <1>2, <1>5 DEF CurrentAct, Actions
  <2>2. cur = 1 /\ acts' = [acts EXCEPT ![cur] = act]
    BY <1>1, <1>2, <1>5
  <2> HIDE DEF act
  <2>3. acts'[1] = act /\ acts' # <<>>
    BY <1>2, <2>2
  <2>4. (tpc' = "record" /\ cur' > 1) \/ (tpc' = "post" /\ cur' = 1)
    BY <1>1, <2>2
  <2>5. QED
    BY <2>1, <2>3, <2>4 DEF Undecided
<1>6. ASSUME NEW id \in Rows(orders'), ~Posted(id)
      PROVE  \/ orders'[id].direction = "BUY" /\ orders'[id].ref = NoRef
             \/ Undecided(id)'
  <2>1. CASE id \in Rows(orders)
    BY <1>3, <1>4, <1>6, <2>1 DEF UnpostedOK, Kept
  <2>2. CASE id \notin Rows(orders)
    <3>1. id = nextId /\ orders'[id] = NewRow(CurrentAct)
      BY <1>3, <2>2
    <3>2. orders'[id].direction = CurrentAct.action /\ orders'[id].ref = CurrentAct.ref
      BY <3>1 DEF NewRow
    <3>3. QED
      BY <1>2, <1>5, <3>1, <3>2 DEF Actions, Directions
  <2>3. QED
    BY <2>1, <2>2
<1>7. QED
  BY <1>1, <1>6 DEF UnpostedOK, Posted

\* The sell that is posted is no longer unposted, and nothing else changes.
LEMMA ToldKeepsUnposted ==
    ASSUME IInv, UnpostedOK, PostOrder \/ PostAnswerLost \/ Exchange
    PROVE  UnpostedOK'
<1>1. PICK id \in OrderIds :
          Told(id) /\ (Exchange \/ (tpc = "post" /\ id = CurrentAct.id /\ id \in Rows(orders)))
  BY TellingSteps
<1>2. /\ orders' = orders /\ Posted(id)'
      /\ \A other \in OrderIds \ {id} : market'[other] = market[other]
  BY <1>1 DEF Told, Posted, NotPosted, ExchangeOrder
<1>3. CASE Exchange
  <2>1. UNCHANGED <<tpc, acts, cur>>
    BY <1>3 DEF Exchange, Cancel, Execute, locals
  <2>2. QED
    BY <1>2, <2>1 DEF UnpostedOK, Posted, Undecided, Rows
<1>4. CASE tpc = "post" /\ id = CurrentAct.id
  <2>1. ASSUME NEW other \in Rows(orders), other # id
        PROVE  ~Undecided(other)
    BY <1>4, <2>1 DEF Undecided, CurrentAct
  <2>2. QED
    BY <1>2, <2>1 DEF UnpostedOK, Posted, Rows
<1>5. QED
  BY <1>1, <1>3, <1>4

LEMMA NextUnposted ==
    ASSUME Undoable, IInv, UnpostedOK, [Next]_vars
    PROVE  UnpostedOK'
<1>1. CASE Quiet
  BY <1>1, QuietKeepsUnposted
<1>2. CASE ApplyReport
  <2>1. /\ UNCHANGED <<market, tpc, acts, cur>>
        /\ Rows(orders') = Rows(orders)
        /\ \A id \in Rows(orders) : /\ orders'[id].ref = orders[id].ref
                                    /\ orders'[id].direction = orders[id].direction
    BY <1>2, ReportedRows DEF ApplyReport, locals
  <2>2. QED
    BY <2>1, PlainStays DEF Undecided
<1>3. CASE RecordOrder
  BY <1>3, RecordKeepsUnposted
<1>4. CASE UndoOrder
  <2>1. /\ UNCHANGED market /\ tpc = "undo"
        /\ \A id \in Rows(orders') :
              /\ id \in Rows(orders) /\ Kept(id) /\ id # CurrentAct.id
              /\ orders'[id].ref # orders[id].ref => orders'[id].ref = NoRef
    BY <1>4, UndoneRows
  <2>2. \A id \in Rows(orders') : ~Undecided(id)
    BY <2>1 DEF Undecided, CurrentAct
  <2>3. QED
    BY <2>1, <2>2, PlainStays DEF Kept
<1>5. CASE PostOrder \/ PostAnswerLost \/ Exchange
  BY <1>5, ToldKeepsUnposted
<1>6. ~RecordFails
  BY DEF RecordFails, Undoable
<1>7. QED
  BY <1>1, <1>2, <1>3, <1>4, <1>5, <1>6, StepKinds

\* While neither the database nor the process fails, no iteration leaves a sell
\* behind that was not posted: refused or not answered, its row is taken back,
\* and the bought order offered again.
THEOREM NoSellLeftBehind ==
    ASSUME Undoable
    PROVE  Spec => []UnpostedRowsAreBuys
<1>1. Init => IInv /\ UnpostedOK
  <2>1. Init => UnpostedOK
    BY DEF Init, UnpostedOK, Rows
  <2>2. QED
    BY <2>1, InitIInv
<1>2. (IInv /\ UnpostedOK) /\ [Next]_vars => (IInv /\ UnpostedOK)'
  BY NextIInv, NextUnposted
<1>3. UnpostedOK => UnpostedRowsAreBuys
  BY DEF UnpostedOK, UnpostedRowsAreBuys, Undecided
<1>4. QED
  BY <1>1, <1>2, <1>3, PTL DEF Spec
=============================================================================
