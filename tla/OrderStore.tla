----------------------------- MODULE OrderStore -----------------------------
(***************************************************************************)
(* The table `orders` of one trader on one instrument, and the queries and *)
(* transactions the program runs on it (internal/clients/postgres).        *)
(*                                                                         *)
(* A table is a total function from order ids to rows, NoRow where the     *)
(* table has none.  Every operation of the client is one serializable      *)
(* transaction, so each is an operator from a table to a table or to the   *)
(* answer of a query.  Columns no query tells apart are left out: only the *)
(* existence of a sell matters to the strategy, so completed_at is.        *)
(***************************************************************************)
EXTENDS Naturals, FiniteSets

CONSTANT MaxOrders      \* bound: order ids handed out in one behaviour

ASSUME MaxOrdersAssumption == MaxOrders \in Nat \ {0}

OrderIds == 1 .. MaxOrders
NoRef    == 0           \* NULL in order_id_ref

Directions == {"BUY", "SELL"}
Statuses   == {"NEW", "PARTIALLYFILL", "FILL", "CANCELLED"}
Settled    == {"FILL", "CANCELLED"}

Row == [direction : Directions, status : Statuses, ref : OrderIds \cup {NoRef},
        price : Nat, lots : Nat, executed : Nat]

NoRow == [direction |-> "NONE", status |-> "NONE", ref |-> NoRef,
          price |-> 0, lots |-> 0, executed |-> 0]

Tables == [OrderIds -> Row \cup {NoRow}]

Rows(table) == {id \in OrderIds : table[id] # NoRow}

-----------------------------------------------------------------------------
(* Plausible bugs, each the mutated form of a definition below: an insert  *)
(* that forgets the back link, an update that forgets lots_executed, an    *)
(* undo that forgets the row, queries that forget a condition.             *)

PutOrderWithoutBackLink(table, order, row) == [table EXCEPT ![order] = row]

UpdateOrderWithoutExecuted(table, report) ==
    [id \in OrderIds |->
        IF id = report.id /\ id \in Rows(table)
        THEN [table[id] EXCEPT !.status = report.status, !.price = report.price]
        ELSE table[id]]

RemoveOrderKeepingRow(table, order, ref) ==
    [id \in OrderIds |->
        IF id = ref /\ id \in Rows(table) THEN [table[id] EXCEPT !.ref = NoRef]
        ELSE table[id]]

UnsoldBuysWithSold(table) == {id \in Rows(table) : table[id].direction = "BUY"}

ExecutedUnsoldBuysWithNew(table) ==
    {id \in Rows(table) : table[id].direction = "BUY" /\ table[id].ref = NoRef}

-----------------------------------------------------------------------------
(* Transactions *)

\* INSERT of an order, and of the back link into the row it refers to.
PutOrder(table, order, row) ==
    [id \in OrderIds |->
        IF id = order THEN row
        ELSE IF id = row.ref /\ id \in Rows(table)
             THEN [table[id] EXCEPT !.ref = order]
             ELSE table[id]]

\* UPDATE from a report of the exchange; it touches no row when the order is
\* unknown, and never the column order_id_ref.
UpdateOrder(table, report) ==
    [id \in OrderIds |->
        IF id = report.id /\ id \in Rows(table)
        THEN [table[id] EXCEPT !.direction = report.direction,
                               !.status    = report.status,
                               !.price     = report.price,
                               !.executed  = report.executed]
        ELSE table[id]]

\* Undo of PutOrder: the referenced row is released, the order's row deleted.
RemoveOrder(table, order, ref) ==
    [id \in OrderIds |->
        IF id = order THEN NoRow
        ELSE IF id = ref /\ id \in Rows(table)
             THEN [table[id] EXCEPT !.ref = NoRef]
             ELSE table[id]]

-----------------------------------------------------------------------------
(* Queries *)

UnsoldBuys(table) ==
    {id \in Rows(table) : table[id].direction = "BUY" /\ table[id].ref = NoRef}

GetUnsoldOrdersAmount(table) == Cardinality(UnsoldBuys(table))

ExecutedUnsoldBuys(table) ==
    {id \in UnsoldBuys(table) : table[id].status = "FILL"}

\* ORDER BY price LIMIT 1 leaves the choice among equal prices open: the
\* queries are the sets of the rows they may return.
LowestExecutedBuys(table) ==
    {id \in ExecutedUnsoldBuys(table) :
        \A other \in ExecutedUnsoldBuys(table) : table[id].price <= table[other].price}

HighestExecutedBuys(table) ==
    {id \in ExecutedUnsoldBuys(table) :
        \A other \in ExecutedUnsoldBuys(table) : table[id].price >= table[other].price}

ExecutedSells(table) ==
    {id \in Rows(table) : table[id].direction = "SELL" /\ table[id].status = "FILL"}
=============================================================================
