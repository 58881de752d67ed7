------------------------------- MODULE BTDSTF -------------------------------
(***************************************************************************)
(* "Buy the deep, sell the fix", the strategy of internal/strategy/btdstf: *)
(* what it answers to a price, given what the table of orders said.  The   *)
(* reads of the table are separate transactions; they belong to the module *)
(* that drives the strategy.                                               *)
(*                                                                         *)
(* Prices are integers (ticks) and percents are whole, so the comparisons  *)
(* of the code, in floats, are exact here; nothing below depends on how a  *)
(* comparison is rounded.                                                  *)
(***************************************************************************)
EXTENDS Integers, Sequences

CONSTANTS MaxDepth,          \* max_depth
          LotsToBuy,         \* lots_to_buy
          PercentDownToBuy,  \* percent_down_to_buy
          PercentUpToSell    \* percent_up_to_sell

ASSUME StrategyAssumption ==
    /\ MaxDepth \in Int /\ LotsToBuy \in Int
    /\ PercentDownToBuy \in Nat /\ PercentUpToSell \in Nat

\* The part of an order the strategy computes with.
NoOrder == [id |-> 0, price |-> 0, lots |-> 0]

IsDownToBuy(lastPrice, orderPrice) ==
    lastPrice * (100 + PercentDownToBuy) < orderPrice * 100

IsUpToSell(lastPrice, orderPrice) ==
    orderPrice * (100 + PercentUpToSell) < lastPrice * 100

\* A mutated form of AtLeastOne, without the clamp.
AnyLots(lots) == lots

AtLeastOne(lots) == IF lots < 1 THEN 1 ELSE lots

\* One buy order fills every level that is still free, in one go.
BuyAction(unsold) ==
    [action |-> "BUY", lots |-> AtLeastOne(LotsToBuy * (MaxDepth - unsold)),
     id |-> 0, ref |-> 0]

SellAction(order) ==
    [action |-> "SELL", lots |-> AtLeastOne(order.lots), id |-> 0, ref |-> order.id]

\* What the lowest bought order (NoOrder if none) and the existence of a sold
\* one lead to; "buy" still reads the highest bought order when the depth is
\* reached.
Decision(lowest, existSold, lastPrice) ==
    LET existBought == lowest # NoOrder
    IN  IF ~existBought /\ ~existSold THEN "first"
        ELSE IF lastPrice <= 0 THEN "hold"
        ELSE IF ~existBought \/ IsDownToBuy(lastPrice, lowest.price) THEN "buy"
        ELSE IF IsUpToSell(lastPrice, lowest.price) THEN "sell"
        ELSE "hold"

\* A mutated form of DepthReached, one order late.
DepthExceeded(unsold) == unsold > MaxDepth

DepthReached(unsold) == unsold >= MaxDepth

\* At full depth the highest bought order, if any, makes room for the new one.
Rotation(highest, unsold) ==
    IF highest = NoOrder THEN <<BuyAction(unsold)>>
    ELSE <<SellAction(highest), BuyAction(unsold - 1)>>
=============================================================================
