---------------------------- MODULE MCPriceFeed ----------------------------
(* Values for the constants of PriceFeed: two traders, who may share an     *)
(* instrument.                                                              *)
EXTENDS PriceFeed

CONSTANTS t1, t2, share, bond

OneTrader  == {t1}
TwoTraders == {t1, t2}
Share      == {share}
TwoUids    == {share, bond}

Symmetric == Permutations(TwoTraders) \cup Permutations(TwoUids)

Starts  == {"start"}
Updates == {"start", "update"}
Stops   == {"start", "stop"}
Reloads == {"start", "update", "stop"}

NoFaults       == {}
RegisterFaults == {"stream", "subscribe"}
AllFaults      == {"stream", "subscribe", "unsubscribe"}
=============================================================================
