----------------------------- MODULE MCTrading ------------------------------
(* Values for the constants of Trading.  The configurations use ladders of *)
(* depth one, where the second bought order already rotates, with one lot   *)
(* or with two that may be executed apart, and one of depth two, where the  *)
(* first order buys two lots.  Prices are far enough apart to buy and sell. *)
EXTENDS Trading

TwoPrices  == {10, 12}

NoFaults   == {}
PostFaults == {"post"}
EveryFault == {"db", "post", "lost_answer", "stream", "undated", "crash"}
=============================================================================
