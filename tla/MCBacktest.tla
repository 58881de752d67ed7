----------------------------- MODULE MCBacktest -----------------------------
(* Values for the constants of Backtest: prices far enough apart to buy and *)
(* sell, and a ladder that is soon full.                                    *)
EXTENDS Backtest

ThreePrices == {10, 12, 14}
=============================================================================
