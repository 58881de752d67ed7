---------------------------- MODULE MCTradingBot ----------------------------
(* Values for the constants of TradingBot: a and b are interchangeable, so *)
(* that these files are all there are up to their names.                   *)
EXTENDS TradingBot

CONSTANTS a, b

MCIds == {a, b}
NoneOrBoth == {{}, {a, b}}
NoneOneOrBoth == {{}, {b}, {a, b}}
TwoLoggers == {"trader", "manager"}
EveryFault == {"connect", "entry", "register", "decode", "panic"}
=============================================================================
