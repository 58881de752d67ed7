---------------------------- MODULE MCOrderFeed ----------------------------
(* Values for the constants of OrderFeed: two traders, who may share an     *)
(* account or an instrument.                                                *)
EXTENDS OrderFeed

CONSTANTS t1, t2, main, other, share, bond

OneTrader  == {t1}
TwoTraders == {t1, t2}

Default     == {main}
TwoAccounts == {main, other}
Share       == {share}
TwoUids     == {share, bond}

Symmetric  == Permutations(TwoTraders) \cup Permutations(TwoAccounts)

Starts    == {"start"}
Updates   == {"start", "update"}
Stops     == {"start", "stop"}
Reloads   == {"start", "update", "stop"}
NoFaults  == {}
AllFaults == {"stream", "prices"}
=============================================================================
