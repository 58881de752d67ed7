-------------------------- MODULE MCCandlesLoader --------------------------
(* Values for the constants of CandlesLoader: two entries of one series,   *)
(* whose ranges overlap, and one of another; three for two places in the   *)
(* pool.                                                                   *)
EXTENDS CandlesLoader, TLC

CONSTANTS share, bond

Date(c)     == [kind |-> "date", time |-> c]
Ago(c)      == [kind |-> "ago", candles |-> c]
Entry(u, f, o) == [uid |-> u, interval |-> "1_DAY", from |-> f, to |-> o]

ThreeEntries == <<Entry(share, Date(0), Ago(0)), Entry(share, Ago(2), Date(4)), Entry(bond, Date(0), Date(2))>>
BondsCameLater == share :> 0 @@ bond :> 1

\* Two months are two candles or, from an odd one, three.
Uneven == [c \in 0 .. 10 |-> IF c % 2 = 0 THEN c + 2 ELSE c + 3]

EveryFault == {"config", "broker", "db"}
=============================================================================
