----------------------------- MODULE Positions -----------------------------
(***************************************************************************)
(* What a trader may do at all, whatever its strategy and whatever goes    *)
(* wrong: it opens positions, and offers each of them for sale at most     *)
(* once, whole, and never anything it does not hold.  Trading and Backtest *)
(* implement this module.                                                  *)
(***************************************************************************)
EXTENDS Naturals

CONSTANT Ids   \* the names of positions: the ids of the orders that open them

VARIABLES
    held,      \* the lots of each open position, 0 before it is opened
    offered    \* the sales it has been offered in, with their lots

\* How many lots are opened is left open.
Open(id) ==
    /\ held[id] = 0 /\ held'[id] > 0
    /\ held' = [held EXCEPT ![id] = held'[id]]
    /\ UNCHANGED offered

Offer(id) ==
    /\ held[id] > 0 /\ offered[id] = {}
    /\ \E sale \in Ids :
          offered' = [offered EXCEPT ![id] = {[sale |-> sale, lots |-> held[id]]}]
    /\ UNCHANGED held

Init == held = [id \in Ids |-> 0] /\ offered = [id \in Ids |-> {}]

Next == \E id \in Ids : Open(id) \/ Offer(id)

Spec == Init /\ [][Next]_<<held, offered>>
=============================================================================
