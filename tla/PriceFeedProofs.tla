-------------------------- MODULE PriceFeedProofs --------------------------
(***************************************************************************)
(* Proofs about PriceFeed, for any traders and instruments, any number of  *)
(* prices and of reloads.                                                  *)
(*                                                                         *)
(* A price is kept in as many channels as the instrument has recipients,   *)
(* and a trader that moves may be two of them.  It does not decide twice   *)
(* on one price because the paths of its old instrument go all at once, so *)
(* that of two channels of one instrument it reads only the older one, and *)
(* because a price left behind is older than all that come after the path  *)
(* is gone.  Without UnSubscribe succeeding the paths stay: that part of   *)
(* the invariant is only claimed where it does.                            *)
(***************************************************************************)
EXTENDS PriceFeed, TLAPS

\* The configurations somebody still has in his hands.
Known ==
    {c \in Configs : \/ c \in recipients
                     \/ \E t \in Traders : c = cfg[t] \/ c = using[t]
                     \/ op # Idle /\ c = op.new}

\* The channels a trader may still look up: that of its configuration, and the
\* one it is moving to, unless that one goes with the paths of its instrument.
Live(t) ==
    {c \in Configs : \/ c = cfg[t] /\ c \in recipients
                     \/ /\ op # Idle /\ op.kind = "update" /\ op.trader = t
                        /\ c = op.new /\ c.uid # cfg[t].uid}

\* The channel it has looked up, or is about to.
Reading(t) ==
    {c \in Configs : c = using[t] /\ \/ tpc[t] = "receive"
                                     \/ tpc[t] = "lookup" /\ c \in recipients}

\* An operation is on the trader it suits, and a trader that trades has a
\* configuration.
ManagerOK ==
    /\ op # Idle =>
          /\ op.kind = "start" => status[op.trader] = "new" /\ op.step \in {"register", "add"}
          /\ op.kind = "update" => status[op.trader] = "running"
          /\ op.kind = "stop" => /\ status[op.trader] = "stopped" /\ op.new = cfg[op.trader]
                                 /\ op.step \in {"unregister", "delete", "finish"}
    /\ \A t \in Traders :
          /\ status[t] = "new" =>
                 tpc[t] = "off" /\ \A uid \in Instruments : price[t][uid] = NoPrice
          /\ status[t] # "new" => cfg[t] \in Configs
          /\ tpc[t] \in {"lookup", "receive"} => using[t] \in Configs

\* An instance has one configuration, and nothing was ever done with one that
\* is not handed out or not registered yet.
FreshOK ==
    /\ \A c \in Known : c.instance < nextInstance
    /\ \A c, d \in Known : c.instance = d.instance => c = d
    /\ \A i \in Instances : i >= nextInstance => slot[i] = NoPrice /\ i \notin closed
    /\ op # Idle /\ op.kind # "stop" =>
          /\ \A t \in Traders : op.new # cfg[t] /\ op.new # using[t]
          /\ op.step \in {"register", "add"} => /\ op.new \notin recipients
                                                /\ slot[op.new.instance] = NoPrice
                                                /\ op.new.instance \notin closed

\* All prices are of the past.
PastOK ==
    /\ \A i \in Instances : slot[i] <= count
    /\ \A t \in Traders, uid \in Instruments : price[t][uid] <= count

\* n is older than the price waiting for c, if there is one.
Before(n, c) == slot[c.instance] # NoPrice => n < slot[c.instance]

\* At the last step of an operation nobody is left on the instrument of the
\* trader; what a trader has taken is older than what it may take, and what it
\* has not yet taken from a channel it has left is older than what it may look up.
ReadersOK ==
    /\ op # Idle /\ op.step = "finish" => \A c \in recipients : c.uid # cfg[op.trader].uid
    /\ \A t \in Traders :
          /\ using[t] \in recipients /\ tpc[t] \in {"lookup", "receive"} => using[t] = cfg[t]
          /\ \A c \in Live(t) \cup Reading(t) : Before(price[t][c.uid], c)
          /\ \A c \in Live(t) : \A d \in Reading(t) :
                tpc[t] = "receive" /\ c # d /\ c.uid = d.uid /\ slot[d.instance] # NoPrice =>
                    Before(slot[d.instance], c)

IInv ==
    /\ TypeOK /\ ManagerOK /\ FreshOK /\ ClosedForGood /\ PastOK
    /\ "unsubscribe" \notin PriceFaults => ReadersOK

-----------------------------------------------------------------------------
LEMMA InitOK == Init => IInv
<1> SUFFICES ASSUME Init PROVE IInv
  OBVIOUS
<1>1. TypeOK
  <2>1. slot \in [Instances -> 0 .. MaxPrices] /\ count \in 0 .. MaxPrices
    BY PriceFeedAssumption DEF Init, NoPrice
  <2>2. {cfg, using, posted} \subseteq [Traders -> Configs \cup {NoConfig}]
    BY DEF Init
  <2>3. /\ nextInstance \in 1 .. MaxInstances + 1
        /\ price \in [Traders -> [Instruments -> 0 .. MaxPrices]]
    BY PriceFeedAssumption DEF Init, NoPrice
  <2>4. /\ status \in [Traders -> {"new", "running", "stopped"}]
        /\ tpc \in [Traders -> {"off", "config", "lookup", "receive", "nowhere", "act"}]
        /\ due \in [Traders -> BOOLEAN]
    BY DEF Init
  <2> QED BY <2>1, <2>2, <2>3, <2>4 DEF Init, TypeOK
<1>2. Known = {} /\ \A t \in Traders : Live(t) = {} /\ Reading(t) = {}
  BY DEF Init, Known, Live, Reading, NoConfig, Configs, Instances, Idle
<1>3. ManagerOK /\ FreshOK /\ ClosedForGood /\ PastOK
  BY <1>2 DEF Init, ManagerOK, FreshOK, ClosedForGood, PastOK, NoPrice, Idle
<1>4. ReadersOK
  BY <1>2 DEF Init, ReadersOK, NoConfig, Idle
<1> QED BY <1>1, <1>3, <1>4 DEF IInv

LEMMA Types ==
    ASSUME TypeOK
    PROVE  /\ cfg \in [Traders -> Configs \cup {NoConfig}]
           /\ using \in [Traders -> Configs \cup {NoConfig}]
           /\ posted \in [Traders -> Configs \cup {NoConfig}]
           /\ NoConfig \notin Configs
           /\ \A c \in Configs : c.instance \in Instances /\ c.uid \in Instruments
           /\ op # Idle => op.trader \in Traders /\ op.new \in Configs
BY DEF TypeOK, NoConfig, Configs, Instances

LEMMA OpStep ==
    ASSUME TypeOK, op # Idle,
           NEW s \in {"register", "add", "unregister", "delete", "finish"},
           op' = [op EXCEPT !.step = s]
    PROVE  /\ op' # Idle /\ op'.step = s /\ op'.kind = op.kind /\ op'.trader = op.trader
           /\ op'.new = op.new
           /\ op' \in [kind : {"start", "update", "stop"}, trader : Traders,
                       step : {"register", "add", "unregister", "delete", "finish"},
                       new : Configs]
BY DEF TypeOK, Idle

-----------------------------------------------------------------------------
(* The market *)

LEMMA MarketMovesOK == ASSUME NEW uid \in Instruments PROVE IInv /\ MarketMoves(uid) => IInv'
<1> SUFFICES ASSUME IInv, MarketMoves(uid) PROVE IInv'
  OBVIOUS
<1>1. /\ count \in Nat /\ count' = count + 1 /\ count' \in 0 .. MaxPrices
      /\ \A i \in Instances : /\ slot'[i] = slot[i] \/ slot'[i] = count'
                              /\ slot'[i] # slot[i] => i \in Listeners(uid)
      /\ slot' \in [Instances -> 0 .. MaxPrices]
      /\ due' \in [Traders -> BOOLEAN]
      /\ UNCHANGED <<stream, subscribed, recipients, closed, op, status, cfg, nextInstance,
                     tpc, using, price, posted>>
  <2>1. /\ count \in Nat /\ count' = count + 1 /\ count' \in 0 .. MaxPrices
        /\ UNCHANGED <<stream, subscribed, recipients, closed, op, status, cfg, nextInstance,
                       tpc, using, price, posted>>
    BY PriceFeedAssumption DEF MarketMoves, manager, traders, IInv, TypeOK
  <2>2. /\ \A i \in Instances : /\ slot'[i] = slot[i] \/ slot'[i] = count'
                                /\ slot'[i] # slot[i] => i \in Listeners(uid)
        /\ slot' \in [Instances -> 0 .. MaxPrices]
    <3>1. CASE uid \in subscribed /\ stream = "routed"
      BY <2>1, <3>1 DEF MarketMoves, IInv, TypeOK
    <3>2. CASE ~(uid \in subscribed /\ stream = "routed")
      BY <2>1, <3>2 DEF MarketMoves, IInv, TypeOK
    <3> QED BY <3>1, <3>2
  <2>3. due' \in [Traders -> BOOLEAN]
    BY DEF MarketMoves, IInv, TypeOK
  <2> QED BY <2>1, <2>2, <2>3
<1>2. \A i \in Listeners(uid) : i \notin closed /\ \E c \in recipients : c.instance = i
  BY DEF Listeners, IInv, ClosedForGood
<1>3. /\ Known' = Known
      /\ \A t \in Traders : Live(t)' = Live(t) /\ Reading(t)' = Reading(t)
      /\ recipients \subseteq Known /\ Known \subseteq Configs
      /\ \A t \in Traders : Live(t) \cup Reading(t) \subseteq Known
  BY <1>1 DEF Known, Live, Reading, IInv, TypeOK
<1>4. TypeOK'
  BY <1>1 DEF IInv, TypeOK
<1>5. ManagerOK'
  BY <1>1 DEF IInv, ManagerOK
<1>6. \A c \in Known : c.instance \in Instances /\ c.instance < nextInstance
  BY <1>3, Types DEF IInv, FreshOK
<1>7. FreshOK'
  <2>1. \A i \in Instances : i >= nextInstance => slot'[i] = slot[i]
    BY <1>1, <1>2, <1>3, <1>6 DEF IInv, TypeOK, Instances
  <2>2. op # Idle /\ op.kind # "stop" /\ op.step \in {"register", "add"} =>
            slot'[op.new.instance] = slot[op.new.instance]
    <3> SUFFICES ASSUME op # Idle, op.kind # "stop", op.step \in {"register", "add"}
                 PROVE  slot'[op.new.instance] = slot[op.new.instance]
      OBVIOUS
    <3>1. op.new \in Known /\ op.new \notin recipients /\ op.new.instance \in Instances
      BY Types DEF Known, IInv, FreshOK
    <3>2. op.new.instance \notin Listeners(uid)
      BY <1>2, <1>3, <3>1 DEF IInv, FreshOK
    <3> QED BY <1>1, <3>1, <3>2
  <2> QED BY <1>1, <1>3, <2>1, <2>2 DEF IInv, FreshOK
<1>8. ClosedForGood'
  BY <1>1, <1>2 DEF IInv, ClosedForGood, TypeOK
<1>9. \A i \in Instances : slot[i] \in Nat /\ slot[i] <= count
  BY DEF IInv, TypeOK, PastOK
<1>10. \A t \in Traders, u \in Instruments : price[t][u] \in Nat /\ price[t][u] <= count
  BY DEF IInv, TypeOK, PastOK
<1>11. PastOK'
  BY <1>1, <1>9, <1>10 DEF PastOK
<1>12. ASSUME ReadersOK PROVE ReadersOK'
  <2>1. \A c \in Known : \A n \in Nat : n <= count /\ Before(n, c) => Before(n, c)'
    BY <1>1, <1>6, <1>9 DEF Before
  <2>2. ASSUME NEW t \in Traders, NEW c \in Live(t) \cup Reading(t)
        PROVE  Before(price[t][c.uid], c)'
    <3>1. c \in Known /\ c.uid \in Instruments
      BY <1>3, Types DEF IInv
    <3> QED BY <1>1, <1>10, <1>12, <2>1, <3>1 DEF ReadersOK, Before
  <2>3. ASSUME NEW t \in Traders, NEW c \in Live(t), NEW d \in Reading(t), tpc[t] = "receive",
               c # d, c.uid = d.uid, NEW n, n = slot'[d.instance], n # NoPrice
        PROVE  Before(n, c)'
    <3>1. c \in Known /\ d \in Known /\ d.instance \in Instances
      BY <1>3, <1>6
    <3>2. CASE n = slot[d.instance]
      <4>1. n \in Nat /\ n <= count /\ Before(n, c)
        BY <1>9, <1>12, <2>3, <3>1, <3>2 DEF ReadersOK
      <4> QED BY <2>1, <3>1, <4>1
    <3>3. CASE n # slot[d.instance]
      <4>1. d \in recipients
        BY <1>1, <1>2, <1>3, <2>3, <3>1, <3>3 DEF IInv, FreshOK
      <4>2. d = cfg[t]
        BY <1>12, <2>3, <4>1 DEF ReadersOK, Reading
      <4> QED BY <2>3, <4>2 DEF Live
    <3> QED BY <3>2, <3>3
  <2>4. op # Idle /\ op.step = "finish" => \A c \in recipients : c.uid # cfg[op.trader].uid
    BY <1>12 DEF ReadersOK
  <2>5. \A t \in Traders : using[t] \in recipients /\ tpc[t] \in {"lookup", "receive"}
                               => using[t] = cfg[t]
    BY <1>12 DEF ReadersOK
  <2>6. \A t \in Traders : \A c \in Live(t) : \A d \in Reading(t) :
            /\ tpc[t] = "receive" /\ c # d /\ c.uid = d.uid
            /\ slot'[d.instance] # NoPrice /\ slot'[c.instance] # NoPrice
            => slot'[d.instance] < slot'[c.instance]
    BY <2>3 DEF Before
  <2> QED BY <1>1, <1>3, <2>2, <2>4, <2>5, <2>6 DEF ReadersOK, Before
<1> QED BY <1>4, <1>5, <1>7, <1>8, <1>11, <1>12 DEF IInv

-----------------------------------------------------------------------------
(* Steps that leave the channels and the prices taken alone *)

channels == <<recipients, slot, closed, count, price>>

LEMMA StillFresh ==
    ASSUME IInv, UNCHANGED <<recipients, slot, closed, nextInstance>>, Known' \subseteq Known,
           op' # Idle /\ op'.kind # "stop" =>
               /\ \A t \in Traders : op'.new # cfg'[t] /\ op'.new # using'[t]
               /\ op'.step \in {"register", "add"} =>
                      op # Idle /\ op.kind # "stop" /\ op.step \in {"register", "add"} /\ op'.new = op.new
    PROVE  FreshOK'
<1>1. /\ \A c \in Known' : c.instance < nextInstance'
      /\ \A c, d \in Known' : c.instance = d.instance => c = d
  BY DEF IInv, FreshOK
<1>2. \A i \in Instances : i >= nextInstance' => slot'[i] = NoPrice /\ i \notin closed'
  BY DEF IInv, FreshOK
<1>3. op' # Idle /\ op'.kind # "stop" =>
          /\ \A t \in Traders : op'.new # cfg'[t] /\ op'.new # using'[t]
          /\ op'.step \in {"register", "add"} => /\ op'.new \notin recipients'
                                                 /\ slot'[op'.new.instance] = NoPrice
                                                 /\ op'.new.instance \notin closed'
  BY DEF IInv, FreshOK
<1> QED BY <1>1, <1>2, <1>3 DEF FreshOK

LEMMA QuietFacts ==
    ASSUME IInv, UNCHANGED channels
    PROVE  ClosedForGood' /\ PastOK' /\ \A c, n : Before(n, c)' <=> Before(n, c)
BY DEF IInv, ClosedForGood, PastOK, Before, channels

\* What is left to show of a reader when the channels are as they were.
LEMMA StillReading ==
    ASSUME IInv, ReadersOK, UNCHANGED channels,
           op' # Idle /\ op'.step = "finish" => \A c \in recipients : c.uid # cfg'[op'.trader].uid,
           \A t \in Traders :
              /\ using'[t] \in recipients /\ tpc'[t] \in {"lookup", "receive"} => using'[t] = cfg'[t]
              /\ Live(t)' \cup Reading(t)' \subseteq Live(t) \cup Reading(t)
              /\ \A c \in Live(t)' : \A d \in Reading(t)' :
                    tpc'[t] = "receive" /\ c # d /\ c.uid = d.uid =>
                        c \in Live(t) /\ d \in Reading(t) /\ tpc[t] = "receive"
    PROVE  ReadersOK'
<1>1. \A c, n : Before(n, c)' <=> Before(n, c)
  BY QuietFacts
<1>2. ASSUME NEW t \in Traders, NEW c \in (Live(t) \cup Reading(t))' PROVE Before(price[t][c.uid], c)
  BY DEF ReadersOK
<1>3. ASSUME NEW t \in Traders, NEW c \in Live(t)', NEW d \in Reading(t)', tpc'[t] = "receive",
             c # d, c.uid = d.uid, slot[d.instance] # NoPrice
      PROVE  Before(slot[d.instance], c)
  BY <1>3 DEF ReadersOK
<1> QED BY <1>1, <1>2, <1>3 DEF ReadersOK, channels, Before

LEMMA StutterOK == IInv /\ UNCHANGED vars => IInv'
<1> SUFFICES ASSUME IInv, UNCHANGED vars PROVE IInv'
  OBVIOUS
<1> USE DEF vars, feed, market, manager, traders
<1>1. UNCHANGED channels
  BY DEF channels
<1>2. /\ Known' = Known
      /\ \A t \in Traders : Live(t)' = Live(t) /\ Reading(t)' = Reading(t)
  BY DEF Known, Live, Reading
<1>3. TypeOK' /\ ManagerOK'
  BY DEF IInv, TypeOK, ManagerOK
<1>4. FreshOK'
  BY <1>2 DEF IInv, FreshOK
<1>5. ReadersOK => ReadersOK'
  BY <1>1, <1>2, StillReading DEF IInv, ReadersOK, channels
<1> QED BY <1>1, <1>3, <1>4, <1>5, QuietFacts DEF IInv

-----------------------------------------------------------------------------
(* The manager *)

LEMMA BeginOK ==
    ASSUME NEW t \in Traders, BeginStart(t) \/ BeginUpdate(t)
    PROVE  IInv => IInv'
<1> SUFFICES ASSUME IInv PROVE IInv'
  OBVIOUS
<1>0. PICK kind \in {"start", "update"} :
         /\ Begin(kind, t)
         /\ status[t] = IF kind = "start" THEN "new" ELSE "running"
  BY DEF BeginStart, BeginUpdate
<1>1. PICK c \in Configs :
         /\ c.instance = nextInstance /\ nextInstance \in Instances /\ op = Idle
         /\ op' = [kind |-> kind, trader |-> t, step |-> "register", new |-> c]
         /\ nextInstance' = nextInstance + 1
         /\ UNCHANGED channels
         /\ UNCHANGED <<stream, subscribed, due, status, cfg, tpc, using, posted>>
  BY <1>0 DEF Begin, Configs, feed, market, traders, channels
<1>2. /\ Known' = Known \cup {c} /\ op' # Idle
      /\ slot[c.instance] = NoPrice /\ c.instance \notin closed
      /\ \A d \in Known : d.instance < c.instance
  <2>1. Known' = Known \cup {c} /\ op' # Idle
    BY <1>1 DEF Known, channels, Idle
  <2> QED BY <1>1, <2>1 DEF IInv, FreshOK, Instances
<1>3. TypeOK'
  <2>1. op' \in [kind : {"start", "update", "stop"}, trader : Traders,
                 step : {"register", "add", "unregister", "delete", "finish"}, new : Configs]
    BY <1>0, <1>1
  <2>2. nextInstance' \in 1 .. MaxInstances + 1
    BY <1>1, PriceFeedAssumption DEF Instances
  <2> QED BY <1>1, <2>1, <2>2 DEF IInv, TypeOK, channels
<1>4. ManagerOK'
  BY <1>0, <1>1 DEF IInv, ManagerOK, channels
<1>5. \A d \in Known : d.instance \in Nat /\ d # c /\ d.instance # c.instance
  BY <1>1, <1>2 DEF Known, Configs, Instances
<1>6. FreshOK'
  <2>1. /\ \A d \in Known' : d.instance < nextInstance'
        /\ \A d, e \in Known' : d.instance = e.instance => d = e
    BY <1>1, <1>2, <1>5 DEF IInv, FreshOK, Instances
  <2>2. \A i \in Instances : i >= nextInstance' => slot'[i] = NoPrice /\ i \notin closed'
    BY <1>1 DEF IInv, FreshOK, channels, Instances
  <2>3. /\ \A k \in Traders : c # cfg[k] /\ c # using[k]
        /\ c \notin recipients
    BY <1>5 DEF Known
  <2> QED BY <1>1, <1>2, <2>1, <2>2, <2>3 DEF FreshOK, channels
<1>7. ASSUME ReadersOK PROVE ReadersOK'
  <2>1. \A k \in Traders : Live(k)' \subseteq Live(k) \cup {c} /\ Reading(k)' = Reading(k)
    BY <1>1 DEF Live, Reading, channels
  <2>2. \A d, n : Before(n, d)' <=> Before(n, d)
    BY <1>1, QuietFacts
  <2>3. \A n : Before(n, c)
    BY <1>2 DEF Before
  <2>4. \A k \in Traders : \A d \in (Live(k) \cup Reading(k))' : Before(price[k][d.uid], d)
    BY <1>7, <2>1, <2>3 DEF ReadersOK
  <2>5. \A k \in Traders : \A d \in Live(k)' : \A e \in Reading(k)' :
            tpc[k] = "receive" /\ d # e /\ d.uid = e.uid /\ slot[e.instance] # NoPrice =>
                Before(slot[e.instance], d)
    BY <1>7, <2>1, <2>3 DEF ReadersOK
  <2> QED BY <1>1, <1>7, <2>2, <2>4, <2>5 DEF ReadersOK, channels, Before
<1> QED BY <1>1, <1>3, <1>4, <1>6, <1>7, QuietFacts DEF IInv

\* The calls of the exchange, and the last step of an operation.
LEMMA SubscriptionOK == IInv /\ (SubscribeNew \/ UnSubscribeOld) => IInv'
<1> SUFFICES ASSUME IInv, SubscribeNew \/ UnSubscribeOld PROVE IInv'
  OBVIOUS
<1>1. PICK s \in {"add", "delete", "finish"} :
         /\ op # Idle /\ op' = [op EXCEPT !.step = s]
         /\ s = "add" => op.step = "register" /\ op.kind \in {"start", "update"}
         /\ s \in {"delete", "finish"} => op.step = "unregister" /\ op.kind \in {"update", "stop"}
         /\ s = "finish" => "unsubscribe" \in PriceFaults
         /\ stream' \in {"none", "unrouted", "routed"} /\ subscribed' \subseteq Instruments
         /\ UNCHANGED channels
         /\ UNCHANGED <<due, status, cfg, nextInstance, tpc, using, posted>>
  <2>1. CASE SubscribeNew
    BY <2>1, Types DEF SubscribeNew, Subscribe, IInv, TypeOK, ManagerOK, market, traders, channels
  <2>2. CASE UnSubscribeOld
    BY <2>2 DEF UnSubscribeOld, UnSubscribe, IInv, TypeOK, ManagerOK, market, traders, channels
  <2> QED BY <2>1, <2>2
<1>2. /\ op' # Idle /\ op'.step = s /\ op'.kind = op.kind /\ op'.trader = op.trader
      /\ op'.new = op.new
      /\ op' \in [kind : {"start", "update", "stop"}, trader : Traders,
                  step : {"register", "add", "unregister", "delete", "finish"}, new : Configs]
  BY <1>1, OpStep DEF IInv
<1>3. /\ Known' = Known
      /\ \A k \in Traders : Live(k)' = Live(k) /\ Reading(k)' = Reading(k)
  BY <1>1, <1>2 DEF Known, Live, Reading, channels
<1>4. TypeOK'
  BY <1>1, <1>2 DEF IInv, TypeOK, channels
<1>5. ManagerOK'
  BY <1>1, <1>2 DEF IInv, ManagerOK, channels
<1>6. FreshOK'
  <2>1. op.kind # "stop" => \A k \in Traders : op.new # cfg[k] /\ op.new # using[k]
    BY <1>1 DEF IInv, FreshOK
  <2> QED BY <1>1, <1>2, <1>3, <2>1, StillFresh DEF channels
<1>7. "unsubscribe" \notin PriceFaults /\ ReadersOK => ReadersOK'
  BY <1>1, <1>2, <1>3, StillReading DEF ReadersOK
<1> QED BY <1>1, <1>4, <1>5, <1>6, <1>7, QuietFacts DEF IInv

LEMMA SubscribeNewFailsOK == IInv /\ SubscribeNewFails => IInv'
<1> SUFFICES ASSUME IInv, SubscribeNewFails PROVE IInv'
  OBVIOUS
<1>1. /\ op' = Idle /\ stream' \in {"none", "unrouted", "routed"}
      /\ UNCHANGED channels
      /\ UNCHANGED <<subscribed, due, status, cfg, nextInstance, tpc, using, posted>>
  BY DEF SubscribeNewFails, SubscribeFails, IInv, TypeOK, market, traders, channels
<1>2. /\ Known' \subseteq Known
      /\ \A k \in Traders : Live(k)' \subseteq Live(k) /\ Reading(k)' = Reading(k)
  BY <1>1 DEF Known, Live, Reading, channels
<1>3. TypeOK' /\ ManagerOK'
  BY <1>1 DEF IInv, TypeOK, ManagerOK, channels
<1>4. FreshOK'
  BY <1>1, <1>2, StillFresh DEF channels
<1>5. ReadersOK => ReadersOK'
  BY <1>1, <1>2, StillReading DEF ReadersOK
<1> QED BY <1>1, <1>3, <1>4, <1>5, QuietFacts DEF IInv

LEMMA BeginStopOK == ASSUME NEW t \in Traders PROVE IInv /\ BeginStop(t) => IInv'
<1> SUFFICES ASSUME IInv, BeginStop(t) PROVE IInv'
  OBVIOUS
<1>1. /\ op = Idle /\ status[t] = "running" /\ cfg[t] \in Configs
      /\ op' = [kind |-> "stop", trader |-> t, step |-> "unregister", new |-> cfg[t]]
      /\ status' = [status EXCEPT ![t] = "stopped"]
      /\ UNCHANGED channels
      /\ UNCHANGED <<stream, subscribed, due, cfg, nextInstance, tpc, using, posted>>
  BY DEF BeginStop, feed, market, traders, channels, IInv, ManagerOK
<1>2. /\ Known' = Known
      /\ \A k \in Traders : Live(k)' = Live(k) /\ Reading(k)' = Reading(k)
  BY <1>1 DEF Known, Live, Reading, channels
<1>3. TypeOK'
  BY <1>1 DEF IInv, TypeOK, channels
<1>4. ManagerOK'
  BY <1>1 DEF IInv, TypeOK, ManagerOK, channels
<1>5. FreshOK'
  BY <1>1, <1>2, StillFresh DEF channels
<1>6. ReadersOK => ReadersOK'
  BY <1>1, <1>2, StillReading DEF ReadersOK
<1> QED BY <1>1, <1>3, <1>4, <1>5, <1>6, QuietFacts DEF IInv

LEMMA FinishOK == IInv /\ Finish => IInv'
<1> SUFFICES ASSUME IInv, Finish, NEW t, t = op.trader PROVE IInv'
  OBVIOUS
<1>1. /\ op # Idle /\ op.step = "finish" /\ t \in Traders /\ op.new \in Configs /\ op' = Idle
      /\ cfg' = [cfg EXCEPT ![t] = op.new] /\ op.kind \in {"update", "stop"} /\ status[t] # "new"
      /\ UNCHANGED channels
      /\ UNCHANGED <<stream, subscribed, due, status, nextInstance, tpc, using, posted>>
  BY Types DEF Finish, feed, market, traders, channels, IInv, TypeOK, ManagerOK
<1>2. /\ cfg'[t] = op.new /\ \A k \in Traders : k # t => cfg'[k] = cfg[k]
      /\ cfg' \in [Traders -> Configs \cup {NoConfig}]
  BY <1>1, Types DEF IInv
<1>3. Known' \subseteq Known
  BY <1>1, <1>2 DEF Known, channels
<1>4. TypeOK'
  BY <1>1, <1>2 DEF IInv, TypeOK, channels
<1>5. ManagerOK'
  BY <1>1, <1>2 DEF IInv, ManagerOK, channels
<1>6. FreshOK'
  BY <1>1, <1>3, StillFresh DEF channels
<1>7. ASSUME ReadersOK PROVE ReadersOK'
  <2>1. \A k \in Traders : Reading(k)' = Reading(k)
    BY <1>1 DEF Reading, channels
  <2>2. \A k \in Traders : k # t => Live(k)' \subseteq Live(k)
    BY <1>1, <1>2 DEF Live, channels
  <2>3. Live(t)' \subseteq Live(t)
    <3>1. \A c \in Live(t)' : c = op.new /\ c \in recipients /\ c \in Configs
      BY <1>1, <1>2 DEF Live, channels
    <3>2. CASE op.kind = "update"
      BY <1>1, <1>7, <3>1, <3>2 DEF Live, ReadersOK
    <3>3. CASE op.kind = "stop"
      BY <1>1, <3>1, <3>3 DEF Live, IInv, ManagerOK
    <3> QED BY <1>1, <3>2, <3>3
  <2>4. \A k \in Traders : using[k] \in recipients /\ tpc[k] \in {"lookup", "receive"}
                               => using[k] = cfg'[k]
    BY <1>1, <1>2, <1>7 DEF ReadersOK
  <2> QED BY <1>1, <1>7, <2>1, <2>2, <2>3, <2>4, StillReading DEF channels
<1> QED BY <1>1, <1>4, <1>5, <1>6, <1>7, QuietFacts DEF IInv

LEMMA AddNewOK == IInv /\ AddNew => IInv'
<1> SUFFICES ASSUME IInv, AddNew, NEW t, t = op.trader, NEW new, new = op.new PROVE IInv'
  OBVIOUS
<1>1. /\ op # Idle /\ op.step = "add" /\ t \in Traders /\ new \in Configs
      /\ op.kind \in {"start", "update"} /\ recipients' = recipients \cup {new}
      /\ UNCHANGED <<stream, subscribed, slot, closed, count, due, nextInstance, using, price, posted>>
  BY Types DEF AddNew, AddRecipient, market, IInv, TypeOK, ManagerOK
<1>2. /\ \A k \in Traders : new # cfg[k] /\ new # using[k]
      /\ new \notin recipients /\ slot[new.instance] = NoPrice /\ new.instance \notin closed
      /\ new \in Known
  BY <1>1 DEF IInv, FreshOK, Known
<1>3. ClosedForGood' /\ PastOK' /\ \A c, n : Before(n, c)' <=> Before(n, c)
  BY <1>1, <1>2 DEF IInv, ClosedForGood, PastOK, Before
<1>4. CASE op.kind = "start"
  <2>1. /\ op' = Idle /\ status' = [status EXCEPT ![t] = "running"]
        /\ cfg' = [cfg EXCEPT ![t] = new] /\ tpc' = [tpc EXCEPT ![t] = "config"]
        /\ \A uid \in Instruments : price[t][uid] = NoPrice
        /\ tpc[t] = "off"
    BY <1>1, <1>4 DEF AddNew, IInv, ManagerOK
  <2>2. /\ cfg'[t] = new /\ tpc'[t] = "config" /\ cfg' \in [Traders -> Configs \cup {NoConfig}]
        /\ \A k \in Traders : k # t => cfg'[k] = cfg[k] /\ tpc'[k] = tpc[k]
    BY <1>1, <2>1, Types DEF IInv, TypeOK
  <2>3. Known' \subseteq Known
    BY <1>1, <1>2, <2>1, <2>2 DEF Known
  <2>4. TypeOK'
    BY <1>1, <2>1, <2>2 DEF IInv, TypeOK
  <2>5. ManagerOK'
    BY <1>1, <2>1, <2>2 DEF IInv, ManagerOK, TypeOK
  <2>6. FreshOK'
    BY <1>1, <2>1, <2>3 DEF IInv, FreshOK
  <2>7. ASSUME ReadersOK PROVE ReadersOK'
    <3>1. \A k \in Traders \ {t} : Live(k)' \subseteq Live(k) /\ Reading(k)' \subseteq Reading(k)
      BY <1>1, <1>2, <2>1, <2>2 DEF Live, Reading
    <3>2. Reading(t)' = {} /\ \A c \in Live(t)' : c = new
      BY <1>1, <2>1, <2>2 DEF Live, Reading
    <3>3. \A k \in Traders : using[k] \in recipients' /\ tpc'[k] \in {"lookup", "receive"}
                                 => using[k] = cfg'[k]
      BY <1>1, <1>2, <2>2, <2>7 DEF ReadersOK
    <3>4. Before(price[t][new.uid], new)
      BY <1>2 DEF Before
    <3> QED BY <1>1, <1>3, <2>1, <2>2, <2>7, <3>1, <3>2, <3>3, <3>4 DEF ReadersOK
  <2> QED BY <1>3, <2>4, <2>5, <2>6, <2>7 DEF IInv
<1>5. CASE op.kind = "update"
  <2>1. op' = [op EXCEPT !.step = "unregister"] /\ UNCHANGED <<status, cfg, tpc>>
    BY <1>1, <1>5 DEF AddNew
  <2>2. /\ op' # Idle /\ op'.step = "unregister" /\ op'.kind = op.kind /\ op'.trader = op.trader
        /\ op'.new = op.new
        /\ op' \in [kind : {"start", "update", "stop"}, trader : Traders,
                    step : {"register", "add", "unregister", "delete", "finish"}, new : Configs]
    BY <1>1, <2>1, OpStep DEF IInv
  <2>3. Known' = Known
    BY <1>1, <1>2, <2>1, <2>2 DEF Known
  <2>4. TypeOK'
    BY <1>1, <2>1, <2>2 DEF IInv, TypeOK
  <2>5. ManagerOK'
    BY <1>1, <1>5, <2>1, <2>2 DEF IInv, ManagerOK
  <2>6. FreshOK'
    BY <1>1, <1>2, <2>1, <2>2, <2>3 DEF IInv, FreshOK
  <2>7. ASSUME ReadersOK PROVE ReadersOK'
    <3>1. \A k \in Traders : Live(k)' = Live(k) /\ Reading(k)' = Reading(k)
      BY <1>1, <1>2, <2>1, <2>2 DEF Live, Reading
    <3> QED BY <1>1, <1>2, <1>3, <2>1, <2>2, <2>7, <3>1 DEF ReadersOK
  <2> QED BY <1>3, <2>4, <2>5, <2>6, <2>7 DEF IInv
<1> QED BY <1>1, <1>4, <1>5

LEMMA DeleteOldOK == IInv /\ DeleteOld => IInv'
<1> SUFFICES ASSUME IInv, DeleteOld, NEW t, t = op.trader, NEW old, old = cfg[t] PROVE IInv'
  OBVIOUS
<1>1. /\ op # Idle /\ op.step = "delete" /\ op.kind \in {"update", "stop"} /\ t \in Traders
      /\ old \in Configs /\ old.instance \in Instances
      /\ CloseIfMaybeClosed(old)
      /\ recipients' = {c \in recipients : c.uid # old.uid}
      /\ op' = [op EXCEPT !.step = "finish"]
      /\ UNCHANGED <<stream, subscribed, count, due, status, cfg, nextInstance,
                     tpc, using, price, posted>>
  BY Types DEF DeleteOld, DeletePaths, market, traders, IInv, TypeOK, ManagerOK
<1>2. /\ op' # Idle /\ op'.step = "finish" /\ op'.kind = op.kind /\ op'.trader = op.trader
      /\ op'.new = op.new
      /\ op' \in [kind : {"start", "update", "stop"}, trader : Traders,
                  step : {"register", "add", "unregister", "delete", "finish"}, new : Configs]
  BY <1>1, OpStep DEF IInv
<1>3. /\ slot' \in [Instances -> 0 .. MaxPrices]
      /\ \A i \in Instances : slot'[i] = slot[i] \/ slot'[i] = NoPrice
      /\ closed' \subseteq Instances
      /\ \A i \in closed' : i \in closed \/ (i = old.instance /\ old \in recipients)
      /\ \A i \in closed' : slot'[i] = NoPrice
  <2>1. CASE old \in recipients
    BY PriceFeedAssumption, <1>1, <2>1 DEF CloseIfMaybeClosed, IInv, TypeOK, ClosedForGood, NoPrice
  <2>2. CASE old \notin recipients
    BY <1>1, <2>2 DEF CloseIfMaybeClosed, IInv, TypeOK, ClosedForGood
  <2> QED BY <2>1, <2>2
<1>4. Known' \subseteq Known /\ recipients \subseteq Known
  BY <1>1, <1>2 DEF Known, IInv, TypeOK
<1>5. TypeOK'
  BY <1>1, <1>2, <1>3 DEF IInv, TypeOK
<1>6. ManagerOK'
  BY <1>1, <1>2 DEF IInv, ManagerOK
<1>7. FreshOK'
  <2>1. old \in Known /\ old.instance < nextInstance /\ old.instance \in Nat
    BY <1>1 DEF Known, Instances, IInv, FreshOK
  <2>2. \A i \in Instances : i >= nextInstance => slot'[i] = NoPrice /\ i \notin closed'
    BY <1>3, <2>1 DEF IInv, FreshOK, TypeOK, Instances
  <2>3. op.kind # "stop" => \A k \in Traders : op.new # cfg[k] /\ op.new # using[k]
    BY <1>1 DEF IInv, FreshOK
  <2> QED BY <1>1, <1>2, <1>4, <2>2, <2>3 DEF IInv, FreshOK
<1>8. ClosedForGood'
  <2>1. ASSUME NEW c \in recipients' PROVE c.instance \notin closed'
    <3>1. c \in recipients /\ c \in Known /\ c # old
      BY <1>1, <1>4
    <3> QED BY <1>3, <1>4, <3>1 DEF IInv, ClosedForGood, FreshOK
  <2> QED BY <1>3, <2>1 DEF ClosedForGood
<1>9. PastOK'
  BY PriceFeedAssumption, <1>1, <1>3 DEF IInv, PastOK, TypeOK, NoPrice
<1>10. ASSUME ReadersOK PROVE ReadersOK'
  <2>1. \A k \in Traders : Live(k)' \subseteq Live(k) /\ Reading(k)' \subseteq Reading(k)
    BY <1>1, <1>2 DEF Live, Reading
  <2>2. \A k \in Traders : Live(k) \cup Reading(k) \subseteq Configs
    BY DEF Live, Reading
  <2>3. \A c \in Configs : \A n : Before(n, c) => Before(n, c)'
    BY <1>3, Types DEF Before, IInv
  <2>4. \A c \in Configs : slot'[c.instance] # NoPrice => slot'[c.instance] = slot[c.instance]
    BY <1>3, Types DEF IInv
  <2>5. \A c \in recipients' : c.uid # cfg[op.trader].uid
    BY <1>1
  <2>6. ASSUME NEW k \in Traders, NEW c \in (Live(k) \cup Reading(k))'
        PROVE  Before(price[k][c.uid], c)'
    <3>1. Before(price[k][c.uid], c) /\ c \in Configs
      BY <1>10, <2>1, <2>2 DEF ReadersOK
    <3> QED BY <1>1, <2>3, <3>1
  <2>7. ASSUME NEW k \in Traders, NEW c \in Live(k)', NEW d \in Reading(k)', tpc[k] = "receive",
               c # d, c.uid = d.uid, NEW n, n = slot'[d.instance], n # NoPrice
        PROVE  Before(n, c)'
    <3>1. c \in Configs /\ d \in Configs /\ n = slot[d.instance]
      BY <2>1, <2>2, <2>4, <2>7
    <3>2. Before(n, c)
      BY <1>10, <2>1, <2>7, <3>1 DEF ReadersOK
    <3> QED BY <2>3, <3>1, <3>2
  <2> QED BY <1>1, <1>2, <1>10, <2>5, <2>6, <2>7 DEF ReadersOK, Before
<1> QED BY <1>5, <1>6, <1>7, <1>8, <1>9, <1>10 DEF IInv

-----------------------------------------------------------------------------
(* The trading goroutine *)

LEMMA GetConfigOK == ASSUME NEW t \in Traders PROVE IInv /\ GetConfig(t) => IInv'
<1> SUFFICES ASSUME IInv, GetConfig(t) PROVE IInv'
  OBVIOUS
<1>1. /\ tpc[t] = "config" /\ status[t] # "stopped"
      /\ ~(op # Idle /\ op.kind = "update" /\ op.trader = t)
      /\ using' = [using EXCEPT ![t] = cfg[t]]
      /\ tpc' = [tpc EXCEPT ![t] = "lookup"]
      /\ UNCHANGED channels
      /\ UNCHANGED <<stream, subscribed, due, op, status, cfg, nextInstance, posted>>
  BY DEF GetConfig, feed, market, manager, channels
<1>2. /\ cfg[t] \in Configs /\ using'[t] = cfg[t] /\ tpc'[t] = "lookup"
      /\ \A k \in Traders : k # t => using'[k] = using[k] /\ tpc'[k] = tpc[k]
      /\ using' \in [Traders -> Configs \cup {NoConfig}]
  BY <1>1, Types DEF IInv, TypeOK, ManagerOK
<1>3. Known' \subseteq Known
  BY <1>1, <1>2 DEF Known, channels
<1>4. TypeOK'
  BY <1>1, <1>2 DEF IInv, TypeOK, channels
<1>5. ManagerOK'
  BY <1>1, <1>2 DEF IInv, ManagerOK, channels
<1>6. FreshOK'
  <2>1. op # Idle /\ op.kind # "stop" => \A k \in Traders : op.new # cfg[k] /\ op.new # using'[k]
    BY <1>2 DEF IInv, FreshOK
  <2> QED BY <1>1, <1>3, <2>1, StillFresh DEF channels
<1>7. ASSUME ReadersOK PROVE ReadersOK'
  <2>1. \A k \in Traders : /\ Live(k)' = Live(k)
                           /\ k # t => Reading(k)' = Reading(k)
    BY <1>1, <1>2 DEF Live, Reading, channels
  <2>2. Reading(t)' \subseteq Live(t)
    BY <1>1, <1>2 DEF Live, Reading, channels
  <2>3. \A k \in Traders : using'[k] \in recipients /\ tpc'[k] \in {"lookup", "receive"}
                               => using'[k] = cfg[k]
    BY <1>2, <1>7 DEF ReadersOK
  <2> QED BY <1>1, <1>2, <1>7, <2>1, <2>2, <2>3, StillReading DEF ReadersOK
<1> QED BY <1>1, <1>4, <1>5, <1>6, <1>7, QuietFacts DEF IInv

LEMMA LookUpOK == ASSUME NEW t \in Traders PROVE IInv /\ LookUp(t) => IInv'
<1> SUFFICES ASSUME IInv, LookUp(t) PROVE IInv'
  OBVIOUS
<1>1. PICK pc \in {"receive", "nowhere"} :
         /\ pc = "receive" <=> using[t] \in recipients
         /\ tpc[t] = "lookup" /\ tpc' = [tpc EXCEPT ![t] = pc]
         /\ UNCHANGED channels
         /\ UNCHANGED <<stream, subscribed, due, op, status, cfg, nextInstance, using, posted>>
  BY DEF LookUp, feed, market, manager, channels
<1>2. tpc'[t] = pc /\ \A k \in Traders : k # t => tpc'[k] = tpc[k]
  BY <1>1 DEF IInv, TypeOK
<1>3. Known' = Known
  BY <1>1 DEF Known, channels
<1>4. TypeOK'
  BY <1>1 DEF IInv, TypeOK, channels
<1>5. ManagerOK'
  BY <1>1, <1>2 DEF IInv, ManagerOK, channels
<1>6. FreshOK'
  BY <1>1, <1>3, StillFresh DEF channels, IInv, FreshOK
<1>7. ASSUME ReadersOK PROVE ReadersOK'
  <2>1. \A k \in Traders : /\ Live(k)' = Live(k) /\ Reading(k)' \subseteq Reading(k)
                           /\ using[k] \in recipients /\ tpc'[k] \in {"lookup", "receive"}
                                  => using[k] = cfg[k]
    BY <1>1, <1>2, <1>7 DEF Live, Reading, channels, ReadersOK
  <2>2. \A d \in Reading(t)' : d = cfg[t]
    BY <1>1, <1>2, <2>1 DEF Reading, channels
  <2>3. \A c \in Live(t) : \A d \in Reading(t)' : c # d => c.uid # d.uid
    BY <2>2 DEF Live
  <2> QED BY <1>1, <1>2, <1>7, <2>1, <2>3, StillReading DEF ReadersOK
<1> QED BY <1>1, <1>4, <1>5, <1>6, <1>7, QuietFacts DEF IInv

\* The goroutine has decided, has met a closed channel, or is gone.
LEMMA BackOK ==
    ASSUME NEW t \in Traders,
           ReceiveFromClosed(t) \/ Hold(t) \/ MakeAction(t) \/ Leave(t)
    PROVE  IInv => IInv'
<1> SUFFICES ASSUME IInv PROVE IInv'
  OBVIOUS
<1>1. PICK pc \in {"config", "off"} :
         /\ tpc' = [tpc EXCEPT ![t] = pc] /\ tpc[t] # "off"
         /\ posted' \in [Traders -> Configs \cup {NoConfig}]
         /\ UNCHANGED channels
         /\ UNCHANGED <<stream, subscribed, due, op, status, cfg, nextInstance, using>>
  BY Types DEF ReceiveFromClosed, Hold, MakeAction, Leave, feed, market, manager, channels, IInv
<1>2. tpc'[t] = pc /\ \A k \in Traders : k # t => tpc'[k] = tpc[k]
  BY <1>1 DEF IInv, TypeOK
<1>3. Known' = Known
  BY <1>1 DEF Known, channels
<1>4. TypeOK'
  BY <1>1 DEF IInv, TypeOK, channels
<1>5. ManagerOK'
  BY <1>1, <1>2 DEF IInv, ManagerOK, channels
<1>6. FreshOK'
  BY <1>1, <1>3, StillFresh DEF channels, IInv, FreshOK
<1>7. ASSUME ReadersOK PROVE ReadersOK'
  <2>1. \A k \in Traders : /\ Live(k)' = Live(k) /\ Reading(k)' \subseteq Reading(k)
                           /\ tpc'[k] \in {"lookup", "receive"} => tpc'[k] = tpc[k]
    BY <1>1, <1>2 DEF Live, Reading, channels
  <2> QED BY <1>1, <1>7, <2>1, StillReading DEF ReadersOK
<1> QED BY <1>1, <1>4, <1>5, <1>6, <1>7, QuietFacts DEF IInv

LEMMA ReceiveOK == ASSUME NEW t \in Traders PROVE IInv /\ Receive(t) => IInv'
<1> SUFFICES ASSUME IInv, Receive(t), NEW from, from = using[t], NEW n, n = slot[from.instance]
             PROVE  IInv'
  OBVIOUS
<1>1. /\ tpc[t] = "receive" /\ from \in Configs /\ from.instance \in Instances
      /\ from.uid \in Instruments /\ n # NoPrice /\ n \in 0 .. MaxPrices /\ n <= count
      /\ price' = [price EXCEPT ![t][from.uid] = n]
      /\ slot' = [slot EXCEPT ![from.instance] = NoPrice]
      /\ due' \in [Traders -> BOOLEAN]
      /\ tpc' = [tpc EXCEPT ![t] = "act"]
      /\ UNCHANGED <<stream, subscribed, recipients, closed, count, op, status, cfg, nextInstance,
                     using, posted>>
  BY Types DEF Receive, manager, IInv, TypeOK, ManagerOK, PastOK
<1>2. /\ price' \in [Traders -> [Instruments -> 0 .. MaxPrices]]
      /\ \A k \in Traders, u \in Instruments :
            price'[k][u] = IF k = t /\ u = from.uid THEN n ELSE price[k][u]
      /\ slot' \in [Instances -> 0 .. MaxPrices]
      /\ \A i \in Instances : slot'[i] = IF i = from.instance THEN NoPrice ELSE slot[i]
      /\ tpc'[t] = "act" /\ \A k \in Traders : k # t => tpc'[k] = tpc[k]
  BY PriceFeedAssumption, <1>1 DEF IInv, TypeOK, NoPrice
<1>3. Known' = Known
  BY <1>1 DEF Known
<1>4. TypeOK'
  BY <1>1, <1>2 DEF IInv, TypeOK
<1>5. ManagerOK'
  BY <1>1, <1>2 DEF IInv, ManagerOK
<1>6. FreshOK'
  <2>1. op # Idle => op.new.instance \in Instances
    BY Types DEF IInv
  <2> QED BY <1>1, <1>2, <1>3, <2>1 DEF IInv, FreshOK
<1>7. ClosedForGood' /\ PastOK'
  BY <1>1, <1>2 DEF IInv, ClosedForGood, PastOK, TypeOK, NoPrice
<1>8. ASSUME ReadersOK PROVE ReadersOK'
  <2>1. /\ \A k \in Traders : Live(k)' = Live(k)
        /\ \A k \in Traders : k # t => Reading(k)' = Reading(k)
        /\ Reading(t)' = {}
    BY <1>1, <1>2 DEF Live, Reading
  <2>2. \A k \in Traders : \A c \in Live(k) \cup Reading(k) :
            c \in Configs /\ c.uid \in Instruments /\ c.instance \in Instances
    BY Types DEF Live, Reading, IInv
  <2>3. \A c \in Configs : \A m : Before(m, c) => Before(m, c)'
    BY <1>2, Types DEF Before, IInv
  <2>4. from \in Reading(t)
    BY <1>1 DEF Reading
  <2>5. ASSUME NEW c \in Live(t) PROVE slot'[c.instance] # NoPrice => price'[t][c.uid] < slot'[c.instance]
    <3>1. CASE c.instance = from.instance
      BY <1>2, <2>2, <3>1 DEF Before
    <3>2. CASE c.instance # from.instance /\ c.uid = from.uid
      <4>1. Before(n, c)
        BY <1>1, <1>8, <2>4, <3>2 DEF ReadersOK
      <4> QED BY <1>2, <2>2, <3>2, <4>1 DEF Before
    <3>3. CASE c.instance # from.instance /\ c.uid # from.uid
      <4>1. Before(price[t][c.uid], c)
        BY <1>8 DEF ReadersOK
      <4> QED BY <1>2, <2>2, <3>3, <4>1 DEF Before
    <3> QED BY <3>1, <3>2, <3>3
  <2>6. \A k \in Traders \ {t} : \A c \in Live(k) \cup Reading(k) :
            slot'[c.instance] # NoPrice => price'[k][c.uid] < slot'[c.instance]
    BY <1>2, <1>8, <2>2 DEF ReadersOK, Before
  <2>7. \A k \in Traders \ {t} : \A c \in Live(k) : \A d \in Reading(k) :
            /\ tpc[k] = "receive" /\ c # d /\ c.uid = d.uid
            /\ slot'[d.instance] # NoPrice /\ slot'[c.instance] # NoPrice
            => slot'[d.instance] < slot'[c.instance]
    BY <1>2, <1>8, <2>2 DEF ReadersOK, Before
  <2>8. \A k \in Traders : using[k] \in recipients /\ tpc'[k] \in {"lookup", "receive"}
                               => using[k] = cfg[k]
    BY <1>2, <1>8 DEF ReadersOK
  <2>9. op # Idle /\ op.step = "finish" => \A c \in recipients : c.uid # cfg[op.trader].uid
    BY <1>8 DEF ReadersOK
  <2> QED BY <1>1, <1>2, <2>1, <2>5, <2>6, <2>7, <2>8, <2>9 DEF ReadersOK, Before
<1> QED BY <1>4, <1>5, <1>6, <1>7, <1>8 DEF IInv

-----------------------------------------------------------------------------
LEMMA NextOK == IInv /\ [Next]_vars => IInv'
<1> SUFFICES ASSUME IInv, [Next]_vars PROVE IInv'
  OBVIOUS
<1>1. CASE UNCHANGED vars
  BY <1>1, StutterOK
<1>2. CASE \E uid \in Instruments : MarketMoves(uid)
  BY <1>2, MarketMovesOK
<1>3. CASE \E t \in Traders : BeginStart(t) \/ BeginUpdate(t) \/ BeginStop(t)
  BY <1>3, BeginOK, BeginStopOK
<1>4. CASE Operate
  BY <1>4, SubscriptionOK, SubscribeNewFailsOK, AddNewOK, DeleteOldOK, FinishOK DEF Operate
<1>5. CASE \E t \in Traders : Trade(t)
  BY <1>5, GetConfigOK, LookUpOK, ReceiveOK, BackOK DEF Trade
<1> QED BY <1>1, <1>2, <1>3, <1>4, <1>5 DEF Next

\* The inductive invariant of the feed of prices: channels, paths and readers
\* (client.go, trader.go, trader_manager.go).
THEOREM PriceInvariance == Spec => []IInv
BY InitOK, NextOK, PTL DEF Spec

\* Types: a channel holds one price at most, and each is of the past.
THEOREM PricesTypeCorrect == Spec => []TypeOK
<1>1. IInv => TypeOK
  BY DEF IInv
<1> QED BY <1>1, PriceInvariance, PTL

\* No path leads to a closed channel, and nobody trades on what was left in one,
\* whatever the calls of the exchange do.
THEOREM NoPriceFromTheClosed == Spec => []ClosedForGood
<1>1. IInv => ClosedForGood
  BY DEF IInv
<1> QED BY <1>1, PriceInvariance, PTL

\* Where UnSubscribe succeeds, a trader decides on prices of an instrument in
\* their order and on none of them twice, over any number of moves.
THEOREM NoPriceTwice ==
    ASSUME "unsubscribe" \notin PriceFaults
    PROVE  Spec => PricesMoveOn
<1>1. IInv /\ [Next]_vars =>
          [\A t \in Traders : tpc[t] = "receive" /\ tpc'[t] = "act" =>
              price'[t][using[t].uid] > price[t][using[t].uid]]_vars
  <2> SUFFICES ASSUME IInv, Next, NEW t \in Traders, tpc[t] = "receive", tpc'[t] = "act"
               PROVE  price'[t][using[t].uid] > price[t][using[t].uid]
    OBVIOUS
  <2>1. CASE \E k \in Traders : Receive(k)
    <3>1. PICK k \in Traders : Receive(k)
      BY <2>1
    <3>2. k = t
      BY <3>1 DEF Receive, IInv, TypeOK
    <3>3. using[t] \in Configs /\ using[t].uid \in Instruments /\ using[t].instance \in Instances
      BY Types DEF IInv, ManagerOK
    <3>4. /\ slot[using[t].instance] # NoPrice
          /\ price'[t][using[t].uid] = slot[using[t].instance]
      BY <3>1, <3>2, <3>3 DEF Receive, IInv, TypeOK
    <3>5. Before(price[t][using[t].uid], using[t])
      BY <3>3 DEF IInv, ReadersOK, Reading
    <3>6. price[t][using[t].uid] \in Nat /\ slot[using[t].instance] \in Nat
      BY <3>3, PriceFeedAssumption DEF IInv, TypeOK
    <3> QED BY <3>4, <3>5, <3>6 DEF Before
  <2>2. CASE \E k \in Traders : Trade(k)
    <3>1. PICK k \in Traders : Trade(k)
      BY <2>2
    <3>2. CASE Receive(k)
      BY <3>2, <2>1
    <3>3. CASE ~Receive(k)
      BY <3>1, <3>3 DEF Trade, GetConfig, LookUp, ReceiveFromClosed, Hold, MakeAction, Leave,
         IInv, TypeOK
    <3> QED BY <3>2, <3>3
  <2>3. CASE Operate
    <3>1. CASE AddNew
      BY <3>1, Types DEF AddNew, IInv, TypeOK, ManagerOK
    <3> QED BY <2>3, <3>1 DEF Operate, SubscribeNew, SubscribeNewFails, UnSubscribeOld, DeleteOld,
            Finish, traders
  <2>4. CASE \E k \in Traders : BeginStart(k) \/ BeginUpdate(k) \/ BeginStop(k)
    BY <2>4 DEF BeginStart, BeginUpdate, BeginStop, Begin, traders
  <2>5. CASE \E uid \in Instruments : MarketMoves(uid)
    BY <2>5 DEF MarketMoves, traders
  <2> QED BY <2>2, <2>3, <2>4, <2>5 DEF Next
<1> QED BY <1>1, PriceInvariance, PTL DEF Spec, PricesMoveOn
=============================================================================
