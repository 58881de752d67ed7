----------------------------- MODULE PriceFeed -----------------------------
(***************************************************************************)
(* How the last prices reach the traders: the client of the exchange keeps *)
(* one market data stream, subscribes it to instruments and puts each      *)
(* price into the channels registered for its instrument, one price deep;  *)
(* a full channel is skipped.  The trading goroutine of a trader takes a   *)
(* price, decides on it and posts an order, while the trader manager       *)
(* starts, moves and stops traders.                                        *)
(*                                                                         *)
(* The mutex of the client is never held across a wait here, so whatever   *)
(* happens under it is one action.  The registrations for the reports,     *)
(* which the manager makes in the same operations, are in OrderFeed.       *)
(***************************************************************************)
EXTENDS Naturals, Sequences, FiniteSets, TLC

CONSTANTS Traders,       \* TraderService objects
          Instruments,
          Operations,    \* what the manager does: "start", "update", "stop"
          PriceFaults,   \* what fails: "stream", "subscribe", "unsubscribe"
          MaxInstances,  \* bound: configurations handed out
          MaxPrices      \* bound: prices of the market

ASSUME PriceFeedAssumption ==
    /\ MaxInstances \in Nat /\ MaxPrices \in Nat
    /\ Operations \subseteq {"start", "update", "stop"}
    /\ PriceFaults \subseteq {"stream", "subscribe", "unsubscribe"}

\* A configuration names a channel: its InstanceId is a fresh uuid.
Instances == 1 .. MaxInstances
Configs   == [uid : Instruments, instance : Instances]
NoConfig  == [instance |-> 0]
NoPrice   == 0

Idle == [kind |-> "none"]

VARIABLES
    stream,       \* marketDataStream: "none", "unrouted" or "routed"
    subscribed,   \* the instruments it is subscribed to
    recipients,   \* lastPriceInput: the configurations a path leads to
    slot,         \* the price in the channel of an instance
    closed,       \* the instances whose channel is closed
    count,        \* prices so far: their numbers say which is newer
    op,           \* what the manager is doing to which trader
    status,       \* of a trader
    cfg,          \* its current configuration
    nextInstance, \* the next InstanceId
    tpc,          \* where its trading goroutine is
    using,        \* the configuration that goroutine works with
    price,        \* the last price it took of each instrument
    posted,       \* the configuration its last order was posted with
    due           \* ghost: the market has moved since the trader took a price

feed    == <<stream, subscribed, recipients, slot, closed>>
market  == <<count, due>>
manager == <<op, status, cfg, nextInstance>>
traders == <<tpc, using, price, posted>>
vars    == <<feed, market, manager, traders>>

-----------------------------------------------------------------------------
(* The market, and the routing goroutine: startLastPriceRouting *)

Listeners(uid) == {config.instance : config \in {other \in recipients : other.uid = uid}}

\* A mutated form of Skips: an unbuffered channel nobody receives from yet.
AlwaysSkips(instance) == TRUE

\* A full channel keeps what it has.
Skips(instance) == slot[instance] # NoPrice

\* The market moves; who is subscribed hears of it.
MarketMoves(uid) ==
    /\ count < MaxPrices /\ count' = count + 1
    /\ slot' = IF uid \in subscribed /\ stream = "routed"
               THEN [i \in Instances |->
                        IF i \in Listeners(uid) /\ ~Skips(i) THEN count' ELSE slot[i]]
               ELSE slot
    /\ due' = [t \in Traders |->
                  \/ due[t]
                  \/ /\ status[t] = "running" /\ cfg[t].uid = uid
                     /\ op # Idle => op.trader # t]
    /\ UNCHANGED <<stream, subscribed, recipients, closed, manager, traders>>

-----------------------------------------------------------------------------
(* The registrations: RegisterLastPriceRecipient and its inverse, a call of  *)
(* the exchange and a change of the map each                                *)

\* The first one opens the stream and starts to route it; later ones only
\* subscribe, whether or not it is routed.
Subscribe(config) ==
    /\ stream' = IF stream = "none" THEN "routed" ELSE stream
    /\ subscribed' = subscribed \cup {config.uid}

\* No stream; or a stream that is kept though nothing could be subscribed to.
SubscribeFails ==
    \/ "stream" \in PriceFaults /\ stream = "none" /\ UNCHANGED stream
    \/ "subscribe" \in PriceFaults
       /\ stream' = IF stream = "none" THEN "unrouted" ELSE stream

\* A mutated form of AddRecipient: the zero InstanceId, not the fresh one.
AddZeroInstance(config) == recipients' = recipients \cup {[config EXCEPT !.instance = 0]}

AddRecipient(config) == recipients' = recipients \cup {config}

UnSubscribe(config) == subscribed' = subscribed \ {config.uid}

\* The price in the channel is taken off for nobody, then it is closed.
CloseIfMaybeClosed(config) ==
    IF config \in recipients
    THEN /\ slot' = [slot EXCEPT ![config.instance] = NoPrice]
         /\ closed' = closed \cup {config.instance}
    ELSE UNCHANGED <<slot, closed>>

\* Mutated forms of DeletePaths: its own path only; none.
DeleteOwnPath(config) ==
    /\ CloseIfMaybeClosed(config)
    /\ recipients' = recipients \ {config}

CloseOnly(config) == CloseIfMaybeClosed(config) /\ UNCHANGED recipients

\* Every path of the instrument is deleted.
DeletePaths(config) ==
    /\ CloseIfMaybeClosed(config)
    /\ recipients' = {other \in recipients : other.uid # config.uid}

-----------------------------------------------------------------------------
(* The trader manager: one operation at a time, on one trader.  An update   *)
(* holds the trader's own mutex from its first step to its last.            *)

Begin(kind, t) ==
    /\ op = Idle /\ kind \in Operations /\ nextInstance \in Instances
    /\ \E uid \in Instruments :
          op' = [kind |-> kind, trader |-> t, step |-> "register",
                 new |-> [uid |-> uid, instance |-> nextInstance]]
    /\ nextInstance' = nextInstance + 1
    /\ UNCHANGED <<feed, market, status, cfg, traders>>

BeginStart(t)  == status[t] = "new" /\ Begin("start", t)
BeginUpdate(t) == status[t] = "running" /\ Begin("update", t)

SubscribeNew ==
    /\ op # Idle /\ op.step = "register"
    /\ Subscribe(op.new)
    /\ op' = [op EXCEPT !.step = "add"]
    /\ UNCHANGED <<recipients, slot, closed, market, status, cfg, nextInstance, traders>>

\* The start or the update is given up, the trader stays as it was.
SubscribeNewFails ==
    /\ op # Idle /\ op.step = "register"
    /\ SubscribeFails
    /\ op' = Idle
    /\ UNCHANGED <<subscribed, recipients, slot, closed, market, status, cfg, nextInstance, traders>>

\* A new trader then starts its trading goroutine.
AddNew ==
    /\ op # Idle /\ op.step = "add"
    /\ AddRecipient(op.new)
    /\ \/ /\ op.kind = "start"
          /\ op' = Idle
          /\ status' = [status EXCEPT ![op.trader] = "running"]
          /\ cfg' = [cfg EXCEPT ![op.trader] = op.new]
          /\ tpc' = [tpc EXCEPT ![op.trader] = "config"]
       \/ /\ op.kind = "update"
          /\ op' = [op EXCEPT !.step = "unregister"]
          /\ UNCHANGED <<status, cfg, tpc>>
    /\ UNCHANGED <<stream, subscribed, slot, closed, market, nextInstance, using, price, posted>>

\* A mutated form of BeginStop, that does not cancel the trader's context.
BeginStopWithoutCancel(t) ==
    /\ op = Idle /\ "stop" \in Operations /\ status[t] = "running"
    /\ op' = [kind |-> "stop", trader |-> t, step |-> "unregister", new |-> cfg[t]]
    /\ UNCHANGED <<feed, market, status, cfg, nextInstance, traders>>

BeginStop(t) ==
    /\ op = Idle /\ "stop" \in Operations /\ status[t] = "running"
    /\ op' = [kind |-> "stop", trader |-> t, step |-> "unregister", new |-> cfg[t]]
    /\ status' = [status EXCEPT ![t] = "stopped"]
    /\ UNCHANGED <<feed, market, cfg, nextInstance, traders>>

\* A failure to unsubscribe is logged; the paths stay.
UnSubscribeOld ==
    /\ op # Idle /\ op.step = "unregister"
    /\ \/ UnSubscribe(cfg[op.trader]) /\ op' = [op EXCEPT !.step = "delete"]
       \/ /\ "unsubscribe" \in PriceFaults
          /\ op' = [op EXCEPT !.step = "finish"] /\ UNCHANGED subscribed
    /\ UNCHANGED <<stream, recipients, slot, closed, market, status, cfg, nextInstance, traders>>

DeleteOld ==
    /\ op # Idle /\ op.step = "delete"
    /\ DeletePaths(cfg[op.trader])
    /\ op' = [op EXCEPT !.step = "finish"]
    /\ UNCHANGED <<stream, subscribed, market, status, cfg, nextInstance, traders>>

\* s.cfg = newCfg
Finish ==
    /\ op # Idle /\ op.step = "finish"
    /\ op' = Idle
    /\ cfg' = [cfg EXCEPT ![op.trader] = op.new]
    /\ UNCHANGED <<feed, market, status, nextInstance, traders>>

-----------------------------------------------------------------------------
(* The trading goroutine of a trader: RunTrading *)

\* GetConfig, unless an update holds the trader's mutex.
GetConfig(t) ==
    /\ tpc[t] = "config" /\ status[t] # "stopped"
    /\ ~(op # Idle /\ op.kind = "update" /\ op.trader = t)
    /\ using' = [using EXCEPT ![t] = cfg[t]]
    /\ tpc' = [tpc EXCEPT ![t] = "lookup"]
    /\ UNCHANGED <<feed, market, manager, price, posted>>

\* RecieveLastPrice reads the channel out of the map, if there is one.
LookUp(t) ==
    /\ tpc[t] = "lookup"
    /\ tpc' = [tpc EXCEPT ![t] = IF using[t] \in recipients THEN "receive" ELSE "nowhere"]
    /\ UNCHANGED <<feed, market, manager, using, price, posted>>

Receive(t) ==
    /\ tpc[t] = "receive" /\ slot[using[t].instance] # NoPrice
    /\ price' = [price EXCEPT ![t][using[t].uid] = slot[using[t].instance]]
    /\ slot' = [slot EXCEPT ![using[t].instance] = NoPrice]
    /\ due' = [due EXCEPT ![t] = FALSE]
    /\ tpc' = [tpc EXCEPT ![t] = "act"]
    /\ UNCHANGED <<stream, subscribed, recipients, closed, count, manager, using, posted>>

\* An error, for RunTrading to start over.
ReceiveFromClosed(t) ==
    /\ tpc[t] = "receive"
    /\ slot[using[t].instance] = NoPrice /\ using[t].instance \in closed
    /\ tpc' = [tpc EXCEPT ![t] = "config"]
    /\ UNCHANGED <<feed, market, manager, using, price, posted>>

\* The strategy has nothing to do.
Hold(t) ==
    /\ tpc[t] = "act"
    /\ tpc' = [tpc EXCEPT ![t] = "config"]
    /\ UNCHANGED <<feed, market, manager, using, price, posted>>

\* MakeAction posts with the configuration of the trader, read anew.
MakeAction(t) ==
    /\ tpc[t] = "act"
    /\ posted' = [posted EXCEPT ![t] = cfg[t]]
    /\ tpc' = [tpc EXCEPT ![t] = "config"]
    /\ UNCHANGED <<feed, market, manager, using, price>>

\* The context is done: while it receives, or at the top of the loop.
Leave(t) ==
    /\ status[t] = "stopped" /\ tpc[t] \in {"config", "receive", "nowhere"}
    /\ tpc' = [tpc EXCEPT ![t] = "off"]
    /\ UNCHANGED <<feed, market, manager, using, price, posted>>

-----------------------------------------------------------------------------
Init ==
    /\ stream = "none" /\ subscribed = {} /\ recipients = {} /\ closed = {}
    /\ slot = [i \in Instances |-> NoPrice]
    /\ count = 0 /\ due = [t \in Traders |-> FALSE]
    /\ op = Idle /\ nextInstance = 1
    /\ status = [t \in Traders |-> "new"] /\ cfg = [t \in Traders |-> NoConfig]
    /\ tpc = [t \in Traders |-> "off"] /\ using = [t \in Traders |-> NoConfig]
    /\ price = [t \in Traders |-> [uid \in Instruments |-> NoPrice]] /\ posted = [t \in Traders |-> NoConfig]

Operate == SubscribeNew \/ SubscribeNewFails \/ AddNew \/ UnSubscribeOld \/ DeleteOld \/ Finish

Trade(t) ==
    \/ GetConfig(t) \/ LookUp(t) \/ Receive(t) \/ ReceiveFromClosed(t)
    \/ Hold(t) \/ MakeAction(t) \/ Leave(t)

Next ==
    \/ \E uid \in Instruments : MarketMoves(uid)
    \/ \E t \in Traders : BeginStart(t) \/ BeginUpdate(t) \/ BeginStop(t)
    \/ Operate
    \/ \E t \in Traders : Trade(t)

Spec == Init /\ [][Next]_vars

\* Every goroutine that can go on does.  Nothing is assumed of the market and
\* of the configuration file.
FairSpec ==
    /\ Spec /\ WF_vars(Operate)
    /\ \A t \in Traders : WF_vars(Trade(t))

-----------------------------------------------------------------------------
(* What the code promises *)

TypeOK ==
    /\ stream \in {"none", "unrouted", "routed"} /\ subscribed \subseteq Instruments
    /\ recipients \subseteq Configs /\ closed \subseteq Instances
    /\ slot \in [Instances -> 0 .. MaxPrices] /\ count \in 0 .. MaxPrices
    /\ due \in [Traders -> BOOLEAN]
    /\ op = Idle \/ op \in [kind : {"start", "update", "stop"}, trader : Traders,
                             step : {"register", "add", "unregister", "delete", "finish"},
                             new : Configs]
    /\ nextInstance \in 1 .. MaxInstances + 1
    /\ status \in [Traders -> {"new", "running", "stopped"}]
    /\ tpc \in [Traders -> {"off", "config", "lookup", "receive", "nowhere", "act"}]
    /\ {cfg, using, posted} \subseteq [Traders -> Configs \cup {NoConfig}]
    /\ price \in [Traders -> [Instruments -> 0 .. MaxPrices]]

\* No channel is closed that a path still leads to, so no send of the routing
\* goroutine ever meets a closed channel; and what is closed is empty, so that
\* a trader never trades on a price of a configuration it has left.
ClosedForGood ==
    /\ \A config \in recipients : config.instance \notin closed
    /\ \A i \in closed : slot[i] = NoPrice

\* A trader never decides twice on one price, nor on an older one after a newer
\* one of the same instrument, over any number of updates, although it may have
\* been registered under two configurations when the price came in (unless the
\* old one cannot be unsubscribed).
PricesMoveOn ==
    [][\A t \in Traders : tpc[t] = "receive" /\ tpc'[t] = "act" =>
          price'[t][using[t].uid] > price[t][using[t].uid]]_vars

\* While traders are only started and the stream is routed, every one of them
\* gets a price when its market moves, whether or not a start fails on the way.
SteadyPricesAreTaken ==
    \A t \in Traders :
        []((op = Idle \/ op.kind = "start") /\ stream # "unrouted") => (due[t] ~> ~due[t])

\* The trading goroutine of a trader the manager stops ends, wherever it was
\* waiting: the process ends when the last one has.
StoppedTradersLeave ==
    \A t \in Traders : op # Idle /\ op.kind = "stop" /\ op.trader = t ~> tpc[t] = "off"

\* README.md:67: the trader "gives price to strategy object which returns list
\* of actions, and trying to execute these actions": the order goes to the
\* instrument on whose price it was decided.
ActsOnItsPrice ==
    [][\A t \in Traders : posted'[t] # posted[t] => posted'[t].uid = using[t].uid]_vars
=============================================================================
