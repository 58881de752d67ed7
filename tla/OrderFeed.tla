----------------------------- MODULE OrderFeed -----------------------------
(***************************************************************************)
(* How the reports of the exchange reach the traders: the client of the    *)
(* exchange (internal/clients/t_api) routes each report to the channels    *)
(* registered for its account and instrument, the orders goroutine of a    *)
(* trader takes it from there, and the trader manager registers and        *)
(* unregisters the channels while both run.                                *)
(*                                                                         *)
(* The mutex of the client is held for one map access by everybody but the *)
(* routing goroutine, which holds it while it sends to one channel after   *)
(* the other and waits whenever one is full.  So an access is one action,  *)
(* enabled while the routing goroutine has nothing left to send.           *)
(***************************************************************************)
EXTENDS Naturals, Sequences, FiniteSets, SequencesExt

CONSTANTS Traders,       \* TraderService objects
          Accounts, Instruments,
          Capacity,      \* of a channel; 100 in the code
          Operations,    \* what the manager does: "start", "update", "stop"
          FeedFaults,    \* which registrations may fail: "stream", "prices"
          MaxInstances,  \* bound: configurations handed out
          MaxReports     \* bound: reports of the exchange

ASSUME FeedAssumption ==
    /\ Capacity \in Nat \ {0} /\ MaxInstances \in Nat /\ MaxReports \in Nat
    /\ Operations \subseteq {"start", "update", "stop"}
    /\ FeedFaults \subseteq {"stream", "prices"}

\* A configuration names a channel: its InstanceId is a fresh uuid.
Instances == 1 .. MaxInstances
Configs   == [account : Accounts, uid : Instruments, instance : Instances]
NoConfig  == [instance |-> 0]

\* The reports are numbered in the order of the stream.
Reports == [account : Accounts, uid : Instruments, number : 1 .. MaxReports]

Idle == [kind |-> "none"]

VARIABLES
    open,         \* ordersDataStream # nil
    recipients,   \* ordersStateInput: the configurations a path leads to
    queue,        \* what is buffered in the channel of an instance
    closed,       \* the instances whose channel is closed
    sending,      \* the channels the routing goroutine has yet to send to
    report,       \* the report it is sending
    count,        \* reports so far
    op,           \* what the manager is doing to which trader
    status,       \* of a trader
    cfg,          \* its current configuration
    nextInstance, \* the next InstanceId
    rpc,          \* where its orders goroutine is
    using,        \* the configuration that goroutine works with
    heard,        \* the reports it has taken
    owed          \* ghost: the reports that came in for a trader at work

feed    == <<open, recipients, queue, closed>>
routing == <<sending, report, count, owed>>
manager == <<op, status, cfg, nextInstance>>
readers == <<rpc, using, heard>>
vars    == <<feed, routing, manager, readers>>

\* The mutex of the client is free.
Unlocked == sending = <<>>

-----------------------------------------------------------------------------
(* The routing goroutine: startOrdersStateRouting *)

\* Mutated forms of Listeners: one listener only; those of any account.
OneListener(account, uid) ==
    LET all == {config \in recipients : config.account = account /\ config.uid = uid}
    IN  IF all = {} THEN {} ELSE {(CHOOSE config \in all : TRUE).instance}

UidListeners(account, uid) ==
    {config.instance : config \in {other \in recipients : other.uid = uid}}

Listeners(account, uid) ==
    {config.instance :
        config \in {other \in recipients : other.account = account /\ other.uid = uid}}

\* A trader at work, for whose configuration the report is.
Expects(t, account, uid) ==
    /\ status[t] = "running" /\ (op # Idle => op.trader # t)
    /\ cfg[t].account = account /\ cfg[t].uid = uid

\* It takes the next report and the lock; a map is ranged over in any order.
Route(account, uid) ==
    /\ Unlocked /\ open /\ count < MaxReports
    /\ count' = count + 1
    /\ report' = [account |-> account, uid |-> uid, number |-> count + 1]
    /\ sending' \in SetToSeqs(Listeners(account, uid))
    /\ owed' = [t \in Traders |->
                  owed[t] \cup IF Expects(t, account, uid) THEN {count + 1} ELSE {}]
    /\ UNCHANGED <<feed, manager, readers>>

\* A mutated form of Send, as if a channel had no bound.
SendWithoutWaiting ==
    /\ ~Unlocked
    /\ queue' = [queue EXCEPT ![Head(sending)] = Append(@, report)]
    /\ sending' = Tail(sending)
    /\ UNCHANGED <<open, recipients, closed, report, count, owed, manager, readers>>

\* With the lock held it waits until the channel has room.
Send ==
    /\ ~Unlocked
    /\ Len(queue[Head(sending)]) < Capacity
    /\ queue' = [queue EXCEPT ![Head(sending)] = Append(@, report)]
    /\ sending' = Tail(sending)
    /\ UNCHANGED <<open, recipients, closed, report, count, owed, manager, readers>>

-----------------------------------------------------------------------------
(* The registrations *)

RegisterOrderStateRecipient(config) ==
    /\ open' = TRUE
    /\ recipients' = recipients \cup {config}
    /\ UNCHANGED <<queue, closed>>

\* The channel is closed, after one report has been taken off it for nobody.
CloseIfMaybeClosed(config) ==
    IF config \in recipients
    THEN /\ queue' = [queue EXCEPT ![config.instance] = IF @ = <<>> THEN @ ELSE Tail(@)]
         /\ closed' = closed \cup {config.instance}
    ELSE UNCHANGED <<queue, closed>>

\* Mutated forms: only the own path is deleted; none is.
UnregisterOwnPath(config) ==
    /\ CloseIfMaybeClosed(config)
    /\ recipients' = recipients \ {config}
    /\ UNCHANGED open

UnregisterKeepingPath(config) ==
    /\ CloseIfMaybeClosed(config)
    /\ UNCHANGED <<open, recipients>>

\* Three deletes, the last of them of the whole account.
UnregisterOrderStateRecipient(config) ==
    /\ CloseIfMaybeClosed(config)
    /\ recipients' = {other \in recipients : other.account # config.account}
    /\ UNCHANGED open

-----------------------------------------------------------------------------
(* The trader manager: one operation at a time, on one trader.  An update   *)
(* holds the trader's own mutex from its first step to its last.            *)

Begin(kind, t) ==
    /\ op = Idle /\ kind \in Operations /\ nextInstance \in Instances
    /\ \E account \in Accounts, uid \in Instruments :
          op' = [kind |-> kind, trader |-> t, step |-> "orders",
                 new |-> [account |-> account, uid |-> uid, instance |-> nextInstance]]
    /\ nextInstance' = nextInstance + 1
    /\ UNCHANGED <<feed, routing, status, cfg, readers>>

\* NewTraderService of a trader not known yet, UpdateConfig of a known one.
BeginStart(t)  == status[t] = "new" /\ Begin("start", t)
BeginUpdate(t) == status[t] = "running" /\ Begin("update", t)

RegisterOrders ==
    /\ op # Idle /\ op.step = "orders" /\ Unlocked
    /\ RegisterOrderStateRecipient(op.new)
    /\ op' = [op EXCEPT !.step = "prices"]
    /\ UNCHANGED <<routing, status, cfg, nextInstance, readers>>

\* Only the first registration opens the stream, and may fail to.  The trader
\* is still new, a later reload starts it again.
RegisterOrdersFails ==
    /\ op # Idle /\ op.step = "orders" /\ ~open /\ "stream" \in FeedFaults
    /\ op' = Idle
    /\ UNCHANGED <<feed, routing, status, cfg, nextInstance, readers>>

\* RegisterLastPriceRecipient; a new trader then starts its orders goroutine.
RegisterPrices ==
    /\ op # Idle /\ op.step = "prices" /\ Unlocked
    /\ \/ /\ op.kind = "start"
          /\ op' = Idle
          /\ status' = [status EXCEPT ![op.trader] = "running"]
          /\ cfg' = [cfg EXCEPT ![op.trader] = op.new]
          /\ rpc' = [rpc EXCEPT ![op.trader] = "config"]
       \/ /\ op.kind = "update"
          /\ op' = [op EXCEPT !.step = "unregister"]
          /\ UNCHANGED <<status, cfg, rpc>>
    /\ UNCHANGED <<feed, routing, nextInstance, using, heard>>

\* Both return, the registration for the reports stays.
RegisterPricesFails ==
    /\ op # Idle /\ op.step = "prices" /\ "prices" \in FeedFaults
    /\ op' = Idle
    /\ UNCHANGED <<feed, routing, status, cfg, nextInstance, readers>>

\* A mutated form of BeginStop, that does not cancel the trader's context.
BeginStopWithoutCancel(t) ==
    /\ op = Idle /\ "stop" \in Operations /\ status[t] = "running"
    /\ op' = [kind |-> "stop", trader |-> t, step |-> "unregister", new |-> cfg[t]]
    /\ UNCHANGED <<feed, routing, status, cfg, nextInstance, readers>>

BeginStop(t) ==
    /\ op = Idle /\ "stop" \in Operations /\ status[t] = "running"
    /\ op' = [kind |-> "stop", trader |-> t, step |-> "unregister", new |-> cfg[t]]
    /\ status' = [status EXCEPT ![t] = "stopped"]
    /\ UNCHANGED <<feed, routing, cfg, nextInstance, readers>>

UnregisterOrders ==
    /\ op # Idle /\ op.step = "unregister" /\ Unlocked
    /\ UnregisterOrderStateRecipient(cfg[op.trader])
    /\ op' = [op EXCEPT !.step = "finish"]
    /\ UNCHANGED <<routing, status, cfg, nextInstance, readers>>

\* UnregisterLastPriceRecipient, which needs the lock too, and s.cfg = newCfg.
Finish ==
    /\ op # Idle /\ op.step = "finish" /\ Unlocked
    /\ op' = Idle
    /\ cfg' = [cfg EXCEPT ![op.trader] = op.new]
    /\ UNCHANGED <<feed, routing, status, nextInstance, readers>>

-----------------------------------------------------------------------------
(* The orders goroutine of a trader: runOrdersOperating *)

\* GetConfig, unless an update holds the trader's mutex.
GetConfig(t) ==
    /\ rpc[t] = "config" /\ status[t] # "stopped"
    /\ ~(op # Idle /\ op.kind = "update" /\ op.trader = t)
    /\ using' = [using EXCEPT ![t] = cfg[t]]
    /\ rpc' = [rpc EXCEPT ![t] = "lookup"]
    /\ UNCHANGED <<feed, routing, manager, heard>>

\* RecieveOrdersUpdate reads the channel out of the map: none, when there is
\* no path for its configuration any more.
LookUp(t) ==
    /\ rpc[t] = "lookup" /\ Unlocked
    /\ using' = [using EXCEPT ![t] = IF @ \in recipients THEN @ ELSE NoConfig]
    /\ rpc' = [rpc EXCEPT ![t] = "receive"]
    /\ UNCHANGED <<feed, routing, manager, heard>>

\* From no channel nothing is ever received.
Receive(t) ==
    /\ rpc[t] = "receive" /\ using[t] # NoConfig
    /\ queue[using[t].instance] # <<>>
    /\ heard' = [heard EXCEPT ![t] = Append(@, Head(queue[using[t].instance]))]
    /\ queue' = [queue EXCEPT ![using[t].instance] = Tail(@)]
    /\ rpc' = [rpc EXCEPT ![t] = "config"]
    /\ UNCHANGED <<open, recipients, closed, routing, manager, using>>

ReceiveFromClosed(t) ==
    /\ rpc[t] = "receive" /\ using[t] # NoConfig
    /\ queue[using[t].instance] = <<>> /\ using[t].instance \in closed
    /\ rpc' = [rpc EXCEPT ![t] = "config"]
    /\ UNCHANGED <<feed, routing, manager, using, heard>>

\* The context is done: while it receives, or at the top of the loop.
Leave(t) ==
    /\ status[t] = "stopped" /\ rpc[t] \in {"config", "receive"}
    /\ rpc' = [rpc EXCEPT ![t] = "off"]
    /\ UNCHANGED <<feed, routing, manager, using, heard>>

-----------------------------------------------------------------------------
Init ==
    /\ open = FALSE /\ recipients = {} /\ closed = {}
    /\ queue = [i \in Instances |-> <<>>]
    /\ sending = <<>> /\ report = Idle /\ count = 0
    /\ op = Idle /\ nextInstance = 1
    /\ status = [t \in Traders |-> "new"] /\ cfg = [t \in Traders |-> NoConfig]
    /\ rpc = [t \in Traders |-> "off"] /\ using = [t \in Traders |-> NoConfig]
    /\ heard = [t \in Traders |-> <<>>] /\ owed = [t \in Traders |-> {}]

Operate ==
    \/ RegisterOrders \/ RegisterOrdersFails
    \/ RegisterPrices \/ RegisterPricesFails
    \/ UnregisterOrders \/ Finish

Read(t) == GetConfig(t) \/ LookUp(t) \/ Receive(t) \/ ReceiveFromClosed(t) \/ Leave(t)

Next ==
    \/ \E account \in Accounts, uid \in Instruments : Route(account, uid)
    \/ Send
    \/ \E t \in Traders : BeginStart(t) \/ BeginUpdate(t) \/ BeginStop(t)
    \/ Operate
    \/ \E t \in Traders : Read(t)

Spec == Init /\ [][Next]_vars

\* Every goroutine that can go on does; the mutexes of Go starve nobody.
\* Nothing is assumed of the exchange and of the configuration file.
FairSpec ==
    /\ Spec /\ WF_vars(Send) /\ WF_vars(Operate)
    /\ \A t \in Traders : WF_vars(Read(t))

-----------------------------------------------------------------------------
(* What the code promises *)

TypeOK ==
    /\ open \in BOOLEAN /\ recipients \subseteq Configs
    /\ queue \in [Instances -> Seq(Reports)] /\ \A i \in Instances : Len(queue[i]) <= Capacity
    /\ closed \subseteq Instances
    /\ sending \in Seq(Instances) /\ report \in Reports \cup {Idle} /\ count \in 0 .. MaxReports
    /\ op = Idle \/ op \in [kind : {"start", "update", "stop"}, trader : Traders,
                             step : {"orders", "prices", "unregister", "finish"}, new : Configs]
    /\ status \in [Traders -> {"new", "running", "stopped"}]
    /\ cfg \in [Traders -> Configs \cup {NoConfig}] /\ using \in [Traders -> Configs \cup {NoConfig}]
    /\ rpc \in [Traders -> {"off", "config", "lookup", "receive"}]
    /\ heard \in [Traders -> Seq(Reports)] /\ owed \in [Traders -> SUBSET (1 .. MaxReports)]
    /\ nextInstance \in 1 .. MaxInstances + 1

\* Nothing is ever sent to a closed channel, although traders come, move and
\* go while reports are routed: the panic SendIfMaybeClosed recovers from
\* cannot happen, and no trader works with a channel somebody else closed.
SendsAreSafe ==
    /\ \A k \in 1 .. Len(sending) : sending[k] \notin closed
    /\ \A config \in recipients : config.instance \notin closed

\* A trader never goes back in time: the reports on one account and instrument
\* reach it in their order and once, over any number of updates (the reports
\* overwrite a row, an old one would undo a newer one).
HeardInOrder ==
    \A t \in Traders :
        \A j, k \in 1 .. Len(heard[t]) :
            /\ j < k
            /\ heard[t][j].account = heard[t][k].account /\ heard[t][j].uid = heard[t][k].uid
            => heard[t][j].number < heard[t][k].number

\* A trader only takes reports on the account and instrument it works with at
\* that moment: runOrdersOperating stores a report under that instrument.
OnlyOwnReports ==
    [][\A t \in Traders : heard'[t] # heard[t] =>
          /\ Last(heard'[t]).account = using[t].account
          /\ Last(heard'[t]).uid = using[t].uid]_vars

\* README.md:67: "When trader placed any order API T-Invest send report that
\* operates in orders operating loop": a report that came in for a trader at
\* work is taken by its loop, unless the trader is stopped.
ReportsAreHeard ==
    \A t \in Traders, n \in 1 .. MaxReports :
        n \in owed[t] ~> \/ \E k \in 1 .. Len(heard[t]) : heard[t][k].number = n
                         \/ status[t] = "stopped"

\* While traders are only started, whether or not a start fails on the way,
\* every report that came in for one of them is taken by its loop.
SteadyReportsAreHeard ==
    \A t \in Traders, n \in 1 .. MaxReports :
        [](op = Idle \/ op.kind = "start") =>
            (n \in owed[t] ~> \E k \in 1 .. Len(heard[t]) : heard[t][k].number = n)

\* The orders goroutine of a trader the manager stops ends, wherever it was
\* waiting, on a channel, on a closed one or on none.
StoppedReadersLeave ==
    \A t \in Traders : op # Idle /\ op.kind = "stop" /\ op.trader = t ~> rpc[t] = "off"
=============================================================================
