----------------------------- MODULE TradingBot -----------------------------
(***************************************************************************)
(* The life of the process cmd/trading_bot: main reads the configuration,  *)
(* starts the configured traders and waits for them; a goroutine reloads   *)
(* the configuration on SIGHUP; SIGINT and SIGTERM end every context.  The *)
(* trader manager starts, updates and stops traders entry by entry, the    *)
(* two goroutines of a trader run on meanwhile, and main stops the loggers *)
(* everybody logs to.                                                      *)
(*                                                                         *)
(* What a trader does with its orders is in Trading, its channels are in   *)
(* OrderFeed and PriceFeed; here an iteration is a stretch of time in      *)
(* which rows are written and orders posted.                               *)
(***************************************************************************)
EXTENDS Logger, Naturals, Sequences, FiniteSets

CONSTANTS Ids,          \* unique_trader_id
          FirstFile,    \* bound: the traders the file may list at the start
          LaterFiles,   \* bound: ... and after a change
          Faults,       \* what may fail, of the set below
          MaxEdits,     \* bound: changes of the configuration file
          MaxServices,  \* bound: TraderService objects
          MaxFailures   \* bound: entries of an update that fail

ASSUME BotAssumption ==
    /\ Loggers = {"trader", "manager"}
    /\ FirstFile \subseteq SUBSET Ids /\ LaterFiles \subseteq SUBSET Ids
    /\ MaxEdits \in Nat /\ MaxServices \in Nat /\ MaxFailures \in Nat
    /\ Faults \subseteq {"connect", "entry", "register", "decode", "panic"}

\* .env.yaml: an edit changes the parameters of all its traders, so that the
\* version of the file stands for the parameters.
Versions == 0 .. MaxEdits
Files    == [version : Versions, traders : SUBSET Ids, valid : BOOLEAN]
Services == 1 .. MaxServices
NoTrader == 0

VARIABLES
    file,      \* the configuration file
    term,      \* SIGINT or SIGTERM came: the context of the process is done
    hup,       \* the channel of SIGHUP, which holds one signal, is full
    mpc,       \* where main is
    rpc,       \* where the reload goroutine is: "none", "select", "read", "update", "left"
    panic,     \* the goroutine whose panic ended the process, or "none"
    upd,       \* UpdateTradersWithConfig: its caller and locals
    traders,   \* tm.traders
    wg,        \* tm.wg
    created,   \* TraderService objects so far
    trader,    \* of a TraderService: its id
    strategy,  \* the version its strategy works with
    cfg,       \* the version of its configuration
    stopped,   \* its context is cancelled
    tpc,       \* where its trading goroutine is
    opc,       \* its orders goroutine: "none", "on", "off"
    owed,      \* ghost: the version of the file at a SIGHUP not yet dealt with, or 0
    failures,  \* ghost: entries that failed so far
    idle       \* ghost: the wait group was at zero though nobody asked to end

signals  == <<file, term, hup, owed>>
process  == <<mpc, rpc, panic, idle>>
manager  == <<upd, traders, failures>>
services == <<created, trader, strategy, cfg, stopped>>
threads  == <<wg, tpc, opc>>
vars     == <<signals, process, manager, services, threads, closed>>

Alive == panic = "none" /\ mpc # "exited"

\* A mutated form of Done: a context of its own.
DoneAlone(s) == stopped[s]

\* The context of a TraderService is derived from that of the process.
Done(s) == stopped[s] \/ term

\* The head of the loop of RunTrading: on, or out of it.
Top(s) == IF Done(s) THEN "leave" ELSE "receive"

NoUpdate == [by |-> "none", version |-> 0, ids |-> {}, todo |-> {}, failed |-> {}, mid |-> 0]

BotInit ==
    /\ file \in [version : {0}, traders : FirstFile, valid : {TRUE}]
    /\ term = FALSE /\ hup = FALSE
    /\ mpc = "load" /\ rpc = "none" /\ panic = "none"
    /\ upd = NoUpdate
    /\ traders = [i \in Ids |-> NoTrader]
    /\ wg = 0 /\ created = 0
    /\ trader = <<>> /\ strategy = <<>> /\ cfg = <<>> /\ stopped = <<>>
    /\ tpc = <<>> /\ opc = <<>>
    /\ owed = 0 /\ failures = 0 /\ idle = FALSE
    /\ LoggersInit

-----------------------------------------------------------------------------
(* What comes from outside. *)

Edit ==
    /\ file.version < MaxEdits /\ ~term    \* bound: not when the end has begun
    /\ \/ \E ids \in LaterFiles :
             file' = [version |-> file.version + 1, traders |-> ids, valid |-> TRUE]
       \/ /\ "decode" \in Faults
          /\ file' = [version |-> file.version + 1, traders |-> {}, valid |-> FALSE]
    /\ UNCHANGED <<term, hup, owed, process, manager, services, threads, closed>>

\* A mutated form of SigHup, with an unbuffered channel.
SigHupUnbuffered ==
    /\ ~term
    /\ owed' = file.version
    /\ IF rpc = "none" THEN panic' = "sighup" /\ UNCHANGED hup
                       ELSE hup' = (hup \/ rpc = "select") /\ UNCHANGED panic
    /\ UNCHANGED <<file, term, mpc, rpc, idle, manager, services, threads, closed>>

\* Until main has called signal.Notify the signal ends the process; later it is
\* put into the channel, or dropped when one is waiting there.
SigHup ==
    /\ ~term    \* the same bound
    /\ owed' = file.version
    /\ IF rpc = "none" THEN panic' = "sighup" /\ UNCHANGED hup
                       ELSE hup' = TRUE /\ UNCHANGED panic
    /\ UNCHANGED <<file, term, mpc, rpc, idle, manager, services, threads, closed>>

SigTerm ==
    /\ term' = TRUE
    /\ UNCHANGED <<file, hup, owed, process, manager, services, threads, closed>>

-----------------------------------------------------------------------------
(* TraderManager.UpdateTradersWithConfig, called by main and by the reload   *)
(* goroutine, never by both at a time; the entries are taken in any order.   *)

Begin(who) ==
    upd' = [by |-> who, version |-> file.version, ids |-> file.traders,
            todo |-> file.traders, failed |-> {}, mid |-> 0]

\* At the head of the loop, with entry i to go.
Entry(i) == upd.by # "none" /\ upd.mid = 0 /\ i \in upd.todo

Finish(i) == [upd EXCEPT !.todo = @ \ {i}, !.mid = 0]
Fail(i) ==
    /\ failures < MaxFailures /\ failures' = failures + 1
    /\ upd' = [Finish(i) EXCEPT !.failed = @ \cup {i}]

\* `continue` after FindInstrument, AddInstrumentInfo or ResolveStrategy.
EntryFails(i) ==
    /\ "entry" \in Faults /\ Entry(i)
    /\ Log("manager")
    /\ Fail(i)
    /\ UNCHANGED <<signals, process, traders, services, threads>>

\* A mutated form of UpdateStrategyOf, with an early `continue`.
UpdateStrategyOnly(i) ==
    /\ Entry(i) /\ traders[i] # NoTrader
    /\ Log("manager")
    /\ strategy' = [strategy EXCEPT ![traders[i]] = upd.version]
    /\ upd' = Finish(i)
    /\ UNCHANGED <<signals, process, traders, failures, created, trader, cfg, stopped, threads>>

\* A known trader: its strategy is updated or replaced, which does not fail
\* once the new one could be resolved.
UpdateStrategyOf(i) ==
    /\ Entry(i) /\ traders[i] # NoTrader
    /\ Log("manager")
    /\ strategy' = [strategy EXCEPT ![traders[i]] = upd.version]
    /\ upd' = [upd EXCEPT !.mid = traders[i]]
    /\ UNCHANGED <<signals, process, traders, failures, created, trader, cfg, stopped, threads>>

\* ... then its configuration; the recipients are registered first.
UpdateConfigOf(i) ==
    /\ upd.mid # 0 /\ traders[i] = upd.mid
    /\ Log("trader")
    /\ cfg' = [cfg EXCEPT ![upd.mid] = upd.version]
    /\ upd' = Finish(i)
    /\ UNCHANGED <<signals, process, traders, failures, created, trader, strategy, stopped, threads>>

UpdateConfigFails(i) ==
    /\ "register" \in Faults
    /\ upd.mid # 0 /\ traders[i] = upd.mid
    /\ Log("manager")
    /\ Fail(i)
    /\ UNCHANGED <<signals, process, traders, services, threads>>

\* NewTraderService: the orders goroutine is on before the trader is known.
NewTraderService(i) ==
    /\ Entry(i) /\ traders[i] = NoTrader /\ created < MaxServices
    /\ created' = created + 1
    /\ trader' = Append(trader, i)
    /\ strategy' = Append(strategy, upd.version)
    /\ cfg' = Append(cfg, upd.version)
    /\ stopped' = Append(stopped, FALSE)
    /\ tpc' = Append(tpc, "none")
    /\ opc' = Append(opc, "on")
    /\ upd' = [upd EXCEPT !.mid = created + 1]
    /\ UNCHANGED <<signals, process, traders, failures, wg, closed>>

NewTraderFails(i) ==
    /\ "register" \in Faults
    /\ Entry(i) /\ traders[i] = NoTrader
    /\ Log("manager")
    /\ Fail(i)
    /\ UNCHANGED <<signals, process, traders, services, threads>>

\* A mutated form of GoNewOneTrader: the goroutine is not counted.
GoWithoutAdd(i) ==
    /\ upd.mid # 0 /\ trader[upd.mid] = i /\ traders[i] = NoTrader
    /\ traders' = [traders EXCEPT ![i] = upd.mid]
    /\ tpc' = [tpc EXCEPT ![upd.mid] = Top(upd.mid)]
    /\ upd' = Finish(i)
    /\ UNCHANGED <<signals, process, failures, services, wg, opc, closed>>

\* goNewOneTrader; addTrader finds the id free, since only this update adds.
GoNewOneTrader(i) ==
    /\ upd.mid # 0 /\ trader[upd.mid] = i /\ traders[i] = NoTrader
    /\ traders' = [traders EXCEPT ![i] = upd.mid]
    /\ wg' = wg + 1
    /\ tpc' = [tpc EXCEPT ![upd.mid] = Top(upd.mid)]
    /\ upd' = Finish(i)
    /\ UNCHANGED <<signals, process, failures, services, opc, closed>>

Settle(version) == owed' = IF version >= owed THEN 0 ELSE owed

Missing(i) == traders[i] # NoTrader /\ i \notin upd.ids

\* A mutated form of StopMissing: the trader is only forgotten.
ForgetMissing(i) ==
    /\ upd.by # "none" /\ upd.todo = {} /\ Missing(i)
    /\ Log("manager")
    /\ traders' = [traders EXCEPT ![i] = NoTrader]
    /\ UNCHANGED <<signals, process, upd, failures, services, threads>>

\* stopMissingTraders; the goroutines are not waited for.
StopMissing(i) ==
    /\ upd.by # "none" /\ upd.todo = {} /\ Missing(i)
    /\ Log("manager")
    /\ stopped' = [stopped EXCEPT ![traders[i]] = TRUE]
    /\ traders' = [traders EXCEPT ![i] = NoTrader]
    /\ UNCHANGED <<signals, process, upd, failures, created, trader, strategy, cfg, threads>>

EndUpdate ==
    /\ upd.by # "none" /\ upd.todo = {} /\ \A i \in Ids : ~Missing(i)
    /\ upd' = [upd EXCEPT !.by = "none"]
    /\ IF upd.by = "main" THEN mpc' = "started" /\ UNCHANGED rpc
                          ELSE rpc' = "select" /\ UNCHANGED mpc
    /\ Settle(upd.version)
    /\ UNCHANGED <<file, term, hup, panic, idle, traders, failures, services, threads, closed>>

Update ==
    \/ \E i \in Ids : \/ EntryFails(i) \/ UpdateStrategyOf(i)
                      \/ UpdateConfigOf(i) \/ UpdateConfigFails(i)
                      \/ NewTraderService(i) \/ NewTraderFails(i)
                      \/ GoNewOneTrader(i) \/ StopMissing(i)
    \/ EndUpdate

-----------------------------------------------------------------------------
(* main *)

LoadFirst ==
    /\ mpc = "load" /\ file.valid /\ file.traders # {}
    /\ mpc' = "update"
    /\ Begin("main")
    /\ UNCHANGED <<signals, rpc, panic, idle, traders, failures, services, threads, closed>>

\* Also without the database or the broker: the panic is recovered and logged,
\* and the deferred Stops run.
LoadFails ==
    /\ mpc = "load"
    /\ ~file.valid \/ file.traders = {} \/ "connect" \in Faults
    /\ Log("trader")
    /\ mpc' = "stopTrader"
    /\ UNCHANGED <<signals, rpc, panic, idle, manager, services, threads>>

\* signal.Notify, the reload goroutine, and on to Wait.
Started ==
    /\ mpc = "started"
    /\ Log("trader")
    /\ mpc' = "wait" /\ rpc' = "select"
    /\ UNCHANGED <<signals, panic, idle, manager, services, threads>>

\* Wait, when there is nothing to wait for.
WaitPasses ==
    /\ mpc = "wait" /\ wg = 0
    /\ mpc' = "stopTrader" /\ idle' = ~term
    /\ UNCHANGED <<signals, rpc, panic, manager, services, threads, closed>>

\* "Service stopped" goes to a logger that is still there; then the deferred Stops.
StopLoggers ==
    /\ \/ mpc = "stopTrader" /\ Stop("trader") /\ mpc' = "stopManager"
       \/ mpc = "stopManager" /\ Stop("manager") /\ mpc' = "stopInvest"
       \/ mpc = "stopInvest" /\ mpc' = "exited" /\ UNCHANGED closed
    /\ UNCHANGED <<signals, rpc, panic, idle, manager, services, threads>>

Main == LoadFirst \/ LoadFails \/ Started \/ WaitPasses \/ StopLoggers

-----------------------------------------------------------------------------
(* The goroutine of main that reloads the configuration. *)

TakeHup ==
    /\ rpc = "select" /\ hup
    /\ hup' = FALSE /\ rpc' = "read"
    /\ UNCHANGED <<file, term, owed, mpc, panic, idle, manager, services, threads, closed>>

LeaveReload ==
    /\ rpc = "select" /\ term
    /\ rpc' = "left"
    /\ UNCHANGED <<signals, mpc, panic, idle, manager, services, threads, closed>>

ReadFile ==
    /\ rpc = "read" /\ file.valid /\ file.traders # {}
    /\ rpc' = "update"
    /\ Begin("reload")
    /\ UNCHANGED <<signals, mpc, panic, idle, traders, failures, services, threads, closed>>

\* "no traders in new config": nothing changes.
ReadNoTraders ==
    /\ rpc = "read" /\ file.valid /\ file.traders = {}
    /\ Log("manager")
    /\ rpc' = "select"
    /\ upd' = [NoUpdate EXCEPT !.version = file.version]
    /\ Settle(file.version)
    /\ UNCHANGED <<file, term, hup, mpc, panic, idle, traders, failures, services, threads>>

\* GetEnvCfg returns no error for a file it cannot decode, and no configuration.
ReadInvalid ==
    /\ rpc = "read" /\ ~file.valid
    /\ panic' = "config"
    /\ UNCHANGED <<signals, mpc, rpc, idle, manager, services, threads, closed>>

\* A message of the reload, or of its UpdateConnection that failed, to a logger
\* that main has stopped.
ReloadLogPanics ==
    /\ \/ (upd.by = "reload" \/ rpc = "read") /\ LogPanics("manager")
       \/ "connect" \in Faults /\ rpc = "read" /\ LogPanics("trader")
       \/ (\E i \in Ids : upd.mid # 0 /\ traders[i] = upd.mid) /\ LogPanics("trader")
    /\ panic' = "reload"
    /\ UNCHANGED <<signals, mpc, rpc, idle, manager, services, threads>>

Reload == TakeHup \/ LeaveReload \/ ReadFile \/ ReadNoTraders \/ ReadInvalid \/ ReloadLogPanics

-----------------------------------------------------------------------------
(* The trading goroutine of a TraderService: goNewOneTrader and RunTrading. *)

At(s, pc) == s <= created /\ tpc[s] = pc
GoTo(s, pc) == tpc' = [tpc EXCEPT ![s] = pc]

\* RecieveLastPrice: a price can be taken though the context is done.
TakePrice(s) ==
    /\ At(s, "receive")
    /\ GoTo(s, "iterate")
    /\ UNCHANGED <<signals, process, manager, services, wg, opc, closed>>

LeaveReceive(s) ==
    /\ At(s, "receive") /\ Done(s)
    /\ Log("trader")
    /\ GoTo(s, "leave")
    /\ UNCHANGED <<signals, process, manager, services, wg, opc>>

\* With orders or errors to report, or nothing to do.
EndIteration(s) ==
    /\ At(s, "iterate")
    /\ GoTo(s, Top(s))
    /\ UNCHANGED <<signals, process, manager, services, wg, opc, closed>>

\* A panic, of an iteration or of a message to the stopped logger, is recovered.
TradingPanics(s) ==
    /\ \/ "panic" \in Faults /\ At(s, "iterate") /\ UNCHANGED closed
       \/ /\ At(s, "iterate") \/ At(s, "leave") \/ (At(s, "receive") /\ Done(s))
          /\ LogPanics("trader")
    /\ GoTo(s, "panicked")
    /\ UNCHANGED <<signals, process, manager, services, wg, opc>>

Resume(s) ==
    /\ At(s, "panicked")
    /\ Log("manager")
    /\ GoTo(s, Top(s))
    /\ UNCHANGED <<signals, process, manager, services, wg, opc>>

\* A mutated form of EndTrading: the wait group is not told.
EndWithoutDone(s) ==
    /\ At(s, "leave")
    /\ Log("trader")
    /\ GoTo(s, "done")
    /\ UNCHANGED <<signals, process, manager, services, wg, opc>>

\* RunTrading returns and the wait group is told; at zero main is released.
EndTrading(s) ==
    /\ At(s, "leave")
    /\ Log("trader")
    /\ GoTo(s, "done")
    /\ wg' = wg - 1
    /\ IF wg = 1 /\ mpc = "wait" THEN mpc' = "stopTrader" /\ idle' = ~term
                                 ELSE UNCHANGED <<mpc, idle>>
    /\ UNCHANGED <<signals, rpc, panic, manager, services, opc>>

\* Nothing recovers a message to the stopped logger of the manager.
ManagerLogPanics(s) ==
    /\ At(s, "panicked")
    /\ LogPanics("manager")
    /\ panic' = "trading"
    /\ UNCHANGED <<signals, mpc, rpc, idle, manager, services, threads>>

TradingLoop(s) ==
    \/ LeaveReceive(s) \/ EndIteration(s)
    \/ TradingPanics(s) \/ Resume(s) \/ EndTrading(s) \/ ManagerLogPanics(s)

\* runOrdersOperating.
EndOrders(s) ==
    /\ s <= created /\ opc[s] = "on" /\ Done(s)
    /\ Log("trader")
    /\ opc' = [opc EXCEPT ![s] = "off"]
    /\ UNCHANGED <<signals, process, manager, services, wg, tpc>>

OrdersLogPanics(s) ==
    /\ s <= created /\ opc[s] = "on" /\ Done(s)
    /\ LogPanics("trader")
    /\ panic' = "orders"
    /\ UNCHANGED <<signals, mpc, rpc, idle, manager, services, threads>>

OrdersLoop(s) == EndOrders(s) \/ OrdersLogPanics(s)

Ended == ~Alive /\ UNCHANGED vars

BotNext ==
    \/ Alive /\ \/ Edit \/ SigHup \/ SigTerm
                \/ Main \/ Reload \/ Update
                \/ \E s \in Services : TradingLoop(s) \/ TakePrice(s) \/ OrdersLoop(s)
    \/ Ended

BotSpec == BotInit /\ [][BotNext]_vars

\* Every goroutine runs on; prices and signals need not come.
BotFairSpec ==
    /\ BotSpec
    /\ WF_vars(Alive /\ (Main \/ Reload \/ Update))
    /\ \A s \in Services : WF_vars(Alive /\ (TradingLoop(s) \/ OrdersLoop(s)))

-----------------------------------------------------------------------------
Running(s) == tpc[s] \notin {"none", "done"}

TypeOK ==
    /\ file \in Files
    /\ term \in BOOLEAN /\ hup \in BOOLEAN /\ idle \in BOOLEAN
    /\ mpc \in {"load", "update", "started", "wait",
                "stopTrader", "stopManager", "stopInvest", "exited"}
    /\ rpc \in {"none", "select", "read", "update", "left"}
    /\ panic \in {"none", "sighup", "config", "reload", "trading", "orders"}
    /\ upd \in [by : {"none", "main", "reload"}, version : Versions, ids : SUBSET Ids,
                todo : SUBSET Ids, failed : SUBSET Ids, mid : Services \cup {0}]
    /\ traders \in [Ids -> Services \cup {NoTrader}]
    /\ created \in 0 .. MaxServices
    /\ trader \in [1 .. created -> Ids]
    /\ strategy \in [1 .. created -> Versions] /\ cfg \in [1 .. created -> Versions]
    /\ stopped \in [1 .. created -> BOOLEAN]
    /\ tpc \in [1 .. created -> {"none", "receive", "iterate", "panicked", "leave", "done"}]
    /\ opc \in [1 .. created -> {"on", "off"}]
    /\ wg = Cardinality({s \in 1 .. created : Running(s)})
    /\ owed \in Versions /\ failures \in 0 .. MaxFailures
    /\ closed \in [Loggers -> BOOLEAN]

\* No trader runs that the manager has lost sight of: a service is in the map
\* under its id, or about to be put there, exactly as long as its context is not
\* cancelled, and whatever it panics on, its trading goroutine runs until its
\* context is done (trader_manager.go:91, 147-163, 165-196).
NoStrayTraders ==
    \A s \in 1 .. created :
        /\ ~stopped[s] <=> traders[trader[s]] = s \/ upd.mid = s
        /\ traders[trader[s]] = s => Running(s) \/ Done(s)

\* After an update the running traders are those of the configuration: none that
\* it does not name, and every trader it names works with its parameters, both of
\* its strategy and of its own, unless an error was logged for its entry
\* (trader_manager.go:54-136).
ReloadsTakeEffect ==
    upd.by = "none" /\ upd.ids # {} =>
        \A i \in Ids :
            /\ i \notin upd.ids => traders[i] = NoTrader
            /\ i \in upd.ids \ upd.failed =>
                  /\ traders[i] # NoTrader
                  /\ strategy[traders[i]] = upd.version
                  /\ cfg[traders[i]] = upd.version

\* The process does not exit in the middle of an iteration, between a row and the
\* order it stands for, and no message to a stopped logger ends it there, unless
\* the wait group was at zero before anybody asked to end: then main does not wait
\* for a trader that is added later (trading_bot.go:60-63, 125-127,
\* trader_manager.go:170-172).
EndIsOrderly ==
    (mpc = "exited" \/ panic \in {"reload", "trading", "orders"}) /\ ~idle =>
        \A s \in 1 .. created : tpc[s] # "iterate"

\* No SIGHUP is lost: the file that was in place when it came, or a later one, is
\* dealt with, however signals, edits and reloads fall together, unless the
\* process is to end (trading_bot.go:102-122).
EditsAreLoaded == owed > 0 ~> owed = 0 \/ term \/ ~Alive

\* After SIGINT or SIGTERM the process ends, also in the middle of an update, of
\* an iteration or of the delay after a panic (trading_bot.go:40, trader.go:155).
EndsWhenAsked == term ~> ~Alive
=============================================================================
