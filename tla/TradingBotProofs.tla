-------------------------- MODULE TradingBotProofs --------------------------
(***************************************************************************)
(* Proofs about TradingBot, for any trader ids, configuration files and    *)
(* faults, any number of edits, services and failing entries.              *)
(*                                                                         *)
(* The update is followed entry by entry: what it has dealt with agrees    *)
(* with the file, and the service it is at is either the one the manager   *)
(* knows or about to become it.  The end is orderly because nobody is left *)
(* in an iteration when the wait group is at zero, and because whoever is  *)
(* added after the context of the process is done never begins one.        *)
(***************************************************************************)
EXTENDS TradingBot, FiniteSetTheorems, SequenceTheorems, TLAPS

Created == 1 .. created

\* The trading goroutines the wait group counts.
Active == {s \in Created : Running(s)}

\* main waits no longer.
Past == mpc \in {"stopTrader", "stopManager", "stopInvest", "exited"}

\* Only one of main and the reload goroutine updates, and the loggers are
\* stopped when main has waited, or could not load anything.
MainOK ==
    /\ upd.by = "main" <=> mpc = "update"
    /\ upd.by = "reload" <=> rpc = "update"
    /\ mpc \in {"load", "update", "started"} => rpc = "none"
    /\ mpc = "wait" => rpc # "none"
    /\ mpc = "load" => created = 0
    /\ \A l \in Loggers : closed[l] => Past
    /\ panic \in {"reload", "trading", "orders"} => Past

\* The manager has a service under its own id; of the others, those that do not
\* run have ended, but for the one it is about to start.
MapOK ==
    /\ \A i \in Ids : traders[i] # NoTrader => traders[i] \in Created /\ trader[traders[i]] = i
    /\ \A s \in Created : tpc[s] = "none" <=> s = upd.mid /\ traders[trader[s]] = NoTrader
    /\ \A s \in Created : tpc[s] \in {"leave", "done"} => Done(s)

\* Trader i works with the parameters of the update.
InStep(i) ==
    /\ traders[i] # NoTrader
    /\ strategy[traders[i]] = upd.version /\ cfg[traders[i]] = upd.version

\* The service the update is at belongs to an entry it still has to do, and what
\* it has done without an error is in step.
UpdateOK ==
    /\ upd.by = "none" => upd.mid = 0
    /\ upd.todo \subseteq upd.ids
    /\ upd.mid # 0 =>
          /\ upd.mid \in Created
          /\ trader[upd.mid] \in upd.todo
          /\ traders[trader[upd.mid]] \in {NoTrader, upd.mid}
          /\ strategy[upd.mid] = upd.version
          /\ traders[trader[upd.mid]] = NoTrader => cfg[upd.mid] = upd.version
    /\ upd.by # "none" => \A i \in (upd.ids \ upd.todo) \ upd.failed : InStep(i)

\* Once main waits no longer, and somebody has asked to end or nothing was
\* loaded, no service is in an iteration or may get into one.
QuietEnd ==
    Past /\ ~idle =>
        /\ \A s \in Created : tpc[s] \notin {"receive", "iterate"}
        /\ IF rpc = "none" THEN created = 0 ELSE term

IInv ==
    TypeOK /\ MainOK /\ MapOK /\ UpdateOK /\ QuietEnd /\ NoStrayTraders /\ ReloadsTakeEffect

-----------------------------------------------------------------------------
LEMMA BotType ==
    ASSUME TypeOK
    PROVE  /\ created \in Nat /\ Created \subseteq Services
           /\ \A s \in Created : s # NoTrader /\ trader[s] \in Ids /\ stopped[s] \in BOOLEAN
           /\ upd.by \in {"none", "main", "reload"} /\ upd.version \in Versions
           /\ upd.ids \subseteq Ids /\ upd.todo \subseteq Ids /\ upd.failed \subseteq Ids
           /\ upd.mid \in Services \cup {0} /\ 0 \notin Services
           /\ file.version \in Versions /\ file.traders \subseteq Ids /\ 0 \in Versions
           /\ file.version \in Nat
<1>1. created \in Nat /\ Created \subseteq Services /\ 0 \notin Services /\ 0 \in Versions
  <2>1. created \in 0 .. MaxServices
    BY DEF TypeOK
  <2> QED BY <2>1, BotAssumption DEF Created, Services, Versions
<1>2. \A s \in Created : s # NoTrader /\ trader[s] \in Ids /\ stopped[s] \in BOOLEAN
  BY <1>1 DEF TypeOK, Created, NoTrader
<1>3. /\ upd.by \in {"none", "main", "reload"} /\ upd.version \in Versions
      /\ upd.ids \subseteq Ids /\ upd.todo \subseteq Ids /\ upd.failed \subseteq Ids
      /\ upd.mid \in Services \cup {0}
  BY DEF TypeOK
<1>4. file.version \in Versions /\ file.traders \subseteq Ids
  BY DEF TypeOK, Files
<1>5. file.version \in Nat
  BY <1>4 DEF Versions
<1> QED BY <1>1, <1>2, <1>3, <1>4, <1>5

\* The set of trading goroutines is finite, so that they can be counted.
LEMMA ActiveFinite ==
    ASSUME TypeOK
    PROVE  /\ IsFiniteSet(Active) /\ wg = Cardinality(Active) /\ wg \in Nat
           /\ wg = 0 <=> Active = {}
<1>1. IsFiniteSet(Created)
  <2>1. created \in Int
    BY BotType
  <2> QED BY <2>1, FS_Interval DEF Created
<1>2. IsFiniteSet(Active)
  BY <1>1, FS_Subset DEF Active
<1>3. wg = Cardinality(Active)
  BY DEF TypeOK, Active, Created
<1> QED BY <1>2, <1>3, FS_CardinalityType, FS_EmptySet

\* Of n services, and of one more.
Columns(n, S) == [1 .. n -> S]
With(f, x)    == Append(f, x)

LEMMA WithFacts ==
    ASSUME NEW S, NEW n \in Nat, NEW f \in Columns(n, S), NEW x \in S
    PROVE  /\ With(f, x) \in Columns(n + 1, S) /\ With(f, x)[n + 1] = x
           /\ \A s \in 1 .. n : With(f, x)[s] = f[s]
<1>1. f \in Seq(S) /\ Len(f) = n
  BY DEF Columns
<1>2. /\ Append(f, x) \in Seq(S) /\ Len(Append(f, x)) = n + 1
      /\ Append(f, x)[n + 1] = x /\ \A k \in 1 .. n : Append(f, x)[k] = f[k]
  BY <1>1, AppendProperties
<1>3. Append(f, x) \in [1 .. n + 1 -> S]
  BY <1>2, LenProperties
<1> QED BY <1>2, <1>3 DEF With, Columns

-----------------------------------------------------------------------------
(* Initially nothing is there. *)

LEMMA InitOK == BotInit => IInv
<1> SUFFICES ASSUME BotInit PROVE IInv
  OBVIOUS
<1>1. Created = {} /\ Active = {} /\ Cardinality(Active) = 0
  BY FS_EmptySet DEF BotInit, Created, Active
<1>2. file \in Files
  <2>1. {0} \subseteq Versions /\ FirstFile \subseteq SUBSET Ids /\ {TRUE} \subseteq BOOLEAN
    BY BotAssumption DEF Versions
  <2> QED BY <2>1 DEF BotInit, Files
<1>3. upd \in [by : {"none", "main", "reload"}, version : Versions, ids : SUBSET Ids,
               todo : SUBSET Ids, failed : SUBSET Ids, mid : Services \cup {0}]
  BY BotAssumption DEF BotInit, NoUpdate, Versions
<1>4. /\ \A S : <<>> \in [1 .. created -> S]
      /\ traders \in [Ids -> Services \cup {NoTrader}] /\ wg = Cardinality(Active)
      /\ closed \in [Loggers -> BOOLEAN]
  BY <1>1 DEF BotInit, LoggersInit, Created
<1>5. TypeOK
  <2>1. created \in 0 .. MaxServices /\ owed \in Versions /\ failures \in 0 .. MaxFailures
    BY BotAssumption DEF BotInit, Versions
  <2>2. /\ trader \in [1 .. created -> Ids] /\ strategy \in [1 .. created -> Versions]
        /\ cfg \in [1 .. created -> Versions] /\ stopped \in [1 .. created -> BOOLEAN]
        /\ tpc \in [1 .. created -> {"none", "receive", "iterate", "panicked", "leave", "done"}]
        /\ opc \in [1 .. created -> {"on", "off"}]
    BY <1>4 DEF BotInit
  <2>3. /\ term \in BOOLEAN /\ hup \in BOOLEAN /\ idle \in BOOLEAN
        /\ mpc = "load" /\ rpc = "none" /\ panic = "none"
    BY DEF BotInit
  <2>4. wg = Cardinality({s \in 1 .. created : Running(s)})
    BY <1>4 DEF Active, Created
  <2> QED BY <1>2, <1>3, <1>4, <2>1, <2>2, <2>3, <2>4 DEF TypeOK
<1>6. MainOK /\ MapOK /\ UpdateOK /\ QuietEnd
  BY <1>1 DEF BotInit, LoggersInit, NoUpdate, MainOK, MapOK, UpdateOK, QuietEnd, Past, Created
<1>7. NoStrayTraders /\ ReloadsTakeEffect
  BY <1>1 DEF BotInit, NoUpdate, NoStrayTraders, ReloadsTakeEffect, Created
<1> QED BY <1>5, <1>6, <1>7 DEF IInv

-----------------------------------------------------------------------------
(* Steps that leave the manager, its traders and their trading loops alone. *)

\* Nothing was asked of the process that can be taken back.
LEMMA SameTraders ==
    ASSUME IInv, UNCHANGED <<manager, services, tpc>>, term => term'
    PROVE  /\ MapOK' /\ UpdateOK' /\ NoStrayTraders' /\ ReloadsTakeEffect'
           /\ Created' = Created /\ Active' = Active
<1>1. /\ UNCHANGED <<upd, traders, failures, created, trader, strategy, cfg, stopped, tpc>>
      /\ \A s : Done(s) => Done(s)'
      /\ \A s : Running(s)' = Running(s)
  BY DEF manager, services, Done, Running
<1>2. Created' = Created /\ Active' = Active
  BY <1>1 DEF Created, Active
<1>3. MapOK' /\ UpdateOK'
  BY <1>1, <1>2 DEF IInv, MapOK, UpdateOK, InStep
<1>4. NoStrayTraders' /\ ReloadsTakeEffect'
  BY <1>1 DEF IInv, NoStrayTraders, ReloadsTakeEffect
<1> QED BY <1>2, <1>3, <1>4

\* Signals, edits, the orders goroutines and the messages that end the process.
LEMMA AsideOK ==
    ASSUME IInv, file' \in Files, term' \in BOOLEAN, term => term', hup' \in BOOLEAN,
           owed' \in Versions, opc' \in [Created -> {"on", "off"}],
           \/ panic' = panic \/ panic' \in {"sighup", "config"}
           \/ panic' \in {"reload", "trading", "orders"} /\ Past,
           UNCHANGED <<mpc, rpc, idle, manager, services, wg, tpc, closed>>
    PROVE  IInv'
<1>1. /\ MapOK' /\ UpdateOK' /\ NoStrayTraders' /\ ReloadsTakeEffect'
      /\ Created' = Created /\ Active' = Active
  BY SameTraders
<1>2. TypeOK'
  <2>1. wg' = Cardinality({s \in 1 .. created : Running(s)})'
    BY <1>1, ActiveFinite DEF IInv, Active, Created
  <2>2. panic' \in {"none", "sighup", "config", "reload", "trading", "orders"}
    BY DEF IInv, TypeOK
  <2> QED BY <2>1, <2>2 DEF IInv, TypeOK, manager, services, Created
<1>3. MainOK' /\ QuietEnd'
  BY <1>1 DEF IInv, MainOK, QuietEnd, Past, manager, services
<1> QED BY <1>1, <1>2, <1>3 DEF IInv


\* The loggers are stopped by main alone, when it waits no longer.
LEMMA LoggerFacts ==
    ASSUME IInv, NEW l \in Loggers
    PROVE  /\ closed[l] => Past
           /\ closed' = [closed EXCEPT ![l] = TRUE] =>
                  /\ closed' \in [Loggers -> BOOLEAN]
                  /\ Past => \A other \in Loggers : closed'[other] => Past
BY DEF IInv, MainOK, TypeOK

LEMMA OutsideOK == IInv /\ (Edit \/ SigHup \/ SigTerm \/ ReadInvalid \/ UNCHANGED vars) => IInv'
<1> SUFFICES ASSUME IInv, Edit \/ SigHup \/ SigTerm \/ ReadInvalid \/ UNCHANGED vars PROVE IInv'
  OBVIOUS
<1>1. /\ term \in BOOLEAN /\ hup \in BOOLEAN /\ owed \in Versions /\ file \in Files
      /\ file.version \in Versions /\ file.version \in Nat
      /\ opc \in [Created -> {"on", "off"}]
  BY BotType DEF IInv, TypeOK, Created
<1>2. CASE Edit
  <2>1. file.version + 1 \in Versions
    BY <1>1, <1>2, BotAssumption DEF Edit, Versions
  <2>2. file' \in Files
    <3>1. \A ids \in SUBSET Ids : \A valid \in BOOLEAN :
              [version |-> file.version + 1, traders |-> ids, valid |-> valid] \in Files
      BY <2>1 DEF Files
    <3>2. LaterFiles \subseteq SUBSET Ids /\ {} \in SUBSET Ids
      BY BotAssumption
    <3> QED BY <1>2, <3>1, <3>2 DEF Edit
  <2> QED BY <1>1, <1>2, <2>2, AsideOK DEF Edit, process, threads
<1>3. CASE SigHup
  BY <1>1, <1>3, AsideOK DEF SigHup, threads
<1>4. CASE SigTerm
  BY <1>1, <1>4, AsideOK DEF SigTerm, process, threads
<1>5. CASE ReadInvalid
  BY <1>1, <1>5, AsideOK DEF ReadInvalid, signals, threads
<1>6. CASE UNCHANGED vars
  BY <1>1, <1>6, AsideOK DEF vars, signals, process, threads
<1> QED BY <1>2, <1>3, <1>4, <1>5, <1>6

LEMMA LogPanicsOK ==
    ASSUME NEW s, ReloadLogPanics \/ ManagerLogPanics(s) \/ OrdersLogPanics(s)
    PROVE  IInv => IInv'
<1> SUFFICES ASSUME IInv PROVE IInv'
  OBVIOUS
<1>1. \E l \in Loggers : closed[l] /\ UNCHANGED closed
  BY BotAssumption DEF ReloadLogPanics, ManagerLogPanics, OrdersLogPanics, LogPanics
<1>2. Past
  BY <1>1, LoggerFacts
<1>3. /\ panic' \in {"reload", "trading", "orders"}
      /\ UNCHANGED <<signals, mpc, rpc, idle, manager, services, threads>>
  BY DEF ReloadLogPanics, ManagerLogPanics, OrdersLogPanics
<1>4. /\ term \in BOOLEAN /\ hup \in BOOLEAN /\ owed \in Versions /\ file \in Files
      /\ opc \in [Created -> {"on", "off"}]
  BY DEF IInv, TypeOK, Created
<1> QED BY <1>1, <1>2, <1>3, <1>4, AsideOK DEF signals, threads

LEMMA EndOrdersOK == ASSUME NEW s \in Services PROVE IInv /\ EndOrders(s) => IInv'
<1> SUFFICES ASSUME IInv, EndOrders(s) PROVE IInv'
  OBVIOUS
<1>1. opc' \in [Created -> {"on", "off"}]
  BY DEF EndOrders, IInv, TypeOK, Created
<1>2. /\ term \in BOOLEAN /\ hup \in BOOLEAN /\ owed \in Versions /\ file \in Files
  BY DEF IInv, TypeOK
<1> QED BY <1>1, <1>2, AsideOK DEF EndOrders, Log, signals, process

\* Main and the reload goroutine go on, the traders as they were.
LEMMA ProcessOK ==
    ASSUME IInv, UNCHANGED <<file, term, owed, panic, manager, services, threads>>,
           hup' \in BOOLEAN, idle' \in BOOLEAN, closed' \in [Loggers -> BOOLEAN],
           mpc' \in {"load", "update", "started", "wait",
                     "stopTrader", "stopManager", "stopInvest", "exited"},
           rpc' \in {"none", "select", "read", "update", "left"},
           MainOK', QuietEnd'
    PROVE  IInv'
<1>1. /\ MapOK' /\ UpdateOK' /\ NoStrayTraders' /\ ReloadsTakeEffect'
      /\ Created' = Created /\ Active' = Active
  BY SameTraders DEF threads
<1>2. TypeOK'
  <2>1. wg' = Cardinality({s \in 1 .. created : Running(s)})'
    BY <1>1, ActiveFinite DEF IInv, Active, Created, threads
  <2> QED BY <2>1 DEF IInv, TypeOK, manager, services, threads
<1> QED BY <1>1, <1>2 DEF IInv

LEMMA StopLoggersOK == IInv /\ StopLoggers => IInv'
<1> SUFFICES ASSUME IInv, StopLoggers PROVE IInv'
  OBVIOUS
<1>1. Past /\ mpc' \in {"stopManager", "stopInvest", "exited"}
  BY DEF StopLoggers, Past
<1>2. closed' \in [Loggers -> BOOLEAN]
  BY LoggerFacts, BotAssumption DEF StopLoggers, Stop, IInv, TypeOK
<1>3. UNCHANGED <<signals, rpc, panic, idle, manager, services, threads>>
  BY DEF StopLoggers
<1>4. MainOK' /\ QuietEnd'
  BY <1>1, <1>3 DEF IInv, MainOK, QuietEnd, Past, signals, manager, services, threads, Created
<1>5. hup \in BOOLEAN /\ idle \in BOOLEAN /\ rpc \in {"none", "select", "read", "update", "left"}
  BY DEF IInv, TypeOK
<1> QED BY <1>1, <1>2, <1>3, <1>4, <1>5, ProcessOK DEF signals


\* LoadFails, Started, WaitPasses and the select of the reload goroutine.
LEMMA MainStepsOK ==
    IInv /\ (LoadFails \/ Started \/ WaitPasses \/ TakeHup \/ LeaveReload) => IInv'
<1> SUFFICES ASSUME IInv, LoadFails \/ Started \/ WaitPasses \/ TakeHup \/ LeaveReload
             PROVE  IInv'
  OBVIOUS
<1>1. /\ UNCHANGED <<file, term, owed, panic, manager, services, threads, closed>>
      /\ term \in BOOLEAN /\ hup \in BOOLEAN /\ idle \in BOOLEAN
      /\ rpc \in {"none", "select", "read", "update", "left"}
      /\ mpc \in {"load", "update", "started", "wait",
                  "stopTrader", "stopManager", "stopInvest", "exited"}
      /\ closed \in [Loggers -> BOOLEAN]
  BY DEF IInv, TypeOK, LoadFails, Started, WaitPasses, TakeHup, LeaveReload, Log, signals
<1>2. UNCHANGED <<upd, created, tpc>>
  BY <1>1 DEF manager, services, threads
<1>3. CASE LoadFails
  <2>1. mpc = "load" /\ mpc' = "stopTrader" /\ UNCHANGED <<hup, rpc, idle>>
    BY <1>3 DEF LoadFails, signals
  <2>2. rpc = "none" /\ created = 0
    BY <2>1 DEF IInv, MainOK
  <2>3. MainOK'
    <3>1. UNCHANGED <<panic, closed, upd, rpc, created>> /\ Past'
      BY <1>1, <1>2, <2>1 DEF Past
    <3> QED BY <2>1, <2>2, <3>1 DEF IInv, MainOK
  <2>4. Created = {} /\ Created' = Created
    BY <1>2, <2>2 DEF Created
  <2>5. QuietEnd'
    BY <1>2, <2>1, <2>2, <2>4 DEF QuietEnd
  <2> QED BY <1>1, <2>1, <2>3, <2>5, ProcessOK
<1>4. CASE Started
  <2>1. mpc = "started" /\ mpc' = "wait" /\ rpc' = "select" /\ UNCHANGED <<hup, idle>>
    BY <1>4 DEF Started, signals
  <2>2. MainOK' /\ QuietEnd'
    BY <1>1, <1>2, <2>1 DEF IInv, MainOK, QuietEnd, Past
  <2> QED BY <1>1, <2>1, <2>2, ProcessOK
<1>5. CASE WaitPasses
  <2>1. Active = {}
    BY <1>5, ActiveFinite DEF IInv, WaitPasses
  <2>2. \A s \in Created : tpc[s] \notin {"receive", "iterate"}
    BY <2>1 DEF Active, Running
  <2>3. mpc = "wait" /\ mpc' = "stopTrader" /\ idle' = ~term /\ UNCHANGED <<hup, rpc>>
    BY <1>5 DEF WaitPasses, signals
  <2>4. MainOK'
    BY <1>1, <1>2, <2>3 DEF IInv, MainOK, Past
  <2>5. rpc # "none" /\ Created' = Created
    BY <1>2, <2>3 DEF IInv, MainOK, Created
  <2>6. QuietEnd'
    BY <1>1, <1>2, <2>2, <2>3, <2>5 DEF QuietEnd
  <2>7. idle' \in BOOLEAN
    BY <2>3
  <2> QED BY <1>1, <2>3, <2>4, <2>6, <2>7, ProcessOK
<1>6. CASE TakeHup \/ LeaveReload
  <2>1. /\ rpc = "select" /\ rpc' \in {"read", "left"} /\ UNCHANGED <<mpc, idle>>
        /\ hup' \in BOOLEAN
    BY <1>1, <1>6 DEF TakeHup, LeaveReload, signals
  <2>2. MainOK' /\ QuietEnd'
    BY <1>1, <1>2, <2>1 DEF IInv, MainOK, QuietEnd, Past, Created
  <2> QED BY <1>1, <2>1, <2>2, ProcessOK
<1> QED BY <1>3, <1>4, <1>5, <1>6

-----------------------------------------------------------------------------
(* The update of the traders. *)

\* It begins with everything to do, ends with nothing, or finds no trader in the
\* file: what the traders work with stays.
LEMMA RoundOK == IInv /\ (LoadFirst \/ ReadFile \/ ReadNoTraders \/ EndUpdate) => IInv'
<1> SUFFICES ASSUME IInv, LoadFirst \/ ReadFile \/ ReadNoTraders \/ EndUpdate PROVE IInv'
  OBVIOUS
<1>1. /\ UNCHANGED <<file, term, hup, panic, idle, traders, failures, services, threads, closed>>
      /\ UNCHANGED <<created, trader, strategy, cfg, stopped, tpc, wg, opc>>
      /\ owed' \in Versions
  BY BotType DEF IInv, TypeOK, LoadFirst, ReadFile, ReadNoTraders, EndUpdate, signals, services,
     threads, Log, Settle
<1>2. upd.mid = 0 /\ upd'.mid = 0
  <2>1. CASE LoadFirst \/ ReadFile \/ ReadNoTraders
    <3>1. upd.by = "none"
      BY <2>1, BotType DEF IInv, MainOK, LoadFirst, ReadFile, ReadNoTraders
    <3> QED BY <2>1, <3>1 DEF IInv, UpdateOK, LoadFirst, ReadFile, ReadNoTraders, Begin, NoUpdate
  <2>2. CASE EndUpdate
    <3>1. upd.mid = 0
      BY <2>2 DEF EndUpdate, IInv, UpdateOK
    <3> QED BY <2>2, <3>1 DEF EndUpdate, IInv, TypeOK
  <2> QED BY <2>1, <2>2
<1>3. /\ upd' \in [by : {"none", "main", "reload"}, version : Versions, ids : SUBSET Ids,
                   todo : SUBSET Ids, failed : SUBSET Ids, mid : Services \cup {0}]
      /\ upd'.todo \subseteq upd'.ids
  <2>1. CASE LoadFirst \/ ReadFile
    BY <2>1, BotType DEF IInv, LoadFirst, ReadFile, Begin
  <2>2. CASE ReadNoTraders
    BY <2>2, BotType DEF IInv, ReadNoTraders, NoUpdate
  <2>3. CASE EndUpdate
    BY <2>3, BotType DEF IInv, TypeOK, UpdateOK, EndUpdate
  <2> QED BY <2>1, <2>2, <2>3
<1>4. /\ Created' = Created /\ Active' = Active
      /\ \A s : Running(s)' = Running(s) /\ Done(s)' = Done(s)
  BY <1>1 DEF Created, Active, Running, Done
<1>5. MainOK'
  <2>1. UNCHANGED <<created, panic, closed>>
    BY <1>1
  <2>2. CASE LoadFirst
    BY <2>1, <2>2 DEF IInv, MainOK, Past, LoadFirst, Begin
  <2>3. CASE ReadFile
    BY <2>1, <2>3 DEF IInv, MainOK, Past, ReadFile, Begin
  <2>4. CASE ReadNoTraders
    BY <2>1, <2>4, BotType DEF IInv, MainOK, Past, ReadNoTraders, NoUpdate
  <2>5. CASE EndUpdate
    <3>1. upd'.by = "none"
      BY <2>5 DEF EndUpdate, IInv, TypeOK
    <3> QED BY <2>1, <2>5, <3>1, BotType DEF IInv, MainOK, Past, EndUpdate
  <2> QED BY <2>2, <2>3, <2>4, <2>5
<1>6. QuietEnd'
  <2>1. UNCHANGED <<created, tpc, idle, term>>
    BY <1>1
  <2> QED BY <2>1, <1>4 DEF IInv, TypeOK, MainOK, QuietEnd, Past, LoadFirst, ReadFile, ReadNoTraders,
          EndUpdate, Begin, NoUpdate
<1>7. TypeOK'
  <2>1. wg' = Cardinality({s \in 1 .. created : Running(s)})'
    BY <1>1, <1>4, ActiveFinite DEF IInv, Active, Created
  <2>2. /\ mpc' \in {"load", "update", "started", "wait",
                     "stopTrader", "stopManager", "stopInvest", "exited"}
        /\ rpc' \in {"none", "select", "read", "update", "left"}
    BY DEF IInv, TypeOK, LoadFirst, ReadFile, ReadNoTraders, EndUpdate
  <2> QED BY <1>1, <1>3, <2>1, <2>2 DEF IInv, TypeOK
<1>8. MapOK' /\ NoStrayTraders'
  BY <1>1, <1>2, <1>4 DEF IInv, MapOK, NoStrayTraders, NoTrader
<1>9. UpdateOK'
  <2>1. CASE LoadFirst \/ ReadFile
    BY <1>2, <1>3, <2>1 DEF UpdateOK, LoadFirst, ReadFile, Begin
  <2>2. CASE ReadNoTraders
    BY <1>2, <1>3, <2>2 DEF UpdateOK, ReadNoTraders, NoUpdate
  <2>3. CASE EndUpdate
    <3>1. upd'.by = "none"
      BY <2>3 DEF EndUpdate, IInv, TypeOK
    <3> QED BY <1>2, <1>3, <3>1 DEF UpdateOK
  <2> QED BY <2>1, <2>2, <2>3
<1>10. ReloadsTakeEffect'
  <2>1. CASE LoadFirst \/ ReadFile
    BY <2>1 DEF ReloadsTakeEffect, LoadFirst, ReadFile, Begin
  <2>2. CASE ReadNoTraders
    BY <2>2 DEF ReloadsTakeEffect, ReadNoTraders, NoUpdate
  <2>3. CASE EndUpdate
    BY <1>1, <2>3 DEF ReloadsTakeEffect, EndUpdate, IInv, TypeOK, UpdateOK, InStep, Missing
  <2> QED BY <2>1, <2>2, <2>3
<1> QED BY <1>5, <1>6, <1>7, <1>8, <1>9, <1>10 DEF IInv


\* The steps of an update that leave the manager with the traders it has and
\* each of them running or not.
LEMMA KnownTradersOK ==
    ASSUME IInv, UNCHANGED <<signals, process, traders, created, trader, stopped, threads, closed>>,
           upd.by # "none", failures' \in 0 .. MaxFailures,
           NEW todo \in SUBSET Ids, NEW failed \in SUBSET Ids, NEW mid \in Services \cup {0},
           upd' = [by |-> upd.by, version |-> upd.version, ids |-> upd.ids,
                   todo |-> todo, failed |-> failed, mid |-> mid],
           strategy' \in [Created -> Versions], cfg' \in [Created -> Versions],
           \A s \in Created : /\ s = mid => traders[trader[s]] = s
                              /\ s = upd.mid => traders[trader[s]] = s,
           UpdateOK'
    PROVE  IInv'
<1>1. /\ UNCHANGED <<file, term, hup, owed, mpc, rpc, panic, idle, wg, tpc, opc>>
      /\ Created' = Created /\ (\A s : Running(s)' = Running(s) /\ Done(s)' = Done(s))
      /\ Active' = Active
  BY DEF signals, process, threads, Created, Running, Done, Active
<1>2. /\ upd'.by = upd.by /\ upd'.version = upd.version /\ upd'.ids = upd.ids
      /\ upd'.todo = todo /\ upd'.failed = failed /\ upd'.mid = mid
      /\ upd' \in [by : {"none", "main", "reload"}, version : Versions, ids : SUBSET Ids,
                   todo : SUBSET Ids, failed : SUBSET Ids, mid : Services \cup {0}]
  BY DEF IInv, TypeOK
<1>3. TypeOK'
  <2>1. wg' = Cardinality({s \in 1 .. created : Running(s)})'
    BY <1>1, ActiveFinite DEF IInv, Active, Created
  <2> QED BY <1>1, <1>2, <2>1 DEF IInv, TypeOK, Created
<1>4. MainOK'
  BY <1>1, <1>2 DEF IInv, MainOK, Past
<1>5. QuietEnd'
  BY <1>1 DEF IInv, QuietEnd, Past
<1>6. MapOK'
  <2>1. \A i \in Ids : traders'[i] # NoTrader => traders'[i] \in Created' /\ trader'[traders'[i]] = i
    BY <1>1 DEF IInv, MapOK
  <2>2. \A s \in Created : (s = mid => traders[trader[s]] # NoTrader)
                        /\ (s = upd.mid => traders[trader[s]] # NoTrader)
    BY BotType DEF IInv
  <2>3. \A s \in Created' : tpc'[s] = "none" <=> s = upd'.mid /\ traders'[trader'[s]] = NoTrader
    BY <1>1, <1>2, <2>2 DEF IInv, MapOK
  <2>4. \A s \in Created' : tpc'[s] \in {"leave", "done"} => Done(s)'
    BY <1>1 DEF IInv, MapOK
  <2> QED BY <2>1, <2>3, <2>4 DEF MapOK
<1>7. NoStrayTraders'
  <2>1. \A s \in Created : ~stopped[s] <=> traders[trader[s]] = s
    BY DEF IInv, NoStrayTraders, Created
  <2>2. \A s \in Created : traders[trader[s]] = s => Running(s) \/ Done(s)
    BY DEF IInv, NoStrayTraders, Created
  <2> QED BY <1>1, <1>2, <2>1, <2>2 DEF NoStrayTraders, Created
<1>8. ReloadsTakeEffect'
  BY <1>2 DEF ReloadsTakeEffect
<1> QED BY <1>3, <1>4, <1>5, <1>6, <1>7, <1>8 DEF IInv

LEMMA EntryFailsOK ==
    ASSUME NEW i \in Ids, EntryFails(i) \/ UpdateConfigFails(i) \/ NewTraderFails(i)
    PROVE  IInv => IInv'
<1> SUFFICES ASSUME IInv PROVE IInv'
  OBVIOUS
<1>1. /\ failures' \in 0 .. MaxFailures
      /\ upd' = [by |-> upd.by, version |-> upd.version, ids |-> upd.ids,
                 todo |-> upd.todo \ {i}, failed |-> upd.failed \cup {i}, mid |-> 0]
      /\ UNCHANGED <<signals, process, traders, services, threads, closed>>
  <2>1. Fail(i) /\ UNCHANGED <<signals, process, traders, services, threads, closed>>
    BY DEF EntryFails, UpdateConfigFails, NewTraderFails, Log
  <2>2. failures' \in 0 .. MaxFailures
    BY <2>1, BotAssumption DEF Fail, Finish, IInv, TypeOK
  <2>3. upd' = [by |-> upd.by, version |-> upd.version, ids |-> upd.ids,
                todo |-> upd.todo \ {i}, failed |-> upd.failed \cup {i}, mid |-> 0]
    BY <2>1 DEF Fail, Finish, IInv, TypeOK
  <2> QED BY <2>1, <2>2, <2>3
<1>2. upd.mid = 0 \/ traders[i] = upd.mid
  BY DEF EntryFails, UpdateConfigFails, NewTraderFails, Entry
<1>3. upd.by # "none"
  BY BotType DEF EntryFails, UpdateConfigFails, NewTraderFails, Entry, IInv, UpdateOK
<1>4. UNCHANGED <<created, trader, strategy, cfg, stopped>>
  BY <1>1 DEF services
<1>5. \A s \in Created : s # 0 /\ (s = upd.mid => traders[trader[s]] = s)
  BY <1>2, BotType DEF IInv, MapOK
<1>6. UpdateOK'
  <2>1. /\ upd'.by = upd.by /\ upd'.version = upd.version /\ upd'.ids = upd.ids
        /\ upd'.todo = upd.todo \ {i} /\ upd'.failed = upd.failed \cup {i} /\ upd'.mid = 0
    BY <1>1 DEF IInv, TypeOK
  <2>2. \A j \in (upd'.ids \ upd'.todo) \ upd'.failed : j \in (upd.ids \ upd.todo) \ upd.failed
    BY <2>1
  <2>3. \A j : InStep(j)' = InStep(j)
    BY <1>1, <1>4, <2>1 DEF InStep
  <2>4. upd'.todo \subseteq upd'.ids
    BY <2>1 DEF IInv, UpdateOK
  <2> QED BY <1>3, <2>1, <2>2, <2>3, <2>4 DEF IInv, UpdateOK
<1>7. strategy' \in [Created -> Versions] /\ cfg' \in [Created -> Versions]
  BY <1>4 DEF IInv, TypeOK, Created
<1>8. upd.todo \ {i} \in SUBSET Ids /\ upd.failed \cup {i} \in SUBSET Ids
  BY BotType DEF IInv
<1> QED BY <1>1, <1>3, <1>4, <1>5, <1>6, <1>7, <1>8, KnownTradersOK

LEMMA UpdateStrategyOfOK == ASSUME NEW i \in Ids PROVE IInv /\ UpdateStrategyOf(i) => IInv'
<1> SUFFICES ASSUME IInv, UpdateStrategyOf(i), NEW to, to = traders[i] PROVE IInv'
  OBVIOUS
<1>1. /\ to \in Created /\ trader[to] = i /\ to # 0
      /\ i \in upd.todo /\ upd.mid = 0 /\ upd.by # "none"
      /\ UNCHANGED <<signals, process, traders, failures, created, trader, cfg, stopped, threads, closed>>
  BY BotType DEF UpdateStrategyOf, Entry, Log, IInv, MapOK
<1>2. /\ strategy' = [strategy EXCEPT ![to] = upd.version]
      /\ strategy \in [Created -> Versions] /\ cfg' \in [Created -> Versions]
      /\ failures' \in 0 .. MaxFailures
  BY <1>1 DEF UpdateStrategyOf, IInv, TypeOK, Created
<1>3. /\ strategy' \in [Created -> Versions]
      /\ strategy'[to] = upd.version /\ \A s \in Created : s # to => strategy'[s] = strategy[s]
  BY <1>1, <1>2, BotType DEF IInv
<1>4. upd' = [by |-> upd.by, version |-> upd.version, ids |-> upd.ids,
              todo |-> upd.todo, failed |-> upd.failed, mid |-> to]
  BY DEF UpdateStrategyOf, IInv, TypeOK
<1>5. /\ upd'.by = upd.by /\ upd'.version = upd.version /\ upd'.ids = upd.ids
      /\ upd'.todo = upd.todo /\ upd'.failed = upd.failed /\ upd'.mid = to
  BY <1>4 DEF IInv, TypeOK
<1>6. UpdateOK'
  <2>1. \A j \in Ids : InStep(j) => InStep(j)'
    BY <1>1, <1>3, <1>5 DEF InStep, IInv, MapOK
  <2>2. (upd.ids \ upd.todo) \ upd.failed \subseteq Ids /\ Created' = Created
    BY <1>1, BotType DEF IInv, Created
  <2> QED BY <1>1, <1>3, <1>5, <2>1, <2>2, BotType DEF IInv, UpdateOK, NoTrader
<1>7. upd.todo \in SUBSET Ids /\ upd.failed \in SUBSET Ids /\ to \in Services
  BY <1>1, BotType DEF IInv
<1>8. \A s \in Created : (s = to => traders[trader[s]] = s) /\ s # upd.mid
  BY <1>1, BotType DEF IInv, NoTrader
<1> QED BY <1>1, <1>2, <1>3, <1>4, <1>6, <1>7, <1>8, KnownTradersOK


LEMMA UpdateConfigOfOK == ASSUME NEW i \in Ids PROVE IInv /\ UpdateConfigOf(i) => IInv'
<1> SUFFICES ASSUME IInv, UpdateConfigOf(i), NEW to, to = upd.mid PROVE IInv'
  OBVIOUS
<1>1. /\ to \in Created /\ to # 0 /\ trader[to] = i /\ traders[i] = to
      /\ upd.by # "none" /\ strategy[to] = upd.version
      /\ UNCHANGED <<signals, process, traders, failures, created, trader, strategy, stopped, threads,
                     closed>>
  BY BotType DEF UpdateConfigOf, Log, IInv, MapOK, UpdateOK, NoTrader
<1>2. /\ cfg' = [cfg EXCEPT ![to] = upd.version]
      /\ cfg \in [Created -> Versions] /\ strategy' \in [Created -> Versions]
      /\ failures' \in 0 .. MaxFailures
  BY <1>1 DEF UpdateConfigOf, IInv, TypeOK, Created
<1>3. /\ cfg' \in [Created -> Versions]
      /\ cfg'[to] = upd.version /\ \A s \in Created : s # to => cfg'[s] = cfg[s]
  BY <1>1, <1>2, BotType DEF IInv
<1>4. upd' = [by |-> upd.by, version |-> upd.version, ids |-> upd.ids,
              todo |-> upd.todo \ {i}, failed |-> upd.failed, mid |-> 0]
  BY DEF UpdateConfigOf, Finish, IInv, TypeOK
<1>5. UpdateOK'
  <2>1. \A j \in Ids : InStep(j) => InStep(j)'
    BY <1>1, <1>3, <1>4 DEF InStep, IInv, MapOK
  <2>2. InStep(i)'
    BY <1>1, <1>3, <1>4, BotType DEF InStep, IInv
  <2>3. (upd.ids \ upd.todo) \ upd.failed \subseteq Ids
    BY BotType DEF IInv
  <2> QED BY <1>1, <1>4, <2>1, <2>2, <2>3 DEF IInv, UpdateOK
<1>6. upd.todo \ {i} \in SUBSET Ids /\ upd.failed \in SUBSET Ids
  BY BotType DEF IInv
<1>7. \A s \in Created : s # 0 /\ (s = upd.mid => traders[trader[s]] = s)
  BY <1>1, BotType DEF IInv
<1> QED BY <1>1, <1>2, <1>3, <1>4, <1>5, <1>6, <1>7, KnownTradersOK

LEMMA NewTraderServiceOK == ASSUME NEW i \in Ids PROVE IInv /\ NewTraderService(i) => IInv'
<1> SUFFICES ASSUME IInv, NewTraderService(i), NEW new, new = created + 1 PROVE IInv'
  OBVIOUS
<1>1. /\ i \in upd.todo /\ upd.mid = 0 /\ upd.by # "none" /\ traders[i] = NoTrader
      /\ created < MaxServices /\ created' = new
      /\ UNCHANGED <<file, term, hup, owed, mpc, rpc, panic, idle, traders, failures, wg, closed>>
  BY DEF NewTraderService, Entry, signals, process
<1>2. /\ new \in Services /\ new \notin Created /\ Created' = Created \cup {new} /\ new # 0
      /\ new \in Created' /\ created \in Nat
  BY <1>1, BotType, BotAssumption DEF IInv, Created, Services
<1>3. upd' = [by |-> upd.by, version |-> upd.version, ids |-> upd.ids,
              todo |-> upd.todo, failed |-> upd.failed, mid |-> new]
  BY DEF NewTraderService, IInv, TypeOK
<1>4. /\ trader' \in [1 .. new -> Ids] /\ trader'[new] = i /\ \A s \in Created : trader'[s] = trader[s]
      /\ stopped' \in [1 .. new -> BOOLEAN]
      /\ ~stopped'[new] /\ \A s \in Created : stopped'[s] = stopped[s]
      /\ strategy' \in [1 .. new -> Versions]
      /\ strategy'[new] = upd.version /\ \A s \in Created : strategy'[s] = strategy[s]
      /\ cfg' \in [1 .. new -> Versions]
      /\ cfg'[new] = upd.version /\ \A s \in Created : cfg'[s] = cfg[s]
      /\ tpc' \in [1 .. new -> {"none", "receive", "iterate", "panicked", "leave", "done"}]
      /\ tpc'[new] = "none" /\ \A s \in Created : tpc'[s] = tpc[s]
      /\ opc' \in [1 .. new -> {"on", "off"}]
  <2>1. upd.version \in Versions
    BY BotType DEF IInv
  <2>2. /\ trader' = With(trader, i) /\ strategy' = With(strategy, upd.version)
        /\ cfg' = With(cfg, upd.version) /\ stopped' = With(stopped, FALSE)
        /\ tpc' = With(tpc, "none") /\ opc' = With(opc, "on")
    BY DEF NewTraderService, With
  <2> DEFINE Places == {"none", "receive", "iterate", "panicked", "leave", "done"}
  <2>3. /\ created \in Nat /\ trader \in Columns(created, Ids)
        /\ strategy \in Columns(created, Versions) /\ cfg \in Columns(created, Versions)
        /\ stopped \in Columns(created, BOOLEAN) /\ tpc \in Columns(created, Places)
        /\ opc \in Columns(created, {"on", "off"})
    BY <1>2 DEF IInv, TypeOK, Columns
  <2>4. /\ With(trader, i) \in Columns(created + 1, Ids)
        /\ With(trader, i)[created + 1] = i
        /\ \A s \in 1 .. created : With(trader, i)[s] = trader[s]
    BY <2>3, WithFacts
  <2>5. /\ With(strategy, upd.version) \in Columns(created + 1, Versions)
        /\ With(strategy, upd.version)[created + 1] = upd.version
        /\ \A s \in 1 .. created : With(strategy, upd.version)[s] = strategy[s]
    BY <2>1, <2>3, WithFacts
  <2>6. /\ With(cfg, upd.version) \in Columns(created + 1, Versions)
        /\ With(cfg, upd.version)[created + 1] = upd.version
        /\ \A s \in 1 .. created : With(cfg, upd.version)[s] = cfg[s]
    BY <2>1, <2>3, WithFacts
  <2>7. /\ With(stopped, FALSE) \in Columns(created + 1, BOOLEAN)
        /\ With(stopped, FALSE)[created + 1] = FALSE
        /\ \A s \in 1 .. created : With(stopped, FALSE)[s] = stopped[s]
    <3> DEFINE no == FALSE
    <3>1. no \in BOOLEAN
      OBVIOUS
    <3> HIDE DEF no
    <3>2. /\ With(stopped, no) \in Columns(created + 1, BOOLEAN)
          /\ With(stopped, no)[created + 1] = no
          /\ \A s \in 1 .. created : With(stopped, no)[s] = stopped[s]
      BY <2>3, <3>1, WithFacts
    <3> QED BY <3>2 DEF no
  <2>8. /\ With(tpc, "none") \in Columns(created + 1, Places)
        /\ With(tpc, "none")[created + 1] = "none"
        /\ \A s \in 1 .. created : With(tpc, "none")[s] = tpc[s]
    BY <2>3, WithFacts
  <2>9. With(opc, "on") \in Columns(created + 1, {"on", "off"})
    BY <2>3, WithFacts
  <2> QED BY <2>2, <2>4, <2>5, <2>6, <2>7, <2>8, <2>9 DEF Columns, Created
<1> DEFINE Old(s) == /\ trader'[s] = trader[s] /\ stopped'[s] = stopped[s]
                   /\ strategy'[s] = strategy[s] /\ cfg'[s] = cfg[s] /\ tpc'[s] = tpc[s]
<1>5. /\ trader'[new] = i /\ ~stopped'[new] /\ strategy'[new] = upd.version
      /\ cfg'[new] = upd.version /\ tpc'[new] = "none"
      /\ \A s \in Created : Old(s)
  BY <1>4
<1>14. Active' = Active
  BY <1>2, <1>5 DEF Active, Running
<1>6. \A s \in Created : /\ Running(s)' <=> Running(s)
                         /\ Done(s) => Done(s)'
                         /\ traders[trader[s]] # new /\ s # new
  <2>1. \A s \in Created : traders[trader[s]] # new
    BY <1>2, BotType DEF IInv, MapOK, NoTrader
  <2>2. \A s \in Created : Running(s)' <=> Running(s)
    BY <1>5 DEF Running
  <2>3. \A s \in Created : Done(s) => Done(s)'
    BY <1>1, <1>5 DEF Done
  <2> QED BY <1>2, <2>1, <2>2, <2>3
<1>7. TypeOK'
  <2>1. wg' = Cardinality({s \in 1 .. created : Running(s)})'
    BY <1>1, <1>14, ActiveFinite DEF IInv, Active, Created
  <2>2. created' \in 0 .. MaxServices
    BY <1>1, <1>2, BotAssumption
  <2>3. upd' \in [by : {"none", "main", "reload"}, version : Versions, ids : SUBSET Ids,
                  todo : SUBSET Ids, failed : SUBSET Ids, mid : Services \cup {0}]
    BY <1>2, <1>3, BotType DEF IInv
  <2> QED BY <1>1, <1>4, <2>1, <2>2, <2>3 DEF IInv, TypeOK
<1>8. MainOK'
  <2>1. mpc # "load"
    BY <1>1, BotType DEF IInv, MainOK
  <2> QED BY <1>1, <1>3, <2>1 DEF IInv, MainOK, Past
<1>9. QuietEnd'
  <2>1. rpc = "none" => ~Past
    BY <1>1, BotType DEF IInv, MainOK, Past
  <2> QED BY <1>1, <1>2, <1>5, <2>1 DEF IInv, QuietEnd, Past
<1>10. MapOK'
  <2>1. \A k \in Ids : traders'[k] # NoTrader => traders'[k] \in Created' /\ trader'[traders'[k]] = k
    BY <1>1, <1>2, <1>5 DEF IInv, MapOK
  <2>2. \A s \in Created' : tpc'[s] = "none" <=> s = upd'.mid /\ traders'[trader'[s]] = NoTrader
    BY <1>1, <1>2, <1>3, <1>5, BotType DEF IInv, MapOK
  <2>3. \A s \in Created' : tpc'[s] \in {"leave", "done"} => Done(s)'
    BY <1>2, <1>5, <1>6 DEF IInv, MapOK
  <2> QED BY <2>1, <2>2, <2>3 DEF MapOK
<1>11. UpdateOK'
  <2>1. \A j \in Ids : InStep(j) => InStep(j)'
    BY <1>1, <1>2, <1>3, <1>5 DEF InStep, IInv, MapOK
  <2>2. (upd.ids \ upd.todo) \ upd.failed \subseteq Ids
    BY BotType DEF IInv
  <2> QED BY <1>1, <1>2, <1>3, <1>5, <2>1, <2>2 DEF IInv, UpdateOK
<1>12. NoStrayTraders'
  <2>1. \A s \in Created' : ~stopped'[s] <=> traders'[trader'[s]] = s \/ upd'.mid = s
    BY <1>1, <1>2, <1>3, <1>5, <1>6, BotType DEF IInv, NoStrayTraders, Created
  <2>2. \A s \in Created' : traders'[trader'[s]] = s => Running(s)' \/ Done(s)'
    BY <1>1, <1>2, <1>5, <1>6, BotType DEF IInv, NoStrayTraders, Created, NoTrader
  <2> QED BY <2>1, <2>2 DEF NoStrayTraders, Created
<1>13. ReloadsTakeEffect'
  BY <1>1, <1>3 DEF ReloadsTakeEffect
<1> QED BY <1>7, <1>8, <1>9, <1>10, <1>11, <1>12, <1>13 DEF IInv


LEMMA GoNewOneTraderOK == ASSUME NEW i \in Ids PROVE IInv /\ GoNewOneTrader(i) => IInv'
<1> SUFFICES ASSUME IInv, GoNewOneTrader(i), NEW new, new = upd.mid PROVE IInv'
  OBVIOUS
<1>1. /\ new \in Created /\ new # NoTrader /\ trader[new] = i /\ traders[i] = NoTrader
      /\ upd.by # "none" /\ strategy[new] = upd.version /\ cfg[new] = upd.version
      /\ tpc[new] = "none" /\ wg' = wg + 1
      /\ UNCHANGED <<file, term, hup, owed, mpc, rpc, panic, idle, failures, opc, closed>>
      /\ UNCHANGED <<created, trader, strategy, cfg, stopped>>
  BY BotType DEF GoNewOneTrader, IInv, MapOK, UpdateOK, signals, process, services
<1>2. /\ upd' = [by |-> upd.by, version |-> upd.version, ids |-> upd.ids,
                todo |-> upd.todo \ {i}, failed |-> upd.failed, mid |-> 0]
      /\ traders' = [traders EXCEPT ![i] = new]
      /\ tpc' = [tpc EXCEPT ![new] = Top(new)]
  BY DEF GoNewOneTrader, Finish, IInv, TypeOK
<1>3. /\ traders' \in [Ids -> Services \cup {NoTrader}]
      /\ traders'[i] = new /\ \A j \in Ids : j # i => traders'[j] = traders[j]
  BY <1>1, <1>2, BotType DEF IInv, TypeOK
<1>4. /\ tpc' \in [Created -> {"none", "receive", "iterate", "panicked", "leave", "done"}]
      /\ tpc'[new] = IF Done(new) THEN "leave" ELSE "receive"
      /\ \A s \in Created : s # new => tpc'[s] = tpc[s]
  BY <1>1, <1>2 DEF IInv, TypeOK, Top, Created
<1>5. Created' = Created /\ \A s : Done(s)' <=> Done(s)
  BY <1>1 DEF Created, Done
<1>6. new \notin Active /\ Active' = Active \cup {new}
  BY <1>1, <1>4, <1>5 DEF Active, Running
<1>7. TypeOK'
  <2>1. Cardinality(Active') = wg + 1
    BY <1>6, ActiveFinite, FS_AddElement DEF IInv
  <2>2. wg' = Cardinality({s \in 1 .. created : Running(s)})'
    BY <1>1, <2>1 DEF Active, Created
  <2>3. upd' \in [by : {"none", "main", "reload"}, version : Versions, ids : SUBSET Ids,
                  todo : SUBSET Ids, failed : SUBSET Ids, mid : Services \cup {0}]
    BY <1>2, BotType DEF IInv
  <2> QED BY <1>1, <1>3, <1>4, <2>2, <2>3 DEF IInv, TypeOK, Created
<1>8. MainOK'
  BY <1>1, <1>2 DEF IInv, MainOK, Past
<1>9. QuietEnd'
  <2>1. CASE Past /\ ~idle
    <3>1. created # 0
      BY <1>1, BotType DEF IInv, Created
    <3>2. term
      BY <2>1, <3>1 DEF IInv, QuietEnd
    <3>3. tpc'[new] = "leave"
      BY <1>4, <3>2 DEF Done
    <3> QED BY <1>1, <1>4, <1>5, <2>1, <3>3 DEF IInv, QuietEnd, Past
  <2>2. CASE ~(Past /\ ~idle)
    BY <1>1, <2>2 DEF QuietEnd, Past
  <2> QED BY <2>1, <2>2
<1>10. MapOK'
  <2>1. \A k \in Ids : traders'[k] # NoTrader => traders'[k] \in Created' /\ trader'[traders'[k]] = k
    BY <1>1, <1>3, <1>5 DEF IInv, MapOK
  <2>2. \A s \in Created : tpc'[s] # "none" /\ s # 0
    BY <1>1, <1>4, BotType DEF IInv, MapOK
  <2>3. \A s \in Created' : tpc'[s] = "none" <=> s = upd'.mid /\ traders'[trader'[s]] = NoTrader
    BY <1>2, <1>5, <2>2
  <2>4. \A s \in Created' : tpc'[s] \in {"leave", "done"} => Done(s)'
    BY <1>4, <1>5 DEF IInv, MapOK
  <2> QED BY <2>1, <2>3, <2>4 DEF MapOK
<1>11. UpdateOK'
  <2>1. \A j \in Ids : InStep(j) => InStep(j)'
    BY <1>1, <1>2, <1>3 DEF InStep
  <2>2. InStep(i)'
    BY <1>1, <1>2, <1>3 DEF InStep
  <2>3. (upd.ids \ upd.todo) \ upd.failed \subseteq Ids
    BY BotType DEF IInv
  <2> QED BY <1>1, <1>2, <2>1, <2>2, <2>3 DEF IInv, UpdateOK
<1>12. NoStrayTraders'
  <2>1. ASSUME NEW s \in Created
        PROVE  ~stopped'[s] <=> traders'[trader'[s]] = s \/ upd'.mid = s
    <3>1. ~stopped[s] <=> traders[trader[s]] = s \/ upd.mid = s
      BY DEF IInv, NoStrayTraders, Created
    <3>2. s # 0 /\ s # NoTrader /\ trader[s] \in Ids
      BY BotType DEF IInv
    <3> QED BY <1>1, <1>2, <1>3, <3>1, <3>2
  <2>2. ASSUME NEW s \in Created, traders'[trader'[s]] = s PROVE Running(s)' \/ Done(s)'
    <3>1. CASE s = new
      BY <1>4, <3>1 DEF Running
    <3>2. CASE s # new
      <4>1. traders[trader[s]] = s /\ (Running(s)' <=> Running(s))
        BY <1>1, <1>3, <1>4, <2>2, <3>2, BotType DEF IInv, Running
      <4> QED BY <1>5, <4>1 DEF IInv, NoStrayTraders, Created
    <3> QED BY <3>1, <3>2
  <2> QED BY <1>1, <2>1, <2>2 DEF NoStrayTraders, Created
<1>13. ReloadsTakeEffect'
  BY <1>1, <1>2 DEF ReloadsTakeEffect
<1> QED BY <1>7, <1>8, <1>9, <1>10, <1>11, <1>12, <1>13 DEF IInv

LEMMA StopMissingOK == ASSUME NEW i \in Ids PROVE IInv /\ StopMissing(i) => IInv'
<1> SUFFICES ASSUME IInv, StopMissing(i), NEW old, old = traders[i] PROVE IInv'
  OBVIOUS
<1>1. /\ old \in Created /\ old # NoTrader /\ trader[old] = i /\ i \notin upd.ids
      /\ upd.by # "none" /\ upd.mid = 0
      /\ stopped' = [stopped EXCEPT ![old] = TRUE] /\ traders' = [traders EXCEPT ![i] = NoTrader]
      /\ UNCHANGED <<file, term, hup, owed, mpc, rpc, panic, idle, upd, failures, wg, tpc, opc, closed>>
      /\ UNCHANGED <<created, trader, strategy, cfg>>
  BY DEF StopMissing, Missing, Log, IInv, MapOK, UpdateOK, signals, process, threads
<1>2. /\ traders' \in [Ids -> Services \cup {NoTrader}]
      /\ traders'[i] = NoTrader /\ \A j \in Ids : j # i => traders'[j] = traders[j]
      /\ stopped' \in [Created -> BOOLEAN]
      /\ stopped'[old] /\ \A s \in Created : s # old => stopped'[s] = stopped[s]
  BY <1>1 DEF IInv, TypeOK, Created
<1>3. /\ Created' = Created /\ Active' = Active
      /\ \A s \in Created : (Running(s)' <=> Running(s)) /\ (Done(s) => Done(s)')
  BY <1>1, <1>2 DEF Created, Active, Running, Done
<1>4. TypeOK'
  <2>1. wg' = Cardinality({s \in 1 .. created : Running(s)})'
    BY <1>1, <1>3, ActiveFinite DEF IInv, Active, Created
  <2> QED BY <1>1, <1>2, <2>1 DEF IInv, TypeOK, Created
<1>5. MainOK' /\ QuietEnd'
  BY <1>1, <1>3 DEF IInv, MainOK, QuietEnd, Past
<1>6. MapOK'
  <2>1. \A k \in Ids : traders'[k] # NoTrader => traders'[k] \in Created' /\ trader'[traders'[k]] = k
    BY <1>1, <1>2, <1>3 DEF IInv, MapOK
  <2>2. \A s \in Created : tpc[s] # "none" /\ s # 0
    BY <1>1, BotType DEF IInv, MapOK
  <2>3. \A s \in Created' : tpc'[s] = "none" <=> s = upd'.mid /\ traders'[trader'[s]] = NoTrader
    BY <1>1, <1>3, <2>2
  <2>4. \A s \in Created' : tpc'[s] \in {"leave", "done"} => Done(s)'
    BY <1>1, <1>3 DEF IInv, MapOK
  <2> QED BY <2>1, <2>3, <2>4 DEF MapOK
<1>7. UpdateOK'
  <2>1. \A j \in Ids : j # i => (InStep(j) => InStep(j)')
    BY <1>1, <1>2 DEF InStep
  <2>2. (upd.ids \ upd.todo) \ upd.failed \subseteq Ids
    BY BotType DEF IInv
  <2> QED BY <1>1, <2>1, <2>2 DEF IInv, UpdateOK
<1>8. NoStrayTraders'
  <2>1. ASSUME NEW s \in Created
        PROVE  ~stopped'[s] <=> traders'[trader'[s]] = s \/ upd'.mid = s
    <3>1. ~stopped[s] <=> traders[trader[s]] = s \/ upd.mid = s
      BY DEF IInv, NoStrayTraders, Created
    <3>2. s # 0 /\ s # NoTrader /\ trader[s] \in Ids
      BY BotType DEF IInv
    <3> QED BY <1>1, <1>2, <3>1, <3>2
  <2>2. ASSUME NEW s \in Created, traders'[trader'[s]] = s PROVE Running(s)' \/ Done(s)'
    <3>1. traders[trader[s]] = s
      BY <1>1, <1>2, <2>2, BotType DEF IInv
    <3> QED BY <1>3, <3>1 DEF IInv, NoStrayTraders, Created
  <2> QED BY <1>1, <2>1, <2>2 DEF NoStrayTraders, Created
<1>9. ReloadsTakeEffect'
  BY <1>1 DEF ReloadsTakeEffect
<1> QED BY <1>4, <1>5, <1>6, <1>7, <1>8, <1>9 DEF IInv


-----------------------------------------------------------------------------
(* The trading goroutines. *)

\* One that runs on, and begins nothing when its context is done.
LEMMA LoopOK ==
    ASSUME IInv, NEW s \in Created, Running(s), NEW pc \in {"receive", "iterate", "panicked", "leave"},
           tpc' = [tpc EXCEPT ![s] = pc],
           pc = "leave" => Done(s),
           pc \in {"receive", "iterate"} => tpc[s] \in {"receive", "iterate"} \/ ~Done(s),
           UNCHANGED <<signals, process, manager, services, wg, opc, closed>>
    PROVE  IInv'
<1>1. /\ UNCHANGED <<file, term, hup, owed, mpc, rpc, panic, idle, upd, traders, failures>>
      /\ UNCHANGED <<created, trader, strategy, cfg, stopped, wg, opc, closed>>
  BY DEF signals, process, manager, services
<1>2. /\ tpc' \in [Created -> {"none", "receive", "iterate", "panicked", "leave", "done"}]
      /\ tpc'[s] = pc /\ \A k \in Created : k # s => tpc'[k] = tpc[k]
  BY DEF IInv, TypeOK, Created
<1>3. /\ Created' = Created /\ \A k : Done(k)' <=> Done(k)
      /\ \A k \in Created : Running(k)' <=> Running(k)
  BY <1>1, <1>2 DEF Created, Done, Running
<1>4. Active' = Active
  BY <1>3 DEF Active
<1>5. TypeOK'
  <2>1. wg' = Cardinality({k \in 1 .. created : Running(k)})'
    BY <1>1, <1>4, ActiveFinite DEF IInv, Active, Created
  <2> QED BY <1>1, <1>2, <2>1 DEF IInv, TypeOK, Created
<1>6. MainOK'
  BY <1>1 DEF IInv, MainOK, Past
<1>7. QuietEnd'
  <2>1. CASE Past /\ ~idle
    <3>1. created # 0
      BY BotType DEF IInv, Created
    <3>2. Done(s) /\ tpc[s] \notin {"receive", "iterate"}
      BY <2>1, <3>1 DEF IInv, QuietEnd, Done
    <3> QED BY <1>1, <1>2, <1>3, <2>1, <3>2 DEF IInv, QuietEnd, Past
  <2>2. CASE ~(Past /\ ~idle)
    BY <1>1, <2>2 DEF QuietEnd, Past
  <2> QED BY <2>1, <2>2
<1>8. MapOK'
  <2>1. \A i \in Ids : traders'[i] # NoTrader => traders'[i] \in Created' /\ trader'[traders'[i]] = i
    BY <1>1, <1>3 DEF IInv, MapOK
  <2>2. \A k \in Created : tpc'[k] = "none" <=> tpc[k] = "none"
    BY <1>2 DEF Running
  <2>3. \A k \in Created' : tpc'[k] = "none" <=> k = upd'.mid /\ traders'[trader'[k]] = NoTrader
    BY <1>1, <1>3, <2>2 DEF IInv, MapOK
  <2>4. \A k \in Created' : tpc'[k] \in {"leave", "done"} => Done(k)'
    BY <1>2, <1>3 DEF IInv, MapOK
  <2> QED BY <2>1, <2>3, <2>4 DEF MapOK
<1>9. UpdateOK' /\ ReloadsTakeEffect'
  BY <1>1, <1>3 DEF IInv, UpdateOK, InStep, ReloadsTakeEffect
<1>10. NoStrayTraders'
  BY <1>1, <1>3 DEF IInv, NoStrayTraders, Created
<1> QED BY <1>5, <1>6, <1>7, <1>8, <1>9, <1>10 DEF IInv

LEMMA TradingOK ==
    ASSUME NEW s \in Services,
           TakePrice(s) \/ LeaveReceive(s) \/ EndIteration(s) \/ TradingPanics(s) \/ Resume(s)
    PROVE  IInv => IInv'
<1> SUFFICES ASSUME IInv PROVE IInv'
  OBVIOUS
<1>1. /\ s \in Created /\ tpc[s] \notin {"none", "done"}
      /\ UNCHANGED <<signals, process, manager, services, wg, opc, closed>>
  BY DEF TakePrice, LeaveReceive, EndIteration, TradingPanics, Resume, At, Log, LogPanics,
     Created, Services
<1>2. Running(s)
  BY <1>1 DEF Running
<1>3. PICK pc \in {"receive", "iterate", "panicked", "leave"} :
          /\ tpc' = [tpc EXCEPT ![s] = pc]
          /\ pc = "leave" => Done(s)
          /\ pc \in {"receive", "iterate"} => tpc[s] \in {"receive", "iterate"} \/ ~Done(s)
  BY DEF TakePrice, LeaveReceive, EndIteration, TradingPanics, Resume, At, GoTo, Top
<1> QED BY <1>1, <1>2, <1>3, LoopOK

LEMMA EndTradingOK == ASSUME NEW s \in Services PROVE IInv /\ EndTrading(s) => IInv'
<1> SUFFICES ASSUME IInv, EndTrading(s) PROVE IInv'
  OBVIOUS
<1>1. /\ s \in Created /\ tpc[s] = "leave" /\ wg' = wg - 1 /\ tpc' = [tpc EXCEPT ![s] = "done"]
      /\ UNCHANGED <<file, term, hup, owed, rpc, panic, upd, traders, failures>>
      /\ UNCHANGED <<created, trader, strategy, cfg, stopped, opc, closed>>
      /\ IF wg = 1 /\ mpc = "wait" THEN mpc' = "stopTrader" /\ idle' = ~term
                                   ELSE UNCHANGED <<mpc, idle>>
  BY DEF EndTrading, At, GoTo, Log, Created, Services, signals, manager, services
<1>2. /\ tpc' \in [Created -> {"none", "receive", "iterate", "panicked", "leave", "done"}]
      /\ tpc'[s] = "done" /\ \A k \in Created : k # s => tpc'[k] = tpc[k]
  BY <1>1 DEF IInv, TypeOK, Created
<1>3. Created' = Created /\ \A k : Done(k)' <=> Done(k)
  BY <1>1 DEF Created, Done
<1>4. s \in Active /\ Active' = Active \ {s} /\ Done(s)
  BY <1>1, <1>2, <1>3 DEF Active, Running, IInv, MapOK
<1>5. wg' = Cardinality(Active') /\ (wg = 1 => Active' = {})
  <2>1. Cardinality(Active') = wg - 1 /\ IsFiniteSet(Active')
    BY <1>4, ActiveFinite, FS_RemoveElement DEF IInv
  <2> QED BY <1>1, <2>1, ActiveFinite, FS_EmptySet DEF IInv
<1>6. /\ idle' \in BOOLEAN
      /\ mpc' \in {"load", "update", "started", "wait",
                   "stopTrader", "stopManager", "stopInvest", "exited"}
  BY <1>1 DEF IInv, TypeOK
<1>7. TypeOK'
  <2>1. wg' = Cardinality({k \in 1 .. created : Running(k)})'
    BY <1>5 DEF Active, Created
  <2> QED BY <1>1, <1>2, <1>6, <2>1 DEF IInv, TypeOK, Created
<1>8. MainOK'
  BY <1>1 DEF IInv, MainOK, Past
<1>9. QuietEnd'
  <2>1. CASE wg = 1 /\ mpc = "wait"
    <3>1. \A k \in Created : tpc'[k] \notin {"receive", "iterate"}
      BY <1>3, <1>5, <2>1 DEF Active, Running
    <3>2. rpc # "none" /\ rpc' = rpc /\ idle' = ~term /\ term' = term
      BY <1>1, <2>1 DEF IInv, MainOK
    <3> QED BY <1>3, <3>1, <3>2 DEF QuietEnd
  <2>2. CASE ~(wg = 1 /\ mpc = "wait")
    BY <1>1, <1>2, <1>3, <2>2 DEF IInv, QuietEnd, Past
  <2> QED BY <2>1, <2>2
<1>10. MapOK'
  <2>1. \A i \in Ids : traders'[i] # NoTrader => traders'[i] \in Created' /\ trader'[traders'[i]] = i
    BY <1>1, <1>3 DEF IInv, MapOK
  <2>2. \A k \in Created : tpc'[k] = "none" <=> tpc[k] = "none"
    BY <1>1, <1>2
  <2>3. \A k \in Created' : tpc'[k] = "none" <=> k = upd'.mid /\ traders'[trader'[k]] = NoTrader
    BY <1>1, <1>3, <2>2 DEF IInv, MapOK
  <2>4. \A k \in Created' : tpc'[k] \in {"leave", "done"} => Done(k)'
    BY <1>2, <1>3, <1>4 DEF IInv, MapOK
  <2> QED BY <2>1, <2>3, <2>4 DEF MapOK
<1>11. UpdateOK' /\ ReloadsTakeEffect'
  BY <1>1, <1>3 DEF IInv, UpdateOK, InStep, ReloadsTakeEffect
<1>12. NoStrayTraders'
  <2>1. \A k \in Created : Running(k) \/ Done(k) => Running(k)' \/ Done(k)'
    BY <1>2, <1>3, <1>4 DEF Running
  <2> QED BY <1>1, <2>1 DEF IInv, NoStrayTraders, Created
<1> QED BY <1>7, <1>8, <1>9, <1>10, <1>11, <1>12 DEF IInv

-----------------------------------------------------------------------------
LEMMA NextOK == IInv /\ [BotNext]_vars => IInv'
<1> SUFFICES ASSUME IInv, [BotNext]_vars PROVE IInv'
  OBVIOUS
<1>1. CASE UNCHANGED vars \/ Edit \/ SigHup \/ SigTerm \/ Ended
  BY <1>1, OutsideOK DEF Ended
<1>2. CASE Main
  BY <1>2, MainStepsOK, RoundOK, StopLoggersOK DEF Main
<1>3. CASE Reload
  BY <1>3, MainStepsOK, RoundOK, OutsideOK, LogPanicsOK DEF Reload
<1>4. CASE Update
  BY <1>4, EntryFailsOK, UpdateStrategyOfOK, UpdateConfigOfOK, NewTraderServiceOK,
     GoNewOneTraderOK, StopMissingOK, RoundOK DEF Update
<1>5. CASE \E s \in Services : TradingLoop(s) \/ TakePrice(s)
  BY <1>5, TradingOK, EndTradingOK, LogPanicsOK DEF TradingLoop
<1>6. CASE \E s \in Services : OrdersLoop(s)
  BY <1>6, EndOrdersOK, LogPanicsOK DEF OrdersLoop
<1> QED BY <1>1, <1>2, <1>3, <1>4, <1>5, <1>6 DEF BotNext

\* The inductive invariant of the process: main, the reload goroutine, the update of the
\* traders and their goroutines (trading_bot.go, trader_manager.go, trader.go).
THEOREM BotInvariance == BotSpec => []IInv
BY InitOK, NextOK, PTL DEF BotSpec

\* Types, and that the wait group counts the trading goroutines that run.
THEOREM BotTypeCorrect == BotSpec => []TypeOK
<1>1. IInv => TypeOK
  BY DEF IInv
<1> QED BY <1>1, BotInvariance, PTL

\* The manager knows every service whose context is not cancelled, and those it
\* knows run until the process is to end, whatever panics and fails.
THEOREM NoTraderIsLost == BotSpec => []NoStrayTraders
<1>1. IInv => NoStrayTraders
  BY DEF IInv
<1> QED BY <1>1, BotInvariance, PTL

\* After an update the traders are those of the file and work with its parameters, but
\* for the entries that failed.
THEOREM FileIsInForce == BotSpec => []ReloadsTakeEffect
<1>1. IInv => ReloadsTakeEffect
  BY DEF IInv
<1> QED BY <1>1, BotInvariance, PTL

\* Nobody is in an iteration when the process exits, or a message to a stopped logger
\* ends it, unless main had nobody to wait for before the end was asked for.
THEOREM NoExitInAnIteration == BotSpec => []EndIsOrderly
<1>1. IInv => EndIsOrderly
  BY DEF IInv, MainOK, QuietEnd, Past, EndIsOrderly, Created
<1> QED BY <1>1, BotInvariance, PTL
=============================================================================
