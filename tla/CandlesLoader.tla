--------------------------- MODULE CandlesLoader ---------------------------
(***************************************************************************)
(* cmd/candles_loader: one goroutine per configured instrument, at most    *)
(* two at a time, asks the broker for the history two months by two months *)
(* and stores it; the tables instruments and candles outlive the process.  *)
(* Any error is a panic that nobody recovers and ends the process with all *)
(* its goroutines; the user may run it again.  Meanwhile time goes by: a   *)
(* candle is still open when a later answer would show it complete.        *)
(*                                                                         *)
(* Time is counted in candles, and one length of candles stands for all    *)
(* intervals: a series is an instrument with an interval.                  *)
(***************************************************************************)
EXTENDS Integers, Sequences, FiniteSets

CONSTANTS Config,      \* HISTORY_CANDLES_LOADER, a sequence of jobs
          FirstCandle, \* FirstCandleDate of an instrument
          TwoMonthsOn, \* of a moment t: t.AddDate(0, 2, 0)
          Workers,     \* the capacity of the pool; 2 in the code
          Faults,      \* "config", "broker", "db"
          LastCandle,  \* bound: of time
          MaxRuns      \* bound: of the process

Uids   == DOMAIN FirstCandle
Series == {[uid |-> Config[j].uid, interval |-> Config[j].interval] : j \in DOMAIN Config}
Times  == 0 .. LastCandle

\* "now" and a number of months ago count from now, a date stands for itself.
\* Bound: a date that will not be reached is as good as the first such one.
Dates == [kind : {"ago"}, candles : Nat] \cup [kind : {"date"}, time : 0 .. LastCandle + 1]

ASSUME LoaderAssumption ==
    /\ Workers \in Nat \ {0} /\ LastCandle \in Nat /\ MaxRuns \in Nat
    /\ FirstCandle \in [Uids -> Nat]
    /\ \A c \in Times : TwoMonthsOn[c] \in Nat /\ TwoMonthsOn[c] > c
    /\ Config \in Seq([uid : Uids, interval : STRING, from : Dates, to : Dates])
    /\ Faults \subseteq {"config", "broker", "db"}

VARIABLES
    now,          \* the candle that is open
    instruments,  \* the table: the uids in it
    candles,      \* the table: of a series and a time "none", "open" or "complete"
    runs,         \* ghost: runs of the process so far
    mpc,          \* main: "off", "loop", "wait", "ended", "panicked"
    term,         \* SIGINT or SIGTERM came: the context is done
    next,         \* the entry of Config that main comes to next
    pool,         \* tokens in the channel
    wg,
    jpc,          \* where the goroutine of an entry is
    range,        \* its from and to, and when it took them
    t,            \* its loop variable
    answer        \* what the broker answered: [times -> "open" or "complete"]

tables == <<instruments, candles>>
outer  == <<now, runs, term>>
main   == <<mpc, next, pool, wg>>
jobs   == <<jpc, range, t, answer>>
vars   == <<tables, outer, main, jobs>>

Jobs == DOMAIN Config
SeriesOf(j) == [uid |-> Config[j].uid, interval |-> Config[j].interval]
Running == mpc \in {"loop", "wait"}

NoRange  == [from |-> 0, to |-> 0, at |-> 0]
NoAnswer == [c \in {} |-> "open"]

NewProcess ==
    /\ next' = 1 /\ pool' = 0 /\ wg' = 0
    /\ jpc' = [j \in Jobs |-> "none"]
    /\ range' = [j \in Jobs |-> NoRange]
    /\ t' = [j \in Jobs |-> 0]
    /\ answer' = [j \in Jobs |-> NoAnswer]

LoaderInit ==
    /\ now = 0 /\ runs = 0
    /\ instruments = {}
    /\ candles = [s \in Series |-> [c \in Times |-> "none"]]
    /\ mpc = "off" /\ term = FALSE
    /\ next = 1 /\ pool = 0 /\ wg = 0
    /\ jpc = [j \in Jobs |-> "none"]
    /\ range = [j \in Jobs |-> NoRange]
    /\ t = [j \in Jobs |-> 0]
    /\ answer = [j \in Jobs |-> NoAnswer]

-----------------------------------------------------------------------------
(* Outside *)

TimePasses ==
    /\ now < LastCandle
    /\ now' = now + 1
    /\ UNCHANGED <<runs, term, tables, main, jobs>>

SigTerm ==
    /\ Running /\ ~term
    /\ term' = TRUE
    /\ UNCHANGED <<now, runs, tables, main, jobs>>

Run ==
    /\ ~Running /\ runs < MaxRuns
    /\ runs' = runs + 1
    /\ mpc' = "loop" /\ term' = FALSE
    /\ NewProcess
    /\ UNCHANGED <<now, tables>>

-----------------------------------------------------------------------------
(* main *)

\* A mutated form of Spawn: the pool is not asked.
SpawnAtOnce ==
    /\ mpc = "loop" /\ next \in Jobs
    /\ pool' = pool + 1 /\ wg' = wg + 1
    /\ jpc' = [jpc EXCEPT ![next] = "find"]
    /\ next' = next + 1
    /\ UNCHANGED <<mpc, range, t, answer, outer, tables>>

\* The next goroutine, once the pool has room.
Spawn ==
    /\ mpc = "loop" /\ next \in Jobs
    /\ pool < Workers
    /\ pool' = pool + 1 /\ wg' = wg + 1
    /\ jpc' = [jpc EXCEPT ![next] = "find"]
    /\ next' = next + 1
    /\ UNCHANGED <<mpc, range, t, answer, outer, tables>>

AllSpawned ==
    /\ mpc = "loop" /\ next \notin Jobs
    /\ mpc' = "wait"
    /\ UNCHANGED <<next, pool, wg, jobs, outer, tables>>

\* A mutated form of End, without wg.Wait.
EndAtOnce ==
    /\ mpc = "wait"
    /\ mpc' = "ended"
    /\ UNCHANGED <<next, pool, wg, jobs, outer, tables>>

End ==
    /\ mpc = "wait" /\ wg = 0
    /\ mpc' = "ended"
    /\ UNCHANGED <<next, pool, wg, jobs, outer, tables>>

-----------------------------------------------------------------------------
(* The goroutine of entry j *)

At(j, pc) == Running /\ jpc[j] = pc
GoTo(j, pc) == jpc' = [jpc EXCEPT ![j] = pc]

ParseDate(date) == IF date.kind = "ago" THEN now - date.candles ELSE date.time

\* FindInstrument, AddInstrumentInfo and the dates; the history has a beginning.
Prepare(j) ==
    /\ At(j, "find") /\ ~term
    /\ instruments' = instruments \cup {Config[j].uid}
    /\ LET from == ParseDate(Config[j].from)
           first == FirstCandle[Config[j].uid]
           start == IF from < first THEN first ELSE from
       IN  /\ range' = [range EXCEPT ![j] = [from |-> start, to |-> ParseDate(Config[j].to), at |-> now]]
           /\ t' = [t EXCEPT ![j] = start]
    /\ GoTo(j, "ask")
    /\ UNCHANGED <<answer, candles, main, outer>>

\* A mutated form of History: the window is open at its beginning.
HistoryAfter(from, to) ==
    [c \in {c \in Times : from < c /\ c < to /\ c <= now} |->
        IF c = now THEN "open" ELSE "complete"]

\* What the broker has from one moment to another.
History(from, to) ==
    [c \in {c \in Times : from <= c /\ c < to /\ c <= now} |->
        IF c = now THEN "open" ELSE "complete"]

GetCandles(j) ==
    /\ At(j, "ask") /\ t[j] < range[j].to /\ ~term
    /\ answer' = [answer EXCEPT ![j] = History(t[j], TwoMonthsOn[t[j]])]
    /\ GoTo(j, "add")
    /\ UNCHANGED <<range, t, tables, main, outer>>

\* A mutated form of Insert, DO UPDATE.
Overwrite(rows, batch) ==
    [c \in Times |-> IF c \in DOMAIN batch THEN batch[c] ELSE rows[c]]

\* One transaction, ON CONFLICT DO NOTHING.
Insert(rows, batch) ==
    [c \in Times |-> IF c \in DOMAIN batch /\ rows[c] = "none" THEN batch[c] ELSE rows[c]]

AddCandles(j) ==
    /\ At(j, "add") /\ ~term
    /\ candles' = [candles EXCEPT ![SeriesOf(j)] = Insert(@, answer[j])]
    /\ answer' = [answer EXCEPT ![j] = NoAnswer]
    /\ t' = [t EXCEPT ![j] = TwoMonthsOn[@]]
    /\ GoTo(j, "ask")
    /\ UNCHANGED <<range, instruments, main, outer>>

\* A mutated form of Finish, without `<-pool`.
FinishKeepingToken(j) ==
    /\ At(j, "ask") /\ t[j] >= range[j].to
    /\ GoTo(j, "done")
    /\ wg' = wg - 1
    /\ UNCHANGED <<mpc, next, pool, range, t, answer, outer, tables>>

\* The loop is over: the token goes back and the wait group is told.
Finish(j) ==
    /\ At(j, "ask") /\ t[j] >= range[j].to
    /\ GoTo(j, "done")
    /\ pool' = pool - 1 /\ wg' = wg - 1
    /\ UNCHANGED <<mpc, next, range, t, answer, outer, tables>>

\* A panic of any goroutine ends the process; a transaction is rolled back.  An
\* instrument is stored by then if the panic is over the dates or the interval.
JobPanics(j) ==
    /\ \/ /\ At(j, "find") /\ (term \/ Faults # {})
          /\ instruments' \in {instruments, instruments \cup {Config[j].uid}}
       \/ /\ At(j, "ask") /\ t[j] < range[j].to /\ (term \/ "broker" \in Faults)
          /\ UNCHANGED instruments
       \/ /\ At(j, "add") /\ (term \/ "db" \in Faults)
          /\ UNCHANGED instruments
    /\ mpc' = "panicked"
    /\ UNCHANGED <<next, pool, wg, jobs, outer, candles>>

Job(j) == Prepare(j) \/ GetCandles(j) \/ AddCandles(j) \/ Finish(j) \/ JobPanics(j)

LoaderNext ==
    \/ TimePasses \/ SigTerm \/ Run
    \/ Spawn \/ AllSpawned \/ End
    \/ \E j \in Jobs : Job(j)

LoaderSpec == LoaderInit /\ [][LoaderNext]_vars

\* The goroutines run on; the user need not run the process again.
LoaderFairSpec ==
    /\ LoaderSpec
    /\ WF_vars(Spawn \/ AllSpawned \/ End)
    /\ \A j \in Jobs : WF_vars(Job(j))

-----------------------------------------------------------------------------
Active == {j \in Jobs : jpc[j] \in {"find", "ask", "add"}}

\* The tokens are those of the goroutines that are not done, within the capacity;
\* candles are of known instruments only.
TypeOK ==
    /\ now \in Times /\ runs \in 0 .. MaxRuns /\ term \in BOOLEAN
    /\ mpc \in {"off", "loop", "wait", "ended", "panicked"}
    /\ instruments \subseteq Uids
    /\ candles \in [Series -> [Times -> {"none", "open", "complete"}]]
    /\ \A s \in Series, c \in Times : candles[s][c] # "none" => s.uid \in instruments /\ c <= now
    /\ next \in 1 .. Len(Config) + 1
    /\ jpc \in [Jobs -> {"none", "find", "ask", "add", "done"}]
    /\ range \in [Jobs -> [from : Nat, to : Int, at : Times]]
    /\ t \in [Jobs -> Nat]
    /\ DOMAIN answer = Jobs
    /\ \A j \in Jobs : /\ DOMAIN answer[j] \subseteq 0 .. now
                      /\ \A c \in DOMAIN answer[j] : answer[j][c] \in {"open", "complete"}
    /\ pool \in 0 .. Workers /\ pool = Cardinality(Active) /\ wg = pool

Loaded(j, to) ==
    \A c \in Times : range[j].from <= c /\ c < to /\ c <= range[j].at =>
                        candles[SeriesOf(j)][c] # "none"

\* Whatever the lengths of the months do to the steps, whatever other goroutines
\* and earlier runs that broke off have put in, there is no hole in what a
\* goroutine has loaded so far (candles_loader.go:118-134, postgres.go:134-184).
LoadedSoFar == \A j \in Jobs : jpc[j] \in {"ask", "add", "done"} => Loaded(j, t[j])

\* When the process ends without a panic, every entry was loaded in its whole
\* range, as far as there was history when it started (candles_loader.go:62-110).
CleanEndIsWhole ==
    mpc = "ended" => \A j \in Jobs : jpc[j] = "done" /\ Loaded(j, range[j].to)

\* A complete candle is never replaced by the open one that another goroutine, or
\* an earlier run, has asked for before and stores later (postgres.go:175).
CompleteStays ==
    [][\A s \in Series, c \in Times :
          candles[s][c] = "complete" => candles'[s][c] = "complete"]_vars

\* The process comes to an end, with more entries than the pool has room for, with
\* entries whose range is empty, with failures and signals at any moment
\* (candles_loader.go:63-110).
LoadsEnd == Running ~> ~Running
=============================================================================
