------------------------ MODULE CandlesLoaderProofs ------------------------
(***************************************************************************)
(* The promises of the candles loader, for every configuration, every      *)
(* capacity of the pool, every stepping through the calendar that goes     *)
(* forward, and any number of runs.                                        *)
(***************************************************************************)
EXTENDS CandlesLoader, FiniteSetTheorems, SequenceTheorems, TLAPS

\* A goroutine exists for the entries main has come to.
SpawnOK == \A j \in Jobs : jpc[j] = "none" <=> j >= next

\* Main waits when it has come to all entries, and ends when nobody is at work.
MainOK ==
    /\ mpc \in {"wait", "ended"} => next = Len(Config) + 1
    /\ mpc = "ended" => Active = {}

RangeOK == \A j \in Jobs : range[j].at <= now /\ range[j].to <= LastCandle + 1

\* What a goroutine has behind it: its instrument is in the table, and at the end
\* its range is done.
StoredOK ==
    \A j \in Jobs :
        /\ jpc[j] \in {"ask", "add", "done"} => Config[j].uid \in instruments
        /\ jpc[j] = "done" => t[j] >= range[j].to

\* An answer has every candle of its window there was when the goroutine began.
AnswerOK ==
    \A j \in Jobs : jpc[j] = "add" =>
        /\ t[j] \in Times
        /\ \A c \in Times :
              t[j] <= c /\ c < TwoMonthsOn[t[j]] /\ c <= range[j].at => c \in DOMAIN answer[j]

IInv == TypeOK /\ SpawnOK /\ MainOK /\ RangeOK /\ StoredOK /\ AnswerOK /\ LoadedSoFar

-----------------------------------------------------------------------------
\* The constants but the configuration.
LEMMA ConstantsType ==
    /\ Workers \in Nat \ {0} /\ LastCandle \in Nat /\ MaxRuns \in Nat
    /\ FirstCandle \in [Uids -> Nat]
    /\ \A c \in Times : TwoMonthsOn[c] \in Nat
BY LoaderAssumption DEF LoaderAssumption

USE ConstantsType

\* The entries of the configuration (config.go:26-32).
LEMMA ConfigType ==
    /\ Jobs = 1 .. Len(Config) /\ Len(Config) \in Nat
    /\ \A j \in Jobs : Config[j] \in [uid : Uids, interval : STRING, from : Dates, to : Dates]
    /\ \A j \in Jobs : SeriesOf(j) \in Series /\ SeriesOf(j).uid = Config[j].uid
<1> DEFINE Entries == [uid : Uids, interval : STRING, from : Dates, to : Dates]
<1>1. Config \in Seq(Entries)
  BY LoaderAssumption DEF LoaderAssumption
<1> HIDE DEF Entries
<1>2. /\ Jobs = 1 .. Len(Config) /\ Len(Config) \in Nat
      /\ \A j \in Jobs : Config[j] \in Entries
  BY <1>1, LenProperties DEF Jobs
<1>3. \A j \in Jobs : SeriesOf(j) \in Series /\ SeriesOf(j).uid = Config[j].uid
  BY DEF Jobs, SeriesOf, Series
<1> QED BY <1>2, <1>3 DEF Entries

\* ParseDate never leads past the end of time (supports.go:23-41).
LEMMA ParseDateType ==
    ASSUME now \in Times, NEW date \in Dates
    PROVE  ParseDate(date) \in Int /\ ParseDate(date) <= LastCandle + 1
<1>1. CASE date \in [kind : {"ago"}, candles : Nat]
  BY <1>1 DEF ParseDate, Times
<1>2. CASE date \in [kind : {"date"}, time : 0 .. LastCandle + 1]
  BY <1>2 DEF ParseDate, Times
<1> QED BY <1>1, <1>2 DEF Dates

\* The set of goroutines at work is finite, so that its members can be counted.
LEMMA ActiveFinite == IsFiniteSet(Active)
<1>1. IsFiniteSet(1 .. Len(Config))
  BY ConfigType, FS_Interval
<1> QED BY <1>1, ConfigType, FS_Subset DEF Active

\* A goroutine that goes from one stage of its work to another keeps its token.
LEMMA StillActive ==
    ASSUME TypeOK, NEW j \in Active, NEW pc \in {"find", "ask", "add"},
           jpc' = [jpc EXCEPT ![j] = pc]
    PROVE  Active' = Active
BY DEF Active, TypeOK, Jobs

\* What is stored stays stored, so that what was loaded stays loaded.
LEMMA LoadedStays ==
    ASSUME NEW j \in Jobs, NEW to, Loaded(j, to), range'[j] = range[j],
           \A c \in Times : candles[SeriesOf(j)][c] # "none" => candles'[SeriesOf(j)][c] # "none"
    PROVE  Loaded(j, to)'
BY DEF Loaded, SeriesOf

-----------------------------------------------------------------------------
\* The invariant holds when nothing has been started yet.
LEMMA InitOK == LoaderInit => IInv
<1> SUFFICES ASSUME LoaderInit PROVE IInv
  OBVIOUS
<1>1. Active = {} /\ Cardinality(Active) = 0
  BY FS_EmptySet DEF LoaderInit, Active
<1>2. /\ DOMAIN answer = Jobs
      /\ \A j \in Jobs : /\ DOMAIN answer[j] \subseteq 0 .. now
                        /\ \A c \in DOMAIN answer[j] : answer[j][c] \in {"open", "complete"}
  BY DEF LoaderInit, NoAnswer
<1>3. candles \in [Series -> [Times -> {"none", "open", "complete"}]]
  BY DEF LoaderInit
<1>4. \A s \in Series, c \in Times : candles[s][c] # "none" => s.uid \in instruments /\ c <= now
  BY DEF LoaderInit
<1>5. /\ jpc \in [Jobs -> {"none", "find", "ask", "add", "done"}]
      /\ range \in [Jobs -> [from : Nat, to : Int, at : Times]]
      /\ t \in [Jobs -> Nat]
  BY DEF LoaderInit, NoRange, Times
<1>6. next \in 1 .. Len(Config) + 1
  BY ConfigType DEF LoaderInit
<1>7. TypeOK
  <2>1. pool \in 0 .. Workers /\ pool = Cardinality(Active) /\ wg = pool
    BY <1>1 DEF LoaderInit
  <2>2. now \in Times /\ runs \in 0 .. MaxRuns
    BY DEF LoaderInit, Times
  <2>3. /\ mpc \in {"off", "loop", "wait", "ended", "panicked"}
        /\ instruments \subseteq Uids /\ term \in BOOLEAN
    BY DEF LoaderInit
  <2> QED
    BY <2>1, <2>2, <2>3, <1>2, <1>3, <1>4, <1>5, <1>6 DEF TypeOK
<1> QED
  BY <1>1, <1>7, ConfigType DEF LoaderInit, IInv, SpawnOK, MainOK, RangeOK, StoredOK,
     AnswerOK, LoadedSoFar, NoRange, Times

LEMMA StutterOK == IInv /\ UNCHANGED vars => IInv'
<1> SUFFICES ASSUME IInv, UNCHANGED vars PROVE IInv'
  OBVIOUS
<1>1. Active' = Active
  BY DEF vars, jobs, Active
<1> QED
  BY <1>1 DEF IInv, TypeOK, SpawnOK, MainOK, RangeOK, StoredOK, AnswerOK, LoadedSoFar,
     Loaded, SeriesOf, vars, tables, outer, main, jobs

LEMMA TimePassesOK == IInv /\ TimePasses => IInv'
<1> SUFFICES ASSUME IInv, TimePasses PROVE IInv'
  OBVIOUS
<1> USE DEF TimePasses, tables, main, jobs
<1>1. Active' = Active
  BY DEF Active
<1>2. TypeOK'
  BY <1>1 DEF IInv, TypeOK, Times
<1> QED
  BY <1>1, <1>2 DEF IInv, TypeOK, SpawnOK, MainOK, RangeOK, StoredOK, AnswerOK, LoadedSoFar,
     Loaded, SeriesOf, Times

LEMMA SigTermOK == IInv /\ SigTerm => IInv'
<1> SUFFICES ASSUME IInv, SigTerm PROVE IInv'
  OBVIOUS
<1> USE DEF SigTerm, tables, main, jobs
<1>1. Active' = Active
  BY DEF Active
<1> QED
  BY <1>1 DEF IInv, TypeOK, SpawnOK, MainOK, RangeOK, StoredOK, AnswerOK, LoadedSoFar,
     Loaded, SeriesOf

LEMMA RunOK == IInv /\ Run => IInv'
<1> SUFFICES ASSUME IInv, Run PROVE IInv'
  OBVIOUS
<1> USE DEF Run, NewProcess, tables
<1>1. Active' = {} /\ Cardinality(Active') = 0
  BY FS_EmptySet DEF Active
<1>2. /\ DOMAIN answer' = Jobs
      /\ \A j \in Jobs : /\ DOMAIN answer'[j] \subseteq 0 .. now'
                        /\ \A c \in DOMAIN answer'[j] : answer'[j][c] \in {"open", "complete"}
  BY DEF NoAnswer
<1>3. /\ jpc' \in [Jobs -> {"none", "find", "ask", "add", "done"}]
      /\ range' \in [Jobs -> [from : Nat, to : Int, at : Times]]
      /\ t' \in [Jobs -> Nat]
  BY DEF NoRange, Times
<1>4. next' \in 1 .. Len(Config) + 1
  BY ConfigType
<1>5. TypeOK'
  <2>1. pool' \in 0 .. Workers /\ pool' = Cardinality(Active') /\ wg' = pool'
    BY <1>1
  <2>2. now' \in Times /\ runs' \in 0 .. MaxRuns
    BY DEF IInv, TypeOK
  <2>3. /\ term' \in BOOLEAN
        /\ mpc' \in {"off", "loop", "wait", "ended", "panicked"}
        /\ instruments' \subseteq Uids
        /\ candles' \in [Series -> [Times -> {"none", "open", "complete"}]]
        /\ \A s \in Series, c \in Times : candles'[s][c] # "none" => s.uid \in instruments' /\ c <= now'
    BY DEF IInv, TypeOK
  <2> QED
    BY <2>1, <2>2, <2>3, <1>2, <1>3, <1>4 DEF TypeOK
<1> QED
  BY <1>1, <1>5, ConfigType DEF IInv, TypeOK, SpawnOK, MainOK, RangeOK, StoredOK,
     AnswerOK, LoadedSoFar, NoRange, Times

-----------------------------------------------------------------------------
(* main *)

LEMMA SpawnKeeps == IInv /\ Spawn => IInv'
<1> SUFFICES ASSUME IInv, Spawn PROVE IInv'
  OBVIOUS
<1> USE DEF Spawn, tables, outer
<1>1. next \in Jobs /\ next \notin Active /\ Active' = Active \cup {next}
  BY DEF Active, IInv, TypeOK, SpawnOK, Jobs
<1>2. Cardinality(Active') = Cardinality(Active) + 1
  BY <1>1, ActiveFinite, FS_AddElement
<1>3. TypeOK'
  BY <1>1, <1>2, ConfigType DEF IInv, TypeOK
<1>4. SpawnOK'
  BY <1>1, ConfigType DEF IInv, TypeOK, SpawnOK
<1>5. MainOK' /\ RangeOK' /\ StoredOK' /\ AnswerOK'
  BY <1>1 DEF IInv, TypeOK, MainOK, RangeOK, StoredOK, AnswerOK
<1>6. LoadedSoFar'
  BY <1>1 DEF IInv, TypeOK, LoadedSoFar, Loaded, SeriesOf
<1> QED BY <1>3, <1>4, <1>5, <1>6 DEF IInv

LEMMA AllSpawnedOK == IInv /\ AllSpawned => IInv'
<1> SUFFICES ASSUME IInv, AllSpawned PROVE IInv'
  OBVIOUS
<1> USE DEF AllSpawned, tables, outer, jobs
<1>1. Active' = Active
  BY DEF Active
<1> QED
  BY <1>1, ConfigType DEF IInv, TypeOK, SpawnOK, MainOK, RangeOK, StoredOK, AnswerOK,
     LoadedSoFar, Loaded, SeriesOf

LEMMA EndOK == IInv /\ End => IInv'
<1> SUFFICES ASSUME IInv, End PROVE IInv'
  OBVIOUS
<1> USE DEF End, tables, outer, jobs
<1>1. Active' = Active
  BY DEF Active
<1>2. Active = {}
  BY ActiveFinite, FS_EmptySet DEF IInv, TypeOK
<1>3. TypeOK' /\ SpawnOK' /\ MainOK'
  BY <1>1, <1>2 DEF IInv, TypeOK, SpawnOK, MainOK
<1>4. RangeOK' /\ StoredOK' /\ AnswerOK' /\ LoadedSoFar'
  BY DEF IInv, RangeOK, StoredOK, AnswerOK, LoadedSoFar, Loaded, SeriesOf
<1> QED BY <1>3, <1>4 DEF IInv

-----------------------------------------------------------------------------
(* The goroutine of an entry *)

LEMMA PrepareOK == ASSUME NEW j \in Jobs PROVE IInv /\ Prepare(j) => IInv'
<1> SUFFICES ASSUME IInv, Prepare(j) PROVE IInv'
  OBVIOUS
<1> USE DEF Prepare, At, GoTo, main, outer
<1> DEFINE from  == ParseDate(Config[j].from)
           first == FirstCandle[Config[j].uid]
           start == IF from < first THEN first ELSE from
           to    == ParseDate(Config[j].to)
<1>0. Config[j].uid \in Uids /\ Config[j].from \in Dates /\ Config[j].to \in Dates
  BY ConfigType
<1>1. start \in Nat
  <2>1. from \in Int /\ first \in Nat
    BY <1>0, ParseDateType DEF IInv, TypeOK
  <2> QED BY <2>1
<1>2. to \in Int /\ to <= LastCandle + 1
  BY <1>0, ParseDateType DEF IInv, TypeOK
<1>3. /\ range' = [range EXCEPT ![j] = [from |-> start, to |-> to, at |-> now]]
      /\ t' = [t EXCEPT ![j] = start]
      /\ jpc' = [jpc EXCEPT ![j] = "ask"]
      /\ instruments' = instruments \cup {Config[j].uid}
      /\ jpc[j] = "find" /\ mpc \in {"loop", "wait"}
      /\ UNCHANGED <<answer, candles, mpc, next, pool, wg, now, runs, term>>
  BY DEF Running
<1> HIDE DEF from, first, start, to, Prepare
<1>4. Active' = Active
  BY <1>3, StillActive DEF Active, IInv
<1>5. TypeOK'
  BY <1>0, <1>1, <1>2, <1>3, <1>4 DEF IInv, TypeOK
<1>6. SpawnOK' /\ MainOK'
  BY <1>3, <1>4 DEF IInv, TypeOK, SpawnOK, MainOK
<1>7. RangeOK'
  BY <1>2, <1>3 DEF IInv, TypeOK, RangeOK, Times
<1>8. StoredOK' /\ AnswerOK'
  BY <1>3 DEF IInv, TypeOK, StoredOK, AnswerOK
<1>9. LoadedSoFar'
  <2> SUFFICES ASSUME NEW k \in Jobs, jpc'[k] \in {"ask", "add", "done"}
               PROVE  Loaded(k, t[k])'
    BY DEF LoadedSoFar, Jobs
  <2>1. CASE k = j
    BY <2>1, <1>1, <1>3 DEF Loaded, IInv, TypeOK, Times
  <2>2. CASE k # j
    BY <2>2, <1>3 DEF Loaded, SeriesOf, IInv, TypeOK, LoadedSoFar
  <2> QED BY <2>1, <2>2
<1> QED BY <1>5, <1>6, <1>7, <1>8, <1>9 DEF IInv

LEMMA GetCandlesOK == ASSUME NEW j \in Jobs PROVE IInv /\ GetCandles(j) => IInv'
<1> SUFFICES ASSUME IInv, GetCandles(j) PROVE IInv'
  OBVIOUS
<1> USE DEF GetCandles, At, GoTo, main, outer, tables
<1> DEFINE new == History(t[j], TwoMonthsOn[t[j]])
<1>1. t[j] \in Times
  BY DEF IInv, TypeOK, RangeOK, Times
<1>2. /\ DOMAIN new = {c \in Times : t[j] <= c /\ c < TwoMonthsOn[t[j]] /\ c <= now}
      /\ \A c \in DOMAIN new : new[c] \in {"open", "complete"}
  BY DEF History
<1>3. /\ answer' = [answer EXCEPT ![j] = new]
      /\ jpc' = [jpc EXCEPT ![j] = "add"]
      /\ jpc[j] = "ask" /\ mpc \in {"loop", "wait"}
      /\ UNCHANGED <<range, t, instruments, candles, mpc, next, pool, wg, now, runs, term>>
  BY DEF Running
<1> HIDE DEF new, GetCandles
<1>4. Active' = Active
  BY <1>3, StillActive DEF Active, IInv
<1>5. TypeOK'
  BY <1>2, <1>3, <1>4 DEF IInv, TypeOK, Times
<1>6. SpawnOK' /\ MainOK' /\ RangeOK' /\ StoredOK'
  BY <1>3, <1>4 DEF IInv, TypeOK, SpawnOK, MainOK, RangeOK, StoredOK
<1>7. AnswerOK'
  <2> SUFFICES ASSUME NEW k \in Jobs, jpc'[k] = "add"
               PROVE  /\ t[k] \in Times
                      /\ \A c \in Times :
                            t[k] <= c /\ c < TwoMonthsOn[t[k]] /\ c <= range[k].at
                                => c \in DOMAIN answer'[k]
    BY <1>3 DEF AnswerOK, Jobs
  <2>1. CASE k = j
    <3>1. answer'[k] = new /\ range[k].at <= now /\ range[k].at \in Times /\ now \in Times
      BY <2>1, <1>3 DEF IInv, TypeOK, RangeOK
    <3> QED BY <2>1, <3>1, <1>1, <1>2 DEF Times
  <2>2. CASE k # j
    BY <2>2, <1>3 DEF IInv, TypeOK, AnswerOK
  <2> QED BY <2>1, <2>2
<1>8. LoadedSoFar'
  BY <1>3 DEF Loaded, SeriesOf, IInv, TypeOK, LoadedSoFar
<1> QED BY <1>5, <1>6, <1>7, <1>8 DEF IInv

\* DO NOTHING: what a row says stays, and no candle of the batch is missing.
LEMMA InsertKeeps ==
    ASSUME NEW rows \in [Times -> {"none", "open", "complete"}], NEW batch,
           \A c \in DOMAIN batch : batch[c] \in {"open", "complete"}
    PROVE  /\ Insert(rows, batch) \in [Times -> {"none", "open", "complete"}]
           /\ \A c \in Times :
                 /\ rows[c] # "none" => Insert(rows, batch)[c] = rows[c]
                 /\ c \in DOMAIN batch => Insert(rows, batch)[c] # "none"
                 /\ c \notin DOMAIN batch => Insert(rows, batch)[c] = rows[c]
BY DEF Insert

LEMMA AddCandlesOK == ASSUME NEW j \in Jobs PROVE IInv /\ AddCandles(j) => IInv'
<1> SUFFICES ASSUME IInv, AddCandles(j) PROVE IInv'
  OBVIOUS
<1> DEFINE s   == SeriesOf(j)
           new == Insert(candles[s], answer[j])
<1>1. /\ candles' = [candles EXCEPT ![s] = new]
      /\ answer' = [answer EXCEPT ![j] = NoAnswer]
      /\ t' = [t EXCEPT ![j] = TwoMonthsOn[t[j]]]
      /\ jpc' = [jpc EXCEPT ![j] = "ask"]
      /\ jpc[j] = "add" /\ mpc \in {"loop", "wait"}
      /\ UNCHANGED <<range, instruments, mpc, next, pool, wg, now, runs, term>>
  BY DEF AddCandles, At, GoTo, main, outer, Running
<1>2. s \in Series /\ s.uid \in instruments /\ t[j] \in Times /\ TwoMonthsOn[t[j]] \in Nat
  BY <1>1, ConfigType DEF IInv, StoredOK, AnswerOK
<1>3. /\ new \in [Times -> {"none", "open", "complete"}]
      /\ \A c \in Times :
            /\ candles[s][c] # "none" => new[c] = candles[s][c]
            /\ c \in DOMAIN answer[j] => new[c] # "none"
            /\ c \notin DOMAIN answer[j] => new[c] = candles[s][c]
  <2>1. candles[s] \in [Times -> {"none", "open", "complete"}]
    BY <1>2 DEF IInv, TypeOK
  <2>2. \A c \in DOMAIN answer[j] : answer[j][c] \in {"open", "complete"}
    BY DEF IInv, TypeOK
  <2> QED BY <2>1, <2>2, InsertKeeps
<1> HIDE DEF s, new
<1>4. Active' = Active
  BY <1>1, StillActive DEF Active, IInv
<1>5. TypeOK'
  <2>1. candles' \in [Series -> [Times -> {"none", "open", "complete"}]]
    BY <1>1, <1>2, <1>3 DEF IInv, TypeOK
  <2>2. \A r \in Series, c \in Times : candles'[r][c] # "none" => r.uid \in instruments' /\ c <= now'
    <3> SUFFICES ASSUME NEW r \in Series, NEW c \in Times, candles'[r][c] # "none"
                 PROVE  r.uid \in instruments /\ c <= now
      BY <1>1
    <3>1. CASE candles[r][c] # "none"
      BY <3>1 DEF IInv, TypeOK
    <3>2. CASE candles[r][c] = "none"
      <4>1. r = s /\ c \in DOMAIN answer[j]
        BY <3>2, <1>1, <1>2, <1>3 DEF IInv, TypeOK
      <4> QED BY <4>1, <1>2 DEF IInv, TypeOK, Times
    <3> QED BY <3>1, <3>2
  <2>3. /\ DOMAIN answer' = Jobs
        /\ \A k \in Jobs : /\ DOMAIN answer'[k] \subseteq 0 .. now
                          /\ \A c \in DOMAIN answer'[k] : answer'[k][c] \in {"open", "complete"}
    BY <1>1 DEF IInv, TypeOK, NoAnswer
  <2>4. jpc' \in [Jobs -> {"none", "find", "ask", "add", "done"}] /\ t' \in [Jobs -> Nat]
    BY <1>1, <1>2 DEF IInv, TypeOK
  <2> QED BY <2>1, <2>2, <2>3, <2>4, <1>1, <1>4 DEF IInv, TypeOK
<1>6. SpawnOK' /\ MainOK' /\ RangeOK' /\ StoredOK' /\ AnswerOK'
  BY <1>1, <1>4 DEF IInv, TypeOK, SpawnOK, MainOK, RangeOK, StoredOK, AnswerOK
<1>7. \A r \in Series, c \in Times : candles[r][c] # "none" => candles'[r][c] # "none"
  BY <1>1, <1>2, <1>3 DEF IInv, TypeOK
<1>8. LoadedSoFar'
  <2> SUFFICES ASSUME NEW k \in Jobs, jpc'[k] \in {"ask", "add", "done"}
               PROVE  Loaded(k, t[k])'
    BY DEF LoadedSoFar, Jobs
  <2>1. Loaded(k, t[k])
    BY <1>1 DEF IInv, TypeOK, LoadedSoFar
  <2>2. Loaded(k, t[k]) => \A c \in Times : range[k].from <= c /\ c < t[k] /\ c <= range[k].at =>
                              candles'[SeriesOf(k)][c] # "none"
    BY <1>7, ConfigType DEF Loaded
  <2>3. CASE k # j
    BY <2>1, <2>2, <2>3, <1>1 DEF Loaded, SeriesOf, IInv, TypeOK
  <2>4. CASE k = j
    <3> SUFFICES ASSUME NEW c \in Times, range[j].from <= c, c < TwoMonthsOn[t[j]], c <= range[j].at
                 PROVE  candles'[s][c] # "none"
      BY <2>4, <1>1 DEF Loaded, SeriesOf, s, IInv, TypeOK
    <3>1. CASE c < t[j]
      BY <3>1, <2>1, <2>2, <2>4 DEF s
    <3>2. CASE t[j] <= c
      <4>1. c \in DOMAIN answer[j]
        BY <3>2, <1>1 DEF IInv, AnswerOK
      <4> QED BY <4>1, <1>1, <1>2, <1>3 DEF IInv, TypeOK
    <3> QED BY <3>1, <3>2, <1>2 DEF Times
  <2> QED BY <2>3, <2>4
<1> QED BY <1>5, <1>6, <1>8 DEF IInv

LEMMA FinishOK == ASSUME NEW j \in Jobs PROVE IInv /\ Finish(j) => IInv'
<1> SUFFICES ASSUME IInv, Finish(j) PROVE IInv'
  OBVIOUS
<1> USE DEF Finish, At, GoTo, outer, tables
<1>1. j \in Active /\ Active' = Active \ {j}
  BY DEF Active, IInv, TypeOK, Jobs
<1>2. Cardinality(Active) \in Nat /\ Cardinality(Active') = Cardinality(Active) - 1
  BY <1>1, ActiveFinite, FS_RemoveElement, FS_CardinalityType
<1>3. Cardinality(Active') \in Nat
  BY <1>1, ActiveFinite, FS_RemoveElement, FS_CardinalityType
<1>4. TypeOK'
  BY <1>2, <1>3 DEF IInv, TypeOK
<1>5. SpawnOK' /\ MainOK' /\ RangeOK' /\ StoredOK' /\ AnswerOK'
  BY DEF IInv, TypeOK, SpawnOK, MainOK, RangeOK, StoredOK, AnswerOK, Running
<1>6. LoadedSoFar'
  BY DEF IInv, TypeOK, LoadedSoFar, Loaded, SeriesOf
<1> QED BY <1>4, <1>5, <1>6 DEF IInv

LEMMA JobPanicsOK == ASSUME NEW j \in Jobs PROVE IInv /\ JobPanics(j) => IInv'
<1> SUFFICES ASSUME IInv, JobPanics(j) PROVE IInv'
  OBVIOUS
<1>1. /\ mpc' = "panicked"
      /\ instruments' \in {instruments, instruments \cup {Config[j].uid}}
      /\ UNCHANGED <<next, pool, wg, jobs, outer, candles>>
  BY DEF JobPanics
<1>2. Config[j].uid \in Uids
  BY ConfigType
<1>3. Active' = Active
  BY <1>1 DEF Active, jobs
<1>4. TypeOK'
  BY <1>1, <1>2, <1>3 DEF IInv, TypeOK, jobs, outer
<1>5. SpawnOK' /\ MainOK' /\ RangeOK' /\ StoredOK' /\ AnswerOK'
  BY <1>1 DEF IInv, SpawnOK, MainOK, RangeOK, StoredOK, AnswerOK, jobs, outer
<1>6. LoadedSoFar'
  BY <1>1 DEF IInv, LoadedSoFar, Loaded, SeriesOf, jobs
<1> QED BY <1>4, <1>5, <1>6 DEF IInv

-----------------------------------------------------------------------------
LEMMA NextOK == IInv /\ [LoaderNext]_vars => IInv'
<1> SUFFICES ASSUME IInv, [LoaderNext]_vars PROVE IInv'
  OBVIOUS
<1>1. CASE UNCHANGED vars
  BY <1>1, StutterOK
<1>2. CASE TimePasses \/ SigTerm \/ Run
  BY <1>2, TimePassesOK, SigTermOK, RunOK
<1>3. CASE Spawn \/ AllSpawned \/ End
  BY <1>3, SpawnKeeps, AllSpawnedOK, EndOK
<1>4. CASE \E j \in Jobs : Job(j)
  BY <1>4, PrepareOK, GetCandlesOK, AddCandlesOK, FinishOK, JobPanicsOK DEF Job
<1> QED BY <1>1, <1>2, <1>3, <1>4 DEF LoaderNext

\* The inductive invariant of the loader (candles_loader.go:22-135).
THEOREM LoaderInvariance == LoaderSpec => []IInv
BY InitOK, NextOK, PTL DEF LoaderSpec

\* The tokens in the pool are those of the goroutines at work, candles are of known
\* instruments and of times that have come (candles_loader.go:62-104).
THEOREM LoaderTypeCorrect == LoaderSpec => []TypeOK
<1>1. IInv => TypeOK
  BY DEF IInv
<1> QED BY <1>1, LoaderInvariance, PTL

\* No goroutine leaves a hole behind it (candles_loader.go:118-134).
THEOREM NoHoles == LoaderSpec => []LoadedSoFar
<1>1. IInv => LoadedSoFar
  BY DEF IInv
<1> QED BY <1>1, LoaderInvariance, PTL

\* A process that ends without a panic has loaded every entry in its whole range
\* (candles_loader.go:62-110).
THEOREM CleanEnd == LoaderSpec => []CleanEndIsWhole
<1>1. IInv => CleanEndIsWhole
  <2> SUFFICES ASSUME IInv, mpc = "ended", NEW j \in Jobs
               PROVE  jpc[j] = "done" /\ Loaded(j, range[j].to)
    BY DEF CleanEndIsWhole
  <2>1. jpc[j] = "done"
    BY ConfigType DEF IInv, TypeOK, MainOK, SpawnOK, Active
  <2>2. Loaded(j, t[j]) /\ t[j] >= range[j].to /\ t[j] \in Nat /\ range[j].to \in Int
    BY <2>1 DEF IInv, TypeOK, StoredOK, LoadedSoFar
  <2>3. Loaded(j, range[j].to)
    BY <2>2 DEF Loaded, Times
  <2> QED BY <2>1, <2>3
<1> QED BY <1>1, LoaderInvariance, PTL

\* A complete candle is never replaced (postgres.go:173-175).
THEOREM CompleteForGood == LoaderSpec => CompleteStays
<1>1. IInv /\ [LoaderNext]_vars =>
          [\A s \in Series, c \in Times :
              candles[s][c] = "complete" => candles'[s][c] = "complete"]_vars
  <2> SUFFICES ASSUME IInv, LoaderNext, NEW s \in Series, NEW c \in Times,
                      candles[s][c] = "complete"
               PROVE  candles'[s][c] = "complete"
    OBVIOUS
  <2>1. CASE UNCHANGED candles
    BY <2>1
  <2>2. CASE \E j \in Jobs : AddCandles(j)
    <3>1. PICK j \in Jobs : AddCandles(j)
      BY <2>2
    <3>2. candles' = [candles EXCEPT ![SeriesOf(j)] = Insert(candles[SeriesOf(j)], answer[j])]
      BY <3>1 DEF AddCandles
    <3>3. Insert(candles[s], answer[j])[c] = "complete"
      BY DEF Insert
    <3> QED BY <3>2, <3>3 DEF IInv, TypeOK
  <2> QED
    BY <2>1, <2>2 DEF LoaderNext, TimePasses, SigTerm, Run, Spawn, AllSpawned, End, Job,
       Prepare, GetCandles, Finish, JobPanics, tables
<1> QED BY <1>1, LoaderInvariance, PTL DEF LoaderSpec, CompleteStays
=============================================================================
